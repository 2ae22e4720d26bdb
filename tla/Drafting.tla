------------------------------ MODULE Drafting ------------------------------
(***************************************************************************)
(* How a run's drafts come to be (agents/): the planner makes blueprints,  *)
(* the tailor drops and rewords them, the executor writes a draft of each, *)
(* the evaluator scores them, and the critique approves, asks for another  *)
(* attempt, or leaves it to a person.  An inline run does it in one go     *)
(* (agents/orchestrator.py, _execute, _rerun_with_feedback), without the   *)
(* tailor; a durable one in a phase each, and it loads the accounts again  *)
(* in every phase.  What a model answers is any answer it can give.        *)
(* DurableRun and InlineRun have the crashes, the failures of models and   *)
(* the retries.                                                            *)
(***************************************************************************)
EXTENDS Naturals, Sequences, FiniteSets, Functions

CONSTANTS
    Account, PluginOf,     \* the workflow's accounts, in order, and the plugin of each
    Prefers, Requires,     \* media kinds of a plugin in order; the plugins that need media
    Media, KindOf,         \* source assets by url, and their kinds
    ItemMedia,             \* the media of each chosen item, best item first
    BriefLinks, ItemLinks, \* links of the directive and of the items
    Within,                \* the links whose text is part of a link's text
    Profile, Rules, Denied,  \* compliance profiles, those with rules, platforms denied to each
    MaxRevisions, MaxBlueprints, MaxRounds, MaxGone

VARIABLES
    path, profile,  \* durable or inline; compliance_profile
    accounts,  \* the places in Account of those an inline run has loaded
    gone,      \* accounts that were disconnected
    step,
    plan,      \* blueprints by number: a plugin, and the attached media
    drafts,    \* by the numbers of their blueprints
    revision,  \* revision_count, or rerun_count
    drafted,   \* history: executor runs since the last plan
    rounds,    \* Revise decisions of reviewers
    picture,   \* whether the last of them came with one
    posts,     \* what was persisted: the round, the draft and the account
    live,      \* what was published: the post, and the draft whose text went out
    human      \* history: a person approved

vars == <<path, profile, accounts, gone, step, plan, drafts, revision, drafted, rounds,
          picture, posts, live, human>>
config == <<path, profile>>

Plugin == {PluginOf[a] : a \in Range(Account)}
Link == BriefLinks \cup ItemLinks
NoMedia == "no media"
Generated == "generated"
Picture == "picture"

DraftingAssumption ==
    /\ Account \in Seq(Range(Account)) /\ Account # <<>>
    /\ Prefers \in [Plugin -> Seq({"image", "video"})] /\ Requires \subseteq Plugin
    /\ KindOf \in [Media -> {"image", "video"}] /\ ItemMedia \in Seq(Seq(Media))
    /\ Media \cap {NoMedia, Generated, Picture} = {}
    /\ Within \in [Link -> SUBSET Link] /\ Rules \subseteq Profile
    /\ Denied \in [Profile -> SUBSET Plugin] /\ MaxRevisions \in Nat \ {0}
    /\ "none" \in Profile => Denied["none"] = {}
    /\ {MaxBlueprints, MaxRounds, MaxGone} \subseteq Nat

Blueprint == [plugin : Plugin, media : Media \cup {NoMedia}]
\* fault: wording that is banned everywhere, or that breaks the rules of a profile.
Draft == [plugin : Plugin, links : SUBSET Link, fault : {"none", "banned", "rule"},
          media : Media \cup {NoMedia, Generated, Picture}]
Post == [round : 0 .. MaxRounds, draft : Nat, account : Range(Account)]

TypeOK ==
    /\ path \in {"inline", "durable"} /\ profile \in Profile
    /\ accounts \subseteq DOMAIN Account /\ gone \subseteq Range(Account)
    /\ step \in {"plan", "tailor", "execute", "critique", "review", "waiting", "exhausted",
                 "succeeded"}
    /\ DOMAIN plan \subseteq Nat /\ plan \in [DOMAIN plan -> Blueprint]
    /\ DOMAIN drafts \subseteq Nat /\ drafts \in [DOMAIN drafts -> Draft]
    /\ revision \in Nat /\ drafted \in Nat
    /\ rounds \in 0 .. MaxRounds /\ picture \in BOOLEAN /\ human \in BOOLEAN
    /\ posts \subseteq Post /\ live \subseteq [post : Post, text : Nat]

Init ==
    /\ path \in {"inline", "durable"} /\ profile \in Profile
    /\ accounts = DOMAIN Account /\ gone = {}
    /\ step = "plan" /\ plan = <<>> /\ drafts = <<>>
    /\ revision = 0 /\ drafted = 0 /\ rounds = 0 /\ picture = FALSE
    /\ posts = {} /\ live = {} /\ human = FALSE

\* An account is disconnected; a workflow keeps some.
Disconnect(a) ==
    /\ a \notin gone /\ Cardinality(gone) < MaxGone /\ Range(Account) # gone \cup {a}
    /\ gone' = gone \cup {a}
    /\ UNCHANGED <<config, accounts, step, plan, drafts, revision, drafted, rounds,
                   picture, posts, live, human>>

Least(S) == CHOOSE n \in S : \A m \in S : n <= m
PluginAt(i) == PluginOf[Account[i]]

Present == {i \in DOMAIN Account : Account[i] \notin gone}
Accounts == IF path = "inline" THEN accounts ELSE Present
-----------------------------------------------------------------------------
\* The first asset, best item first, of the first preferred kind there is: max_items
\* is one everywhere, so that an url that comes again changes nothing.
AssetsOf(i, kinds) == {j \in DOMAIN ItemMedia[i] : KindOf[ItemMedia[i][j]] \in kinds}
ItemsWith(kinds) == {i \in DOMAIN ItemMedia : AssetsOf(i, kinds) # {}}
FirstOf(kinds) ==
    LET i == Least(ItemsWith(kinds)) IN ItemMedia[i][Least(AssetsOf(i, kinds))]
\* Mutant of Attached: the first asset whatever its kind.
AttachedAny(p) ==
    IF ItemsWith({"image", "video"}) = {} THEN NoMedia ELSE FirstOf({"image", "video"})
Attached(p) ==
    LET kinds == {k \in DOMAIN Prefers[p] : ItemsWith({Prefers[p][k]}) # {}}
    IN  IF kinds = {} THEN NoMedia ELSE FirstOf({Prefers[p][Least(kinds)]})

\* target_platforms: a plugin once in a first inline run, once for each account
\* in a durable run and in a run with a reviewer's feedback.
Targets ==
    IF path = "inline" /\ rounds = 0
    THEN {i \in Accounts : \A j \in Accounts : PluginAt(j) = PluginAt(i) => i <= j}
    ELSE Accounts

\* Blueprints for other platforms are dropped; an answer without any, or that
\* cannot be read, gives one for each target.
Answers ==
    (UNION {[1 .. n -> {PluginAt(i) : i \in Targets}] : n \in 1 .. MaxBlueprints})
        \cup {[i \in Targets |-> PluginAt(i)]}

Plan ==
    /\ step = "plan"
    /\ \E answer \in Answers :
          plan' = [k \in DOMAIN answer |->
                      [plugin |-> answer[k], media |-> Attached(answer[k])]]
    /\ step' = IF path = "durable" /\ (Cardinality(DOMAIN plan') > 1 \/ profile # "none")
               THEN "tailor" ELSE "execute"
    /\ UNCHANGED <<config, accounts, gone, drafts, revision, drafted, rounds, picture,
                   posts, live, human>>

\* Mutant of Tailored: the tailor only rewords.
TailoredAll == plan
Tailored ==
    [k \in {j \in DOMAIN plan : plan[j].plugin \notin Denied[profile]} |-> plan[k]]
\* Rewording fails softly, and what it changes is not modelled.
Tailor ==
    /\ step = "tailor"
    /\ IF DOMAIN Tailored = {} THEN step' = "succeeded" /\ UNCHANGED plan
       ELSE step' = "execute" /\ plan' = Tailored
    /\ UNCHANGED <<config, accounts, gone, drafts, revision, drafted, rounds, picture,
                   posts, live, human>>

\* Mutant of Wanted: only the directive is searched for links.
WantedOfBrief == BriefLinks
Wanted == Link
\* _ensure_urls_present: the links that are not in the text are appended to it; one
\* that is part of a link in the text counts as present.
Ensured(kept) == kept \cup {u \in Wanted : \A v \in kept : u # v /\ u \notin Within[v]}

\* What a plugin that needs media is given when no source has any: an image, which
\* a video platform gets too, or a placeholder of the mock generator.
MediaFor(b) ==
    IF b.media # NoMedia THEN b.media
    ELSE IF b.plugin \in Requires THEN Generated ELSE NoMedia

\* What may be wrong with a text that somebody looks for.
Faults == {"none", "banned"} \cup (IF profile \in Rules THEN {"rule"} ELSE {})

\* A person's picture replaces the media of every draft.
Execute ==
    /\ step = "execute"
    /\ \E links \in [DOMAIN plan -> {Ensured(kept) : kept \in SUBSET Link}],
          fault \in [DOMAIN plan -> Faults] :
          drafts' = [k \in DOMAIN plan |->
              [plugin |-> plan[k].plugin, links |-> links[k], fault |-> fault[k],
               media |-> IF picture THEN Picture ELSE MediaFor(plan[k])]]
    /\ drafted' = drafted + 1
    /\ step' = "critique"
    /\ UNCHANGED <<config, accounts, gone, plan, revision, rounds, picture, posts, live,
                   human>>
-----------------------------------------------------------------------------
\* scan_drafts keeps the violations by platform, and a report is given those of
\* its draft's platform.
\* Mutant of Scanned: a later draft of the platform overwrites them.
ScannedLast(k) ==
    LET same == {j \in DOMAIN drafts : drafts[j].plugin = drafts[k].plugin}
        last == CHOOSE j \in same : \A i \in same : i <= j
    IN  profile \in Rules /\ drafts[last].fault = "rule"
Scanned(k) ==
    profile \in Rules /\ \E j \in DOMAIN drafts :
        drafts[j].plugin = drafts[k].plugin /\ drafts[j].fault = "rule"
Flagged == \E k \in DOMAIN drafts : drafts[k].fault = "banned" \/ Scanned(k)

\* Mutant of MayRevise: one attempt more.
MayReviseAgain == revision <= MaxRevisions
MayRevise == revision < MaxRevisions

\* The model adds flags of its own, and scores: what the critique may say.
Decisions ==
    IF Flagged THEN {"escalate"}
    ELSE {"approve", "escalate"} \cup (IF MayRevise THEN {"revise"} ELSE {})

\* A durable run matches each draft with the first account of its plugin, or else
\* with the first there is.
MatchOf(p) ==
    LET same == {i \in Present : PluginAt(i) = p}
    IN  Account[Least(IF same = {} THEN Present ELSE same)]
Persisted ==
    IF path = "durable"
    THEN {[round |-> 0, draft |-> k, account |-> MatchOf(drafts[k].plugin)] :
              k \in DOMAIN drafts}
    ELSE {p \in [round : {rounds}, draft : DOMAIN drafts,
                 account : {Account[i] : i \in accounts}] :
              PluginOf[p.account] = drafts[p.draft].plugin}

LastOf(p) ==
    LET same == {k \in DOMAIN drafts : drafts[k].plugin = p}
    IN  CHOOSE k \in same : \A j \in same : j <= k
Reachable(ps) == {p \in ps : p.account \notin gone}

\* Without a person: an inline run sends the last draft of the plugin with every
\* post of it, a durable one makes a post of the first draft of each plugin.
Sent(ps) ==
    IF path = "inline"
    THEN {[post |-> p, text |-> LastOf(PluginOf[p.account])] : p \in Reachable(ps)}
    ELSE {[post |-> p, text |-> p.draft] :
              p \in {q \in ps : \A j \in DOMAIN drafts :
                                    drafts[j].plugin = drafts[q.draft].plugin => q.draft <= j}}

\* After a reviewer's feedback the drafts go back to him whatever the critique says.
Critique ==
    /\ step = "critique"
    /\ \E decision \in Decisions,
          approval, channel \in BOOLEAN :  \* require_human_approval; a review_channel is given
       \/ /\ decision = "revise"
          /\ revision' = revision + 1
          /\ IF path = "durable" /\ revision + 1 > MaxRevisions
             THEN step' = "exhausted" /\ posts' = Persisted
             ELSE step' = "execute" /\ UNCHANGED posts
          /\ UNCHANGED live
       \/ /\ decision = "approve" /\ ~ approval /\ rounds = 0
          /\ live' = Sent(Persisted) /\ step' = "succeeded"
          /\ posts' = IF path = "inline" THEN Persisted ELSE {s.post : s \in live'}
          /\ UNCHANGED revision
       \/ /\ decision = "escalate" \/ (decision = "approve" /\ (approval \/ rounds > 0))
          /\ posts' = posts \cup Persisted
          /\ step' = IF path = "inline" /\ ~ approval /\ ~ channel /\ rounds = 0
                     THEN "waiting" ELSE "review"
          /\ UNCHANGED <<revision, live>>
    /\ UNCHANGED <<config, accounts, gone, plan, drafts, drafted, rounds, picture, human>>

\* resume_after_review: every post of the run goes out as it was persisted, those
\* of earlier rounds too.
Approve ==
    /\ step = "review" /\ path = "inline"
    /\ live' = {[post |-> p, text |-> p.draft] : p \in Reachable(posts)}
    /\ human' = TRUE /\ step' = "succeeded"
    /\ UNCHANGED <<config, accounts, gone, plan, drafts, revision, drafted, rounds,
                   picture, posts>>

\* A run without a session: its posts are approved one by one.
PublishNow ==
    /\ step = "waiting" \/ (step = "review" /\ path = "durable")
    /\ \E p \in Reachable(posts) : live' = live \cup {[post |-> p, text |-> p.draft]}
    /\ human' = TRUE
    /\ UNCHANGED <<config, accounts, gone, step, plan, drafts, revision, drafted, rounds,
                   picture, posts>>

\* resume with Revise: the agents start over with the feedback as for the
\* accounts there are now.  The first time the attempts of the run are forgotten.
Revise ==
    /\ step = "review" /\ path = "inline" /\ rounds < MaxRounds
    /\ rounds' = rounds + 1
    /\ revision' = (IF rounds = 0 THEN 0 ELSE revision) + 1
    /\ picture' \in BOOLEAN
    /\ accounts' = Present /\ drafted' = 0 /\ step' = "plan"
    /\ UNCHANGED <<config, gone, plan, drafts, posts, live, human>>

Next ==
    \/ \E a \in Range(Account) : Disconnect(a)
    \/ Plan \/ Tailor \/ Execute \/ Critique \/ Approve \/ PublishNow \/ Revise

Spec == Init /\ [][Next]_vars
-----------------------------------------------------------------------------
\* "regulated orgs can't accidentally publish a non-compliant post"
\* (services/compliance.py): wording that a rule of the profile or the list of
\* banned terms knows goes out only when a person has approved it.
FlaggedNeedsHuman ==
    ~ human => \A p \in live : drafts[p.text].fault = "none"

\* A durable run makes nothing for a platform its profile denies, unless an
\* account was disconnected and its draft went to another one.
DenylistHolds ==
    path = "durable" /\ gone = {} =>
        \A p \in posts : PluginOf[p.account] \notin Denied[profile]

\* The critique gives up in time: no plan is executed more often than the limit
\* allows, and the guard of the durable runner is never needed.
RevisionsEnd == drafted <= MaxRevisions + 1 /\ step # "exhausted"

\* Every draft has the links of the brief and of the items, or one they are part of.
LinksKept ==
    \A k \in DOMAIN drafts, u \in Link :
        u \in drafts[k].links \/ \E v \in drafts[k].links : u \in Within[v]

\* A platform gets source media of a kind it takes, and media if it needs some.
MediaFits ==
    \A k \in DOMAIN drafts :
        LET d == drafts[k] IN
        /\ d.media \in Media => KindOf[d.media] \in Range(Prefers[d.plugin])
        /\ d.plugin \in Requires => d.media # NoMedia

\* An account gets one post of a round, and the reviewer approves the text he was
\* shown, when the plan names no platform twice and no account left.  His
\* snapshot has the last draft of each platform.  The posts of the rounds before
\* go out with it: an approval publishes what the reviewer had sent back.
Repeats == \E j, k \in DOMAIN drafts : j # k /\ drafts[j].plugin = drafts[k].plugin
LiveNow == {p \in live : p.post.round = rounds}
OncePerAccount ==
    ~ Repeats /\ gone = {} =>
        \A p, q \in LiveNow : p.post.account = q.post.account => p = q
SeenIsSent ==
    ~ Repeats => \A p \in LiveNow : path = "inline" => p.text = LastOf(PluginOf[p.post.account])
=============================================================================
