------------------------------ MODULE Targeting ------------------------------
(***************************************************************************)
(* Which accounts a run posts to: the selector of the workflow, the one    *)
(* that the words of a directive stand for (services/directive_router.py), *)
(* their resolution (services/target_resolver.py), and the second          *)
(* resolution after the review (services/workflow_service.py).             *)
(***************************************************************************)
EXTENDS Naturals, FiniteSets

CONSTANTS
    Account, Plugin, PluginOf,
    Label, LabelOf,   \* handles and tags, and the accounts that carry each
    Phrases,          \* sets of phrases a directive may be made of
    Stored,           \* selectors a workflow may be given
    MaxTurns          \* accounts that fail or recover

VARIABLES
    pinned,    \* workflow.platform_ids
    selector,  \* workflow.target_selector
    failing,   \* accounts in status error
    directive, \* of the run
    step,      \* what the run is doing
    posts,     \* the run's posts: none, review, published or failed, by account
    barred,    \* what the reviewer excludes
    turns,
    moved      \* history: an account failed or recovered since the start

targetVars == <<pinned, selector, failing, directive, step, posts, barred, turns, moved>>

(***************************************************************************)
(* Selectors.                                                              *)
(***************************************************************************)
Selector == [ids : SUBSET Account, plugins : SUBSET Plugin, labels : SUBSET Label,
             noIds : SUBSET Account, noPlugins : SUBSET Plugin]
NoSelector == [ids |-> {}, plugins |-> {}, labels |-> {}, noIds |-> {}, noPlugins |-> {}]
\* What a selector leaves out does not count.
IsEmpty(s) == s.ids = {} /\ s.plugins = {} /\ s.labels = {}
MergedWith(s, t) == [f \in DOMAIN s |-> s[f] \cup t[f]]

\* "to p", "all my p", "p accounts" ("to"), "not p", "except p" ("not"), and
\* "@handle", "tag:t", "my t accounts" ("label").
Phrase == ({"to", "not"} \X Plugin) \cup ({"label"} \X Label)

TargetingAssumption ==
    /\ PluginOf \in [Account -> Plugin] /\ LabelOf \in [Label -> SUBSET Account]
    /\ Stored \subseteq Selector /\ Phrases \subseteq SUBSET Phrase /\ MaxTurns \in Nat

Parse(words) ==
    LET Said(kind) == {w[2] : w \in {v \in words : v[1] = kind}} IN
    [NoSelector EXCEPT !.plugins = Said("to") \ Said("not"), !.labels = Said("label"),
                       !.noPlugins = Said("not")]

Connected == Account \ failing
Wanted(s) ==
    {a \in Connected : a \in s.ids \/ PluginOf[a] \in s.plugins
                       \/ \E l \in s.labels : a \in LabelOf[l]}
Pinned == pinned \cap Connected
\* Mutant of Fallback: an empty result is what was asked for.
FallbackNever(set) == set
Fallback(set) == IF set = {} THEN Pinned ELSE set
Combined(words) ==
    IF IsEmpty(Parse(words)) THEN selector ELSE MergedWith(selector, Parse(words))
Resolve(words) ==
    LET s == Combined(words) IN
    Fallback({a \in IF IsEmpty(s) THEN Pinned ELSE Wanted(s) :
                  a \notin s.noIds /\ PluginOf[a] \notin s.noPlugins})

TypeOK ==
    /\ pinned \subseteq Account /\ failing \subseteq Account /\ barred \subseteq Account
    /\ selector \in Selector /\ directive \subseteq Phrase
    /\ step \in {"new", "review", "done", "cancelled"}
    /\ posts \in [Account -> {"none", "review", "published", "failed"}]
    /\ turns \in 0 .. MaxTurns /\ moved \in BOOLEAN

\* Workflow.activate wants an account or a selector that is not empty.
Init ==
    /\ pinned \in SUBSET Account /\ selector \in Stored
    /\ pinned # {} \/ ~ IsEmpty(selector)
    /\ failing = {} /\ directive = {} /\ step = "new" /\ barred = {}
    /\ posts = [a \in Account |-> "none"] /\ turns = 0 /\ moved = FALSE

\* One post is drafted for each account and all go to the reviewer.
Start(words) ==
    /\ step = "new" /\ step' = "review"
    /\ directive' = words
    /\ posts' = [a \in Account |-> IF a \in Resolve(words) THEN "review" ELSE "none"]
    /\ UNCHANGED <<pinned, selector, failing, barred, turns, moved>>

\* An account fails, or is connected again.
Turn(a) ==
    /\ step # "done" /\ turns < MaxTurns
    /\ failing' = IF a \in failing THEN failing \ {a} ELSE failing \cup {a}
    /\ turns' = turns + 1
    /\ moved' = (moved \/ step = "review")
    /\ UNCHANGED <<pinned, selector, directive, step, posts, barred>>

\* Mutant of Words: the second resolution knows nothing of the directive.
WordsForgotten == {}
Words == directive

\* The run resolves again; posts of accounts it no longer finds stay in review,
\* and the run has succeeded.
Approve(set) ==
    /\ step = "review" /\ step' = "done"
    /\ barred' = set
    /\ posts' = [a \in Account |->
                    IF posts[a] = "none" THEN "none"
                    ELSE IF a \in set THEN "failed"
                    ELSE IF a \in Resolve(Words) THEN "published" ELSE posts[a]]
    /\ UNCHANGED <<pinned, selector, failing, directive, turns, moved>>

Reject ==
    /\ step = "review" /\ step' = "cancelled"
    /\ posts' = [a \in Account |-> IF posts[a] = "review" THEN "failed" ELSE posts[a]]
    /\ UNCHANGED <<pinned, selector, failing, directive, barred, turns, moved>>

Next ==
    \/ \E words \in Phrases : Start(words)
    \/ \E a \in Account : Turn(a)
    \/ \E set \in SUBSET Account : Approve(set)
    \/ Reject

Spec == Init /\ [][Next]_targetVars
-----------------------------------------------------------------------------
\* The publication of an approved run "hits the exact account set the user asked
\* for": the posts that were reviewed, unless an account failed or recovered.
SameAccounts ==
    step = "done" /\ ~ moved => \A a \in Account : posts[a] # "none" =>
        posts[a] = IF a \in barred THEN "failed" ELSE "published"

\* "A vague directive never silently drops a publish": a run starts without a
\* post only when no pinned account is connected.
NeverSilent ==
    step = "review" /\ ~ moved => (Pinned # {} => \E a \in Account : posts[a] # "none")

\* What the directive excludes gets no post ("then minus exclusions").
ExclusionHolds ==
    step = "review" => \A a \in Account :
        <<"not", PluginOf[a]>> \in directive => posts[a] = "none"
=============================================================================
