------------------------------ MODULE Content ------------------------------
(***************************************************************************)
(* The modules about content side by side: campaigns, and what a run's     *)
(* items, accounts, drafts and posts pass through.  The variable part says *)
(* which of them a behaviour is about, since they share no state.          *)
(***************************************************************************)
EXTENDS Campaigns

CONSTANTS
    MaxText, MaxTags, MaxPolls, MaxTries,                           \* Adapters
    Posted, PlatformOf, Aggregate, MaxReal, MaxUndone, MaxShots, MaxRounds, \* Engagement
    Persists, Floor, MaxRecycle, PerRun, Originals, Runner,         \* Recycling
    MaxRuns, MaxPosts,
    Person, Policy, Ticket, Rung, MayDecide, Needs, Optional,       \* Approval
    Ladders, Flow, Platform, MaxDecisions,
    Variant, Caller, MaxStarts,                                     \* Experiments
    Job, User, MaxDocs,                                             \* Knowledge
    Source, FeedKind, MaxEntry, HomeOf, Limit, Strategies,          \* Intake
    MaxPerRun, PerSource, MaxPerSource, TotalCap, TopK, Window,
    RunAccount, RunKind, MaxClock, MaxLoads,
    Account, AccountPlugin, PluginOf, Label, LabelOf, Phrases,      \* Targeting
    Stored, MaxTurns,
    Channels, Chats, Requests, Typed, Labels, MaxMessages,          \* Inbox
    MaxStarted, MaxSessions, MaxTroubles,
    DraftAccount, DraftPlugin, Prefers, Requires, Media, KindOf,    \* Drafting
    ItemMedia, BriefLinks, ItemLinks, Within, Profile, Rules, Denied,
    MaxRevisions, MaxBlueprints, MaxRevises, MaxGone,
    Parts  \* the parts a specification is about

VARIABLES
    part,
    plat, caller, payload, pc, at, container, polls, tries, shown, lost,
    real, undone, shots, agg, rollup, rounds,
    rows, enabled, run, runs, wiped,
    policies, requests, edited,
    state, window, variant, entered, start, starts, through, closed,
    top, docs, made, job, adding, twice,
    clock, there, strategy, durable, consumed, items, stage, loads, label, live, heard, unwritten,
    pinned, selector, failing, directive, turn, drafts, barred, turns, moved,
    channel, trigger, last, said, messages, jobs, sessions, req, troubles,
    path, profile, accounts, gone, phase, plan, written, revision, drafted,
    revises, picture, queued, outbox, human

adapterVars == <<plat, caller, payload, pc, at, container, polls, tries, shown, lost>>
engagementVars == <<real, undone, shots, agg, rollup, rounds>>
recyclingVars == <<rows, enabled, run, runs, wiped>>
approvalVars == <<policies, requests, edited>>
experimentVars == <<state, window, variant, entered, start, starts, through, closed>>
knowledgeVars == <<top, docs, made, job, adding, twice>>
intakeVars == <<clock, there, strategy, durable, consumed, items, stage, loads, label, live,
                heard, unwritten>>
targetVars == <<pinned, selector, failing, directive, turn, drafts, barred, turns, moved>>
chatVars == <<channel, trigger, last, said, messages, jobs, sessions, req, troubles>>
draftVars == <<path, profile, accounts, gone, phase, plan, written, revision,
               drafted, revises, picture, queued, outbox, human>>

A == INSTANCE Adapters WITH posts <- shown
E == INSTANCE Engagement WITH Post <- Posted
R == INSTANCE Recycling WITH posts <- rows
V == INSTANCE Approval WITH Request <- Ticket, Step <- Rung
X == INSTANCE Experiments WITH status <- state, elapsed <- window, rows <- entered
K == INSTANCE Knowledge WITH Post <- Posted, shared <- twice
I == INSTANCE Intake WITH
        PluginOf <- FeedKind, Account <- RunAccount, KindOf <- RunKind, MaxRuns <- MaxLoads,
        pc <- stage, runs <- loads, status <- label, lost <- unwritten
T == INSTANCE Targeting WITH Plugin <- AccountPlugin, step <- turn, posts <- drafts
C == INSTANCE Inbox WITH MaxRuns <- MaxStarted, runs <- jobs
G == INSTANCE Drafting WITH
        Account <- DraftAccount, PluginOf <- DraftPlugin, MaxRounds <- MaxRevises,
        step <- phase, drafts <- written, rounds <- revises, posts <- queued,
        live <- outbox

ContentAssumption ==
    /\ A!AdaptersAssumption /\ E!EngagementAssumption /\ R!RecyclingAssumption
    /\ V!ApprovalAssumption /\ X!ExperimentsAssumption /\ K!KnowledgeAssumption
    /\ I!IntakeAssumption /\ T!TargetingAssumption /\ C!InboxAssumption
    /\ G!DraftingAssumption
    /\ Parts \subseteq {"campaigns", "publishing", "engagement", "recycling", "approval",
                        "experiments", "knowledge", "selection", "targeting", "inbox",
                        "drafting"}

\* The parts a behaviour is not about have no state.
InitAll ==
    /\ part \in Parts
    /\ Init
    /\ IF part = "publishing" THEN A!Init
       ELSE plat = 0 /\ caller = 0 /\ payload = 0 /\ pc = 0 /\ at = 0 /\ container = 0
            /\ polls = 0 /\ tries = 0 /\ shown = 0 /\ lost = 0
    /\ IF part = "engagement" THEN E!Init
       ELSE real = 0 /\ undone = 0 /\ shots = 0 /\ agg = 0 /\ rollup = 0 /\ rounds = 0
    /\ IF part = "recycling" THEN R!Init
       ELSE rows = 0 /\ enabled = 0 /\ run = 0 /\ runs = 0 /\ wiped = 0
    /\ IF part = "approval" THEN V!Init
       ELSE policies = 0 /\ requests = 0 /\ edited = 0
    /\ IF part = "experiments" THEN X!Init
       ELSE state = 0 /\ window = 0 /\ variant = 0 /\ entered = 0 /\ start = 0
            /\ starts = 0 /\ through = 0 /\ closed = 0
    /\ IF part = "knowledge" THEN K!Init
       ELSE top = 0 /\ docs = 0 /\ made = 0 /\ job = 0 /\ adding = 0 /\ twice = 0
    /\ IF part = "selection" THEN I!Init
       ELSE clock = 0 /\ there = 0 /\ strategy = 0 /\ durable = 0 /\ consumed = 0
            /\ items = 0 /\ stage = 0 /\ loads = 0 /\ label = 0 /\ live = 0
            /\ heard = 0 /\ unwritten = 0
    /\ IF part = "targeting" THEN T!Init
       ELSE pinned = 0 /\ selector = 0 /\ failing = 0 /\ directive = 0 /\ turn = 0
            /\ drafts = 0 /\ barred = 0 /\ turns = 0 /\ moved = 0
    /\ IF part = "inbox" THEN C!Init
       ELSE channel = 0 /\ trigger = 0 /\ last = 0 /\ said = 0 /\ messages = 0
            /\ jobs = 0 /\ sessions = 0 /\ req = 0 /\ troubles = 0
    /\ IF part = "drafting" THEN G!Init
       ELSE path = 0 /\ profile = 0 /\ accounts = 0 /\ gone = 0 /\ phase = 0 /\ plan = 0
            /\ written = 0 /\ revision = 0 /\ drafted = 0 /\ revises = 0
            /\ picture = 0 /\ queued = 0 /\ outbox = 0 /\ human = 0

\* Nothing of the other parts changes.
Only(p) ==
    /\ part = p /\ part' = part
    /\ IF p = "campaigns" THEN TRUE ELSE UNCHANGED vars
    /\ IF p = "publishing" THEN TRUE ELSE UNCHANGED adapterVars
    /\ IF p = "engagement" THEN TRUE ELSE UNCHANGED engagementVars
    /\ IF p = "recycling" THEN TRUE ELSE UNCHANGED recyclingVars
    /\ IF p = "approval" THEN TRUE ELSE UNCHANGED approvalVars
    /\ IF p = "experiments" THEN TRUE ELSE UNCHANGED experimentVars
    /\ IF p = "knowledge" THEN TRUE ELSE UNCHANGED knowledgeVars
    /\ IF p = "selection" THEN TRUE ELSE UNCHANGED intakeVars
    /\ IF p = "targeting" THEN TRUE ELSE UNCHANGED targetVars
    /\ IF p = "inbox" THEN TRUE ELSE UNCHANGED chatVars
    /\ IF p = "drafting" THEN TRUE ELSE UNCHANGED draftVars

NextAll ==
    \/ Only("campaigns") /\ Next
    \/ Only("publishing") /\ A!Next
    \/ Only("engagement") /\ E!Next
    \/ Only("recycling") /\ R!Next
    \/ Only("approval") /\ V!Next
    \/ Only("experiments") /\ X!Next
    \/ Only("knowledge") /\ K!Next
    \/ Only("selection") /\ I!Next
    \/ Only("targeting") /\ T!Next
    \/ Only("inbox") /\ C!Next
    \/ Only("drafting") /\ G!Next

varsAll == <<part, vars, adapterVars, engagementVars, recyclingVars, approvalVars,
             experimentVars, knowledgeVars, intakeVars, targetVars, chatVars, draftVars>>

SpecAll == InitAll /\ [][NextAll]_varsAll
-----------------------------------------------------------------------------
\* The types of the part a behaviour is about.
TypesHold ==
    CASE part = "campaigns" -> TypeOK [] part = "publishing" -> A!TypeOK
      [] part = "engagement" -> E!TypeOK [] part = "recycling" -> R!TypeOK
      [] part = "approval" -> V!TypeOK [] part = "experiments" -> X!TypeOK
      [] part = "knowledge" -> K!TypeOK [] part = "selection" -> I!TypeOK
      [] part = "targeting" -> T!TypeOK [] part = "inbox" -> C!TypeOK
      [] part = "drafting" -> G!TypeOK

\* A run that is approved posts to the accounts that were reviewed, and none that
\* has an account starts with none.  A draft is on its platform once, but for
\* posts whose answer was lost; publish returns when a post is there, Instagram
\* never publishes an unfinished container, and media or length are lost only
\* where the adapter is known for it.
PublishingHolds ==
    /\ part = "targeting" => T!SameAccounts /\ T!NeverSilent
    /\ part = "drafting" => G!FlaggedNeedsHuman /\ G!DenylistHolds /\ G!RevisionsEnd
                            /\ G!LinksKept /\ G!MediaFits /\ G!OncePerAccount /\ G!SeenIsSent
    /\ part = "publishing" => A!OnceUnlessLost /\ A!ReturnedIsPosted /\ A!NeverEarly
                              /\ A!MediaDropsAreKnown /\ A!LengthIsBounded

\* A score falls only by an incomplete fetch or by reactions taken back, reactions
\* give a score, and the best score was true; lines of recycled posts end while
\* their counts are kept, and a run makes no second copy of a post; a post becomes
\* one document.
LearningHolds ==
    /\ part = "engagement" => E!ScoresFallByFailure /\ E!ReactionsCount /\ E!BestWasTrue
    /\ part = "recycling" => R!LinesEnd /\ R!OneCopyPerRun
    /\ part = "knowledge" => K!IngestedOnce

\* No item is published by two runs, rows that stay consumed are out, rotation
\* serves every source, and a trace tells of every item; an approval is earned and
\* a rejection final, open requests wait for somebody, a closed experiment stays
\* closed, and its rows stand for nothing sent; a chat decides its own drafts, a
\* tap is not lost with its request, and a brief keeps its picture.
DecisionsHold ==
    /\ part = "selection" => I!NeverTwice /\ I!RowsAreOut /\ I!RotationServesAll
                            /\ I!TraceIsComplete
    /\ part = "approval" => V!ApprovedIsEarned /\ V!RejectionIsLast /\ V!WaitsForSomebody
    /\ part = "experiments" => X!ClosedStays /\ X!RowsAreEmpty
    /\ part = "inbox" => C!OwnChat /\ C!LabelsAreNoFeedback /\ C!TapsAreKept
                         /\ C!BriefPictureStays
=============================================================================
