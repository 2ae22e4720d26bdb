------------------------------ MODULE Service ------------------------------
(***************************************************************************)
(* The modules about organisations, schedules and limits, side by side:    *)
(* the variable part says which of them a behaviour is about, since they   *)
(* share no state.  Those that keep time have one clock.                   *)
(***************************************************************************)
EXTENDS Membership

CONSTANTS
    Writer, MaxRows, Window, PageSize, NoHash,                      \* AuditChain
    Row, Table, TableOf, CascadesWith, KeptBy, DeleteOrder,         \* DataPrivacy
    ExportOrder, Job, KindOf, Walker, Editor, MaxWalks, NoJob, Nothing,
    Call, Threshold, MaxFails, MaxCalls,                            \* Breaker
    Unit, Capacity, Rates, Room, Publisher, MaxTime, MaxTakes,      \* Buckets
    Completion, Budgets, MaxMonth,                                  \* Spending
    Ticker, User, Kinds, RunAts, Interval, CronTimes, Hour,         \* BeatTick
    GoodHours, MinGap, MaxFires,
    Process, Conn, Tenant, Periodic, Period, MaxCloses,             \* SystemTicks
    MaxClock, MaxEdits,     \* of both kinds of schedules, of edits of rows and of schedules
    Parts                   \* the parts a specification is about

VARIABLES
    part,
    log, draft, clock, serial, reader, tampered, lapped,
    stored, unborn, job, elapsed, walk, hold, walks, edits, listed, late, shared, quiet,
    state, fails, cooled, call, calls, stale,
    tokens, stamp, rate, taken, purse, touched, wake, passed, slept,
    month, budget, pc, seen, billed, begun, crowd, opened,
    row, tick, edit, tasks, started, fires, changes, excused,
    lock, sched, jobs, closes, unsure, refused

auditVars == <<log, draft, serial, reader, tampered, lapped>>
privacyVars == <<stored, unborn, job, elapsed, walk, hold, walks, edits,
                 listed, late, shared, quiet>>
breakerVars == <<state, fails, cooled, call, calls, stale>>
bucketVars == <<tokens, stamp, rate, taken, purse, touched, wake, passed, slept>>
spendingVars == <<month, budget, pc, seen, billed, begun, crowd, opened>>
beatVars == <<row, tick, edit, tasks, started, fires, changes, excused>>
systemVars == <<lock, sched, jobs, closes, unsure, refused>>

A == INSTANCE AuditChain WITH walk <- reader
D == INSTANCE DataPrivacy WITH Kind <- KindOf
B == INSTANCE Breaker
L == INSTANCE Buckets WITH MaxClock <- MaxTime
C == INSTANCE Spending
T == INSTANCE BeatTick WITH Tick <- Ticker, edits <- changes
Sys == INSTANCE SystemTicks WITH Org <- Tenant, Kind <- Periodic

ServiceAssumption ==
    /\ MembershipAssumption /\ A!AuditChainAssumption /\ D!DataPrivacyAssumption
    /\ B!BreakerAssumption /\ L!BucketsAssumption /\ C!SpendingAssumption
    /\ T!BeatTickAssumption /\ Sys!SystemTicksAssumption
    /\ Parts \subseteq {"members", "audit", "privacy", "breaker", "buckets", "spending",
                        "schedules", "system"}

\* The parts a behaviour is not about have no state.
InitAll ==
    /\ part \in Parts
    /\ clock = 0
    /\ Init
    /\ IF part = "audit" THEN A!Init
       ELSE log = 0 /\ draft = 0 /\ serial = 0 /\ reader = 0 /\ tampered = 0
            /\ lapped = 0
    /\ IF part = "privacy" THEN D!Init
       ELSE stored = 0 /\ unborn = 0 /\ job = 0 /\ elapsed = 0 /\ walk = 0 /\ hold = 0
            /\ walks = 0 /\ edits = 0 /\ listed = 0 /\ late = 0 /\ shared = 0
            /\ quiet = 0
    /\ IF part = "breaker" THEN B!Init
       ELSE state = 0 /\ fails = 0 /\ cooled = 0 /\ call = 0 /\ calls = 0 /\ stale = 0
    /\ IF part = "buckets" THEN L!Init
       ELSE tokens = 0 /\ stamp = 0 /\ rate = 0 /\ taken = 0 /\ purse = 0 /\ touched = 0
            /\ wake = 0 /\ passed = 0 /\ slept = 0
    /\ IF part = "spending" THEN C!Init
       ELSE month = 0 /\ budget = 0 /\ pc = 0 /\ seen = 0 /\ billed = 0 /\ begun = 0
            /\ crowd = 0 /\ opened = 0
    /\ IF part = "schedules" THEN T!Init
       ELSE row = 0 /\ tick = 0 /\ edit = 0 /\ tasks = 0 /\ started = 0 /\ fires = 0
            /\ changes = 0 /\ excused = 0
    /\ IF part = "system" THEN Sys!Init
       ELSE lock = 0 /\ sched = 0 /\ jobs = 0 /\ closes = 0 /\ unsure = 0 /\ refused = 0

\* Nothing of the other parts changes.
Only(p) ==
    /\ part = p /\ part' = part
    /\ IF p = "members" THEN TRUE ELSE UNCHANGED vars
    /\ IF p = "audit" THEN TRUE ELSE UNCHANGED auditVars
    /\ IF p = "privacy" THEN TRUE ELSE UNCHANGED privacyVars
    /\ IF p = "breaker" THEN TRUE ELSE UNCHANGED breakerVars
    /\ IF p = "buckets" THEN TRUE ELSE UNCHANGED bucketVars
    /\ IF p = "spending" THEN TRUE ELSE UNCHANGED spendingVars
    /\ IF p = "schedules" THEN TRUE ELSE UNCHANGED beatVars
    /\ IF p = "system" THEN TRUE ELSE UNCHANGED systemVars
    /\ IF p \in {"audit", "buckets", "schedules", "system"} THEN TRUE ELSE UNCHANGED clock

NextAll ==
    \/ Only("members") /\ Next
    \/ Only("audit") /\ A!Next
    \/ Only("privacy") /\ D!Next
    \/ Only("breaker") /\ B!Next
    \/ Only("buckets") /\ L!Next
    \/ Only("spending") /\ C!Next
    \/ Only("schedules") /\ T!Next
    \/ Only("system") /\ Sys!Next

varsAll == <<part, clock, vars, auditVars, privacyVars, breakerVars, bucketVars,
             spendingVars, beatVars, systemVars>>

SpecAll == InitAll /\ [][NextAll]_varsAll
-----------------------------------------------------------------------------
\* The types of the part a behaviour is about.
TypesHold ==
    CASE part = "members" -> TypeOK [] part = "audit" -> A!TypeOK
      [] part = "privacy" -> D!TypeOK [] part = "breaker" -> B!TypeOK
      [] part = "buckets" -> L!TypeOK [] part = "spending" -> C!TypeOK
      [] part = "schedules" -> T!TypeOK [] part = "system" -> Sys!TypeOK

\* The chain of an untouched log verifies unless appends overlapped, and what
\* was changed or removed by hand shows; a reader told of the end has seen all.
LogTellsTheTruth ==
    part = "audit" => A!UntouchedVerifies /\ A!ChangeShows /\ A!RemovalShows
                      /\ A!EndOfLogIsTrue

\* A completed erasure left only what was written behind its back, and one that
\* was cancelled between two walks never began.
ErasureHolds == part = "privacy" => D!ErasureIsComplete /\ D!CancelHolds

\* The breaker opens in time and lets go only of an expired cooldown unless a call
\* read a row that changed under it; a bucket hands out no more than it gained,
\* a budget is passed only by the completions under way together, and a cost is
\* booked no later than it was incurred.
GatesHold ==
    /\ part = "breaker" => B!OpensAndProbes /\ B!HalfOpenIsOnTrial
    /\ part = "buckets" => L!TenantIsHeld /\ L!GovernorIsHeld
    /\ part = "spending" => C!OvershootIsTheCrowd /\ C!BilledLate

\* Every run.start stands for a fire and fires keep to the schedule, unless ticks
\* or writes overlap; one process leads the system scheduler, and it makes one
\* job of a kind for an organisation and a period.
ScheduleHolds ==
    /\ part = "schedules" => T!StartsAreFires /\ T!FiresKeepTheSchedule
    /\ part = "system" => Sys!OneLeader /\ Sys!OnePerPeriod
=============================================================================
