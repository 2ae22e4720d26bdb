----------------------------- MODULE SystemTicks -----------------------------
(***************************************************************************)
(* The system scheduler (services/jobs/system_scheduler.py).  Every worker *)
(* process runs one; whoever gets the advisory lock, on whatever pooled    *)
(* connection its probe was given, enqueues the periodic jobs that are     *)
(* due, under keys that name the period.  The lock belongs to the session  *)
(* and is never unlocked: it goes when its connection is closed.           *)
(***************************************************************************)
EXTENDS Naturals, FiniteSets

CONSTANTS
    Process, Conn,  \* worker processes, the connections of each one's pool
    Org,            \* the organisations that are active
    Kind,           \* the periodic kinds, "jobs.cleanup" among them
    Period,         \* Period[kind], in ticks of the clock
    MaxClock, MaxCloses

VARIABLES
    clock,
    lock,     \* the session that holds the advisory lock, or NoSession
    sched,    \* the kinds each scheduler has still to look at, since when, and its _last_run
    jobs,     \* the jobs there are: kind, organisation, the period in the key
    closes,
    unsure,   \* history: a probe raised, or a leader's session was closed under it
    refused   \* history: kinds of which an enqueue failed for a passing reason

vars == <<clock, lock, sched, jobs, closes, unsure, refused>>

SystemTicksAssumption ==
    /\ Period \in [Kind -> Nat \ {0}] /\ MaxClock \in Nat /\ MaxCloses \in Nat
    /\ "none" \notin Process

NoSession == [proc |-> "none", conn |-> "none"]
Sessions == [proc : Process, conn : Conn]
Never == MaxClock + 1  \* _last_run is 0.0: every kind is due at once
\* The zero UUID that jobs.cleanup is enqueued for: no row of organizations.
SystemOrg == "system"

TypeOK ==
    /\ clock \in 0 .. MaxClock /\ lock \in Sessions \cup {NoSession}
    /\ sched \in [Process -> [todo : SUBSET Kind, now : 0 .. MaxClock,
                              last : [Kind -> 0 .. Never]]]
    /\ jobs \subseteq [kind : Kind, org : Org, period : 0 .. MaxClock]
    /\ closes \in 0 .. MaxCloses /\ unsure \in BOOLEAN /\ refused \subseteq Kind

Idle == [todo |-> {}, now |-> 0, last |-> [k \in Kind |-> Never]]
Init ==
    /\ clock = 0 /\ lock = NoSession /\ sched = [p \in Process |-> Idle]
    /\ jobs = {} /\ closes = 0 /\ unsure = FALSE /\ refused = {}

TimePasses ==
    /\ clock < MaxClock
    /\ clock' = clock + 1
    /\ UNCHANGED <<lock, sched, jobs, closes, unsure, refused>>

\* Mutant of GetsLock: a shared lock.
GetsLockShared(session) == TRUE
\* pg_try_advisory_lock: a session may take again what it holds.
GetsLock(session) == lock \in {NoSession, session}

Lead(p) == sched' = [sched EXCEPT ![p].todo = Kind, ![p].now = clock]
\* _is_leader, and the clock of _run_due_kinds.
Probe(p, c) ==
    LET session == [proc |-> p, conn |-> c] IN
    /\ sched[p].todo = {} /\ GetsLock(session)
    /\ lock' = session /\ Lead(p)
    /\ UNCHANGED <<clock, jobs, closes, unsure, refused>>
ProbeRaises(p) ==
    /\ sched[p].todo = {}
    /\ Lead(p) /\ unsure' = TRUE
    /\ UNCHANGED <<clock, lock, jobs, closes, refused>>

IsDue(p, k) == sched[p].last[k] = Never \/ sched[p].now - sched[p].last[k] >= Period[k]
\* _enqueue_kind and _active_orgs: the organisations of its jobs. A foreign key
\* refuses the one of jobs.cleanup.
Targets(k) == (IF k = "jobs.cleanup" THEN {SystemOrg} ELSE Org) \cap Org

\* Mutant of Key: the key names the moment.
KeyByMoment(k) == clock
Key(k) == clock \div Period[k]
RunKind(p, k) ==
    /\ k \in sched[p].todo
    /\ IF ~ IsDue(p, k)
       THEN /\ sched' = [sched EXCEPT ![p].todo = @ \ {k}]
            /\ UNCHANGED <<jobs, refused>>
       ELSE /\ sched' = [sched EXCEPT ![p].todo = @ \ {k}, ![p].last[k] = sched[p].now]
            \* a kind that fails waits for its next period
            /\ \E lost \in BOOLEAN :
                  /\ jobs' = IF lost THEN jobs
                             ELSE jobs \cup {[kind |-> k, org |-> o, period |-> Key(k)] : o \in Targets(k)}
                  /\ refused' = IF lost THEN refused \cup {k} ELSE refused
    /\ UNCHANGED <<clock, lock, closes, unsure>>

\* The pool drops a connection, or the whole process is restarted.
CloseConn(p, c) ==
    /\ closes < MaxCloses /\ lock = [proc |-> p, conn |-> c]
    /\ closes' = closes + 1 /\ lock' = NoSession
    /\ unsure' = (unsure \/ sched[p].todo # {})
    /\ UNCHANGED <<clock, sched, jobs, refused>>
Restart(p) ==
    /\ closes < MaxCloses
    /\ closes' = closes + 1
    /\ lock' = IF lock.proc = p THEN NoSession ELSE lock
    /\ sched' = [sched EXCEPT ![p] = Idle]
    /\ UNCHANGED <<clock, jobs, unsure, refused>>

Next ==
    \/ TimePasses
    \/ \E p \in Process : \/ ProbeRaises(p) \/ Restart(p)
                          \/ \E c \in Conn : Probe(p, c) \/ CloseConn(p, c)
                          \/ \E k \in Kind : RunKind(p, k)

Spec == Init /\ [][Next]_vars
-----------------------------------------------------------------------------
\* "only one worker schedules at a time": two schedule together only if a probe
\* raised or the leader lost its session.
OneLeader == ~ unsure => \A p, q \in Process : sched[p].todo # {} /\ sched[q].todo # {} => p = q

\* However many lead, an organisation gets one job of a kind for each period.
OnePerPeriod ==
    \A k \in Kind, o \in Org :
        Cardinality({j \in jobs : j.kind = k /\ j.org = o}) <= clock \div Period[k] + 1

\* "archive old terminal jobs": when the cleanup was due and nothing failed in
\* passing, there is a job of it.
CleanupIsEnqueued ==
    \A p \in Process :
        sched[p].last["jobs.cleanup"] # Never /\ "jobs.cleanup" \notin refused
        => \E j \in jobs : j.kind = "jobs.cleanup"
=============================================================================
