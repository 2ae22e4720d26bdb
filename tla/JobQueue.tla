------------------------------ MODULE JobQueue ------------------------------
(***************************************************************************)
(* The durable job queue (services/jobs/queue.py) and the pools of         *)
(* consumer coroutines that drain it (services/jobs/worker.py).  One       *)
(* action is one statement or transaction that other processes can see     *)
(* between; Postgres and in-memory queues share the module because they    *)
(* share the contract, and differ where the code differs.                  *)
(***************************************************************************)
EXTENDS Naturals, FiniteSets

CONSTANTS
    Jobs,          \* row slots of smms.jobs; a purged slot may be reused
    Priority,      \* [Jobs -> Nat]: lower is claimed first
    Workers,       \* consumer coroutines, over all worker processes
    Pools,         \* worker processes
    PoolOf,        \* [Workers -> Pools]
    Clients,       \* callers of enqueue(): API handlers, scheduler, handlers
    Keys,          \* client-chosen idempotency keys
    NoKey, NoJob,
    Backend,       \* "postgres" or "memory"
    MaxAttempts,   \* JobRecord.max_attempts
    MaxFaults      \* bound on process stops, database faults, slow handlers

ASSUME JobQueueAssumption ==
    /\ Priority \in [Jobs -> Nat]
    /\ PoolOf \in [Workers -> Pools]
    /\ NoJob \notin Jobs
    /\ Backend \in {"postgres", "memory"}
    /\ MaxAttempts \in Nat \ {0}
    /\ MaxFaults \in Nat

VARIABLES
    row,         \* smms.jobs
    worker,      \* what each consumer coroutine is doing
    pool,        \* state of each worker process
    client,      \* the key an enqueue() has peeked for but not inserted yet
    recoveries,  \* history: how often sweep_orphans took each job back
    faults       \* history: faults injected so far

vars == <<row, worker, pool, client, recoveries, faults>>

-----------------------------------------------------------------------------
(* Rows.  scheduled_for is kept as "due or not", started_at as "none, less *)
(* than stale_seconds old, or stale".                                      *)

RetryKey(j) == <<"retry", j>>
KeySpace == Keys \cup {RetryKey(j) : j \in Jobs} \cup {NoKey}

Terminal == {"succeeded", "dead", "cancelled"}
JobStatus == {"absent", "queued", "running"} \cup Terminal

JobRecord == [status : JobStatus, attempt : Nat, due : BOOLEAN,
              started : {"none", "fresh", "stale"}, key : KeySpace]

Absent == [status |-> "absent", attempt |-> 0, due |-> FALSE,
           started |-> "none", key |-> NoKey]

NoRequest == [pc |-> "idle", key |-> NoKey]

Idle == [pc |-> "idle", job |-> NoJob, attempt |-> 0, verdict |-> "none"]

WorkerState == [pc : {"idle", "handling", "failing", "dead"},
                job : Jobs \cup {NoJob}, attempt : Nat,
                verdict : {"none", "retry", "dlq"}]

Holds(w, j) == worker[w].pc \in {"handling", "failing"} /\ worker[w].job = j

\* The consumer whose claim the row still records.
OwnedBy(w, j) == Holds(w, j) /\ worker[w].attempt = row[j].attempt

Orphan(j) == row[j].status = "running" /\ \A w \in Workers : ~OwnedBy(w, j)

TypeOK ==
    /\ row \in [Jobs -> JobRecord]
    /\ worker \in [Workers -> WorkerState]
    /\ \A w \in Workers :
          worker[w].pc \in {"handling", "failing"} => worker[w].job \in Jobs
    /\ pool \in [Pools -> {"up", "stopped", "killed"}]
    /\ client \in [Clients -> [pc : {"idle", "inserting"}, key : KeySpace]]
    /\ recoveries \in [Jobs -> Nat]
    /\ faults \in 0..MaxFaults

Init ==
    /\ row = [j \in Jobs |-> Absent]
    /\ worker = [w \in Workers |-> Idle]
    /\ pool = [p \in Pools |-> "up"]
    /\ client = [c \in Clients |-> NoRequest]
    /\ recoveries = [j \in Jobs |-> 0]
    /\ faults = 0

-----------------------------------------------------------------------------
(* enqueue(): a peek for the key, then the INSERT.  The unique index on    *)
(* (org_id, idempotency_key) makes the second of two racing inserts fail.  *)

KeyTaken(k) == k # NoKey /\ \E j \in Jobs : row[j].status # "absent" /\ row[j].key = k

\* POST /jobs/{id}/retry re-enqueues a dead or cancelled job under retry:<id>.
MayRequest(k) ==
    \A j \in Jobs : k = RetryKey(j) => row[j].status \in {"dead", "cancelled"}

NewRow(k, due) == [status |-> "queued", attempt |-> 0, due |-> due,
                   started |-> "none", key |-> k]

Insert(j, k) ==
    /\ row[j].status = "absent"
    /\ \E due \in BOOLEAN : row' = [row EXCEPT ![j] = NewRow(k, due)]
    /\ recoveries' = [recoveries EXCEPT ![j] = 0]

IndexMissing(k) == TRUE
IndexAdmits(k) == ~KeyTaken(k)

EnqueuePeek(c, k) ==
    /\ Backend = "postgres"
    /\ client[c].pc = "idle"
    /\ MayRequest(k)
    /\ ~KeyTaken(k)
    /\ client' = [client EXCEPT ![c] = [pc |-> "inserting", key |-> k]]
    /\ UNCHANGED <<row, worker, pool, recoveries, faults>>

EnqueueInsert(c) ==
    /\ client[c].pc = "inserting"
    /\ LET k == client[c].key IN
          IF IndexAdmits(k) THEN \E j \in Jobs : Insert(j, k)
                            ELSE UNCHANGED <<row, recoveries>>
    /\ client' = [client EXCEPT ![c] = NoRequest]
    /\ UNCHANGED <<worker, pool, faults>>

EnqueueLocked(k) ==
    /\ Backend = "memory"
    /\ MayRequest(k)
    /\ ~KeyTaken(k)
    /\ \E j \in Jobs : Insert(j, k)
    /\ UNCHANGED <<worker, pool, client, faults>>

-----------------------------------------------------------------------------
(* One consumer: claim, run the handler, record the outcome.               *)

ClaimableTwice(j) == row[j].status \in {"queued", "running"} /\ row[j].due
Claimable(j) == row[j].status = "queued" /\ row[j].due

NextAttemptUncounted(j) == row[j].attempt
NextAttempt(j) == row[j].attempt + 1

Claim(w, j) ==
    /\ pool[PoolOf[w]] = "up"
    /\ worker[w].pc = "idle"
    /\ Claimable(j)
    /\ \A i \in Jobs : Claimable(i) => Priority[j] <= Priority[i]
    /\ row' = [row EXCEPT ![j].status = "running", ![j].attempt = NextAttempt(j),
                          ![j].started = "fresh"]
    /\ worker' = [worker EXCEPT ![w] = [pc |-> "handling", job |-> j,
                                        attempt |-> NextAttempt(j),
                                        verdict |-> "none"]]
    /\ UNCHANGED <<pool, client, recoveries, faults>>

\* The handler returned; complete() writes 'succeeded' by id alone.
Complete(w, j) ==
    /\ worker[w].pc = "handling" /\ worker[w].job = j
    /\ row' = [row EXCEPT ![j].status = "succeeded"]
    /\ worker' = [worker EXCEPT ![w] = Idle]
    /\ UNCHANGED <<pool, client, recoveries, faults>>

WillRetryOnceMore(j, permanent) == ~permanent /\ row[j].attempt <= MaxAttempts
WillRetry(j, permanent) == ~permanent /\ row[j].attempt < MaxAttempts

RequeuedAsFailed(r) == [r EXCEPT !.status = "failed", !.due = FALSE, !.started = "none"]
Requeued(r) == [r EXCEPT !.status = "queued", !.due = FALSE, !.started = "none"]

\* fail() of the Postgres queue reads attempt and max_attempts first ...
FailRead(w, j, permanent) ==
    /\ Backend = "postgres"
    /\ worker[w].pc = "handling" /\ worker[w].job = j
    /\ worker' = [worker EXCEPT
          ![w].pc = "failing",
          ![w].verdict = IF WillRetry(j, permanent) THEN "retry" ELSE "dlq"]
    /\ UNCHANGED <<row, pool, client, recoveries, faults>>

\* ... and writes the outcome it decided on, whatever the row has become.
FailWrite(w, j) ==
    /\ worker[w].pc = "failing" /\ worker[w].job = j
    /\ row' = [row EXCEPT ![j] = IF worker[w].verdict = "retry"
                                 THEN Requeued(@) ELSE [@ EXCEPT !.status = "dead"]]
    /\ worker' = [worker EXCEPT ![w] = Idle]
    /\ UNCHANGED <<pool, client, recoveries, faults>>

\* The in-memory fail() decides and writes under one lock, and leaves
\* started_at as the claim set it.
FailLocked(w, j, permanent) ==
    /\ Backend = "memory"
    /\ worker[w].pc = "handling" /\ worker[w].job = j
    /\ row' = [row EXCEPT
          ![j].status = IF WillRetry(j, permanent) THEN "queued" ELSE "dead",
          ![j].due = IF WillRetry(j, permanent) THEN FALSE ELSE @]
    /\ worker' = [worker EXCEPT ![w] = Idle]
    /\ UNCHANGED <<pool, client, recoveries, faults>>

\* A database error out of fail() leaves _dispatch, which nothing in
\* _consume_loop catches: the consumer task ends and is not replaced.
ConsumerDies(w) ==
    /\ Backend = "postgres"
    /\ worker[w].pc \in {"handling", "failing"}
    /\ faults < MaxFaults
    /\ worker' = [worker EXCEPT ![w] = [Idle EXCEPT !.pc = "dead"]]
    /\ faults' = faults + 1
    /\ UNCHANGED <<row, pool, client, recoveries>>

-----------------------------------------------------------------------------
(* Worker processes: stop() on SIGTERM cancels the consumer tasks; a kill  *)
(* takes them away.  start() begins with fresh consumers.                  *)

PoolEnds(p, how) ==
    /\ Backend = "postgres"
    /\ pool[p] = "up"
    /\ faults < MaxFaults
    /\ pool' = [pool EXCEPT ![p] = how]
    /\ worker' = [w \in Workers |-> IF PoolOf[w] = p THEN Idle ELSE worker[w]]
    /\ faults' = faults + 1
    /\ UNCHANGED <<row, client, recoveries>>

Stop(p) == PoolEnds(p, "stopped")
Kill(p) == PoolEnds(p, "killed")

Start(p) ==
    /\ pool[p] # "up"
    /\ pool' = [pool EXCEPT ![p] = "up"]
    /\ UNCHANGED <<row, worker, client, recoveries, faults>>

-----------------------------------------------------------------------------
(* Time, the orphan sweep, the admin API and the retention job.            *)

BecomesDue(j) ==
    /\ row[j].status = "queued" /\ ~row[j].due
    /\ row' = [row EXCEPT ![j].due = TRUE]
    /\ UNCHANGED <<worker, pool, client, recoveries, faults>>

\* stale_seconds pass on a row whose consumer is gone, or (a fault) is slow.
BecomesStale(j) ==
    /\ row[j].status = "running" /\ row[j].started = "fresh"
    /\ row' = [row EXCEPT ![j].started = "stale"]
    /\ IF Orphan(j) THEN UNCHANGED faults
                    ELSE faults < MaxFaults /\ faults' = faults + 1
    /\ UNCHANGED <<worker, pool, client, recoveries>>

StaleWithBudget == {j \in Jobs : /\ row[j].status = "running" /\ row[j].started = "stale"
                                 /\ row[j].attempt < MaxAttempts}
Stale == {j \in Jobs : row[j].status = "running" /\ row[j].started = "stale"}

SweepOrphans ==
    /\ Stale # {}
    /\ row' = [j \in Jobs |-> IF j \in Stale THEN Requeued(row[j]) ELSE row[j]]
    /\ recoveries' = [j \in Jobs |-> IF j \in Stale THEN recoveries[j] + 1
                                                    ELSE recoveries[j]]
    /\ UNCHANGED <<worker, pool, client, faults>>

\* Postgres cancels only queued and running rows; in memory, any row.
CancellableAny(j) == row[j].status # "absent"
Cancellable(j) == CASE Backend = "postgres" -> row[j].status \in {"queued", "running"}
                    [] Backend = "memory"   -> row[j].status # "absent"

Cancel(j) ==
    /\ Cancellable(j)
    /\ row' = [row EXCEPT ![j].status = "cancelled"]
    /\ UNCHANGED <<worker, pool, client, recoveries, faults>>

\* bulk_cancel() looks at the listed jobs or, without a list, at the jobs the
\* status and kind filters match (all Jobs without a filter).
BulkTargets(ids, matching) == {j \in IF ids # {} THEN ids ELSE matching : Cancellable(j)}

BulkCancel(ids, matching) ==
    /\ BulkTargets(ids, matching) # {}
    /\ row' = [j \in Jobs |-> IF j \in BulkTargets(ids, matching)
                              THEN [row[j] EXCEPT !.status = "cancelled"] ELSE row[j]]
    /\ UNCHANGED <<worker, pool, client, recoveries, faults>>

\* jobs.cleanup deletes terminal rows 30 days old; no handler runs that long.
Purge(j) ==
    /\ row[j].status \in Terminal
    /\ \A w \in Workers : ~Holds(w, j)
    /\ row' = [row EXCEPT ![j] = Absent]
    /\ UNCHANGED <<worker, pool, client, recoveries, faults>>

-----------------------------------------------------------------------------
Enqueue == \/ \E c \in Clients, k \in KeySpace : EnqueuePeek(c, k)
           \/ \E c \in Clients : EnqueueInsert(c)
           \/ \E k \in KeySpace : EnqueueLocked(k)

Fail(w, j) == \/ \E permanent \in BOOLEAN : FailRead(w, j, permanent)
              \/ FailWrite(w, j)
              \/ \E permanent \in BOOLEAN : FailLocked(w, j, permanent)

Dispatch(w) == \E j \in Jobs : Claim(w, j) \/ Complete(w, j) \/ Fail(w, j)

Process(p) == Stop(p) \/ Kill(p) \/ Start(p)

Next ==
    \/ Enqueue
    \/ \E w \in Workers : Dispatch(w) \/ ConsumerDies(w)
    \/ \E p \in Pools : Process(p)
    \/ \E j \in Jobs : BecomesDue(j) \/ BecomesStale(j) \/ Cancel(j) \/ Purge(j)
    \/ SweepOrphans
    \/ \E ids, matching \in SUBSET Jobs : BulkCancel(ids, matching)

Spec == Init /\ [][Next]_vars

\* The pollers and the sweep loop run for ever, handlers end, time passes and
\* a supervisor restarts a worker process.
Fairness ==
    /\ \A w \in Workers : WF_vars(Dispatch(w))
    /\ \A j \in Jobs : WF_vars(BecomesDue(j)) /\ WF_vars(Orphan(j) /\ BecomesStale(j))
    /\ \A p \in Pools : WF_vars(Start(p))
    /\ WF_vars(SweepOrphans)

FairSpec == Spec /\ Fairness
-----------------------------------------------------------------------------
(* Properties.                                                             *)

\* Two live rows never carry the same idempotency key, although enqueue()
\* peeks and inserts in two statements: the index decides the race.
KeyUnique ==
    \A i, j \in Jobs :
        /\ row[i].status # "absent" /\ row[j].status # "absent"
        /\ row[i].key = row[j].key /\ row[i].key # NoKey
        => i = j

\* attempt works as a fencing number: consumers holding one job hold different
\* attempts of a live row, none newer than the row's, so at most one is the owner.
AttemptFence ==
    \A w \in Workers, j \in Jobs : Holds(w, j) =>
        /\ row[j].status # "absent"
        /\ worker[w].attempt <= row[j].attempt
        /\ \A v \in Workers \ {w} : Holds(v, j) => worker[v].attempt # worker[w].attempt

\* A job is handled twice at the same time, or queued while it is handled,
\* only if the orphan sweep has taken it away from a slow consumer.
OverlapOnlyAfterSweep ==
    \A j \in Jobs, w \in Workers :
        /\ Holds(w, j)
        /\ row[j].status = "queued" \/ \E v \in Workers \ {w} : Holds(v, j)
        => recoveries[j] > 0

\* max_attempts is exceeded by at most one attempt per orphan recovery, stale
\* reads inside fail() included.
AttemptBudget ==
    \A j \in Jobs : row[j].attempt <= MaxAttempts + recoveries[j]

\* Once terminal and out of every consumer's hands, a row changes no more: no
\* sweep, claim or cancel touches it; only the retention job removes it.
SettledStays ==
    [][\A j \in Jobs :
          /\ row[j].status \in Terminal
          /\ \A w \in Workers : ~Holds(w, j)
          => row'[j] = row[j] \/ row'[j].status = "absent"]_vars

\* No job is lost: whatever stops, dies or is slow, a queued or running job
\* becomes terminal (and may then be purged).
Settled(j) == row[j].status \in Terminal \cup {"absent"}
EventuallySettled == \A j \in Jobs : []<>Settled(j)

\* To the code that uses it, the queue is one of leases: due times, keys, the two
\* steps of fail(), processes and faults are hidden.
StatusOf == [j \in Jobs |-> row[j].status]
AttemptOf == [j \in Jobs |-> row[j].attempt]
LeaseOf == [w \in Workers |-> IF worker[w].pc \in {"handling", "failing"}
                             THEN worker[w].job ELSE NoJob]

Leases == INSTANCE JobLeases WITH status <- StatusOf, attempt <- AttemptOf, lease <- LeaseOf

ImplementsLeases == Leases!Spec
=============================================================================
