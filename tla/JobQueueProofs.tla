--------------------------- MODULE JobQueueProofs ---------------------------
(***************************************************************************)
(* What holds of the job queue for any number of jobs, consumers,          *)
(* processes and enqueuers: the two races the code relies on surviving     *)
(* (the idempotency peek and the claim), the budget of attempts, and that  *)
(* the Postgres queue implements the leases of JobLeases.                  *)
(***************************************************************************)
EXTENDS JobQueue, FiniteSetTheorems, TLAPS

\* The fields a status change, a claim and a requeue write stay in their types.
LEMMA RecordUpdate ==
  ASSUME NEW r \in JobRecord, NEW s \in JobStatus, NEW n \in Nat, NEW d \in BOOLEAN
  PROVE  /\ r.status \in JobStatus /\ r.attempt \in Nat /\ r.due \in BOOLEAN
         /\ [r EXCEPT !.status = s] \in JobRecord
         /\ [r EXCEPT !.due = d] \in JobRecord
         /\ [r EXCEPT !.started = "stale"] \in JobRecord
         /\ [r EXCEPT !.status = s, !.due = d] \in JobRecord
         /\ [r EXCEPT !.status = s, !.attempt = n, !.started = "fresh"] \in JobRecord
         /\ Requeued(r) \in JobRecord
BY DEF JobRecord, Requeued, JobStatus

\* A status change and a requeue keep the attempt counter and the key.
LEMMA RecordFields ==
  ASSUME NEW r \in JobRecord, NEW s, NEW d
  PROVE  /\ [r EXCEPT !.status = s].status = s
         /\ [r EXCEPT !.status = s].attempt = r.attempt
         /\ [r EXCEPT !.status = s].key = r.key
         /\ [r EXCEPT !.status = s, !.due = d].status = s
         /\ [r EXCEPT !.status = s, !.due = d].attempt = r.attempt
         /\ [r EXCEPT !.status = s, !.due = d].key = r.key
         /\ [r EXCEPT !.due = TRUE].status = r.status
         /\ [r EXCEPT !.due = TRUE].attempt = r.attempt
         /\ [r EXCEPT !.due = TRUE].key = r.key
         /\ [r EXCEPT !.started = "stale"].status = r.status
         /\ [r EXCEPT !.started = "stale"].attempt = r.attempt
         /\ [r EXCEPT !.started = "stale"].key = r.key
         /\ Requeued(r).status = "queued"
         /\ Requeued(r).attempt = r.attempt /\ Requeued(r).key = r.key
BY DEF JobRecord, Requeued

\* Every consumer state an action builds is well typed.
LEMMA WorkerStates ==
  ASSUME NEW j \in Jobs, NEW n \in Nat
  PROVE  /\ Idle \in WorkerState /\ [Idle EXCEPT !.pc = "dead"] \in WorkerState
         /\ [pc |-> "handling", job |-> j, attempt |-> n, verdict |-> "none"]
               \in WorkerState
BY DEF Idle, WorkerState

\* Every action keeps every variable in its type.
THEOREM TypeCorrect == Spec => []TypeOK
<1> USE JobQueueAssumption
<1>1. Init => TypeOK
  <2>1. Absent \in JobRecord /\ Idle \in WorkerState /\ NoKey \in KeySpace
    BY DEF Absent, JobRecord, JobStatus, Idle, WorkerState, KeySpace
  <2>2. QED BY <2>1 DEF Init, TypeOK, Idle, NoRequest
<1>2. TypeOK /\ [Next]_vars => TypeOK'
  <2> SUFFICES ASSUME TypeOK, [Next]_vars PROVE TypeOK'
    OBVIOUS
  <2>a. /\ "queued" \in JobStatus /\ "running" \in JobStatus /\ "succeeded" \in JobStatus
        /\ "dead" \in JobStatus /\ "cancelled" \in JobStatus
    BY DEF JobStatus, Terminal
  <2>b. \A j \in Jobs : row[j] \in JobRecord /\ row[j].attempt \in Nat
    BY RecordUpdate, <2>a DEF TypeOK
  <2>c. ASSUME NEW j \in Jobs, NEW k \in KeySpace, Insert(j, k)
        PROVE row' \in [Jobs -> JobRecord] /\ recoveries' \in [Jobs -> Nat]
    <3>1. PICK due \in BOOLEAN : row' = [row EXCEPT ![j] = NewRow(k, due)]
      BY <2>c DEF Insert
    <3>2. NewRow(k, due) \in JobRecord
      BY <2>a DEF NewRow, JobRecord
    <3>3. QED BY <2>c, <3>1, <3>2 DEF TypeOK, Insert
  <2>d. ASSUME NEW w \in Workers, NEW u \in WorkerState, u.pc \in {"idle", "dead"},
               worker' = [worker EXCEPT ![w] = u]
        PROVE /\ worker' \in [Workers -> WorkerState]
              /\ \A v \in Workers :
                    worker'[v].pc \in {"handling", "failing"} => worker'[v].job \in Jobs
    BY <2>d DEF TypeOK
  <2>e. /\ Idle \in WorkerState /\ Idle.pc = "idle"
        /\ [Idle EXCEPT !.pc = "dead"] \in WorkerState /\ [Idle EXCEPT !.pc = "dead"].pc = "dead"
    BY DEF Idle, WorkerState
  <2>1. ASSUME NEW c \in Clients, NEW k \in KeySpace, EnqueuePeek(c, k) PROVE TypeOK'
    BY <2>1 DEF EnqueuePeek, TypeOK
  <2>2. ASSUME NEW c \in Clients, EnqueueInsert(c) PROVE TypeOK'
    <3>1. client[c].key \in KeySpace /\ NoKey \in KeySpace
      BY DEF TypeOK, KeySpace
    <3>2. row' \in [Jobs -> JobRecord] /\ recoveries' \in [Jobs -> Nat]
      BY <2>2, <2>c, <3>1 DEF EnqueueInsert, TypeOK
    <3>3. QED BY <2>2, <3>1, <3>2 DEF EnqueueInsert, TypeOK, NoRequest
  <2>3. ASSUME NEW k \in KeySpace, EnqueueLocked(k) PROVE TypeOK'
    BY <2>3, <2>c DEF EnqueueLocked, TypeOK
  <2>4. ASSUME NEW w \in Workers, NEW j \in Jobs, Claim(w, j) PROVE TypeOK'
    <3> DEFINE r == [row[j] EXCEPT !.status = "running", !.attempt = NextAttempt(j),
                                   !.started = "fresh"]
               u == [pc |-> "handling", job |-> j, attempt |-> NextAttempt(j),
                     verdict |-> "none"]
    <3>1. NextAttempt(j) \in Nat
      BY <2>b DEF NextAttempt
    <3>2. r \in JobRecord /\ u \in WorkerState
      BY <2>a, <2>b, <3>1, RecordUpdate, WorkerStates
    <3>3. row' = [row EXCEPT ![j] = r] /\ worker' = [worker EXCEPT ![w] = u]
      BY <2>4 DEF Claim, TypeOK
    <3>4. u.job = j
      OBVIOUS
    <3> HIDE DEF r, u
    <3>5. row' \in [Jobs -> JobRecord] /\ worker' \in [Workers -> WorkerState]
      BY <3>2, <3>3 DEF TypeOK
    <3>6. \A v \in Workers :
             worker'[v].pc \in {"handling", "failing"} => worker'[v].job \in Jobs
      BY <3>3, <3>4 DEF TypeOK
    <3>7. QED BY <2>4, <3>5, <3>6 DEF Claim, TypeOK
  <2>5. ASSUME NEW w \in Workers, NEW j \in Jobs, Complete(w, j) PROVE TypeOK'
    <3> DEFINE r == [row[j] EXCEPT !.status = "succeeded"]
    <3>1. row' = [row EXCEPT ![j] = r] /\ r \in JobRecord
      BY <2>5, <2>a, <2>b, RecordUpdate DEF Complete, TypeOK
    <3> HIDE DEF r
    <3>2. row' \in [Jobs -> JobRecord]
      BY <3>1 DEF TypeOK
    <3>3. QED BY <2>5, <3>2, <2>d, <2>e DEF Complete, TypeOK
  <2>6. ASSUME NEW w \in Workers, NEW j \in Jobs, Fail(w, j) PROVE TypeOK'
    <3>1. ASSUME NEW permanent \in BOOLEAN, FailRead(w, j, permanent) PROVE TypeOK'
      <4> DEFINE u == [worker[w] EXCEPT !.pc = "failing",
                          !.verdict = IF WillRetry(j, permanent) THEN "retry" ELSE "dlq"]
      <4>1. u \in WorkerState /\ u.job = j
        BY <3>1 DEF FailRead, TypeOK, WorkerState
      <4>2. worker' = [worker EXCEPT ![w] = u]
        BY <3>1 DEF FailRead, TypeOK
      <4> HIDE DEF u
      <4>3. QED BY <3>1, <4>1, <4>2 DEF FailRead, TypeOK
    <3>2. CASE FailWrite(w, j)
      <4> DEFINE r == IF worker[w].verdict = "retry"
                      THEN Requeued(row[j]) ELSE [row[j] EXCEPT !.status = "dead"]
      <4>1. r \in JobRecord
        BY <2>a, <2>b, RecordUpdate
      <4>2. row' = [row EXCEPT ![j] = r]
        BY <3>2 DEF FailWrite, TypeOK
      <4> HIDE DEF r
      <4>3. row' \in [Jobs -> JobRecord]
        BY <4>1, <4>2 DEF TypeOK
      <4>4. QED BY <3>2, <4>3, <2>d, <2>e DEF FailWrite, TypeOK
    <3>3. ASSUME NEW permanent \in BOOLEAN, FailLocked(w, j, permanent) PROVE TypeOK'
      <4> DEFINE s == IF WillRetry(j, permanent) THEN "queued" ELSE "dead"
                 d == IF WillRetry(j, permanent) THEN FALSE ELSE row[j].due
                 r == [row[j] EXCEPT !.status = s, !.due = d]
      <4>1. s \in JobStatus /\ d \in BOOLEAN
        BY <2>a, <2>b, RecordUpdate
      <4>2. row' = [row EXCEPT ![j] = r]
        BY <3>3 DEF FailLocked, TypeOK
      <4> HIDE DEF s, d
      <4>3. r \in JobRecord
        BY <2>b, <4>1, RecordUpdate
      <4> HIDE DEF r
      <4>4. row' \in [Jobs -> JobRecord]
        BY <4>2, <4>3 DEF TypeOK
      <4>5. QED BY <3>3, <4>4, <2>d, <2>e DEF FailLocked, TypeOK
    <3>4. QED BY <2>6, <3>1, <3>2, <3>3 DEF Fail
  <2>7. ASSUME NEW w \in Workers, ConsumerDies(w) PROVE TypeOK'
    BY <2>7, <2>d, <2>e DEF ConsumerDies, TypeOK
  <2>8. ASSUME NEW p \in Pools, Process(p) PROVE TypeOK'
    <3>1. ASSUME NEW how \in {"stopped", "killed"}, PoolEnds(p, how) PROVE TypeOK'
      BY <3>1, <2>e DEF PoolEnds, TypeOK
    <3>2. CASE Start(p)
      BY <3>2 DEF Start, TypeOK
    <3>3. QED BY <2>8, <3>1, <3>2 DEF Process, Stop, Kill
  <2>9. ASSUME NEW j \in Jobs, BecomesDue(j) \/ BecomesStale(j) \/ Cancel(j) PROVE TypeOK'
    <3> DEFINE due == [row[j] EXCEPT !.due = TRUE]
               stale == [row[j] EXCEPT !.started = "stale"]
               cancelled == [row[j] EXCEPT !.status = "cancelled"]
    <3>1. due \in JobRecord /\ stale \in JobRecord /\ cancelled \in JobRecord
      BY <2>a, <2>b, RecordUpdate
    <3>2. \E r \in {due, stale, cancelled} : row' = [row EXCEPT ![j] = r]
      BY <2>9 DEF BecomesDue, BecomesStale, Cancel, TypeOK
    <3> HIDE DEF due, stale, cancelled
    <3>3. row' \in [Jobs -> JobRecord]
      BY <3>1, <3>2 DEF TypeOK
    <3>4. faults' \in 0..MaxFaults
      BY <2>9 DEF BecomesDue, BecomesStale, Cancel, TypeOK
    <3>5. QED BY <2>9, <3>3, <3>4 DEF BecomesDue, BecomesStale, Cancel, TypeOK
  <2>10. ASSUME NEW j \in Jobs, Purge(j) PROVE TypeOK'
    <3>1. Absent \in JobRecord
      BY DEF Absent, JobRecord, JobStatus, KeySpace
    <3>2. QED BY <2>10, <3>1 DEF Purge, TypeOK
  <2>11. CASE SweepOrphans
    <3>1. \A j \in Jobs : Requeued(row[j]) \in JobRecord
      BY <2>a, <2>b, RecordUpdate
    <3>2. QED BY <2>11, <2>b, <3>1 DEF SweepOrphans, TypeOK
  <2>12. ASSUME NEW I \in SUBSET Jobs, NEW M \in SUBSET Jobs, BulkCancel(I, M) PROVE TypeOK'
    <3>1. \A j \in Jobs : [row[j] EXCEPT !.status = "cancelled"] \in JobRecord
      BY <2>a, <2>b, RecordUpdate
    <3>2. QED BY <2>12, <2>b, <3>1 DEF BulkCancel, BulkTargets, TypeOK
  <2>13. CASE UNCHANGED vars
    BY <2>13 DEF vars, TypeOK
  <2>14. QED
    BY <2>1, <2>2, <2>3, <2>4, <2>5, <2>6, <2>7, <2>8, <2>9, <2>10, <2>11, <2>12, <2>13
    DEF Next, Enqueue, Dispatch
<1>3. QED BY <1>1, <1>2, PTL DEF Spec

-----------------------------------------------------------------------------
(* Duplicate execution.  AttemptFence and OverlapOnlyAfterSweep are        *)
(* inductive together; most actions only release holds.                    *)

HoldsKept == \A v \in Workers, i \in Jobs :
                Holds(v, i)' => Holds(v, i) /\ worker'[v].attempt = worker[v].attempt

RowsKept == \A i \in Jobs :
               /\ row'[i].attempt = row[i].attempt
               /\ row[i].status # "absent" => row'[i].status # "absent"

\* A step that only releases holds, and leaves attempts alone, keeps the fence.
LEMMA FenceKept == AttemptFence /\ HoldsKept /\ RowsKept => AttemptFence'
BY DEF AttemptFence, HoldsKept, RowsKept

\* It also keeps overlaps accounted for, if a job it queues is recovered or unheld.
LEMMA OverlapKept ==
  ASSUME OverlapOnlyAfterSweep, HoldsKept,
         recoveries \in [Jobs -> Nat], recoveries' \in [Jobs -> Nat],
         \A i \in Jobs : (\E v \in Workers : Holds(v, i)) => recoveries[i] <= recoveries'[i],
         \A i \in Jobs : row'[i].status = "queued" =>
            \/ row[i].status = "queued" \/ recoveries'[i] > 0
            \/ \A v \in Workers : ~Holds(v, i)'
  PROVE  OverlapOnlyAfterSweep'
BY DEF OverlapOnlyAfterSweep, HoldsKept

\* Whatever stops, stalls or races, two consumers never hold a job under the
\* same attempt, and they hold it together only after an orphan sweep.
THEOREM NoUnsweptOverlap == Spec => [](AttemptFence /\ OverlapOnlyAfterSweep)
<1> DEFINE Inv == AttemptFence /\ OverlapOnlyAfterSweep
<1>1. Init => Inv
  BY DEF Init, AttemptFence, OverlapOnlyAfterSweep, Holds, Idle
<1>2. TypeOK /\ TypeOK' /\ Inv /\ [Next]_vars => Inv'
  <2> SUFFICES ASSUME TypeOK, TypeOK', Inv, [Next]_vars PROVE Inv'
    OBVIOUS
  <2>3. Idle.pc \in {"idle", "dead"} /\ [Idle EXCEPT !.pc = "dead"].pc \in {"idle", "dead"}
    BY DEF Idle
  <2>1. ASSUME NEW w \in Workers,
               \/ worker' = [worker EXCEPT ![w] = Idle]
               \/ worker' = [worker EXCEPT ![w] = [Idle EXCEPT !.pc = "dead"]]
        PROVE  HoldsKept /\ \A i \in Jobs : ~Holds(w, i)'
    <3>1. \A v \in Workers \ {w} : worker'[v] = worker[v]
      BY <2>1 DEF TypeOK
    <3>2. worker'[w].pc \in {"idle", "dead"}
      BY <2>1, <2>3 DEF TypeOK
    <3>3. QED BY <3>1, <3>2 DEF HoldsKept, Holds
  <2>2. UNCHANGED worker => HoldsKept
    BY DEF HoldsKept, Holds
  <2>4. ASSUME HoldsKept, RowsKept, UNCHANGED recoveries,
               \A i \in Jobs : row'[i].status = "queued" => row[i].status = "queued"
        PROVE  Inv'
    BY <2>4, FenceKept, OverlapKept DEF TypeOK
  <2>5. ASSUME NEW j \in Jobs, NEW k, Insert(j, k), UNCHANGED worker PROVE Inv'
    <3>1. \A v \in Workers : ~Holds(v, j) /\ ~Holds(v, j)'
      BY <2>5 DEF Insert, AttemptFence, Holds
    <3>2. \A i \in Jobs \ {j} : row'[i] = row[i] /\ recoveries'[i] = recoveries[i]
      BY <2>5 DEF Insert, TypeOK
    <3>3. AttemptFence'
      BY <2>5, <3>1, <3>2 DEF AttemptFence, Holds
    <3>4. OverlapOnlyAfterSweep'
      BY <2>5, <3>1, <3>2 DEF OverlapOnlyAfterSweep, Holds
    <3>5. QED BY <3>3, <3>4
  <2>6. CASE Enqueue
    <3>1. ASSUME NEW c \in Clients, NEW k \in KeySpace, EnqueuePeek(c, k) PROVE Inv'
      BY <3>1, <2>2, <2>4 DEF EnqueuePeek, RowsKept
    <3>2. ASSUME NEW c \in Clients, EnqueueInsert(c) PROVE Inv'
      <4>1. CASE IndexAdmits(client[c].key)
        BY <3>2, <4>1, <2>5 DEF EnqueueInsert
      <4>2. CASE ~IndexAdmits(client[c].key)
        BY <3>2, <4>2, <2>2, <2>4 DEF EnqueueInsert, RowsKept
      <4>3. QED BY <4>1, <4>2
    <3>3. ASSUME NEW k \in KeySpace, EnqueueLocked(k) PROVE Inv'
      BY <3>3, <2>5 DEF EnqueueLocked
    <3>4. QED BY <2>6, <3>1, <3>2, <3>3 DEF Enqueue
  <2>7. ASSUME NEW w \in Workers, NEW j \in Jobs, Claim(w, j) PROVE Inv'
    <3>1. /\ row[j].status = "queued" /\ row'[j].status = "running"
          /\ row'[j].attempt = row[j].attempt + 1 /\ row[j].attempt \in Nat
      BY <2>7 DEF Claim, Claimable, NextAttempt, TypeOK, JobRecord
    <3>2. \A i \in Jobs \ {j} : row'[i] = row[i]
      BY <2>7 DEF Claim, TypeOK
    <3>3. /\ worker'[w].attempt = row[j].attempt + 1
          /\ \A v \in Workers \ {w} : worker'[v] = worker[v]
          /\ \A i \in Jobs : ~Holds(w, i) /\ (Holds(w, i)' => i = j)
      BY <2>7 DEF Claim, NextAttempt, TypeOK, Holds
    <3>4. \A v \in Workers \ {w}, i \in Jobs : Holds(v, i)' => Holds(v, i)
      BY <3>3 DEF Holds
    <3>5. \A v \in Workers : worker[v].attempt \in Nat
      BY DEF TypeOK, WorkerState
    <3>6. AttemptFence'
      BY <3>1, <3>2, <3>3, <3>4, <3>5 DEF AttemptFence
    <3>7. recoveries' = recoveries
      BY <2>7 DEF Claim
    <3>8. OverlapOnlyAfterSweep'
      BY <3>1, <3>2, <3>3, <3>4, <3>7 DEF OverlapOnlyAfterSweep
    <3>9. QED BY <3>6, <3>8
  <2>8. ASSUME NEW w \in Workers, NEW j \in Jobs, Complete(w, j) PROVE Inv'
    <3>1. HoldsKept
      BY <2>8, <2>1 DEF Complete
    <3>2. RowsKept /\ \A i \in Jobs : row'[i].status = "queued" => row[i].status = "queued"
      BY <2>8 DEF Complete, RowsKept, TypeOK, JobRecord
    <3>3. QED BY <2>8, <3>1, <3>2, <2>4 DEF Complete
  <2>9. ASSUME NEW w \in Workers, NEW j \in Jobs, Fail(w, j) PROVE Inv'
    <3>1. ASSUME NEW permanent \in BOOLEAN, FailRead(w, j, permanent) PROVE Inv'
      <4>1. HoldsKept
        BY <3>1 DEF FailRead, HoldsKept, Holds, TypeOK, WorkerState
      <4>2. QED BY <3>1, <4>1, <2>4 DEF FailRead, RowsKept
    <3>2. ASSUME FailWrite(w, j) \/ \E permanent \in BOOLEAN : FailLocked(w, j, permanent)
          PROVE  Inv'
      <4>1. Holds(w, j) /\ HoldsKept /\ ~Holds(w, j)'
        <5>1. worker' = [worker EXCEPT ![w] = Idle]
          BY <3>2 DEF FailWrite, FailLocked
        <5>2. Holds(w, j)
          BY <3>2 DEF FailWrite, FailLocked, Holds
        <5>3. QED BY <5>1, <5>2, <2>1
      <4>2. RowsKept /\ \A i \in Jobs : i # j => row'[i] = row[i]
        <5> DEFINE Outcome ==
              /\ \A i \in Jobs : i # j => row'[i] = row[i]
              /\ row'[j].attempt = row[j].attempt /\ row'[j].status \in {"queued", "dead"}
        <5>1. Outcome
          <6>1. CASE FailWrite(w, j)
            BY <6>1, RecordFields DEF FailWrite, TypeOK
          <6>2. ASSUME NEW permanent \in BOOLEAN, FailLocked(w, j, permanent)
                PROVE  Outcome
            BY <6>2, RecordFields DEF FailLocked, TypeOK, JobRecord
          <6>3. QED BY <3>2, <6>1, <6>2
        <5>2. QED BY <5>1 DEF RowsKept
      <4>3. recoveries' = recoveries
        BY <3>2 DEF FailWrite, FailLocked
      <4>4. (\E v \in Workers : Holds(v, j)') => recoveries'[j] > 0
        BY <4>1, <4>3 DEF HoldsKept, OverlapOnlyAfterSweep
      <4>5. \A i \in Jobs : row'[i].status = "queued" =>
               \/ row[i].status = "queued" \/ recoveries'[i] > 0
               \/ \A v \in Workers : ~Holds(v, i)'
        BY <4>2, <4>4
      <4>6. QED BY <4>1, <4>2, <4>3, <4>5, FenceKept, OverlapKept DEF TypeOK
    <3>3. QED BY <2>9, <3>1, <3>2 DEF Fail
  <2>10. ASSUME NEW w \in Workers, ConsumerDies(w) PROVE Inv'
    <3>1. HoldsKept
      BY <2>10, <2>1 DEF ConsumerDies
    <3>2. QED BY <2>10, <3>1, <2>4 DEF ConsumerDies, RowsKept
  <2>11. ASSUME NEW p \in Pools, Process(p) PROVE Inv'
    <3>1. HoldsKept
      BY <2>11, <2>3 DEF Process, Stop, Kill, Start, PoolEnds, HoldsKept, Holds, TypeOK, Idle
    <3>2. QED BY <2>11, <3>1, <2>4 DEF Process, Stop, Kill, Start, PoolEnds, RowsKept
  <2>12. ASSUME NEW j \in Jobs, BecomesDue(j) \/ BecomesStale(j) \/ Cancel(j) PROVE Inv'
    <3>1. RowsKept /\ \A i \in Jobs : row'[i].status = "queued" => row[i].status = "queued"
      <4>1. CASE BecomesDue(j) \/ BecomesStale(j)
        <5>1. row[j] \in JobRecord /\ \A i \in Jobs \ {j} : row'[i] = row[i]
          BY <4>1 DEF BecomesDue, BecomesStale, TypeOK
        <5>2. row'[j] \in {[row[j] EXCEPT !.due = TRUE], [row[j] EXCEPT !.started = "stale"]}
          BY <4>1 DEF BecomesDue, BecomesStale, TypeOK
        <5>3. row'[j].status = row[j].status /\ row'[j].attempt = row[j].attempt
          BY <5>1, <5>2, RecordFields
        <5>4. QED BY <5>1, <5>3 DEF RowsKept
      <4>2. CASE Cancel(j)
        BY <4>2, RecordFields DEF Cancel, RowsKept, TypeOK
      <4>3. QED BY <2>12, <4>1, <4>2
    <3>2. QED BY <2>12, <3>1, <2>2, <2>4 DEF BecomesDue, BecomesStale, Cancel
  <2>13. ASSUME NEW j \in Jobs, Purge(j) PROVE Inv'
    <3>1. \A v \in Workers : ~Holds(v, j) /\ ~Holds(v, j)'
      BY <2>13 DEF Purge, Holds
    <3>2. \A i \in Jobs \ {j} : row'[i] = row[i]
      BY <2>13 DEF Purge, TypeOK
    <3>3. QED BY <2>13, <3>1, <3>2 DEF Purge, AttemptFence, OverlapOnlyAfterSweep, Holds
  <2>14. CASE SweepOrphans
    <3>1. RowsKept
      <4>1. ASSUME NEW i \in Jobs
            PROVE  /\ row'[i].attempt = row[i].attempt
                   /\ row[i].status # "absent" => row'[i].status # "absent"
        <5>1. row[i] \in JobRecord /\ row'[i] \in {row[i], Requeued(row[i])}
          BY <2>14 DEF SweepOrphans, TypeOK
        <5>2. QED BY <5>1, RecordFields
      <4>2. QED BY <4>1 DEF RowsKept
    <3>2. \A i \in Jobs : recoveries[i] <= recoveries'[i]
      BY <2>14 DEF SweepOrphans, TypeOK
    <3>3. \A i \in Jobs : row'[i].status = "queued" =>
             row[i].status = "queued" \/ recoveries'[i] > 0
      BY <2>14 DEF SweepOrphans, TypeOK
    <3>4. HoldsKept
      BY <2>14, <2>2 DEF SweepOrphans
    <3>5. QED BY <3>1, <3>2, <3>3, <3>4, FenceKept, OverlapKept DEF TypeOK
  <2>15. ASSUME NEW I \in SUBSET Jobs, NEW M \in SUBSET Jobs, BulkCancel(I, M) PROVE Inv'
    <3>1. RowsKept /\ \A i \in Jobs : row'[i].status = "queued" => row[i].status = "queued"
      BY <2>15 DEF BulkCancel, BulkTargets, RowsKept, TypeOK, JobRecord
    <3>2. QED BY <2>15, <3>1, <2>2, <2>4 DEF BulkCancel, BulkTargets
  <2>16. CASE UNCHANGED vars
    BY <2>16, <2>2, <2>4 DEF vars, RowsKept
  <2>17. QED
    BY <2>6, <2>7, <2>8, <2>9, <2>10, <2>11, <2>12, <2>13, <2>14, <2>15, <2>16
    DEF Next, Dispatch
<1>3. QED BY <1>1, <1>2, TypeCorrect, PTL DEF Spec

\* The counter a claim adds to is a fencing number, in both backends.
THEOREM AttemptsFence == Spec => []AttemptFence
<1>1. AttemptFence /\ OverlapOnlyAfterSweep => AttemptFence
  OBVIOUS
<1>2. QED BY NoUnsweptOverlap, PTL

-----------------------------------------------------------------------------
\* The unique index decides every race between two enqueuers: no two live rows
\* share a key.
THEOREM KeysAreUnique == Spec => []KeyUnique
<1>1. Init => KeyUnique
  BY DEF Init, KeyUnique, Absent
<1>2. TypeOK /\ AttemptFence /\ KeyUnique /\ [Next]_vars => KeyUnique'
  <2> SUFFICES ASSUME TypeOK, AttemptFence, KeyUnique, [Next]_vars PROVE KeyUnique'
    OBVIOUS
  <2> DEFINE Quiet == \A i \in Jobs : row'[i].status # "absent" =>
                         row[i].status # "absent" /\ row'[i].key = row[i].key
  <2>1. Quiet => KeyUnique'
    BY DEF KeyUnique
  <2>2. ASSUME NEW j \in Jobs, NEW k \in KeySpace, Insert(j, k), IndexAdmits(k)
        PROVE KeyUnique'
    <3>1. row'[j].key = k /\ \A i \in Jobs \ {j} : row'[i] = row[i]
      BY <2>2 DEF Insert, NewRow, TypeOK
    <3>2. k # NoKey => \A i \in Jobs : row[i].status # "absent" => row[i].key # k
      BY <2>2 DEF IndexAdmits, KeyTaken
    <3>3. QED BY <3>1, <3>2 DEF KeyUnique
  <2>3. CASE Enqueue
    <3>1. ASSUME NEW c \in Clients, EnqueueInsert(c) PROVE KeyUnique'
      <4>1. client[c].key \in KeySpace
        BY DEF TypeOK
      <4>2. CASE IndexAdmits(client[c].key)
        BY <3>1, <4>1, <4>2, <2>2 DEF EnqueueInsert
      <4>3. CASE ~IndexAdmits(client[c].key)
        BY <3>1, <4>3 DEF EnqueueInsert, KeyUnique
      <4>4. QED BY <4>2, <4>3
    <3>2. ASSUME NEW k \in KeySpace, EnqueueLocked(k) PROVE KeyUnique'
      BY <3>2, <2>2 DEF EnqueueLocked, IndexAdmits
    <3>3. ASSUME NEW c \in Clients, NEW k \in KeySpace, EnqueuePeek(c, k) PROVE KeyUnique'
      BY <3>3 DEF EnqueuePeek, KeyUnique
    <3>4. QED BY <2>3, <3>1, <3>2, <3>3 DEF Enqueue
  \* A step that changes one held, claimed or cancelled row without touching its key.
  <2>4. ASSUME NEW j \in Jobs, row[j].status # "absent",
               row'[j].key = row[j].key, \A i \in Jobs \ {j} : row'[i] = row[i]
        PROVE  Quiet
    BY <2>4
  <2>5. ASSUME NEW w \in Workers, NEW j \in Jobs, Claim(w, j) \/ Complete(w, j)
        PROVE Quiet
    <3>1. row[j].status # "absent"
      BY <2>5 DEF Claim, Claimable, Complete, AttemptFence, Holds
    <3>2. \A i \in Jobs \ {j} : row'[i] = row[i]
      BY <2>5 DEF Claim, Complete, TypeOK
    <3>3. row'[j].key = row[j].key
      BY <2>5, RecordFields DEF Claim, Complete, TypeOK, JobRecord
    <3>4. QED BY <2>4, <3>1, <3>2, <3>3
  <2>6. ASSUME NEW w \in Workers, NEW j \in Jobs, Fail(w, j) PROVE Quiet
    <3>1. ASSUME NEW permanent \in BOOLEAN, FailRead(w, j, permanent) PROVE Quiet
      BY <3>1 DEF FailRead
    <3>2. CASE FailWrite(w, j)
      <4>1. row[j].status # "absent" /\ \A i \in Jobs \ {j} : row'[i] = row[i]
        BY <3>2 DEF FailWrite, AttemptFence, Holds, TypeOK
      <4>2. row'[j].key = row[j].key
        BY <3>2, RecordFields DEF FailWrite, TypeOK
      <4>3. QED BY <2>4, <4>1, <4>2
    <3>3. ASSUME NEW permanent \in BOOLEAN, FailLocked(w, j, permanent) PROVE Quiet
      <4>1. row[j].status # "absent" /\ \A i \in Jobs \ {j} : row'[i] = row[i]
        BY <3>3 DEF FailLocked, AttemptFence, Holds, TypeOK
      <4>2. row'[j].key = row[j].key
        BY <3>3 DEF FailLocked, TypeOK, JobRecord
      <4>3. QED BY <2>4, <4>1, <4>2
    <3>4. QED BY <2>6, <3>1, <3>2, <3>3 DEF Fail
  <2>7. ASSUME NEW w \in Workers, ConsumerDies(w) PROVE Quiet
    BY <2>7 DEF ConsumerDies
  <2>8. ASSUME NEW p \in Pools, Process(p) PROVE Quiet
    BY <2>8 DEF Process, Stop, Kill, Start, PoolEnds
  <2>9. ASSUME NEW j \in Jobs, BecomesDue(j) \/ BecomesStale(j) PROVE Quiet
    BY <2>9 DEF BecomesDue, BecomesStale, TypeOK, JobRecord
  <2>10. ASSUME NEW j \in Jobs, Cancel(j) PROVE Quiet
    <3>1. row[j].status # "absent"
      BY <2>10, JobQueueAssumption DEF Cancel, Cancellable
    <3>2. row'[j].key = row[j].key /\ \A i \in Jobs \ {j} : row'[i] = row[i]
      BY <2>10, RecordFields DEF Cancel, TypeOK
    <3>3. QED BY <2>4, <3>1, <3>2
  <2>11. ASSUME NEW j \in Jobs, Purge(j) PROVE Quiet
    BY <2>11 DEF Purge, Absent, TypeOK
  <2>12. CASE SweepOrphans
    <3>1. ASSUME NEW i \in Jobs, row'[i].status # "absent"
          PROVE  row[i].status # "absent" /\ row'[i].key = row[i].key
      <4>1. \/ row'[i] = row[i]
            \/ row[i].status = "running" /\ row'[i] = Requeued(row[i])
        BY <2>12 DEF SweepOrphans, Stale, TypeOK
      <4>2. row[i] \in JobRecord
        BY DEF TypeOK
      <4>3. QED BY <3>1, <4>1, <4>2, RecordFields
    <3>2. QED BY <3>1, <2>1
  <2>13. ASSUME NEW I \in SUBSET Jobs, NEW M \in SUBSET Jobs, BulkCancel(I, M) PROVE Quiet
    <3>1. ASSUME NEW i \in Jobs, row'[i].status # "absent"
          PROVE  row[i].status # "absent" /\ row'[i].key = row[i].key
      <4>1. \/ row'[i] = row[i]
            \/ Cancellable(i) /\ row'[i] = [row[i] EXCEPT !.status = "cancelled"]
        BY <2>13 DEF BulkCancel, BulkTargets, TypeOK
      <4>2. row[i] \in JobRecord /\ (Cancellable(i) => row[i].status # "absent")
        BY JobQueueAssumption DEF TypeOK, Cancellable
      <4> DEFINE r == [row[i] EXCEPT !.status = "cancelled"]
      <4>3. r.key = row[i].key
        BY <4>2 DEF JobRecord
      <4> HIDE DEF r
      <4>4. QED BY <3>1, <4>1, <4>2, <4>3 DEF r
    <3>2. QED BY <3>1
  <2>14. CASE UNCHANGED vars
    BY <2>14 DEF vars, KeyUnique
  <2>15. QED
    BY <2>1, <2>3, <2>5, <2>6, <2>7, <2>8, <2>9, <2>10, <2>11, <2>12, <2>13, <2>14
    DEF Next, Dispatch
<1>3. QED BY <1>1, <1>2, TypeCorrect, NoUnsweptOverlap, PTL DEF Spec

-----------------------------------------------------------------------------
\* In the Postgres queue a terminal row that no consumer handles is out of reach
\* of every claim, outcome, sweep and cancel; only the retention job removes it.
THEOREM SettledRowsStay == Backend = "postgres" => (Spec => SettledStays)
<1> SUFFICES ASSUME Backend = "postgres" PROVE Spec => SettledStays
  OBVIOUS
<1> DEFINE Stays == \A j \in Jobs :
             /\ row[j].status \in Terminal
             /\ \A w \in Workers : ~Holds(w, j)
             => row'[j] = row[j] \/ row'[j].status = "absent"
<1>1. TypeOK /\ [Next]_vars => [Stays]_vars
  <2> SUFFICES ASSUME TypeOK, Next, NEW j \in Jobs,
                      row[j].status \in Terminal, \A w \in Workers : ~Holds(w, j)
               PROVE  row'[j] = row[j] \/ row'[j].status = "absent"
    OBVIOUS
  <2> DEFINE Kept == row'[j] = row[j] \/ row'[j].status = "absent"
  <2>1. row[j].status \notin {"absent", "queued", "running"}
    BY DEF Terminal
  <2>2. ASSUME NEW i \in Jobs, NEW k, Insert(i, k) PROVE Kept
    BY <2>1, <2>2 DEF Insert, TypeOK
  <2>3. CASE Enqueue
    BY <2>2, <2>3 DEF Enqueue, EnqueuePeek, EnqueueInsert, EnqueueLocked
  <2>4. ASSUME NEW w \in Workers, NEW i \in Jobs, Claim(w, i) PROVE Kept
    BY <2>1, <2>4 DEF Claim, Claimable, TypeOK
  <2>5. ASSUME NEW w \in Workers, NEW i \in Jobs, Complete(w, i) \/ Fail(w, i) PROVE Kept
    <3>1. i # j
      BY <2>5 DEF Complete, Fail, FailRead, FailWrite, FailLocked, Holds
    <3>2. QED BY <2>5, <3>1 DEF Complete, Fail, FailRead, FailWrite, FailLocked, TypeOK
  <2>6. ASSUME NEW w \in Workers, ConsumerDies(w) PROVE Kept
    BY <2>6 DEF ConsumerDies
  <2>7. ASSUME NEW p \in Pools, Process(p) PROVE Kept
    BY <2>7 DEF Process, Stop, Kill, Start, PoolEnds
  <2>8. ASSUME NEW i \in Jobs, BecomesDue(i) \/ BecomesStale(i) PROVE Kept
    BY <2>1, <2>8 DEF BecomesDue, BecomesStale, TypeOK
  <2>9. ASSUME NEW i \in Jobs, Cancel(i) PROVE Kept
    BY <2>1, <2>9 DEF Cancel, Cancellable, TypeOK
  <2>10. ASSUME NEW i \in Jobs, Purge(i) PROVE Kept
    BY <2>10 DEF Purge, Absent, TypeOK
  <2>11. CASE SweepOrphans
    BY <2>1, <2>11 DEF SweepOrphans, Stale, TypeOK
  <2>12. ASSUME NEW I \in SUBSET Jobs, NEW M \in SUBSET Jobs, BulkCancel(I, M) PROVE Kept
    BY <2>1, <2>12 DEF BulkCancel, BulkTargets, Cancellable, TypeOK
  <2>13. QED
    BY <2>3, <2>4, <2>5, <2>6, <2>7, <2>8, <2>9, <2>10, <2>11, <2>12 DEF Next, Dispatch
<1>2. QED BY <1>1, TypeCorrect, PTL DEF Spec, SettledStays

-----------------------------------------------------------------------------
(* max_attempts: fail() decides on a retry in one statement and writes it  *)
(* in another, so several consumers of one job may each hold the decision  *)
(* to queue it again.  The bound holds because a consumer beyond the first *)
(* costs an orphan recovery: the inductive invariant counts both.          *)

Holders(j) == {w \in Workers : Holds(w, j)}

\* Consumers that have decided on a retry and have not written it yet.
Deciders(j) == {w \in Workers : /\ Holds(w, j)
                                /\ worker[w].pc = "failing" /\ worker[w].verdict = "retry"}

Waiting(j) == IF row[j].status = "queued" THEN 1 ELSE 0

\* A queued row is one claim to come, a decision one more; each of them, and
\* each consumer, is the first or was paid for by a recovery.
BudgetOf(j) ==
    /\ Waiting(j) + Cardinality(Holders(j)) <= 1 + recoveries[j]
    /\ row[j].attempt + Waiting(j) + Cardinality(Deciders(j)) <= MaxAttempts + recoveries[j]

Budget == \A j \in Jobs : BudgetOf(j)

\* The counts are numbers, and smaller sets have smaller counts.
LEMMA Counts ==
  ASSUME IsFiniteSet(Workers), TypeOK, NEW j \in Jobs
  PROVE  /\ IsFiniteSet(Holders(j)) /\ IsFiniteSet(Deciders(j))
         /\ Cardinality(Holders(j)) \in Nat /\ Cardinality(Deciders(j)) \in Nat
         /\ Deciders(j) \subseteq Holders(j)
         /\ Cardinality(Deciders(j)) <= Cardinality(Holders(j))
         /\ Waiting(j) \in {0, 1}
         /\ row[j].attempt \in Nat /\ recoveries[j] \in Nat
<1>1. Holders(j) \in SUBSET Workers /\ Deciders(j) \in SUBSET Holders(j)
  BY DEF Holders, Deciders
<1>2. IsFiniteSet(Holders(j))
  BY <1>1, FS_Subset
<1>3. IsFiniteSet(Deciders(j)) /\ Cardinality(Deciders(j)) <= Cardinality(Holders(j))
  BY <1>1, <1>2, FS_Subset
<1>4. Cardinality(Holders(j)) \in Nat /\ Cardinality(Deciders(j)) \in Nat
  BY <1>2, <1>3, FS_CardinalityType
<1>5. QED BY <1>1, <1>2, <1>3, <1>4 DEF Waiting, TypeOK, JobRecord

\* A step that takes no hold and no decision keeps a job's budget, if it
\* queues the job only with a recovery.
LEMMA BudgetKept ==
  ASSUME IsFiniteSet(Workers), TypeOK, TypeOK', NEW j \in Jobs, BudgetOf(j),
         Holders(j)' \subseteq Holders(j), Deciders(j)' \subseteq Deciders(j),
         row'[j].attempt <= row[j].attempt,
         recoveries[j] + Waiting(j)' <= recoveries'[j] + Waiting(j)
  PROVE  BudgetOf(j)'
<1>1. /\ Cardinality(Holders(j)') <= Cardinality(Holders(j))
      /\ Cardinality(Deciders(j)') <= Cardinality(Deciders(j))
  BY Counts, FS_Subset
<1>2. /\ Cardinality(Holders(j)') \in Nat /\ Cardinality(Deciders(j)') \in Nat
      /\ Waiting(j)' \in {0, 1}
  <2>1. Holders(j)' \in SUBSET Workers /\ Deciders(j)' \in SUBSET Workers
    BY DEF Holders, Deciders
  <2>2. QED BY <2>1, FS_Subset, FS_CardinalityType DEF Waiting
<1>3. row'[j].attempt \in Nat /\ recoveries'[j] \in Nat
  BY DEF TypeOK, JobRecord
<1>4. QED BY <1>1, <1>2, <1>3, Counts, JobQueueAssumption DEF BudgetOf

\* A fresh or deleted row has no consumer, so its budget starts anew.
LEMMA BudgetStarts ==
  ASSUME NEW j \in Jobs, Holders(j)' = {}, row'[j].attempt = 0, recoveries'[j] \in Nat
  PROVE  BudgetOf(j)'
<1>1. Deciders(j)' = {}
  BY DEF Holders, Deciders
<1>2. Cardinality(Holders(j)') = 0 /\ Cardinality(Deciders(j)') = 0
  BY <1>1, FS_EmptySet
<1>3. Waiting(j)' \in {0, 1}
  BY DEF Waiting
<1>4. QED BY <1>2, <1>3, JobQueueAssumption DEF BudgetOf

\* A job whose row, consumers and recoveries a step leaves alone.
LEMMA BudgetSame ==
  ASSUME NEW j \in Jobs, BudgetOf(j), row'[j] = row[j], recoveries'[j] = recoveries[j],
         Holders(j)' = Holders(j), Deciders(j)' = Deciders(j)
  PROVE  BudgetOf(j)'
BY DEF BudgetOf, Waiting
\* What time and cancellations do to a row: its attempts stay, and it is not queued.
LEMMA NotQueued ==
  ASSUME NEW r \in JobRecord,
         NEW s \in {r, [r EXCEPT !.due = TRUE], [r EXCEPT !.started = "stale"],
                    [r EXCEPT !.status = "cancelled"]}
  PROVE  s.attempt = r.attempt /\ (s.status = "queued" => r.status = "queued")
BY DEF JobRecord

-----------------------------------------------------------------------------
\* Whatever crashes, stalls or races, fail()'s stale reads included, a job is
\* attempted at most max_attempts times plus once for each orphan recovery.
THEOREM AttemptsAreBounded == IsFiniteSet(Workers) => (Spec => []AttemptBudget)
<1> SUFFICES ASSUME IsFiniteSet(Workers) PROVE Spec => []AttemptBudget
  OBVIOUS
<1>1. Init => Budget
  <2> SUFFICES ASSUME Init, NEW j \in Jobs PROVE BudgetOf(j)
    BY DEF Budget
  <2>1. Holders(j) = {} /\ Deciders(j) = {}
    BY DEF Init, Holders, Deciders, Holds, Idle
  <2>2. Cardinality(Holders(j)) = 0 /\ Cardinality(Deciders(j)) = 0
    BY <2>1, FS_EmptySet
  <2>3. QED BY <2>2, JobQueueAssumption DEF Init, BudgetOf, Waiting, Absent
<1>2. TypeOK /\ TypeOK' /\ AttemptFence /\ Budget /\ [Next]_vars => Budget'
  <2> SUFFICES ASSUME TypeOK, TypeOK', AttemptFence, Budget, [Next]_vars,
                      NEW i \in Jobs
               PROVE  BudgetOf(i)'
    BY DEF Budget
  <2>a. BudgetOf(i) /\ MaxAttempts \in Nat \ {0}
    BY JobQueueAssumption DEF Budget
  <2>b. ASSUME UNCHANGED worker
        PROVE  Holders(i)' = Holders(i) /\ Deciders(i)' = Deciders(i)
    BY <2>b DEF Holders, Deciders, Holds
  <2>e. Idle.pc = "idle" /\ [Idle EXCEPT !.pc = "dead"].pc = "dead"
    BY DEF Idle
  <2>c. ASSUME NEW w \in Workers,
               \/ worker' = [worker EXCEPT ![w] = Idle]
               \/ worker' = [worker EXCEPT ![w] = [Idle EXCEPT !.pc = "dead"]]
        PROVE  /\ Holders(i)' = Holders(i) \ {w}
               /\ Deciders(i)' = Deciders(i) \ {w}
    <3>1. worker'[w].pc \in {"idle", "dead"} /\ \A v \in Workers \ {w} : worker'[v] = worker[v]
      BY <2>c, <2>e DEF TypeOK
    <3>2. QED BY <3>1 DEF Holders, Deciders, Holds
  <2>d. ASSUME NEW w \in Workers, NEW j \in Jobs, j # i, Holds(w, j)
        PROVE  w \notin Holders(i) /\ w \notin Deciders(i)
    BY <2>d DEF Holders, Deciders, Holds
  <2>1. ASSUME NEW j \in Jobs, NEW k, Insert(j, k), UNCHANGED worker PROVE BudgetOf(i)'
    <3>1. CASE i = j
      <4>1. Holders(i)' = {}
        BY <2>1, <3>1, <2>b DEF Insert, AttemptFence, Holders
      <4>2. row'[i].attempt = 0 /\ recoveries'[i] \in Nat
        BY <2>1, <3>1 DEF Insert, NewRow, TypeOK
      <4>3. QED BY <4>1, <4>2, BudgetStarts
    <3>2. CASE i # j
      BY <2>1, <3>2, <2>a, <2>b, BudgetSame DEF Insert, TypeOK
    <3>3. QED BY <3>1, <3>2
  <2>2. CASE Enqueue
    <3>1. ASSUME NEW c \in Clients, NEW k \in KeySpace, EnqueuePeek(c, k) PROVE BudgetOf(i)'
      BY <3>1, <2>a, <2>b, BudgetSame DEF EnqueuePeek
    <3>2. ASSUME NEW c \in Clients, EnqueueInsert(c) PROVE BudgetOf(i)'
      BY <3>2, <2>1, <2>a, <2>b, BudgetSame DEF EnqueueInsert
    <3>3. ASSUME NEW k \in KeySpace, EnqueueLocked(k) PROVE BudgetOf(i)'
      BY <3>3, <2>1 DEF EnqueueLocked
    <3>4. QED BY <2>2, <3>1, <3>2, <3>3 DEF Enqueue
  <2>3. ASSUME NEW w \in Workers, NEW j \in Jobs, Claim(w, j) PROVE BudgetOf(i)'
    <3>1. /\ worker'[w].pc = "handling" /\ worker'[w].job = j
          /\ \A v \in Workers \ {w} : worker'[v] = worker[v]
          /\ worker[w].pc = "idle" /\ recoveries' = recoveries
      BY <2>3 DEF Claim, TypeOK
    <3>2. Deciders(i)' = Deciders(i)
      BY <3>1 DEF Deciders, Holds
    <3>3. CASE i # j
      <4>1. Holders(i)' = Holders(i)
        BY <3>1, <3>3 DEF Holders, Holds
      <4>2. row'[i] = row[i]
        BY <2>3, <3>3 DEF Claim, TypeOK
      <4>3. QED BY <2>a, <3>1, <3>2, <4>1, <4>2, BudgetSame
    <3>4. CASE i = j
      <4>1. Holders(i)' = Holders(i) \cup {w} /\ w \notin Holders(i)
        BY <3>1, <3>4 DEF Holders, Holds
      <4>2. Cardinality(Holders(i)') = Cardinality(Holders(i)) + 1
        BY <4>1, Counts, FS_AddElement
      <4>3. row'[i].attempt = row[i].attempt + 1 /\ row'[i].status = "running"
        BY <2>3, <3>4 DEF Claim, NextAttempt, TypeOK, JobRecord
      <4>4. Waiting(i) = 1 /\ Waiting(i)' = 0
        BY <2>3, <3>4, <4>3 DEF Claim, Claimable, Waiting
      <4>5. QED BY <2>a, <3>1, <3>2, <4>2, <4>3, <4>4, Counts DEF BudgetOf
    <3>5. QED BY <3>3, <3>4
  <2>4. ASSUME NEW w \in Workers, NEW j \in Jobs, Complete(w, j) PROVE BudgetOf(i)'
    <3>1. Holders(i)' \subseteq Holders(i) /\ Deciders(i)' \subseteq Deciders(i)
      BY <2>4, <2>c DEF Complete
    <3>2. row'[i].attempt = row[i].attempt /\ Waiting(i)' <= Waiting(i)
      BY <2>4 DEF Complete, TypeOK, JobRecord, Waiting
    <3>3. QED BY <2>4, <2>a, <3>1, <3>2, Counts, BudgetKept DEF Complete, Waiting
  <2>5. ASSUME NEW w \in Workers, NEW j \in Jobs, NEW permanent \in BOOLEAN,
               FailRead(w, j, permanent)
        PROVE  BudgetOf(i)'
    <3>1. /\ worker'[w].pc = "failing" /\ worker'[w].job = j
          /\ worker'[w].verdict = IF WillRetry(j, permanent) THEN "retry" ELSE "dlq"
          /\ \A v \in Workers \ {w} : worker'[v] = worker[v]
          /\ worker[w].pc = "handling" /\ worker[w].job = j
          /\ row' = row /\ recoveries' = recoveries
      BY <2>5 DEF FailRead, TypeOK, WorkerState
    <3>2. Holders(i)' = Holders(i)
      BY <3>1 DEF Holders, Holds
    <3>3. CASE i = j /\ WillRetry(j, permanent)
      <4>1. /\ Deciders(i)' = Deciders(i) \cup {w} /\ w \notin Deciders(i)
            /\ Deciders(i)' \subseteq Holders(i)
        BY <3>1, <3>3 DEF Deciders, Holders, Holds
      <4>2. Cardinality(Deciders(i)') = Cardinality(Deciders(i)) + 1
        BY <4>1, Counts, FS_AddElement
      <4>3. Cardinality(Deciders(i)') <= Cardinality(Holders(i))
        BY <4>1, Counts, FS_Subset
      <4>4. row[i].attempt < MaxAttempts
        BY <3>3 DEF WillRetry
      <4>5. Waiting(i)' = Waiting(i)
        BY <3>1 DEF Waiting
      <4>6. QED BY <2>a, <3>1, <3>2, <4>2, <4>3, <4>4, <4>5, Counts DEF BudgetOf
    <3>4. CASE ~(i = j /\ WillRetry(j, permanent))
      <4>1. Deciders(i)' = Deciders(i)
        BY <3>1, <3>4 DEF Deciders, Holds
      <4>2. QED BY <2>a, <3>1, <3>2, <4>1, BudgetSame
    <3>5. QED BY <3>3, <3>4
  <2>6. ASSUME NEW w \in Workers, NEW j \in Jobs,
               FailWrite(w, j) \/ \E permanent \in BOOLEAN : FailLocked(w, j, permanent)
        PROVE  BudgetOf(i)'
    <3>1. /\ worker' = [worker EXCEPT ![w] = Idle] /\ Holds(w, j)
          /\ recoveries' = recoveries
      BY <2>6 DEF FailWrite, FailLocked, Holds
    <3>2. Holders(i)' = Holders(i) \ {w} /\ Deciders(i)' = Deciders(i) \ {w}
      BY <3>1, <2>c
    <3>3. CASE i # j
      <4>1. row'[i] = row[i]
        BY <2>6, <3>3 DEF FailWrite, FailLocked, TypeOK
      <4>2. QED BY <2>a, <2>d, <3>1, <3>2, <3>3, <4>1, BudgetSame
    <3>4. CASE i = j
      <4>1. /\ row'[i].attempt = row[i].attempt
            /\ \/ row'[i].status = "dead"
               \/ w \in Deciders(i)
               \/ row[i].attempt < MaxAttempts /\ w \notin Deciders(i)
        <5>1. CASE FailWrite(w, j)
          BY <3>1, <3>4, <5>1, RecordFields DEF FailWrite, TypeOK, Deciders
        <5>2. ASSUME NEW permanent \in BOOLEAN, FailLocked(w, j, permanent)
              PROVE  /\ row'[i].attempt = row[i].attempt /\ w \notin Deciders(i)
                     /\ row'[i].status = "dead" \/ row[i].attempt < MaxAttempts
          BY <3>4, <5>2, RecordFields DEF FailLocked, TypeOK, JobRecord, WillRetry, Deciders
        <5>3. QED BY <2>6, <5>1, <5>2
      <4>2. CASE row'[i].status = "dead"
        <5>1. Waiting(i)' = 0
          BY <4>2 DEF Waiting
        <5>2. QED BY <2>a, <3>1, <3>2, <4>1, <5>1, Counts, BudgetKept
      <4>3. CASE w \in Deciders(i) \/ (row[i].attempt < MaxAttempts /\ w \notin Deciders(i))
        <5>1. w \in Holders(i)
          BY <3>1, <3>4 DEF Holders
        <5>2. Cardinality(Holders(i)') = Cardinality(Holders(i)) - 1
          BY <3>2, <5>1, Counts, FS_RemoveElement
        <5>3. Waiting(i)' \in {0, 1}
          BY DEF Waiting
        <5>4. CASE w \in Deciders(i)
          <6>1. Cardinality(Deciders(i)') = Cardinality(Deciders(i)) - 1
            BY <3>2, <5>4, Counts, FS_RemoveElement
          <6>2. QED BY <2>a, <3>1, <4>1, <5>2, <5>3, <6>1, Counts DEF BudgetOf
        <5>5. CASE row[i].attempt < MaxAttempts /\ w \notin Deciders(i)
          <6>1. Deciders(i)' = Deciders(i) /\ Deciders(i) \subseteq Holders(i)'
            BY <3>2, <5>5, Counts
          <6>2. Cardinality(Deciders(i)) <= Cardinality(Holders(i)')
            <7>1. IsFiniteSet(Holders(i)')
              BY <3>2, Counts, FS_Subset
            <7>2. QED BY <6>1, <7>1, FS_Subset
          <6>3. QED BY <2>a, <3>1, <4>1, <5>2, <5>3, <5>5, <6>1, <6>2, Counts DEF BudgetOf
        <5>6. QED BY <4>3, <5>4, <5>5
      <4>4. QED BY <4>1, <4>2, <4>3
    <3>5. QED BY <3>3, <3>4
  <2>7. ASSUME NEW w \in Workers, ConsumerDies(w) PROVE BudgetOf(i)'
    <3>1. Holders(i)' \subseteq Holders(i) /\ Deciders(i)' \subseteq Deciders(i)
      BY <2>7, <2>c DEF ConsumerDies
    <3>2. QED BY <2>7, <2>a, <3>1, Counts, BudgetKept DEF ConsumerDies, Waiting
  <2>8. ASSUME NEW p \in Pools, Process(p) PROVE BudgetOf(i)'
    <3>1. Holders(i)' \subseteq Holders(i) /\ Deciders(i)' \subseteq Deciders(i)
      BY <2>8, <2>e DEF Process, Stop, Kill, Start, PoolEnds, Holders, Deciders, Holds, TypeOK
    <3>2. UNCHANGED <<row, recoveries>>
      BY <2>8 DEF Process, Stop, Kill, Start, PoolEnds
    <3>3. QED BY <2>a, <3>1, <3>2, Counts, BudgetKept DEF Waiting
  <2>9. ASSUME UNCHANGED worker, row'[i].attempt <= row[i].attempt,
               recoveries[i] + Waiting(i)' <= recoveries'[i] + Waiting(i)
        PROVE  BudgetOf(i)'
    BY <2>9, <2>a, <2>b, BudgetKept
  <2>10. ASSUME NEW j \in Jobs, BecomesDue(j) \/ BecomesStale(j) \/ Cancel(j)
         PROVE  BudgetOf(i)'
    <3>1. row'[i].attempt = row[i].attempt /\ Waiting(i)' <= Waiting(i)
      <4>1. row[i] \in JobRecord
        BY DEF TypeOK
      <4>2. row'[i] \in {row[i], [row[i] EXCEPT !.due = TRUE],
                         [row[i] EXCEPT !.started = "stale"],
                         [row[i] EXCEPT !.status = "cancelled"]}
        BY <2>10 DEF BecomesDue, BecomesStale, Cancel, TypeOK
      <4>3. /\ row'[i].attempt = row[i].attempt
            /\ row'[i].status = "queued" => row[i].status = "queued"
        BY <4>1, <4>2, NotQueued
      <4>4. QED BY <4>3 DEF Waiting
    <3>2. UNCHANGED <<worker, recoveries>>
      BY <2>10 DEF BecomesDue, BecomesStale, Cancel
    <3>3. QED BY <3>1, <3>2, <2>9, Counts DEF Waiting
  <2>11. ASSUME NEW j \in Jobs, Purge(j) PROVE BudgetOf(i)'
    <3>1. row'[i] \in {row[i], Absent} /\ UNCHANGED <<worker, recoveries>>
      BY <2>11 DEF Purge, TypeOK
    <3>2. row'[i].attempt <= row[i].attempt /\ Waiting(i)' <= Waiting(i)
      BY <3>1, Counts DEF Absent, Waiting
    <3>3. QED BY <3>1, <3>2, <2>9, Counts DEF Waiting
  <2>12. CASE SweepOrphans
    <3>1. row[i] \in JobRecord
      BY DEF TypeOK
    <3>2. CASE i \in Stale
      <4>1. row'[i] = Requeued(row[i]) /\ recoveries'[i] = recoveries[i] + 1
        BY <2>12, <3>2 DEF SweepOrphans, TypeOK
      <4>2. row'[i].attempt = row[i].attempt /\ Waiting(i)' = 1
        BY <3>1, <4>1, RecordFields DEF Waiting
      <4>3. QED BY <2>12, <4>1, <4>2, <2>9, Counts DEF SweepOrphans
    <3>3. CASE i \notin Stale
      <4>1. row'[i] = row[i] /\ recoveries'[i] = recoveries[i]
        BY <2>12, <3>3 DEF SweepOrphans, TypeOK
      <4>2. QED BY <2>12, <4>1, <2>a, <2>b, BudgetSame DEF SweepOrphans
    <3>4. QED BY <3>2, <3>3
  <2>13. ASSUME NEW I \in SUBSET Jobs, NEW M \in SUBSET Jobs, BulkCancel(I, M)
         PROVE  BudgetOf(i)'
    <3>1. row'[i] = row[i] \/ row'[i] = [row[i] EXCEPT !.status = "cancelled"]
      BY <2>13 DEF BulkCancel, TypeOK
    <3>2. row'[i].attempt = row[i].attempt /\ Waiting(i)' <= Waiting(i)
      <4>1. row[i] \in JobRecord
        BY DEF TypeOK
      <4>2. row'[i] \in {row[i], [row[i] EXCEPT !.due = TRUE],
                         [row[i] EXCEPT !.started = "stale"],
                         [row[i] EXCEPT !.status = "cancelled"]}
        BY <3>1
      <4>3. /\ row'[i].attempt = row[i].attempt
            /\ row'[i].status = "queued" => row[i].status = "queued"
        BY <4>1, <4>2, NotQueued
      <4>4. QED BY <4>3 DEF Waiting
    <3>3. QED BY <2>13, <3>2, <2>9, Counts DEF BulkCancel, Waiting
  <2>14. CASE UNCHANGED vars
    BY <2>14, <2>a, <2>b, BudgetSame DEF vars
  <2>15. QED
    BY <2>2, <2>3, <2>4, <2>5, <2>6, <2>7, <2>8, <2>10, <2>11, <2>12, <2>13, <2>14
    DEF Next, Dispatch, Fail
<1>3. TypeOK /\ Budget => AttemptBudget
  <2> SUFFICES ASSUME TypeOK, Budget, NEW j \in Jobs
               PROVE  row[j].attempt <= MaxAttempts + recoveries[j]
    BY DEF AttemptBudget
  <2>1. BudgetOf(j)
    BY DEF Budget
  <2>2. QED BY <2>1, Counts, JobQueueAssumption DEF BudgetOf
<1>4. QED BY <1>1, <1>2, <1>3, TypeCorrect, NoUnsweptOverlap, PTL DEF Spec

-----------------------------------------------------------------------------
(* The leases: a caller need not know about keys, due times, the two       *)
(* statements of fail() or the processes.                                  *)

\* A lease is the hold of a consumer.
LEMMA LeaseIsHold ==
  ASSUME TypeOK, NEW w \in Workers, NEW j \in Jobs
  PROVE  /\ LeaseOf[w] = j <=> Holds(w, j)
         /\ worker[w].pc \notin {"handling", "failing"} => LeaseOf[w] = NoJob
BY JobQueueAssumption DEF LeaseOf, Holds

\* No consumer moves, no lease does.
LEMMA LeasesSame == UNCHANGED worker => UNCHANGED LeaseOf
BY DEF LeaseOf

\* What happens to rows but does not show in their status or attempts.
LEMMA RowsSame ==
  ASSUME \A j \in Jobs : row'[j].status = row[j].status /\ row'[j].attempt = row[j].attempt
  PROVE  UNCHANGED <<StatusOf, AttemptOf>>
BY DEF StatusOf, AttemptOf

\* A consumer that ends its handling has no lease; the others keep theirs.
LEMMA LeaseEnds ==
  ASSUME TypeOK, NEW w \in Workers,
         \/ worker' = [worker EXCEPT ![w] = Idle]
         \/ worker' = [worker EXCEPT ![w] = [Idle EXCEPT !.pc = "dead"]]
  PROVE  LeaseOf' = [LeaseOf EXCEPT ![w] = NoJob]
<1>1. Idle.pc \in {"idle", "dead"} /\ [Idle EXCEPT !.pc = "dead"].pc \in {"idle", "dead"}
  BY DEF Idle
<1>2. worker'[w].pc \in {"idle", "dead"} /\ \A v \in Workers \ {w} : worker'[v] = worker[v]
  BY <1>1 DEF TypeOK
<1>3. QED BY <1>2 DEF LeaseOf

\* A claim is a lease.
LEMMA LeaseBegins ==
  ASSUME TypeOK, NEW w \in Workers, NEW j \in Jobs, NEW s,
         s.pc = "handling", s.job = j, worker' = [worker EXCEPT ![w] = s]
  PROVE  LeaseOf' = [LeaseOf EXCEPT ![w] = j]
BY DEF LeaseOf, TypeOK

\* One row takes a new status.
LEMMA RowBecomes ==
  ASSUME TypeOK, NEW j \in Jobs, NEW r, row' = [row EXCEPT ![j] = r]
  PROVE  /\ Leases!Become({j}, r.status)
         /\ r.attempt = row[j].attempt => UNCHANGED AttemptOf
         /\ AttemptOf' = [AttemptOf EXCEPT ![j] = r.attempt]
BY DEF Leases!Become, StatusOf, AttemptOf, TypeOK

-----------------------------------------------------------------------------
\* Every step of the Postgres queue is a step of the leases, or hidden.
THEOREM QueueImplementsLeases == Backend = "postgres" => (Spec => ImplementsLeases)
<1> SUFFICES ASSUME Backend = "postgres" PROVE Spec => ImplementsLeases
  OBVIOUS
<1>1. Init => Leases!Init
  BY DEF Init, Leases!Init, StatusOf, AttemptOf, LeaseOf, Absent, Idle
<1>2. TypeOK /\ AttemptFence /\ [Next]_vars => [Leases!Next]_Leases!vars
  <2> SUFFICES ASSUME TypeOK, AttemptFence, [Next]_vars
               PROVE  Leases!Next \/ UNCHANGED <<StatusOf, AttemptOf, LeaseOf>>
    BY DEF Leases!vars
  <2> DEFINE Hidden == UNCHANGED <<StatusOf, AttemptOf, LeaseOf>>
  <2>0. \A j \in Jobs : (\A w \in Workers : ~Holds(w, j)) => ~Leases!Leased(j)
    BY LeaseIsHold DEF Leases!Leased
  <2>1. CASE Enqueue
    <3>1. CASE UNCHANGED row
      BY <2>1, <3>1, LeasesSame, RowsSame DEF Enqueue, EnqueuePeek, EnqueueInsert, EnqueueLocked
    <3>2. ASSUME NEW j \in Jobs, NEW k, Insert(j, k), UNCHANGED worker
          PROVE  Leases!Submit(j)
      <4>1. row[j].status = "absent" /\ StatusOf[j] = "absent"
        BY <3>2 DEF Insert, StatusOf
      <4>2. PICK due \in BOOLEAN : row' = [row EXCEPT ![j] = NewRow(k, due)]
        BY <3>2 DEF Insert
      <4>3. NewRow(k, due).status = "queued" /\ NewRow(k, due).attempt = 0
        BY DEF NewRow
      <4>4. Leases!Become({j}, "queued") /\ AttemptOf' = [AttemptOf EXCEPT ![j] = 0]
        BY <4>2, <4>3, RowBecomes
      <4>5. ~Leases!Leased(j)
        BY <4>1, <2>0 DEF AttemptFence
      <4>6. QED BY <3>2, <4>1, <4>4, <4>5, LeasesSame DEF Leases!Submit
    <3>3. CASE \E c \in Clients, k \in KeySpace : EnqueuePeek(c, k)
      BY <3>1, <3>3 DEF EnqueuePeek
    <3>4. CASE \E c \in Clients : EnqueueInsert(c)
      BY <3>1, <3>2, <3>4 DEF EnqueueInsert, Leases!Next
    <3>5. QED BY <2>1, <3>3, <3>4 DEF Enqueue, EnqueueLocked
  <2>2. ASSUME NEW w \in Workers, NEW j \in Jobs, Claim(w, j) PROVE Leases!Deliver(w, j)
    <3>1. StatusOf[j] = "queued" /\ LeaseOf[w] = NoJob
      BY <2>2, LeaseIsHold DEF Claim, Claimable, StatusOf
    <3>2. LeaseOf' = [LeaseOf EXCEPT ![w] = j]
      BY <2>2, LeaseBegins DEF Claim
    <3>3. StatusOf' = [StatusOf EXCEPT ![j] = "running"]
          /\ AttemptOf' = [AttemptOf EXCEPT ![j] = @ + 1]
      BY <2>2 DEF Claim, NextAttempt, StatusOf, AttemptOf, TypeOK, JobRecord
    <3>4. Leases!Become({j}, "running")
      BY <3>3 DEF Leases!Become, StatusOf
    <3>5. QED BY <3>1, <3>2, <3>3, <3>4 DEF Leases!Deliver
  <2>3. ASSUME NEW w \in Workers, NEW j \in Jobs, Holds(w, j), NEW r,
               row' = [row EXCEPT ![j] = r], r.attempt = row[j].attempt,
               r.status \in {"queued", "succeeded", "dead"},
               worker' = [worker EXCEPT ![w] = Idle]
        PROVE  Leases!Return(w, j)
    <3>1. LeaseOf[w] = j
      BY <2>3, LeaseIsHold
    <3>2. LeaseOf' = [LeaseOf EXCEPT ![w] = NoJob]
      BY <2>3, LeaseEnds
    <3>3. Leases!Become({j}, r.status) /\ UNCHANGED AttemptOf
      <4>1. row' = [row EXCEPT ![j] = r] /\ r.attempt = row[j].attempt
        BY <2>3
      <4>2. QED BY <4>1, RowBecomes
    <3>4. QED BY <2>3, <3>1, <3>2, <3>3 DEF Leases!Return
  <2>4. ASSUME NEW w \in Workers, NEW j \in Jobs, Complete(w, j) PROVE Leases!Return(w, j)
    <3> DEFINE r == [row[j] EXCEPT !.status = "succeeded"]
    <3>1. r.status = "succeeded" /\ r.attempt = row[j].attempt
      <4>1. row[j] \in JobRecord
        BY DEF TypeOK
      <4>2. QED BY <4>1 DEF JobRecord
    <3>2. row' = [row EXCEPT ![j] = r] /\ worker' = [worker EXCEPT ![w] = Idle] /\ Holds(w, j)
      BY <2>4 DEF Complete, Holds, TypeOK
    <3>3. QED BY <3>1, <3>2, <2>3
  <2>5. ASSUME NEW w \in Workers, NEW j \in Jobs, Fail(w, j)
        PROVE  Leases!Return(w, j) \/ Hidden
    <3>1. ASSUME NEW permanent, FailRead(w, j, permanent) PROVE Hidden
      <4>1. LeaseOf' = LeaseOf
        BY <3>1 DEF FailRead, LeaseOf, TypeOK
      <4>2. QED BY <3>1, <4>1, RowsSame DEF FailRead
    <3>2. CASE FailWrite(w, j)
      <4>1. row[j] \in JobRecord /\ worker' = [worker EXCEPT ![w] = Idle] /\ Holds(w, j)
        BY <3>2 DEF FailWrite, Holds, TypeOK
      <4>2. CASE row' = [row EXCEPT ![j] = Requeued(row[j])]
        <5>1. Requeued(row[j]).status = "queued" /\ Requeued(row[j]).attempt = row[j].attempt
          BY <4>1 DEF JobRecord, Requeued
        <5>2. QED BY <4>1, <4>2, <5>1, <2>3
      <4>3. CASE row' = [row EXCEPT ![j] = [row[j] EXCEPT !.status = "dead"]]
        <5> DEFINE r == [row[j] EXCEPT !.status = "dead"]
        <5>1. r.status = "dead" /\ r.attempt = row[j].attempt
          BY <4>1 DEF JobRecord
        <5>2. row' = [row EXCEPT ![j] = r]
          BY <4>3
        <5>3. QED BY <4>1, <5>1, <5>2, <2>3
      <4>4. QED BY <3>2, <4>2, <4>3 DEF FailWrite, TypeOK
    <3>3. QED BY <2>5, <3>1, <3>2 DEF Fail, FailLocked
  <2>6. ASSUME NEW w \in Workers, ConsumerDies(w) PROVE Leases!Abandon({w})
    <3>1. LeaseOf' = [LeaseOf EXCEPT ![w] = NoJob]
      BY <2>6, LeaseEnds DEF ConsumerDies
    <3>2. UNCHANGED <<StatusOf, AttemptOf>>
      BY <2>6, RowsSame DEF ConsumerDies
    <3>3. QED BY <3>1, <3>2 DEF Leases!Abandon, LeaseOf
  <2>7. ASSUME NEW p \in Pools, Process(p)
        PROVE  Hidden \/ Leases!Abandon({w \in Workers : PoolOf[w] = p})
    <3>1. UNCHANGED <<StatusOf, AttemptOf>>
      BY <2>7, RowsSame DEF Process, Stop, Kill, Start, PoolEnds
    <3>2. CASE UNCHANGED worker
      BY <3>1, <3>2, LeasesSame
    <3>3. CASE worker' = [w \in Workers |-> IF PoolOf[w] = p THEN Idle ELSE worker[w]]
      BY <3>1, <3>3 DEF LeaseOf, Leases!Abandon, Idle
    <3>4. QED BY <2>7, <3>2, <3>3 DEF Process, Stop, Kill, Start, PoolEnds
  <2>8. ASSUME NEW j \in Jobs, BecomesDue(j) \/ BecomesStale(j) PROVE Hidden
    <3>1. \A i \in Jobs : row'[i].status = row[i].status /\ row'[i].attempt = row[i].attempt
      BY <2>8 DEF BecomesDue, BecomesStale, TypeOK, JobRecord
    <3>2. QED BY <2>8, <3>1, RowsSame, LeasesSame DEF BecomesDue, BecomesStale
  <2>9. ASSUME NEW jobs \in SUBSET Jobs, NEW s,
               \A i \in Jobs : /\ row'[i].attempt = row[i].attempt
                               /\ row'[i].status = IF i \in jobs THEN s ELSE row[i].status
        PROVE  UNCHANGED AttemptOf /\ Leases!Become(jobs, s)
    BY <2>9 DEF AttemptOf, StatusOf, Leases!Become
  <2>10. ASSUME NEW j \in Jobs, Cancel(j) PROVE Leases!Withdraw({j})
    <3>1. \A i \in Jobs : /\ row'[i].attempt = row[i].attempt
                          /\ row'[i].status = IF i \in {j} THEN "cancelled" ELSE row[i].status
      BY <2>10 DEF Cancel, TypeOK, JobRecord
    <3>2. StatusOf[j] \in {"queued", "running"}
      BY <2>10 DEF Cancel, Cancellable, StatusOf
    <3>3. QED BY <2>9, <2>10, <3>1, <3>2, LeasesSame DEF Cancel, Leases!Withdraw, Leases!In
  <2>11. CASE SweepOrphans
    <3>1. \A i \in Jobs : /\ row'[i].attempt = row[i].attempt
                          /\ row'[i].status = IF i \in Stale THEN "queued" ELSE row[i].status
      BY <2>11 DEF SweepOrphans, Requeued, TypeOK, JobRecord
    <3>2. Stale \in SUBSET Jobs /\ \A i \in Stale : StatusOf[i] = "running"
      BY DEF Stale, StatusOf
    <3>3. Leases!Expire(Stale)
      BY <2>9, <2>11, <3>1, <3>2, LeasesSame DEF SweepOrphans, Leases!Expire, Leases!In
    <3>4. QED BY <3>3 DEF Leases!Next, Leases!Expire, Leases!In
  <2>12. ASSUME NEW ids \in SUBSET Jobs, NEW matching \in SUBSET Jobs, BulkCancel(ids, matching)
         PROVE  Leases!Withdraw(BulkTargets(ids, matching)) /\ BulkTargets(ids, matching) \in SUBSET Jobs
    <3> DEFINE B == BulkTargets(ids, matching)
    <3>1. B \in SUBSET Jobs /\ \A i \in B : StatusOf[i] \in {"queued", "running"}
      BY DEF BulkTargets, Cancellable, StatusOf
    <3>2. \A i \in Jobs : /\ row'[i].attempt = row[i].attempt
                          /\ row'[i].status = IF i \in B THEN "cancelled" ELSE row[i].status
      BY <2>12 DEF BulkCancel, TypeOK, JobRecord
    <3>3. QED BY <2>9, <2>12, <3>1, <3>2, LeasesSame DEF BulkCancel, Leases!Withdraw, Leases!In
  <2>13. ASSUME NEW j \in Jobs, Purge(j) PROVE Leases!Forget(j)
    <3>1. Absent.status = "absent" /\ Absent.attempt = 0
      BY DEF Absent
    <3>2. Leases!Become({j}, "absent") /\ AttemptOf' = [AttemptOf EXCEPT ![j] = 0]
      BY <2>13, <3>1, RowBecomes DEF Purge
    <3>3. StatusOf[j] \in Leases!Over /\ ~Leases!Leased(j)
      BY <2>13, <2>0 DEF Purge, StatusOf, Terminal, Leases!Over
    <3>4. QED BY <2>13, <3>2, <3>3, LeasesSame DEF Purge, Leases!Forget
  <2>14. CASE UNCHANGED vars
    BY <2>14, LeasesSame, RowsSame DEF vars
  <2>15. QED
    BY <2>1, <2>2, <2>4, <2>5, <2>6, <2>7, <2>8, <2>10, <2>11, <2>12, <2>13, <2>14
    DEF Next, Dispatch, Leases!Next, Leases!Withdraw
<1>3. QED BY <1>1, <1>2, TypeCorrect, NoUnsweptOverlap, PTL DEF Spec, ImplementsLeases, Leases!Spec
=============================================================================
