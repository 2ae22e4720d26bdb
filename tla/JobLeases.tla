----------------------------- MODULE JobLeases -----------------------------
(***************************************************************************)
(* What the job queue promises the code that uses it.  A job is delivered  *)
(* at least once: each delivery is a lease of a queued job to a free       *)
(* consumer and counts one attempt.  A job returns to the queue when its   *)
(* consumer says so or when its lease expires; an outcome counts even if   *)
(* the lease has expired or the job was withdrawn meanwhile.  A job that   *)
(* is over stays so unless a consumer still has a lease on it.             *)
(***************************************************************************)
CONSTANTS
    Jobs,
    Workers,  \* consumers
    NoJob

VARIABLES
    status,   \* [Jobs -> status]
    attempt,  \* [Jobs -> deliveries so far]
    lease     \* [Workers -> the job each consumer is handling, or NoJob]

vars == <<status, attempt, lease>>

LOCAL INSTANCE Naturals

Over == {"succeeded", "dead", "cancelled"}
Leased(j) == \E w \in Workers : lease[w] = j

Init ==
    /\ status = [j \in Jobs |-> "absent"]
    /\ attempt = [j \in Jobs |-> 0]
    /\ lease = [w \in Workers |-> NoJob]

Become(jobs, s) == status' = [j \in Jobs |-> IF j \in jobs THEN s ELSE status[j]]

Submit(j) ==
    /\ status[j] = "absent" /\ ~Leased(j)
    /\ Become({j}, "queued")
    /\ attempt' = [attempt EXCEPT ![j] = 0]
    /\ UNCHANGED lease

Deliver(w, j) ==
    /\ status[j] = "queued" /\ lease[w] = NoJob
    /\ Become({j}, "running")
    /\ attempt' = [attempt EXCEPT ![j] = @ + 1]
    /\ lease' = [lease EXCEPT ![w] = j]

Return(w, j) ==
    /\ lease[w] = j
    /\ \E s \in {"queued", "succeeded", "dead"} : Become({j}, s)
    /\ lease' = [lease EXCEPT ![w] = NoJob]
    /\ UNCHANGED attempt

\* Consumers stop, and say nothing about their jobs.
Abandon(workers) ==
    /\ lease' = [w \in Workers |-> IF w \in workers THEN NoJob ELSE lease[w]]
    /\ UNCHANGED <<status, attempt>>

In(statuses) == {j \in Jobs : status[j] \in statuses}

Expire(jobs) ==
    /\ jobs \subseteq In({"running"})
    /\ Become(jobs, "queued")
    /\ UNCHANGED <<attempt, lease>>

Withdraw(jobs) ==
    /\ jobs \subseteq In({"queued", "running"})
    /\ Become(jobs, "cancelled")
    /\ UNCHANGED <<attempt, lease>>

Forget(j) ==
    /\ status[j] \in Over /\ ~Leased(j)
    /\ Become({j}, "absent")
    /\ attempt' = [attempt EXCEPT ![j] = 0]
    /\ UNCHANGED lease

Next ==
    \/ \E workers \in SUBSET Workers : Abandon(workers)
    \/ \E j \in Jobs : Submit(j) \/ Forget(j)
    \/ \E w \in Workers, j \in Jobs : Deliver(w, j) \/ Return(w, j)
    \/ \E jobs \in SUBSET In({"queued", "running"}) : Expire(jobs) \/ Withdraw(jobs)

Spec == Init /\ [][Next]_vars
=============================================================================
