------------------------------- MODULE Breaker -------------------------------
(***************************************************************************)
(* The circuit breaker of one target (services/circuit_breaker.py), shared *)
(* by all workers through a row of smms.circuit_state or by the tasks of   *)
(* one process.  guard() reads the row, perhaps promotes it, makes the     *)
(* call and reports the outcome, each in a transaction of its own, so that *)
(* what it read may be stale when it acts.                                 *)
(***************************************************************************)
EXTENDS Naturals, FiniteSets

CONSTANTS
    Call,       \* calls of guard() that may be under way at the same time
    Threshold,  \* failure_threshold
    MaxFails,   \* consecutive_fail is counted up to here
    MaxCalls

VARIABLES
    state, fails,  \* the row: its state and consecutive_fail
    cooled,        \* next_probe_at: "none", or whether it lies ahead or has passed
    call,          \* where each call is
    calls,
    stale          \* history: the row changed between the reading and the promotion of a call

vars == <<state, fails, cooled, call, calls, stale>>

BreakerAssumption ==
    /\ Threshold \in Nat \ {0} /\ MaxFails \in Nat /\ Threshold <= MaxFails
    /\ MaxCalls \in Nat

CallPcs == {"idle", "promoting", "ready", "calling", "succeeded", "failed"}
TypeOK ==
    /\ state \in {"closed", "open", "half_open"} /\ fails \in 0 .. MaxFails
    /\ cooled \in {"none", "ahead", "passed"}
    /\ call \in [Call -> CallPcs] /\ calls \in 0 .. MaxCalls /\ stale \in BOOLEAN

Init ==
    /\ state = "closed" /\ fails = 0 /\ cooled = "none"
    /\ call = [c \in Call |-> "idle"] /\ calls = 0 /\ stale = FALSE

\* status(): an open row whose probe time lies ahead raises CircuitOpen.
Refuses == state = "open" /\ cooled = "ahead"
Guard(c) ==
    /\ call[c] = "idle" /\ calls < MaxCalls /\ ~ Refuses
    /\ calls' = calls + 1
    /\ call' = [call EXCEPT ![c] = IF state = "open" THEN "promoting" ELSE "ready"]
    /\ UNCHANGED <<state, fails, cooled, stale>>

\* _set_half_open writes without looking.
Promote(c) ==
    /\ call[c] = "promoting"
    /\ state' = "half_open"
    /\ call' = [call EXCEPT ![c] = "calling"]
    /\ stale' = (stale \/ state # "open" \/ cooled # "passed")
    /\ UNCHANGED <<fails, cooled, calls>>

Invoke(c) ==
    /\ call[c] = "ready"
    /\ call' = [call EXCEPT ![c] = "calling"]
    /\ UNCHANGED <<state, fails, cooled, calls, stale>>

\* The call returns, raises, or is cancelled, which guard() does not report.
Answer(c) ==
    /\ call[c] = "calling"
    /\ \E pc \in {"succeeded", "failed", "idle"} : call' = [call EXCEPT ![c] = pc]
    /\ UNCHANGED <<state, fails, cooled, calls, stale>>

RecordSuccess(c) ==
    /\ call[c] = "succeeded"
    /\ state' = "closed" /\ fails' = 0 /\ cooled' = "none"
    /\ call' = [call EXCEPT ![c] = "idle"]
    /\ UNCHANGED <<calls, stale>>

\* Mutant of Trips: an off-by-one.
TripsLate(n) == n > Threshold
Trips(n) == n >= Threshold
\* It opens, or opens again with a fresh cooldown; otherwise the state stays.
RecordFailure(c) ==
    /\ call[c] = "failed"
    /\ fails' = IF fails < MaxFails THEN fails + 1 ELSE fails
    /\ state' = IF Trips(fails + 1) THEN "open" ELSE state
    /\ cooled' = IF Trips(fails + 1) THEN "ahead" ELSE cooled
    /\ call' = [call EXCEPT ![c] = "idle"]
    /\ UNCHANGED <<calls, stale>>

Cools ==
    /\ cooled = "ahead"
    /\ cooled' = "passed"
    /\ UNCHANGED <<state, fails, call, calls, stale>>

Next ==
    \/ \E c \in Call : \/ Guard(c) \/ Promote(c) \/ Invoke(c) \/ Answer(c)
                       \/ RecordSuccess(c) \/ RecordFailure(c)
    \/ Cools

Spec == Init /\ [][Next]_vars
-----------------------------------------------------------------------------
\* As many failures in a row as the threshold open the circuit, and an open one
\* has a time for its probe: it is never shut out for good.
OpensAndProbes ==
    /\ state = "open" => fails >= Threshold /\ cooled # "none"
    /\ fails >= Threshold => state # "closed"

\* A half-open circuit opens at the next failure, unless a promotion came late,
\* after another call had closed it: then it lets all calls through.
HalfOpenIsOnTrial == state = "half_open" /\ ~ stale => fails >= Threshold

\* "on the next probe, allow ONE call through".
OneProbe ==
    state = "half_open" /\ ~ stale => Cardinality({c \in Call : call[c] = "calling"}) <= 1
=============================================================================
