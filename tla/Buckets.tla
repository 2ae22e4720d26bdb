------------------------------- MODULE Buckets -------------------------------
(***************************************************************************)
(* The two token buckets: the tenant's, which a run is started against     *)
(* (services/tenant_rate_limiter.py), and the governor's of one account,   *)
(* which publishing waits for (core/rate_limit.py).  A token is Unit parts *)
(* and accrues at a number of parts per tick; a take is one transaction or *)
(* script, or under the lock.                                              *)
(***************************************************************************)
EXTENDS Naturals, FiniteSets, FiniteSetsExt

CONSTANTS
    Unit,            \* parts of a token
    Capacity, Rates, \* of the tenant's bucket: tokens, and the parts per tick it may be given
    Room,            \* tokens the governor's bucket holds; it gains a part per tick
    Publisher,       \* concurrent callers of acquire
    MaxClock, MaxTakes

VARIABLES
    clock,
    tokens, stamp, rate,  \* the tenant's bucket: parts, last_refill_at, refill_per_sec
    taken,                \* tokens that try_consume has handed out
    purse, touched,       \* the governor's bucket and its ts
    wake,                 \* when each publisher's sleep ends; 0: it does not sleep
    passed, slept         \* acquires that returned, and those of them that slept

vars == <<clock, tokens, stamp, rate, taken, purse, touched, wake, passed, slept>>
tenant == <<tokens, stamp, rate, taken>>
governor == <<purse, touched, wake, passed, slept>>

BucketsAssumption ==
    /\ Unit \in Nat \ {0} /\ Capacity \in Nat /\ Room \in Nat /\ Rates \subseteq Nat \ {0}
    /\ \E top \in Rates : \A r \in Rates : r <= top
    /\ MaxClock \in Nat /\ MaxTakes \in Nat

Least(m, n) == IF m <= n THEN m ELSE n

TypeOK ==
    /\ clock \in 0 .. MaxClock /\ stamp \in 0 .. clock /\ touched \in 0 .. clock
    /\ tokens \in 0 .. Capacity * Unit /\ rate \in Rates /\ taken \in 0 .. MaxTakes
    /\ purse \in 0 .. Room * Unit /\ wake \in [Publisher -> 0 .. MaxClock + Unit]
    /\ slept \in 0 .. passed /\ passed \in 0 .. MaxTakes

Init ==
    /\ clock = 0 /\ tokens = Capacity * Unit /\ stamp = 0 /\ rate = Max(Rates) /\ taken = 0
    /\ purse = Room * Unit /\ touched = 0 /\ wake = [p \in Publisher |-> 0]
    /\ passed = 0 /\ slept = 0

Tick ==
    /\ clock < MaxClock
    /\ clock' = clock + 1
    /\ UNCHANGED <<tenant, governor>>

\* Mutant of Refilled: the time since the bucket was made counts.
RefilledEver == Least(Capacity * Unit, tokens + clock * rate)
Refilled == Least(Capacity * Unit, tokens + (clock - stamp) * rate)

\* try_consume: refill, then take a token if there is one; the row is locked.
TryConsume ==
    /\ taken < MaxTakes
    /\ LET allowed == Refilled >= Unit IN
       /\ tokens' = IF allowed THEN Refilled - Unit ELSE Refilled
       /\ taken' = IF allowed THEN taken + 1 ELSE taken
    /\ stamp' = clock
    /\ UNCHANGED <<clock, rate, governor>>

\* configure gives another rate; what has accrued meanwhile is counted at that
\* one. A smaller capacity would also cut the tokens.
Configure ==
    /\ \E r \in Rates : rate' = r
    /\ UNCHANGED <<clock, tokens, stamp, taken, governor>>

Accrued == Least(Room * Unit, purse + (clock - touched))
\* acquire: without a token the bucket is emptied, and the caller sleeps for the
\* time that the missing parts take; it takes nothing when it wakes.
Acquire(p) ==
    /\ wake[p] = 0 /\ passed < MaxTakes
    /\ touched' = clock
    /\ IF Accrued >= Unit
       THEN purse' = Accrued - Unit /\ passed' = passed + 1 /\ UNCHANGED wake
       ELSE purse' = 0 /\ wake' = [wake EXCEPT ![p] = clock + (Unit - Accrued)] /\ UNCHANGED passed
    /\ UNCHANGED <<clock, tenant, slept>>

Wakes(p) ==
    /\ wake[p] # 0 /\ wake[p] <= clock /\ passed < MaxTakes
    /\ wake' = [wake EXCEPT ![p] = 0]
    /\ passed' = passed + 1 /\ slept' = slept + 1
    /\ UNCHANGED <<clock, tenant, purse, touched>>

Next ==
    \/ Tick \/ TryConsume \/ Configure
    \/ \E p \in Publisher : Acquire(p) \/ Wakes(p)

Spec == Init /\ [][Next]_vars
-----------------------------------------------------------------------------
\* A tenant starts no more runs than a full bucket and the highest rate pay for.
TenantIsHeld == taken * Unit <= Capacity * Unit + clock * Max(Rates)

\* The governor lets through what its bucket pays for, and everyone who has
\* slept on top of that: sleepers that wait together pass together.
GovernorIsHeld == (passed - slept) * Unit <= Room * Unit + clock

\* A single account stays within its platform's budget.
AccountWithinBudget == passed * Unit <= Room * Unit + clock
=============================================================================
