------------------------------ MODULE Spending ------------------------------
(***************************************************************************)
(* The monthly LLM budget of one organisation (services/llm_usage.py,      *)
(* adapters/llm/budget_guard.py).  A completion is admitted by the sum of  *)
(* the usage rows; its own row is inserted by a task that nobody waits     *)
(* for, after the completion has returned, and under the month of that     *)
(* moment.  A completion costs one unit.                                   *)
(***************************************************************************)
EXTENDS Naturals, FiniteSets, FiniteSetsExt

CONSTANTS
    Completion,  \* completions, each called once
    Budgets,     \* the budgets an administrator may set; 0: unlimited
    MaxMonth

VARIABLES
    month, budget,
    pc,      \* where each completion is
    seen,    \* the budget that its check_budget read
    billed,  \* the month of its row; 0: none
    begun,   \* history: the month it was admitted in
    crowd,   \* history: the most that were admitted and not yet recorded at a time
    opened   \* history: the budget was changed

vars == <<month, budget, pc, seen, billed, begun, crowd, opened>>

SpendingAssumption == Budgets \subseteq Nat /\ MaxMonth \in Nat \ {0}

Unrecorded == {"admitted", "returned"}
TypeOK ==
    /\ month \in 1 .. MaxMonth /\ budget \in Budgets
    /\ pc \in [Completion -> {"idle", "checking", "admitted", "returned", "done", "refused"}]
    /\ seen \in [Completion -> Budgets]
    /\ billed \in [Completion -> 0 .. MaxMonth] /\ begun \in [Completion -> 0 .. MaxMonth]
    /\ crowd \in Nat /\ opened \in BOOLEAN

Init ==
    /\ month = 1 /\ budget \in Budgets /\ pc = [c \in Completion |-> "idle"]
    /\ seen = [c \in Completion |-> budget]
    /\ billed = [c \in Completion |-> 0] /\ begun = [c \in Completion |-> 0]
    /\ crowd = 0 /\ opened = FALSE

MtdSpend == Cardinality({c \in Completion : billed[c] = month})

\* check_budget reads the budget, and the sum in a second transaction.
ReadBudget(c) ==
    /\ pc[c] = "idle"
    /\ seen' = [seen EXCEPT ![c] = budget]
    /\ pc' = [pc EXCEPT ![c] = "checking"]
    /\ UNCHANGED <<month, budget, billed, begun, crowd, opened>>

\* Mutant of OverBudget: the last unit is not spared.
OverBudgetLate(b) == b > 0 /\ MtdSpend > b
OverBudget(b) == b > 0 /\ MtdSpend >= b
Check(c) ==
    /\ pc[c] = "checking"
    /\ pc' = [pc EXCEPT ![c] = IF OverBudget(seen[c]) THEN "refused" ELSE "admitted"]
    /\ begun' = [begun EXCEPT ![c] = IF OverBudget(seen[c]) THEN 0 ELSE month]
    /\ crowd' = Max({crowd, Cardinality({d \in Completion : pc'[d] \in Unrecorded})})
    /\ UNCHANGED <<month, budget, seen, billed, opened>>

\* The provider answers, or fails: then nothing is recorded.
Complete(c) ==
    /\ pc[c] = "admitted"
    /\ \E to \in {"returned", "done"} : pc' = [pc EXCEPT ![c] = to]
    /\ UNCHANGED <<month, budget, seen, billed, begun, crowd, opened>>

\* _safe_record: the insert, or a warning in the log when it fails.
Record(c) ==
    /\ pc[c] = "returned"
    /\ pc' = [pc EXCEPT ![c] = "done"]
    /\ \E m \in {month, 0} : billed' = [billed EXCEPT ![c] = m]
    /\ UNCHANGED <<month, budget, seen, begun, crowd, opened>>

SetBudget ==
    /\ budget' \in Budgets /\ opened' = TRUE
    /\ UNCHANGED <<month, pc, seen, billed, begun, crowd>>
MonthEnds ==
    /\ month < MaxMonth
    /\ month' = month + 1
    /\ UNCHANGED <<budget, pc, seen, billed, begun, crowd, opened>>

Next ==
    \/ \E c \in Completion : ReadBudget(c) \/ Check(c) \/ Complete(c) \/ Record(c)
    \/ SetBudget \/ MonthEnds

Spec == Init /\ [][Next]_vars
-----------------------------------------------------------------------------
\* While the budget stands, a month's rows exceed it by no more than the
\* completions that were admitted together: each was, before its row was there.
OvershootIsTheCrowd ==
    budget > 0 /\ ~ opened => \A m \in 1 .. MaxMonth :
        Cardinality({c \in Completion : billed[c] = m}) < budget + crowd

\* A row is billed to the month of its completion or to a later one.
BilledLate == \A c \in Completion : billed[c] # 0 => begun[c] # 0 /\ billed[c] >= begun[c]
=============================================================================
