----------------------------- MODULE Experiments -----------------------------
(***************************************************************************)
(* One experiment (services/experiment_service.py and                      *)
(* domain/entities/experiment.py) under overlapping requests.  The         *)
(* experiment is one shared in-memory object; post rows are in the         *)
(* database, and a start is suspended at each of its calls there.  The     *)
(* registry returns a plugin's entry, which start() calls as if it were    *)
(* the adapter's class: that raises, so that no variant is ever sent, none *)
(* has a post or a metric, and settling finds no candidate for a winner.   *)
(***************************************************************************)
EXTENDS Naturals, FiniteSets

CONSTANTS
    Variant, Caller,  \* the variants; concurrent calls of start
    MaxStarts

VARIABLES
    status, elapsed,  \* of the experiment; whether its settling window has passed
    variant,          \* status of each variant
    rows,             \* how many post rows say that a variant is published
    start,            \* what each call of start is at
    starts,
    through,          \* history: a start has been through all variants
    closed            \* history: how it was closed last; no start began since

vars == <<status, elapsed, variant, rows, start, starts, through, closed>>

ExperimentsAssumption == MaxStarts \in Nat /\ IsFiniteSet(Variant)

ExperimentStatus == {"draft", "running", "settled", "cancelled"}
VariantStatus == {"pending", "published", "winner", "loser", "failed"}
Starts == [pc : {"idle", "platform", "next", "raising"}, todo : SUBSET Variant, at : SUBSET Variant]
Idle == [pc |-> "idle", todo |-> {}, at |-> {}]

TypeOK ==
    /\ status \in ExperimentStatus /\ elapsed \in BOOLEAN
    /\ variant \in [Variant -> VariantStatus] /\ rows \in [Variant -> 0 .. MaxStarts]
    /\ start \in [Caller -> Starts] /\ starts \in 0 .. MaxStarts
    /\ through \in BOOLEAN /\ closed \in {"no", "settled", "cancelled"}

Init ==
    /\ status = "draft" /\ elapsed = FALSE
    /\ variant = [v \in Variant |-> "pending"] /\ rows = [v \in Variant |-> 0]
    /\ start = [c \in Caller |-> Idle] /\ starts = 0
    /\ through = FALSE /\ closed = "no"

\* start(): whatever the status, it becomes running before anything else is
\* looked at; fewer than two variants are an error.
Begin(c) ==
    /\ start[c].pc = "idle" /\ starts < MaxStarts /\ Cardinality(Variant) >= 2
    /\ status' = "running" /\ elapsed' = FALSE
    /\ start' = [start EXCEPT ![c] = [@ EXCEPT !.pc = "platform"]]
    /\ starts' = starts + 1 /\ closed' = "no"
    /\ UNCHANGED <<variant, rows, through>>

\* No platform, or no plugin of its name: the experiment stays running.
PlatformMissing(c) ==
    /\ start[c].pc = "platform"
    /\ start' = [start EXCEPT ![c] = Idle]
    /\ UNCHANGED <<status, elapsed, variant, rows, starts, through, closed>>
PlatformFound(c) ==
    /\ start[c].pc = "platform"
    /\ start' = [start EXCEPT ![c] = [pc |-> "next", todo |-> Variant, at |-> {}]]
    /\ UNCHANGED <<status, elapsed, variant, rows, starts, through, closed>>

\* The row of a variant is inserted as published; the insert may fail, which
\* fails the variant.
AddRow(c, v) ==
    /\ start[c].pc = "next" /\ v \in start[c].todo
    /\ \/ /\ rows' = [rows EXCEPT ![v] = @ + 1]
          /\ start' = [start EXCEPT ![c] = [pc |-> "raising", todo |-> @.todo \ {v}, at |-> {v}]]
          /\ UNCHANGED variant
       \/ /\ variant' = [variant EXCEPT ![v] = "failed"]
          /\ start' = [start EXCEPT ![c].todo = @ \ {v}]
          /\ UNCHANGED rows
    /\ UNCHANGED <<status, elapsed, starts, through, closed>>

\* The call of the entry raises; the row stays as it is.
\* Mutant of Outcome: the adapter is made and the draft sent.
OutcomeSent == "published"
Outcome == "failed"
AdapterRaises(c) ==
    /\ start[c].pc = "raising"
    /\ variant' = [v \in Variant |-> IF v \in start[c].at THEN Outcome ELSE variant[v]]
    /\ start' = [start EXCEPT ![c] = [pc |-> "next", todo |-> @.todo, at |-> {}]]
    /\ UNCHANGED <<status, elapsed, rows, starts, through, closed>>

Started(c) ==
    /\ start[c].pc = "next" /\ start[c].todo = {}
    /\ start' = [start EXCEPT ![c] = Idle] /\ through' = TRUE
    /\ UNCHANGED <<status, elapsed, variant, rows, starts, closed>>

WindowPasses ==
    /\ status = "running" /\ ~ elapsed
    /\ elapsed' = TRUE
    /\ UNCHANGED <<status, variant, rows, start, starts, through, closed>>

\* Mutant of Settling: the window alone decides.
SettlingByTime == elapsed
Settling == status = "running" /\ elapsed
\* maybe_settle: no variant is published with a metric, so nobody wins.
Settle ==
    /\ Settling
    /\ status' = "settled" /\ closed' = IF closed = "no" THEN "settled" ELSE closed
    /\ UNCHANGED <<elapsed, variant, rows, start, starts, through>>

\* cancel looks at no status.
Cancel ==
    /\ status' = "cancelled" /\ closed' = "cancelled"
    /\ UNCHANGED <<elapsed, variant, rows, start, starts, through>>

Next ==
    \/ \E c \in Caller : \/ Begin(c) \/ PlatformMissing(c) \/ PlatformFound(c)
                         \/ AdapterRaises(c) \/ Started(c)
                         \/ \E v \in Variant : AddRow(c, v)
    \/ WindowPasses \/ Settle \/ Cancel

Spec == Init /\ [][Next]_vars
-----------------------------------------------------------------------------
\* A closed experiment stays closed until it is started again: a start that is
\* under way does not open it, and a cancelled one is not settled.
ClosedStays == closed # "no" => status = closed

\* A row that says its variant is published stands for nothing that was sent:
\* every variant that has one failed, or is about to.
RowsAreEmpty ==
    \A v \in Variant : rows[v] > 0 =>
        variant[v] = "failed" \/ \E c \in Caller : start[c].at = {v}

\* "each variant is published as its own Post and wired to the experiment".
StartPublishes == through => \E v \in Variant : variant[v] # "failed"
=============================================================================
