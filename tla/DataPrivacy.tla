---------------------------- MODULE DataPrivacy ----------------------------
(***************************************************************************)
(* Export and erasure of an organisation's data (services/data_privacy.py, *)
(* domain/entities/data_export.py).  Calls of run_pending walk the pending *)
(* jobs; an erasure lists one table after the other and deletes row by     *)
(* row, each delete a transaction of its own, while users and workers go   *)
(* on writing.  Rows live in Postgres; an update is a merge, which inserts *)
(* the row again if it is gone.  Jobs are objects in memory that a walk    *)
(* and a cancellation share.                                               *)
(***************************************************************************)
EXTENDS Naturals, Sequences

CONSTANTS
    Row, Table,
    TableOf,      \* the table of each row
    CascadesWith, \* the rows whose deletion takes a row along (transitively)
    KeptBy,       \* the rows that cannot be deleted while a row refers to them
    DeleteOrder, ExportOrder,  \* the tables in the order of the walk
    Job, Kind,    \* jobs, and whether each is an "export" or a "delete"
    Walker, Editor,
    MaxWalks, MaxEdits,
    NoJob, Nothing

DataPrivacyAssumption ==
    /\ TableOf \in [Row -> Table]
    /\ CascadesWith \in [Row -> SUBSET Row] /\ KeptBy \in [Row -> SUBSET Row]
    /\ DeleteOrder \in Seq(Table) /\ ExportOrder \in Seq(Table)
    /\ Kind \in [Job -> {"export", "delete"}]
    /\ MaxWalks \in Nat /\ MaxEdits \in Nat /\ NoJob \notin Job
    /\ Nothing \notin Row
    \* Every table is listed, after those whose rows forbid to delete its own; and
    \* what forbids it is not itself kept.
    /\ \A t \in Table : \E k \in DOMAIN DeleteOrder : DeleteOrder[k] = t
    /\ \A r, s \in Row : r \in KeptBy[s] =>
          /\ \A q \in Row : s \notin KeptBy[q]
          /\ \A k \in DOMAIN DeleteOrder : DeleteOrder[k] = TableOf[r] =>
                \E i \in 1 .. k - 1 : DeleteOrder[i] = TableOf[s]

VARIABLES
    stored,   \* the rows in the tables
    unborn,   \* rows nobody has created yet
    job,      \* status of each job
    elapsed,  \* delete jobs whose grace period has passed
    walk, hold,
    walks, edits,
    listed,   \* history: tables an erasure has listed
    late,     \* history: rows written after their table was listed, or whose delete failed
    shared,   \* history: jobs two walks had in hand, or cancelled in hand
    quiet     \* history: jobs cancelled while no walk had them

vars == <<stored, unborn, job, elapsed, walk, hold, walks, edits,
          listed, late, shared, quiet>>

DataJobStatus == {"absent", "pending", "running", "completed", "failed", "cancelled"}
IdleWalk == [on |-> FALSE, due |-> {}, todo |-> {}, job |-> NoJob, k |-> 1, rows |-> {}]

Walks == [on : BOOLEAN, due : SUBSET Job, todo : SUBSET Job, job : Job \cup {NoJob},
          k : Nat \ {0}, rows : SUBSET Row]

TypeOK ==
    /\ stored \subseteq Row /\ unborn \subseteq Row \ stored
    /\ job \in [Job -> DataJobStatus] /\ elapsed \subseteq Job
    /\ walk \in [Walker -> Walks] /\ walks \in Nat /\ edits \in Nat
    /\ hold \in [Editor -> (Row \ unborn) \cup {Nothing}]
    /\ listed \subseteq Table /\ late \subseteq Row
    /\ shared \subseteq Job /\ quiet \subseteq Job

Init ==
    /\ stored \in {{}, Row} /\ unborn = Row \ stored
    /\ job = [j \in Job |-> "absent"] /\ elapsed = {}
    /\ walk = [w \in Walker |-> IdleWalk] /\ hold = [e \in Editor |-> Nothing]
    /\ walks = 0 /\ edits = 0
    /\ listed = {} /\ late = {} /\ shared = {} /\ quiet = {}

jobVars == <<job, elapsed, shared, quiet>>
rowVars == <<stored, unborn, hold, edits, late>>
walkVars == <<walk, walks, listed>>

HasJob(w, j) == walk[w].job = j \/ j \in walk[w].todo

RequestJob(j) ==
    /\ job[j] = "absent"
    /\ job' = [job EXCEPT ![j] = "pending"]
    /\ UNCHANGED <<elapsed, shared, quiet, rowVars, walkVars>>

GracePasses(j) ==
    /\ Kind[j] = "delete" /\ job[j] # "absent" /\ j \notin elapsed
    /\ elapsed' = elapsed \cup {j}
    /\ UNCHANGED <<job, shared, quiet, rowVars, walkVars>>

Cancel(j) ==
    /\ job[j] \in {"pending", "running"}
    /\ job' = [job EXCEPT ![j] = "cancelled"]
    /\ IF \E w \in Walker : HasJob(w, j)
       THEN shared' = shared \cup {j} /\ UNCHANGED quiet
       ELSE quiet' = quiet \cup {j} /\ UNCHANGED shared
    /\ UNCHANGED <<elapsed, rowVars, walkVars>>

\* Mutant of Pending: cancelled jobs are picked up too.
PendingOrCancelled == {j \in Job : job[j] \in {"pending", "running", "cancelled"}}
Pending == {j \in Job : job[j] \in {"pending", "running"}}

RunPending(w) ==
    /\ ~ walk[w].on /\ walks < MaxWalks /\ Pending # {}
    /\ walks' = walks + 1
    /\ walk' = [walk EXCEPT ![w] = [IdleWalk EXCEPT !.on = TRUE, !.due = elapsed,
                                                    !.todo = Pending]]
    /\ shared' = shared \cup {j \in Pending : \E v \in Walker : HasJob(v, j)}
    /\ UNCHANGED <<job, elapsed, quiet, rowVars, listed>>

Allowed(w, j) == Kind[j] = "export" \/ j \in walk[w].due
\* The next job of the walk; its status is not looked at again.
TakeJob(w, j) ==
    /\ walk[w].on /\ walk[w].job = NoJob /\ j \in walk[w].todo
    /\ IF Allowed(w, j)
       THEN /\ walk' = [walk EXCEPT ![w].todo = @ \ {j}, ![w].job = j, ![w].k = 1]
            /\ job' = [job EXCEPT ![j] = "running"]
       ELSE /\ walk' = [walk EXCEPT ![w].todo = @ \ {j}]
            /\ UNCHANGED job
    /\ UNCHANGED <<elapsed, shared, quiet, rowVars, walks, listed>>

\* Mutant of Order: an erasure takes the tables in the order of the export.
OrderOfExport(j) == ExportOrder
Order(j) == IF Kind[j] = "delete" THEN DeleteOrder ELSE ExportOrder

\* The rows left to delete of a table; none are left at its end.
Left(w, rest) ==
    [walk EXCEPT ![w].rows = rest, ![w].k = IF rest = {} THEN @ + 1 ELSE @]

ListTable(w) ==
    /\ walk[w].job # NoJob /\ walk[w].rows = {} /\ walk[w].k <= Len(Order(walk[w].job))
    /\ LET t == Order(walk[w].job)[walk[w].k]
           erase == Kind[walk[w].job] = "delete" IN
       /\ walk' = Left(w, IF erase THEN {r \in stored : TableOf[r] = t} ELSE {})
       /\ listed' = IF erase THEN listed \cup {t} ELSE listed
    /\ UNCHANGED <<walks, jobVars, rowVars>>

\* What a delete takes along, and what forbids it.
Taken(r) == {r} \cup {s \in stored : r \in CascadesWith[s]}
Refused(r) == \E s \in stored \ Taken(r) : r \in KeptBy[s]

\* A refused delete is logged and the walk goes on, as it does after any other error.
DeleteRow(w, r) ==
    /\ r \in walk[w].rows
    /\ \/ stored' = (IF Refused(r) THEN stored ELSE stored \ Taken(r)) /\ UNCHANGED late
       \/ UNCHANGED stored /\ late' = late \cup {r}
    /\ walk' = Left(w, walk[w].rows \ {r})
    /\ UNCHANGED <<unborn, hold, edits, jobVars, walks, listed>>

\* The end of the tables, or an error in listing one.
EndJob(w) ==
    /\ walk[w].job # NoJob /\ walk[w].rows = {}
    /\ job' = [job EXCEPT ![walk[w].job] =
                  IF walk[w].k > Len(Order(walk[w].job)) THEN "completed" ELSE "failed"]
    /\ walk' = [walk EXCEPT ![w].job = NoJob, ![w].k = 1]
    /\ UNCHANGED <<elapsed, shared, quiet, rowVars, walks, listed>>

EndWalk(w) ==
    /\ walk[w].on /\ walk[w].job = NoJob /\ walk[w].todo = {}
    /\ walk' = [walk EXCEPT ![w] = IdleWalk]
    /\ UNCHANGED <<walks, listed, jobVars, rowVars>>

Parents(r) == CascadesWith[r] \cup KeptBy[r]
\* Late: after the erasure has listed the row's table, or one it cascades with.
Written(r) ==
    IF \E s \in {r} \cup CascadesWith[r] : TableOf[s] \in listed
    THEN late \cup {r} ELSE late

Create(r) ==
    /\ r \in unborn /\ Parents(r) \subseteq stored
    /\ stored' = stored \cup {r} /\ unborn' = unborn \ {r} /\ late' = Written(r)
    /\ UNCHANGED <<hold, edits, jobVars, walkVars>>

Load(e, r) ==
    /\ hold[e] = Nothing /\ edits < MaxEdits /\ r \in stored
    /\ hold' = [hold EXCEPT ![e] = r] /\ edits' = edits + 1
    /\ UNCHANGED <<stored, unborn, late, jobVars, walkVars>>

\* merge: an update, or an insert if the row is gone and its parents are not.
Save(e) ==
    /\ hold[e] # Nothing
    /\ LET r == hold[e] IN
       IF r \in stored \/ Parents(r) \subseteq stored
       THEN stored' = stored \cup {r} /\ late' = Written(r)
       ELSE UNCHANGED <<stored, late>>
    /\ hold' = [hold EXCEPT ![e] = Nothing]
    /\ UNCHANGED <<unborn, edits, jobVars, walkVars>>

Next ==
    \/ \E j \in Job : RequestJob(j) \/ GracePasses(j) \/ Cancel(j)
    \/ \E w \in Walker : RunPending(w) \/ ListTable(w) \/ EndJob(w) \/ EndWalk(w)
    \/ \E w \in Walker, j \in Job : TakeJob(w, j)
    \/ \E w \in Walker, r \in Row : DeleteRow(w, r)
    \/ \E r \in Row : Create(r)
    \/ \E e \in Editor : Save(e) \/ \E r \in Row : Load(e, r)

Spec == Init /\ [][Next]_vars
-----------------------------------------------------------------------------
\* What an erasure may leave: a row written behind its back, or whose delete
\* failed, and a row that one of these refers to.
Excused(r) == r \in late \/ \E s \in late : r \in KeptBy[s]
\* After a completed erasure the organisation holds no other row: the order of the
\* tables and the cascades reach everything else.
ErasureIsComplete ==
    (\E j \in Job : Kind[j] = "delete" /\ job[j] = "completed")
    => \A r \in stored : Excused(r)

\* An erasure cancelled while no call of run_pending has it never begins.
CancelHolds == \A j \in quiet : job[j] = "cancelled"

\* A job leaves its last status only if two calls had it in hand together, or
\* it was cancelled while one had.
SettlesOnce ==
    [][\A j \in Job : job[j] \in {"completed", "failed", "cancelled"} /\ job'[j] # job[j]
                      => j \in shared']_vars
=============================================================================
