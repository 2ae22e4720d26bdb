------------------------------ MODULE BeatTick ------------------------------
(***************************************************************************)
(* The tick of Celery Beat over one workflow (workers/scheduler.py and     *)
(* workers/workflow_runner.py).  A tick loads the active workflows, sends  *)
(* a task for each one that is due, and then writes the row it had loaded  *)
(* with the time of the fire; users write the whole row as well.  Tasks    *)
(* enqueue run.start under a key that names the minute.  Time is counted   *)
(* in minutes, Hour of them to the hour.                                   *)
(***************************************************************************)
EXTENDS Naturals, Sequences, FiniteSets, FiniteSetsExt

CONSTANTS
    Tick, User,        \* ticks and user requests that may overlap
    Kinds,             \* the kinds of schedule a behaviour may be about
    RunAts, Interval,  \* run_at of a ONCE schedule, interval_minutes
    CronTimes,         \* the minutes a cron expression names
    Hour, GoodHours, MinGap,  \* for OPTIMAL: the hours of _union_hours, min_gap_minutes
    MaxClock, MaxFires, MaxEdits

VARIABLES
    clock,
    row,      \* the workflow's row
    tick,     \* what each tick has loaded
    edit,     \* what each user request has loaded
    tasks,    \* run tasks sent and not yet acknowledged
    started,  \* the minutes in the keys of the run.start jobs
    fires,    \* history: when a task was sent, by a schedule of which kind, fires before it
    edits,
    excused   \* history: a record failed, a whole row overwrote another, a task came twice, ticks overlapped

vars == <<clock, row, tick, edit, tasks, started, fires, edits, excused>>

BeatTickAssumption ==
    /\ Kinds \subseteq {"manual", "once", "interval", "cron", "optimal", "adaptive"}
    /\ RunAts \subseteq 0 .. MaxClock /\ CronTimes \subseteq Nat /\ GoodHours \subseteq Nat
    /\ Interval \in Nat \ {0} /\ Hour \in Nat \ {0} /\ MinGap \in Nat
    /\ MaxClock \in Nat /\ MaxFires \in Nat /\ MaxEdits \in Nat

Never == MaxClock + 1
Rows == [kind : Kinds \cup {"manual"}, runAt : RunAts, active : BOOLEAN,
         fired : 0 .. Never, updated : 0 .. MaxClock]
Ticks == [pc : {"idle", "listed", "sent"}, now : 0 .. MaxClock, row : Rows]
Edits == [pc : {"idle", "loaded"}, row : Rows]

TypeOK ==
    /\ clock \in 0 .. MaxClock /\ row \in Rows
    /\ tick \in [Tick -> Ticks] /\ edit \in [User -> Edits]
    /\ tasks \in 0 .. MaxFires /\ started \subseteq 0 .. MaxClock
    /\ fires \in Seq([at : 0 .. MaxClock, kind : Kinds]) /\ Len(fires) <= MaxFires
    /\ edits \in 0 .. MaxEdits /\ excused \in BOOLEAN

Init ==
    /\ clock = 0
    /\ \E k \in Kinds, r \in RunAts :
          row = [kind |-> k, runAt |-> r, active |-> TRUE, fired |-> Never, updated |-> 0]
    /\ tick = [t \in Tick |-> [pc |-> "idle", now |-> 0, row |-> row]]
    /\ edit = [u \in User |-> [pc |-> "idle", row |-> row]]
    /\ tasks = 0 /\ started = {} /\ fires = <<>> /\ edits = 0 /\ excused = FALSE

MinutePasses ==
    /\ clock < MaxClock
    /\ clock' = clock + 1
    /\ UNCHANGED <<row, tick, edit, tasks, started, fires, edits, excused>>

\* _last_fire_anchor.
Anchor(w) == IF w.fired # Never THEN w.fired ELSE w.updated

\* Mutant of OnceDue: the stamp of an earlier fire is not looked at.
OnceDueEver(w, now) == w.runAt <= now
OnceDue(w, now) == w.runAt <= now /\ ~ (w.fired # Never /\ w.fired >= w.runAt)
IntervalDue(w, now) == now >= Anchor(w) + Interval
CronDue(w, now) == \E t \in CronTimes : Anchor(w) < t /\ t <= now
\* next_slot_for: from the later of now and the end of the gap, the first time in
\* a good hour, cut down to the start of that hour.
OptimalDue(w, now) ==
    LET earliest == Anchor(w) + MinGap
        from == Max({now, earliest})
        slots == {t \in from .. from + 7 * 24 * Hour : (t \div Hour) % 24 \in GoodHours}
    IN  slots # {} /\ (Min(slots) \div Hour) * Hour <= now
\* _adaptive_due calls asyncio.run inside the running loop of the tick; that
\* raises, and the answer is no.
AdaptiveDue == FALSE

Due(w, now) ==
    /\ w.active
    /\ \/ w.kind = "once" /\ OnceDue(w, now)
       \/ w.kind = "interval" /\ IntervalDue(w, now)
       \/ w.kind = "cron" /\ CronDue(w, now)
       \/ w.kind = "optimal" /\ OptimalDue(w, now)
       \/ w.kind = "adaptive" /\ AdaptiveDue

\* The tick reads the clock and lists the active workflows.
List(t) ==
    /\ tick[t].pc = "idle" /\ row.active
    /\ tick' = [tick EXCEPT ![t] = [pc |-> "listed", now |-> clock, row |-> row]]
    /\ excused' = (excused \/ \E o \in Tick : tick[o].pc # "idle")
    /\ UNCHANGED <<clock, row, edit, tasks, started, fires, edits>>

Send(t) ==
    /\ tick[t].pc = "listed" /\ Due(tick[t].row, tick[t].now) /\ Len(fires) < MaxFires
    /\ tick' = [tick EXCEPT ![t].pc = "sent"]
    /\ tasks' = tasks + 1
    /\ fires' = Append(fires, [at |-> tick[t].now, kind |-> tick[t].row.kind])
    /\ UNCHANGED <<clock, row, edit, started, edits, excused>>
Skip(t) ==
    /\ tick[t].pc = "listed" /\ ~ Due(tick[t].row, tick[t].now)
    /\ tick' = [tick EXCEPT ![t].pc = "idle"]
    /\ UNCHANGED <<clock, row, edit, tasks, started, fires, edits, excused>>

\* _record_fired: the whole row as it was listed; a failure is logged.
Record(t) ==
    /\ tick[t].pc = "sent"
    /\ tick' = [tick EXCEPT ![t].pc = "idle"]
    /\ \/ /\ row' = [tick[t].row EXCEPT !.fired = tick[t].now,
                        !.kind = IF @ = "once" THEN "manual" ELSE @]
          /\ excused' = (excused \/ row # tick[t].row)
       \/ UNCHANGED row /\ excused' = TRUE
    /\ UNCHANGED <<clock, edit, tasks, started, fires, edits>>

\* A user pauses, resumes or re-arms: the row is read and written whole.
LoadEdit(u) ==
    /\ edit[u].pc = "idle" /\ edits < MaxEdits
    /\ edits' = edits + 1
    /\ edit' = [edit EXCEPT ![u] = [pc |-> "loaded", row |-> row]]
    /\ UNCHANGED <<clock, row, tick, tasks, started, fires, excused>>
SaveEdit(u) ==
    /\ edit[u].pc = "loaded"
    /\ \E on \in BOOLEAN, k \in {edit[u].row.kind} \cup (Kinds \cap {"once"}), r \in RunAts :
          row' = [edit[u].row EXCEPT !.active = on, !.kind = k, !.runAt = r, !.updated = clock]
    /\ excused' = (excused \/ row # edit[u].row)
    /\ edit' = [edit EXCEPT ![u].pc = "idle"]
    /\ UNCHANGED <<clock, tick, tasks, started, fires, edits>>

\* run_workflow: a job with the key of this minute unless there is one; a task
\* that raises, or whose acknowledgement is lost, comes again.
RunTask ==
    /\ tasks > 0
    /\ started' = started \cup {clock}
    /\ \/ tasks' = tasks - 1 /\ UNCHANGED excused
       \/ tasks' = tasks /\ excused' = TRUE
    /\ UNCHANGED <<clock, row, tick, edit, fires, edits>>

Next ==
    \/ MinutePasses \/ RunTask
    \/ \E t \in Tick : List(t) \/ Send(t) \/ Skip(t) \/ Record(t)
    \/ \E u \in User : LoadEdit(u) \/ SaveEdit(u)

Spec == Init /\ [][Next]_vars
-----------------------------------------------------------------------------
\* No workflow starts more often than its schedule fired, unless a task came
\* twice; two fires may even share the key of one minute.
StartsAreFires == ~ excused => Cardinality(started) + tasks <= Len(fires)

\* A ONCE schedule that nobody touched fires once, and an interval lies between
\* two fires of an INTERVAL one, unless the row of the fire was lost.
FiresKeepTheSchedule ==
    ~ excused => \A i, j \in DOMAIN fires : i < j =>
        /\ fires[i].kind = "interval" /\ fires[j].kind = "interval"
              => fires[j].at - fires[i].at >= Interval
        /\ fires[i].kind = "once" /\ fires[j].kind = "once" =>
              edits > 0 /\ fires[i].at < fires[j].at
        /\ fires[i].kind = "cron" /\ fires[j].kind = "cron" =>
              \E t \in CronTimes : fires[i].at < t /\ t <= fires[j].at

\* "Respect min_gap from the LAST FIRE": the end of the gap is cut down to the
\* start of its hour too.
MinGapIsKept ==
    ~ excused => \A i, j \in DOMAIN fires :
        i < j /\ fires[i].kind = "optimal" /\ fires[j].kind = "optimal"
        => fires[j].at - fires[i].at >= MinGap
=============================================================================
