----------------------------- MODULE DurableRun -----------------------------
(***************************************************************************)
(* One run of a workflow on the durable path: a chain of jobs, one per     *)
(* phase, that load the run row, work on their copy of it and write the    *)
(* whole row back (services/workflow_durable_runner.py), and enqueue the   *)
(* next phase under an idempotency key (services/jobs/handlers_workflow.py).*)
(* The queue is the one of JobQueue, reduced to what it promises: keys are *)
(* unique, failed jobs are retried MaxAttempts times, and a job may be     *)
(* delivered again, even while a slow consumer still handles it.           *)
(***************************************************************************)
EXTENDS Naturals, Sequences, FiniteSets

CONSTANTS
    Executors,      \* consumer coroutines
    Targets,        \* sequence of the platform names the drafts are for
    Accounts,       \* sequence of the plugins of the workflow's platform accounts
    MaxRevisions,   \* config.max_revisions
    HumanApproval,  \* config.require_human_approval
    MaxAttempts,    \* attempts of one job
    MaxErrors,      \* bound on transient errors of handlers
    MaxFaults,      \* bound on crashes and slow consumers
    None

Phases == {"select", "plan", "tailor", "execute", "critique", "publish"}
Drafts == 1..Len(Targets)
Platforms == {Targets[i] : i \in Drafts}
PluginsOf(loaded) == {Accounts[i] : i \in loaded}
Plugins == PluginsOf(DOMAIN Accounts)
Key(phase, revision) == [phase |-> phase, revision |-> revision]
Keys == [phase : Phases, revision : 0..MaxRevisions]

ASSUME DurableRunAssumption ==
    /\ Targets # <<>> /\ Targets \in Seq(Platforms)
    /\ Accounts \in Seq(Plugins)
    /\ None \notin Keys /\ None \notin Phases /\ None # "dead"
    /\ MaxRevisions \in Nat /\ MaxErrors \in Nat /\ MaxFaults \in Nat
    /\ MaxAttempts \in Nat \ {0}
    /\ HumanApproval \in BOOLEAN

VARIABLES
    run,        \* the workflow_runs row
    job,        \* the run's jobs, by idempotency key
    exec,       \* what each consumer is doing, with its copy of the row
    external,   \* [platform -> posts out of the drafts for it: what, and on which plugin]
    review,     \* [place of a draft -> number of posts created in status REVIEW]
    audited,    \* [status -> number of terminal audit records]
    approved,   \* history: drafts the critique approved
    made,       \* history: number of drafts written
    missed,     \* history: plugins with an account that a publish phase did not find
    errors,     \* history: transient errors so far
    faults      \* history: crashes, slow consumers and database errors so far

vars == <<run, job, exec, external, review, audited, approved, made, missed, errors, faults>>

Audited == {"succeeded", "failed", "awaiting_review"}
RunStatus == {"queued", "selecting", "planning", "executing", "critiquing",
              "publishing"} \cup Audited

\* revision is rerun_count, drafts the number of the drafts it carries.
RunRecord == [status : RunStatus, items : BOOLEAN, plan : BOOLEAN, drafts : Nat,
              revision : 0..MaxRevisions, published : SUBSET Platforms,
              posts : SUBSET Platforms, tags : SUBSET Drafts,
              emitted : SUBSET Audited]

NewRun == [status |-> "queued", items |-> FALSE, plan |-> FALSE, drafts |-> 0,
           revision |-> 0, published |-> {}, posts |-> {}, tags |-> {}, emitted |-> {}]

JobState == [status : {"absent", "queued", "running", "succeeded", "dead"},
             attempt : Nat]

Idle == [pc |-> "idle", key |-> None, copy |-> NewRun, next |-> None,
         at |-> 0, posted |-> {}, loaded |-> {}]

\* A post: the draft and the plugin of the account it went to.
Post == [draft : Nat, on : Plugins]

TypeOK ==
    /\ run \in RunRecord
    /\ job \in [Keys -> JobState]
    /\ exec \in [Executors ->
          [pc : {"idle", "working", "reviewing", "publishing", "recording", "saving",
                 "auditing", "marking", "routing", "completing", "giving up"},
           key : Keys \cup {None}, copy : RunRecord, next : Phases \cup {None, "dead"},
           at : Nat, posted : SUBSET Platforms, loaded : SUBSET DOMAIN Accounts]]
    /\ external \in [Platforms -> Seq(Post)]
    /\ review \in [Drafts -> Nat] /\ audited \in [Audited -> Nat]
    /\ approved \subseteq 1..made /\ made \in Nat
    /\ missed \subseteq Plugins
    /\ errors \in 0..MaxErrors /\ faults \in 0..MaxFaults

\* run.start found the row the API created and enqueued run.select.
Init ==
    /\ run = NewRun
    /\ job = [k \in Keys |-> [status |-> IF k = Key("select", 0) THEN "queued" ELSE "absent",
                              attempt |-> 0]]
    /\ exec = [e \in Executors |-> Idle]
    /\ external = [p \in Platforms |-> <<>>]
    /\ review = [d \in Drafts |-> 0]
    /\ audited = [s \in Audited |-> 0]
    /\ approved = {} /\ made = 0 /\ missed = {}
    /\ errors = 0 /\ faults = 0

-----------------------------------------------------------------------------
(* A consumer claims the job, and run_phase() loads the row and sets the   *)
(* status of the phase on its copy; tailor sets none.  The publish phase   *)
(* then loads the workflow's accounts, once: a lookup that fails or finds  *)
(* nothing is passed over, so any of them may be missing.                  *)

PhaseStatus(phase, old) ==
    CASE phase = "select" -> "selecting" [] phase = "plan" -> "planning"
      [] phase = "tailor" -> old [] phase = "execute" -> "executing"
      [] phase = "critique" -> "critiquing" [] phase = "publish" -> "publishing"

ClaimableTwice(k) == job[k].status \in {"queued", "running"}
Claimable(k) == job[k].status = "queued"

LoadPlatforms(phase) == IF phase = "publish" THEN SUBSET DOMAIN Accounts ELSE {{}}

Claim(e, k) ==
    /\ exec[e].pc = "idle"
    /\ Claimable(k)
    /\ job' = [job EXCEPT ![k] = [status |-> "running", attempt |-> @.attempt + 1]]
    /\ \E loaded \in LoadPlatforms(k.phase) :
          /\ exec' = [exec EXCEPT ![e] =
                [Idle EXCEPT !.pc = IF k.phase = "publish" THEN "publishing" ELSE "working",
                             !.key = k,
                             !.copy = [run EXCEPT !.status = PhaseStatus(k.phase, @)],
                             !.at = 1, !.loaded = loaded]]
          /\ missed' = IF k.phase = "publish" THEN missed \cup (Plugins \ PluginsOf(loaded))
                                               ELSE missed
    /\ UNCHANGED <<run, external, review, audited, approved, made, errors, faults>>

\* The phase is done with copy r: it is saved, then phase next is enqueued.
Finish(e, r, next) ==
    exec' = [exec EXCEPT ![e].pc = "saving", ![e].copy = r, ![e].next = next]

\* Drafts become posts in status REVIEW, one by one, before the row is saved.
Escalate(e) ==
    exec' = [exec EXCEPT ![e].pc = "reviewing", ![e].copy.status = "awaiting_review"]

Working(e, phase) == exec[e].pc = "working" /\ exec[e].key.phase = phase

Select(e) ==
    /\ Working(e, "select")
    /\ \/ Finish(e, [exec[e].copy EXCEPT !.status = "succeeded"], None)
       \/ Finish(e, [exec[e].copy EXCEPT !.items = TRUE], "plan")
    /\ UNCHANGED <<made, approved>>

Plan(e) ==
    /\ Working(e, "plan")
    /\ \/ Finish(e, [exec[e].copy EXCEPT !.status = "failed"], None)
       \/ \E next \in {"tailor", "execute"} :
             Finish(e, [exec[e].copy EXCEPT !.plan = TRUE], next)
    /\ UNCHANGED <<made, approved>>

Tailor(e) ==
    /\ Working(e, "tailor")
    /\ IF exec[e].copy.plan
       THEN \/ Finish(e, [exec[e].copy EXCEPT !.status = "succeeded"], None)
            \/ Finish(e, exec[e].copy, "execute")
       ELSE Finish(e, [exec[e].copy EXCEPT !.status = "failed"], None)
    /\ UNCHANGED <<made, approved>>

RevisedSkipsCritique(r) == IF r.revision = 0 THEN "critique" ELSE "publish"
AfterExecute(r) == "critique"

Execute(e) ==
    /\ Working(e, "execute")
    /\ IF exec[e].copy.plan
       THEN /\ made' = made + 1
            /\ Finish(e, [exec[e].copy EXCEPT !.drafts = made + 1],
                      AfterExecute(exec[e].copy))
       ELSE /\ Finish(e, [exec[e].copy EXCEPT !.status = "failed"], None)
            /\ UNCHANGED made
    /\ UNCHANGED approved

MayReviseForever(r) == r.revision <= MaxRevisions
MayRevise(r) == r.revision < MaxRevisions

NextRevisionUncounted(r) == r
NextRevision(r) == [r EXCEPT !.revision = @ + 1]

Critique(e) ==
    /\ Working(e, "critique")
    /\ LET r == exec[e].copy IN
       IF ~r.plan \/ r.drafts = 0
       THEN Finish(e, [r EXCEPT !.status = "failed"], None) /\ UNCHANGED approved
       ELSE \/ Finish(e, [r EXCEPT !.status = "failed"], None) /\ UNCHANGED approved
            \/ Escalate(e) /\ UNCHANGED approved
            \/ /\ MayRevise(r)
               /\ Finish(e, NextRevision(r), "execute")
               /\ UNCHANGED approved
            \/ /\ IF HumanApproval THEN Escalate(e) ELSE Finish(e, r, "publish")
               /\ approved' = approved \cup {r.drafts}
    /\ UNCHANGED made

Work(e) ==
    /\ Select(e) \/ Plan(e) \/ Tailor(e) \/ Execute(e) \/ Critique(e)
    /\ UNCHANGED <<run, job, external, review, audited, missed, errors, faults>>

\* _materialize_drafts_as_review(): the tag of a draft is its platform's name and its
\* place in the list.  One whose tag is set is passed over; one that finds no account,
\* or whose post cannot be added, is left without a tag.
Review(e) ==
    /\ exec[e].pc = "reviewing"
    /\ LET d == exec[e].at
           r == exec[e].copy
       IN IF d > Len(Targets)
          THEN Finish(e, r, None) /\ UNCHANGED review
          ELSE \/ /\ exec' = [exec EXCEPT ![e].at = @ + 1]
                  /\ UNCHANGED review
               \/ /\ d \notin r.tags
                  /\ exec' = [exec EXCEPT ![e].at = @ + 1, ![e].copy.tags = @ \cup {d}]
                  /\ review' = [review EXCEPT ![d] = @ + 1]
    /\ UNCHANGED <<run, job, external, audited, approved, made, missed, errors, faults>>

-----------------------------------------------------------------------------
(* Publishing: the adapter's call, then the post row and the mark on the   *)
(* copy of the run; nothing of it is saved before the phase ends or raises.*)
(* The mark is the name the draft carries, whatever account it went to, so *)
(* of two drafts for one name the first is published.  Without an account  *)
(* the drafts that are left are passed over.                               *)

SkipNothing(r, p) == FALSE
SkipAfterFirst(r, p) == r.published # {}
Skip(r, p) == p \in r.published

\* _match_platform_for_draft(): the plugin the draft names, if an account of it was
\* loaded, or else that of the first account loaded.
First(loaded) == {Accounts[i] : i \in {j \in loaded : \A h \in loaded : j <= h}}
MatchFirst(p, loaded) == First(loaded)
Match(p, loaded) == IF p \in PluginsOf(loaded) THEN {p} ELSE First(loaded)

Publish(e) ==
    /\ exec[e].pc = "publishing"
    /\ exec[e].copy.drafts > 0 /\ exec[e].at <= Len(Targets)
    /\ LET p == Targets[exec[e].at] IN
       IF Skip(exec[e].copy, p) \/ exec[e].loaded = {}
       THEN /\ exec' = [exec EXCEPT ![e].at = @ + 1]
            /\ UNCHANGED external
       ELSE /\ \E on \in Match(p, exec[e].loaded) :
                  external' = [external EXCEPT ![p] =
                                  Append(@, [draft |-> exec[e].copy.drafts, on |-> on])]
            /\ exec' = [exec EXCEPT ![e].pc = "recording"]
    /\ UNCHANGED <<run, job, review, audited, approved, made, missed, errors, faults>>

Record(e) ==
    /\ exec[e].pc = "recording"
    /\ LET p == Targets[exec[e].at] IN
       exec' = [exec EXCEPT ![e].pc = "publishing", ![e].at = @ + 1,
                            ![e].posted = @ \cup {p},
                            ![e].copy.published = @ \cup {p}]
    /\ UNCHANGED <<run, job, external, review, audited, approved, made, missed, errors, faults>>

EndPublish(e) ==
    /\ exec[e].pc = "publishing"
    /\ exec[e].copy.drafts = 0 \/ exec[e].at > Len(Targets)
    /\ LET posts == exec[e].copy.posts \cup exec[e].posted IN
       Finish(e, [exec[e].copy EXCEPT !.posts = posts,
                     !.status = IF posts = {} THEN "failed" ELSE "succeeded"], None)
    /\ UNCHANGED <<run, job, external, review, audited, approved, made, missed, errors, faults>>

-----------------------------------------------------------------------------
(* The end of a phase: save the row, audit a terminal status once and save *)
(* the mark, enqueue the next phase, complete the job.                     *)

Save(e) ==
    /\ exec[e].pc = "saving"
    /\ run' = exec[e].copy
    /\ exec' = [exec EXCEPT ![e].pc = IF exec[e].copy.status \in Audited \ exec[e].copy.emitted
                                      THEN "auditing" ELSE "routing"]
    /\ UNCHANGED <<job, external, review, audited, approved, made, missed, errors, faults>>

Audit(e) ==
    /\ exec[e].pc = "auditing"
    /\ audited' = [audited EXCEPT ![exec[e].copy.status] = @ + 1]
    /\ exec' = [exec EXCEPT ![e].pc = "marking",
                            ![e].copy.emitted = @ \cup {exec[e].copy.status}]
    /\ UNCHANGED <<run, job, external, review, approved, made, missed, errors, faults>>

Mark(e) ==
    /\ exec[e].pc = "marking"
    /\ run' = exec[e].copy
    /\ exec' = [exec EXCEPT ![e].pc = "routing"]
    /\ UNCHANGED <<job, external, review, audited, approved, made, missed, errors, faults>>

Enqueue(k) == job' = IF job[k].status = "absent"
                     THEN [job EXCEPT ![k].status = "queued"] ELSE job

\* _advance(); the engagement.fetch jobs of a publication are left out.
Route(e) ==
    /\ exec[e].pc = "routing"
    /\ IF exec[e].next = None THEN UNCHANGED job
                              ELSE Enqueue(Key(exec[e].next, exec[e].copy.revision))
    /\ exec' = [exec EXCEPT ![e].pc = "completing"]
    /\ UNCHANGED <<run, external, review, audited, approved, made, missed, errors, faults>>

Complete(e) ==
    /\ exec[e].pc = "completing"
    /\ job' = [job EXCEPT ![exec[e].key].status = "succeeded"]
    /\ exec' = [exec EXCEPT ![e] = Idle]
    /\ UNCHANGED <<run, external, review, audited, approved, made, missed, errors, faults>>

-----------------------------------------------------------------------------
(* Errors.  run_phase() saves the copy as far as it got and raises; the    *)
(* worker then fails the job: for good, or until the next attempt.         *)

SavedOnError(e) == exec[e].copy

RaiseTransient(e) ==
    /\ exec[e].pc \in {"working", "publishing"}
    /\ errors < MaxErrors
    /\ run' = SavedOnError(e)
    /\ exec' = [exec EXCEPT ![e].pc = "giving up"]
    /\ errors' = errors + 1
    /\ UNCHANGED <<job, external, review, audited, approved, made, missed, faults>>

\* A missing credential or adapter.
RaisePermanent(e) ==
    /\ exec[e].pc \in {"working", "publishing"}
    /\ run' = [exec[e].copy EXCEPT !.status = "failed"]
    /\ exec' = [exec EXCEPT ![e].pc = "giving up", ![e].next = "dead"]
    /\ UNCHANGED <<job, external, review, audited, approved, made, missed, errors, faults>>

GiveUp(e) ==
    /\ exec[e].pc = "giving up"
    /\ LET k == exec[e].key IN
       job' = [job EXCEPT ![k].status =
                  IF exec[e].next = "dead" \/ job[k].attempt >= MaxAttempts
                  THEN "dead" ELSE "queued"]
    /\ exec' = [exec EXCEPT ![e] = Idle]
    /\ UNCHANGED <<run, external, review, audited, approved, made, missed, errors, faults>>

-----------------------------------------------------------------------------
(* Faults.                                                                 *)

\* The process ends, or stop() cancels the task: CancelledError saves nothing.
Crash(e) ==
    /\ exec[e].pc # "idle"
    /\ faults < MaxFaults
    /\ exec' = [exec EXCEPT ![e] = Idle]
    /\ faults' = faults + 1
    /\ UNCHANGED <<run, job, external, review, audited, approved, made, missed, errors>>

\* The post is out, and adding its row fails.
RecordFails(e) ==
    /\ exec[e].pc = "recording"
    /\ faults < MaxFaults
    /\ run' = SavedOnError(e)
    /\ exec' = [exec EXCEPT ![e].pc = "giving up"]
    /\ faults' = faults + 1
    /\ UNCHANGED <<job, external, review, audited, approved, made, missed, errors>>

\* The orphan sweep; on a job that is still being handled it is a fault.
Handled(k) == \E e \in Executors : exec[e].key = k

Redeliver(k) ==
    /\ job[k].status = "running"
    /\ IF Handled(k) THEN faults < MaxFaults /\ faults' = faults + 1
                     ELSE UNCHANGED faults
    /\ job' = [job EXCEPT ![k].status = "queued"]
    /\ UNCHANGED <<run, exec, external, review, audited, approved, made, missed, errors>>

-----------------------------------------------------------------------------
Step(e) ==
    \/ \E k \in Keys : Claim(e, k)
    \/ Work(e) \/ Review(e) \/ Publish(e) \/ Record(e) \/ EndPublish(e)
    \/ Save(e) \/ Audit(e) \/ Mark(e) \/ Route(e) \/ Complete(e)
    \/ RaiseTransient(e) \/ RaisePermanent(e) \/ GiveUp(e)

Next ==
    \/ \E e \in Executors : Step(e) \/ Crash(e) \/ RecordFails(e)
    \/ \E k \in Keys : Redeliver(k)

Spec == Init /\ [][Next]_vars

\* Consumers run, and the sweep comes round to orphaned jobs.
Fairness ==
    /\ \A e \in Executors : WF_vars(Step(e))
    /\ \A k \in Keys : WF_vars(~Handled(k) /\ Redeliver(k))

FairSpec == Spec /\ Fairness
-----------------------------------------------------------------------------
(* Properties.                                                             *)

\* Half-way failures and their retries never publish twice for a platform, create the
\* review post of a draft twice or audit a status twice.  After a crash, a redelivery to
\* a second consumer or a lost post row there is at most one more post for each fault
\* and each retry (a stale save may erase the marks).  Audits may be twice as many: tailor keeps the
\* status it finds, so a run that another consumer failed is audited there and at its end.
Repeats == IF faults = 0 THEN 0 ELSE faults + errors
DuplicatesNeedFaults ==
    /\ \A p \in Platforms : Len(external[p]) <= 1 + Repeats
    /\ \A d \in Drafts : review[d] <= 1 + Repeats
    /\ \A s \in Audited : audited[s] <= IF faults = 0 THEN 1 ELSE 2 * (1 + Repeats)

\* Without faults one phase of the run is active at a time.
Active(e) == exec[e].pc \notin {"idle", "completing"}
OnePhaseAtATime ==
    faults = 0 =>
       Cardinality({k \in Keys : job[k].status = "queued"})
          + Cardinality({e \in Executors : Active(e)}) <= 1

\* Without faults only drafts the critique approved are published, and only on
\* the path without human approval.
PublishedIsApproved ==
    faults = 0 =>
       \A p \in Platforms : \A i \in 1..Len(external[p]) :
          external[p][i].draft \in approved /\ ~HumanApproval

\* A run that says it succeeded by publishing has a post for every platform its drafts
\* name, and the posts for a platform the workflow has an account of are on that
\* platform, unless a publish phase failed to find the account; other drafts may have
\* gone to another platform, but none of the names is left out.
SuccessMeansPosted ==
    run.status = "succeeded" /\ run.posts # {} =>
       \A p \in Platforms :
          /\ external[p] # <<>>
          /\ p \in Plugins \ missed =>
                \A i \in 1..Len(external[p]) : external[p][i].on = p

\* Without faults, when nothing of the run is left to do and no job died, the
\* run has succeeded, has failed or waits for review: the chain never stops
\* silently between two phases.
AtRest == /\ \A e \in Executors : exec[e].pc = "idle"
          /\ \A k \in Keys : job[k].status \notin {"queued", "running"}
RestIsDecided ==
    faults = 0 /\ AtRest /\ (\A k \in Keys : job[k].status # "dead")
       => run.status \in Audited

\* Whatever crashes, stalls or fails, a run is decided at some time, or one of
\* its jobs is dead; and its chain of jobs ends.
EventuallyDecided ==
    /\ <>(run.status \in Audited \/ \E k \in Keys : job[k].status = "dead")
    /\ <>[]AtRest

\* The queue under the run keeps the promises JobQueue keeps: every step of it is
\* one of JobLeases, which assumes nothing else about jobs.
Handling == [e \in Executors |-> exec[e].key]

Queue == INSTANCE JobLeases WITH
    Jobs    <- Keys,
    Workers <- Executors,
    NoJob   <- None,
    status  <- [k \in Keys |-> job[k].status],
    attempt <- [k \in Keys |-> job[k].attempt],
    lease   <- Handling

QueueKeepsLeases == [][Queue!Next]_Queue!vars
=============================================================================
