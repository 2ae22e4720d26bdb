------------------------------ MODULE InlineRun ------------------------------
(***************************************************************************)
(* One run of a workflow on the inline path (services/workflow_service.py): *)
(* a request drafts the posts and publishes them, or opens a review session *)
(* and pauses.  Reviewers decide by API or by votes in a chat; each decision *)
(* is a request of its own that writes the session, reads the run, and      *)
(* publishes, revises or cancels.  Editors publish single posts through     *)
(* Celery tasks.  Requests interleave at every await; each works on copies  *)
(* of the session and of the run, and writes them back whole.               *)
(***************************************************************************)
EXTENDS Naturals, FiniteSets

CONSTANTS
    Requests,     \* HTTP requests in flight
    Platforms,    \* the accounts the run targets
    Actors,       \* members of the review group
    Tasks,        \* Celery publish_post tasks, each used once
    MaxRevisions, \* bound on the revisions reviewers get
    Quorum,       \* quorum_required of the first session
    HumanApproval,\* config.require_human_approval
    MaxDecisions, \* bound on decisions of reviewers and editors
    MaxOverlaps,  \* bound on requests that start while another is in flight
    MaxErrors,    \* bound on failing adapter calls and agents
    None

\* The drafts, and one redraft per revision.
Batches == 0..MaxRevisions
Posts == [batch : Batches, platform : Platforms]

ASSUME InlineRunAssumption ==
    /\ None \notin Posts /\ {"api", "unsigned", None} \cap Actors = {}
    /\ MaxRevisions \in Nat
    /\ Quorum \in Nat \ {0} /\ HumanApproval \in BOOLEAN
    /\ MaxDecisions \in Nat /\ MaxOverlaps \in Nat /\ MaxErrors \in Nat

VARIABLES
    run,        \* status in the workflow_runs row
    session,    \* review session of each batch
    post,       \* [Posts -> status]
    item,       \* the source item: its status and consumed_by_post_id
    task,       \* Celery tasks
    req,        \* requests, with their copies
    live,       \* history: how often each post went out to its platform
    approvals,  \* history: who approved which session
    decisions, overlaps, errors

vars == <<run, session, post, item, task, req, live, approvals, decisions, overlaps, errors>>

RunStatus == {"selecting", "publishing", "executing", "awaiting_review",
              "needs_review", "succeeded", "failed", "cancelled"}
SessionStatus == {"absent", "pending", "approved", "revision_requested", "rejected"}
PostStatus == {"absent", "review", "approved", "published", "failed"}
Votes == {"none", "approve", "revise", "reject"}

Session == [status : SessionStatus, votes : [Actors -> Votes],
            excluded : SUBSET Platforms]

\* Who decides alone: an API caller, and a reply in a channel that gives the service
\* no actor_id.
Alone == {"api", "unsigned"}
Deciders == Actors \cup Alone

NewSession(status) == [status |-> status, votes |-> [a \in Actors |-> "none"],
                       excluded |-> {}]

\* A session opened by a revision has the default quorum.
QuorumOf(b) == IF b = 0 THEN Quorum ELSE 1

Idle == [pc |-> "idle", batch |-> 0, review |-> NewSession("absent"), by |-> None,
         run |-> "selecting", auto |-> FALSE, todo |-> {}, post |-> None]

TypeOK ==
    /\ run \in RunStatus
    /\ session \in [Batches -> Session]
    /\ post \in [Posts -> PostStatus]
    /\ item \in [status : {"new", "consumed"}, link : Posts \cup {None}]
    /\ task \in [Tasks -> [pc : {"free", "queued", "recording", "dead", "done"},
                           post : Posts \cup {None}]]
    /\ req \in [Requests ->
          [pc : {"idle", "executing", "failing", "opening", "sending", "closing",
                 "deciding", "resuming", "applying", "publishing", "recording",
                 "rerunning", "releasing"},
           batch : Batches, review : Session, by : Deciders \cup {None},
           run : RunStatus, auto : BOOLEAN, todo : SUBSET Posts,
           post : Posts \cup {None}]]
    /\ live \in [Posts -> Nat]
    /\ approvals \subseteq [batch : Batches, by : Deciders]
    /\ decisions \in 0..MaxDecisions /\ overlaps \in 0..MaxOverlaps /\ errors \in 0..MaxErrors

\* The run's selection has claimed the item; one request goes on with it.
Init ==
    /\ run = "selecting"
    /\ session = [b \in Batches |-> NewSession("absent")]
    /\ post = [p \in Posts |-> "absent"]
    /\ item = [status |-> "consumed", link |-> None]
    /\ task = [t \in Tasks |-> [pc |-> "free", post |-> None]]
    /\ \E q \in Requests :
          req = [r \in Requests |-> [Idle EXCEPT !.pc = IF r = q THEN "executing" ELSE @]]
    /\ live = [p \in Posts |-> 0]
    /\ approvals = {} /\ decisions = 0 /\ overlaps = 0 /\ errors = 0

Drafted(b) == {p \in Posts : p.batch = b}
Persisted == {p \in Posts : post[p] # "absent"}

\* Every failure uses up one of the bounded errors.
Err == errors < MaxErrors /\ errors' = errors + 1

Become(q, pc) == req' = [req EXCEPT ![q].pc = pc]
End(q) == req' = [req EXCEPT ![q] = Idle]

-----------------------------------------------------------------------------
(* _execute(): the agents draft, every draft becomes a post per account,   *)
(* and the item is linked to each post in turn, so to the last one.        *)

Execute(q) ==
    /\ req[q].pc = "executing"
    /\ post' = [p \in Posts |-> IF p \in Drafted(0) THEN "review" ELSE post[p]]
    /\ \E p \in Drafted(0) : item' = [item EXCEPT !.link = p]
    /\ \/ /\ ~HumanApproval
          /\ run' = "publishing"
          /\ req' = [req EXCEPT ![q].pc = "publishing", ![q].auto = TRUE,
                                ![q].run = "publishing", ![q].todo = Drafted(0)]
       \/ /\ run' = "awaiting_review"
          /\ req' = [req EXCEPT ![q].pc = "opening", ![q].run = "awaiting_review"]
       \/ /\ ~HumanApproval    \* escalated, and no review channel
          /\ run' = "needs_review"
          /\ End(q)
    /\ UNCHANGED <<session, task, live, approvals, decisions, overlaps, errors>>

ExecuteFails(q) ==
    /\ req[q].pc = "executing"
    /\ Err
    /\ Become(q, "failing")
    /\ UNCHANGED <<run, session, post, item, task, live, approvals, decisions, overlaps>>

\* release_unclaimed_for_run(): the item is free again unless the post it is
\* linked to may still go out.
ReleasedUnlinkedOnly(i, status) ==
    IF i.link = None THEN [status |-> "new", link |-> None] ELSE i
Released(i, status) ==
    IF i.link = None \/ status[i.link] \in {"absent", "failed"}
    THEN [status |-> "new", link |-> None] ELSE i

Fail(q) ==
    /\ req[q].pc = "failing"
    /\ item' = Released(item, post)
    /\ run' = "failed"
    /\ End(q)
    /\ UNCHANGED <<session, post, task, live, approvals, decisions, overlaps, errors>>

\* _open_review_session() adds the session (none for an outbound channel
\* without a recipient) and sends the message; with the reference the send
\* returned it writes the session a second time, whole, over what was decided
\* meanwhile.  The run row is saved after it.
Open(q) ==
    /\ req[q].pc = "opening"
    /\ \/ /\ session' = [session EXCEPT ![req[q].batch] = NewSession("pending")]
          /\ Become(q, "sending")
       \/ UNCHANGED session /\ Become(q, "closing")
    /\ UNCHANGED <<run, post, item, task, live, approvals, decisions, overlaps, errors>>

SaveRef(q) ==
    /\ req[q].pc = "sending"
    /\ \/ session' = [session EXCEPT ![req[q].batch] = NewSession("pending")]
       \/ UNCHANGED session    \* no reference, or the send or the write failed
    /\ Become(q, "closing")
    /\ UNCHANGED <<run, post, item, task, live, approvals, decisions, overlaps, errors>>

Close(q) ==
    /\ req[q].pc = "closing"
    /\ run' = req[q].run
    /\ End(q)
    /\ UNCHANGED <<session, post, item, task, live, approvals, decisions, overlaps, errors>>

-----------------------------------------------------------------------------
(* _publish(): the adapter's call, then the post's row.  An error of either *)
(* marks the post failed and raises: out of _execute() the run fails, out  *)
(* of a decision it stays as it is.                                        *)

Call(q, p) ==
    /\ req[q].pc = "publishing" /\ p \in req[q].todo
    /\ live' = [live EXCEPT ![p] = @ + 1]
    /\ req' = [req EXCEPT ![q].pc = "recording", ![q].post = p, ![q].todo = @ \ {p}]
    /\ UNCHANGED <<run, session, post, item, task, approvals, decisions, overlaps, errors>>

CallFails(q, p) ==
    /\ \/ req[q].pc = "publishing" /\ p \in req[q].todo
       \/ req[q].pc = "recording" /\ p = req[q].post
    /\ Err
    /\ post' = [post EXCEPT ![p] = "failed"]
    /\ IF req[q].auto THEN Become(q, "failing") ELSE End(q)
    /\ UNCHANGED <<run, session, item, task, live, approvals, decisions, overlaps>>

\* governor.acquire() and registry.get() raise before the try: no row is marked.
CallRefused(q, p) ==
    /\ req[q].pc = "publishing" /\ p \in req[q].todo
    /\ Err
    /\ IF req[q].auto THEN Become(q, "failing") ELSE End(q)
    /\ UNCHANGED <<run, session, post, item, task, live, approvals, decisions, overlaps>>

Record(q) ==
    /\ req[q].pc = "recording"
    /\ post' = [post EXCEPT ![req[q].post] = "published"]
    /\ req' = [req EXCEPT ![q].pc = "publishing", ![q].post = None]
    /\ UNCHANGED <<run, session, item, task, live, approvals, decisions, overlaps, errors>>

EndPublish(q) ==
    /\ req[q].pc = "publishing" /\ req[q].todo = {}
    /\ req' = [req EXCEPT ![q].pc = "closing", ![q].run = "succeeded"]
    /\ UNCHANGED <<run, session, post, item, task, live, approvals, decisions, overlaps, errors>>

-----------------------------------------------------------------------------
(* Decisions.  An API decision, a reply where no quorum is asked for and a *)
(* reply without an actor_id (WhatsApp and Instagram give none) decide at  *)
(* once; a reply in a group is a vote.  A session of any status can be     *)
(* decided: the API takes its id, a reply its message.                     *)

Verdict == [approve |-> "approved", revise |-> "revision_requested",
            reject |-> "rejected"]

HasVote(r, v) == \E a \in Actors : r.votes[a] = v
Approvers(r) == {a \in Actors : r.votes[a] = "approve"}

QuorumOfOne(r, b) == Approvers(r) # {}
QuorumMet(r, b) == Cardinality(Approvers(r)) >= QuorumOf(b)

\* _apply_with_quorum(): a reject or a revise wins at once.
Tallied(r, b) ==
    [r EXCEPT !.status = CASE HasVote(r, "reject") -> "rejected"
                           [] ~HasVote(r, "reject") /\ HasVote(r, "revise") ->
                                 "revision_requested"
                           [] ~HasVote(r, "reject") /\ ~HasVote(r, "revise") ->
                                 IF QuorumMet(r, b) THEN "approved" ELSE @]

Decided(r, v) == [r EXCEPT !.status = Verdict[v]]

Busy(r) == req[r].pc # "idle"

Begin(q, b, by, r, pc) ==
    /\ ~Busy(q) /\ session[b].status # "absent"
    /\ decisions < MaxDecisions /\ decisions' = decisions + 1
    /\ IF \E other \in Requests : Busy(other)
       THEN overlaps < MaxOverlaps /\ overlaps' = overlaps + 1
       ELSE UNCHANGED overlaps
    /\ req' = [req EXCEPT ![q] = [Idle EXCEPT !.pc = pc, !.batch = b, !.by = by,
                                              !.review = r]]
    /\ UNCHANGED <<run, session, post, item, task, live, approvals, errors>>

\* apply_decision_via_api() replaces the exclusions first.
DecideByApi(q, b, v, excluded) ==
    Begin(q, b, "api", Decided([session[b] EXCEPT !.excluded = excluded], v), "deciding")

Reply(q, b, a, v) ==
    Begin(q, b, a, IF QuorumOf(b) > 1 /\ a \in Actors
                   THEN Tallied([session[b] EXCEPT !.votes[a] = v], b)
                   ELSE Decided(session[b], v), "deciding")

\* A reply that is no decision changes nothing, and the run is resumed all the same.
ReplyUnknown(q, b) == Begin(q, b, None, session[b], "resuming")

Approving(q) == \/ req[q].review.status = "approved"
                \/ req[q].by \in Actors /\ req[q].review.votes[req[q].by] = "approve"

SaveReview(q) ==
    /\ req[q].pc = "deciding"
    /\ session' = [session EXCEPT ![req[q].batch] = req[q].review]
    /\ approvals' = IF Approving(q)
                    THEN approvals \cup {[batch |-> req[q].batch, by |-> req[q].by]}
                    ELSE approvals
    /\ req' = [req EXCEPT ![q].pc = "resuming", ![q].by = None]
    /\ UNCHANGED <<run, post, item, task, live, decisions, overlaps, errors>>

-----------------------------------------------------------------------------
(* resume_after_review(): read the run, and go on only if it is waiting.   *)

MayResumeAlways(status) == TRUE
MayResume(status) == status = "awaiting_review"

LoadRun(q) ==
    /\ req[q].pc = "resuming"
    /\ IF MayResume(run)
       THEN req' = [req EXCEPT ![q].pc = "applying", ![q].run = run]
       ELSE End(q)
    /\ UNCHANGED <<run, session, post, item, task, live, approvals, decisions, overlaps, errors>>

Applies(q, status) == req[q].pc = "applying" /\ req[q].review.status = status

\* Excluded posts fail; every other post of the run is to be published.
Excluded(r) == {p \in Persisted : p.platform \in r.excluded}

Approve(q) ==
    /\ Applies(q, "approved")
    /\ LET out == Excluded(req[q].review) IN
       /\ post' = [p \in Posts |-> IF p \in out /\ post[p] \in {"review", "approved"}
                                   THEN "failed" ELSE post[p]]
       /\ req' = [req EXCEPT ![q] = [Idle EXCEPT !.pc = "publishing",
                                        !.run = "publishing", !.todo = Persisted \ out]]
    /\ run' = "publishing"
    /\ UNCHANGED <<session, item, task, live, approvals, decisions, overlaps, errors>>

Revise(q) ==
    /\ Applies(q, "revision_requested")
    /\ run' = "executing"
    /\ req' = [req EXCEPT ![q] = [Idle EXCEPT !.pc = "rerunning"]]
    /\ UNCHANGED <<session, post, item, task, live, approvals, decisions, overlaps, errors>>

\* _rerun_with_feedback(): a new batch of posts, and a new session; posts of
\* earlier batches stay as they are.
Fresh(b) == \A p \in Drafted(b) : post[p] = "absent"

Rerun(q) ==
    /\ req[q].pc = "rerunning"
    /\ \E b \in Batches :
          /\ Fresh(b) /\ \A c \in Batches : c < b => ~Fresh(c)
          /\ post' = [p \in Posts |-> IF p \in Drafted(b) THEN "review" ELSE post[p]]
          /\ req' = [req EXCEPT ![q] = [Idle EXCEPT !.pc = "opening",
                                           !.run = "awaiting_review", !.batch = b]]
    /\ run' = "awaiting_review"
    /\ UNCHANGED <<session, item, task, live, approvals, decisions, overlaps, errors>>

RerunFails(q) ==
    /\ req[q].pc = "rerunning"
    /\ Err
    /\ End(q)
    /\ UNCHANGED <<run, session, post, item, task, live, approvals, decisions, overlaps>>

Rejectable == {p \in Posts : post[p] \in {"review", "approved"}}

Reject(q) ==
    /\ Applies(q, "rejected")
    /\ post' = [p \in Posts |-> IF p \in Rejectable THEN "failed" ELSE post[p]]
    /\ req' = [req EXCEPT ![q] = [Idle EXCEPT !.pc = "releasing"]]
    /\ UNCHANGED <<run, session, item, task, live, approvals, decisions, overlaps, errors>>

Cancel(q) ==
    /\ req[q].pc = "releasing"
    /\ item' = Released(item, post)
    /\ run' = "cancelled"
    /\ End(q)
    /\ UNCHANGED <<session, post, task, live, approvals, decisions, overlaps, errors>>

\* A vote that decides nothing: the copy of the run is written back.
Pending(q) ==
    /\ Applies(q, "pending")
    /\ req' = [req EXCEPT ![q] = [Idle EXCEPT !.pc = "closing", !.run = req[q].run]]
    /\ UNCHANGED <<run, session, post, item, task, live, approvals, decisions, overlaps, errors>>

-----------------------------------------------------------------------------
(* The posts page and the Celery tasks.                                    *)

ApprovePost(p) ==
    /\ post[p] # "absent"
    /\ decisions < MaxDecisions /\ decisions' = decisions + 1
    /\ post' = [post EXCEPT ![p] = "approved"]
    /\ UNCHANGED <<run, session, item, task, req, live, approvals, overlaps, errors>>

Queue(t, p) == task[t].pc = "free" /\ task' = [task EXCEPT ![t] = [pc |-> "queued", post |-> p]]

PublishNow(t, p) ==
    /\ post[p] \in {"review", "approved"}
    /\ Queue(t, p)
    /\ post' = [post EXCEPT ![p] = "approved"]
    /\ UNCHANGED <<run, session, item, req, live, approvals, decisions, overlaps, errors>>

Republish(t, p) ==
    /\ post[p] # "absent"
    /\ Queue(t, p)
    /\ UNCHANGED <<run, session, post, item, req, live, approvals, decisions, overlaps, errors>>

TaskCall(t) ==
    /\ task[t].pc = "queued"
    /\ live' = [live EXCEPT ![task[t].post] = @ + 1]
    /\ task' = [task EXCEPT ![t].pc = "recording"]
    /\ UNCHANGED <<run, session, post, item, req, approvals, decisions, overlaps, errors>>

TaskRecord(t) ==
    /\ task[t].pc = "recording"
    /\ post' = [post EXCEPT ![task[t].post] = "published"]
    /\ task' = [task EXCEPT ![t].pc = "done"]
    /\ UNCHANGED <<run, session, item, req, live, approvals, decisions, overlaps, errors>>

\* A transient error is retried; a permanent one goes to the dead letters.
TaskFails(t) ==
    /\ task[t].pc \in {"queued", "recording"}
    /\ Err
    /\ post' = [post EXCEPT ![task[t].post] = "failed"]
    /\ \E pc \in {"queued", "dead"} : task' = [task EXCEPT ![t].pc = pc]
    /\ UNCHANGED <<run, session, item, req, live, approvals, decisions, overlaps>>

\* publish_post_dlq writes 'failed' whatever the post has become.
DeadLetter(t) ==
    /\ task[t].pc = "dead"
    /\ post' = [post EXCEPT ![task[t].post] = "failed"]
    /\ task' = [task EXCEPT ![t].pc = "done"]
    /\ UNCHANGED <<run, session, item, req, live, approvals, decisions, overlaps, errors>>

\* acks_late: a worker that dies after the call runs the task again.
TaskRedelivered(t) ==
    /\ task[t].pc = "recording"
    /\ Err
    /\ task' = [task EXCEPT ![t].pc = "queued"]
    /\ UNCHANGED <<run, session, post, item, req, live, approvals, decisions, overlaps>>

-----------------------------------------------------------------------------
Receive(q) ==
    \E b \in Batches :
       \/ \E v \in DOMAIN Verdict :
             \/ \E excluded \in SUBSET Platforms : DecideByApi(q, b, v, excluded)
             \/ \E a \in Deciders \ {"api"} : Reply(q, b, a, v)
       \/ ReplyUnknown(q, b)

Resume(q) == LoadRun(q) \/ Approve(q) \/ Revise(q) \/ Reject(q) \/ Pending(q)

Step(q) ==
    \/ Execute(q) \/ ExecuteFails(q) \/ Fail(q) \/ Open(q) \/ SaveRef(q) \/ Close(q)
    \/ \E p \in Posts : Call(q, p) \/ CallFails(q, p) \/ CallRefused(q, p)
    \/ Record(q) \/ EndPublish(q)
    \/ SaveReview(q) \/ Resume(q) \/ Rerun(q) \/ RerunFails(q) \/ Cancel(q)

Worker(t) == TaskCall(t) \/ TaskRecord(t) \/ TaskFails(t) \/ DeadLetter(t) \/ TaskRedelivered(t)

Next ==
    \/ \E q \in Requests : Receive(q) \/ Step(q)
    \/ \E p \in Posts : ApprovePost(p) \/ \E t \in Tasks : PublishNow(t, p) \/ Republish(t, p)
    \/ \E t \in Tasks : Worker(t)

Spec == Init /\ [][Next]_vars
-----------------------------------------------------------------------------
(* Properties.                                                             *)

TasksFor(p) == {t \in Tasks : task[t].post = p}
Unattended == overlaps = 0 /\ \A t \in Tasks : task[t].pc = "free"
AtRest == /\ \A q \in Requests : ~Busy(q)
          /\ \A t \in Tasks : task[t].pc \in {"free", "done"}

\* The same post goes out twice only through requests that overlap, tasks
\* an editor queued for it, or errors of those tasks: late, repeated and stale
\* decisions, one after the other, never publish again.
RepeatsNeedOverlap ==
    \A p \in Posts :
       live[p] <= 1 + overlaps + Cardinality(TasksFor(p))
                    + (IF TasksFor(p) = {} THEN 0 ELSE errors)

\* Votes that overwrite each other are lost but never make a quorum: a session that
\* is approved has Quorum different approvers, unless somebody approved it who
\* decides alone, by the API or in a channel that does not tell its senders apart.
ApproversOf(b) == {a.by : a \in {x \in approvals : x.batch = b}}
QuorumIsReal ==
    \A b \in Batches :
       session[b].status = "approved" /\ ApproversOf(b) \cap Alone = {}
          => Cardinality(ApproversOf(b)) >= QuorumOf(b)

\* A run that was rejected stays cancelled and publishes nothing more.
VetoHolds ==
    [][Unattended /\ run = "cancelled" => run' = "cancelled" /\
          \A p \in Posts : live'[p] = live[p] \/ TasksFor(p)' # {}]_vars

\* An ended run without any post that may still go out has given its item back.
ItemNotStranded ==
    /\ Unattended /\ AtRest /\ run \in {"failed", "cancelled"}
    /\ \A p \in Posts : post[p] \in {"absent", "failed"}
    => item.status = "new"

(* Statements of the documentation.                                        *)

\* A revised draft replaces the one it revises: an account gets one of them.
OneDraftPerAccount ==
    \A p, r \in Posts : p.platform = r.platform /\ live[p] > 0 /\ live[r] > 0 => p = r
=============================================================================
