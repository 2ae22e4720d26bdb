--------------------------- MODULE InlineRunProofs ---------------------------
(***************************************************************************)
(* What holds of an inline run for any number of requests, reviewers,      *)
(* accounts, tasks and decisions: posts go out again only by overlapping   *)
(* requests and by tasks, votes that overwrite each other make no quorum,  *)
(* a rejection is final, and a run that ended gives its item back.         *)
(***************************************************************************)
EXTENDS InlineRun, FiniteSetTheorems, TLAPS

Pcs == {"idle", "executing", "failing", "opening", "sending", "closing", "deciding",
        "resuming", "applying", "publishing", "recording", "rerunning", "releasing"}
ReqRecord == [pc : Pcs, batch : Batches, review : Session, by : Deciders \cup {None},
              run : RunStatus, auto : BOOLEAN, todo : SUBSET Posts,
              post : Posts \cup {None}]

-----------------------------------------------------------------------------
(* The inductive invariant.                                                *)

\* What a request holds at a place is what it took to get there.
ShapeOf(q) ==
    /\ req[q].pc = "deciding" => req[q].by \in Deciders
    /\ req[q].pc = "recording" => req[q].post \in Posts
    /\ req[q].pc \in {"applying", "opening", "sending"} => req[q].run = "awaiting_review"
    /\ req[q].pc = "closing" => req[q].run \in {"awaiting_review", "succeeded"}
Shape == /\ \A q \in Requests : ShapeOf(q)
         /\ \A t \in Tasks : (task[t].pc = "free") <=> (task[t].post = None)

\* An approving vote in a session, or in the copy a decision is about to save, is of
\* somebody who approved it, or of the one who decides; and the same for its quorum.
Backed(r, b, by) ==
    /\ Approvers(r) \subseteq by
    /\ r.status = "approved" /\ by \cap Alone = {} => Cardinality(by) >= QuorumOf(b)
Votings ==
    /\ \A b \in Batches : IsFiniteSet(ApproversOf(b)) /\ Backed(session[b], b, ApproversOf(b))
    /\ \A q \in Requests : req[q].pc = "deciding" =>
          Backed(req[q].review, req[q].batch, ApproversOf(req[q].batch) \cup {req[q].by})

\* Requests that may yet publish p: those that are at it, and those that may go on
\* with the run, if it waits or may be made to wait again.
Publishers(p) == {q \in Requests : req[q].pc \in {"publishing", "recording"} /\ p \in req[q].todo}
Holds(x) == \/ x.pc \in {"executing", "opening", "sending", "applying", "rerunning"}
            \/ x.pc = "closing" /\ x.run = "awaiting_review"
Holders == {q \in Requests : Holds(req[q])}
Asks(x) == Holds(x) \/ x.pc \in {"deciding", "resuming"}
Askers == {q \in Requests : Asks(req[q])}
Hope == run = "awaiting_review" \/ Holders # {}
Chances == IF ~Hope THEN 0 ELSE IF Askers = {} THEN 1 ELSE Cardinality(Askers)

QueuedFor(p) == {t \in TasksFor(p) : task[t].pc = "queued"}
TaskRoom(p) == Cardinality(TasksFor(p)) + (IF TasksFor(p) = {} THEN 0 ELSE errors)
Load(p) == live[p] + (Chances + Cardinality(Publishers(p))) + Cardinality(QueuedFor(p))

BusySet == {q \in Requests : Busy(q)}
Counted ==
    /\ IsFiniteSet(BusySet)
    /\ \A p \in Posts : IsFiniteSet(TasksFor(p))
    /\ \A p \in Posts : Load(p) <= 1 + overlaps + TaskRoom(p)

\* While no two requests overlap, one works at a time, and on an ended run none.
Ended == run \in {"failed", "cancelled"}
Kept == \/ item.status = "new"
        \/ item.link \in Posts /\ post[item.link] \notin {"absent", "failed"}
Calm ==
    overlaps = 0 =>
       /\ \A q, r \in Requests : Busy(q) /\ Busy(r) => q = r
       /\ Ended => \A q \in Requests : req[q].pc \in {"idle", "deciding", "resuming"}
       /\ Ended /\ (\A t \in Tasks : task[t].pc = "free") => Kept

IInv == TypeOK /\ Shape /\ Votings /\ Counted /\ Calm

-----------------------------------------------------------------------------
(* Types.                                                                  *)

LEMMA Verdicts ==
  /\ DOMAIN Verdict = {"approve", "revise", "reject"}
  /\ Verdict["approve"] = "approved" /\ Verdict["revise"] = "revision_requested"
  /\ Verdict["reject"] = "rejected"
BY DEF Verdict

\* What becomes of a session by a decision, by a vote and by its tally.
LEMMA SessionOps ==
  ASSUME NEW r \in Session, NEW b \in Batches, NEW v \in DOMAIN Verdict
  PROVE  /\ Decided(r, v) \in Session /\ Decided(r, v).votes = r.votes
         /\ Tallied(r, b) \in Session /\ Tallied(r, b).votes = r.votes
         /\ Tallied(r, b).status = "approved" => QuorumMet(r, b) \/ r.status = "approved"
         /\ \A x \in SUBSET Platforms : /\ [r EXCEPT !.excluded = x] \in Session
                                        /\ [r EXCEPT !.excluded = x].votes = r.votes
         /\ \A a \in Actors : \E s \in Session :
              /\ s = [r EXCEPT !.votes[a] = v] /\ s.status = r.status
              /\ \A c \in Actors : s.votes[c] = IF c = a THEN v ELSE r.votes[c]
<1>v. v \in Votes /\ Verdict[v] \in SessionStatus
  BY Verdicts DEF Votes, SessionStatus
<1>1. /\ \A st \in SessionStatus : /\ [r EXCEPT !.status = st] \in Session
                                   /\ [r EXCEPT !.status = st].votes = r.votes
                                   /\ [r EXCEPT !.status = st].status = st
      /\ r.status \in SessionStatus
  BY DEF Session
<1>2. Decided(r, v) \in Session /\ Decided(r, v).votes = r.votes
  BY <1>1, <1>v DEF Decided
<1>3. PICK st \in SessionStatus :
         /\ Tallied(r, b) = [r EXCEPT !.status = st]
         /\ st = "approved" => QuorumMet(r, b) \/ r.status = "approved"
  <2>1. CASE HasVote(r, "reject")
    BY <2>1 DEF Tallied, SessionStatus
  <2>2. CASE ~HasVote(r, "reject") /\ HasVote(r, "revise")
    BY <2>2 DEF Tallied, SessionStatus
  <2>3. CASE ~HasVote(r, "reject") /\ ~HasVote(r, "revise")
    <3>1. Tallied(r, b) = [r EXCEPT !.status = IF QuorumMet(r, b) THEN "approved" ELSE r.status]
      BY <2>3 DEF Tallied
    <3> QED BY <1>1, <3>1 DEF SessionStatus
  <2> QED BY <2>1, <2>2, <2>3
<1>4. \A x \in SUBSET Platforms : /\ [r EXCEPT !.excluded = x] \in Session
                                  /\ [r EXCEPT !.excluded = x].votes = r.votes
  BY DEF Session
<1>5. ASSUME NEW a \in Actors
      PROVE  \E s \in Session :
              /\ s = [r EXCEPT !.votes[a] = v] /\ s.status = r.status
              /\ \A c \in Actors : s.votes[c] = IF c = a THEN v ELSE r.votes[c]
  <2>1. r.votes \in [Actors -> Votes]
    BY DEF Session
  <2>2. PICK w \in [Actors -> Votes] : w = [r.votes EXCEPT ![a] = v]
    BY <1>v, <2>1
  <2>3. [r EXCEPT !.votes = w] \in Session /\ [r EXCEPT !.votes = w].status = r.status
        /\ [r EXCEPT !.votes = w].votes = w
    BY DEF Session
  <2>4. [r EXCEPT !.votes[a] = v] = [r EXCEPT !.votes = w]
    BY <2>2
  <2> QED BY <2>1, <2>2, <2>3, <2>4
<1> QED BY <1>1, <1>2, <1>3, <1>4, <1>5

LEMMA NewSessions ==
  ASSUME NEW st \in SessionStatus
  PROVE  NewSession(st) \in Session /\ NewSession(st).status = st
         /\ \A a \in Actors : NewSession(st).votes[a] = "none"
BY DEF NewSession, Session, Votes

LEMMA IdleType == ASSUME InlineRunAssumption PROVE Idle \in ReqRecord /\ Idle.pc = "idle"
<1>1. NewSession("absent") \in Session
  BY NewSessions DEF SessionStatus
<1>2. 0 \in Batches
  BY DEF Batches, InlineRunAssumption
<1> QED BY <1>1, <1>2 DEF Idle, ReqRecord, RunStatus, Pcs

\* The places a request goes to, and what it takes along.
Becomes(q, x) == req' = [req EXCEPT ![q] = x]
LEMMA Becoming ==
  ASSUME TypeOK, NEW q \in Requests, NEW x \in ReqRecord, Becomes(q, x)
  PROVE  /\ req' \in [Requests -> ReqRecord] /\ req'[q] = x
         /\ \A r \in Requests \ {q} : req'[r] = req[r]
<1>1. req \in [Requests -> ReqRecord]
  BY DEF TypeOK, ReqRecord, Pcs
<1> QED BY <1>1 DEF Becomes

\* Of the requests, a step changes its own.
Frame(q) == /\ req' \in [Requests -> ReqRecord]
            /\ \A r \in Requests \ {q} : req'[r] = req[r]
At(q, pc) == req[q].pc = pc
Goes(q, pc) == req'[q].pc = pc

LEMMA RunSteps ==
  ASSUME TypeOK, InlineRunAssumption, NEW q \in Requests
  PROVE  /\ Execute(q) =>
              /\ Frame(q) /\ At(q, "executing")
              /\ \/ /\ Goes(q, "publishing") /\ req'[q].todo = Drafted(0) /\ run' = "publishing"
                 \/ /\ Goes(q, "opening") /\ req'[q].run = "awaiting_review"
                    /\ run' = "awaiting_review"
                 \/ Goes(q, "idle") /\ run' = "needs_review"
         /\ ExecuteFails(q) => Frame(q) /\ At(q, "executing") /\ Goes(q, "failing")
         /\ Fail(q) => Frame(q) /\ At(q, "failing") /\ Goes(q, "idle")
         /\ Open(q) => /\ Frame(q) /\ At(q, "opening") /\ req'[q].run = req[q].run
                       /\ Goes(q, "sending") \/ Goes(q, "closing")
         /\ SaveRef(q) => /\ Frame(q) /\ At(q, "sending") /\ req'[q].run = req[q].run
                          /\ Goes(q, "closing")
         /\ Close(q) => Frame(q) /\ At(q, "closing") /\ Goes(q, "idle")
<1>t. req \in [Requests -> ReqRecord]
  BY DEF TypeOK, ReqRecord, Pcs
<1>x. req[q] \in ReqRecord
  BY <1>t
<1>s. /\ {"idle", "executing", "failing", "opening", "sending", "closing",
         "publishing"} \subseteq Pcs
      /\ {"publishing", "awaiting_review"} \subseteq RunStatus
      /\ Drafted(0) \in SUBSET Posts
  BY DEF Pcs, RunStatus, Drafted
<1>0. ASSUME NEW x \in ReqRecord, Becomes(q, x) PROVE Frame(q) /\ req'[q] = x
  BY <1>0, Becoming DEF Frame
<1>e. ASSUME End(q) PROVE Frame(q) /\ Goes(q, "idle")
  BY <1>0, <1>e, IdleType DEF End, Becomes, Goes
<1>b. ASSUME NEW pc \in Pcs, Become(q, pc)
      PROVE  Frame(q) /\ Goes(q, pc) /\ req'[q].run = req[q].run
  <2>1. Becomes(q, [req[q] EXCEPT !.pc = pc])
    BY <1>b DEF Become, Becomes
  <2>2. [req[q] EXCEPT !.pc = pc] \in ReqRecord
    BY <1>x DEF ReqRecord
  <2>3. Frame(q) /\ req'[q] = [req[q] EXCEPT !.pc = pc]
    BY <1>0, <2>1, <2>2
  <2> QED BY <1>x, <2>3 DEF ReqRecord, Goes
<1>1. ASSUME Execute(q)
      PROVE  /\ Frame(q) /\ At(q, "executing")
             /\ \/ Goes(q, "publishing") /\ req'[q].todo = Drafted(0) /\ run' = "publishing"
                \/ /\ Goes(q, "opening") /\ req'[q].run = "awaiting_review"
                   /\ run' = "awaiting_review"
                \/ Goes(q, "idle") /\ run' = "needs_review"
  <2>a. At(q, "executing")
    BY <1>1 DEF Execute, At
  <2> DEFINE a == [req[q] EXCEPT !.pc = "publishing", !.auto = TRUE,
                                 !.run = "publishing", !.todo = Drafted(0)]
             o == [req[q] EXCEPT !.pc = "opening", !.run = "awaiting_review"]
  <2>1. CASE Becomes(q, a) /\ run' = "publishing"
    <3>1. a \in ReqRecord
      BY <1>x, <1>s DEF ReqRecord
    <3>2. a.pc = "publishing" /\ a.todo = Drafted(0)
      BY <1>x DEF ReqRecord
    <3> QED BY <1>0, <2>a, <2>1, <3>1, <3>2 DEF Goes
  <2>2. CASE Becomes(q, o) /\ run' = "awaiting_review"
    <3>1. o \in ReqRecord
      BY <1>x, <1>s DEF ReqRecord
    <3>2. o.pc = "opening" /\ o.run = "awaiting_review"
      BY <1>x DEF ReqRecord
    <3> QED BY <1>0, <2>a, <2>2, <3>1, <3>2 DEF Goes
  <2>3. CASE End(q) /\ run' = "needs_review"
    BY <1>e, <2>a, <2>3
  <2> QED BY <1>1, <2>1, <2>2, <2>3 DEF Execute, Becomes
<1> QED BY <1>1, <1>e, <1>b, <1>s DEF ExecuteFails, Fail, Open, SaveRef, Close, At

LEMMA PublishSteps ==
  ASSUME TypeOK, InlineRunAssumption, NEW q \in Requests
  PROVE  /\ \A p \in Posts : Call(q, p) =>
              /\ Frame(q) /\ At(q, "publishing") /\ p \in req[q].todo
              /\ Goes(q, "recording") /\ req'[q].post = p /\ req'[q].todo = req[q].todo \ {p}
         /\ \A p \in Posts : CallFails(q, p) \/ CallRefused(q, p) =>
              /\ Frame(q) /\ req[q].pc \in {"publishing", "recording"}
              /\ req'[q].pc \in {"failing", "idle"}
         /\ Record(q) => /\ Frame(q) /\ At(q, "recording") /\ Goes(q, "publishing")
                         /\ req'[q].todo = req[q].todo
         /\ EndPublish(q) => /\ Frame(q) /\ At(q, "publishing") /\ Goes(q, "closing")
                             /\ req'[q].run = "succeeded"
<1>t. req \in [Requests -> ReqRecord]
  BY DEF TypeOK, ReqRecord, Pcs
<1>x. req[q] \in ReqRecord /\ req[q].todo \in SUBSET Posts
  BY <1>t DEF ReqRecord
<1>s. /\ {"idle", "failing", "closing", "recording", "publishing"} \subseteq Pcs
      /\ "succeeded" \in RunStatus
  BY DEF Pcs, RunStatus
<1>0. ASSUME NEW x \in ReqRecord, Becomes(q, x) PROVE Frame(q) /\ req'[q] = x
  BY <1>0, Becoming DEF Frame
<1>1. ASSUME NEW p \in Posts, Call(q, p)
      PROVE  /\ Frame(q) /\ At(q, "publishing") /\ p \in req[q].todo
             /\ Goes(q, "recording") /\ req'[q].post = p /\ req'[q].todo = req[q].todo \ {p}
  <2> DEFINE x == [req[q] EXCEPT !.pc = "recording", !.post = p, !.todo = req[q].todo \ {p}]
  <2>1. x \in ReqRecord
    BY <1>x, <1>s DEF ReqRecord
  <2>2. Becomes(q, x)
    BY <1>1 DEF Call, Becomes
  <2>3. x.pc = "recording" /\ x.post = p /\ x.todo = req[q].todo \ {p}
    BY <1>x DEF ReqRecord
  <2>4. Frame(q) /\ req'[q] = x
    BY <1>0, <2>1, <2>2
  <2> QED BY <1>1, <2>3, <2>4 DEF Call, At, Goes
<1>2. ASSUME NEW p \in Posts, CallFails(q, p) \/ CallRefused(q, p)
      PROVE  /\ Frame(q) /\ req[q].pc \in {"publishing", "recording"}
             /\ req'[q].pc \in {"failing", "idle"}
  <2>1. CASE Become(q, "failing")
    <3>1. [req[q] EXCEPT !.pc = "failing"] \in ReqRecord
      BY <1>x, <1>s DEF ReqRecord
    <3>2. Frame(q) /\ req'[q] = [req[q] EXCEPT !.pc = "failing"]
      BY <1>0, <2>1, <3>1 DEF Become, Becomes
    <3> QED BY <1>x, <1>2, <3>2 DEF ReqRecord, CallFails, CallRefused
  <2>2. CASE End(q)
    BY <1>0, <1>2, <2>2, IdleType DEF End, Becomes, CallFails, CallRefused
  <2> QED BY <1>2, <2>1, <2>2 DEF CallFails, CallRefused
<1>3. ASSUME Record(q)
      PROVE  /\ Frame(q) /\ At(q, "recording") /\ Goes(q, "publishing")
             /\ req'[q].todo = req[q].todo
  <2> DEFINE x == [req[q] EXCEPT !.pc = "publishing", !.post = None]
  <2>1. x \in ReqRecord
    BY <1>x, <1>s DEF ReqRecord
  <2>2. Becomes(q, x)
    BY <1>3 DEF Record, Becomes
  <2>3. x.pc = "publishing" /\ x.todo = req[q].todo
    BY <1>x DEF ReqRecord
  <2>4. Frame(q) /\ req'[q] = x
    BY <1>0, <2>1, <2>2
  <2> QED BY <1>3, <2>3, <2>4 DEF Record, At, Goes
<1>4. ASSUME EndPublish(q)
      PROVE  /\ Frame(q) /\ At(q, "publishing") /\ Goes(q, "closing")
             /\ req'[q].run = "succeeded"
  <2> DEFINE x == [req[q] EXCEPT !.pc = "closing", !.run = "succeeded"]
  <2>1. x \in ReqRecord
    BY <1>x, <1>s DEF ReqRecord
  <2>2. Becomes(q, x)
    BY <1>4 DEF EndPublish, Becomes
  <2>3. x.pc = "closing" /\ x.run = "succeeded"
    BY <1>x DEF ReqRecord
  <2>4. Frame(q) /\ req'[q] = x
    BY <1>0, <2>1, <2>2
  <2> QED BY <1>4, <2>3, <2>4 DEF EndPublish, At, Goes
<1> QED BY <1>1, <1>2, <1>3, <1>4

LEMMA DecisionSteps ==
  ASSUME TypeOK, InlineRunAssumption, NEW q \in Requests
  PROVE  /\ \A b \in Batches, by \in Deciders \cup {None}, r \in Session,
              pc \in {"deciding", "resuming"} : Begin(q, b, by, r, pc) =>
                 /\ Frame(q) /\ At(q, "idle") /\ Goes(q, pc) /\ req'[q].batch = b
                 /\ req'[q].by = by /\ req'[q].review = r
         /\ SaveReview(q) => /\ Frame(q) /\ At(q, "deciding") /\ Goes(q, "resuming")
         /\ LoadRun(q) => /\ Frame(q) /\ At(q, "resuming")
                          /\ \/ Goes(q, "idle")
                             \/ /\ Goes(q, "applying") /\ req'[q].run = "awaiting_review"
                                /\ run = "awaiting_review"
         /\ Approve(q) => Frame(q) /\ At(q, "applying") /\ Goes(q, "publishing")
         /\ Revise(q) => Frame(q) /\ At(q, "applying") /\ Goes(q, "rerunning")
         /\ Rerun(q) => /\ Frame(q) /\ At(q, "rerunning") /\ Goes(q, "opening")
                        /\ req'[q].run = "awaiting_review"
         /\ RerunFails(q) => Frame(q) /\ At(q, "rerunning") /\ Goes(q, "idle")
         /\ Reject(q) => Frame(q) /\ At(q, "applying") /\ Goes(q, "releasing")
         /\ Cancel(q) => Frame(q) /\ At(q, "releasing") /\ Goes(q, "idle")
         /\ Pending(q) => /\ Frame(q) /\ At(q, "applying") /\ Goes(q, "closing")
                          /\ req'[q].run = req[q].run
<1>t. req \in [Requests -> ReqRecord]
  BY DEF TypeOK, ReqRecord, Pcs
<1>x. req[q] \in ReqRecord /\ req[q].run \in RunStatus
  BY <1>t DEF ReqRecord
<1>i. Idle \in ReqRecord /\ Idle.pc = "idle"
  BY IdleType
<1>s. /\ {"idle", "deciding", "resuming", "applying", "publishing"} \subseteq Pcs
      /\ {"rerunning", "opening", "releasing", "closing"} \subseteq Pcs
      /\ {"publishing", "awaiting_review"} \subseteq RunStatus
  BY DEF Pcs, RunStatus
<1>0. ASSUME NEW x \in ReqRecord, Becomes(q, x) PROVE Frame(q) /\ req'[q] = x
  BY <1>0, Becoming DEF Frame
<1>e. ASSUME End(q) PROVE Frame(q) /\ Goes(q, "idle")
  BY <1>0, <1>e, <1>i DEF End, Becomes, Goes
<1>1. ASSUME NEW b \in Batches, NEW by \in Deciders \cup {None}, NEW r \in Session,
             NEW pc \in {"deciding", "resuming"}, Begin(q, b, by, r, pc)
      PROVE  /\ Frame(q) /\ At(q, "idle") /\ Goes(q, pc) /\ req'[q].batch = b
             /\ req'[q].by = by /\ req'[q].review = r
  <2> DEFINE x == [Idle EXCEPT !.pc = pc, !.batch = b, !.by = by, !.review = r]
  <2>1. x \in ReqRecord
    BY <1>i, <1>s DEF ReqRecord
  <2>2. Becomes(q, x)
    BY <1>1 DEF Begin, Becomes
  <2>3. x.pc = pc /\ x.batch = b /\ x.by = by /\ x.review = r
    BY <1>i DEF ReqRecord
  <2>4. Frame(q) /\ req'[q] = x
    BY <1>0, <2>1, <2>2
  <2> QED BY <1>1, <2>3, <2>4 DEF Begin, Busy, At, Goes
<1>2. ASSUME SaveReview(q) PROVE Frame(q) /\ At(q, "deciding") /\ Goes(q, "resuming")
  <2> DEFINE x == [req[q] EXCEPT !.pc = "resuming", !.by = None]
  <2>1. x \in ReqRecord
    BY <1>x, <1>s DEF ReqRecord
  <2>2. Becomes(q, x)
    BY <1>2 DEF SaveReview, Becomes
  <2>3. x.pc = "resuming"
    BY <1>x DEF ReqRecord
  <2>4. Frame(q) /\ req'[q] = x
    BY <1>0, <2>1, <2>2
  <2> QED BY <1>2, <2>3, <2>4 DEF SaveReview, At, Goes
<1>3. ASSUME LoadRun(q)
      PROVE  /\ Frame(q) /\ At(q, "resuming")
             /\ \/ Goes(q, "idle")
                \/ /\ Goes(q, "applying") /\ req'[q].run = "awaiting_review"
                   /\ run = "awaiting_review"
  <2> DEFINE x == [req[q] EXCEPT !.pc = "applying", !.run = run]
  <2>1. CASE MayResume(run)
    <3>1. x \in ReqRecord
      BY <1>x, <1>s DEF ReqRecord, TypeOK
    <3>2. Becomes(q, x)
      BY <1>3, <2>1 DEF LoadRun, Becomes
    <3>3. x.pc = "applying" /\ x.run = run
      BY <1>x DEF ReqRecord
    <3>4. Frame(q) /\ req'[q] = x
      BY <1>0, <3>1, <3>2
    <3> QED BY <1>3, <2>1, <3>3, <3>4 DEF LoadRun, At, Goes, MayResume
  <2>2. CASE ~MayResume(run)
    BY <1>3, <1>e, <2>2 DEF LoadRun, At
  <2> QED BY <2>1, <2>2
<1>4. ASSUME Approve(q) PROVE Frame(q) /\ At(q, "applying") /\ Goes(q, "publishing")
  <2> DEFINE todo == Persisted \ Excluded(req[q].review)
             x == [Idle EXCEPT !.pc = "publishing", !.run = "publishing", !.todo = todo]
  <2>1. todo \in SUBSET Posts
    BY DEF Persisted
  <2>2. x \in ReqRecord
    BY <1>i, <1>s, <2>1 DEF ReqRecord
  <2>3. Becomes(q, x)
    BY <1>4 DEF Approve, Becomes
  <2>4. x.pc = "publishing"
    BY <1>i DEF ReqRecord
  <2>5. Frame(q) /\ req'[q] = x
    BY <1>0, <2>2, <2>3
  <2> QED BY <1>4, <2>4, <2>5 DEF Approve, Applies, At, Goes
<1>5. ASSUME NEW pc \in {"rerunning", "releasing"}, Becomes(q, [Idle EXCEPT !.pc = pc])
      PROVE  Frame(q) /\ Goes(q, pc)
  <2>1. [Idle EXCEPT !.pc = pc] \in ReqRecord /\ [Idle EXCEPT !.pc = pc].pc = pc
    <3>1. pc \in Pcs
      BY <1>s
    <3> QED BY <1>i, <3>1 DEF ReqRecord
  <2> QED BY <1>0, <1>5, <2>1 DEF Goes
<1>6. ASSUME Rerun(q)
      PROVE  /\ Frame(q) /\ At(q, "rerunning") /\ Goes(q, "opening")
             /\ req'[q].run = "awaiting_review"
  <2>1. PICK b \in Batches :
          Becomes(q, [Idle EXCEPT !.pc = "opening", !.run = "awaiting_review", !.batch = b])
    BY <1>6 DEF Rerun, Becomes
  <2> DEFINE x == [Idle EXCEPT !.pc = "opening", !.run = "awaiting_review", !.batch = b]
  <2>2. x \in ReqRecord
    BY <1>i, <1>s DEF ReqRecord
  <2>3. x.pc = "opening" /\ x.run = "awaiting_review"
    BY <1>i DEF ReqRecord
  <2>4. Frame(q) /\ req'[q] = x
    BY <1>0, <2>1, <2>2
  <2> QED BY <1>6, <2>3, <2>4 DEF Rerun, At, Goes
<1>7. ASSUME Pending(q)
      PROVE  /\ Frame(q) /\ At(q, "applying") /\ Goes(q, "closing")
             /\ req'[q].run = req[q].run
  <2> DEFINE x == [Idle EXCEPT !.pc = "closing", !.run = req[q].run]
  <2>1. x \in ReqRecord
    BY <1>i, <1>x, <1>s DEF ReqRecord
  <2>2. Becomes(q, x)
    BY <1>7 DEF Pending, Becomes
  <2>3. x.pc = "closing" /\ x.run = req[q].run
    BY <1>i DEF ReqRecord
  <2>4. Frame(q) /\ req'[q] = x
    BY <1>0, <2>1, <2>2
  <2> QED BY <1>7, <2>3, <2>4 DEF Pending, Applies, At, Goes
<1>8. ASSUME Revise(q) PROVE Frame(q) /\ At(q, "applying") /\ Goes(q, "rerunning")
  BY <1>5, <1>8 DEF Revise, Applies, At, Becomes
<1>9. ASSUME Reject(q) PROVE Frame(q) /\ At(q, "applying") /\ Goes(q, "releasing")
  BY <1>5, <1>9 DEF Reject, Applies, At, Becomes
<1>10. ASSUME Cancel(q) PROVE Frame(q) /\ At(q, "releasing") /\ Goes(q, "idle")
  BY <1>e, <1>10 DEF Cancel, At
<1>11. ASSUME RerunFails(q) PROVE Frame(q) /\ At(q, "rerunning") /\ Goes(q, "idle")
  BY <1>e, <1>11 DEF RerunFails, At
<1> QED BY <1>1, <1>2, <1>3, <1>4, <1>6, <1>7, <1>8, <1>9, <1>10, <1>11

\* What a decision takes along: the votes of the session and its own, and a status that
\* is one who decides alone's, the only reviewer's, the quorum's, or the one it found.
Copied(r, b, by) ==
    /\ \A a \in Actors : r.votes[a] = "approve" => a = by \/ session[b].votes[a] = "approve"
    /\ r.status = "approved" => \/ by \in Alone \/ ~(QuorumOf(b) > 1)
                                \/ QuorumMet(r, b) \/ session[b].status = "approved"

LEMMA Receives ==
  ASSUME TypeOK, InlineRunAssumption, NEW q \in Requests, Receive(q)
  PROVE  \E b \in Batches, by \in Deciders \cup {None}, r \in Session,
            pc \in {"deciding", "resuming"} :
            /\ Begin(q, b, by, r, pc)
            /\ pc = "deciding" => by \in Deciders /\ Copied(r, b, by)
<1>1. PICK b \in Batches :
         \/ \E v \in DOMAIN Verdict :
               \/ \E excluded \in SUBSET Platforms : DecideByApi(q, b, v, excluded)
               \/ \E a \in Deciders \ {"api"} : Reply(q, b, a, v)
         \/ ReplyUnknown(q, b)
  BY DEF Receive
<1>2. session[b] \in Session
  BY DEF TypeOK
<1>3. ASSUME NEW v \in DOMAIN Verdict, NEW ex \in SUBSET Platforms, DecideByApi(q, b, v, ex)
      PROVE  /\ "api" \in Deciders
             /\ \E r \in Session : Begin(q, b, "api", r, "deciding") /\ Copied(r, b, "api")
  <2>1. PICK s \in Session : s = [session[b] EXCEPT !.excluded = ex] /\ s.votes = session[b].votes
    BY <1>2, SessionOps, <1>3
  <2>2. Decided(s, v) \in Session /\ Decided(s, v).votes = session[b].votes
    BY <2>1, SessionOps, <1>1
  <2>3. Begin(q, b, "api", Decided(s, v), "deciding")
    BY <1>3, <2>1 DEF DecideByApi
  <2>4. Copied(Decided(s, v), b, "api")
    BY <2>2 DEF Copied, Alone
  <2>5. "api" \in Deciders
    BY DEF Deciders, Alone
  <2> QED BY <2>2, <2>3, <2>4, <2>5
<1>4. ASSUME NEW v \in DOMAIN Verdict, NEW a \in Deciders, Reply(q, b, a, v)
      PROVE  \E r \in Session : Begin(q, b, a, r, "deciding") /\ Copied(r, b, a)
  <2>1. CASE QuorumOf(b) > 1 /\ a \in Actors
    <3>1. PICK s \in Session :
            /\ s = [session[b] EXCEPT !.votes[a] = v] /\ s.status = session[b].status
            /\ \A c \in Actors : s.votes[c] = IF c = a THEN v ELSE session[b].votes[c]
      BY <1>2, <1>4, <2>1, SessionOps
    <3>2. /\ Tallied(s, b) \in Session /\ Tallied(s, b).votes = s.votes
          /\ Tallied(s, b).status = "approved" => QuorumMet(s, b) \/ s.status = "approved"
      BY <1>4, SessionOps
    <3>3. QuorumMet(s, b) => QuorumMet(Tallied(s, b), b)
      BY <3>2 DEF QuorumMet, Approvers
    <3>4. Begin(q, b, a, Tallied(s, b), "deciding")
      BY <1>4, <2>1, <3>1 DEF Reply
    <3>5. Copied(Tallied(s, b), b, a)
      BY <3>1, <3>2, <3>3 DEF Copied
    <3> QED BY <3>2, <3>4, <3>5
  <2>2. CASE ~(QuorumOf(b) > 1 /\ a \in Actors)
    <3>1. Decided(session[b], v) \in Session /\ Decided(session[b], v).votes = session[b].votes
      BY <1>2, <1>4, SessionOps
    <3>2. Begin(q, b, a, Decided(session[b], v), "deciding")
      BY <1>4, <2>2 DEF Reply
    <3> QED BY <2>2, <3>1, <3>2 DEF Copied, Deciders
  <2> QED BY <2>1, <2>2
<1>5. CASE ReplyUnknown(q, b)
  BY <1>2, <1>5 DEF ReplyUnknown
<1> QED BY <1>1, <1>3, <1>4, <1>5

LEMMA Frames ==
  ASSUME TypeOK, InlineRunAssumption, NEW q \in Requests, Receive(q) \/ Step(q)
  PROVE  Frame(q)
<1>1. CASE Receive(q)
  BY <1>1, Receives, DecisionSteps
<1>2. CASE Step(q)
  BY <1>2, RunSteps, PublishSteps, DecisionSteps DEF Step, Resume
<1> QED BY <1>1, <1>2

LEMMA RequestTypes ==
  ASSUME TypeOK, Shape, InlineRunAssumption, NEW q \in Requests, Receive(q) \/ Step(q)
  PROVE  TypeOK'
<1>t. req \in [Requests -> ReqRecord]
  BY DEF TypeOK, ReqRecord, Pcs
<1>x. /\ req[q].run \in RunStatus /\ req[q].review \in Session
      /\ req[q].batch \in Batches /\ req[q].todo \subseteq Posts
      /\ req[q].post \in Posts \cup {None}
  BY <1>t DEF ReqRecord
<1>r. PICK b \in Batches, by \in Deciders \cup {None}, r \in Session,
           pc \in {"deciding", "resuming"} : Receive(q) => Begin(q, b, by, r, pc)
  <2>1. CASE Receive(q)
    BY <2>1, Receives
  <2>2. CASE ~Receive(q)
    <3>1. 0 \in Batches /\ NewSession("absent") \in Session
      BY NewSessions DEF Batches, InlineRunAssumption, SessionStatus
    <3> QED BY <2>2, <3>1
  <2> QED BY <2>1, <2>2
<1>1. req' \in [Requests -> ReqRecord]
  BY Frames DEF Frame
<1>2. run' \in RunStatus
  BY <1>x, <1>r DEF TypeOK, RunStatus, Begin, Step, Execute, ExecuteFails, Fail, Open, SaveRef,
     Close, Call, CallFails, CallRefused, Record, EndPublish, SaveReview, Resume, LoadRun,
     Approve, Revise, Reject, Pending, Rerun, RerunFails, Cancel
<1>3. session' \in [Batches -> Session]
  <2>1. NewSession("pending") \in Session
    BY NewSessions DEF SessionStatus
  <2> QED
    BY <1>x, <1>r, <2>1 DEF TypeOK, Begin, Step, Execute, ExecuteFails, Fail, Open, SaveRef,
       Close, Call, CallFails, CallRefused, Record, EndPublish, SaveReview, Resume, LoadRun,
       Approve, Revise, Reject, Pending, Rerun, RerunFails, Cancel
<1>4. post' \in [Posts -> PostStatus]
  BY <1>x, <1>r DEF TypeOK, PostStatus, Begin, Step, Execute, ExecuteFails, Fail, Open,
     SaveRef, Close, Call, CallFails, CallRefused, Record, EndPublish, SaveReview, Resume,
     LoadRun, Approve, Revise, Reject, Pending, Rerun, RerunFails, Cancel
<1>5. item' \in [status : {"new", "consumed"}, link : Posts \cup {None}]
  <2>1. \A p \in Posts : [item EXCEPT !.link = p] \in [status : {"new", "consumed"},
                                                       link : Posts \cup {None}]
    BY DEF TypeOK
  <2>2. Released(item, post) \in [status : {"new", "consumed"}, link : Posts \cup {None}]
    BY DEF TypeOK, Released
  <2>3. Drafted(0) \subseteq Posts
    BY DEF Drafted
  <2> QED
    BY <1>r, <2>1, <2>2, <2>3 DEF TypeOK, Begin, Step, Execute, ExecuteFails, Fail, Open,
       SaveRef, Close, Call, CallFails, CallRefused, Record, EndPublish, SaveReview, Resume,
       LoadRun, Approve, Revise, Reject, Pending, Rerun, RerunFails, Cancel
<1>6. task' = task
  BY <1>r DEF Begin, Step, Execute, ExecuteFails, Fail, Open, SaveRef, Close, Call, CallFails,
     CallRefused, Record, EndPublish, SaveReview, Resume, LoadRun, Approve, Revise, Reject,
     Pending, Rerun, RerunFails, Cancel
<1>7. live' \in [Posts -> Nat]
  <2>1. live' = live \/ \E p \in Posts : live' = [live EXCEPT ![p] = @ + 1]
    BY <1>r DEF Begin, Step, Execute, ExecuteFails, Fail, Open, SaveRef, Close, Call,
       CallFails, CallRefused, Record, EndPublish, SaveReview, Resume, LoadRun, Approve,
       Revise, Reject, Pending, Rerun, RerunFails, Cancel
  <2> QED BY <2>1 DEF TypeOK
<1>8. approvals' \subseteq [batch : Batches, by : Deciders]
  <2>1. SaveReview(q) => req[q].by \in Deciders
    BY DEF SaveReview, Shape, ShapeOf
  <2>2. SaveReview(q) \/ approvals' = approvals
    BY <1>r DEF Begin, Step, Execute, ExecuteFails, Fail, Open, SaveRef, Close, Call,
       CallFails, CallRefused, Record, EndPublish, SaveReview, Resume, LoadRun, Approve,
       Revise, Reject, Pending, Rerun, RerunFails, Cancel
  <2> QED BY <1>x, <2>1, <2>2 DEF SaveReview, TypeOK
<1>9. decisions' \in 0..MaxDecisions /\ overlaps' \in 0..MaxOverlaps
  <2>1. Receive(q) \/ UNCHANGED <<decisions, overlaps>>
    BY DEF Begin, Step, Execute, ExecuteFails, Fail, Open, SaveRef, Close, Call, CallFails,
       CallRefused, Record, EndPublish, SaveReview, Resume, LoadRun, Approve, Revise, Reject,
       Pending, Rerun, RerunFails, Cancel
  <2> QED BY <1>r, <2>1 DEF Begin, TypeOK, InlineRunAssumption
<1>10. errors' \in 0..MaxErrors
  <2>1. Err \/ errors' = errors
    BY <1>r DEF Begin, Step, Execute, ExecuteFails, Fail, Open, SaveRef, Close, Call,
       CallFails, CallRefused, Record, EndPublish, SaveReview, Resume, LoadRun, Approve,
       Revise, Reject, Pending, Rerun, RerunFails, Cancel
  <2> QED BY <2>1 DEF Err, TypeOK, InlineRunAssumption
<1> QED
  BY <1>1, <1>2, <1>3, <1>4, <1>5, <1>6, <1>7, <1>8, <1>9, <1>10
  DEF TypeOK, ReqRecord, Pcs, PostStatus

\* The posts page and the tasks leave the run, its sessions and its requests alone.
Elsewhere ==
    \/ \E p \in Posts : ApprovePost(p) \/ \E t \in Tasks : PublishNow(t, p) \/ Republish(t, p)
    \/ \E t \in Tasks : Worker(t)

TaskShape == \A t \in Tasks : (task[t].pc = "free") <=> (task[t].post = None)

LEMMA ElsewhereKeeps ==
  ASSUME Elsewhere
  PROVE  UNCHANGED <<run, session, item, req, approvals, overlaps>>
BY DEF Elsewhere, ApprovePost, PublishNow, Republish, Worker, TaskCall, TaskRecord, TaskFails,
   DeadLetter, TaskRedelivered

LEMMA ElsewhereTypes ==
  ASSUME TypeOK, Shape, InlineRunAssumption, Elsewhere
  PROVE  TypeOK' /\ TaskShape'
<1>s. TaskShape
  BY DEF Shape, TaskShape
<1>1. UNCHANGED <<run, session, item, req, approvals, overlaps>>
  BY ElsewhereKeeps
<1>2. post' \in [Posts -> PostStatus]
  <2>1. post' = post \/ \E p \in Posts \cup {None}, st \in PostStatus : post' = [post EXCEPT ![p] = st]
    <3>1. \A t \in Tasks : task[t].post \in Posts \cup {None}
      BY DEF TypeOK
    <3> QED
      BY <3>1 DEF Elsewhere, ApprovePost, PublishNow, Republish, Worker, TaskCall, TaskRecord,
         TaskFails, DeadLetter, TaskRedelivered, PostStatus
  <2> QED BY <2>1 DEF TypeOK, PostStatus
<1>3. live' \in [Posts -> Nat]
  <2>1. live' = live \/ \E p \in Posts \cup {None} : live' = [live EXCEPT ![p] = @ + 1]
    <3>1. \A t \in Tasks : task[t].post \in Posts \cup {None}
      BY DEF TypeOK
    <3> QED
      BY <3>1 DEF Elsewhere, ApprovePost, PublishNow, Republish, Worker, TaskCall, TaskRecord,
         TaskFails, DeadLetter, TaskRedelivered
  <2> QED BY <2>1 DEF TypeOK
<1>4. task' \in [Tasks -> [pc : {"free", "queued", "recording", "dead", "done"},
                           post : Posts \cup {None}]] /\ TaskShape'
  <2>a. task \in [Tasks -> [pc : {"free", "queued", "recording", "dead", "done"},
                            post : Posts \cup {None}]]
    BY DEF TypeOK
  <2>1. ASSUME NEW t \in Tasks, NEW p \in Posts, Queue(t, p)
        PROVE  task' \in [Tasks -> [pc : {"free", "queued", "recording", "dead", "done"},
                                    post : Posts \cup {None}]] /\ TaskShape'
    BY <2>a, <2>1, <1>s DEF Queue, TaskShape, InlineRunAssumption
  <2>2. ASSUME NEW t \in Tasks, NEW pc \in {"queued", "recording", "dead", "done"},
               task[t].pc # "free", task' = [task EXCEPT ![t].pc = pc]
        PROVE  task' \in [Tasks -> [pc : {"free", "queued", "recording", "dead", "done"},
                                    post : Posts \cup {None}]] /\ TaskShape'
    BY <2>a, <2>2, <1>s DEF TaskShape
  <2>3. CASE task' = task
    BY <2>a, <2>3, <1>s DEF TaskShape
  <2> QED
    BY <2>1, <2>2, <2>3 DEF Elsewhere, ApprovePost, PublishNow, Republish, Worker, TaskCall,
       TaskRecord, TaskFails, DeadLetter, TaskRedelivered
<1>5. decisions' \in 0..MaxDecisions
  BY DEF Elsewhere, ApprovePost, PublishNow, Republish, Worker, TaskCall, TaskRecord,
     TaskFails, DeadLetter, TaskRedelivered, TypeOK, InlineRunAssumption
<1>6. errors' \in 0..MaxErrors
  <2>1. Err \/ errors' = errors
    BY DEF Elsewhere, ApprovePost, PublishNow, Republish, Worker, TaskCall, TaskRecord,
       TaskFails, DeadLetter, TaskRedelivered
  <2> QED BY <2>1 DEF Err, TypeOK, InlineRunAssumption
<1> QED BY <1>1, <1>2, <1>3, <1>4, <1>5, <1>6 DEF TypeOK, PostStatus

LEMMA TypeStep ==
  ASSUME TypeOK, Shape, InlineRunAssumption, [Next]_vars PROVE TypeOK'
<1>1. CASE UNCHANGED vars
  BY <1>1 DEF vars, TypeOK
<1> QED BY <1>1, RequestTypes, ElsewhereTypes DEF Next, Elsewhere

\* A step of a request leaves the tasks alone.
LEMMA RequestKeeps ==
  ASSUME NEW q \in Requests, Receive(q) \/ Step(q) PROVE task' = task
BY DEF Receive, DecideByApi, Reply, ReplyUnknown, Begin, Step, Execute, ExecuteFails, Fail,
   Open, SaveRef, Close, Call, CallFails, CallRefused, Record, EndPublish, SaveReview, Resume,
   LoadRun, Approve, Revise, Reject, Pending, Rerun, RerunFails, Cancel

LEMMA ShapeStep ==
  ASSUME TypeOK, Shape, InlineRunAssumption, [Next]_vars PROVE Shape'
<1>1. ASSUME NEW q \in Requests, Receive(q) \/ Step(q) PROVE Shape'
  <2>1. \A r \in Requests \ {q} : req'[r] = req[r]
    BY <1>1, Frames DEF Frame
  <2>2. ShapeOf(q)
    BY DEF Shape
  <2>3. ShapeOf(q)'
    <3>1. CASE Receive(q)
      <4>1. PICK b \in Batches, by \in Deciders \cup {None}, r \in Session,
                 pc \in {"deciding", "resuming"} :
              /\ Begin(q, b, by, r, pc)
              /\ pc = "deciding" => by \in Deciders
        BY <3>1, Receives
      <4>2. req'[q].pc = pc /\ req'[q].by = by
        BY <4>1, DecisionSteps DEF Goes
      <4> QED BY <4>1, <4>2 DEF ShapeOf
    <3>2. CASE Execute(q) \/ ExecuteFails(q) \/ Fail(q) \/ Open(q) \/ SaveRef(q) \/ Close(q)
      BY <2>2, <3>2, RunSteps DEF ShapeOf, At, Goes
    <3>3. CASE (\E p \in Posts : Call(q, p) \/ CallFails(q, p) \/ CallRefused(q, p))
             \/ Record(q) \/ EndPublish(q)
      BY <3>3, PublishSteps DEF ShapeOf, At, Goes
    <3>4. CASE SaveReview(q) \/ Resume(q) \/ Rerun(q) \/ RerunFails(q) \/ Cancel(q)
      BY <2>2, <3>4, DecisionSteps DEF ShapeOf, At, Goes, Resume
    <3> QED BY <1>1, <3>1, <3>2, <3>3, <3>4 DEF Step
  <2>4. task' = task
    BY <1>1, RequestKeeps
  <2> QED BY <2>1, <2>3, <2>4 DEF Shape, ShapeOf
<1>2. CASE Elsewhere
  <2>1. req' = req
    BY <1>2, ElsewhereKeeps
  <2>2. TaskShape'
    BY <1>2, ElsewhereTypes
  <2> QED BY <2>1, <2>2 DEF Shape, ShapeOf, TaskShape
<1>3. CASE UNCHANGED vars
  BY <1>3 DEF vars, Shape, ShapeOf
<1> QED BY <1>1, <1>2, <1>3 DEF Next, Elsewhere

-----------------------------------------------------------------------------
(* Votes.                                                                  *)

LEMMA QuorumType == ASSUME InlineRunAssumption, NEW b \in Batches
                    PROVE QuorumOf(b) \in Nat \ {0}
BY DEF QuorumOf, InlineRunAssumption

\* Who backs a review keeps backing it as approvals are added.
LEMMA BackedGrows ==
  ASSUME InlineRunAssumption, NEW r, NEW b \in Batches, NEW S, NEW T, S \subseteq T,
         IsFiniteSet(T), Backed(r, b, S)
  PROVE  Backed(r, b, T)
<1>1. IsFiniteSet(S) /\ Cardinality(S) <= Cardinality(T)
  BY FS_Subset
<1>2. Cardinality(S) \in Nat /\ Cardinality(T) \in Nat /\ QuorumOf(b) \in Nat
  BY <1>1, FS_CardinalityType, QuorumType
<1> QED BY <1>1, <1>2 DEF Backed

LEMMA VotingsStep ==
  ASSUME TypeOK, Shape, Votings, InlineRunAssumption, [Next]_vars PROVE Votings'
<1>f. \A b \in Batches : IsFiniteSet(ApproversOf(b)) /\ \A x : IsFiniteSet(ApproversOf(b) \cup {x})
  BY FS_AddElement DEF Votings
<1>1. ASSUME NEW q \in Requests, Receive(q) PROVE Votings'
  <2>1. PICK b \in Batches, by \in Deciders \cup {None}, r \in Session,
             pc \in {"deciding", "resuming"} :
          /\ Begin(q, b, by, r, pc)
          /\ pc = "deciding" => by \in Deciders /\ Copied(r, b, by)
    BY <1>1, Receives
  <2>2. /\ req'[q].pc = pc /\ req'[q].batch = b /\ req'[q].by = by /\ req'[q].review = r
        /\ \A o \in Requests \ {q} : req'[o] = req[o]
    BY <2>1, DecisionSteps DEF Frame, Goes
  <2>3. session' = session /\ approvals' = approvals
    BY <2>1 DEF Begin
  <2>4. \A c : ApproversOf(c)' = ApproversOf(c)
    BY <2>3 DEF ApproversOf
  <2>5. ASSUME pc = "deciding" PROVE Backed(r, b, ApproversOf(b) \cup {by})
    <3>1. Copied(r, b, by) /\ Backed(session[b], b, ApproversOf(b))
      BY <2>1, <2>5 DEF Votings
    <3>2. Approvers(r) \subseteq ApproversOf(b) \cup {by}
      BY <3>1 DEF Copied, Backed, Approvers
    <3>3. Cardinality(Approvers(r)) <= Cardinality(ApproversOf(b) \cup {by})
      BY <1>f, <3>2, FS_Subset
    <3>4. Cardinality(ApproversOf(b)) <= Cardinality(ApproversOf(b) \cup {by})
      BY <1>f, FS_Subset
    <3>5. /\ Cardinality(ApproversOf(b)) \in Nat /\ Cardinality(ApproversOf(b) \cup {by}) \in Nat
          /\ Cardinality(Approvers(r)) \in Nat
      BY <1>f, <3>2, FS_Subset, FS_CardinalityType
    <3>6. Cardinality(ApproversOf(b) \cup {by}) # 0
      BY <1>f, FS_EmptySet
    <3>7. QuorumOf(b) \in Nat
      BY QuorumType
    <3>8. ASSUME r.status = "approved", (ApproversOf(b) \cup {by}) \cap Alone = {}
          PROVE  Cardinality(ApproversOf(b) \cup {by}) >= QuorumOf(b)
      <4>1. CASE ~(QuorumOf(b) > 1)
        BY <3>5, <3>6, <3>7, <4>1
      <4>2. CASE QuorumMet(r, b)
        BY <3>3, <3>5, <3>7, <4>2 DEF QuorumMet
      <4>3. CASE session[b].status = "approved"
        BY <3>1, <3>4, <3>5, <3>7, <3>8, <4>3 DEF Backed
      <4> QED BY <3>1, <3>8, <4>1, <4>2, <4>3 DEF Copied
    <3> QED BY <3>2, <3>8 DEF Backed
  <2> QED BY <2>2, <2>3, <2>4, <2>5 DEF Votings
<1>2. ASSUME NEW q \in Requests, SaveReview(q) PROVE Votings'
  <2>1. /\ At(q, "deciding") /\ Goes(q, "resuming")
        /\ \A o \in Requests \ {q} : req'[o] = req[o]
    BY <1>2, DecisionSteps DEF Frame
  <2>2. PICK b \in Batches, by \in Deciders, r \in Session :
           b = req[q].batch /\ by = req[q].by /\ r = req[q].review
    BY <2>1 DEF TypeOK, Shape, ShapeOf, At
  <2>3. Backed(r, b, ApproversOf(b) \cup {by})
    BY <2>1, <2>2 DEF Votings, At
  <2>4. session' = [session EXCEPT ![b] = r]
    BY <1>2, <2>2 DEF SaveReview
  <2>5. approvals' = IF Approving(q) THEN approvals \cup {[batch |-> b, by |-> by]} ELSE approvals
    BY <1>2, <2>2 DEF SaveReview
  <2>7. \A c \in Batches : /\ ApproversOf(c)' = ApproversOf(c) \/ ApproversOf(c)' = ApproversOf(c) \cup {by}
                           /\ ApproversOf(c) \subseteq ApproversOf(c)'
                           /\ Approving(q) => (c = b => ApproversOf(c)' = ApproversOf(c) \cup {by})
    <3>1. CASE ~Approving(q)
      BY <2>5, <3>1 DEF ApproversOf
    <3>2. CASE Approving(q)
      <4> DEFINE new == [batch |-> b, by |-> by]
      <4>1. approvals' = approvals \cup {new} /\ new.batch = b /\ new.by = by
        BY <2>5, <3>2
      <4> HIDE DEF new
      <4>2. ApproversOf(b)' = ApproversOf(b) \cup {by}
        BY <4>1 DEF ApproversOf
      <4>3. \A c \in Batches : c # b => ApproversOf(c)' = ApproversOf(c)
        BY <4>1 DEF ApproversOf
      <4> QED BY <4>2, <4>3
    <3> QED BY <3>1, <3>2
  <2>8. \A c \in Batches : IsFiniteSet(ApproversOf(c)') /\ \A x : IsFiniteSet(ApproversOf(c)' \cup {x})
    <3>1. \A c \in Batches : IsFiniteSet(ApproversOf(c)')
      BY <1>f, <2>7
    <3> QED BY <3>1, FS_AddElement
  <2>9. Backed(r, b, ApproversOf(b)')
    <3>1. CASE Approving(q)
      BY <2>3, <2>7, <3>1
    <3>2. CASE ~Approving(q)
      <4>1. r.status # "approved" /\ (by \in Actors => r.votes[by] # "approve")
        BY <2>2, <3>2 DEF Approving
      <4>2. by \notin Approvers(r)
        BY <4>1 DEF Approvers
      <4> QED BY <2>3, <2>7, <4>1, <4>2 DEF Backed
    <3> QED BY <3>1, <3>2
  <2>10. ASSUME NEW c \in Batches PROVE Backed(session'[c], c, ApproversOf(c)')
    <3>1. CASE c = b
      BY <2>4, <2>9, <3>1 DEF TypeOK
    <3>2. CASE c # b
      <4>1. session'[c] = session[c] /\ Backed(session[c], c, ApproversOf(c))
        BY <2>4, <3>2 DEF Votings, TypeOK
      <4> QED BY <2>7, <2>8, <4>1, BackedGrows
    <3> QED BY <3>1, <3>2
  <2>11. ASSUME NEW o \in Requests, req'[o].pc = "deciding"
         PROVE  Backed(req[o].review, req[o].batch, ApproversOf(req[o].batch) \cup {req[o].by})'
    <3>1. req'[o] = req[o]
      BY <2>1, <2>11 DEF Goes
    <3>2. PICK c \in Batches : c = req[o].batch
      BY DEF TypeOK
    <3>3. Backed(req[o].review, c, ApproversOf(c) \cup {req[o].by})
      BY <2>11, <3>1, <3>2 DEF Votings
    <3>4. ApproversOf(c) \cup {req[o].by} \subseteq ApproversOf(c)' \cup {req[o].by}
      BY <2>7
    <3>5. IsFiniteSet(ApproversOf(c)' \cup {req[o].by})
      BY <2>8
    <3>6. Backed(req[o].review, c, ApproversOf(c)' \cup {req[o].by})
      BY <3>3, <3>4, <3>5, BackedGrows
    <3> QED BY <3>1, <3>2, <3>6 DEF Backed, ApproversOf, Approvers, QuorumOf
  <2> QED BY <2>8, <2>10, <2>11 DEF Votings
<1>3. ASSUME NEW q \in Requests, Step(q), ~SaveReview(q) PROVE Votings'
  <2>1. approvals' = approvals /\ \A c : ApproversOf(c)' = ApproversOf(c)
    BY <1>3 DEF ApproversOf, Step, Execute, ExecuteFails, Fail, Open, SaveRef, Close, Call,
       CallFails, CallRefused, Record, EndPublish, Resume, LoadRun, Approve, Revise, Reject,
       Pending, Rerun, RerunFails, Cancel
  <2>2. \A o \in Requests : req'[o].pc = "deciding" => req'[o] = req[o]
    <3>1. \A o \in Requests \ {q} : req'[o] = req[o]
      BY <1>3, Frames DEF Frame
    <3>2. req'[q].pc # "deciding"
      BY <1>3, RunSteps, PublishSteps, DecisionSteps DEF Step, Resume, Goes
    <3> QED BY <3>1, <3>2
  <2>3. ASSUME NEW c \in Batches PROVE Backed(session'[c], c, ApproversOf(c))
    <3>1. session' = session \/ session' = [session EXCEPT ![req[q].batch] = NewSession("pending")]
      BY <1>3 DEF Step, Execute, ExecuteFails, Fail, Open, SaveRef, Close, Call, CallFails,
         CallRefused, Record, EndPublish, Resume, LoadRun, Approve, Revise, Reject, Pending,
         Rerun, RerunFails, Cancel
    <3>2. session'[c] = session[c] \/ session'[c] = NewSession("pending")
      BY <3>1 DEF TypeOK
    <3>3. Backed(NewSession("pending"), c, ApproversOf(c))
      <4>1. /\ NewSession("pending").status = "pending"
            /\ \A a \in Actors : NewSession("pending").votes[a] = "none"
        BY NewSessions DEF SessionStatus
      <4> QED BY <4>1 DEF Backed, Approvers
    <3> QED BY <3>2, <3>3 DEF Votings
  <2> QED BY <2>1, <2>2, <2>3 DEF Votings
<1>4. CASE Elsewhere \/ UNCHANGED vars
  <2>1. session' = session /\ approvals' = approvals /\ req' = req
    BY <1>4, ElsewhereKeeps DEF vars
  <2>2. \A c : ApproversOf(c)' = ApproversOf(c)
    BY <2>1 DEF ApproversOf
  <2> QED BY <2>1, <2>2 DEF Votings
<1> QED BY <1>1, <1>2, <1>3, <1>4 DEF Next, Elsewhere

-----------------------------------------------------------------------------
(* What may still go out.                                                  *)

\* A step of a request takes no chance to publish the run, turns its own chance into
\* the posts it will publish, or sends one of those.
Settles == /\ live' = live /\ (Hope' => Hope) /\ Askers' \subseteq Askers
           /\ \A p \in Posts : Publishers(p)' \subseteq Publishers(p)
Starts(q) == /\ live' = live /\ Hope /\ q \in Askers /\ Askers' = Askers \ {q}
             /\ Hope' => Askers' # {}
             /\ \A p \in Posts : Publishers(p)' \subseteq Publishers(p) \cup {q}
Sends(q, p) == /\ live' = [live EXCEPT ![p] = @ + 1] /\ (Hope' => Hope) /\ Askers' \subseteq Askers
               /\ q \in Publishers(p) /\ q \notin Publishers(p)'
               /\ \A r \in Posts : Publishers(r)' \subseteq Publishers(r)

LEMMA Others ==
  ASSUME NEW q \in Requests, Frame(q)
  PROVE  /\ Askers' \ {q} = Askers \ {q} /\ Holders' \ {q} = Holders \ {q}
         /\ BusySet' \ {q} = BusySet \ {q}
         /\ \A p \in Posts : Publishers(p)' \ {q} = Publishers(p) \ {q}
BY DEF Frame, Askers, Asks, Holds, Holders, BusySet, Busy, Publishers

\* No request gets a chance that has none, unless the run waits for it.
Humble(q) ==
    /\ Frame(q)
    /\ run' = "awaiting_review" => run = "awaiting_review" \/ Holds(req[q])
    /\ Holds(req'[q]) => Holds(req[q]) \/ run = "awaiting_review"
    /\ Asks(req'[q]) => Asks(req[q])

LEMMA HumbleKeeps ==
  ASSUME NEW q \in Requests, Humble(q) PROVE (Hope' => Hope) /\ Askers' \subseteq Askers
<1>1. Askers' \ {q} = Askers \ {q} /\ Holders' \ {q} = Holders \ {q}
  BY Others DEF Humble
<1>2. q \in Askers' => q \in Askers
  BY DEF Humble, Askers, Asks, Holds
<1>3. q \in Holders' => q \in Holders \/ run = "awaiting_review"
  BY DEF Humble, Holders, Holds
<1>4. run' = "awaiting_review" => run = "awaiting_review" \/ q \in Holders
  BY DEF Humble, Holders
<1> QED BY <1>1, <1>2, <1>3, <1>4 DEF Hope

LEMMA Kinds ==
  ASSUME TypeOK, Shape, InlineRunAssumption, NEW q \in Requests, Step(q)
  PROVE  Settles \/ Starts(q) \/ \E p \in Posts : Sends(q, p)
<1>f. Frame(q)
  BY Frames
<1>o. \A p \in Posts : Publishers(p)' \ {q} = Publishers(p) \ {q}
  BY <1>f, Others
<1>g. \A p \in Posts : q \in Publishers(p)' => /\ req'[q].pc \in {"publishing", "recording"}
                                               /\ p \in req'[q].todo
  BY DEF Publishers
<1>h. \A p \in Posts : req[q].pc \in {"publishing", "recording"} /\ p \in req[q].todo
                         => q \in Publishers(p)
  BY DEF Publishers
<1>r. req[q].pc = "applying" => req[q].run = "awaiting_review"
  BY DEF Shape, ShapeOf
<1>1. ASSUME Humble(q), live' = live, req'[q].pc \notin {"publishing", "recording"} PROVE Settles
  <2>1. \A p \in Posts : Publishers(p)' \subseteq Publishers(p)
    BY <1>o, <1>g, <1>1
  <2> QED BY <1>1, <2>1, HumbleKeeps DEF Settles
<1>2. ASSUME q \in Holders, run' = "publishing", Goes(q, "publishing"), live' = live
      PROVE  Starts(q)
  <2>1. /\ q \in Askers /\ Hope
    BY <1>2 DEF Holders, Askers, Asks, Hope
  <2>2. q \notin Askers' /\ q \notin Holders'
    BY <1>2 DEF Askers, Asks, Holders, Holds, Goes
  <2>3. Askers' = Askers \ {q}
    BY <1>f, <2>2, Others
  <2>4. Hope' => Askers' # {}
    BY <1>2 DEF Hope, Holders, Askers, Asks
  <2>5. \A p \in Posts : Publishers(p)' \subseteq Publishers(p) \cup {q}
    BY <1>o
  <2> QED BY <1>2, <2>1, <2>3, <2>4, <2>5 DEF Starts
<1>3. CASE Execute(q)
  <2>1. q \in Holders /\ live' = live
    BY <1>3 DEF Execute, Holders, Holds
  <2>2. CASE Goes(q, "publishing") /\ run' = "publishing"
    BY <1>2, <2>1, <2>2
  <2>3. CASE Goes(q, "opening") \/ Goes(q, "idle")
    <3>1. Humble(q)
      BY <1>f, <2>1, <2>3 DEF Humble, Holders, Holds, Asks, Goes
    <3> QED BY <1>1, <2>1, <2>3, <3>1 DEF Goes
  <2> QED BY <1>3, <2>2, <2>3, RunSteps
<1>4. CASE ExecuteFails(q) \/ Fail(q) \/ Open(q) \/ SaveRef(q)
  <2>1. live' = live /\ (run' = run \/ run' = "failed")
    BY <1>4 DEF ExecuteFails, Fail, Open, SaveRef
  <2>2. Humble(q) /\ req'[q].pc \notin {"publishing", "recording"}
    <3>1. CASE ExecuteFails(q) \/ Fail(q)
      BY <1>f, <2>1, <3>1, RunSteps DEF Humble, Holds, Asks, At, Goes
    <3>2. CASE Open(q) \/ SaveRef(q)
      BY <1>f, <2>1, <3>2, RunSteps DEF Humble, Holds, Asks, At, Goes
    <3> QED BY <1>4, <3>1, <3>2
  <2> QED BY <1>1, <2>1, <2>2
<1>5. CASE Close(q)
  <2>1. live' = live /\ run' = req[q].run /\ At(q, "closing") /\ Goes(q, "idle")
    BY <1>5, RunSteps DEF Close
  <2>2. Humble(q)
    BY <1>f, <2>1 DEF Humble, Holds, Asks, At, Goes
  <2> QED BY <1>1, <2>1, <2>2 DEF Goes
<1>6. ASSUME NEW p \in Posts, Call(q, p) PROVE Sends(q, p)
  <2>1. /\ At(q, "publishing") /\ p \in req[q].todo /\ Goes(q, "recording")
        /\ req'[q].todo = req[q].todo \ {p} /\ run' = run /\ live' = [live EXCEPT ![p] = @ + 1]
    BY <1>6, PublishSteps DEF Call
  <2>2. Humble(q)
    BY <1>f, <2>1 DEF Humble, Holds, Asks, At, Goes
  <2>3. q \in Publishers(p) /\ q \notin Publishers(p)'
    BY <1>g, <1>h, <2>1 DEF At
  <2>4. \A r \in Posts : Publishers(r)' \subseteq Publishers(r)
    BY <1>o, <1>g, <1>h, <2>1 DEF At
  <2> QED BY <2>1, <2>2, <2>3, <2>4, HumbleKeeps DEF Sends
<1>7. CASE (\E p \in Posts : CallFails(q, p) \/ CallRefused(q, p)) \/ EndPublish(q)
  <2>1. live' = live /\ run' = run
    BY <1>7 DEF CallFails, CallRefused, EndPublish
  <2>2. Humble(q) /\ req'[q].pc \notin {"publishing", "recording"}
    BY <1>f, <1>7, <2>1, PublishSteps DEF Humble, Holds, Asks, At, Goes
  <2> QED BY <1>1, <2>1, <2>2
<1>8. CASE Record(q)
  <2>1. /\ live' = live /\ run' = run /\ At(q, "recording") /\ Goes(q, "publishing")
        /\ req'[q].todo = req[q].todo
    BY <1>8, PublishSteps DEF Record
  <2>2. Humble(q)
    BY <1>f, <2>1 DEF Humble, Holds, Asks, At, Goes
  <2>3. \A r \in Posts : Publishers(r)' \subseteq Publishers(r)
    BY <1>o, <1>g, <1>h, <2>1 DEF At
  <2> QED BY <2>1, <2>2, <2>3, HumbleKeeps DEF Settles
<1>9. CASE SaveReview(q) \/ LoadRun(q)
  <2>1. live' = live /\ run' = run
    BY <1>9 DEF SaveReview, LoadRun
  <2>2. Humble(q) /\ req'[q].pc \notin {"publishing", "recording"}
    BY <1>f, <1>9, <2>1, DecisionSteps DEF Humble, Holds, Asks, At, Goes
  <2> QED BY <1>1, <2>1, <2>2
<1>10. CASE Approve(q)
  <2>1. At(q, "applying") /\ Goes(q, "publishing") /\ live' = live /\ run' = "publishing"
    BY <1>10, DecisionSteps DEF Approve
  <2>2. q \in Holders
    BY <2>1 DEF Holders, Holds, At
  <2> QED BY <1>2, <2>1, <2>2
<1>11. CASE Revise(q) \/ Reject(q) \/ Cancel(q) \/ RerunFails(q)
  <2>1. live' = live /\ (run' = run \/ run' # "awaiting_review")
    BY <1>11 DEF Revise, Reject, Cancel, RerunFails
  <2>2. Humble(q) /\ req'[q].pc \notin {"publishing", "recording"}
    BY <1>f, <1>11, <2>1, DecisionSteps DEF Humble, Holds, Asks, At, Goes
  <2> QED BY <1>1, <2>1, <2>2
<1>12. CASE Rerun(q)
  <2>1. live' = live /\ At(q, "rerunning") /\ Goes(q, "opening")
    BY <1>12, DecisionSteps DEF Rerun
  <2>2. Humble(q)
    BY <1>f, <2>1 DEF Humble, Holds, Asks, At, Goes
  <2> QED BY <1>1, <2>1, <2>2 DEF Goes
<1>13. CASE Pending(q)
  <2>1. /\ live' = live /\ run' = run /\ At(q, "applying") /\ Goes(q, "closing")
    BY <1>13, DecisionSteps DEF Pending
  <2>2. Humble(q)
    BY <1>f, <2>1 DEF Humble, Holds, Asks, At, Goes
  <2> QED BY <1>1, <2>1, <2>2 DEF Goes
<1> QED
  BY <1>3, <1>4, <1>5, <1>6, <1>7, <1>8, <1>9, <1>10, <1>11, <1>12, <1>13 DEF Step, Resume

\* How many there are, before a step and after it.
LEMMA Numbers ==
  ASSUME TypeOK, IsFiniteSet(BusySet), \A p \in Posts : IsFiniteSet(TasksFor(p))
  PROVE  /\ IsFiniteSet(Askers) /\ Cardinality(Askers) \in Nat
         /\ Cardinality(Askers) = 0 <=> Askers = {}
         /\ overlaps \in Nat /\ errors \in Nat
         /\ \A p \in Posts :
              /\ IsFiniteSet(Publishers(p)) /\ Cardinality(Publishers(p)) \in Nat
              /\ IsFiniteSet(QueuedFor(p)) /\ Cardinality(QueuedFor(p)) \in Nat
              /\ Cardinality(TasksFor(p)) \in Nat /\ live[p] \in Nat
<1>1. Askers \subseteq BusySet
  BY DEF Askers, Asks, Holds, BusySet, Busy
<1>2. \A p \in Posts : Publishers(p) \subseteq BusySet
  BY DEF Publishers, BusySet, Busy
<1>3. \A p \in Posts : QueuedFor(p) \subseteq TasksFor(p)
  BY DEF QueuedFor
<1>4. IsFiniteSet(Askers)
  BY <1>1, FS_Subset
<1>5. ASSUME NEW p \in Posts
      PROVE  IsFiniteSet(Publishers(p)) /\ IsFiniteSet(QueuedFor(p)) /\ IsFiniteSet(TasksFor(p))
  BY <1>2, <1>3, FS_Subset
<1>6. overlaps \in Nat /\ errors \in Nat /\ \A p \in Posts : live[p] \in Nat
  BY DEF TypeOK
<1>7. /\ Cardinality(Askers) \in Nat
      /\ Cardinality(Askers) = 0 <=> Askers = {}
  BY <1>4, FS_CardinalityType, FS_EmptySet
<1>8. ASSUME NEW p \in Posts
      PROVE  /\ Cardinality(Publishers(p)) \in Nat /\ Cardinality(QueuedFor(p)) \in Nat
             /\ Cardinality(TasksFor(p)) \in Nat
  BY <1>5, FS_CardinalityType
<1> QED BY <1>4, <1>5, <1>6, <1>7, <1>8

LEMMA Chance ==
  ASSUME TypeOK, IsFiniteSet(BusySet), \A p \in Posts : IsFiniteSet(TasksFor(p))
  PROVE  Chances \in Nat
BY Numbers DEF Chances

\* A set that one element left or joined.
LEMMA OneLess ==
  ASSUME NEW S, NEW T, NEW q, IsFiniteSet(S)
  PROVE  /\ T \subseteq S => Cardinality(T) <= Cardinality(S)
         /\ q \in S /\ q \notin T /\ T \subseteq S => Cardinality(T) <= Cardinality(S) - 1
         /\ T \subseteq S \cup {q} => IsFiniteSet(T) /\ Cardinality(T) <= Cardinality(S) + 1
<1>n. Cardinality(S) \in Nat
  BY FS_CardinalityType
<1>1. ASSUME T \subseteq S PROVE Cardinality(T) <= Cardinality(S)
  BY <1>1, FS_Subset
<1>2. ASSUME q \in S, q \notin T, T \subseteq S PROVE Cardinality(T) <= Cardinality(S) - 1
  <2>1. IsFiniteSet(S \ {q}) /\ Cardinality(S \ {q}) = Cardinality(S) - 1
    BY <1>2, FS_RemoveElement
  <2>2. T \subseteq S \ {q}
    BY <1>2
  <2>3. Cardinality(T) <= Cardinality(S \ {q})
    BY <2>1, <2>2, FS_Subset
  <2> QED BY <2>1, <2>3
<1>3. ASSUME T \subseteq S \cup {q} PROVE IsFiniteSet(T) /\ Cardinality(T) <= Cardinality(S) + 1
  <2>1. /\ IsFiniteSet(S \cup {q})
        /\ Cardinality(S \cup {q}) = IF q \in S THEN Cardinality(S) ELSE Cardinality(S) + 1
    BY FS_AddElement
  <2>2. IsFiniteSet(T) /\ Cardinality(T) <= Cardinality(S \cup {q})
    BY <1>3, <2>1, FS_Subset
  <2>3. Cardinality(T) \in Nat
    BY <2>2, FS_CardinalityType
  <2> QED BY <1>n, <2>1, <2>2, <2>3
<1> QED BY <1>1, <1>2, <1>3

\* The request's own step, and the one that starts it.
LEMMA RequestLoads ==
  ASSUME TypeOK, TypeOK', Shape, Counted, InlineRunAssumption, NEW q \in Requests, Step(q),
         IsFiniteSet(BusySet'), UNCHANGED <<task, overlaps>>, errors' >= errors,
         NEW p \in Posts
  PROVE  Load(p)' <= 1 + overlaps' + TaskRoom(p)'
<1>n. /\ IsFiniteSet(Askers) /\ Cardinality(Askers) \in Nat
      /\ Cardinality(Askers) = 0 <=> Askers = {}
      /\ overlaps \in Nat /\ errors \in Nat /\ Chances \in Nat
      /\ IsFiniteSet(Publishers(p)) /\ Cardinality(Publishers(p)) \in Nat
      /\ IsFiniteSet(QueuedFor(p)) /\ Cardinality(QueuedFor(p)) \in Nat
      /\ Cardinality(TasksFor(p)) \in Nat /\ live[p] \in Nat
  BY Numbers, Chance DEF Counted
<1>t. /\ \A r \in Posts : TasksFor(r)' = TasksFor(r)
      /\ \A r \in Posts : QueuedFor(r)' = QueuedFor(r)
  BY DEF TasksFor, QueuedFor
<1>m. /\ IsFiniteSet(Askers') /\ Cardinality(Askers') \in Nat
      /\ Cardinality(Askers') = 0 <=> Askers' = {}
      /\ errors' \in Nat
      /\ IsFiniteSet(Publishers(p)') /\ Cardinality(Publishers(p)') \in Nat
      /\ live'[p] \in Nat
  <2>1. Askers' \subseteq BusySet' /\ Publishers(p)' \subseteq BusySet'
    BY DEF Askers, Asks, Holds, BusySet, Busy, Publishers
  <2>2. IsFiniteSet(Askers') /\ IsFiniteSet(Publishers(p)')
    BY <2>1, FS_Subset
  <2>3. /\ Cardinality(Askers') \in Nat /\ Cardinality(Publishers(p)') \in Nat
        /\ Cardinality(Askers') = 0 <=> Askers' = {}
    BY <2>2, FS_CardinalityType, FS_EmptySet
  <2>4. errors' \in Nat /\ live'[p] \in Nat
    BY DEF TypeOK
  <2> QED BY <2>2, <2>3, <2>4
<1>l. Load(p) <= 1 + overlaps + TaskRoom(p)
  BY DEF Counted
<1>r. TaskRoom(p) \in Nat /\ TaskRoom(p)' \in Nat /\ TaskRoom(p)' >= TaskRoom(p)
  BY <1>n, <1>t, <1>m DEF TaskRoom
<1>c. Chances' \in Nat
  BY <1>m DEF Chances
\* It is enough that what may still go out does not grow.
<1>w. ASSUME live'[p] + (Chances' + Cardinality(Publishers(p)'))
               <= live[p] + (Chances + Cardinality(Publishers(p)))
      PROVE  Load(p)' <= 1 + overlaps' + TaskRoom(p)'
  <2>1. \A a, b, x, y, z, k \in Nat :
          a <= b /\ b + x <= 1 + k + y /\ y <= z => a + x <= 1 + k + z
    OBVIOUS
  <2>2. Load(p) = (live[p] + (Chances + Cardinality(Publishers(p)))) + Cardinality(QueuedFor(p))
    BY DEF Load
  <2>3. Load(p)' = (live'[p] + (Chances' + Cardinality(Publishers(p)'))) + Cardinality(QueuedFor(p))
    BY <1>t DEF Load
  <2>4. /\ live'[p] + (Chances' + Cardinality(Publishers(p)')) \in Nat
        /\ live[p] + (Chances + Cardinality(Publishers(p))) \in Nat
    BY <1>n, <1>m, <1>c
  <2> HIDE DEF Counted
  <2> QED BY <1>n, <1>l, <1>r, <1>w, <2>1, <2>2, <2>3, <2>4
<1>1. CASE Settles
  <2>1. Cardinality(Askers') <= Cardinality(Askers)
    BY <1>n, <1>1, FS_Subset DEF Settles
  <2>2. Cardinality(Publishers(p)') <= Cardinality(Publishers(p))
    BY <1>n, <1>1, FS_Subset DEF Settles
  <2>3. Chances' <= Chances
    BY <1>n, <1>m, <1>1, <2>1 DEF Chances, Settles
  <2>4. live'[p] = live[p]
    BY <1>1 DEF Settles
  <2> QED BY <1>n, <1>m, <1>c, <1>w, <2>2, <2>3, <2>4
<1>2. CASE Starts(q)
  <2>1. Cardinality(Askers') <= Cardinality(Askers) - 1
    BY <1>n, <1>2, OneLess DEF Starts
  <2>2. Cardinality(Publishers(p)') <= Cardinality(Publishers(p)) + 1
    BY <1>n, <1>2, OneLess DEF Starts
  <2>3. Chances' <= Chances - 1
    BY <1>n, <1>m, <1>2, <2>1 DEF Chances, Starts
  <2>4. live'[p] = live[p]
    BY <1>2 DEF Starts
  <2> QED BY <1>n, <1>m, <1>c, <1>w, <2>2, <2>3, <2>4
<1>3. ASSUME NEW s \in Posts, Sends(q, s) PROVE Load(p)' <= 1 + overlaps' + TaskRoom(p)'
  <2>1. Cardinality(Askers') <= Cardinality(Askers)
    BY <1>n, <1>3, FS_Subset DEF Sends
  <2>2. Chances' <= Chances
    BY <1>n, <1>m, <1>3, <2>1 DEF Chances, Sends
  <2>3. CASE p = s
    <3>1. Cardinality(Publishers(p)') <= Cardinality(Publishers(p)) - 1
      BY <1>n, <1>3, <2>3, OneLess DEF Sends
    <3>2. live'[p] = live[p] + 1
      BY <1>3, <2>3 DEF Sends, TypeOK
    <3> QED BY <1>n, <1>m, <1>c, <1>w, <2>2, <3>1, <3>2
  <2>4. CASE p # s
    <3>1. Cardinality(Publishers(p)') <= Cardinality(Publishers(p))
      BY <1>n, <1>3, FS_Subset DEF Sends
    <3>2. live'[p] = live[p]
      BY <1>3, <2>4 DEF Sends, TypeOK
    <3> QED BY <1>n, <1>m, <1>c, <1>w, <2>2, <3>1, <3>2
  <2> QED BY <2>3, <2>4
<1> QED BY <1>1, <1>2, <1>3, Kinds

\* A request that starts while others are in flight is one more overlap.
LEMMA ReceiveLoads ==
  ASSUME TypeOK, TypeOK', Shape, Counted, InlineRunAssumption, NEW q \in Requests, Receive(q)
  PROVE  /\ IsFiniteSet(BusySet')
         /\ \A p \in Posts : Load(p)' <= 1 + overlaps' + TaskRoom(p)'
<1>1. PICK b \in Batches, by \in Deciders \cup {None}, r \in Session,
           pc \in {"deciding", "resuming"} : Begin(q, b, by, r, pc)
  BY Receives
<1>2. Frame(q) /\ At(q, "idle") /\ Goes(q, pc)
  BY <1>1, DecisionSteps
<1>3. UNCHANGED <<run, task, live, errors>>
  BY <1>1 DEF Begin
<1>4. /\ Askers' \ {q} = Askers \ {q} /\ Holders' \ {q} = Holders \ {q}
      /\ BusySet' \ {q} = BusySet \ {q}
      /\ \A p \in Posts : Publishers(p)' \ {q} = Publishers(p) \ {q}
  BY <1>2, Others
<1>5. /\ q \notin Askers /\ q \notin Holders /\ \A p \in Posts : q \notin Publishers(p)
  BY <1>2 DEF Askers, Asks, Holders, Holds, Publishers, At
<1>6. /\ q \in Askers' /\ q \notin Holders' /\ \A p \in Posts : q \notin Publishers(p)'
  BY <1>2 DEF Askers, Asks, Holders, Holds, Publishers, Goes
<1>7. /\ Askers' = Askers \cup {q} /\ (Hope' <=> Hope)
      /\ \A p \in Posts : Publishers(p)' = Publishers(p)
  <2>1. Askers' = Askers \cup {q} /\ Holders' = Holders
    BY <1>4, <1>5, <1>6
  <2>2. ASSUME NEW p \in Posts PROVE Publishers(p)' = Publishers(p)
    <3>1. Publishers(p)' \ {q} = Publishers(p) \ {q}
      BY <1>4
    <3>2. q \notin Publishers(p) /\ q \notin Publishers(p)'
      BY <1>5, <1>6
    <3> QED BY <3>1, <3>2
  <2> QED BY <1>3, <2>1, <2>2 DEF Hope
<1>8. IsFiniteSet(BusySet')
  <2>1. IsFiniteSet(BusySet)
    BY DEF Counted
  <2> QED BY <1>4, <2>1, OneLess
<1>9. ASSUME NEW p \in Posts PROVE Load(p)' <= 1 + overlaps' + TaskRoom(p)'
  <2>n. /\ IsFiniteSet(Askers) /\ Cardinality(Askers) \in Nat
        /\ Cardinality(Askers) = 0 <=> Askers = {}
        /\ overlaps \in Nat /\ errors \in Nat /\ Chances \in Nat
        /\ Cardinality(Publishers(p)) \in Nat /\ Cardinality(QueuedFor(p)) \in Nat
        /\ Cardinality(TasksFor(p)) \in Nat /\ live[p] \in Nat
    BY Numbers, Chance DEF Counted
  <2>1. Cardinality(Askers') = Cardinality(Askers) + 1
    BY <1>5, <1>7, <2>n, FS_AddElement
  <2>2. TaskRoom(p)' = TaskRoom(p) /\ TaskRoom(p) \in Nat
    BY <1>3, <2>n DEF TaskRoom, TasksFor
  <2>3. QueuedFor(p)' = QueuedFor(p)
    BY <1>3 DEF QueuedFor, TasksFor
  <2>4. Load(p)' = (live[p] + (Chances' + Cardinality(Publishers(p)))) + Cardinality(QueuedFor(p))
    BY <1>3, <1>7, <2>3 DEF Load
  <2>5. Load(p) = (live[p] + (Chances + Cardinality(Publishers(p)))) + Cardinality(QueuedFor(p))
    BY DEF Load
  <2>6. Load(p) <= 1 + overlaps + TaskRoom(p)
    BY DEF Counted
  <2>7. /\ overlaps' \in Nat
        /\ \/ Chances' <= Chances /\ overlaps' >= overlaps
           \/ Chances' <= Chances + 1 /\ overlaps' = overlaps + 1
    <3>0. Askers' # {}
      BY <1>6
    <3>1. CASE Askers = {}
      <4>1. overlaps' = overlaps \/ overlaps' = overlaps + 1
        BY <1>1 DEF Begin
      <4>2. Chances' = Chances
        BY <1>7, <2>n, <2>1, <3>0, <3>1 DEF Chances
      <4> QED BY <2>n, <4>1, <4>2
    <3>2. CASE Askers # {}
      <4>1. \E other \in Requests : Busy(other)
        BY <3>2 DEF Askers, Asks, Holds, Busy
      <4>2. overlaps' = overlaps + 1
        BY <1>1, <4>1 DEF Begin
      <4>3. Chances' <= Chances + 1
        BY <1>7, <2>n, <2>1, <3>0, <3>2 DEF Chances
      <4> QED BY <2>n, <4>2, <4>3
    <3> QED BY <3>1, <3>2
  <2>8. Chances' \in Nat
    BY <1>7, <2>n, <2>1 DEF Chances
  <2> QED BY <2>n, <2>2, <2>4, <2>5, <2>6, <2>7, <2>8
<1> QED BY <1>8, <1>9

\* Tasks that an editor queues, that send, and that fail.
LEMMA TaskLoads ==
  ASSUME TypeOK, TypeOK', Shape, Counted, InlineRunAssumption, Elsewhere, NEW p \in Posts
  PROVE  IsFiniteSet(TasksFor(p)') /\ Load(p)' <= 1 + overlaps' + TaskRoom(p)'
<1>k. run' = run /\ req' = req /\ overlaps' = overlaps
  BY ElsewhereKeeps
<1>n. /\ IsFiniteSet(TasksFor(p)) /\ IsFiniteSet(QueuedFor(p))
      /\ overlaps \in Nat /\ errors \in Nat /\ Chances \in Nat
      /\ Cardinality(Publishers(p)) \in Nat /\ Cardinality(QueuedFor(p)) \in Nat
      /\ Cardinality(TasksFor(p)) \in Nat /\ live[p] \in Nat
  BY Numbers, Chance DEF Counted
<1>c. Chances' = Chances /\ Publishers(p)' = Publishers(p)
  BY <1>k DEF Chances, Hope, Askers, Holders, Publishers
<1>l. Load(p) <= 1 + overlaps + TaskRoom(p)
  BY DEF Counted
<1>r. TaskRoom(p) \in Nat /\ errors' \in Nat /\ live'[p] \in Nat
  BY <1>n DEF TaskRoom, TypeOK
<1>w. ASSUME IsFiniteSet(QueuedFor(p)'), IsFiniteSet(TasksFor(p)'), NEW d \in Nat,
             live'[p] + Cardinality(QueuedFor(p)') <= live[p] + Cardinality(QueuedFor(p)) + d,
             TaskRoom(p)' >= TaskRoom(p) + d
      PROVE  Load(p)' <= 1 + overlaps' + TaskRoom(p)'
  <2>1. \A a, b, x, y, u, v, s, k, z \in Nat :
           /\ a + x <= b + y + d /\ s + d <= z /\ (b + (u + v)) + y <= 1 + k + s
           => (a + (u + v)) + x <= 1 + k + z
    OBVIOUS
  <2>2. Cardinality(QueuedFor(p)') \in Nat /\ Cardinality(TasksFor(p)') \in Nat
    BY <1>w, FS_CardinalityType
  <2>3. TaskRoom(p)' \in Nat
    BY <1>r, <2>2 DEF TaskRoom
  <2>4. Load(p) = (live[p] + (Chances + Cardinality(Publishers(p)))) + Cardinality(QueuedFor(p))
    BY DEF Load
  <2>5. Load(p)' = (live'[p] + (Chances + Cardinality(Publishers(p)))) + Cardinality(QueuedFor(p)')
    BY <1>c DEF Load
  <2> QED BY <1>k, <1>n, <1>l, <1>r, <1>w, <2>1, <2>2, <2>3, <2>4, <2>5
<1>t. \A t \in Tasks : /\ (task[t].pc = "free") <=> (task[t].post = None)
                       /\ task[t].post \in Posts \cup {None}
                       /\ task[t] \in [pc : {"free", "queued", "recording", "dead", "done"},
                                       post : Posts \cup {None}]
  BY DEF Shape, TypeOK
<1>T. task \in [Tasks -> [pc : {"free", "queued", "recording", "dead", "done"},
                          post : Posts \cup {None}]]
  BY DEF TypeOK
<1>1. CASE \E x \in Posts : ApprovePost(x)
  <2>1. live' = live /\ task' = task /\ errors' = errors
    BY <1>1 DEF ApprovePost
  <2>2. QueuedFor(p)' = QueuedFor(p) /\ TasksFor(p)' = TasksFor(p) /\ TaskRoom(p)' = TaskRoom(p)
    BY <2>1 DEF QueuedFor, TasksFor, TaskRoom
  <2>3. live'[p] + Cardinality(QueuedFor(p)') <= live[p] + Cardinality(QueuedFor(p)) + 0
    BY <1>n, <2>1, <2>2
  <2>4. TaskRoom(p)' >= TaskRoom(p) + 0
    BY <1>r, <2>2
  <2> QED BY <1>n, <1>w, <2>2, <2>3, <2>4
<1>2. ASSUME NEW t \in Tasks, NEW x \in Posts, PublishNow(t, x) \/ Republish(t, x)
      PROVE  IsFiniteSet(TasksFor(p)') /\ Load(p)' <= 1 + overlaps' + TaskRoom(p)'
  <2>1. /\ live' = live /\ errors' = errors /\ task[t].pc = "free"
        /\ task' = [task EXCEPT ![t] = [pc |-> "queued", post |-> x]]
    BY <1>2 DEF PublishNow, Republish, Queue
  <2>2. task[t].post = None
    BY <1>t, <2>1
  <2>3. task'[t] = [pc |-> "queued", post |-> x] /\ \A u \in Tasks \ {t} : task'[u] = task[u]
    BY <1>T, <2>1
  <2>4. CASE p = x
    <3>1. TasksFor(p)' = TasksFor(p) \cup {t} /\ t \notin TasksFor(p)
      BY <2>2, <2>3, <2>4 DEF TasksFor, InlineRunAssumption
    <3>2. QueuedFor(p)' = QueuedFor(p) \cup {t} /\ t \notin QueuedFor(p)
      BY <2>3, <3>1 DEF QueuedFor, TasksFor
    <3>3. /\ IsFiniteSet(TasksFor(p)') /\ Cardinality(TasksFor(p)') = Cardinality(TasksFor(p)) + 1
          /\ IsFiniteSet(QueuedFor(p)') /\ Cardinality(QueuedFor(p)') = Cardinality(QueuedFor(p)) + 1
      BY <1>n, <3>1, <3>2, FS_AddElement
    <3>4. TasksFor(p)' # {}
      BY <3>1
    <3>5. TaskRoom(p)' = Cardinality(TasksFor(p)') + errors
      BY <2>1, <3>4 DEF TaskRoom
    <3>6. TaskRoom(p) <= Cardinality(TasksFor(p)) + errors
      BY <1>n DEF TaskRoom
    <3>7. TaskRoom(p)' >= TaskRoom(p) + 1
      BY <1>n, <1>r, <3>3, <3>5, <3>6
    <3>8. live'[p] + Cardinality(QueuedFor(p)') <= live[p] + Cardinality(QueuedFor(p)) + 1
      BY <1>n, <2>1, <3>3
    <3> QED BY <1>w, <3>3, <3>7, <3>8
  <2>5. CASE p # x
    <3>1. TasksFor(p)' = TasksFor(p)
      BY <2>2, <2>3, <2>5 DEF TasksFor, InlineRunAssumption
    <3>2. QueuedFor(p)' = QueuedFor(p) /\ TaskRoom(p)' = TaskRoom(p)
      <4>1. t \notin TasksFor(p)
        BY <2>2 DEF TasksFor, InlineRunAssumption
      <4> QED BY <2>1, <2>3, <3>1, <4>1 DEF QueuedFor, TaskRoom
    <3>3. live'[p] + Cardinality(QueuedFor(p)') <= live[p] + Cardinality(QueuedFor(p)) + 0
      BY <1>n, <2>1, <3>2
    <3>4. TaskRoom(p)' >= TaskRoom(p) + 0
      BY <1>r, <3>2
    <3> QED BY <1>n, <1>w, <3>1, <3>2, <3>3, <3>4
  <2> QED BY <2>4, <2>5
<1>3. ASSUME NEW t \in Tasks, Worker(t)
      PROVE  IsFiniteSet(TasksFor(p)') /\ Load(p)' <= 1 + overlaps' + TaskRoom(p)'
  <2>1. PICK pc : task' = [task EXCEPT ![t].pc = pc]
    BY <1>3 DEF Worker, TaskCall, TaskRecord, TaskFails, DeadLetter, TaskRedelivered
  <2>2. /\ task'[t].post = task[t].post /\ task'[t].pc = pc
        /\ \A u \in Tasks \ {t} : task'[u] = task[u]
    BY <1>T, <2>1
  <2>3. TasksFor(p)' = TasksFor(p)
    BY <2>2 DEF TasksFor
  <2>4. QueuedFor(p)' \subseteq QueuedFor(p) \cup {t}
    BY <2>2, <2>3 DEF QueuedFor, TasksFor
  <2>5. IsFiniteSet(QueuedFor(p)') /\ Cardinality(QueuedFor(p)') <= Cardinality(QueuedFor(p)) + 1
    BY <1>n, <2>4, OneLess
  <2>6. Cardinality(QueuedFor(p)') \in Nat
    BY <2>5, FS_CardinalityType
  <2>7. CASE TaskCall(t)
    <3>1. /\ pc = "recording" /\ errors' = errors /\ task[t].pc = "queued"
          /\ live' = [live EXCEPT ![task[t].post] = @ + 1]
      <4>1. task' = [task EXCEPT ![t].pc = "recording"]
        BY <2>7 DEF TaskCall
      <4>2. task'[t].pc = "recording"
        BY <1>T, <4>1
      <4> QED BY <2>2, <2>7, <4>2 DEF TaskCall
    <3>2. task[t].post \in Posts
      BY <1>t, <3>1
    <3>3. TaskRoom(p)' >= TaskRoom(p) + 0
      BY <1>r, <2>3, <3>1 DEF TaskRoom
    <3>4. QueuedFor(p)' \subseteq QueuedFor(p) /\ t \notin QueuedFor(p)'
      BY <2>2, <2>4, <3>1 DEF QueuedFor
    <3>5. live'[p] + Cardinality(QueuedFor(p)') <= live[p] + Cardinality(QueuedFor(p)) + 0
      <4>1. CASE p = task[t].post
        <5>1. t \in QueuedFor(p)
          BY <3>1, <4>1 DEF QueuedFor, TasksFor
        <5>2. Cardinality(QueuedFor(p)') <= Cardinality(QueuedFor(p)) - 1
          BY <1>n, <3>4, <5>1, OneLess
        <5>3. live'[p] = live[p] + 1
          BY <3>1, <4>1 DEF TypeOK
        <5> QED BY <1>n, <2>6, <5>2, <5>3
      <4>2. CASE p # task[t].post
        <5>1. Cardinality(QueuedFor(p)') <= Cardinality(QueuedFor(p))
          BY <1>n, <3>4, FS_Subset
        <5>2. live'[p] = live[p]
          BY <3>1, <3>2, <4>2 DEF TypeOK
        <5> QED BY <1>n, <2>6, <5>1, <5>2
      <4> QED BY <4>1, <4>2
    <3> QED BY <1>n, <1>w, <2>3, <2>5, <3>3, <3>5
  <2>8. CASE TaskRecord(t) \/ DeadLetter(t)
    <3>1. pc = "done" /\ live' = live /\ errors' = errors
      <4>1. task' = [task EXCEPT ![t].pc = "done"] /\ live' = live /\ errors' = errors
        BY <2>8 DEF TaskRecord, DeadLetter
      <4>2. task'[t].pc = "done"
        BY <1>T, <4>1
      <4> QED BY <2>2, <4>1, <4>2
    <3>2. QueuedFor(p)' \subseteq QueuedFor(p)
      BY <2>2, <2>4, <3>1 DEF QueuedFor
    <3>3. Cardinality(QueuedFor(p)') <= Cardinality(QueuedFor(p))
      BY <1>n, <3>2, FS_Subset
    <3>4. live'[p] + Cardinality(QueuedFor(p)') <= live[p] + Cardinality(QueuedFor(p)) + 0
      BY <1>n, <2>6, <3>1, <3>3
    <3>5. TaskRoom(p)' >= TaskRoom(p) + 0
      BY <1>r, <2>3, <3>1 DEF TaskRoom
    <3> QED BY <1>n, <1>w, <2>3, <2>5, <3>4, <3>5
  <2>9. CASE TaskFails(t) \/ TaskRedelivered(t)
    <3>1. live' = live /\ errors' = errors + 1
      BY <2>9 DEF TaskFails, TaskRedelivered, Err
    <3>2. CASE t \in TasksFor(p)
      <4>1. TaskRoom(p)' = TaskRoom(p) + 1
        <5>1. TasksFor(p) # {}
          BY <3>2
        <5> QED BY <1>n, <2>3, <3>1, <5>1 DEF TaskRoom
      <4>2. TaskRoom(p)' >= TaskRoom(p) + 1
        BY <1>r, <4>1
      <4>3. live'[p] + Cardinality(QueuedFor(p)') <= live[p] + Cardinality(QueuedFor(p)) + 1
        BY <1>n, <2>5, <2>6, <3>1
      <4> QED BY <1>n, <1>w, <2>3, <2>5, <4>2, <4>3
    <3>3. CASE t \notin TasksFor(p)
      <4>1. QueuedFor(p)' \subseteq QueuedFor(p)
        BY <2>3, <2>4, <3>3 DEF QueuedFor
      <4>2. Cardinality(QueuedFor(p)') <= Cardinality(QueuedFor(p))
        BY <1>n, <4>1, FS_Subset
      <4>3. live'[p] + Cardinality(QueuedFor(p)') <= live[p] + Cardinality(QueuedFor(p)) + 0
        BY <1>n, <2>6, <3>1, <4>2
      <4>4. TaskRoom(p)' >= TaskRoom(p) + 0
        BY <1>n, <1>r, <2>3, <3>1 DEF TaskRoom
      <4> QED BY <1>n, <1>w, <2>3, <2>5, <4>3, <4>4
    <3> QED BY <3>2, <3>3
  <2> QED BY <1>3, <2>7, <2>8, <2>9 DEF Worker
<1> QED BY <1>1, <1>2, <1>3 DEF Elsewhere

LEMMA CountedStep ==
  ASSUME TypeOK, Shape, Counted, InlineRunAssumption, [Next]_vars PROVE Counted'
<1>t. TypeOK'
  BY TypeStep
<1>1. ASSUME NEW q \in Requests, Receive(q) PROVE Counted'
  <2>1. task' = task
    BY <1>1, RequestKeeps
  <2>2. \A p \in Posts : IsFiniteSet(TasksFor(p)')
    BY <2>1 DEF Counted, TasksFor
  <2>3. /\ IsFiniteSet(BusySet')
        /\ \A p \in Posts : Load(p)' <= 1 + overlaps' + TaskRoom(p)'
    BY <1>1, <1>t, ReceiveLoads
  <2> QED BY <2>2, <2>3 DEF Counted
<1>2. ASSUME NEW q \in Requests, Step(q) PROVE Counted'
  <2>1. task' = task
    BY <1>2, RequestKeeps
  <2>2. \A p \in Posts : IsFiniteSet(TasksFor(p)')
    BY <2>1 DEF Counted, TasksFor
  <2>3. overlaps' = overlaps /\ (errors' = errors \/ Err)
    BY <1>2 DEF Step, Execute, ExecuteFails, Fail, Open, SaveRef, Close, Call, CallFails,
       CallRefused, Record, EndPublish, SaveReview, Resume, LoadRun, Approve, Revise, Reject,
       Pending, Rerun, RerunFails, Cancel
  <2>4. errors' >= errors
    BY <2>3 DEF Err, TypeOK
  <2>5. IsFiniteSet(BusySet')
    <3>1. BusySet' \subseteq BusySet \cup {q}
      BY <1>2, Frames, Others
    <3>2. IsFiniteSet(BusySet)
      BY DEF Counted
    <3> QED BY <3>1, <3>2, OneLess
  <2>6. \A p \in Posts : Load(p)' <= 1 + overlaps' + TaskRoom(p)'
    BY <1>2, <1>t, <2>1, <2>3, <2>4, <2>5, RequestLoads
  <2> QED BY <2>2, <2>5, <2>6 DEF Counted
<1>3. CASE Elsewhere
  <2>1. BusySet' = BusySet
    BY <1>3, ElsewhereKeeps DEF BusySet, Busy
  <2>2. IsFiniteSet(BusySet')
    BY <2>1 DEF Counted
  <2> QED BY <1>3, <1>t, <2>2, TaskLoads DEF Counted
<1>4. CASE UNCHANGED vars
  BY <1>4 DEF vars, Counted, Load, TaskRoom, TasksFor, QueuedFor, BusySet, Busy, Chances, Hope,
     Holders, Askers, Publishers
<1> QED BY <1>1, <1>2, <1>3, <1>4 DEF Next, Elsewhere

-----------------------------------------------------------------------------
(* While no two requests overlap.                                          *)

\* On an ended run a request only decides, or finds that it may not go on; the steps
\* that end it leave an item that is free or has a post that may still go out.
LEMMA EndedSteps ==
  ASSUME TypeOK, Shape, InlineRunAssumption, NEW q \in Requests, Receive(q) \/ Step(q)
  PROVE  /\ req[q].pc \in {"idle", "deciding", "resuming"} /\ Ended =>
              /\ UNCHANGED <<run, post, item, live>>
              /\ req'[q].pc \in {"idle", "deciding", "resuming"}
         /\ req[q].pc \notin {"idle", "deciding", "resuming"} =>
              \/ run' = run
              \/ run' \notin {"failed", "cancelled"}
              \/ Goes(q, "idle") /\ post' = post /\ item' = Released(item, post)
<1>1. CASE Receive(q)
  <2>1. PICK b \in Batches, by \in Deciders \cup {None}, r \in Session,
             pc \in {"deciding", "resuming"} : Begin(q, b, by, r, pc)
    BY <1>1, Receives
  <2>2. At(q, "idle") /\ Goes(q, pc)
    BY <2>1, DecisionSteps
  <2> QED BY <2>1, <2>2 DEF Begin, At, Goes
<1>2. CASE Step(q)
  <2>1. CASE \/ Execute(q) \/ ExecuteFails(q) \/ Open(q) \/ SaveRef(q) \/ Rerun(q) \/ RerunFails(q)
             \/ Record(q) \/ EndPublish(q)
             \/ \E p \in Posts : Call(q, p) \/ CallFails(q, p) \/ CallRefused(q, p)
    BY <2>1 DEF Execute, ExecuteFails, Open, SaveRef, Rerun, RerunFails, Record, EndPublish,
       Call, CallFails, CallRefused
  <2>2. CASE Fail(q) \/ Cancel(q)
    BY <2>2, RunSteps, DecisionSteps DEF Fail, Cancel, At
  <2>3. CASE Close(q)
    BY <2>3 DEF Close, Shape, ShapeOf
  <2>4. CASE SaveReview(q)
    BY <2>4, DecisionSteps DEF SaveReview, Goes
  <2>5. CASE LoadRun(q)
    <3>1. At(q, "resuming") /\ UNCHANGED <<run, post, item, live>>
      BY <2>5, DecisionSteps DEF LoadRun
    <3>2. Goes(q, "idle") \/ run = "awaiting_review"
      BY <2>5, DecisionSteps
    <3> QED BY <3>1, <3>2 DEF At, Goes, Ended
  <2>6. CASE Approve(q) \/ Revise(q) \/ Reject(q) \/ Pending(q)
    BY <2>6 DEF Approve, Revise, Reject, Pending, Applies
  <2> QED BY <1>2, <2>1, <2>2, <2>3, <2>4, <2>5, <2>6 DEF Step, Resume
<1> QED BY <1>1, <1>2

LEMMA ReleasedKeeps ==
  ASSUME TypeOK, item' = Released(item, post), post' = post PROVE Kept'
<1>1. item.link \in Posts \cup {None}
  BY DEF TypeOK
<1>2. CASE item.link = None \/ post[item.link] \in {"absent", "failed"}
  BY <1>2 DEF Released, Kept
<1>3. CASE ~(item.link = None \/ post[item.link] \in {"absent", "failed"})
  BY <1>1, <1>3 DEF Released, Kept
<1> QED BY <1>2, <1>3

LEMMA CalmStep ==
  ASSUME TypeOK, Shape, Calm, InlineRunAssumption, [Next]_vars PROVE Calm'
<1>1. ASSUME NEW q \in Requests, Receive(q) \/ Step(q), overlaps' = 0
      PROVE  /\ \A x, y \in Requests : Busy(x)' /\ Busy(y)' => x = y
             /\ Ended' => \A x \in Requests : req'[x].pc \in {"idle", "deciding", "resuming"}
             /\ Ended' /\ (\A t \in Tasks : task'[t].pc = "free") => Kept'
  <2>1. overlaps = 0 /\ \A x \in Requests \ {q} : ~Busy(x)
    <3>1. CASE Receive(q)
      <4>1. PICK b \in Batches, by \in Deciders \cup {None}, r \in Session,
                 pc \in {"deciding", "resuming"} : Begin(q, b, by, r, pc)
        BY <3>1, Receives
      <4>2. overlaps \in Nat
        BY DEF TypeOK
      <4> QED BY <1>1, <4>1, <4>2 DEF Begin
    <3>2. CASE Step(q)
      <4>1. overlaps' = overlaps
        BY <3>2 DEF Step, Execute, ExecuteFails, Fail, Open, SaveRef, Close, Call, CallFails,
           CallRefused, Record, EndPublish, SaveReview, Resume, LoadRun, Approve, Revise,
           Reject, Pending, Rerun, RerunFails, Cancel
      <4>2. Busy(q)
        BY <3>2 DEF Busy, Step, Execute, ExecuteFails, Fail, Open, SaveRef, Close, Call,
           CallFails, CallRefused, Record, EndPublish, SaveReview, Resume, LoadRun, Approve,
           Applies, Revise, Reject, Pending, Rerun, RerunFails, Cancel
      <4> QED BY <1>1, <4>1, <4>2 DEF Calm
    <3> QED BY <1>1, <3>1, <3>2
  <2>2. \A x \in Requests \ {q} : req'[x] = req[x] /\ req[x].pc = "idle"
    BY <1>1, <2>1, Frames DEF Frame, Busy
  <2>3. \A x, y \in Requests : Busy(x)' /\ Busy(y)' => x = y
    BY <2>2 DEF Busy
  <2>4. task' = task
    BY <1>1, RequestKeeps
  <2>5. CASE req[q].pc \in {"idle", "deciding", "resuming"}
    <3>1. CASE Ended
      <4>1. UNCHANGED <<run, post, item, live>> /\ req'[q].pc \in {"idle", "deciding", "resuming"}
        BY <1>1, <2>5, <3>1, EndedSteps
      <4>2. (\A t \in Tasks : task[t].pc = "free") => Kept
        BY <2>1, <3>1 DEF Calm
      <4> QED BY <2>2, <2>3, <2>4, <4>1, <4>2 DEF Kept
    <3>2. CASE ~Ended
      <4>1. run' = run
        <5>1. CASE Receive(q)
          BY <5>1 DEF Receive, DecideByApi, Reply, ReplyUnknown, Begin
        <5>2. CASE Step(q)
          BY <2>5, <5>2 DEF Step, Execute, ExecuteFails, Fail, Open, SaveRef, Close, Call,
             CallFails, CallRefused, Record, EndPublish, SaveReview, Resume, LoadRun, Approve,
             Applies, Revise, Reject, Pending, Rerun, RerunFails, Cancel
        <5> QED BY <1>1, <5>1, <5>2
      <4> QED BY <2>3, <3>2, <4>1 DEF Ended
    <3> QED BY <3>1, <3>2
  <2>6. CASE req[q].pc \notin {"idle", "deciding", "resuming"}
    <3>1. ~Ended
      BY <2>1, <2>6 DEF Calm
    <3>2. \/ run' = run
          \/ run' \notin {"failed", "cancelled"}
          \/ Goes(q, "idle") /\ post' = post /\ item' = Released(item, post)
      BY <1>1, <2>6, EndedSteps
    <3>3. CASE Goes(q, "idle") /\ post' = post /\ item' = Released(item, post)
      <4>1. Kept'
        BY <3>3, ReleasedKeeps
      <4>2. \A x \in Requests : req'[x].pc \in {"idle", "deciding", "resuming"}
        BY <2>2, <3>3 DEF Goes
      <4> QED BY <2>3, <4>1, <4>2
    <3>4. CASE run' = run \/ run' \notin {"failed", "cancelled"}
      BY <2>3, <3>1, <3>4 DEF Ended
    <3> QED BY <3>2, <3>3, <3>4
  <2> QED BY <2>5, <2>6
<1>2. CASE Elsewhere
  <2>1. UNCHANGED <<run, session, item, req, approvals, overlaps>>
    BY <1>2, ElsewhereKeeps
  <2>2. ASSUME Ended, Kept, \A t \in Tasks : task[t].pc = "free", \A t \in Tasks : task'[t].pc = "free"
        PROVE  Kept'
    <3>0. task \in [Tasks -> [pc : {"free", "queued", "recording", "dead", "done"},
                              post : Posts \cup {None}]]
      BY DEF TypeOK
    <3>1. \E p \in Posts : ApprovePost(p)
      <4>1. \A t \in Tasks, p \in Posts : ~PublishNow(t, p) /\ ~Republish(t, p)
        BY <2>2, <3>0 DEF PublishNow, Republish, Queue
      <4>2. \A t \in Tasks : ~Worker(t)
        BY <2>2 DEF Worker, TaskCall, TaskRecord, TaskFails, DeadLetter, TaskRedelivered
      <4> QED BY <1>2, <4>1, <4>2 DEF Elsewhere
    <3>2. PICK p \in Posts : post' = [post EXCEPT ![p] = "approved"]
      BY <3>1 DEF ApprovePost
    <3>3. \A x \in Posts : post'[x] = post[x] \/ post'[x] = "approved"
      BY <3>2 DEF TypeOK
    <3> QED BY <2>1, <2>2, <3>3 DEF Kept
  <2>3. (\A t \in Tasks : task'[t].pc = "free") => \A t \in Tasks : task[t].pc = "free"
    <3>0. task \in [Tasks -> [pc : {"free", "queued", "recording", "dead", "done"},
                              post : Posts \cup {None}]]
      BY DEF TypeOK
    <3>1. \/ task' = task
          \/ \E t \in Tasks : task'[t].pc # "free"
      BY <1>2, <3>0 DEF Elsewhere, ApprovePost, PublishNow, Republish, Queue, Worker, TaskCall,
         TaskRecord, TaskFails, DeadLetter, TaskRedelivered
    <3> QED BY <3>1
  <2> QED BY <2>1, <2>2, <2>3 DEF Calm, Busy, Ended
<1>3. CASE UNCHANGED vars
  BY <1>3 DEF vars, Calm, Busy, Ended, Kept
<1> QED
  <2>1. ASSUME overlaps' = 0, NEW q \in Requests, Receive(q) \/ Step(q) PROVE Calm'
    BY <1>1, <2>1 DEF Calm
  <2>2. ASSUME overlaps' # 0 PROVE Calm'
    BY <2>2 DEF Calm
  <2> QED BY <1>2, <1>3, <2>1, <2>2 DEF Next, Elsewhere

-----------------------------------------------------------------------------
(* The theorems.                                                           *)

LEMMA Start == ASSUME InlineRunAssumption, Init PROVE IInv
<1>1. PICK q \in Requests :
         req = [r \in Requests |-> [Idle EXCEPT !.pc = IF r = q THEN "executing" ELSE @]]
  BY DEF Init
<1>2. \A r \in Requests : req[r] = [Idle EXCEPT !.pc = IF r = q THEN "executing" ELSE "idle"]
  BY <1>1, IdleType
<1>3. \A r \in Requests : req[r] \in ReqRecord /\ req[r].pc = IF r = q THEN "executing" ELSE "idle"
  <2>1. Idle \in ReqRecord /\ {"executing", "idle"} \subseteq Pcs
    BY IdleType DEF Pcs
  <2>2. \A pc \in Pcs : /\ [Idle EXCEPT !.pc = pc] \in ReqRecord
                        /\ [Idle EXCEPT !.pc = pc].pc = pc
    BY <2>1 DEF ReqRecord
  <2> QED BY <1>2, <2>1, <2>2
<1>4. \A b \in Batches : session[b] = NewSession("absent") /\ session[b] \in Session
  BY NewSessions DEF Init, SessionStatus
<1>5. TypeOK
  <2>1. req \in [Requests -> ReqRecord]
    BY <1>1, <1>3
  <2>2. session \in [Batches -> Session]
    BY <1>4 DEF Init
  <2>3. /\ run \in RunStatus /\ post \in [Posts -> PostStatus]
        /\ item \in [status : {"new", "consumed"}, link : Posts \cup {None}]
        /\ live \in [Posts -> Nat]
        /\ approvals \subseteq [batch : Batches, by : Deciders]
    BY DEF Init, RunStatus, PostStatus
  <2>4. task \in [Tasks -> [pc : {"free", "queued", "recording", "dead", "done"},
                            post : Posts \cup {None}]]
    BY DEF Init
  <2>5. /\ decisions \in 0..MaxDecisions /\ overlaps \in 0..MaxOverlaps /\ errors \in 0..MaxErrors
    BY DEF Init, InlineRunAssumption
  <2> QED BY <2>1, <2>2, <2>3, <2>4, <2>5 DEF TypeOK, ReqRecord, Pcs
<1>6. Shape
  BY <1>3 DEF Init, Shape, ShapeOf
<1>7. Votings
  <2>1. \A b \in Batches : ApproversOf(b) = {} /\ IsFiniteSet(ApproversOf(b))
    BY FS_EmptySet DEF Init, ApproversOf
  <2>2. \A b \in Batches : Backed(session[b], b, ApproversOf(b))
    <3>1. \A a \in Actors : NewSession("absent").votes[a] = "none"
      BY NewSessions DEF SessionStatus
    <3>2. NewSession("absent").status = "absent"
      BY NewSessions DEF SessionStatus
    <3> QED BY <1>4, <3>1, <3>2 DEF Backed, Approvers
  <2> QED BY <1>3, <2>1, <2>2 DEF Votings
<1>8. Counted
  <2>1. BusySet = {q} /\ Askers = {q} /\ Holders = {q}
    BY <1>3 DEF BusySet, Busy, Askers, Asks, Holders, Holds
  <2>2. \A p \in Posts : TasksFor(p) = {} /\ QueuedFor(p) = {} /\ Publishers(p) = {}
    BY <1>3 DEF Init, TasksFor, QueuedFor, Publishers, InlineRunAssumption
  <2>3. IsFiniteSet({q}) /\ Cardinality({q}) = 1 /\ IsFiniteSet({}) /\ Cardinality({}) = 0
    BY FS_Singleton, FS_EmptySet
  <2>4. Chances = 1
    BY <2>1, <2>3 DEF Chances, Hope
  <2>5. ASSUME NEW p \in Posts PROVE Load(p) <= 1 + overlaps + TaskRoom(p)
    <3>1. live[p] = 0 /\ overlaps = 0
      BY DEF Init
    <3>2. Cardinality(Publishers(p)) = 0 /\ Cardinality(QueuedFor(p)) = 0 /\ TaskRoom(p) = 0
      BY <2>2, <2>3 DEF TaskRoom
    <3> QED BY <2>4, <3>1, <3>2 DEF Load
  <2>6. \A p \in Posts : IsFiniteSet(TasksFor(p))
    BY <2>2, <2>3
  <2> QED BY <2>1, <2>3, <2>5, <2>6 DEF Counted
<1>9. Calm
  BY <1>3 DEF Init, Calm, Busy, Ended
<1> QED BY <1>5, <1>6, <1>7, <1>8, <1>9 DEF IInv

LEMMA Inductive == ASSUME InlineRunAssumption PROVE Spec => []IInv
<1>1. Init => IInv
  BY Start
<1>2. IInv /\ [Next]_vars => IInv'
  BY TypeStep, ShapeStep, VotingsStep, CountedStep, CalmStep DEF IInv
<1> QED BY <1>1, <1>2, PTL DEF Spec

\* Rows, requests and their copies keep their types, whatever overlaps and fails.
THEOREM TypeCorrect == ASSUME InlineRunAssumption PROVE Spec => []TypeOK
<1>1. IInv => TypeOK
  BY DEF IInv
<1> QED BY <1>1, Inductive, PTL

\* _publish() sends a post a second time only for a request that overlaps another, a
\* task an editor queued for it, or an error of such a task.
THEOREM RepeatsAreCounted == ASSUME InlineRunAssumption PROVE Spec => []RepeatsNeedOverlap
<1>1. ASSUME IInv PROVE RepeatsNeedOverlap
  <2>1. TypeOK /\ Counted
    BY <1>1 DEF IInv
  <2>2. ASSUME NEW p \in Posts
        PROVE  live[p] <= 1 + overlaps + Cardinality(TasksFor(p))
                            + (IF TasksFor(p) = {} THEN 0 ELSE errors)
    <3>1. /\ overlaps \in Nat /\ errors \in Nat /\ Chances \in Nat
          /\ Cardinality(Publishers(p)) \in Nat /\ Cardinality(QueuedFor(p)) \in Nat
          /\ Cardinality(TasksFor(p)) \in Nat /\ live[p] \in Nat
      BY <2>1, Numbers, Chance DEF Counted
    <3>2. Load(p) <= 1 + overlaps + TaskRoom(p)
      BY <2>1 DEF Counted
    <3> QED BY <3>1, <3>2 DEF Load, TaskRoom
  <2> QED BY <2>2 DEF RepeatsNeedOverlap
<1> QED BY <1>1, Inductive, PTL

\* _apply_with_quorum() works on copies that overwrite each other, and still a session
\* is approved only with its quorum of different approvers, or by somebody whom
\* apply_decision_via_api() and a reply without an actor_id let decide alone.
THEOREM QuorumIsKept == ASSUME InlineRunAssumption PROVE Spec => []QuorumIsReal
<1>1. IInv => QuorumIsReal
  BY DEF IInv, Votings, Backed, QuorumIsReal
<1> QED BY <1>1, Inductive, PTL

\* release_unclaimed_for_run() gives the item of a failed or cancelled run back, if none
\* of its posts may still go out.
THEOREM ItemComesBack == ASSUME InlineRunAssumption PROVE Spec => []ItemNotStranded
<1>1. ASSUME IInv PROVE ItemNotStranded
  BY <1>1 DEF IInv, Calm, Ended, Kept, ItemNotStranded, Unattended
<1> QED BY <1>1, Inductive, PTL

\* resume_after_review() goes on only with a run that waits: a rejected run stays
\* cancelled and sends nothing more, whatever is decided after it.
THEOREM VetoIsFinal == ASSUME InlineRunAssumption PROVE Spec => VetoHolds
<1>1. ASSUME IInv, [Next]_vars, Unattended, run = "cancelled"
      PROVE  run' = "cancelled" /\ \A p \in Posts : live'[p] = live[p] \/ TasksFor(p)' # {}
  <2>1. /\ TypeOK /\ Shape /\ Ended
        /\ \A q \in Requests : req[q].pc \in {"idle", "deciding", "resuming"}
    BY <1>1 DEF IInv, Calm, Ended, Unattended
  <2>2. ASSUME NEW q \in Requests, Receive(q) \/ Step(q) PROVE run' = run /\ live' = live
    BY <2>1, <2>2, EndedSteps
  <2>3. ASSUME Elsewhere PROVE run' = run /\ live' = live
    <3>1. \A t \in Tasks : ~TaskCall(t)
      BY <1>1 DEF Unattended, TaskCall
    <3> QED BY <2>3, <3>1, ElsewhereKeeps DEF Elsewhere, ApprovePost, PublishNow, Republish, Worker,
               TaskRecord, TaskFails, DeadLetter, TaskRedelivered
  <2>4. CASE UNCHANGED vars
    BY <1>1, <2>4 DEF vars
  <2> QED BY <1>1, <2>2, <2>3, <2>4 DEF Next, Elsewhere
<1>2. IInv /\ [Next]_vars =>
        [Unattended /\ run = "cancelled" => run' = "cancelled" /\
          \A p \in Posts : live'[p] = live[p] \/ TasksFor(p)' # {}]_vars
  BY <1>1
<1>3. Spec => []IInv
  BY Inductive
<1> QED BY <1>2, <1>3, PTL DEF Spec, VetoHolds
=============================================================================
