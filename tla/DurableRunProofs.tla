-------------------------- MODULE DurableRunProofs --------------------------
(***************************************************************************)
(* What holds of a durable run for any number of consumers, platforms,     *)
(* revisions and attempts: its records keep their types, without faults    *)
(* its phases form one chain that publishes what was approved, once, and   *)
(* ends decided, and its jobs are leases of the queue.                     *)
(***************************************************************************)
EXTENDS DurableRun, FiniteSetTheorems, SequenceTheorems, TLAPS

Pcs == {"idle", "working", "reviewing", "publishing", "recording", "saving",
        "auditing", "marking", "routing", "completing", "giving up"}
Nexts == Phases \cup {None, "dead"}
ExecRecord == [pc : Pcs, key : Keys \cup {None}, copy : RunRecord, next : Nexts,
               at : Nat, posted : SUBSET Platforms, loaded : SUBSET DOMAIN Accounts]

-----------------------------------------------------------------------------
(* The inductive invariant.                                                *)

\* A row, or a copy of one: its drafts were written, what it says was published is
\* out, and posts exist only when every platform has one.
Everywhere(out) == \A p \in Platforms : out[p] # <<>>
SoundAt(r, written, out) ==
    /\ r.drafts <= written
    /\ \A p \in r.published : out[p] # <<>>
    /\ r.posts # {} => Everywhere(out)
Sound(r) == SoundAt(r, made, external)
Records == Sound(run) /\ \A e \in Executors : Sound(exec[e].copy)

\* A consumer: if it found an account the platforms behind it are served, without one
\* it posts nothing; and its next phase is one.
ShapeAt(x, jobs, out) ==
    /\ x.pc = "idle" => x = Idle
    /\ x.pc # "idle" => x.key \in Keys /\ jobs[x.key].status # "absent" /\ x.at > 0
    /\ x.pc \in {"working", "reviewing", "publishing", "recording"} => x.next = None
    /\ x.pc \in {"saving", "auditing", "marking", "routing"} => x.next # "dead"
    /\ x.pc \in {"publishing", "recording"} =>
         \A i \in 1..Len(Targets) :
            i < x.at /\ x.copy.drafts > 0 /\ x.loaded # {} => out[Targets[i]] # <<>>
    /\ x.pc = "recording" => /\ x.at <= Len(Targets) /\ out[Targets[x.at]] # <<>>
                             /\ x.copy.drafts > 0 /\ x.loaded # {}
    /\ x.posted # {} => x.copy.drafts > 0 /\ x.loaded # {}
    /\ x.pc = "auditing" => x.copy.status \in Audited \ x.copy.emitted
ShapeOf(x) == ShapeAt(x, job, external)
Shape == \A e \in Executors : ShapeOf(exec[e])

Basics == TypeOK /\ Records /\ Shape

\* The order in which a run reaches its keys.
Rank(phase) == CASE phase = "select" -> 0 [] phase = "plan" -> 1 [] phase = "tailor" -> 2
                 [] phase = "execute" -> 3 [] phase = "critique" -> 4 [] phase = "publish" -> 5
Order(k) == 6 * k.revision + Rank(k.phase)
Reached(k) == job[k].status # "absent"
Queued(k) == job[k].status = "queued"

\* Row r marks all that was done, but for a post on the platforms of s.
Marks(r, s) ==
    /\ \A p \in Platforms : external[p] # <<>> => p \in r.published \cup s
    /\ \A d \in Drafts : review[d] > 0 => d \in r.tags
    /\ \A s1 \in Audited : audited[s1] > 0 => s1 \in r.emitted

\* Job k is the last one reached, and may run on row r.
Ready(k, r) ==
    /\ \A j \in Keys : Reached(j) => Order(j) <= Order(k)
    /\ r.revision = k.revision
    /\ k.phase = "publish" => r.drafts \in approved /\ ~HumanApproval

\* The phase of consumer x is done: the next one lies ahead, or the run is decided.
Follows(x) ==
    /\ x.next # None => Order(Key(x.next, x.copy.revision)) > Order(x.key)
    /\ x.next = "publish" => x.copy.drafts \in approved /\ ~HumanApproval
    /\ x.next = None => x.copy.status \in Audited
    /\ \A j \in Keys : Reached(j) => Order(j) <= Order(x.key)
    /\ x.pc = "routing" => run = x.copy

Same(r, q) == /\ r.revision = q.revision /\ r.drafts = q.drafts
              /\ r.published = q.published /\ r.tags = q.tags /\ r.emitted = q.emitted

Unmarked(x) == IF x.pc = "recording" THEN {Targets[x.at]} ELSE {}
Link(x) ==
    /\ Marks(x.copy, Unmarked(x))
    /\ x.pc \in {"working", "reviewing", "publishing", "recording", "giving up"} =>
          Ready(x.key, x.copy)
    /\ x.pc \in {"publishing", "recording"} => x.key.phase = "publish"
    /\ x.pc \in {"saving", "auditing", "marking", "routing"} => Follows(x)
    /\ x.pc = "reviewing" => x.copy.status \in Audited
    /\ x.pc = "giving up" => Same(run, x.copy)

\* The phases from which a run may still reach tailor, which sets no status.
Before(phase) == phase \in {"select", "plan", "tailor"}

\* Without faults one token runs through the chain: an active consumer, or a queued job.
OneToken ==
    /\ \A e, f \in Executors : Active(e) /\ Active(f) => e = f
    /\ \A j, k \in Keys : Queued(j) /\ Queued(k) => j = k
    /\ \A e \in Executors, k \in Keys : ~(Active(e) /\ Queued(k))
Holders ==
    /\ \A k \in Keys : job[k].status = "running" => Handled(k)
    /\ \A e \in Executors : exec[e].pc # "idle" => job[exec[e].key].status = "running"
    /\ \A e, f \in Executors : exec[e].pc # "idle" /\ exec[e].key = exec[f].key => e = f
Chain ==
    /\ \A k \in Keys : Queued(k) => Ready(k, run) /\ Marks(run, {})
    /\ \A e \in Executors : Active(e) => Link(exec[e])
Singles ==
    /\ \A p \in Platforms : Len(external[p]) <= 1
    /\ \A d \in Drafts : review[d] <= 1
    /\ \A s \in Audited : audited[s] <= 1
Approval == \A p \in Platforms : \A i \in 1..Len(external[p]) :
               external[p][i].draft \in approved /\ ~HumanApproval
Decided ==
    (\A e \in Executors : ~Active(e)) /\ (\A k \in Keys : job[k].status \notin {"queued", "dead"})
       => run.status \in Audited

Clean == OneToken /\ Holders /\ Chain /\ Singles /\ Approval /\ Decided
IInv == Basics /\ (faults = 0 => Clean)

-----------------------------------------------------------------------------
(* The record an action of consumer e leaves, field by field.              *)

LEMMA TargetsAre ==
  ASSUME DurableRunAssumption
  PROVE  /\ Len(Targets) \in Nat \ {0} /\ Drafts = 1..Len(Targets)
         /\ \A i \in 1..Len(Targets) : Targets[i] \in Platforms
BY DEF DurableRunAssumption, Platforms, Drafts

\* The accounts found are accounts, and each draft goes to the plugin of one of them.
LEMMA MatchIsPlugin ==
  ASSUME NEW p, NEW l \in SUBSET DOMAIN Accounts
  PROVE  Match(p, l) \subseteq Plugins
BY DEF Match, First, PluginsOf, Plugins

LEMMA RunUpdates ==
  ASSUME NEW r \in RunRecord
  PROVE  /\ \A s \in RunStatus : [r EXCEPT !.status = s] \in RunRecord
         /\ [r EXCEPT !.items = TRUE] \in RunRecord
         /\ [r EXCEPT !.plan = TRUE] \in RunRecord
         /\ \A n \in Nat : [r EXCEPT !.drafts = n] \in RunRecord
         /\ \A n \in 0..MaxRevisions : [r EXCEPT !.revision = n] \in RunRecord
         /\ \A t \in SUBSET Platforms : [r EXCEPT !.published = t] \in RunRecord
         /\ \A t \in SUBSET Drafts : [r EXCEPT !.tags = t] \in RunRecord
         /\ \A t \in SUBSET Audited : [r EXCEPT !.emitted = t] \in RunRecord
         /\ \A t \in SUBSET Platforms, s \in RunStatus :
               [r EXCEPT !.posts = t, !.status = s] \in RunRecord
BY DEF RunRecord

LEMMA ExecUpdates ==
  ASSUME NEW f \in [Executors -> ExecRecord], NEW e \in Executors
  PROVE  /\ \A x \in ExecRecord : [f EXCEPT ![e] = x] \in [Executors -> ExecRecord]
         /\ \A pc \in Pcs : [f EXCEPT ![e].pc = pc] \in [Executors -> ExecRecord]
         /\ \A pc \in Pcs, r \in RunRecord :
              [f EXCEPT ![e].pc = pc, ![e].copy = r] \in [Executors -> ExecRecord]
         /\ \A pc \in Pcs, n \in Nexts :
              [f EXCEPT ![e].pc = pc, ![e].next = n] \in [Executors -> ExecRecord]
         /\ \A pc \in Pcs, r \in RunRecord, n \in Nexts :
              [f EXCEPT ![e].pc = pc, ![e].copy = r, ![e].next = n] \in [Executors -> ExecRecord]
         /\ \A n \in Nat : [f EXCEPT ![e].at = n] \in [Executors -> ExecRecord]
         /\ \A n \in Nat, r \in RunRecord :
              [f EXCEPT ![e].at = n, ![e].copy = r] \in [Executors -> ExecRecord]
<1>1. \A x \in ExecRecord : [f EXCEPT ![e] = x] \in [Executors -> ExecRecord]
  OBVIOUS
<1>2. \A pc \in Pcs : [f EXCEPT ![e].pc = pc] \in [Executors -> ExecRecord]
  BY DEF ExecRecord
<1>3. \A pc \in Pcs, r \in RunRecord :
        [f EXCEPT ![e].pc = pc, ![e].copy = r] \in [Executors -> ExecRecord]
  BY DEF ExecRecord
<1>4. \A pc \in Pcs, n \in Nexts :
        [f EXCEPT ![e].pc = pc, ![e].next = n] \in [Executors -> ExecRecord]
  BY DEF ExecRecord
<1>5. \A pc \in Pcs, r \in RunRecord, n \in Nexts :
        [f EXCEPT ![e].pc = pc, ![e].copy = r, ![e].next = n] \in [Executors -> ExecRecord]
  BY DEF ExecRecord
<1>6. \A n \in Nat : [f EXCEPT ![e].at = n] \in [Executors -> ExecRecord]
  BY DEF ExecRecord
<1>7. \A n \in Nat, r \in RunRecord :
        [f EXCEPT ![e].at = n, ![e].copy = r] \in [Executors -> ExecRecord]
  BY DEF ExecRecord
<1> QED BY <1>1, <1>2, <1>3, <1>4, <1>5, <1>6, <1>7

LEMMA RecordUpdates ==
  ASSUME NEW f \in [Executors -> ExecRecord], NEW e \in Executors,
         NEW pc \in Pcs, NEW n \in Nat, NEW t \in SUBSET Platforms, NEW r \in RunRecord
  PROVE  [f EXCEPT ![e].pc = pc, ![e].at = n, ![e].posted = t, ![e].copy = r]
            \in [Executors -> ExecRecord]
<1> DEFINE x == [f[e] EXCEPT !.pc = pc, !.at = n, !.posted = t, !.copy = r]
<1>1. x \in ExecRecord
  BY DEF ExecRecord
<1>2. [f EXCEPT ![e].pc = pc, ![e].at = n, ![e].posted = t, ![e].copy = r] = [f EXCEPT ![e] = x]
  BY DEF ExecRecord
<1> HIDE DEF x
<1> QED BY <1>1, <1>2

LEMMA Names ==
  /\ {"idle", "working", "reviewing", "publishing", "recording", "saving"} \subseteq Pcs
  /\ {"auditing", "marking", "routing", "completing", "giving up"} \subseteq Pcs
  /\ {"queued", "selecting", "planning", "executing", "critiquing", "publishing",
      "succeeded", "failed", "awaiting_review"} \subseteq RunStatus
  /\ {"plan", "tailor", "execute", "critique", "publish", "dead", None} \subseteq Nexts
BY DEF Pcs, RunStatus, Audited, Nexts, Phases

LEMMA IdleTyped == ASSUME DurableRunAssumption PROVE NewRun \in RunRecord /\ Idle \in ExecRecord
<1>1. NewRun \in RunRecord
  <2>1. "queued" \in RunStatus
    BY Names
  <2>2. 0 \in 0..MaxRevisions
    BY DEF DurableRunAssumption
  <2> QED BY <2>1, <2>2 DEF NewRun, RunRecord
<1> QED BY <1>1, Names DEF Idle, ExecRecord

Becomes(e, pc, key, copy, next, at, posted, loaded) ==
    /\ exec' \in [Executors -> ExecRecord]
    /\ \A f \in Executors \ {e} : exec'[f] = exec[f]
    /\ exec'[e].pc = pc /\ exec'[e].key = key /\ exec'[e].copy = copy
    /\ exec'[e].next = next /\ exec'[e].at = at /\ exec'[e].posted = posted
    /\ exec'[e].loaded = loaded

LEMMA ClaimBecomes ==
  ASSUME TypeOK, DurableRunAssumption, NEW e \in Executors, NEW k \in Keys, Claim(e, k)
  PROVE  \E loaded \in LoadPlatforms(k.phase) :
            /\ Becomes(e, IF k.phase = "publish" THEN "publishing" ELSE "working", k,
                       [run EXCEPT !.status = PhaseStatus(k.phase, run.status)], None, 1, {},
                       loaded)
            /\ missed' = IF k.phase = "publish" THEN missed \cup (Plugins \ PluginsOf(loaded))
                                                 ELSE missed
<1>a. exec \in [Executors -> ExecRecord] /\ run \in RunRecord
  BY DEF TypeOK, ExecRecord, Pcs, Nexts
<1>1. PhaseStatus(k.phase, run.status) \in RunStatus
  <2>1. k.phase \in Phases /\ run.status \in RunStatus
    BY <1>a DEF Keys, RunRecord
  <2> QED BY <2>1, Names DEF PhaseStatus, Phases
<1>2. [run EXCEPT !.status = PhaseStatus(k.phase, run.status)] \in RunRecord
  BY <1>1, <1>a, RunUpdates
<1> DEFINE pc == IF k.phase = "publish" THEN "publishing" ELSE "working"
           c == [run EXCEPT !.status = PhaseStatus(k.phase, run.status)]
<1>p. PICK loaded \in LoadPlatforms(k.phase) :
         /\ exec' = [exec EXCEPT ![e] = [Idle EXCEPT !.pc = pc, !.key = k, !.copy = c, !.at = 1,
                                                     !.loaded = loaded]]
         /\ missed' = IF k.phase = "publish" THEN missed \cup (Plugins \ PluginsOf(loaded))
                                              ELSE missed
  BY <1>a DEF Claim
<1> DEFINE x == [Idle EXCEPT !.pc = pc, !.key = k, !.copy = c, !.at = 1, !.loaded = loaded]
<1>3. exec' = [exec EXCEPT ![e] = x]
  BY <1>p
<1>l. loaded \in SUBSET DOMAIN Accounts
  BY DEF LoadPlatforms
<1>4. pc \in Pcs
  BY Names
<1>5. c \in RunRecord
  BY <1>2
<1> HIDE DEF pc, c
<1>6. /\ x \in ExecRecord /\ x.pc = pc /\ x.key = k /\ x.copy = c /\ x.next = None
      /\ x.at = 1 /\ x.posted = {} /\ x.loaded = loaded
  BY <1>4, <1>5, <1>l, Names DEF Idle, ExecRecord
<1> HIDE DEF x
<1>7. Becomes(e, pc, k, c, None, 1, {}, loaded)
  BY <1>3, <1>6, <1>a DEF Becomes
<1> QED BY <1>p, <1>7 DEF pc, c

LEMMA FinishBecomes ==
  ASSUME TypeOK, NEW e \in Executors, NEW r \in RunRecord, NEW n \in Nexts, Finish(e, r, n)
  PROVE  Becomes(e, "saving", exec[e].key, r, n, exec[e].at, exec[e].posted, exec[e].loaded)
<1>a. exec \in [Executors -> ExecRecord]
  BY DEF TypeOK, ExecRecord, Pcs, Nexts
<1>1. exec' = [exec EXCEPT ![e].pc = "saving", ![e].copy = r, ![e].next = n]
  BY DEF Finish
<1>2. exec' \in [Executors -> ExecRecord]
  BY <1>a, <1>1, ExecUpdates, Names
<1> QED BY <1>a, <1>1, <1>2 DEF Becomes, ExecRecord

\* Steps that change the pc only, and those that make the consumer idle.
LEMMA PcBecomes ==
  ASSUME TypeOK, NEW e \in Executors, NEW pc \in Pcs, exec' = [exec EXCEPT ![e].pc = pc]
  PROVE  Becomes(e, pc, exec[e].key, exec[e].copy, exec[e].next, exec[e].at, exec[e].posted,
                 exec[e].loaded)
<1>a. exec \in [Executors -> ExecRecord]
  BY DEF TypeOK, ExecRecord, Pcs, Nexts
<1>2. exec' \in [Executors -> ExecRecord]
  BY <1>a, ExecUpdates
<1> QED BY <1>a, <1>2 DEF Becomes, ExecRecord

LEMMA IdleBecomes ==
  ASSUME TypeOK, DurableRunAssumption, NEW e \in Executors, exec' = [exec EXCEPT ![e] = Idle]
  PROVE  /\ exec'[e] = Idle
         /\ Becomes(e, "idle", None, NewRun, None, 0, {}, {})
<1>a. exec \in [Executors -> ExecRecord]
  BY DEF TypeOK, ExecRecord, Pcs, Nexts
<1>1. exec' \in [Executors -> ExecRecord]
  BY <1>a, ExecUpdates, IdleTyped
<1>2. exec'[e] = Idle
  BY <1>a
<1>3. \A f \in Executors \ {e} : exec'[f] = exec[f]
  BY <1>a
<1> QED BY <1>1, <1>2, <1>3 DEF Becomes, Idle

LEMMA EscalateBecomes ==
  ASSUME TypeOK, NEW e \in Executors, Escalate(e)
  PROVE  Becomes(e, "reviewing", exec[e].key, [exec[e].copy EXCEPT !.status = "awaiting_review"],
                 exec[e].next, exec[e].at, exec[e].posted, exec[e].loaded)
<1>a. exec \in [Executors -> ExecRecord] /\ exec[e].copy \in RunRecord
  BY DEF TypeOK, ExecRecord, Pcs, Nexts
<1>1. exec' = [exec EXCEPT ![e].pc = "reviewing",
                           ![e].copy = [exec[e].copy EXCEPT !.status = "awaiting_review"]]
  <2>1. exec' = [exec EXCEPT ![e].pc = "reviewing", ![e].copy.status = "awaiting_review"]
    BY DEF Escalate
  <2>2. [exec EXCEPT ![e].pc = "reviewing", ![e].copy.status = "awaiting_review"]
          = [exec EXCEPT ![e].pc = "reviewing",
                         ![e].copy = [exec[e].copy EXCEPT !.status = "awaiting_review"]]
    BY <1>a DEF ExecRecord
  <2> QED BY <2>1, <2>2
<1>2. exec' \in [Executors -> ExecRecord]
  <2>1. [exec[e].copy EXCEPT !.status = "awaiting_review"] \in RunRecord
    BY <1>a, RunUpdates, Names
  <2> QED BY <1>a, <1>1, <2>1, ExecUpdates, Names
<1> QED BY <1>a, <1>1, <1>2 DEF Becomes, ExecRecord

LEMMA ReviewBecomes ==
  ASSUME TypeOK, DurableRunAssumption, NEW e \in Executors, Review(e), exec[e].at > 0
  PROVE  \/ /\ Becomes(e, "saving", exec[e].key, exec[e].copy, None, exec[e].at, exec[e].posted,
                       exec[e].loaded)
            /\ review' = review
         \/ /\ Becomes(e, "reviewing", exec[e].key, exec[e].copy, exec[e].next,
                       exec[e].at + 1, exec[e].posted, exec[e].loaded)
            /\ review' = review
         \/ \E d \in Drafts \ exec[e].copy.tags :
               /\ Becomes(e, "reviewing", exec[e].key,
                          [exec[e].copy EXCEPT !.tags = exec[e].copy.tags \cup {d}],
                          exec[e].next, exec[e].at + 1, exec[e].posted, exec[e].loaded)
               /\ review' = [review EXCEPT ![d] = @ + 1]
<1>a. exec \in [Executors -> ExecRecord]
  BY DEF TypeOK, ExecRecord, Pcs, Nexts
<1>b. /\ exec[e].copy \in RunRecord /\ exec[e].at \in Nat /\ exec[e].at + 1 \in Nat
      /\ exec[e].pc = "reviewing"
  BY <1>a DEF ExecRecord, Review
<1>1. CASE exec[e].at > Len(Targets)
  <2>1. Finish(e, exec[e].copy, None) /\ review' = review
    BY <1>1 DEF Review
  <2> QED BY <2>1, <1>b, FinishBecomes, Names
<1>2. CASE ~(exec[e].at > Len(Targets)) /\ exec' = [exec EXCEPT ![e].at = exec[e].at + 1]
           /\ review' = review
  <2>1. exec' \in [Executors -> ExecRecord]
    BY <1>a, <1>b, <1>2, ExecUpdates
  <2> QED BY <1>a, <1>b, <1>2, <2>1 DEF Becomes, ExecRecord
<1> DEFINE d == exec[e].at
           c == [exec[e].copy EXCEPT !.tags = exec[e].copy.tags \cup {d}]
<1>3. CASE /\ ~(exec[e].at > Len(Targets)) /\ d \notin exec[e].copy.tags
           /\ exec' = [exec EXCEPT ![e].at = exec[e].at + 1,
                                   ![e].copy.tags = exec[e].copy.tags \cup {d}]
           /\ review' = [review EXCEPT ![d] = @ + 1]
  <2>1. d \in Drafts
    BY <1>3, <1>b, TargetsAre
  <2>2. c \in RunRecord
    BY <1>b, <2>1, RunUpdates DEF RunRecord
  <2>4. exec' = [exec EXCEPT ![e].at = exec[e].at + 1, ![e].copy = c]
    <3>1. [exec EXCEPT ![e].at = exec[e].at + 1, ![e].copy.tags = exec[e].copy.tags \cup {d}]
            = [exec EXCEPT ![e].at = exec[e].at + 1,
                           ![e].copy = [exec[e].copy EXCEPT !.tags = exec[e].copy.tags \cup {d}]]
      BY <1>a DEF ExecRecord
    <3> QED BY <1>3, <3>1
  <2> HIDE DEF c
  <2>5. exec' \in [Executors -> ExecRecord]
    BY <1>a, <1>b, <2>2, <2>4, ExecUpdates
  <2>6. Becomes(e, "reviewing", exec[e].key, c, exec[e].next, exec[e].at + 1, exec[e].posted,
                exec[e].loaded)
    BY <1>a, <1>b, <2>4, <2>5 DEF Becomes, ExecRecord
  <2> QED BY <1>3, <2>1, <2>6 DEF c
<1>4. \/ exec[e].at > Len(Targets)
      \/ ~(exec[e].at > Len(Targets)) /\ exec' = [exec EXCEPT ![e].at = exec[e].at + 1]
           /\ review' = review
      \/ /\ ~(exec[e].at > Len(Targets)) /\ d \notin exec[e].copy.tags
         /\ exec' = [exec EXCEPT ![e].at = exec[e].at + 1,
                                 ![e].copy.tags = exec[e].copy.tags \cup {d}]
         /\ review' = [review EXCEPT ![d] = @ + 1]
  BY <1>a DEF Review, ExecRecord
<1> QED BY <1>1, <1>2, <1>3, <1>4

\* Consumer x sends its draft for p out, to the plugin of an account it found.
Sends(p, x) ==
    \E q \in Post : /\ q.draft = x.copy.drafts /\ q.on \in Match(p, x.loaded)
                    /\ external' = [external EXCEPT ![p] = Append(@, q)]

LEMMA PublishBecomes ==
  ASSUME TypeOK, DurableRunAssumption, NEW e \in Executors, Publish(e), exec[e].at > 0
  PROVE  \E p \in Platforms :
            /\ exec[e].at \in 1..Len(Targets) /\ p = Targets[exec[e].at]
            /\ \/ /\ p \in exec[e].copy.published \/ exec[e].loaded = {}
                  /\ external' = external
                  /\ Becomes(e, "publishing", exec[e].key, exec[e].copy, exec[e].next,
                             exec[e].at + 1, exec[e].posted, exec[e].loaded)
               \/ /\ p \notin exec[e].copy.published /\ exec[e].loaded # {}
                  /\ Sends(p, exec[e])
                  /\ Becomes(e, "recording", exec[e].key, exec[e].copy, exec[e].next,
                             exec[e].at, exec[e].posted, exec[e].loaded)
<1>a. exec \in [Executors -> ExecRecord]
  BY DEF TypeOK, ExecRecord, Pcs, Nexts
<1>b. exec[e].at \in Nat
  BY <1>a DEF ExecRecord
<1> DEFINE p == Targets[exec[e].at]
<1>1. exec[e].at \in 1..Len(Targets) /\ p \in Platforms
  BY <1>b, TargetsAre DEF Publish
<1>2. CASE p \in exec[e].copy.published \/ exec[e].loaded = {}
  <2>1. exec' = [exec EXCEPT ![e].at = exec[e].at + 1] /\ external' = external
        /\ exec[e].pc = "publishing"
    BY <1>2, <1>a DEF Publish, Skip, ExecRecord
  <2>2. exec' \in [Executors -> ExecRecord]
    <3>1. exec[e].at + 1 \in Nat
      BY <1>b
    <3> QED BY <1>a, <2>1, <3>1, ExecUpdates
  <2>3. Becomes(e, "publishing", exec[e].key, exec[e].copy, exec[e].next, exec[e].at + 1,
                exec[e].posted, exec[e].loaded)
    BY <1>a, <2>1, <2>2 DEF Becomes, ExecRecord
  <2> QED BY <1>1, <1>2, <2>1, <2>3
<1>3. CASE p \notin exec[e].copy.published /\ exec[e].loaded # {}
  <2> DEFINE sent(on) == [draft |-> exec[e].copy.drafts, on |-> on]
  <2>1. PICK on \in Match(p, exec[e].loaded) :
           /\ exec' = [exec EXCEPT ![e].pc = "recording"]
           /\ external' = [external EXCEPT ![p] = Append(@, sent(on))]
    BY <1>3 DEF Publish, Skip
  <2>3. sent(on) \in Post
    <3>1. exec[e].copy.drafts \in Nat /\ exec[e].loaded \in SUBSET DOMAIN Accounts
      BY <1>a DEF ExecRecord, RunRecord
    <3> QED BY <3>1, MatchIsPlugin DEF Post
  <2>4. Sends(p, exec[e])
    BY <2>1, <2>3 DEF Sends
  <2>2. Becomes(e, "recording", exec[e].key, exec[e].copy, exec[e].next, exec[e].at,
                exec[e].posted, exec[e].loaded)
    BY <2>1, PcBecomes, Names
  <2> QED BY <1>1, <1>3, <2>2, <2>4
<1> QED BY <1>2, <1>3

LEMMA RecordBecomes ==
  ASSUME TypeOK, DurableRunAssumption, NEW e \in Executors, Record(e),
         exec[e].at > 0, exec[e].at <= Len(Targets)
  PROVE  \E p \in Platforms :
            /\ p = Targets[exec[e].at]
            /\ Becomes(e, "publishing", exec[e].key,
                       [exec[e].copy EXCEPT !.published = exec[e].copy.published \cup {p}],
                       exec[e].next, exec[e].at + 1, exec[e].posted \cup {p}, exec[e].loaded)
<1>a. exec \in [Executors -> ExecRecord]
  BY DEF TypeOK, ExecRecord, Pcs, Nexts
<1>b. exec[e].copy \in RunRecord /\ exec[e].at \in Nat /\ exec[e].posted \in SUBSET Platforms
  BY <1>a DEF ExecRecord
<1> DEFINE p == Targets[exec[e].at]
           c == [exec[e].copy EXCEPT !.published = exec[e].copy.published \cup {p}]
<1>1. p \in Platforms
  BY <1>b, TargetsAre
<1>2. c \in RunRecord
  BY <1>b, <1>1, RunUpdates DEF RunRecord
<1>3. exec' = [exec EXCEPT ![e].pc = "publishing", ![e].at = exec[e].at + 1,
                           ![e].posted = exec[e].posted \cup {p},
                           ![e].copy.published = exec[e].copy.published \cup {p}]
  BY <1>a DEF Record, ExecRecord
<1>4. exec' = [exec EXCEPT ![e].pc = "publishing", ![e].at = exec[e].at + 1,
                           ![e].posted = exec[e].posted \cup {p}, ![e].copy = c]
  <2>1. [exec EXCEPT ![e].pc = "publishing", ![e].at = exec[e].at + 1,
                     ![e].posted = exec[e].posted \cup {p},
                     ![e].copy.published = exec[e].copy.published \cup {p}]
          = [exec EXCEPT ![e].pc = "publishing", ![e].at = exec[e].at + 1,
               ![e].posted = exec[e].posted \cup {p},
               ![e].copy = [exec[e].copy EXCEPT !.published = exec[e].copy.published \cup {p}]]
    BY <1>a DEF ExecRecord
  <2> QED BY <1>3, <2>1
<1> HIDE DEF c
<1>5. exec' \in [Executors -> ExecRecord]
  <2>1. exec[e].posted \cup {p} \in SUBSET Platforms /\ exec[e].at + 1 \in Nat
    BY <1>b, <1>1
  <2> QED BY <1>a, <1>2, <1>4, <2>1, RecordUpdates, Names
<1>6. Becomes(e, "publishing", exec[e].key, c, exec[e].next, exec[e].at + 1,
              exec[e].posted \cup {p}, exec[e].loaded)
  BY <1>a, <1>4, <1>5 DEF Becomes, ExecRecord
<1> QED BY <1>1, <1>6 DEF c

LEMMA AuditBecomes ==
  ASSUME TypeOK, NEW e \in Executors, Audit(e), exec[e].copy.status \in Audited
  PROVE  Becomes(e, "marking", exec[e].key,
                 [exec[e].copy EXCEPT !.emitted = exec[e].copy.emitted \cup {exec[e].copy.status}],
                 exec[e].next, exec[e].at, exec[e].posted, exec[e].loaded)
<1>a. exec \in [Executors -> ExecRecord]
  BY DEF TypeOK, ExecRecord, Pcs, Nexts
<1>b. exec[e].copy \in RunRecord
  BY <1>a DEF ExecRecord
<1> DEFINE t == exec[e].copy.emitted \cup {exec[e].copy.status}
           c == [exec[e].copy EXCEPT !.emitted = t]
<1>1. c \in RunRecord
  <2>1. t \in SUBSET Audited
    BY <1>b DEF RunRecord
  <2> QED BY <1>b, <2>1, RunUpdates
<1>2. exec' = [exec EXCEPT ![e].pc = "marking", ![e].copy.emitted = t]
  BY <1>a DEF Audit, ExecRecord
<1> HIDE DEF t
<1>3. exec' = [exec EXCEPT ![e].pc = "marking", ![e].copy = c]
  <2>1. [exec EXCEPT ![e].pc = "marking", ![e].copy.emitted = t]
          = [exec EXCEPT ![e].pc = "marking", ![e].copy = [exec[e].copy EXCEPT !.emitted = t]]
    BY <1>a DEF ExecRecord
  <2> QED BY <1>2, <2>1
<1> HIDE DEF c
<1>4. exec' \in [Executors -> ExecRecord]
  BY <1>a, <1>1, <1>3, ExecUpdates, Names
<1>5. Becomes(e, "marking", exec[e].key, c, exec[e].next, exec[e].at, exec[e].posted,
              exec[e].loaded)
  BY <1>a, <1>3, <1>4 DEF Becomes, ExecRecord
<1> QED BY <1>5 DEF c, t

LEMMA DeadBecomes ==
  ASSUME TypeOK, NEW e \in Executors, RaisePermanent(e)
  PROVE  Becomes(e, "giving up", exec[e].key, exec[e].copy, "dead", exec[e].at, exec[e].posted,
                 exec[e].loaded)
<1>a. exec \in [Executors -> ExecRecord]
  BY DEF TypeOK, ExecRecord, Pcs, Nexts
<1>1. exec' = [exec EXCEPT ![e].pc = "giving up", ![e].next = "dead"]
  BY DEF RaisePermanent
<1>2. exec' \in [Executors -> ExecRecord]
  BY <1>a, <1>1, ExecUpdates, Names
<1> QED BY <1>a, <1>1, <1>2 DEF Becomes, ExecRecord

\* Phase n of copy r comes after the one of consumer e; without one the run is decided.
Ahead(e, r, n) ==
    /\ exec[e].key.revision = exec[e].copy.revision /\ n # None =>
          Order(Key(n, r.revision)) > Order(exec[e].key)
    /\ n = "publish" => r.drafts \in approved' /\ ~HumanApproval
    /\ n = None => r.status \in Audited
    /\ n # None => /\ r.status = exec[e].copy.status
                   /\ Before(n) => exec[e].key.phase \in {"select", "plan"}

\* A phase's work: it is done with a copy it did not spoil, or its drafts go to a human.
Worked(e) ==
    \/ \E r \in RunRecord, n \in Nexts \ {"dead"} :
          /\ Becomes(e, "saving", exec[e].key, r, n, exec[e].at, exec[e].posted, exec[e].loaded)
          /\ Ahead(e, r, n)
          /\ r.published = exec[e].copy.published /\ r.posts = exec[e].copy.posts
          /\ r.tags = exec[e].copy.tags /\ r.emitted = exec[e].copy.emitted
          /\ r.drafts # exec[e].copy.drafts => r.drafts = made' /\ made' = made + 1
          /\ made' = made \/ made' = made + 1
          /\ \/ approved' = approved
             \/ approved' = approved \cup {r.drafts} /\ r.drafts > 0 /\ made' = made
    \/ /\ Becomes(e, "reviewing", exec[e].key,
                  [exec[e].copy EXCEPT !.status = "awaiting_review"],
                  exec[e].next, exec[e].at, exec[e].posted, exec[e].loaded)
       /\ made' = made
       /\ \/ approved' = approved
          \/ approved' = approved \cup {exec[e].copy.drafts} /\ exec[e].copy.drafts > 0

LEMMA WorkBecomes ==
  ASSUME TypeOK, DurableRunAssumption, NEW e \in Executors, Work(e)
  PROVE  Worked(e)
<1> DEFINE c == exec[e].copy
<1>a. c \in RunRecord /\ made \in Nat
  BY DEF TypeOK
<1>f. ASSUME NEW r \in RunRecord, NEW n \in Nexts, Finish(e, r, n)
      PROVE  Becomes(e, "saving", exec[e].key, r, n, exec[e].at, exec[e].posted, exec[e].loaded)
  BY <1>f, FinishBecomes
<1>n. {"plan", "tailor", "execute", "critique", "publish", None} \subseteq Nexts \ {"dead"}
  BY Names DEF DurableRunAssumption
<1>u. \A s \in RunStatus : LET r == [c EXCEPT !.status = s] IN
         /\ r \in RunRecord /\ r.drafts = c.drafts /\ r.published = c.published
         /\ r.posts = c.posts /\ r.tags = c.tags /\ r.emitted = c.emitted
  BY <1>a, RunUpdates DEF RunRecord
<1>d. \A s \in Audited : Ahead(e, [c EXCEPT !.status = s], None)
  <2>1. \A s \in Audited : [c EXCEPT !.status = s].status = s
    BY <1>a DEF RunRecord
  <2> QED BY <2>1, Names DEF Ahead, DurableRunAssumption, Phases
<1>r. /\ Rank("select") = 0 /\ Rank("plan") = 1 /\ Rank("tailor") = 2
      /\ Rank("execute") = 3 /\ Rank("critique") = 4 /\ Rank("publish") = 5
  BY DEF Rank
<1>s. "succeeded" \in Audited /\ "failed" \in Audited
  BY DEF Audited
<1>o. ASSUME NEW r, NEW n, n # None, n # "publish",
             r.revision = c.revision, r.status = c.status,
             Before(n) => exec[e].key.phase \in {"select", "plan"},
             Rank(n) \in Nat, Rank(exec[e].key.phase) \in Nat, Rank(n) > Rank(exec[e].key.phase)
      PROVE  Ahead(e, r, n)
  <2>1. c.revision \in Nat
    BY <1>a DEF RunRecord
  <2> QED BY <1>o, <2>1 DEF Ahead, Order, Key
<1>m. \A n \in {"plan", "tailor", "execute", "critique"} : n # None
  BY DEF DurableRunAssumption, Phases
<1>1. CASE Select(e)
  <2>1. LET r == [c EXCEPT !.items = TRUE] IN
         /\ r \in RunRecord /\ r.drafts = c.drafts /\ r.published = c.published
         /\ r.posts = c.posts /\ r.tags = c.tags /\ r.emitted = c.emitted
    BY <1>a, RunUpdates DEF RunRecord
  <2>2. CASE Finish(e, [c EXCEPT !.status = "succeeded"], None)
    BY <1>1, <1>d, <1>f, <1>n, <1>s, <1>u, <2>2, Names DEF Select, Worked
  <2>3. CASE Finish(e, [c EXCEPT !.items = TRUE], "plan")
    <3>1. LET q == [c EXCEPT !.items = TRUE] IN q.revision = c.revision /\ q.status = c.status
      BY <1>a DEF RunRecord
    <3>2. exec[e].key.phase = "select"
      BY <1>1 DEF Select, Working
    <3>3. Ahead(e, [c EXCEPT !.items = TRUE], "plan")
      <4> DEFINE q == [c EXCEPT !.items = TRUE]
      <4>1. q.revision = c.revision /\ q.status = c.status
        BY <3>1, <3>2
      <4> HIDE DEF q
      <4>2. Ahead(e, q, "plan")
        BY <1>m, <1>o, <1>r, <3>1, <3>2, <4>1 DEF Before
      <4> QED BY <4>2 DEF q
    <3> QED BY <1>1, <1>f, <1>n, <2>1, <2>3, <3>3 DEF Select, Worked
  <2> QED BY <1>1, <2>2, <2>3 DEF Select
<1>2. CASE Plan(e)
  <2>1. LET r == [c EXCEPT !.plan = TRUE] IN
         /\ r \in RunRecord /\ r.drafts = c.drafts /\ r.published = c.published
         /\ r.posts = c.posts /\ r.tags = c.tags /\ r.emitted = c.emitted
    BY <1>a, RunUpdates DEF RunRecord
  <2>2. CASE Finish(e, [c EXCEPT !.status = "failed"], None)
    BY <1>2, <1>d, <1>f, <1>n, <1>s, <1>u, <2>2, Names DEF Plan, Worked
  <2>3. ASSUME NEW n \in {"tailor", "execute"}, Finish(e, [c EXCEPT !.plan = TRUE], n)
        PROVE Worked(e)
    <3>1. LET q == [c EXCEPT !.plan = TRUE] IN q.revision = c.revision /\ q.status = c.status
      BY <1>a DEF RunRecord
    <3>2. exec[e].key.phase = "plan"
      BY <1>2 DEF Plan, Working
    <3>3. Ahead(e, [c EXCEPT !.plan = TRUE], n)
      <4> DEFINE q == [c EXCEPT !.plan = TRUE]
      <4>1. q.revision = c.revision /\ q.status = c.status
        BY <3>1, <3>2
      <4> HIDE DEF q
      <4>2. Ahead(e, q, n)
        BY <1>m, <1>o, <1>r, <2>3, <3>1, <3>2, <4>1 DEF Before
      <4> QED BY <4>2 DEF q
    <3> QED BY <1>2, <1>f, <1>n, <2>1, <2>3, <3>3 DEF Plan, Worked
  <2> QED BY <1>2, <2>2, <2>3 DEF Plan
<1>3. CASE Tailor(e)
  <2>1. \/ Finish(e, [c EXCEPT !.status = "succeeded"], None)
        \/ Finish(e, c, "execute")
        \/ Finish(e, [c EXCEPT !.status = "failed"], None)
    BY <1>3 DEF Tailor
  <2>2. CASE Finish(e, [c EXCEPT !.status = "succeeded"], None)
    BY <1>3, <1>d, <1>f, <1>n, <1>s, <1>u, <2>2, Names DEF Tailor, Worked
  <2>3. CASE Finish(e, c, "execute")
    <3>1. exec[e].key.phase = "tailor"
      BY <1>3 DEF Tailor, Working
    <3>2. Ahead(e, c, "execute")
      BY <1>m, <1>o, <1>r, <3>1 DEF Before
    <3> QED BY <1>3, <1>a, <1>f, <1>n, <2>3, <3>2 DEF Tailor, Worked
  <2>4. CASE Finish(e, [c EXCEPT !.status = "failed"], None)
    BY <1>3, <1>d, <1>f, <1>n, <1>s, <1>u, <2>4, Names DEF Tailor, Worked
  <2> QED BY <2>1, <2>2, <2>3, <2>4
<1>4. CASE Execute(e)
  <2>1. LET r == [c EXCEPT !.drafts = made + 1] IN
         /\ r \in RunRecord /\ r.drafts = made + 1 /\ r.published = c.published
         /\ r.posts = c.posts /\ r.tags = c.tags /\ r.emitted = c.emitted
    <3>1. \A n \in Nat : LET r == [c EXCEPT !.drafts = n] IN
         /\ r \in RunRecord /\ r.drafts = n /\ r.published = c.published
         /\ r.posts = c.posts /\ r.tags = c.tags /\ r.emitted = c.emitted
      BY <1>a, RunUpdates DEF RunRecord
    <3>2. made + 1 \in Nat
      BY <1>a
    <3> QED BY <3>1, <3>2
  <2>2. CASE c.plan
    <3>1. made' = made + 1 /\ approved' = approved
          /\ Finish(e, [c EXCEPT !.drafts = made + 1], "critique")
      BY <1>4, <2>2 DEF Execute, AfterExecute
    <3>2. LET q == [c EXCEPT !.drafts = made + 1] IN q.revision = c.revision /\ q.status = c.status
      BY <1>a DEF RunRecord
    <3>3. exec[e].key.phase = "execute"
      BY <1>4 DEF Execute, Working
    <3>4. Ahead(e, [c EXCEPT !.drafts = made + 1], "critique")
      <4> DEFINE q == [c EXCEPT !.drafts = made + 1]
      <4>1. q.revision = c.revision /\ q.status = c.status
        BY <3>2, <3>3
      <4> HIDE DEF q
      <4>2. Ahead(e, q, "critique")
        BY <1>m, <1>o, <1>r, <3>2, <3>3, <4>1 DEF Before
      <4> QED BY <4>2 DEF q
    <3> QED BY <1>f, <1>n, <2>1, <3>1, <3>4 DEF Worked
  <2>3. CASE ~c.plan
    <3>1. made' = made /\ approved' = approved
          /\ Finish(e, [c EXCEPT !.status = "failed"], None)
      BY <1>4, <2>3 DEF Execute
    <3> QED BY <1>d, <1>f, <1>n, <1>s, <1>u, <3>1, Names DEF Worked
  <2> QED BY <2>2, <2>3
<1>5. CASE Critique(e)
  <2>1. made' = made
    BY <1>5 DEF Critique
  <2>2. CASE Finish(e, [c EXCEPT !.status = "failed"], None) /\ approved' = approved
    BY <1>d, <1>f, <1>n, <1>s, <1>u, <2>1, <2>2, Names DEF Worked
  <2>3. CASE /\ Escalate(e)
             /\ approved' = approved \/ (approved' = approved \cup {c.drafts} /\ c.drafts > 0)
    BY <2>1, <2>3, EscalateBecomes DEF Worked
  <2>4. CASE MayRevise(c) /\ Finish(e, NextRevision(c), "execute") /\ approved' = approved
    <3>1. c.revision + 1 \in 0..MaxRevisions
      BY <1>a, <2>4 DEF MayRevise, RunRecord, DurableRunAssumption
    <3>2. NextRevision(c) = [c EXCEPT !.revision = c.revision + 1]
      BY <1>a DEF NextRevision, RunRecord
    <3>3. LET r == NextRevision(c) IN
         /\ r \in RunRecord /\ r.drafts = c.drafts /\ r.published = c.published
         /\ r.posts = c.posts /\ r.tags = c.tags /\ r.emitted = c.emitted
      <4>1. \A n \in 0..MaxRevisions : LET r == [c EXCEPT !.revision = n] IN
         /\ r \in RunRecord /\ r.drafts = c.drafts /\ r.published = c.published
         /\ r.posts = c.posts /\ r.tags = c.tags /\ r.emitted = c.emitted
        BY <1>a, RunUpdates DEF RunRecord
      <4> QED BY <3>1, <3>2, <4>1
    <3>4. Ahead(e, NextRevision(c), "execute")
      <4>1. /\ c.revision \in Nat /\ NextRevision(c).revision = c.revision + 1
            /\ NextRevision(c).status = c.status
        BY <1>a, <3>2 DEF RunRecord
      <4>2. exec[e].key.phase = "critique"
        BY <1>5 DEF Critique, Working
      <4>3. exec[e].key.revision = c.revision =>
               Order(Key("execute", NextRevision(c).revision)) > Order(exec[e].key)
        BY <1>r, <4>1, <4>2 DEF Order, Key
      <4> QED BY <1>m, <4>1, <4>3 DEF Ahead, Before
    <3> QED BY <1>f, <1>n, <2>1, <2>4, <3>3, <3>4 DEF Worked
  <2>5. CASE /\ Finish(e, c, "publish") /\ ~HumanApproval
             /\ approved' = approved \cup {c.drafts} /\ c.drafts > 0
    <3>1. Ahead(e, c, "publish")
      <4>1. c.revision \in Nat /\ exec[e].key.phase = "critique"
        BY <1>5, <1>a DEF Critique, Working, RunRecord
      <4>2. exec[e].key.revision = c.revision => Order(Key("publish", c.revision)) > Order(exec[e].key)
        BY <1>r, <4>1 DEF Order, Key
      <4>3. "publish" # None
        BY DEF DurableRunAssumption, Phases
      <4> QED BY <2>5, <4>2, <4>3 DEF Ahead, Before
    <3> QED BY <1>a, <1>f, <1>n, <2>1, <2>5, <3>1 DEF Worked
  <2>6. c.drafts # 0 => c.drafts > 0
    BY <1>a DEF RunRecord
  <2> QED BY <1>5, <2>2, <2>3, <2>4, <2>5, <2>6 DEF Critique
<1> QED BY <1>1, <1>2, <1>3, <1>4, <1>5 DEF Work

-----------------------------------------------------------------------------
(* Types, records and shapes.                                              *)

\* What no step takes back.
LEMMA Monotone ==
  ASSUME TypeOK, DurableRunAssumption, [Next]_vars
  PROVE  /\ \A k \in Keys : job[k].status # "absent" => job'[k].status # "absent"
         /\ job' \in [Keys -> JobState]
<1>k. \A e \in Executors : exec[e].key \in Keys \cup {None}
  BY DEF TypeOK
<1>j. /\ job \in [Keys -> JobState]
      /\ {"queued", "running", "succeeded", "dead"}
            \subseteq {"absent", "queued", "running", "succeeded", "dead"}
  BY DEF TypeOK
<1>s. ASSUME NEW k, NEW s \in {"queued", "running", "succeeded", "dead"},
             job' = [job EXCEPT ![k].status = s]
      PROVE  /\ \A j \in Keys : job[j].status # "absent" => job'[j].status # "absent"
             /\ job' \in [Keys -> JobState]
  <2>1. \A j \in Keys : [job[j] EXCEPT !.status = s] \in JobState
    BY <1>j DEF JobState
  <2>2. \A j \in Keys : job'[j] = IF j = k THEN [job[j] EXCEPT !.status = s] ELSE job[j]
    BY <1>j, <1>s
  <2>3. \A j \in Keys : [job[j] EXCEPT !.status = s].status = s
    BY <1>j DEF JobState
  <2>4. job' \in [Keys -> JobState]
    BY <1>j, <1>s, <2>1, <2>2
  <2> QED BY <2>2, <2>3, <2>4
<1>1. ASSUME NEW e \in Executors, NEW k \in Keys, Claim(e, k)
      PROVE  /\ \A j \in Keys : job[j].status # "absent" => job'[j].status # "absent"
             /\ job' \in [Keys -> JobState]
  <2>1. [status |-> "running", attempt |-> job[k].attempt + 1] \in JobState
    BY <1>j DEF JobState
  <2>2. job' = [job EXCEPT ![k] = [status |-> "running", attempt |-> job[k].attempt + 1]]
    BY <1>1 DEF Claim
  <2> QED BY <1>j, <2>1, <2>2
<1>2. ASSUME NEW e \in Executors, Route(e)
      PROVE  /\ \A j \in Keys : job[j].status # "absent" => job'[j].status # "absent"
             /\ job' \in [Keys -> JobState]
  <2>1. job' = job \/ \E k : job' = [job EXCEPT ![k].status = "queued"]
    BY <1>2 DEF Route, Enqueue
  <2> QED BY <1>j, <1>s, <2>1
<1>3. ASSUME NEW e \in Executors, Complete(e) \/ GiveUp(e)
      PROVE  /\ \A j \in Keys : job[j].status # "absent" => job'[j].status # "absent"
             /\ job' \in [Keys -> JobState]
  <2>1. \E s \in {"queued", "succeeded", "dead"} : job' = [job EXCEPT ![exec[e].key].status = s]
    BY <1>3 DEF Complete, GiveUp
  <2> QED BY <1>s, <2>1
<1>4. ASSUME NEW k \in Keys, Redeliver(k)
      PROVE  /\ \A j \in Keys : job[j].status # "absent" => job'[j].status # "absent"
             /\ job' \in [Keys -> JobState]
  <2>1. job' = [job EXCEPT ![k].status = "queued"]
    BY <1>4 DEF Redeliver
  <2> QED BY <1>s, <2>1
<1>5. ASSUME NEW e \in Executors,
             \/ Work(e) \/ Review(e) \/ Publish(e) \/ Record(e) \/ EndPublish(e)
             \/ Save(e) \/ Audit(e) \/ Mark(e) \/ RaiseTransient(e) \/ RaisePermanent(e)
             \/ Crash(e) \/ RecordFails(e)
      PROVE  job' = job
  BY <1>5 DEF Work, Review, Publish, Record, EndPublish, Save, Audit, Mark, RaiseTransient,
     RaisePermanent, Crash, RecordFails
<1>6. CASE UNCHANGED vars
  BY <1>6, <1>j DEF vars
<1> QED BY <1>1, <1>2, <1>3, <1>4, <1>5, <1>6, <1>j DEF Next, Step

\* The rest of the state keeps its types; what is out, approved or counted stays.
OutGrows == /\ external' \in [Platforms -> Seq(Post)]
            /\ \A p \in Platforms : external[p] # <<>> => external'[p] # <<>>
CountsGrow == review' \in [Drafts -> Nat] /\ audited' \in [Audited -> Nat]
DraftsGrow == /\ made' \in Nat /\ made <= made'
              /\ approved \subseteq approved' /\ approved' \subseteq 1..made'
ErrorsGrow == errors' \in 0..MaxErrors /\ errors <= errors'
FaultsGrow == faults' \in 0..MaxFaults /\ faults <= faults'
Grows == OutGrows /\ CountsGrow /\ DraftsGrow /\ ErrorsGrow /\ FaultsGrow

LEMMA Growing ==
  ASSUME Basics, DurableRunAssumption, [Next]_vars
  PROVE  Grows
<1>x. external \in [Platforms -> Seq(Post)]
  BY DEF Basics, TypeOK
<1>t. /\ review \in [Drafts -> Nat] /\ audited \in [Audited -> Nat]
      /\ made \in Nat /\ approved \subseteq 1..made
  BY DEF Basics, TypeOK
<1>c. /\ errors \in 0..MaxErrors /\ faults \in 0..MaxFaults
      /\ MaxErrors \in Nat /\ MaxFaults \in Nat
  BY DEF Basics, TypeOK, DurableRunAssumption
<1>o. UNCHANGED external => OutGrows
  BY <1>x DEF OutGrows
<1>n. UNCHANGED <<review, audited>> => CountsGrow
  BY <1>t DEF CountsGrow
<1>d. UNCHANGED <<made, approved>> => DraftsGrow
  BY <1>t DEF DraftsGrow
<1>e. UNCHANGED errors => ErrorsGrow
  BY <1>c DEF ErrorsGrow
<1>f. UNCHANGED faults => FaultsGrow
  BY <1>c DEF FaultsGrow
<1>w. faults < MaxFaults /\ faults' = faults + 1 => FaultsGrow
  BY <1>c DEF FaultsGrow
<1>1. ASSUME NEW e \in Executors, Work(e) PROVE Grows
  <2>1. Worked(e) /\ UNCHANGED <<external, review, audited, errors, faults>>
    BY <1>1, WorkBecomes DEF Basics, Work
  <2>2. made' = made \/ made' = made + 1
    BY <2>1 DEF Worked
  <2>3. exec[e].copy.drafts <= made /\ exec[e].copy.drafts \in Nat
    BY DEF Basics, Records, Sound, SoundAt, TypeOK, RunRecord
  <2>4. approved \subseteq approved'
    BY <2>1 DEF Worked
  <2>5. approved' \subseteq 1..made'
    <3>1. CASE approved' = approved
      BY <1>t, <2>2, <3>1
    <3>2. ASSUME NEW r \in RunRecord, approved' = approved \cup {r.drafts}, r.drafts > 0,
                 made' = made, r.drafts # exec[e].copy.drafts => r.drafts = made'
          PROVE  approved' \subseteq 1..made'
      <4>1. r.drafts \in 1..made
        BY <1>t, <2>3, <3>2 DEF RunRecord
      <4> QED BY <1>t, <3>2, <4>1
    <3>3. CASE approved' = approved \cup {exec[e].copy.drafts} /\ exec[e].copy.drafts > 0 /\ made' = made
      <4>1. exec[e].copy.drafts \in 1..made
        BY <1>t, <2>3, <3>3
      <4> QED BY <1>t, <3>3, <4>1
    <3> QED BY <2>1, <3>1, <3>2, <3>3 DEF Worked
  <2>6. DraftsGrow
    BY <1>t, <2>2, <2>4, <2>5 DEF DraftsGrow
  <2> QED BY <1>o, <1>n, <1>e, <1>f, <2>1, <2>6 DEF Grows
<1>2. ASSUME NEW e \in Executors, Review(e) PROVE Grows
  <2>1. exec[e].at > 0
    BY <1>2 DEF Review, Basics, Shape, ShapeOf, ShapeAt
  <2>2. review' = review \/ \E d \in Drafts : review' = [review EXCEPT ![d] = @ + 1]
    BY <1>2, <2>1, ReviewBecomes DEF Basics
  <2>3. review' \in [Drafts -> Nat]
    <3>1. \A d \in Drafts : review[d] + 1 \in Nat
      BY <1>t
    <3> QED BY <1>t, <2>2, <3>1
  <2>4. UNCHANGED <<external, audited, made, approved, errors, faults>>
    BY <1>2 DEF Review
  <2>5. CountsGrow
    BY <1>t, <2>3, <2>4 DEF CountsGrow
  <2> QED BY <1>o, <1>d, <1>e, <1>f, <2>4, <2>5 DEF Grows
<1>3. ASSUME NEW e \in Executors, Publish(e) PROVE Grows
  <2>1. exec[e].at > 0
    BY <1>3 DEF Publish, Basics, Shape, ShapeOf, ShapeAt
  <2>2. external' = external \/
          \E p \in Platforms, q \in Post : external' = [external EXCEPT ![p] = Append(@, q)]
    BY <1>3, <2>1, PublishBecomes DEF Basics, Sends
  <2>3. OutGrows
    <3>1. \A p \in Platforms, q \in Post : /\ Append(external[p], q) \in Seq(Post)
                                          /\ Append(external[p], q) # <<>>
      <4>1. ASSUME NEW s \in Seq(Post), NEW q \in Post
            PROVE  Append(s, q) \in Seq(Post) /\ Append(s, q) # <<>>
        BY <4>1, AppendProperties
      <4> QED BY <1>x, <4>1
    <3> QED BY <1>x, <2>2, <3>1 DEF OutGrows
  <2>4. UNCHANGED <<review, audited, made, approved, errors, faults>>
    BY <1>3 DEF Publish
  <2> QED BY <1>n, <1>d, <1>e, <1>f, <2>3, <2>4 DEF Grows
<1>4. ASSUME NEW e \in Executors, Audit(e) PROVE Grows
  <2>1. audited' \in [Audited -> Nat]
    <3>1. \A s \in Audited : audited[s] + 1 \in Nat
      BY <1>t
    <3>2. audited' = [audited EXCEPT ![exec[e].copy.status] = audited[exec[e].copy.status] + 1]
      BY <1>4 DEF Audit
    <3>3. exec[e].copy.status \in Audited
      BY <1>4 DEF Audit, Basics, Shape, ShapeOf, ShapeAt
    <3> QED BY <1>t, <3>1, <3>2, <3>3
  <2>2. UNCHANGED <<external, review, made, approved, errors, faults>>
    BY <1>4 DEF Audit
  <2>3. CountsGrow
    BY <1>t, <2>1, <2>2 DEF CountsGrow
  <2> QED BY <1>o, <1>d, <1>e, <1>f, <2>2, <2>3 DEF Grows
<1>5. ASSUME NEW e \in Executors, RaiseTransient(e) PROVE Grows
  <2>1. /\ errors < MaxErrors /\ errors' = errors + 1
        /\ UNCHANGED <<external, review, audited, made, approved, faults>>
    BY <1>5 DEF RaiseTransient
  <2>2. ErrorsGrow
    BY <1>c, <2>1 DEF ErrorsGrow
  <2> QED BY <1>o, <1>n, <1>d, <1>f, <2>1, <2>2 DEF Grows
<1>7. ASSUME NEW e \in Executors, Crash(e) \/ RecordFails(e) PROVE Grows
  <2>1. /\ faults < MaxFaults /\ faults' = faults + 1
        /\ UNCHANGED <<external, review, audited, made, approved, errors>>
    BY <1>7 DEF Crash, RecordFails
  <2> QED BY <1>o, <1>n, <1>d, <1>e, <1>w, <2>1 DEF Grows
<1>8. ASSUME NEW k \in Keys, Redeliver(k) PROVE Grows
  <2>1. /\ (faults < MaxFaults /\ faults' = faults + 1) \/ faults' = faults
        /\ UNCHANGED <<external, review, audited, made, approved, errors>>
    BY <1>8 DEF Redeliver
  <2> QED BY <1>o, <1>n, <1>d, <1>e, <1>f, <1>w, <2>1 DEF Grows
<1>9. ASSUME NEW e \in Executors,
             \/ \E k \in Keys : Claim(e, k)
             \/ Record(e) \/ EndPublish(e) \/ Save(e) \/ Mark(e) \/ Route(e) \/ Complete(e)
             \/ RaisePermanent(e) \/ GiveUp(e)
      PROVE  Grows
  <2>1. UNCHANGED <<external, review, audited, made, approved, errors, faults>>
    BY <1>9 DEF Claim, Record, EndPublish, Save, Mark, Route, Complete, RaisePermanent, GiveUp
  <2> QED BY <1>o, <1>n, <1>d, <1>e, <1>f, <2>1 DEF Grows
<1>10. CASE UNCHANGED vars
  BY <1>10, <1>o, <1>n, <1>d, <1>e, <1>f DEF vars, Grows
<1> QED BY <1>1, <1>2, <1>3, <1>4, <1>5, <1>7, <1>8, <1>9, <1>10 DEF Next, Step

\* Consumer e alone moves, to a record that is typed, sound and in shape.
Kept(e) ==
    /\ exec' \in [Executors -> ExecRecord]
    /\ \A f \in Executors \ {e} : exec'[f] = exec[f]
    /\ SoundAt(exec'[e].copy, made', external')
    /\ ShapeAt(exec'[e], job', external')

LEMMA SoundStays ==
  ASSUME TypeOK, Grows
  PROVE  \A r \in RunRecord : Sound(r) => SoundAt(r, made', external')
<1>1. made \in Nat /\ made' \in Nat /\ made <= made'
  BY DEF TypeOK, Grows, DraftsGrow
<1>2. \A r \in RunRecord : r.drafts \in Nat /\ r.published \subseteq Platforms
  BY DEF RunRecord
<1>3. \A r \in RunRecord : r.drafts <= made => r.drafts <= made'
  BY <1>1, <1>2
<1> QED BY <1>2, <1>3 DEF Sound, SoundAt, Grows, OutGrows, Everywhere

LEMMA ShapeStays ==
  ASSUME TypeOK, DurableRunAssumption, Grows, [Next]_vars
  PROVE  \A x \in ExecRecord : ShapeOf(x) => ShapeAt(x, job', external')
<1>1. \A k \in Keys : job[k].status # "absent" => job'[k].status # "absent"
  BY Monotone
<1>2. \A i \in 1..Len(Targets) : external[Targets[i]] # <<>> => external'[Targets[i]] # <<>>
  BY TargetsAre DEF Grows, OutGrows
<1> SUFFICES ASSUME NEW x \in ExecRecord, ShapeOf(x) PROVE ShapeAt(x, job', external')
  OBVIOUS
<1>3. x.pc = "recording" => x.at \in 1..Len(Targets)
  BY DEF ShapeOf, ShapeAt, ExecRecord
<1>4. x.pc = "recording" => external'[Targets[x.at]] # <<>>
  BY <1>2, <1>3 DEF ShapeOf, ShapeAt
<1> QED BY <1>1, <1>2, <1>4 DEF ShapeOf, ShapeAt

\* Steps that only move the pc, and keep what the shape says of it.
LEMMA SameCopy ==
  ASSUME Basics, DurableRunAssumption, Grows, [Next]_vars, NEW e \in Executors, NEW pc,
         NEW next, NEW at, NEW posted, NEW loaded,
         Becomes(e, pc, exec[e].key, exec[e].copy, next, at, posted, loaded)
  PROVE  SoundAt(exec'[e].copy, made', external')
BY SoundStays DEF Becomes, Basics, Records, TypeOK

LEMMA KeptStep ==
  ASSUME Basics, DurableRunAssumption, Grows, [Next]_vars, NEW e \in Executors,
         Step(e) \/ Crash(e) \/ RecordFails(e)
  PROVE  Kept(e)
<1>a. exec \in [Executors -> ExecRecord] /\ run \in RunRecord /\ TypeOK
  BY DEF Basics, TypeOK, ExecRecord, Pcs, Nexts
<1> DEFINE x == exec[e]
<1>b. x \in ExecRecord /\ x.copy \in RunRecord /\ x.at \in Nat /\ x.posted \subseteq Platforms
      /\ x.copy.posts \subseteq Platforms
  BY <1>a DEF ExecRecord, RunRecord
<1>c. Sound(x.copy) /\ ShapeOf(x) /\ Sound(run)
  BY DEF Basics, Records, Shape
<1>d. SoundAt(x.copy, made', external') /\ ShapeAt(x, job', external') /\ SoundAt(run, made', external')
  BY <1>a, <1>b, <1>c, SoundStays, ShapeStays
<1>1. ASSUME NEW k \in Keys, Claim(e, k) PROVE Kept(e)
  <2> DEFINE pc == IF k.phase = "publish" THEN "publishing" ELSE "working"
             c == [run EXCEPT !.status = PhaseStatus(k.phase, run.status)]
  <2>1. PICK loaded : Becomes(e, pc, k, c, None, 1, {}, loaded)
    BY <1>1, <1>a, ClaimBecomes
  <2>2. c.drafts = run.drafts /\ c.published = run.published /\ c.posts = run.posts
    BY <1>a DEF RunRecord
  <2>3. job'[k].status # "absent"
    BY <1>1, <1>a DEF Claim, TypeOK
  <2> HIDE DEF c
  <2>4. SoundAt(exec'[e].copy, made', external')
    BY <1>d, <2>1, <2>2 DEF Becomes, SoundAt
  <2>5. ShapeAt(exec'[e], job', external')
    BY <2>1, <2>3 DEF Becomes, ShapeAt
  <2> QED BY <2>1, <2>4, <2>5 DEF Kept, Becomes
<1>2. CASE Work(e)
  <2>1. Worked(e)
    BY <1>2, <1>a, WorkBecomes
  <2>2. x.pc = "working" /\ external' = external
    BY <1>2 DEF Work, Select, Plan, Tailor, Execute, Critique, Working
  <2>3. made \in Nat /\ made' \in Nat /\ x.copy.drafts \in Nat
    BY <1>a, <1>b DEF TypeOK, Grows, DraftsGrow, RunRecord
  <2>4. ASSUME NEW r \in RunRecord, NEW n \in Nexts \ {"dead"},
               Becomes(e, "saving", x.key, r, n, x.at, x.posted, x.loaded),
               r.published = x.copy.published, r.posts = x.copy.posts,
               r.drafts # x.copy.drafts => r.drafts = made' /\ made' = made + 1
        PROVE  Kept(e)
    <3>1. r.drafts <= made'
      BY <1>d, <2>3, <2>4 DEF SoundAt
    <3>2. SoundAt(exec'[e].copy, made', external')
      BY <1>d, <2>4, <3>1 DEF Becomes, SoundAt
    <3>3. x.posted # {} => r.drafts > 0
      BY <1>c, <2>3, <2>4 DEF ShapeOf, ShapeAt
    <3>4. ShapeAt(exec'[e], job', external')
      BY <1>d, <2>2, <2>4, <3>3 DEF Becomes, ShapeAt
    <3> QED BY <2>4, <3>2, <3>4 DEF Kept, Becomes
  <2>5. ASSUME Becomes(e, "reviewing", x.key, [x.copy EXCEPT !.status = "awaiting_review"],
                       x.next, x.at, x.posted, x.loaded)
        PROVE  Kept(e)
    <3> DEFINE c == [x.copy EXCEPT !.status = "awaiting_review"]
    <3>1. c.drafts = x.copy.drafts /\ c.published = x.copy.published /\ c.posts = x.copy.posts
      BY <1>b DEF RunRecord
    <3>2. Becomes(e, "reviewing", x.key, c, x.next, x.at, x.posted, x.loaded)
      BY <2>5
    <3> HIDE DEF c
    <3>3. SoundAt(exec'[e].copy, made', external')
      BY <1>d, <3>1, <3>2 DEF Becomes, SoundAt
    <3>4. ShapeAt(exec'[e], job', external')
      BY <1>d, <2>2, <3>1, <3>2 DEF Becomes, ShapeAt
    <3> QED BY <3>2, <3>3, <3>4 DEF Kept, Becomes
  <2> QED BY <2>1, <2>4, <2>5 DEF Worked
<1>3. CASE Review(e)
  <2>1. x.pc = "reviewing" /\ x.at > 0
    BY <1>3, <1>c DEF Review, ShapeOf, ShapeAt
  <2>2. CASE Becomes(e, "saving", x.key, x.copy, None, x.at, x.posted, x.loaded)
    <3>1. None # "dead"
      BY DEF DurableRunAssumption
    <3>2. ShapeAt(exec'[e], job', external')
      BY <1>d, <2>1, <2>2, <3>1 DEF Becomes, ShapeAt
    <3> QED BY <1>d, <2>2, <3>2 DEF Kept, Becomes
  <2>4. CASE Becomes(e, "reviewing", x.key, x.copy, x.next, x.at + 1, x.posted, x.loaded)
    <3>1. x.at + 1 > 0
      BY <1>b
    <3>2. ShapeAt(exec'[e], job', external')
      BY <1>d, <2>1, <2>4, <3>1 DEF Becomes, ShapeAt
    <3> QED BY <1>d, <2>4, <3>2 DEF Kept, Becomes
  <2>3. ASSUME NEW d \in Drafts,
               Becomes(e, "reviewing", x.key, [x.copy EXCEPT !.tags = x.copy.tags \cup {d}],
                       x.next, x.at + 1, x.posted, x.loaded)
        PROVE  Kept(e)
    <3> DEFINE c == [x.copy EXCEPT !.tags = x.copy.tags \cup {d}]
    <3>1. c.drafts = x.copy.drafts /\ c.published = x.copy.published /\ c.posts = x.copy.posts
      BY <1>b DEF RunRecord
    <3>2. Becomes(e, "reviewing", x.key, c, x.next, x.at + 1, x.posted, x.loaded)
      BY <2>3
    <3> HIDE DEF c
    <3>3. SoundAt(exec'[e].copy, made', external')
      BY <1>d, <3>1, <3>2 DEF Becomes, SoundAt
    <3>4. x.at + 1 > 0
      BY <1>b
    <3>5. ShapeAt(exec'[e], job', external')
      BY <1>d, <2>1, <3>1, <3>2, <3>4 DEF Becomes, ShapeAt
    <3> QED BY <3>2, <3>3, <3>5 DEF Kept, Becomes
  <2> QED BY <1>3, <1>a, <2>1, <2>2, <2>3, <2>4, ReviewBecomes
<1>4. CASE Publish(e)
  <2>1. x.pc = "publishing" /\ x.at > 0 /\ x.copy.drafts > 0 /\ x.at \in 1..Len(Targets)
    BY <1>4, <1>b, <1>c DEF Publish, ShapeOf, ShapeAt
  <2>2. PICK p \in Platforms :
            /\ p = Targets[x.at]
            /\ \/ /\ p \in x.copy.published \/ x.loaded = {}
                  /\ external' = external
                  /\ Becomes(e, "publishing", x.key, x.copy, x.next, x.at + 1, x.posted, x.loaded)
               \/ /\ p \notin x.copy.published /\ x.loaded # {}
                  /\ Sends(p, x)
                  /\ Becomes(e, "recording", x.key, x.copy, x.next, x.at, x.posted, x.loaded)
    BY <1>4, <1>a, <2>1, PublishBecomes
  <2>3. x.loaded # {} => external'[p] # <<>>
    <3>1. external \in [Platforms -> Seq(Post)]
      BY <1>a DEF TypeOK
    <3>2. CASE external' = external /\ p \in x.copy.published
      BY <1>c, <3>2 DEF Sound, SoundAt
    <3>3. ASSUME NEW q \in Post, external' = [external EXCEPT ![p] = Append(@, q)]
          PROVE  external'[p] # <<>>
      <4>1. ASSUME NEW s \in Seq(Post) PROVE Append(s, q) # <<>>
        BY <4>1, AppendProperties
      <4> QED BY <3>1, <3>3, <4>1
    <3> QED BY <2>2, <3>2, <3>3 DEF Sends
  <2>4. CASE Becomes(e, "publishing", x.key, x.copy, x.next, x.at + 1, x.posted, x.loaded)
    <3>1. \A i \in 1..Len(Targets) : i < x.at + 1 => i < x.at \/ i = x.at
      BY <1>b
    <3>2. x.at + 1 > 0
      BY <1>b
    <3>3. \A i \in 1..Len(Targets) :
             i < x.at + 1 /\ x.loaded # {} => external'[Targets[i]] # <<>>
      BY <1>d, <2>1, <2>2, <2>3, <3>1 DEF ShapeAt
    <3>4. ShapeAt(exec'[e], job', external')
      BY <1>d, <2>1, <2>4, <3>2, <3>3 DEF Becomes, ShapeAt
    <3> QED BY <1>d, <2>4, <3>4 DEF Kept, Becomes
  <2>5. CASE /\ Becomes(e, "recording", x.key, x.copy, x.next, x.at, x.posted, x.loaded)
             /\ x.loaded # {}
    <3>1. x.at <= Len(Targets) /\ external'[Targets[x.at]] # <<>>
      BY <2>1, <2>2, <2>3, <2>5
    <3>2. ShapeAt(exec'[e], job', external')
      BY <1>d, <2>1, <2>5, <3>1 DEF Becomes, ShapeAt
    <3> QED BY <1>d, <2>5, <3>2 DEF Kept, Becomes
  <2> QED BY <2>2, <2>4, <2>5
<1>5. CASE Record(e)
  <2>1. /\ x.pc = "recording" /\ x.at > 0 /\ x.at <= Len(Targets) /\ x.copy.drafts > 0
        /\ x.loaded # {} /\ external'[Targets[x.at]] # <<>>
    BY <1>5, <1>c, <1>d DEF Record, ShapeOf, ShapeAt
  <2>2. PICK p \in Platforms :
            /\ p = Targets[x.at]
            /\ Becomes(e, "publishing", x.key,
                       [x.copy EXCEPT !.published = x.copy.published \cup {p}],
                       x.next, x.at + 1, x.posted \cup {p}, x.loaded)
    BY <1>5, <1>a, <2>1, RecordBecomes
  <2> DEFINE c == [x.copy EXCEPT !.published = x.copy.published \cup {p}]
  <2>3. /\ c.drafts = x.copy.drafts /\ c.published = x.copy.published \cup {p}
        /\ c.posts = x.copy.posts
    BY <1>b DEF RunRecord
  <2>4. Becomes(e, "publishing", x.key, c, x.next, x.at + 1, x.posted \cup {p}, x.loaded)
    BY <2>2
  <2> HIDE DEF c
  <2>5. SoundAt(exec'[e].copy, made', external')
    BY <1>d, <2>1, <2>2, <2>3, <2>4 DEF Becomes, SoundAt
  <2>6. x.at + 1 > 0 /\ \A i \in 1..Len(Targets) : i < x.at + 1 => i < x.at \/ i = x.at
    BY <1>b
  <2>7. \A i \in 1..Len(Targets) : i < x.at + 1 => external'[Targets[i]] # <<>>
    BY <1>d, <2>1, <2>6 DEF ShapeAt
  <2>8. ShapeAt(exec'[e], job', external')
    BY <1>d, <2>1, <2>3, <2>4, <2>6, <2>7 DEF Becomes, ShapeAt
  <2> QED BY <2>4, <2>5, <2>8 DEF Kept, Becomes
<1>6. CASE EndPublish(e)
  <2> DEFINE posts == x.copy.posts \cup x.posted
             s == IF posts = {} THEN "failed" ELSE "succeeded"
             c == [x.copy EXCEPT !.posts = posts, !.status = s]
  <2>1. /\ x.pc = "publishing" /\ x.at > 0 /\ (x.copy.drafts = 0 \/ x.at > Len(Targets))
        /\ external' = external
        /\ Finish(e, c, None)
    BY <1>6, <1>c DEF EndPublish, ShapeOf, ShapeAt
  <2>2. c \in RunRecord
    BY <1>b, RunUpdates, Names DEF RunRecord
  <2>3. c.drafts = x.copy.drafts /\ c.published = x.copy.published /\ c.posts = posts
    BY <1>b DEF RunRecord
  <2> HIDE DEF c
  <2>4. Becomes(e, "saving", x.key, c, None, x.at, x.posted, x.loaded)
    BY <1>a, <2>1, <2>2, FinishBecomes, Names
  <2>5. posts # {} => Everywhere(external')
    <3>1. CASE x.copy.posts # {}
      BY <1>d, <3>1 DEF SoundAt
    <3>2. CASE x.posted # {}
      <4>1. x.copy.drafts > 0 /\ x.copy.drafts \in Nat /\ x.loaded # {}
        BY <1>b, <1>c, <3>2 DEF ShapeOf, ShapeAt, RunRecord
      <4>2. x.at > Len(Targets)
        BY <2>1, <4>1
      <4>3. \A i \in 1..Len(Targets) : i < x.at
        BY <1>b, <4>2, TargetsAre
      <4>4. \A i \in 1..Len(Targets) : external'[Targets[i]] # <<>>
        BY <1>d, <2>1, <4>1, <4>3 DEF ShapeAt
      <4> QED BY <4>4 DEF Everywhere, Platforms, Drafts
    <3> QED BY <3>1, <3>2
  <2>6. SoundAt(exec'[e].copy, made', external')
    BY <1>d, <2>3, <2>4, <2>5 DEF Becomes, SoundAt
  <2>7. None # "dead"
    BY DEF DurableRunAssumption
  <2>8. ShapeAt(exec'[e], job', external')
    BY <1>d, <2>1, <2>3, <2>4, <2>7 DEF Becomes, ShapeAt
  <2> QED BY <2>4, <2>6, <2>8 DEF Kept, Becomes
<1>7. CASE Audit(e)
  <2> DEFINE c == [x.copy EXCEPT !.emitted = x.copy.emitted \cup {x.copy.status}]
  <2>1. x.pc = "auditing" /\ x.copy.status \in Audited
    BY <1>7, <1>c DEF Audit, ShapeOf, ShapeAt
  <2>2. Becomes(e, "marking", x.key, c, x.next, x.at, x.posted, x.loaded)
    BY <1>7, <1>a, <2>1, AuditBecomes
  <2>3. c.drafts = x.copy.drafts /\ c.published = x.copy.published /\ c.posts = x.copy.posts
    BY <1>b DEF RunRecord
  <2> HIDE DEF c
  <2>4. SoundAt(exec'[e].copy, made', external')
    BY <1>d, <2>2, <2>3 DEF Becomes, SoundAt
  <2>5. ShapeAt(exec'[e], job', external')
    BY <1>d, <2>1, <2>2, <2>3 DEF Becomes, ShapeAt
  <2> QED BY <2>2, <2>4, <2>5 DEF Kept, Becomes
<1>8. CASE RaisePermanent(e)
  <2>1. Becomes(e, "giving up", x.key, x.copy, "dead", x.at, x.posted, x.loaded)
    BY <1>8, <1>a, DeadBecomes
  <2>2. x.pc # "idle"
    BY <1>8 DEF RaisePermanent
  <2>3. ShapeAt(exec'[e], job', external')
    BY <1>d, <2>1, <2>2 DEF Becomes, ShapeAt
  <2> QED BY <1>d, <2>1, <2>3 DEF Kept, Becomes
<1>9. CASE Save(e) \/ Mark(e) \/ Route(e) \/ RaiseTransient(e) \/ RecordFails(e)
  <2>1. /\ \/ exec' = [exec EXCEPT ![e].pc = "auditing"]
              /\ x.copy.status \in Audited \ x.copy.emitted /\ x.next # "dead"
           \/ exec' = [exec EXCEPT ![e].pc = "routing"] /\ x.next # "dead"
           \/ exec' = [exec EXCEPT ![e].pc = "completing"]
           \/ exec' = [exec EXCEPT ![e].pc = "giving up"]
        /\ x.pc # "idle"
    <3>1. CASE Save(e)
      BY <1>c, <3>1 DEF Save, ShapeOf, ShapeAt
    <3>2. CASE Mark(e)
      BY <1>c, <3>2 DEF Mark, ShapeOf, ShapeAt
    <3>3. CASE Route(e) \/ RaiseTransient(e) \/ RecordFails(e)
      BY <3>3 DEF Route, RaiseTransient, RecordFails
    <3> QED BY <1>9, <3>1, <3>2, <3>3
  <2>2. ASSUME NEW pc \in {"auditing", "routing", "completing", "giving up"},
               exec' = [exec EXCEPT ![e].pc = pc],
               pc = "auditing" => x.copy.status \in Audited \ x.copy.emitted,
               pc \in {"auditing", "routing"} => x.next # "dead"
        PROVE  Kept(e)
    <3>1. pc \in Pcs
      BY Names
    <3>2. Becomes(e, pc, x.key, x.copy, x.next, x.at, x.posted, x.loaded)
      BY <1>a, <2>2, <3>1, PcBecomes
    <3>3. ShapeAt(exec'[e], job', external')
      BY <1>d, <2>1, <2>2, <3>2 DEF Becomes, ShapeAt
    <3> QED BY <1>d, <3>2, <3>3 DEF Kept, Becomes
  <2> QED BY <2>1, <2>2
<1>10. CASE Complete(e) \/ GiveUp(e) \/ Crash(e)
  <2>1. exec' = [exec EXCEPT ![e] = Idle]
    BY <1>10 DEF Complete, GiveUp, Crash
  <2>2. exec'[e] = Idle /\ Becomes(e, "idle", None, NewRun, None, 0, {}, {})
    BY <1>a, <2>1, IdleBecomes
  <2>3. SoundAt(exec'[e].copy, made', external')
    <3>1. made' \in Nat
      BY DEF Grows, DraftsGrow
    <3> QED BY <2>2, <3>1 DEF Becomes, SoundAt, NewRun
  <2>4. ShapeAt(exec'[e], job', external')
    BY <2>2 DEF Becomes, ShapeAt
  <2> QED BY <2>2, <2>3, <2>4 DEF Kept, Becomes
<1> QED BY <1>1, <1>2, <1>3, <1>4, <1>5, <1>6, <1>7, <1>8, <1>9, <1>10 DEF Step

\* The run row is the copy of a consumer, or stays.
LEMMA RunStep ==
  ASSUME Basics, DurableRunAssumption, Grows, [Next]_vars
  PROVE  run' \in RunRecord /\ SoundAt(run', made', external')
<1>a. exec \in [Executors -> ExecRecord] /\ run \in RunRecord /\ TypeOK
  BY DEF Basics, TypeOK, ExecRecord, Pcs, Nexts
<1>b. \A e \in Executors : exec[e].copy \in RunRecord
  BY <1>a DEF ExecRecord
<1>c. Sound(run) /\ \A e \in Executors : Sound(exec[e].copy)
  BY DEF Basics, Records
<1>1. CASE run' = run
  BY <1>1, <1>a, <1>c, SoundStays
<1>2. CASE \E e \in Executors : run' = exec[e].copy
  BY <1>2, <1>a, <1>b, <1>c, SoundStays
<1>3. ASSUME NEW e \in Executors, run' = [exec[e].copy EXCEPT !.status = "failed"]
      PROVE  run' \in RunRecord /\ SoundAt(run', made', external')
  <2>1. run' \in RunRecord
    BY <1>b, <1>3, RunUpdates, Names
  <2>2. /\ run'.drafts = exec[e].copy.drafts /\ run'.published = exec[e].copy.published
        /\ run'.posts = exec[e].copy.posts
    BY <1>b, <1>3 DEF RunRecord
  <2>3. SoundAt(exec[e].copy, made', external')
    BY <1>a, <1>b, <1>c, SoundStays
  <2> QED BY <2>1, <2>2, <2>3 DEF SoundAt
<1>4. \/ run' = run
      \/ \E e \in Executors : run' = exec[e].copy
      \/ \E e \in Executors : run' = [exec[e].copy EXCEPT !.status = "failed"]
  BY DEF Next, Step, vars, Claim, Work, Review, Publish, Record, EndPublish, Save, Audit, Mark,
     Route, Complete, RaiseTransient, RaisePermanent, GiveUp, Crash, RecordFails, Redeliver,
     SavedOnError
<1> QED BY <1>1, <1>2, <1>3, <1>4

\* One consumer moves, or none.
LEMMA Moves ==
  ASSUME Basics, DurableRunAssumption, [Next]_vars
  PROVE  \/ exec' = exec
         \/ \E e \in Executors : (Step(e) \/ Crash(e) \/ RecordFails(e)) /\ Kept(e)
<1>1. CASE UNCHANGED vars \/ \E k \in Keys : Redeliver(k)
  BY <1>1 DEF vars, Redeliver
<1>2. ASSUME NEW e \in Executors, Step(e) \/ Crash(e) \/ RecordFails(e)
      PROVE  Kept(e)
  BY <1>2, Growing, KeptStep
<1> QED BY <1>1, <1>2 DEF Next

\* An account that was not found is not found again for the record.
LEMMA MissedGrows ==
  ASSUME TypeOK, [Next]_vars
  PROVE  missed' \subseteq Plugins /\ missed \subseteq missed'
<1>1. ASSUME NEW e \in Executors, NEW k \in Keys, Claim(e, k)
      PROVE  missed' = missed \/ \E s : missed' = missed \cup (Plugins \ s)
  BY <1>1 DEF Claim
<1>2. missed' = missed \/ \E s : missed' = missed \cup (Plugins \ s)
  BY <1>1 DEF Next, Step, vars, Work, Review, Publish, Record, EndPublish, Save, Audit, Mark,
     Route, Complete, RaiseTransient, RaisePermanent, GiveUp, Crash, RecordFails, Redeliver
<1> QED BY <1>2 DEF TypeOK

LEMMA BasicsStep == ASSUME Basics, DurableRunAssumption, [Next]_vars PROVE Basics'
<1>a. TypeOK /\ exec \in [Executors -> ExecRecord]
  BY DEF Basics, TypeOK, ExecRecord, Pcs, Nexts
<1>g. Grows
  BY Growing
<1>1. \A f \in Executors : exec[f] \in ExecRecord /\ exec[f].copy \in RunRecord
  BY <1>a DEF ExecRecord
<1>2. \A f \in Executors : /\ SoundAt(exec[f].copy, made', external')
                           /\ ShapeAt(exec[f], job', external')
  BY <1>a, <1>g, <1>1, SoundStays, ShapeStays DEF Basics, Records, Shape
<1>3. exec' \in [Executors -> ExecRecord]
  BY <1>a, Moves DEF Kept
<1>4. \A f \in Executors : /\ SoundAt(exec'[f].copy, made', external')
                           /\ ShapeAt(exec'[f], job', external')
  BY <1>2, Moves DEF Kept
<1>5. run' \in RunRecord /\ SoundAt(run', made', external')
  BY <1>g, RunStep
<1>6. Records' /\ Shape'
  BY <1>4, <1>5 DEF Records, Shape, Sound, ShapeOf
<1>7. TypeOK'
  <2>1. job' \in [Keys -> JobState]
    BY <1>a, Monotone
  <2>2. /\ external' \in [Platforms -> Seq(Post)]
        /\ review' \in [Drafts -> Nat] /\ audited' \in [Audited -> Nat]
        /\ approved' \subseteq 1..made' /\ made' \in Nat
        /\ errors' \in 0..MaxErrors /\ faults' \in 0..MaxFaults
        /\ missed' \subseteq Plugins
    BY <1>a, <1>g, MissedGrows
       DEF Grows, OutGrows, CountsGrow, DraftsGrow, ErrorsGrow, FaultsGrow
  <2> QED BY <1>3, <1>5, <2>1, <2>2 DEF TypeOK, ExecRecord, Pcs, Nexts
<1> QED BY <1>6, <1>7 DEF Basics

LEMMA BasicsInit == ASSUME DurableRunAssumption, Init PROVE Basics
<1>1. NewRun \in RunRecord /\ Idle \in ExecRecord
  BY IdleTyped
<1>2. exec \in [Executors -> ExecRecord]
  BY <1>1 DEF Init
<1>3. job \in [Keys -> JobState]
  BY DEF Init, JobState
<1>4. external \in [Platforms -> Seq(Post)] /\ missed \subseteq Plugins
  BY DEF Init
<1>5. review \in [Drafts -> Nat] /\ audited \in [Audited -> Nat]
  BY DEF Init
<1>6. /\ approved \subseteq 1..made /\ made \in Nat
      /\ errors \in 0..MaxErrors /\ faults \in 0..MaxFaults
  BY DEF Init, DurableRunAssumption
<1>7. TypeOK
  BY <1>1, <1>2, <1>3, <1>4, <1>5, <1>6 DEF TypeOK, Init, ExecRecord, Pcs, Nexts
<1>8. Records
  BY DEF Init, Records, Sound, SoundAt, NewRun, Idle
<1>9. Shape
  BY DEF Init, Shape, ShapeOf, ShapeAt, Idle
<1> QED BY <1>7, <1>8, <1>9 DEF Basics

LEMMA BasicsHold == Spec => []Basics
  BY BasicsInit, BasicsStep, DurableRunAssumption, PTL DEF Spec

\* The run row, the consumers' copies of it, its jobs and what was sent out keep
\* their types, whatever a consumer's stale copy overwrites.
THEOREM TypeCorrect == Spec => []TypeOK
<1>1. Basics => TypeOK
  BY DEF Basics
<1> QED BY BasicsHold, <1>1, PTL

\* A publish phase has every account that no phase ever missed, so a draft for its
\* plugin goes there; a draft for a plugin that was missed may go to another.
FoundAt(x, gone) == x.pc \in {"publishing", "recording"} => Plugins \ gone \subseteq PluginsOf(x.loaded)
Found == \A e \in Executors : FoundAt(exec[e], missed)
PlacedAt(out, gone) ==
    \A p \in Platforms : p \in Plugins \ gone => \A i \in 1..Len(out[p]) : out[p][i].on = p
Placed == PlacedAt(external, missed)

LEMMA FoundStep ==
  ASSUME Basics, Found, DurableRunAssumption, [Next]_vars
  PROVE  Found'
<1>a. TypeOK /\ missed \subseteq missed'
  BY MissedGrows DEF Basics
<1>s. ASSUME NEW x, FoundAt(x, missed) PROVE FoundAt(x, missed')
  BY <1>s, <1>a DEF FoundAt
<1>0. CASE exec' = exec
  BY <1>0, <1>s DEF Found
<1>1. ASSUME NEW e \in Executors, Step(e) \/ Crash(e) \/ RecordFails(e), Kept(e)
      PROVE  Found'
  <2>1. \A f \in Executors \ {e} : exec'[f] = exec[f]
    BY <1>1 DEF Kept
  <2>2. SUFFICES FoundAt(exec'[e], missed')
    BY <1>s, <2>1 DEF Found
  <2>3. SUFFICES ASSUME exec'[e].pc \in {"publishing", "recording"}
                 PROVE  Plugins \ missed' \subseteq PluginsOf(exec'[e].loaded)
    BY DEF FoundAt
  <2>4. ASSUME NEW k \in Keys, Claim(e, k)
        PROVE  Plugins \ missed' \subseteq PluginsOf(exec'[e].loaded)
    <3>1. PICK loaded \in LoadPlatforms(k.phase) :
             /\ exec'[e].pc = (IF k.phase = "publish" THEN "publishing" ELSE "working")
             /\ exec'[e].loaded = loaded
             /\ missed' = IF k.phase = "publish" THEN missed \cup (Plugins \ PluginsOf(loaded))
                                                  ELSE missed
      BY <1>a, <2>4, ClaimBecomes DEF Becomes
    <3> QED BY <2>3, <3>1
  <2>5. CASE exec[e].pc \in {"publishing", "recording"} /\ exec'[e].loaded = exec[e].loaded
    <3>1. FoundAt(exec[e], missed')
      BY <1>s DEF Found
    <3> QED BY <2>5, <3>1 DEF FoundAt
  <2>6. exec[e].at > 0 \/ exec[e].pc = "idle"
    BY DEF Basics, Shape, ShapeOf, ShapeAt
  <2>7. CASE Publish(e)
    <3>1. exec[e].pc = "publishing"
      BY <2>7 DEF Publish
    <3>2. exec'[e].loaded = exec[e].loaded
      BY <1>a, <2>6, <2>7, <3>1, PublishBecomes DEF Becomes
    <3> QED BY <2>5, <3>1, <3>2
  <2>8. CASE Record(e)
    <3>1. exec[e].pc = "recording" /\ exec[e].at <= Len(Targets)
      BY <2>8 DEF Record, Basics, Shape, ShapeOf, ShapeAt
    <3>2. exec'[e].loaded = exec[e].loaded
      BY <1>a, <2>6, <2>8, <3>1, RecordBecomes DEF Becomes
    <3> QED BY <2>5, <3>1, <3>2
  <2>9. exec \in [Executors -> ExecRecord]
    BY <1>a DEF TypeOK, ExecRecord, Pcs, Nexts
  <2>10. CASE Work(e)
    BY <1>a, <2>3, <2>10, WorkBecomes DEF Worked, Becomes
  <2>11. CASE Review(e)
    <3>1. exec[e].pc = "reviewing"
      BY <2>11 DEF Review
    <3>2. exec'[e].pc \in {"saving", "reviewing"}
      BY <1>a, <2>6, <2>11, <3>1, ReviewBecomes DEF Becomes
    <3> QED BY <2>3, <3>2
  <2>12. CASE EndPublish(e)
    <3>1. exec'[e].pc = "saving"
      BY <2>9, <2>12 DEF EndPublish, Finish, ExecRecord
    <3> QED BY <2>3, <3>1
  <2>13. CASE \/ Save(e) \/ Audit(e) \/ Mark(e) \/ Route(e)
              \/ RaiseTransient(e) \/ RaisePermanent(e) \/ RecordFails(e)
    <3>1. CASE Save(e) \/ Mark(e) \/ Route(e) \/ RaiseTransient(e) \/ RecordFails(e)
      <4>1. \E pc \in {"auditing", "routing", "completing", "giving up"} :
               exec' = [exec EXCEPT ![e].pc = pc]
        BY <3>1 DEF Save, Mark, Route, RaiseTransient, RecordFails
      <4>2. exec'[e].pc \in {"auditing", "routing", "completing", "giving up"}
        BY <2>9, <4>1 DEF ExecRecord
      <4> QED BY <2>3, <4>2
    <3>2. CASE Audit(e)
      <4>1. exec[e].copy.status \in Audited
        BY <3>2 DEF Audit, Basics, Shape, ShapeOf, ShapeAt
      <4> QED BY <1>a, <2>3, <3>2, <4>1, AuditBecomes DEF Becomes
    <3>3. CASE RaisePermanent(e)
      BY <1>a, <2>3, <3>3, DeadBecomes DEF Becomes
    <3> QED BY <2>13, <3>1, <3>2, <3>3
  <2>14. CASE Complete(e) \/ GiveUp(e) \/ Crash(e)
    <3>1. exec'[e] = Idle
      BY <2>9, <2>14 DEF Complete, GiveUp, Crash
    <3> QED BY <2>3, <3>1 DEF Idle
  <2> QED BY <1>1, <2>4, <2>7, <2>8, <2>10, <2>11, <2>12, <2>13, <2>14 DEF Step
<1> QED BY <1>0, <1>1, Moves

LEMMA PlacedStep ==
  ASSUME Basics, Found, Placed, DurableRunAssumption, [Next]_vars
  PROVE  Placed'
<1>a. TypeOK /\ missed \subseteq missed' /\ external \in [Platforms -> Seq(Post)]
  BY MissedGrows DEF Basics, TypeOK
<1>1. CASE external' = external
  BY <1>1, <1>a DEF Placed, PlacedAt
<1>2. ASSUME NEW e \in Executors, Publish(e), external' # external
      PROVE  Placed'
  <2>1. exec[e].pc = "publishing" /\ exec[e].at > 0 /\ missed' = missed
    BY <1>2 DEF Publish, Basics, Shape, ShapeOf, ShapeAt
  <2>2. PICK p \in Platforms : Sends(p, exec[e])
    BY <1>2, <1>a, <2>1, PublishBecomes
  <2>3. PICK q \in Post : /\ q.on \in Match(p, exec[e].loaded)
                         /\ external' = [external EXCEPT ![p] = Append(@, q)]
    BY <2>2 DEF Sends
  <2>4. p \in Plugins \ missed => q.on = p
    BY <2>1, <2>3 DEF Found, FoundAt, Match
  <2>5. ASSUME NEW r \in Platforms, r \in Plugins \ missed', NEW i \in 1..Len(external'[r])
        PROVE  external'[r][i].on = r
    <3>1. CASE r # p
      <4>1. external'[r] = external[r]
        BY <1>a, <2>3, <3>1
      <4> QED BY <2>1, <2>5, <4>1 DEF Placed, PlacedAt
    <3>2. CASE r = p
      <4>1. external'[r] = Append(external[p], q) /\ external[p] \in Seq(Post)
        BY <1>a, <2>3, <3>2
      <4>2. CASE i <= Len(external[p])
        <5>1. external'[r][i] = external[p][i] /\ i \in 1..Len(external[p])
          BY <4>1, <4>2
        <5> QED BY <2>1, <2>5, <3>2, <5>1 DEF Placed, PlacedAt
      <4>3. CASE ~(i <= Len(external[p]))
        <5>1. external'[r][i] = q
          BY <4>1, <4>3
        <5> QED BY <2>1, <2>4, <2>5, <3>2, <5>1
      <4> QED BY <4>2, <4>3
    <3> QED BY <3>1, <3>2
  <2> QED BY <2>5 DEF Placed, PlacedAt
<1>3. external' = external \/ \E e \in Executors : Publish(e)
  BY DEF Next, Step, vars, Claim, Work, Review, Record, EndPublish, Save, Audit, Mark,
     Route, Complete, RaiseTransient, RaisePermanent, GiveUp, Crash, RecordFails, Redeliver
<1> QED BY <1>1, <1>2, <1>3

LEMMA PlacedHold == Spec => [](Found /\ Placed)
<1>1. Init => Found /\ Placed
  BY DEF Init, Found, FoundAt, Placed, PlacedAt, Idle
<1>2. Basics /\ Found /\ Placed /\ [Next]_vars => (Found /\ Placed)'
  BY FoundStep, PlacedStep, DurableRunAssumption
<1> QED BY <1>1, <1>2, BasicsHold, PTL DEF Spec

\* A run that says it succeeded by publishing has a post for every platform its drafts
\* name, even after crashes, redeliveries and retries that skip what their copy marks as
\* published; and the posts for a platform whose account every publish phase found are
\* on that platform.
THEOREM SuccessIsPosted == Spec => []SuccessMeansPosted
<1>1. Basics /\ Found /\ Placed => SuccessMeansPosted
  BY DEF Basics, Records, Sound, SoundAt, Everywhere, SuccessMeansPosted, Placed, PlacedAt
<1> QED BY BasicsHold, PlacedHold, <1>1, PTL

-----------------------------------------------------------------------------
(* Without faults: one token, which moves along the chain.                 *)

\* An active consumer moves on while the jobs stay: no other link is to be looked at.
LEMMA TokenMoves ==
  ASSUME Basics, Clean, NEW e \in Executors, Active(e), Active(e)',
         \A f \in Executors \ {e} : exec'[f] = exec[f],
         exec'[e].key = exec[e].key, job' = job, Link(exec[e])'
  PROVE  OneToken' /\ Holders' /\ Chain' /\ Decided'
<1>1. \A f \in Executors : exec'[f].key = exec[f].key /\ (Active(f)' <=> Active(f))
  BY DEF Active
<1>2. \A f \in Executors : exec'[f].pc # "idle" <=> exec[f].pc # "idle"
  BY DEF Active
<1>3. \A k \in Keys : Queued(k)' <=> Queued(k)
  BY DEF Queued
<1>4. OneToken'
  BY <1>1, <1>3 DEF OneToken, Clean
<1>5. Holders'
  BY <1>1, <1>2 DEF Holders, Clean, Handled
<1>6. \A k \in Keys : ~Queued(k)
  BY DEF Clean, OneToken
<1>7. \A f \in Executors : Active(f) => f = e
  BY DEF Clean, OneToken
<1>8. Chain'
  BY <1>1, <1>3, <1>6, <1>7 DEF Chain
<1> QED BY <1>4, <1>5, <1>8 DEF Decided

Frozen == UNCHANGED <<external, review, audited>>

\* Nothing is sent: what was sent once was sent once, and was approved.
LEMMA NothingSent ==
  ASSUME Clean, Grows, Frozen
  PROVE  Singles' /\ Approval'
<1>1. Singles'
  BY DEF Clean, Singles, Frozen
<1>2. Approval'
  BY DEF Clean, Approval, Frozen, Grows, DraftsGrow
<1> QED BY <1>1, <1>2

LEMMA WorkClean ==
  ASSUME Basics, Clean, DurableRunAssumption, Grows, [Next]_vars, NEW e \in Executors, Work(e)
  PROVE  Clean'
<1>a. exec \in [Executors -> ExecRecord] /\ TypeOK
  BY DEF Basics, TypeOK, ExecRecord, Pcs, Nexts
<1> DEFINE x == exec[e]
<1>b. x \in ExecRecord /\ x.copy \in RunRecord
  BY <1>a DEF ExecRecord, RunRecord
<1>c. x.pc = "working" /\ Active(e) /\ Frozen /\ job' = job /\ run' = run
  BY DEF Work, Select, Plan, Tailor, Execute, Critique, Working, Active, Frozen
<1>d. Link(x) /\ x.key \in Keys
  BY <1>c DEF Clean, Chain, Basics, Shape, ShapeOf, ShapeAt
<1>e. Marks(x.copy, {}) /\ Ready(x.key, x.copy)
  BY <1>c, <1>d DEF Link, Unmarked
<1>1. ASSUME NEW r \in RunRecord, NEW n \in Nexts \ {"dead"}, Ahead(e, r, n),
             Becomes(e, "saving", x.key, r, n, x.at, x.posted, x.loaded),
             r.published = x.copy.published, r.tags = x.copy.tags, r.emitted = x.copy.emitted
      PROVE  Clean'
  <2>1. exec'[e].pc = "saving" /\ exec'[e].copy = r /\ exec'[e].key = x.key /\ exec'[e].next = n
    BY <1>1 DEF Becomes
  <2>2. Marks(exec[e].copy, Unmarked(exec[e]))'
    BY <1>c, <1>e, <1>1, <2>1 DEF Marks, Unmarked, Frozen
  <2>3. Follows(exec[e])'
    BY <1>c, <1>e, <1>1, <2>1 DEF Follows, Ready, Reached, Ahead
  <2>4. Link(exec[e])'
    BY <2>1, <2>2, <2>3 DEF Link
  <2>5. Active(e)'
    BY <2>1 DEF Active
  <2> QED BY <1>c, <1>1, <2>1, <2>4, <2>5, TokenMoves, NothingSent DEF Clean, Becomes
<1>2. ASSUME Becomes(e, "reviewing", x.key, [x.copy EXCEPT !.status = "awaiting_review"],
                     x.next, x.at, x.posted, x.loaded)
      PROVE  Clean'
  <2> DEFINE c == [x.copy EXCEPT !.status = "awaiting_review"]
  <2>1. /\ c.status \in Audited /\ c.published = x.copy.published /\ c.tags = x.copy.tags
        /\ c.emitted = x.copy.emitted /\ c.revision = x.copy.revision /\ c.drafts = x.copy.drafts
    BY <1>b DEF RunRecord, Audited
  <2>2. exec'[e].pc = "reviewing" /\ exec'[e].copy = c /\ exec'[e].key = x.key
    BY <1>2 DEF Becomes
  <2> HIDE DEF c
  <2>3. Marks(exec[e].copy, Unmarked(exec[e]))'
    BY <1>c, <1>e, <2>1, <2>2 DEF Marks, Unmarked, Frozen
  <2>4. Ready(exec[e].key, exec[e].copy)'
    BY <1>c, <1>e, <2>1, <2>2 DEF Ready, Reached, Grows, DraftsGrow
  <2>5. Link(exec[e])'
    BY <2>1, <2>2, <2>3, <2>4 DEF Link
  <2>6. Active(e)'
    BY <2>2 DEF Active
  <2> QED BY <1>c, <1>2, <2>2, <2>5, <2>6, TokenMoves, NothingSent DEF Clean, Becomes
<1> QED BY <1>1, <1>2, WorkBecomes, <1>a DEF Worked

LEMMA ReviewClean ==
  ASSUME Basics, Clean, DurableRunAssumption, Grows, [Next]_vars, NEW e \in Executors, Review(e)
  PROVE  Clean'
<1>a. exec \in [Executors -> ExecRecord] /\ TypeOK
  BY DEF Basics, TypeOK, ExecRecord, Pcs, Nexts
<1> DEFINE x == exec[e]
<1>b. x \in ExecRecord /\ x.copy \in RunRecord
  BY <1>a DEF ExecRecord, RunRecord
<1>c. /\ x.pc = "reviewing" /\ Active(e) /\ x.at > 0 /\ x.key \in Keys
      /\ UNCHANGED <<run, job, external, audited, approved>>
  BY DEF Review, Active, Basics, Shape, ShapeOf, ShapeAt
<1>d. Marks(x.copy, {}) /\ Ready(x.key, x.copy) /\ x.copy.status \in Audited
  BY <1>c DEF Clean, Chain, Link, Unmarked
<1>1. CASE Becomes(e, "saving", x.key, x.copy, None, x.at, x.posted, x.loaded) /\ review' = review
  <2>1. exec'[e].pc = "saving" /\ exec'[e].copy = x.copy /\ exec'[e].key = x.key /\ exec'[e].next = None
    BY <1>1 DEF Becomes
  <2>2. Marks(exec[e].copy, Unmarked(exec[e]))'
    BY <1>1, <1>c, <1>d, <2>1 DEF Marks, Unmarked
  <2>3. None # "publish"
    BY DEF DurableRunAssumption, Phases
  <2>4. Follows(exec[e])'
    BY <1>c, <1>d, <2>1, <2>3 DEF Follows, Ready, Reached
  <2>5. Link(exec[e])' /\ Active(e)'
    BY <2>1, <2>2, <2>4 DEF Link, Active
  <2>6. Frozen
    BY <1>1, <1>c DEF Frozen
  <2> QED BY <1>c, <1>1, <2>1, <2>5, <2>6, TokenMoves, NothingSent DEF Clean, Becomes
<1>3. CASE /\ Becomes(e, "reviewing", x.key, x.copy, x.next, x.at + 1, x.posted, x.loaded)
           /\ review' = review
  <2>1. exec'[e].pc = "reviewing" /\ exec'[e].copy = x.copy /\ exec'[e].key = x.key
    BY <1>3 DEF Becomes
  <2>2. Marks(exec[e].copy, Unmarked(exec[e]))' /\ Frozen
    BY <1>3, <1>c, <1>d, <2>1 DEF Marks, Unmarked, Frozen
  <2>3. Ready(exec[e].key, exec[e].copy)'
    BY <1>c, <1>d, <2>1 DEF Ready, Reached
  <2>4. Link(exec[e])' /\ Active(e)'
    BY <1>d, <2>1, <2>2, <2>3 DEF Link, Active
  <2> QED BY <1>c, <1>3, <2>1, <2>2, <2>4, TokenMoves, NothingSent DEF Clean, Becomes
<1>2. ASSUME NEW d \in Drafts \ x.copy.tags,
             Becomes(e, "reviewing", x.key, [x.copy EXCEPT !.tags = x.copy.tags \cup {d}],
                     x.next, x.at + 1, x.posted, x.loaded),
             review' = [review EXCEPT ![d] = @ + 1]
      PROVE  Clean'
  <2> DEFINE c == [x.copy EXCEPT !.tags = x.copy.tags \cup {d}]
  <2>1. /\ c.status \in Audited /\ c.published = x.copy.published /\ c.tags = x.copy.tags \cup {d}
        /\ c.emitted = x.copy.emitted /\ c.revision = x.copy.revision /\ c.drafts = x.copy.drafts
    BY <1>b, <1>d DEF RunRecord
  <2>2. exec'[e].pc = "reviewing" /\ exec'[e].copy = c /\ exec'[e].key = x.key
    BY <1>2 DEF Becomes
  <2> HIDE DEF c
  <2>r. review \in [Drafts -> Nat]
    BY <1>a DEF TypeOK
  <2>3. \A q \in Drafts : \/ review'[q] = review[q]
                          \/ q = d /\ d \notin x.copy.tags /\ review'[q] = review[q] + 1
    BY <1>2, <2>r
  <2>4. Marks(exec[e].copy, Unmarked(exec[e]))'
    BY <1>c, <1>d, <2>1, <2>2, <2>3 DEF Marks, Unmarked
  <2>5. Ready(exec[e].key, exec[e].copy)'
    BY <1>c, <1>d, <2>1, <2>2 DEF Ready, Reached
  <2>6. Link(exec[e])' /\ Active(e)'
    BY <2>1, <2>2, <2>4, <2>5 DEF Link, Active
  <2>7. \A q \in Drafts : review'[q] <= 1
    BY <1>d, <2>r, <2>3 DEF Marks, Clean, Singles
  <2>8. Singles'
    BY <1>c, <2>7 DEF Clean, Singles
  <2>9. Approval'
    BY <1>c DEF Clean, Approval
  <2> QED BY <1>c, <1>2, <2>2, <2>6, <2>8, <2>9, TokenMoves DEF Clean, Becomes
<1> QED BY <1>a, <1>c, <1>1, <1>2, <1>3, ReviewBecomes

LEMMA PublishClean ==
  ASSUME Basics, Clean, DurableRunAssumption, Grows, [Next]_vars, NEW e \in Executors, Publish(e)
  PROVE  Clean'
<1>a. TypeOK /\ external \in [Platforms -> Seq(Post)]
  BY DEF Basics, TypeOK
<1> DEFINE x == exec[e]
<1>b. x.copy.drafts \in Nat
  BY <1>a DEF TypeOK, RunRecord
<1>c. /\ x.pc = "publishing" /\ Active(e) /\ x.at > 0 /\ x.key \in Keys
      /\ UNCHANGED <<run, job, review, audited, approved>>
  BY DEF Publish, Active, Basics, Shape, ShapeOf, ShapeAt
<1>d. /\ Marks(x.copy, {}) /\ Ready(x.key, x.copy) /\ x.key.phase = "publish"
  BY <1>c DEF Clean, Chain, Link, Unmarked
<1>2. PICK p \in Platforms :
          /\ p = Targets[x.at]
          /\ \/ /\ external' = external
                /\ Becomes(e, "publishing", x.key, x.copy, x.next, x.at + 1, x.posted, x.loaded)
             \/ /\ p \notin x.copy.published /\ Sends(p, x)
                /\ Becomes(e, "recording", x.key, x.copy, x.next, x.at, x.posted, x.loaded)
  BY <1>a, <1>c, PublishBecomes
<1>3. /\ exec'[e].copy = x.copy /\ exec'[e].key = x.key
      /\ \A f \in Executors \ {e} : exec'[f] = exec[f]
  BY <1>2 DEF Becomes
<1>4. Ready(exec[e].key, exec[e].copy)'
  BY <1>c, <1>d, <1>3 DEF Ready, Reached
<1>5. CASE external' = external /\ exec'[e].pc = "publishing"
  <2>1. Marks(exec[e].copy, Unmarked(exec[e]))'
    BY <1>c, <1>d, <1>3, <1>5 DEF Marks, Unmarked
  <2>2. Link(exec[e])' /\ Active(e)' /\ Frozen
    BY <1>c, <1>d, <1>3, <1>4, <1>5, <2>1 DEF Link, Active, Frozen
  <2> QED BY <1>c, <1>3, <2>2, TokenMoves, NothingSent DEF Clean
<1>6. CASE /\ Sends(p, x) /\ p \notin x.copy.published
           /\ exec'[e].pc = "recording" /\ exec'[e].at = x.at
  <2>0. PICK post \in Post : /\ post.draft = x.copy.drafts
                            /\ external' = [external EXCEPT ![p] = Append(@, post)]
    BY <1>6 DEF Sends
  <2>1. external[p] = <<>>
    BY <1>d, <1>6 DEF Marks
  <2>2. \A q \in Platforms : external'[q] = IF q = p THEN <<post>> ELSE external[q]
    <3>1. Append(external[p], post) = <<post>>
      BY <2>1
    <3> QED BY <1>a, <2>0, <3>1
  <2>3. Unmarked(exec[e])' = {p}
    BY <1>2, <1>6 DEF Unmarked
  <2>4. Marks(exec[e].copy, Unmarked(exec[e]))'
    BY <1>c, <1>d, <1>3, <2>2, <2>3 DEF Marks
  <2>5. Link(exec[e])' /\ Active(e)'
    BY <1>d, <1>3, <1>4, <1>6, <2>4 DEF Link, Active
  <2>6. Singles'
    <3>1. ASSUME NEW q \in Platforms PROVE Len(external'[q]) <= 1
      <4>1. CASE q = p
        <5>1. external'[q] = <<post>>
          BY <2>2, <4>1
        <5>2. Len(<<post>>) = 1
          OBVIOUS
        <5>3. Len(external'[q]) = 1
          BY <5>1, <5>2
        <5> QED BY <5>3
      <4>2. CASE q # p
        <5>1. external'[q] = external[q]
          BY <2>2, <4>2
        <5> QED BY <5>1 DEF Clean, Singles
      <4> QED BY <4>1, <4>2
    <3>2. \A q \in Drafts : review'[q] <= 1
      BY <1>c DEF Clean, Singles
    <3>3. \A s \in Audited : audited'[s] <= 1
      BY <1>c DEF Clean, Singles
    <3> QED BY <3>1, <3>2, <3>3 DEF Singles
  <2>7. Approval'
    <3>1. x.copy.drafts \in approved /\ ~HumanApproval
      BY <1>d DEF Ready
    <3>2. \A i \in 1..Len(<<post>>) : <<post>>[i] = post
      OBVIOUS
    <3> QED BY <1>c, <2>0, <2>2, <3>1, <3>2 DEF Clean, Approval
  <2> QED BY <1>c, <1>3, <2>5, <2>6, <2>7, TokenMoves DEF Clean
<1> QED BY <1>2, <1>5, <1>6 DEF Becomes

LEMMA RecordClean ==
  ASSUME Basics, Clean, DurableRunAssumption, Grows, [Next]_vars, NEW e \in Executors,
         Record(e) \/ EndPublish(e)
  PROVE  Clean'
<1>a. TypeOK /\ exec[e].copy \in RunRecord
  BY DEF Basics, TypeOK
<1> DEFINE x == exec[e]
<1>c. /\ x.pc \in {"publishing", "recording"} /\ Active(e) /\ x.at > 0 /\ x.key \in Keys
      /\ x.pc = "recording" => x.at <= Len(Targets)
      /\ UNCHANGED <<run, job, external, review, audited, approved>>
  BY DEF Record, EndPublish, Active, Basics, Shape, ShapeOf, ShapeAt
<1>d. Marks(x.copy, Unmarked(x)) /\ Ready(x.key, x.copy) /\ x.key.phase = "publish"
  BY <1>c DEF Clean, Chain, Link
<1>f. Frozen
  BY <1>c DEF Frozen
<1>1. CASE Record(e)
  <2>0. x.pc = "recording"
    BY <1>1 DEF Record
  <2>1. PICK p \in Platforms :
          /\ p = Targets[x.at]
          /\ Becomes(e, "publishing", x.key,
                     [x.copy EXCEPT !.published = x.copy.published \cup {p}],
                     x.next, x.at + 1, x.posted \cup {p}, x.loaded)
    BY <1>1, <1>a, <1>c, <2>0, RecordBecomes
  <2> DEFINE c == [x.copy EXCEPT !.published = x.copy.published \cup {p}]
  <2>2. /\ c.published = x.copy.published \cup {p} /\ c.tags = x.copy.tags
        /\ c.emitted = x.copy.emitted /\ c.revision = x.copy.revision /\ c.drafts = x.copy.drafts
    BY <1>a DEF RunRecord
  <2>3. /\ exec'[e].pc = "publishing" /\ exec'[e].copy = c /\ exec'[e].key = x.key
        /\ \A f \in Executors \ {e} : exec'[f] = exec[f]
    BY <2>1 DEF Becomes
  <2> HIDE DEF c
  <2>4. Marks(exec[e].copy, Unmarked(exec[e]))'
    BY <1>c, <1>d, <2>0, <2>1, <2>2, <2>3 DEF Marks, Unmarked
  <2>5. Ready(exec[e].key, exec[e].copy)'
    BY <1>c, <1>d, <2>2, <2>3 DEF Ready, Reached
  <2>6. Link(exec[e])' /\ Active(e)'
    BY <1>d, <2>3, <2>4, <2>5 DEF Link, Active
  <2> QED BY <1>c, <1>f, <2>3, <2>6, TokenMoves, NothingSent DEF Clean
<1>2. CASE EndPublish(e)
  <2> DEFINE posts == x.copy.posts \cup x.posted
             s == IF posts = {} THEN "failed" ELSE "succeeded"
             c == [x.copy EXCEPT !.posts = posts, !.status = s]
  <2>0. x.pc = "publishing" /\ Finish(e, c, None)
    BY <1>2 DEF EndPublish
  <2>1. c \in RunRecord
    <3>1. posts \in SUBSET Platforms /\ s \in RunStatus
      BY <1>a, Names DEF TypeOK, RunRecord
    <3> QED BY <1>a, <3>1, RunUpdates
  <2>2. /\ c.published = x.copy.published /\ c.tags = x.copy.tags
        /\ c.emitted = x.copy.emitted /\ c.status \in Audited
    BY <1>a DEF RunRecord, Audited
  <2> HIDE DEF c
  <2>3. Becomes(e, "saving", x.key, c, None, x.at, x.posted, x.loaded)
    BY <1>a, <2>0, <2>1, FinishBecomes, Names
  <2>4. /\ exec'[e].pc = "saving" /\ exec'[e].copy = c /\ exec'[e].key = x.key
        /\ exec'[e].next = None /\ \A f \in Executors \ {e} : exec'[f] = exec[f]
    BY <2>3 DEF Becomes
  <2>5. Marks(exec[e].copy, Unmarked(exec[e]))'
    BY <1>c, <1>d, <2>0, <2>2, <2>4 DEF Marks, Unmarked
  <2>6. None # "publish"
    BY DEF DurableRunAssumption, Phases
  <2>7. Follows(exec[e])'
    BY <1>c, <1>d, <2>2, <2>4, <2>6 DEF Follows, Ready, Reached
  <2>8. Link(exec[e])' /\ Active(e)'
    BY <2>4, <2>5, <2>7 DEF Link, Active
  <2> QED BY <1>c, <1>f, <2>4, <2>8, TokenMoves, NothingSent DEF Clean
<1> QED BY <1>1, <1>2

LEMMA SaveClean ==
  ASSUME Basics, Clean, DurableRunAssumption, Grows, [Next]_vars, NEW e \in Executors,
         Save(e) \/ Mark(e)
  PROVE  Clean'
<1>a. TypeOK
  BY DEF Basics
<1> DEFINE x == exec[e]
<1>c. /\ x.pc \in {"saving", "marking"} /\ Active(e) /\ x.key \in Keys
      /\ run' = x.copy
      /\ UNCHANGED <<job, external, review, audited, approved>>
  BY DEF Save, Mark, Active, Basics, Shape, ShapeOf, ShapeAt
<1>d. Marks(x.copy, {}) /\ Follows(x)
  BY <1>c DEF Clean, Chain, Link, Unmarked
<1>1. \E pc \in {"auditing", "routing"} :
         Becomes(e, pc, x.key, x.copy, x.next, x.at, x.posted, x.loaded)
  <2>1. \E pc \in {"auditing", "routing"} : exec' = [exec EXCEPT ![e].pc = pc]
    BY DEF Save, Mark
  <2> QED BY <1>a, <2>1, PcBecomes, Names
<1>2. /\ exec'[e].pc \in {"auditing", "routing"} /\ exec'[e].copy = x.copy /\ exec'[e].key = x.key
      /\ exec'[e].next = x.next /\ \A f \in Executors \ {e} : exec'[f] = exec[f]
  BY <1>1 DEF Becomes
<1>3. Marks(exec[e].copy, Unmarked(exec[e]))'
  BY <1>c, <1>d, <1>2 DEF Marks, Unmarked
<1>4. Follows(exec[e])'
  BY <1>c, <1>d, <1>2 DEF Follows, Reached
<1>5. Link(exec[e])' /\ Active(e)' /\ Frozen
  BY <1>c, <1>2, <1>3, <1>4 DEF Link, Active, Frozen
<1> QED BY <1>c, <1>2, <1>5, TokenMoves, NothingSent DEF Clean

LEMMA AuditClean ==
  ASSUME Basics, Clean, DurableRunAssumption, Grows, [Next]_vars, NEW e \in Executors, Audit(e)
  PROVE  Clean'
<1>a. TypeOK /\ exec[e].copy \in RunRecord /\ audited \in [Audited -> Nat]
  BY DEF Basics, TypeOK
<1> DEFINE x == exec[e]
           c == [x.copy EXCEPT !.emitted = x.copy.emitted \cup {x.copy.status}]
<1>c. /\ x.pc = "auditing" /\ Active(e) /\ x.key \in Keys
      /\ x.copy.status \in Audited \ x.copy.emitted
      /\ UNCHANGED <<run, job, external, review, approved>>
      /\ audited' = [audited EXCEPT ![x.copy.status] = @ + 1]
  BY DEF Audit, Active, Basics, Shape, ShapeOf, ShapeAt
<1>d. Marks(x.copy, {}) /\ Follows(x)
  BY <1>c DEF Clean, Chain, Link, Unmarked
<1>1. /\ c.published = x.copy.published /\ c.tags = x.copy.tags /\ c.drafts = x.copy.drafts
      /\ c.emitted = x.copy.emitted \cup {x.copy.status} /\ c.revision = x.copy.revision
      /\ c.status = x.copy.status
  BY <1>a DEF RunRecord
<1>2. /\ exec'[e].pc = "marking" /\ exec'[e].copy = c /\ exec'[e].key = x.key
      /\ exec'[e].next = x.next /\ \A f \in Executors \ {e} : exec'[f] = exec[f]
  BY <1>a, <1>c, AuditBecomes DEF Becomes
<1> HIDE DEF c
<1>3. \A s \in Audited : audited'[s] = IF s = x.copy.status THEN audited[s] + 1 ELSE audited[s]
  BY <1>a, <1>c
<1>4. Marks(exec[e].copy, Unmarked(exec[e]))'
  BY <1>c, <1>d, <1>1, <1>2, <1>3 DEF Marks, Unmarked
<1>5. Follows(exec[e])'
  BY <1>c, <1>d, <1>1, <1>2 DEF Follows, Reached
<1>6. Link(exec[e])' /\ Active(e)'
  BY <1>2, <1>4, <1>5 DEF Link, Active
<1>7. \A s \in Audited : audited'[s] <= 1
  <2>1. ~(audited[x.copy.status] > 0)
    BY <1>c, <1>d DEF Marks
  <2> QED BY <1>a, <1>c, <1>3, <2>1 DEF Clean, Singles
<1>8. Singles' /\ Approval'
  BY <1>c, <1>7 DEF Clean, Singles, Approval
<1> QED BY <1>c, <1>2, <1>6, <1>8, TokenMoves DEF Clean

LEMMA RaiseClean ==
  ASSUME Basics, Clean, DurableRunAssumption, Grows, [Next]_vars, NEW e \in Executors,
         RaiseTransient(e) \/ RaisePermanent(e)
  PROVE  Clean'
<1>a. TypeOK /\ exec[e].copy \in RunRecord
  BY DEF Basics, TypeOK
<1> DEFINE x == exec[e]
<1>c. /\ x.pc \in {"working", "publishing"} /\ Active(e) /\ x.key \in Keys
      /\ UNCHANGED <<job, external, review, audited, approved>>
  BY DEF RaiseTransient, RaisePermanent, Active, Basics, Shape, ShapeOf, ShapeAt
<1>d. Marks(x.copy, {}) /\ Ready(x.key, x.copy)
  BY <1>c DEF Clean, Chain, Link, Unmarked
<1>1. /\ exec'[e].pc = "giving up" /\ exec'[e].copy = x.copy /\ exec'[e].key = x.key
      /\ \A f \in Executors \ {e} : exec'[f] = exec[f]
  <2>1. CASE RaisePermanent(e)
    BY <1>a, <2>1, DeadBecomes DEF Becomes
  <2>2. CASE RaiseTransient(e)
    <3>1. exec' = [exec EXCEPT ![e].pc = "giving up"]
      BY <2>2 DEF RaiseTransient
    <3> QED BY <1>a, <3>1, PcBecomes, Names DEF Becomes
  <2> QED BY <2>1, <2>2
<1>2. Same(run, exec[e].copy)'
  <2>1. run' = x.copy \/ run' = [x.copy EXCEPT !.status = "failed"]
    BY DEF RaiseTransient, RaisePermanent, SavedOnError
  <2>2. LET c == [x.copy EXCEPT !.status = "failed"] IN
        /\ c.published = x.copy.published /\ c.tags = x.copy.tags /\ c.drafts = x.copy.drafts
        /\ c.emitted = x.copy.emitted /\ c.revision = x.copy.revision
    BY <1>a DEF RunRecord
  <2> QED BY <1>1, <2>1, <2>2 DEF Same
<1>3. Marks(exec[e].copy, Unmarked(exec[e]))'
  BY <1>c, <1>d, <1>1 DEF Marks, Unmarked
<1>4. Ready(exec[e].key, exec[e].copy)'
  BY <1>c, <1>d, <1>1 DEF Ready, Reached
<1>5. Link(exec[e])' /\ Active(e)' /\ Frozen
  BY <1>c, <1>1, <1>2, <1>3, <1>4 DEF Link, Active, Frozen
<1> QED BY <1>c, <1>1, <1>5, TokenMoves, NothingSent DEF Clean

\* The token passes from the queue to a consumer.
LEMMA ClaimClean ==
  ASSUME Basics, Clean, DurableRunAssumption, Grows, [Next]_vars, NEW e \in Executors,
         NEW k \in Keys, Claim(e, k)
  PROVE  Clean'
<1>a. TypeOK /\ run \in RunRecord /\ job \in [Keys -> JobState]
  BY DEF Basics, TypeOK
<1> DEFINE pc == IF k.phase = "publish" THEN "publishing" ELSE "working"
           c == [run EXCEPT !.status = PhaseStatus(k.phase, run.status)]
<1>b. /\ exec[e].pc = "idle" /\ Queued(k)
      /\ UNCHANGED <<run, external, review, audited, approved>>
      /\ job' = [job EXCEPT ![k] = [status |-> "running", attempt |-> job[k].attempt + 1]]
  BY DEF Claim, Claimable, Queued
<1>c. \A j \in Keys : job'[j].status = IF j = k THEN "running" ELSE job[j].status
  BY <1>a, <1>b
<1>d. /\ c.published = run.published /\ c.tags = run.tags /\ c.drafts = run.drafts
      /\ c.emitted = run.emitted /\ c.revision = run.revision
  BY <1>a DEF RunRecord
<1>1. /\ exec'[e].pc = pc /\ exec'[e].copy = c /\ exec'[e].key = k
      /\ \A f \in Executors \ {e} : exec'[f] = exec[f]
  <2>1. \E loaded \in LoadPlatforms(k.phase) : Becomes(e, pc, k, c, None, 1, {}, loaded)
    BY <1>a, ClaimBecomes
  <2> QED BY <2>1 DEF Becomes
<1> HIDE DEF c
<1>2. \A f \in Executors : ~Active(f)
  BY <1>b DEF Clean, OneToken
<1>3. \A j \in Keys : Queued(j) => j = k
  BY <1>b DEF Clean, OneToken
<1>4. \A j \in Keys : ~Queued(j)' /\ (Reached(j)' <=> Reached(j))
  BY <1>b, <1>c, <1>3 DEF Queued, Reached
<1>5. Active(e)' /\ \A f \in Executors : Active(f)' => f = e
  BY <1>1, <1>2 DEF Active
<1>6. \A f \in Executors : exec[f].key # k
  <2>1. ASSUME NEW f \in Executors, exec[f].key = k PROVE FALSE
    <3>1. CASE exec[f].pc = "idle"
      BY <2>1, <3>1 DEF Basics, Shape, ShapeOf, ShapeAt, Idle, DurableRunAssumption
    <3>2. CASE exec[f].pc # "idle"
      BY <1>b, <2>1, <3>2 DEF Clean, Holders, Queued
    <3> QED BY <3>1, <3>2
  <2> QED BY <2>1
<1>7. OneToken'
  BY <1>4, <1>5 DEF OneToken
<1>8. Holders'
  <2>1. \A j \in Keys : job'[j].status = "running" => Handled(j)'
    <3>1. Handled(k)'
      BY <1>1 DEF Handled
    <3>2. ASSUME NEW j \in Keys, j # k, job'[j].status = "running" PROVE Handled(j)'
      <4>1. PICK f \in Executors : exec[f].key = j
        BY <1>c, <3>2 DEF Clean, Holders, Handled
      <4>2. f # e
        <5>1. exec[e].key = None /\ None \notin Keys
          BY <1>b DEF Basics, Shape, ShapeOf, ShapeAt, Idle, DurableRunAssumption
        <5> QED BY <4>1, <5>1
      <4> QED BY <1>1, <4>1, <4>2 DEF Handled
    <3> QED BY <3>1, <3>2
  <2>2. \A f \in Executors : exec'[f].pc # "idle" => job'[exec'[f].key].status = "running"
    <3>1. \A f \in Executors : exec[f].pc # "idle" => exec[f].key \in Keys
      BY DEF Basics, Shape, ShapeOf, ShapeAt
    <3> QED BY <1>1, <1>c, <3>1 DEF Clean, Holders
  <2>3. \A f, g \in Executors : exec'[f].pc # "idle" /\ exec'[f].key = exec'[g].key => f = g
    BY <1>1, <1>6 DEF Clean, Holders
  <2> QED BY <2>1, <2>2, <2>3 DEF Holders
<1>9. Chain'
  <2>1. Ready(k, run) /\ Marks(run, {})
    BY <1>b DEF Clean, Chain
  <2>2. Marks(exec[e].copy, Unmarked(exec[e]))'
    BY <1>b, <1>d, <1>1, <2>1 DEF Marks, Unmarked
  <2>3. Ready(exec[e].key, exec[e].copy)'
    BY <1>b, <1>d, <1>1, <1>4, <2>1 DEF Ready
  <2>4. Link(exec[e])'
    BY <1>1, <2>2, <2>3 DEF Link
  <2> QED BY <1>4, <1>5, <2>4 DEF Chain
<1>10. Decided'
  BY <1>5 DEF Decided
<1>11. Frozen
  BY <1>b DEF Frozen
<1> QED BY <1>7, <1>8, <1>9, <1>10, <1>11, NothingSent DEF Clean

\* The token passes to the next phase, if there is one.
LEMMA RouteClean ==
  ASSUME Basics, Clean, DurableRunAssumption, Grows, [Next]_vars, NEW e \in Executors, Route(e)
  PROVE  Clean'
<1>a. TypeOK /\ run \in RunRecord /\ job \in [Keys -> JobState] /\ exec[e].copy \in RunRecord
  BY DEF Basics, TypeOK
<1> DEFINE x == exec[e]
<1>b. /\ x.pc = "routing" /\ x.key \in Keys /\ Reached(x.key) /\ Active(e) /\ x.next # "dead"
      /\ x.next \in Phases \cup {None, "dead"}
      /\ UNCHANGED <<run, external, review, audited, approved>>
  BY DEF Route, Active, Basics, Shape, ShapeOf, ShapeAt, Reached, TypeOK
<1>c. Follows(x) /\ Marks(x.copy, {}) /\ run = x.copy
  BY <1>b DEF Clean, Chain, Link, Unmarked, Follows
<1>1. /\ exec'[e].pc = "completing" /\ exec'[e].copy = x.copy /\ exec'[e].key = x.key
      /\ \A f \in Executors \ {e} : exec'[f] = exec[f]
  <2>1. exec' = [exec EXCEPT ![e].pc = "completing"]
    BY DEF Route
  <2> QED BY <1>a, <2>1, PcBecomes, Names DEF Becomes
<1>2. \A f \in Executors : Active(f) => f = e
  BY <1>b DEF Clean, OneToken
<1>3. \A j \in Keys : ~Queued(j)
  BY <1>b DEF Clean, OneToken
<1>4. \A f \in Executors : ~Active(f)'
  BY <1>1, <1>2 DEF Active
<1>5. /\ \A f \in Executors : exec'[f].key = exec[f].key
      /\ \A f \in Executors : exec'[f].pc # "idle" <=> exec[f].pc # "idle"
  BY <1>1, <1>b
<1>6. Frozen
  BY <1>b DEF Frozen
<1>7. CASE x.next = None
  <2>1. job' = job
    BY <1>7 DEF Route
  <2>2. OneToken' /\ Chain'
    BY <1>3, <1>4, <2>1 DEF OneToken, Chain, Queued
  <2>3. Holders'
    BY <1>5, <2>1 DEF Clean, Holders, Handled
  <2>4. Decided'
    BY <1>7, <1>b, <1>c DEF Decided, Follows
  <2> QED BY <1>6, <2>2, <2>3, <2>4, NothingSent DEF Clean
<1>8. CASE x.next # None
  <2>1. PICK k \in Keys : /\ k = Key(x.next, x.copy.revision)
                          /\ k.phase = x.next /\ k.revision = x.copy.revision
    <3>1. Key(x.next, x.copy.revision) \in Keys
      BY <1>8, <1>a, <1>b DEF Key, Keys, RunRecord
    <3> QED BY <3>1 DEF Key
  <2>2. Order(k) > Order(x.key)
    BY <1>8, <1>c, <2>1 DEF Follows
  <2>3. \A j \in Keys : Order(j) \in Nat
    BY DEF Order, Keys, Phases, Rank, DurableRunAssumption
  <2>4. job[k].status = "absent"
    BY <1>c, <1>b, <2>1, <2>2, <2>3 DEF Follows, Reached
  <2>5. job' = [job EXCEPT ![k].status = "queued"]
    BY <1>8, <2>1, <2>4 DEF Route, Enqueue
  <2>6. \A j \in Keys : job'[j].status = IF j = k THEN "queued" ELSE job[j].status
    BY <1>a, <2>1, <2>5 DEF JobState
  <2>7. \A j \in Keys : Queued(j)' <=> j = k
    BY <1>3, <2>1, <2>6 DEF Queued
  <2>8. OneToken'
    BY <1>4, <2>7 DEF OneToken
  <2>9. Holders'
    <3>1. \A f \in Executors : exec[f].pc # "idle" => exec[f].key \in Keys /\ exec[f].key # k
      BY <2>4 DEF Clean, Holders, Basics, Shape, ShapeOf, ShapeAt
    <3>2. \A j \in Keys : job'[j].status = "running" => Handled(j)'
      BY <1>5, <2>6 DEF Clean, Holders, Handled
    <3> QED BY <1>5, <2>6, <3>1, <3>2 DEF Clean, Holders
  <2>10. Chain'
    <3>1. \A j \in Keys : Reached(j)' => Order(j) <= Order(k)
      BY <1>b, <1>c, <2>1, <2>2, <2>3, <2>6 DEF Reached, Follows
    <3>2. Ready(k, run)'
      BY <1>b, <1>c, <2>1, <3>1 DEF Ready, Follows
    <3>3. Marks(run, {})'
      BY <1>b, <1>c DEF Marks
    <3> QED BY <1>4, <2>7, <3>2, <3>3 DEF Chain
  <2>11. Decided'
    BY <2>1, <2>6 DEF Decided
  <2> QED BY <1>6, <2>8, <2>9, <2>10, <2>11, NothingSent DEF Clean
<1> QED BY <1>7, <1>8

\* The consumer is done with its job: the chain went on without it, or the token goes back.
LEMMA EndClean ==
  ASSUME Basics, Clean, DurableRunAssumption, Grows, [Next]_vars, NEW e \in Executors,
         Complete(e) \/ GiveUp(e)
  PROVE  Clean'
<1>a. TypeOK /\ run \in RunRecord /\ job \in [Keys -> JobState]
  BY DEF Basics, TypeOK
<1> DEFINE x == exec[e]
<1>b. /\ x.pc \in {"completing", "giving up"} /\ x.key \in Keys
      /\ UNCHANGED <<run, external, review, audited, approved>>
  BY DEF Complete, GiveUp, Basics, Shape, ShapeOf, ShapeAt
<1>1. PICK s \in {"queued", "succeeded", "dead"} :
         /\ job' = [job EXCEPT ![x.key].status = s]
         /\ s = "succeeded" <=> x.pc = "completing"
  BY DEF Complete, GiveUp
<1>2. /\ exec'[e] = Idle /\ exec'[e].pc = "idle" /\ exec'[e].key = None
      /\ \A f \in Executors \ {e} : exec'[f] = exec[f]
  <2>1. exec' = [exec EXCEPT ![e] = Idle]
    BY DEF Complete, GiveUp
  <2> QED BY <1>a, <2>1, IdleBecomes DEF Becomes
<1>3. \A j \in Keys : job'[j].status = IF j = x.key THEN s ELSE job[j].status
  BY <1>a, <1>b, <1>1 DEF JobState
<1>4. job[x.key].status = "running"
  BY <1>b DEF Clean, Holders
<1>5. \A j \in Keys : /\ Reached(j)' <=> Reached(j)
                      /\ Queued(j)' <=> Queued(j) \/ (j = x.key /\ s = "queued")
  BY <1>3, <1>4 DEF Reached, Queued
<1>6. \A f \in Executors : Active(f)' <=> Active(f) /\ f # e
  BY <1>2 DEF Active
<1>7. Active(e) <=> x.pc = "giving up"
  BY <1>b DEF Active
<1>8. OneToken'
  <2>1. CASE x.pc = "giving up"
    <3>1. (\A f \in Executors : Active(f) => f = e) /\ \A j \in Keys : ~Queued(j)
      BY <1>7, <2>1 DEF Clean, OneToken
    <3>2. (\A f \in Executors : ~Active(f)') /\ \A j \in Keys : Queued(j)' => j = x.key
      BY <1>5, <1>6, <3>1
    <3> QED BY <3>2 DEF OneToken
  <2>2. CASE x.pc = "completing"
    <3>1. s = "succeeded" /\ ~Active(e)
      BY <1>1, <1>7, <2>2
    <3>2. \A f \in Executors : Active(f)' <=> Active(f)
      BY <1>6, <3>1
    <3>3. \A j \in Keys : Queued(j)' <=> Queued(j)
      BY <1>5, <3>1
    <3> QED BY <3>2, <3>3 DEF Clean, OneToken
  <2> QED BY <1>b, <2>1, <2>2
<1>9. Holders'
  <2>1. \A f \in Executors : exec[f].pc # "idle" => exec[f].key \in Keys
    BY DEF Basics, Shape, ShapeOf, ShapeAt
  <2>2. \A f \in Executors \ {e} : exec[f].pc # "idle" => exec[f].key # x.key
    BY DEF Clean, Holders
  <2>3. \A f \in Executors : exec'[f].pc # "idle" => job'[exec'[f].key].status = "running"
    BY <1>2, <1>3, <2>1, <2>2 DEF Clean, Holders
  <2>4. \A j \in Keys : job'[j].status = "running" => Handled(j)'
    <3> SUFFICES ASSUME NEW j \in Keys, job'[j].status = "running" PROVE Handled(j)'
      OBVIOUS
    <3>1. j # x.key /\ job[j].status = "running"
      BY <1>3
    <3>2. PICK f \in Executors : exec[f].key = j
      BY <3>1 DEF Clean, Holders, Handled
    <3> QED BY <1>2, <3>1, <3>2 DEF Handled
  <2>5. \A f, g \in Executors : exec'[f].pc # "idle" /\ exec'[f].key = exec'[g].key => f = g
    <3>1. None \notin Keys
      BY DEF DurableRunAssumption
    <3> QED BY <1>2, <2>1, <3>1 DEF Clean, Holders
  <2> QED BY <2>3, <2>4, <2>5 DEF Holders
<1>10. Chain'
  <2>1. \A f \in Executors : Active(f)' => Link(exec[f])'
    <3> SUFFICES ASSUME NEW f \in Executors, Active(f)' PROVE Link(exec[f])'
      OBVIOUS
    <3>1. Active(f) /\ f # e /\ exec'[f] = exec[f] /\ Link(exec[f])
      BY <1>2, <1>6 DEF Clean, Chain
    <3>2. Marks(exec[f].copy, Unmarked(exec[f]))'
      BY <1>b, <3>1 DEF Link, Marks, Unmarked
    <3>3. Ready(exec[f].key, exec[f].copy) => Ready(exec[f].key, exec[f].copy)'
      BY <1>b, <1>5, <3>1 DEF Ready
    <3>4. Follows(exec[f]) => Follows(exec[f])'
      BY <1>b, <1>5, <3>1 DEF Follows
    <3> QED BY <1>b, <3>1, <3>2, <3>3, <3>4 DEF Link, Same
  <2>2. ASSUME NEW j \in Keys, Queued(j)' PROVE Ready(j, run)' /\ Marks(run, {})'
    <3>1. Ready(j, run) /\ Marks(run, {})
      <4>1. CASE Queued(j)
        BY <4>1 DEF Clean, Chain
      <4>2. CASE j = x.key /\ x.pc = "giving up"
        <5>1. Link(x)
          BY <1>7, <4>2 DEF Clean, Chain
        <5> QED BY <4>2, <5>1 DEF Link, Ready, Marks, Same, Unmarked
      <4> QED BY <1>1, <1>b, <1>5, <2>2, <4>1, <4>2
    <3> QED BY <1>b, <1>5, <3>1 DEF Ready, Marks
  <2> QED BY <2>1, <2>2 DEF Chain
<1>11. Decided'
  <2>1. CASE s = "succeeded"
    <3>1. \A f \in Executors : Active(f)' <=> Active(f)
      BY <1>1, <1>6, <1>7, <2>1
    <3>2. \A j \in Keys : job'[j].status \in {"queued", "dead"} <=> job[j].status \in {"queued", "dead"}
      BY <1>3, <1>4, <2>1
    <3> QED BY <1>b, <3>1, <3>2 DEF Clean, Decided
  <2>2. CASE s \in {"queued", "dead"}
    BY <1>b, <1>3, <2>2 DEF Decided
  <2> QED BY <2>1, <2>2
<1>12. Frozen
  BY <1>b DEF Frozen
<1> QED BY <1>8, <1>9, <1>10, <1>11, <1>12, NothingSent DEF Clean

\* A redelivery of a job that is being handled is a fault, and without faults every
\* running job is being handled.
LEMMA CleanStep ==
  ASSUME Basics, Clean, DurableRunAssumption, [Next]_vars, faults = 0, faults' = 0
  PROVE  Clean'
<1>g. Grows
  BY Growing
<1>1. ASSUME NEW k \in Keys, Redeliver(k) PROVE FALSE
  BY <1>1 DEF Redeliver, Clean, Holders
<1>2. ASSUME NEW e \in Executors, Crash(e) \/ RecordFails(e) PROVE FALSE
  BY <1>2 DEF Crash, RecordFails
<1>3. ASSUME NEW e \in Executors, Step(e) PROVE Clean'
  BY <1>3, <1>g, ClaimClean, WorkClean, ReviewClean, PublishClean, RecordClean, SaveClean,
     AuditClean, RaiseClean, RouteClean, EndClean DEF Step
<1>4. CASE UNCHANGED vars
  <2>1. UNCHANGED <<run, job, exec, external, review, audited, approved>>
    BY <1>4 DEF vars
  <2>2. OneToken' /\ Holders' /\ Decided'
    BY <2>1 DEF Clean, OneToken, Holders, Decided, Active, Queued, Handled
  <2>3. Chain'
    BY <2>1 DEF Clean, Chain, Active, Queued, Link, Ready, Marks, Follows, Same, Unmarked, Reached
  <2>4. Singles' /\ Approval'
    BY <2>1 DEF Clean, Singles, Approval
  <2> QED BY <2>2, <2>3, <2>4 DEF Clean
<1> QED BY <1>1, <1>2, <1>3, <1>4 DEF Next

LEMMA CleanInit == ASSUME DurableRunAssumption, Init PROVE Clean
<1> DEFINE k0 == Key("select", 0)
<1>1. k0 \in Keys
  BY DEF Key, Keys, Phases, DurableRunAssumption
<1>2. /\ \A k \in Keys : job[k].status = IF k = k0 THEN "queued" ELSE "absent"
      /\ run = NewRun /\ \A e \in Executors : exec[e] = Idle
      /\ external = [p \in Platforms |-> <<>>] /\ review = [d \in Drafts |-> 0]
      /\ audited = [s \in Audited |-> 0]
  BY DEF Init
<1>3. /\ \A k \in Keys : (Queued(k) <=> k = k0) /\ (Reached(k) <=> k = k0)
      /\ \A e \in Executors : ~Active(e) /\ exec[e].pc = "idle"
  BY <1>2 DEF Queued, Reached, Active, Idle
<1>4. OneToken /\ Holders
  BY <1>2, <1>3 DEF OneToken, Holders
<1>5. Chain
  <2>1. Order(k0) <= Order(k0)
    BY DEF Order, k0, Key, Rank
  <2>2. Ready(k0, run)
    BY <1>2, <1>3, <2>1 DEF Ready, NewRun, k0, Key
  <2>3. Marks(run, {})
    BY <1>2 DEF Marks
  <2> QED BY <1>3, <2>2, <2>3 DEF Chain
<1>6. Singles /\ Approval
  BY <1>2 DEF Singles, Approval
<1>7. Decided
  BY <1>1, <1>2 DEF Decided
<1> QED BY <1>4, <1>5, <1>6, <1>7 DEF Clean

LEMMA Inductive == Spec => []IInv
<1>1. ASSUME DurableRunAssumption, Init PROVE IInv
  BY <1>1, BasicsInit, CleanInit DEF IInv
<1>2. ASSUME DurableRunAssumption, IInv, [Next]_vars PROVE IInv'
  <2>1. Basics'
    BY <1>2, BasicsStep DEF IInv
  <2>2. faults' = 0 => faults = 0
    <3>1. faults \in Nat /\ faults' \in Nat
      <4>1. faults \in 0..MaxFaults /\ faults' \in 0..MaxFaults
        BY <1>2, <2>1 DEF IInv, Basics, TypeOK
      <4>2. MaxFaults \in Nat
        BY DurableRunAssumption DEF DurableRunAssumption
      <4> QED BY <4>1, <4>2
    <3>2. faults <= faults'
      BY <1>2, Growing DEF IInv, Grows, FaultsGrow
    <3> QED BY <3>1, <3>2
  <2>3. faults' = 0 => Clean'
    BY <1>2, <2>2, CleanStep DEF IInv
  <2> QED BY <2>1, <2>3 DEF IInv
<1> QED BY <1>1, <1>2, DurableRunAssumption, PTL DEF Spec

\* While no consumer crashes, stalls or loses a post row, one phase of the run is active
\* at a time: each phase enqueues the next one as its last step, under a key that no
\* phase of the run has used before, and an error gives its own key back.
THEOREM OnePhase == Spec => []OnePhaseAtATime
<1>1. ASSUME IInv PROVE OnePhaseAtATime
  <2> DEFINE Q == {k \in Keys : job[k].status = "queued"}
             A == {e \in Executors : Active(e)}
  <2> SUFFICES ASSUME faults = 0 PROVE Cardinality(Q) + Cardinality(A) <= 1
    BY DEF OnePhaseAtATime
  <2>1. OneToken
    BY <1>1 DEF IInv, Clean
  <2>2. /\ Cardinality({}) = 0 /\ \A x : Cardinality({x}) = 1
    BY FS_EmptySet, FS_Singleton
  <2>3. CASE Q = {} /\ A = {}
    BY <2>2, <2>3
  <2>4. ASSUME NEW k \in Q PROVE Q = {k} /\ A = {}
    BY <2>1, <2>4 DEF OneToken, Queued
  <2>5. ASSUME NEW e \in A PROVE A = {e} /\ Q = {}
    BY <2>1, <2>5 DEF OneToken, Queued
  <2> HIDE DEF Q, A
  <2>6. CASE Q # {}
    <3>1. PICK k \in Q : TRUE
      BY <2>6
    <3>2. Cardinality(Q) = 1 /\ Cardinality(A) = 0
      BY <2>2, <2>4, <3>1
    <3> QED BY <3>2
  <2>7. CASE A # {}
    <3>1. PICK e \in A : TRUE
      BY <2>7
    <3>2. Cardinality(A) = 1 /\ Cardinality(Q) = 0
      BY <2>2, <2>5, <3>1
    <3> QED BY <3>2
  <2> QED BY <2>3, <2>6, <2>7
<1> QED BY Inductive, <1>1, PTL

\* While there are no such faults only drafts the critique approved go out, and none
\* where a human is to approve them: the revision of the row and the keys agree, so a
\* publish phase runs on the drafts its critique saw.
THEOREM ApprovedOnly == Spec => []PublishedIsApproved
<1>1. IInv => PublishedIsApproved
  BY DEF IInv, Clean, Approval, PublishedIsApproved
<1> QED BY Inductive, <1>1, PTL

\* While there are no such faults and no job is dead, a run with nothing left to do has
\* succeeded, has failed or waits for review: no phase ends without its successor.
THEOREM RestDecided == Spec => []RestIsDecided
<1>1. IInv => RestIsDecided
  BY DEF IInv, Clean, Decided, RestIsDecided, AtRest, Active
<1> QED BY Inductive, <1>1, PTL

-----------------------------------------------------------------------------
(* The jobs of the run are leases of the queue.                            *)

StatusOf == [k \in Keys |-> job[k].status]
AttemptOf == [k \in Keys |-> job[k].attempt]
Untried == \A k \in Keys : ~Reached(k) => job[k].attempt = 0

\* The rows a step writes.
LEMMA JobStep ==
  ASSUME TypeOK, NEW k \in Keys, NEW s, job' = [job EXCEPT ![k].status = s]
  PROVE  /\ \A j \in Keys : /\ job'[j].status = IF j = k THEN s ELSE job[j].status
                            /\ job'[j].attempt = job[j].attempt
         /\ Queue!Become({k}, s) /\ UNCHANGED AttemptOf
<1>1. job \in [Keys -> JobState]
  BY DEF TypeOK
<1>2. \A j \in Keys : /\ job'[j].status = IF j = k THEN s ELSE job[j].status
                      /\ job'[j].attempt = job[j].attempt
  BY <1>1 DEF JobState
<1> QED BY <1>2 DEF Queue!Become, AttemptOf

LEMMA ClaimRow ==
  ASSUME TypeOK, NEW e \in Executors, NEW k \in Keys, Claim(e, k)
  PROVE  \A j \in Keys :
            /\ job'[j].status = IF j = k THEN "running" ELSE job[j].status
            /\ job'[j].attempt = IF j = k THEN job[j].attempt + 1 ELSE job[j].attempt
<1>1. job \in [Keys -> JobState]
  BY DEF TypeOK
<1>2. job' = [job EXCEPT ![k] = [status |-> "running", attempt |-> job[k].attempt + 1]]
  BY DEF Claim
<1> QED BY <1>1, <1>2

\* The consumer of a step keeps its key, takes it or gives it back.
LEMMA KeyStep ==
  ASSUME Basics, DurableRunAssumption, NEW e \in Executors,
         \/ Work(e) \/ Review(e) \/ Publish(e) \/ Record(e) \/ EndPublish(e) \/ Save(e) \/ Audit(e)
         \/ Mark(e) \/ Route(e) \/ RaiseTransient(e) \/ RaisePermanent(e) \/ RecordFails(e)
  PROVE  UNCHANGED Handling
<1>a. TypeOK
  BY DEF Basics
<1>1. \A f \in Executors : exec'[f].key = exec[f].key
  <2>r. exec[e].pc # "idle" => exec[e].at > 0 /\ exec[e].copy \in RunRecord
    BY DEF Basics, Shape, ShapeOf, ShapeAt, TypeOK
  <2>1. CASE Work(e)
    BY <1>a, <2>1, WorkBecomes DEF Worked, Becomes
  <2>2. CASE Review(e)
    BY <1>a, <2>r, <2>2, ReviewBecomes DEF Becomes, Review
  <2>3. CASE Publish(e)
    BY <1>a, <2>r, <2>3, PublishBecomes DEF Becomes, Publish
  <2>4. CASE Record(e)
    <3>1. exec[e].at <= Len(Targets)
      BY <2>4 DEF Record, Basics, Shape, ShapeOf, ShapeAt
    <3> QED BY <1>a, <2>r, <2>4, <3>1, RecordBecomes DEF Becomes, Record
  <2>5. CASE EndPublish(e)
    <3>1. \E r : exec' = [exec EXCEPT ![e].pc = "saving", ![e].copy = r, ![e].next = None]
      BY <2>5 DEF EndPublish, Finish
    <3>2. exec \in [Executors -> ExecRecord]
      BY <1>a DEF TypeOK, ExecRecord, Pcs, Nexts
    <3> QED BY <3>1, <3>2 DEF ExecRecord
  <2>6. CASE Audit(e)
    <3>1. exec[e].copy.status \in Audited
      BY <2>6 DEF Audit, Basics, Shape, ShapeOf, ShapeAt
    <3> QED BY <1>a, <2>6, <3>1, AuditBecomes DEF Becomes
  <2>7. CASE RaisePermanent(e)
    BY <1>a, <2>7, DeadBecomes DEF Becomes
  <2>8. CASE Save(e) \/ Mark(e) \/ Route(e) \/ RaiseTransient(e) \/ RecordFails(e)
    <3>1. \E pc \in Pcs : exec' = [exec EXCEPT ![e].pc = pc]
      BY <2>8, Names DEF Save, Mark, Route, RaiseTransient, RecordFails
    <3> QED BY <1>a, <3>1, PcBecomes DEF Becomes
  <2> QED BY <2>1, <2>2, <2>3, <2>4, <2>5, <2>6, <2>7, <2>8
<1> QED BY <1>1 DEF Handling

LEMMA UntriedStep ==
  ASSUME Basics, Untried, DurableRunAssumption, [Next]_vars
  PROVE  Untried'
<1>a. TypeOK /\ \A e \in Executors : exec[e].pc # "idle" => exec[e].key \in Keys
  BY DEF Basics, Shape, ShapeOf, ShapeAt
<1>1. ASSUME NEW k \in Keys, NEW s, job' = [job EXCEPT ![k].status = s] PROVE Untried'
  <2>1. \A j \in Keys : job[j].status # "absent" => job'[j].status # "absent"
    BY <1>a, Monotone
  <2>2. \A j \in Keys : job'[j].attempt = job[j].attempt
    BY <1>a, <1>1, JobStep
  <2> QED BY <2>1, <2>2 DEF Untried, Reached
<1>2. ASSUME NEW e \in Executors, NEW k \in Keys, Claim(e, k) PROVE Untried'
  BY <1>a, <1>2, ClaimRow DEF Untried, Reached
<1>3. CASE job' = job
  BY <1>3 DEF Untried, Reached
<1>4. ASSUME NEW e \in Executors, Route(e) PROVE Untried'
  <2>1. CASE job' = job
    BY <1>3, <2>1
  <2>2. CASE exec[e].next # None
    <3>1. exec[e].next \in Phases /\ exec[e].copy.revision \in 0..MaxRevisions
      BY <1>4, <2>2 DEF Route, Basics, Shape, ShapeOf, ShapeAt, TypeOK, RunRecord
    <3>2. Key(exec[e].next, exec[e].copy.revision) \in Keys
      BY <3>1 DEF Key, Keys
    <3>3. \/ job' = job
          \/ job' = [job EXCEPT ![Key(exec[e].next, exec[e].copy.revision)].status = "queued"]
      BY <1>4, <2>2 DEF Route, Enqueue
    <3> QED BY <1>1, <1>3, <3>2, <3>3
  <2> QED BY <1>4, <2>1, <2>2 DEF Route
<1>5. ASSUME NEW e \in Executors, Complete(e) \/ GiveUp(e) PROVE Untried'
  <2>1. exec[e].key \in Keys
    BY <1>a, <1>5 DEF Complete, GiveUp
  <2>2. \E s : job' = [job EXCEPT ![exec[e].key].status = s]
    BY <1>5 DEF Complete, GiveUp
  <2> QED BY <1>1, <2>1, <2>2
<1>6. ASSUME NEW k \in Keys, Redeliver(k) PROVE Untried'
  BY <1>1, <1>6 DEF Redeliver
<1>7. ASSUME NEW e \in Executors,
             \/ Work(e) \/ Review(e) \/ Publish(e) \/ Record(e) \/ EndPublish(e)
             \/ Save(e) \/ Audit(e) \/ Mark(e) \/ RaiseTransient(e) \/ RaisePermanent(e)
             \/ Crash(e) \/ RecordFails(e)
      PROVE  job' = job
  BY <1>7 DEF Work, Review, Publish, Record, EndPublish, Save, Audit, Mark, RaiseTransient,
     RaisePermanent, Crash, RecordFails
<1>8. CASE UNCHANGED vars
  BY <1>3, <1>8 DEF vars
<1> QED BY <1>2, <1>3, <1>4, <1>5, <1>6, <1>7, <1>8 DEF Next, Step

LEMMA QueueStep ==
  ASSUME Basics, Untried, DurableRunAssumption, [Next]_vars
  PROVE  Queue!Next \/ UNCHANGED <<StatusOf, AttemptOf, Handling>>
<1>a. TypeOK /\ exec \in [Executors -> ExecRecord]
  BY DEF Basics, TypeOK, ExecRecord, Pcs, Nexts
<1>k. /\ \A e \in Executors : exec[e].pc # "idle" => exec[e].key \in Keys /\ Reached(exec[e].key)
      /\ \A e \in Executors : exec[e].pc = "idle" => exec[e].key = None
      /\ None \notin Keys
  BY DEF Basics, Shape, ShapeOf, ShapeAt, Idle, DurableRunAssumption, Reached
<1>i. ASSUME NEW e \in Executors, exec' = [exec EXCEPT ![e] = Idle]
      PROVE  Handling' = [Handling EXCEPT ![e] = None]
  <2>1. exec'[e].key = None /\ \A f \in Executors \ {e} : exec'[f] = exec[f]
    BY <1>a, <1>i, IdleBecomes DEF Becomes
  <2> QED BY <2>1 DEF Handling
<1>1. ASSUME NEW e \in Executors, NEW k \in Keys, Claim(e, k) PROVE Queue!Deliver(e, k)
  <2>1. StatusOf[k] = "queued" /\ Handling[e] = None
    BY <1>k, <1>1 DEF Claim, Claimable, StatusOf, Handling
  <2>2. Queue!Become({k}, "running")
    BY <1>a, <1>1, ClaimRow DEF Queue!Become
  <2>3. AttemptOf' = [AttemptOf EXCEPT ![k] = @ + 1]
    BY <1>a, <1>1, ClaimRow DEF AttemptOf
  <2>4. Handling' = [Handling EXCEPT ![e] = k]
    <3>1. exec'[e].key = k /\ \A f \in Executors \ {e} : exec'[f] = exec[f]
      BY <1>a, <1>1, ClaimBecomes DEF Becomes
    <3> QED BY <3>1 DEF Handling
  <2> QED BY <2>1, <2>2, <2>3, <2>4 DEF Queue!Deliver, StatusOf, AttemptOf
<1>2. ASSUME NEW e \in Executors, Route(e)
      PROVE  UNCHANGED <<StatusOf, AttemptOf, Handling>> \/ \E k \in Keys : Queue!Submit(k)
  <2>1. UNCHANGED Handling
    BY <1>2, KeyStep
  <2>2. CASE job' = job
    BY <2>1, <2>2 DEF StatusOf, AttemptOf
  <2>3. CASE job' # job
    <3>1. exec[e].next \in Phases /\ exec[e].copy.revision \in 0..MaxRevisions
      BY <1>2, <2>3 DEF Route, Basics, Shape, ShapeOf, ShapeAt, TypeOK, RunRecord
    <3>2. PICK k \in Keys : k = Key(exec[e].next, exec[e].copy.revision)
      BY <3>1 DEF Key, Keys
    <3>3. job[k].status = "absent" /\ job' = [job EXCEPT ![k].status = "queued"]
      BY <1>2, <2>3, <3>2 DEF Route, Enqueue
    <3>4. Queue!Become({k}, "queued") /\ UNCHANGED AttemptOf
      BY <1>a, <3>3, JobStep
    <3>5. AttemptOf[k] = 0
      BY <3>3 DEF Untried, Reached, AttemptOf
    <3>6. AttemptOf' = [AttemptOf EXCEPT ![k] = 0]
      BY <3>4, <3>5 DEF AttemptOf
    <3>7. StatusOf[k] = "absent" /\ ~Queue!Leased(k)
      BY <1>k, <3>3 DEF StatusOf, Queue!Leased, Handling, Reached
    <3>8. Queue!Submit(k)
      BY <2>1, <3>4, <3>6, <3>7 DEF Queue!Submit, StatusOf, AttemptOf
    <3> QED BY <3>8
  <2> QED BY <2>2, <2>3
<1>3. ASSUME NEW e \in Executors, Complete(e) \/ GiveUp(e)
      PROVE  Queue!Return(e, exec[e].key) /\ exec[e].key \in Keys
  <2>1. PICK k \in Keys : k = exec[e].key
    BY <1>k, <1>3 DEF Complete, GiveUp
  <2>2. PICK s \in {"queued", "succeeded", "dead"} : job' = [job EXCEPT ![k].status = s]
    BY <1>3, <2>1 DEF Complete, GiveUp
  <2>3. Queue!Become({k}, s) /\ UNCHANGED AttemptOf
    BY <1>a, <2>2, JobStep
  <2>4. Handling' = [Handling EXCEPT ![e] = None]
    BY <1>3, <1>i DEF Complete, GiveUp
  <2>5. Handling[e] = k
    BY <2>1 DEF Handling
  <2>6. Queue!Return(e, k)
    BY <2>3, <2>4, <2>5 DEF Queue!Return, AttemptOf
  <2> QED BY <2>1, <2>6
<1>4. ASSUME NEW e \in Executors, Crash(e) PROVE Queue!Abandon({e})
  <2>1. Handling' = [Handling EXCEPT ![e] = None] /\ job' = job
    BY <1>4, <1>i DEF Crash
  <2>2. Handling' = [w \in Executors |-> IF w \in {e} THEN None ELSE Handling[w]]
    BY <2>1 DEF Handling
  <2> QED BY <2>1, <2>2 DEF Queue!Abandon
<1>5. ASSUME NEW k \in Keys, Redeliver(k) PROVE Queue!Expire({k})
  <2>1. Queue!Become({k}, "queued") /\ UNCHANGED AttemptOf
    BY <1>a, <1>5, JobStep DEF Redeliver
  <2>2. UNCHANGED Handling
    BY <1>5 DEF Redeliver, Handling
  <2>3. {k} \subseteq Queue!In({"running"})
    BY <1>5 DEF Redeliver, Queue!In
  <2> QED BY <2>1, <2>2, <2>3 DEF Queue!Expire, AttemptOf
<1>6. ASSUME NEW e \in Executors,
             \/ Work(e) \/ Review(e) \/ Publish(e) \/ Record(e) \/ EndPublish(e)
             \/ Save(e) \/ Audit(e) \/ Mark(e) \/ RaiseTransient(e) \/ RaisePermanent(e)
             \/ RecordFails(e)
      PROVE  UNCHANGED <<StatusOf, AttemptOf, Handling>>
  <2>1. job' = job
    BY <1>6 DEF Work, Review, Publish, Record, EndPublish, Save, Audit, Mark, RaiseTransient,
       RaisePermanent, RecordFails
  <2> QED BY <1>6, <2>1, KeyStep DEF StatusOf, AttemptOf
<1>7. CASE UNCHANGED vars
  BY <1>7 DEF vars, StatusOf, AttemptOf, Handling
<1>8. ASSUME NEW e \in Executors PROVE {e} \in SUBSET Executors
  OBVIOUS
<1>9. ASSUME NEW k \in Keys, Queue!Expire({k}) PROVE {k} \in SUBSET Queue!In({"queued", "running"})
  BY <1>9 DEF Queue!Expire, Queue!In
<1>10. ASSUME NEW e \in Executors, Step(e) \/ Crash(e) \/ RecordFails(e)
       PROVE  Queue!Next \/ UNCHANGED <<StatusOf, AttemptOf, Handling>>
  BY <1>1, <1>2, <1>3, <1>4, <1>6, <1>8, <1>10 DEF Step, Queue!Next
<1>11. ASSUME NEW k \in Keys, Redeliver(k) PROVE Queue!Next
  BY <1>5, <1>9, <1>11 DEF Queue!Next
<1> QED BY <1>7, <1>10, <1>11 DEF Next

LEMMA UntriedHolds == Spec => []Untried
<1>1. Init => Untried
  BY DEF Init, Untried, Reached
<1>2. Basics /\ Untried /\ [Next]_vars => Untried'
  BY UntriedStep, DurableRunAssumption
<1> QED BY <1>1, <1>2, BasicsHold, PTL DEF Spec

\* A durable run relies on nothing but what the queue promises: every step of a run's
\* jobs, with crashes and redeliveries, is a step of JobLeases, the specification that
\* JobQueue implements.
THEOREM RunKeepsLeases == Spec => QueueKeepsLeases
<1>1. Basics /\ Untried /\ [Next]_vars => [Queue!Next]_Queue!vars
  BY QueueStep, DurableRunAssumption DEF Queue!vars, StatusOf, AttemptOf
<1> QED BY <1>1, BasicsHold, UntriedHolds, PTL DEF Spec, QueueKeepsLeases

-----------------------------------------------------------------------------
(* With faults: how often anything can still happen.                       *)

\* Jobs that will be delivered, at once or after a redelivery.
Pending == {k \in Keys : Queued(k) \/ (job[k].status = "running" /\ ~Handled(k))}
Early == {k \in Pending : Before(k.phase)}

\* The phase of consumer x will be followed by another one, or tried again.
Leads(x) == \/ x.pc \in {"saving", "auditing", "marking", "routing"} /\ x.next # None
            \/ x.pc = "giving up" /\ x.next # "dead"

\* Consumer x, or the phases it leads to, may yet send a draft for p, create the review
\* post of draft i or audit the run; at tailor once more, because tailor keeps the status it finds.
WillPublish(x, p) ==
    \/ x.pc = "working" \/ Leads(x)
    \/ /\ x.pc \in {"publishing", "recording"} /\ p \notin x.copy.published
       /\ ~(x.pc = "recording" /\ p = Targets[x.at])
WillReview(x, i) ==
    \/ x.pc = "working" \/ Leads(x)
    \/ x.pc = "reviewing" /\ i \notin x.copy.tags
Unaudited(x) == \/ x.pc = "auditing"
                \/ x.pc = "saving" /\ x.copy.status \in Audited \ x.copy.emitted
WillAudit(x) == \/ Leads(x) \/ Unaudited(x)
                \/ x.pc \in {"working", "reviewing", "publishing", "recording"}
WillAuditTwice(x) ==
    \/ x.pc = "working" /\ Before(x.key.phase)
    \/ x.pc = "giving up" /\ x.next # "dead" /\ Before(x.key.phase)
    \/ /\ x.pc \in {"saving", "auditing", "marking", "routing"} /\ x.next # None
       /\ Before(x.next) \/ Unaudited(x)

Publishers(p) == {e \in Executors : WillPublish(exec[e], p)}
Reviewers(i) == {e \in Executors : WillReview(exec[e], i)}
Auditors == {e \in Executors : WillAudit(exec[e])}
EarlyAuditors == {e \in Executors : WillAuditTwice(exec[e])}

\* A phase other than tailor has set its own status; only tailor may audit and go on.
Undecided(x) ==
    /\ x.pc = "working" /\ x.key.phase # "tailor" => x.copy.status \notin Audited
    /\ x.pc \in {"saving", "auditing"} /\ x.next # None /\ Before(x.next) =>
          x.copy.status \notin Audited

AllFinite == /\ IsFiniteSet(Pending) /\ IsFiniteSet(Auditors) /\ IsFiniteSet(EarlyAuditors)
             /\ \A p \in Platforms : IsFiniteSet(Publishers(p))
             /\ \A i \in Drafts : IsFiniteSet(Reviewers(i))
OutLoad(p) == Len(external[p]) + (Cardinality(Pending) + Cardinality(Publishers(p)))
ReviewLoad(i) == review[i] + (Cardinality(Pending) + Cardinality(Reviewers(i)))
AuditLoad(s) == audited[s] + (Cardinality(Pending) + Cardinality(Auditors))
                           + (Cardinality(Early) + Cardinality(EarlyAuditors))

\* Each fault and each error allows one more of everything, and two more audits.
Counted ==
    /\ \A e \in Executors : Undecided(exec[e])
    /\ AllFinite
    /\ \A p \in Platforms : OutLoad(p) <= 1 + faults + errors
    /\ \A i \in Drafts : ReviewLoad(i) <= 1 + faults + errors
    /\ \A s \in Audited : AuditLoad(s) <= 2 * (1 + faults + errors)

\* From sets K and A of d elements less or more to L and B.
Bounded(K, A, L, B, d) ==
    /\ IsFiniteSet(L) /\ IsFiniteSet(B)
    /\ Cardinality(L) + Cardinality(B) <= Cardinality(K) + Cardinality(A) + d

LEMMA OneMore ==
  ASSUME NEW S, IsFiniteSet(S), NEW x, NEW T, T \subseteq S \cup {x}
  PROVE  IsFiniteSet(T) /\ Cardinality(T) <= Cardinality(S) + 1
<1>1. IsFiniteSet(S \cup {x}) /\ Cardinality(S \cup {x}) <= Cardinality(S) + 1
  <2>1. /\ IsFiniteSet(S \cup {x})
        /\ Cardinality(S \cup {x}) = IF x \in S THEN Cardinality(S) ELSE Cardinality(S) + 1
    BY FS_AddElement
  <2>2. Cardinality(S) \in Nat
    BY FS_CardinalityType
  <2> QED BY <2>1, <2>2
<1>2. IsFiniteSet(T) /\ Cardinality(T) <= Cardinality(S \cup {x})
  BY <1>1, FS_Subset
<1>3. Cardinality(T) \in Nat /\ Cardinality(S \cup {x}) \in Nat /\ Cardinality(S) \in Nat
  BY <1>1, <1>2, FS_CardinalityType
<1> QED BY <1>1, <1>2, <1>3

LEMMA OneLess ==
  ASSUME NEW S, IsFiniteSet(S), NEW x \in S, NEW T, T \subseteq S \ {x}
  PROVE  IsFiniteSet(T) /\ Cardinality(T) <= Cardinality(S) - 1
<1>1. IsFiniteSet(S \ {x}) /\ Cardinality(S \ {x}) = Cardinality(S) - 1
  BY FS_RemoveElement
<1>2. IsFiniteSet(T) /\ Cardinality(T) <= Cardinality(S \ {x})
  BY <1>1, FS_Subset
<1> QED BY <1>1, <1>2

\* What a step of consumer e with job k may do to the sum.
LEMMA Trade ==
  ASSUME NEW K, NEW A, NEW L, NEW B, NEW k, NEW e,
         IsFiniteSet(K), IsFiniteSet(A), B \ {e} = A \ {e}
  PROVE  /\ L \subseteq K /\ (e \in B => e \in A) => Bounded(K, A, L, B, 0)
         /\ k \in K /\ L \subseteq K \ {k} => Bounded(K, A, L, B, 0)
         /\ L \subseteq K \cup {k} /\ e \in A /\ e \notin B => Bounded(K, A, L, B, 0)
         /\ L \subseteq K /\ e \in A /\ e \notin B => Bounded(K, A, L, B, -1)
         /\ L \subseteq K => Bounded(K, A, L, B, 1)
         /\ L \subseteq K \cup {k} /\ (e \in B => e \in A) => Bounded(K, A, L, B, 1)
<1>k. Cardinality(K) \in Nat /\ Cardinality(A) \in Nat
  BY FS_CardinalityType
<1>n. \A S : IsFiniteSet(S) => Cardinality(S) \in Nat
  BY FS_CardinalityType
<1>1. (e \in B => e \in A) => IsFiniteSet(B) /\ Cardinality(B) <= Cardinality(A)
  <2>1. (e \in B => e \in A) => B \subseteq A
    OBVIOUS
  <2> QED BY <2>1, FS_Subset
<1>2. e \in A /\ e \notin B => IsFiniteSet(B) /\ Cardinality(B) <= Cardinality(A) - 1
  <2>1. e \notin B => B \subseteq A \ {e}
    OBVIOUS
  <2> QED BY <2>1, OneLess
<1>3. IsFiniteSet(B) /\ Cardinality(B) <= Cardinality(A) + 1
  <2>1. B \subseteq A \cup {e}
    OBVIOUS
  <2> QED BY <2>1, OneMore
<1>4. L \subseteq K => IsFiniteSet(L) /\ Cardinality(L) <= Cardinality(K)
  BY FS_Subset
<1>5. k \in K /\ L \subseteq K \ {k} => IsFiniteSet(L) /\ Cardinality(L) <= Cardinality(K) - 1
  BY OneLess
<1>6. L \subseteq K \cup {k} => IsFiniteSet(L) /\ Cardinality(L) <= Cardinality(K) + 1
  BY OneMore
<1>7. IsFiniteSet(L) => Cardinality(L) \in Nat
  BY <1>n
<1>8. IsFiniteSet(B) => Cardinality(B) \in Nat
  BY <1>n
<1> QED BY <1>k, <1>1, <1>2, <1>3, <1>4, <1>5, <1>6, <1>7, <1>8 DEF Bounded

\* Only consumer e may enter or leave one of the sets.
LEMMA ExecSets ==
  ASSUME NEW e \in Executors, \A f \in Executors \ {e} : exec'[f] = exec[f]
  PROVE  /\ \A p \in Platforms :
              /\ Publishers(p)' \ {e} = Publishers(p) \ {e}
              /\ (e \in Publishers(p) <=> WillPublish(exec[e], p))
              /\ (e \in Publishers(p)' <=> WillPublish(exec'[e], p))
         /\ \A i \in Drafts :
              /\ Reviewers(i)' \ {e} = Reviewers(i) \ {e}
              /\ (e \in Reviewers(i) <=> WillReview(exec[e], i))
              /\ (e \in Reviewers(i)' <=> WillReview(exec'[e], i))
         /\ Auditors' \ {e} = Auditors \ {e} /\ EarlyAuditors' \ {e} = EarlyAuditors \ {e}
         /\ (e \in Auditors <=> WillAudit(exec[e])) /\ (e \in Auditors' <=> WillAudit(exec'[e]))
         /\ (e \in EarlyAuditors <=> WillAuditTwice(exec[e]))
         /\ (e \in EarlyAuditors' <=> WillAuditTwice(exec'[e]))
<1>1. /\ Auditors' = {f \in Executors : WillAudit(exec'[f])}
      /\ EarlyAuditors' = {f \in Executors : WillAuditTwice(exec'[f])}
  BY DEF Auditors, EarlyAuditors, WillAudit, WillAuditTwice, Leads, Unaudited
<1>2. /\ \A p \in Platforms : Publishers(p)' = {f \in Executors : WillPublish(exec'[f], p)}
      /\ \A i \in Drafts : Reviewers(i)' = {f \in Executors : WillReview(exec'[f], i)}
  BY DEF Publishers, Reviewers, WillPublish, WillReview, Leads
<1>3. \A p \in Platforms :
         /\ Publishers(p)' \ {e} = Publishers(p) \ {e}
         /\ (e \in Publishers(p) <=> WillPublish(exec[e], p))
         /\ (e \in Publishers(p)' <=> WillPublish(exec'[e], p))
  BY <1>2 DEF Publishers
<1>4. \A i \in Drafts :
         /\ Reviewers(i)' \ {e} = Reviewers(i) \ {e}
         /\ (e \in Reviewers(i) <=> WillReview(exec[e], i))
         /\ (e \in Reviewers(i)' <=> WillReview(exec'[e], i))
  BY <1>2 DEF Reviewers
<1> QED BY <1>1, <1>3, <1>4 DEF Auditors, EarlyAuditors

\* The loads change by what is sent and by what may still be sent.
Loads(o, r, a, b) ==
    /\ \A p \in Platforms : Bounded(Pending, Publishers(p), Pending', Publishers(p)', o[p])
    /\ \A i \in Drafts : Bounded(Pending, Reviewers(i), Pending', Reviewers(i)', r[i])
    /\ Bounded(Pending, Auditors, Pending', Auditors', a)
    /\ Bounded(Early, EarlyAuditors, Early', EarlyAuditors', b)
All(S, n) == [x \in S |-> n]
Deltas == {-1, 0, 1}

Settled(d) ==
    /\ AllFinite'
    /\ \A p \in Platforms : OutLoad(p)' <= OutLoad(p) + d
    /\ \A i \in Drafts : ReviewLoad(i)' <= ReviewLoad(i) + d
    /\ \A s \in Audited : AuditLoad(s)' <= AuditLoad(s) + 2 * d

LEMMA Settle ==
  ASSUME TypeOK, AllFinite, Grows, NEW d \in {0, 1},
         NEW o \in [Platforms -> Deltas], NEW r \in [Drafts -> Deltas],
         NEW a \in Deltas, NEW b \in Deltas, Loads(o, r, a, b),
         \A p \in Platforms : Len(external'[p]) + o[p] <= Len(external[p]) + d,
         \A i \in Drafts : review'[i] + r[i] <= review[i] + d,
         \A s \in Audited : audited'[s] + (a + b) <= audited[s] + 2 * d
  PROVE  Settled(d)
<1>d. \A x \in Deltas : x \in Int
  BY DEF Deltas
<1>n. \A S : IsFiniteSet(S) => Cardinality(S) \in Nat
  BY FS_CardinalityType
<1>1. IsFiniteSet(Pending) /\ IsFiniteSet(Pending')
      /\ IsFiniteSet(Auditors) /\ IsFiniteSet(Auditors')
      /\ IsFiniteSet(EarlyAuditors) /\ IsFiniteSet(EarlyAuditors')
      /\ IsFiniteSet(Early')
  BY DEF AllFinite, Loads, Bounded
<1>2. IsFiniteSet(Early)
  BY <1>1, FS_Subset DEF Early
<1>3. /\ \A p \in Platforms : IsFiniteSet(Publishers(p)) /\ IsFiniteSet(Publishers(p)')
      /\ \A i \in Drafts : IsFiniteSet(Reviewers(i)) /\ IsFiniteSet(Reviewers(i)')
  BY DEF AllFinite, Loads, Bounded
<1>4. AllFinite'
  BY <1>1, <1>3 DEF AllFinite
<1>5. ASSUME NEW p \in Platforms PROVE OutLoad(p)' <= OutLoad(p) + d
  <2>1. Len(external[p]) \in Nat /\ Len(external'[p]) \in Nat
    <3>1. external[p] \in Seq(Post) /\ external'[p] \in Seq(Post)
      BY DEF TypeOK, Grows, OutGrows
    <3> QED BY <3>1
  <2>2. /\ Cardinality(Pending) \in Nat /\ Cardinality(Pending') \in Nat
        /\ Cardinality(Publishers(p)) \in Nat /\ Cardinality(Publishers(p)') \in Nat
    BY <1>n, <1>1, <1>3
  <2>3. Cardinality(Pending') + Cardinality(Publishers(p)')
          <= Cardinality(Pending) + Cardinality(Publishers(p)) + o[p]
    BY DEF Loads, Bounded
  <2>4. o[p] \in Int /\ Len(external'[p]) + o[p] <= Len(external[p]) + d
    BY <1>d
  <2> QED BY <2>1, <2>2, <2>3, <2>4 DEF OutLoad
<1>6. ASSUME NEW i \in Drafts PROVE ReviewLoad(i)' <= ReviewLoad(i) + d
  <2>1. review[i] \in Nat /\ review'[i] \in Nat
    BY DEF TypeOK, Grows, CountsGrow
  <2>2. /\ Cardinality(Pending) \in Nat /\ Cardinality(Pending') \in Nat
        /\ Cardinality(Reviewers(i)) \in Nat /\ Cardinality(Reviewers(i)') \in Nat
    BY <1>n, <1>1, <1>3
  <2>3. Cardinality(Pending') + Cardinality(Reviewers(i)')
          <= Cardinality(Pending) + Cardinality(Reviewers(i)) + r[i]
    BY DEF Loads, Bounded
  <2>4. r[i] \in Int /\ review'[i] + r[i] <= review[i] + d
    BY <1>d
  <2> QED BY <2>1, <2>2, <2>3, <2>4 DEF ReviewLoad
<1>7. ASSUME NEW s \in Audited PROVE AuditLoad(s)' <= AuditLoad(s) + 2 * d
  <2>1. audited[s] \in Nat /\ audited'[s] \in Nat
    BY DEF TypeOK, Grows, CountsGrow
  <2>2. /\ Cardinality(Pending) \in Nat /\ Cardinality(Pending') \in Nat
        /\ Cardinality(Auditors) \in Nat /\ Cardinality(Auditors') \in Nat
        /\ Cardinality(Early) \in Nat /\ Cardinality(Early') \in Nat
        /\ Cardinality(EarlyAuditors) \in Nat /\ Cardinality(EarlyAuditors') \in Nat
    BY <1>n, <1>1, <1>2
  <2>3. /\ Cardinality(Pending') + Cardinality(Auditors')
             <= Cardinality(Pending) + Cardinality(Auditors) + a
        /\ Cardinality(Early') + Cardinality(EarlyAuditors')
             <= Cardinality(Early) + Cardinality(EarlyAuditors) + b
    BY DEF Loads, Bounded
  <2>4. a \in Int /\ b \in Int /\ audited'[s] + (a + b) <= audited[s] + 2 * d
    BY <1>d
  <2>5. 2 * d \in Int
    OBVIOUS
  <2> DEFINE c == 2 * d
  <2>6. c \in Int /\ audited'[s] + (a + b) <= audited[s] + c
    BY <2>4, <2>5
  <2> HIDE DEF c
  <2>7. AuditLoad(s)' <= AuditLoad(s) + c
    <3> DEFINE x == Cardinality(Pending) + Cardinality(Auditors)
               y == Cardinality(Pending') + Cardinality(Auditors')
               v == Cardinality(Early) + Cardinality(EarlyAuditors)
               w == Cardinality(Early') + Cardinality(EarlyAuditors')
    <3>1. x \in Nat /\ y \in Nat /\ v \in Nat /\ w \in Nat
      BY <2>2
    <3>2. y <= x + a /\ w <= v + b
      BY <2>3
    <3>3. AuditLoad(s)' = audited'[s] + y + w /\ AuditLoad(s) = audited[s] + x + v
      BY DEF AuditLoad
    <3> HIDE DEF x, y, v, w
    <3>4. audited'[s] + y + w <= (audited[s] + x + v) + c
      <4>1. \A n, m, i, j, k, l \in Nat, g, h, t \in Int :
               n + (g + h) <= m + t /\ j <= i + g /\ l <= k + h => n + j + l <= (m + i + k) + t
        OBVIOUS
      <4> QED BY <2>1, <2>4, <2>6, <3>1, <3>2, <4>1
    <3> QED BY <3>3, <3>4
  <2> QED BY <2>7 DEF c
<1> QED BY <1>4, <1>5, <1>6, <1>7 DEF Settled

\* Nothing is sent, and nothing more may be.
LEMMA Steady ==
  ASSUME TypeOK, AllFinite, Grows, Frozen, Loads(All(Platforms, 0), All(Drafts, 0), 0, 0)
  PROVE  Settled(0)
<1>1. /\ All(Platforms, 0) \in [Platforms -> Deltas] /\ All(Drafts, 0) \in [Drafts -> Deltas]
      /\ 0 \in Deltas /\ \A p \in Platforms : All(Platforms, 0)[p] = 0
      /\ \A i \in Drafts : All(Drafts, 0)[i] = 0
  BY DEF All, Deltas
<1>2. \A p \in Platforms : Len(external'[p]) + All(Platforms, 0)[p] <= Len(external[p]) + 0
  <2>1. \A p \in Platforms : Len(external[p]) \in Nat
    <3>1. external \in [Platforms -> Seq(Post)]
      BY DEF TypeOK
    <3> QED BY <3>1
  <2>2. external' = external
    BY DEF Frozen
  <2> QED BY <1>1, <2>1, <2>2
<1>3. \A i \in Drafts : review'[i] + All(Drafts, 0)[i] <= review[i] + 0
  <2>1. review' = review /\ \A i \in Drafts : review[i] \in Nat
    BY DEF Frozen, TypeOK
  <2> QED BY <1>1, <2>1
<1>4. \A s \in Audited : audited'[s] + (0 + 0) <= audited[s] + 2 * 0
  <2>1. audited' = audited /\ \A s \in Audited : audited[s] \in Nat
    BY DEF Frozen, TypeOK
  <2> QED BY <2>1
<1> QED BY <1>1, <1>2, <1>3, <1>4, Settle

\* Nothing is sent, but a fault or an error allows more of everything.
LEMMA Rising ==
  ASSUME TypeOK, AllFinite, Grows, Frozen, Loads(All(Platforms, 1), All(Drafts, 1), 1, 1)
  PROVE  Settled(1)
<1>1. /\ All(Platforms, 1) \in [Platforms -> Deltas] /\ All(Drafts, 1) \in [Drafts -> Deltas]
      /\ 1 \in Deltas /\ \A p \in Platforms : All(Platforms, 1)[p] = 1
      /\ \A i \in Drafts : All(Drafts, 1)[i] = 1
  BY DEF All, Deltas
<1>2. \A p \in Platforms : Len(external'[p]) + All(Platforms, 1)[p] <= Len(external[p]) + 1
  <2>1. \A p \in Platforms : Len(external[p]) \in Nat
    <3>1. external \in [Platforms -> Seq(Post)]
      BY DEF TypeOK
    <3> QED BY <3>1
  <2>2. external' = external
    BY DEF Frozen
  <2> QED BY <1>1, <2>1, <2>2
<1>3. \A i \in Drafts : review'[i] + All(Drafts, 1)[i] <= review[i] + 1
  <2>1. review' = review /\ \A i \in Drafts : review[i] \in Nat
    BY DEF Frozen, TypeOK
  <2> QED BY <1>1, <2>1
<1>4. \A s \in Audited : audited'[s] + (1 + 1) <= audited[s] + 2 * 1
  <2>1. audited' = audited /\ \A s \in Audited : audited[s] \in Nat
    BY DEF Frozen, TypeOK
  <2> QED BY <2>1
<1> QED BY <1>1, <1>2, <1>3, <1>4, Settle

LEMMA PendingSame ==
  ASSUME UNCHANGED Handling, job' = job
  PROVE  Pending' = Pending /\ Early' = Early
<1>1. \A f \in Executors : exec'[f].key = exec[f].key
  BY DEF Handling
<1>2. \A k \in Keys : Handled(k)' <=> Handled(k)
  BY <1>1 DEF Handled
<1>3. Pending' = Pending
  BY <1>2 DEF Pending, Queued
<1> QED BY <1>3 DEF Early

LEMMA EarlyFinite == ASSUME AllFinite PROVE IsFiniteSet(Early)
BY FS_Subset DEF AllFinite, Early

\* A consumer moves within its phase.
LEMMA InnerLoads ==
  ASSUME AllFinite, NEW e \in Executors, \A f \in Executors \ {e} : exec'[f] = exec[f],
         UNCHANGED Handling, job' = job
  PROVE  /\ \A p \in Platforms :
              /\ (WillPublish(exec'[e], p) => WillPublish(exec[e], p)) =>
                    Bounded(Pending, Publishers(p), Pending', Publishers(p)', 0)
              /\ WillPublish(exec[e], p) /\ ~WillPublish(exec'[e], p) =>
                    Bounded(Pending, Publishers(p), Pending', Publishers(p)', -1)
              /\ Bounded(Pending, Publishers(p), Pending', Publishers(p)', 1)
         /\ \A i \in Drafts :
              /\ (WillReview(exec'[e], i) => WillReview(exec[e], i)) =>
                    Bounded(Pending, Reviewers(i), Pending', Reviewers(i)', 0)
              /\ WillReview(exec[e], i) /\ ~WillReview(exec'[e], i) =>
                    Bounded(Pending, Reviewers(i), Pending', Reviewers(i)', -1)
              /\ Bounded(Pending, Reviewers(i), Pending', Reviewers(i)', 1)
         /\ (WillAudit(exec'[e]) => WillAudit(exec[e])) =>
               Bounded(Pending, Auditors, Pending', Auditors', 0)
         /\ WillAudit(exec[e]) /\ ~WillAudit(exec'[e]) =>
               Bounded(Pending, Auditors, Pending', Auditors', -1)
         /\ Bounded(Pending, Auditors, Pending', Auditors', 1)
         /\ (WillAuditTwice(exec'[e]) => WillAuditTwice(exec[e])) =>
               Bounded(Early, EarlyAuditors, Early', EarlyAuditors', 0)
         /\ WillAuditTwice(exec[e]) /\ ~WillAuditTwice(exec'[e]) =>
               Bounded(Early, EarlyAuditors, Early', EarlyAuditors', -1)
         /\ Bounded(Early, EarlyAuditors, Early', EarlyAuditors', 1)
<1>1. Pending' \subseteq Pending /\ Early' \subseteq Early
  BY PendingSame
<1>2. IsFiniteSet(Early)
  BY EarlyFinite
<1>3. ASSUME NEW p \in Platforms
      PROVE  /\ (WillPublish(exec'[e], p) => WillPublish(exec[e], p)) =>
                    Bounded(Pending, Publishers(p), Pending', Publishers(p)', 0)
             /\ WillPublish(exec[e], p) /\ ~WillPublish(exec'[e], p) =>
                    Bounded(Pending, Publishers(p), Pending', Publishers(p)', -1)
             /\ Bounded(Pending, Publishers(p), Pending', Publishers(p)', 1)
  BY <1>1, ExecSets, Trade DEF AllFinite
<1>4. ASSUME NEW i \in Drafts
      PROVE  /\ (WillReview(exec'[e], i) => WillReview(exec[e], i)) =>
                    Bounded(Pending, Reviewers(i), Pending', Reviewers(i)', 0)
             /\ WillReview(exec[e], i) /\ ~WillReview(exec'[e], i) =>
                    Bounded(Pending, Reviewers(i), Pending', Reviewers(i)', -1)
             /\ Bounded(Pending, Reviewers(i), Pending', Reviewers(i)', 1)
  BY <1>1, ExecSets, Trade DEF AllFinite
<1>5. /\ (WillAudit(exec'[e]) => WillAudit(exec[e])) =>
               Bounded(Pending, Auditors, Pending', Auditors', 0)
      /\ WillAudit(exec[e]) /\ ~WillAudit(exec'[e]) =>
               Bounded(Pending, Auditors, Pending', Auditors', -1)
      /\ Bounded(Pending, Auditors, Pending', Auditors', 1)
  BY <1>1, ExecSets, Trade DEF AllFinite
<1>6. /\ (WillAuditTwice(exec'[e]) => WillAuditTwice(exec[e])) =>
               Bounded(Early, EarlyAuditors, Early', EarlyAuditors', 0)
      /\ WillAuditTwice(exec[e]) /\ ~WillAuditTwice(exec'[e]) =>
               Bounded(Early, EarlyAuditors, Early', EarlyAuditors', -1)
      /\ Bounded(Early, EarlyAuditors, Early', EarlyAuditors', 1)
  BY <1>1, <1>2, ExecSets, Trade DEF AllFinite
<1> QED BY <1>3, <1>4, <1>5, <1>6

Quiet(e) ==
    /\ \A p \in Platforms : WillPublish(exec'[e], p) => WillPublish(exec[e], p)
    /\ \A i \in Drafts : WillReview(exec'[e], i) => WillReview(exec[e], i)
    /\ WillAudit(exec'[e]) => WillAudit(exec[e])
    /\ WillAuditTwice(exec'[e]) => WillAuditTwice(exec[e])

LEMMA QuietSettles ==
  ASSUME TypeOK, AllFinite, Grows, NEW e \in Executors,
         \A f \in Executors \ {e} : exec'[f] = exec[f],
         UNCHANGED Handling, job' = job, Frozen, Quiet(e)
  PROVE  Settled(0)
<1>1. /\ \A p \in Platforms : All(Platforms, 0)[p] = 0
      /\ \A i \in Drafts : All(Drafts, 0)[i] = 0
  BY DEF All
<1>2. Loads(All(Platforms, 0), All(Drafts, 0), 0, 0)
  BY <1>1, InnerLoads DEF Quiet, Loads
<1> QED BY <1>2, Steady

\* Work and everything up to the end of a phase sends nothing.
LEMMA WorkCounts ==
  ASSUME Basics, Counted, DurableRunAssumption, Grows, NEW e \in Executors, Work(e)
  PROVE  Settled(0) /\ Undecided(exec'[e])
<1>a. TypeOK /\ AllFinite /\ Undecided(exec[e])
  BY DEF Basics, Counted
<1> DEFINE x == exec[e]
<1>c. x.pc = "working" /\ Frozen /\ job' = job
  BY DEF Work, Select, Plan, Tailor, Execute, Critique, Working, Frozen
<1>h. UNCHANGED Handling
  BY KeyStep
<1>1. ASSUME NEW r \in RunRecord, NEW n \in Nexts \ {"dead"}, Ahead(e, r, n),
             Becomes(e, "saving", x.key, r, n, x.at, x.posted, x.loaded)
      PROVE  Quiet(e) /\ Undecided(exec'[e]) /\ \A f \in Executors \ {e} : exec'[f] = exec[f]
  <2>1. /\ exec'[e].pc = "saving" /\ exec'[e].copy = r /\ exec'[e].next = n
        /\ \A f \in Executors \ {e} : exec'[f] = exec[f]
    BY <1>1 DEF Becomes
  <2>2. /\ \A p \in Platforms : WillPublish(exec[e], p)
        /\ \A i \in Drafts : WillReview(exec[e], i)
    BY <1>c DEF WillPublish, WillReview
  <2>3. WillAudit(exec[e])
    BY <1>c DEF WillAudit
  <2>4. n # None /\ Before(n) => x.key.phase \in {"select", "plan"}
    BY <1>1 DEF Ahead
  <2>5. n # None /\ x.key.phase # "tailor" => r.status \notin Audited
    BY <1>1, <1>a, <1>c DEF Ahead, Undecided
  <2>6. WillAuditTwice(exec'[e]) => WillAuditTwice(exec[e])
    BY <1>c, <2>1, <2>4, <2>5 DEF WillAuditTwice, Unaudited, Before
  <2>7. Undecided(exec'[e])
    BY <2>1, <2>4, <2>5 DEF Undecided
  <2> QED BY <2>1, <2>2, <2>3, <2>6, <2>7 DEF Quiet
<1>2. ASSUME Becomes(e, "reviewing", x.key, [x.copy EXCEPT !.status = "awaiting_review"],
                     x.next, x.at, x.posted, x.loaded)
      PROVE  Quiet(e) /\ Undecided(exec'[e]) /\ \A f \in Executors \ {e} : exec'[f] = exec[f]
  <2>1. exec'[e].pc = "reviewing" /\ \A f \in Executors \ {e} : exec'[f] = exec[f]
    BY <1>2 DEF Becomes
  <2>2. /\ \A p \in Platforms : WillPublish(exec[e], p)
        /\ \A i \in Drafts : WillReview(exec[e], i)
    BY <1>c DEF WillPublish, WillReview
  <2>3. WillAudit(exec[e]) /\ ~WillAuditTwice(exec'[e]) /\ Undecided(exec'[e])
    BY <1>c, <2>1 DEF WillAudit, WillAuditTwice, Undecided, Unaudited
  <2> QED BY <2>1, <2>2, <2>3 DEF Quiet
<1>3. Quiet(e) /\ Undecided(exec'[e]) /\ \A f \in Executors \ {e} : exec'[f] = exec[f]
  BY <1>a, <1>1, <1>2, WorkBecomes DEF Worked
<1> QED BY <1>a, <1>c, <1>h, <1>3, QuietSettles

LEMMA ReviewCounts ==
  ASSUME Basics, Counted, DurableRunAssumption, Grows, NEW e \in Executors, Review(e)
  PROVE  Settled(0) /\ Undecided(exec'[e])
<1>a. TypeOK /\ AllFinite /\ exec[e].copy \in RunRecord
  BY DEF Basics, Counted, TypeOK
<1> DEFINE x == exec[e]
<1>c. /\ x.pc = "reviewing" /\ x.at > 0 /\ x.next = None
      /\ job' = job /\ external' = external /\ audited' = audited
  BY DEF Review, Basics, Shape, ShapeOf, ShapeAt
<1>h. UNCHANGED Handling
  BY KeyStep
<1>1. CASE Becomes(e, "saving", x.key, x.copy, None, x.at, x.posted, x.loaded) /\ review' = review
  <2>1. /\ exec'[e].pc = "saving" /\ exec'[e].next = None
        /\ \A f \in Executors \ {e} : exec'[f] = exec[f]
    BY <1>1 DEF Becomes
  <2>2. /\ \A p \in Platforms : ~WillPublish(exec'[e], p)
        /\ \A i \in Drafts : ~WillReview(exec'[e], i)
    BY <2>1 DEF WillPublish, WillReview, Leads
  <2>3. WillAudit(exec[e]) /\ ~WillAuditTwice(exec'[e]) /\ Undecided(exec'[e])
    BY <1>c, <2>1 DEF WillAudit, WillAuditTwice, Undecided
  <2>4. Frozen
    BY <1>1, <1>c DEF Frozen
  <2>5. Quiet(e)
    BY <2>2, <2>3 DEF Quiet
  <2> QED BY <1>a, <1>c, <1>h, <2>1, <2>3, <2>4, <2>5, QuietSettles
<1>3. CASE /\ Becomes(e, "reviewing", x.key, x.copy, x.next, x.at + 1, x.posted, x.loaded)
           /\ review' = review
  <2>1. /\ exec'[e].pc = "reviewing" /\ exec'[e].copy = x.copy
        /\ \A f \in Executors \ {e} : exec'[f] = exec[f]
    BY <1>3 DEF Becomes
  <2>2. /\ \A p \in Platforms : ~WillPublish(exec'[e], p)
        /\ \A i \in Drafts : WillReview(exec'[e], i) => WillReview(exec[e], i)
    BY <1>c, <2>1 DEF WillPublish, WillReview, Leads
  <2>3. WillAudit(exec[e]) /\ ~WillAuditTwice(exec'[e]) /\ Undecided(exec'[e])
    BY <1>c, <2>1 DEF WillAudit, WillAuditTwice, Undecided
  <2>4. Frozen /\ Quiet(e)
    BY <1>3, <1>c, <2>2, <2>3 DEF Frozen, Quiet
  <2> QED BY <1>a, <1>c, <1>h, <2>1, <2>3, <2>4, QuietSettles
<1>2. ASSUME NEW d \in Drafts \ x.copy.tags,
             Becomes(e, "reviewing", x.key, [x.copy EXCEPT !.tags = x.copy.tags \cup {d}],
                     x.next, x.at + 1, x.posted, x.loaded),
             review' = [review EXCEPT ![d] = @ + 1]
      PROVE  Settled(0) /\ Undecided(exec'[e])
  <2> DEFINE t == [All(Drafts, 0) EXCEPT ![d] = -1]
  <2>1. /\ exec'[e].pc = "reviewing" /\ exec'[e].copy.tags = x.copy.tags \cup {d}
        /\ \A f \in Executors \ {e} : exec'[f] = exec[f]
    BY <1>2, <1>a DEF Becomes, RunRecord
  <2>2. \A q \in Platforms : ~WillPublish(exec'[e], q)
    BY <2>1 DEF WillPublish, Leads
  <2>3. \A i \in Drafts : /\ WillReview(exec[e], i) <=> i \notin x.copy.tags
                          /\ WillReview(exec'[e], i) <=> i \notin x.copy.tags /\ i # d
    BY <1>c, <2>1 DEF WillReview, Leads
  <2>4. WillAudit(exec[e]) /\ ~WillAuditTwice(exec'[e]) /\ Undecided(exec'[e])
    BY <1>c, <2>1 DEF WillAudit, WillAuditTwice, Undecided
  <2>5. /\ All(Platforms, 0) \in [Platforms -> Deltas] /\ t \in [Drafts -> Deltas] /\ 0 \in Deltas
        /\ \A q \in Platforms : All(Platforms, 0)[q] = 0
        /\ \A i \in Drafts : t[i] = IF i = d THEN -1 ELSE 0
    BY DEF All, Deltas
  <2> HIDE DEF t
  <2>6. \A i \in Drafts : Bounded(Pending, Reviewers(i), Pending', Reviewers(i)', t[i])
    BY <1>a, <1>c, <1>h, <2>1, <2>3, <2>5, InnerLoads
  <2>7. Loads(All(Platforms, 0), t, 0, 0)
    BY <1>a, <1>c, <1>h, <2>1, <2>2, <2>4, <2>5, <2>6, InnerLoads DEF Loads
  <2>8. \A i \in Drafts : review'[i] + t[i] <= review[i] + 0
    <3>1. review \in [Drafts -> Nat]
      BY <1>a DEF TypeOK
    <3>2. \A i \in Drafts : review'[i] = IF i = d THEN review[i] + 1 ELSE review[i]
      BY <1>2, <3>1
    <3> QED BY <2>5, <3>1, <3>2
  <2>9. \A q \in Platforms : Len(external'[q]) + All(Platforms, 0)[q] <= Len(external[q]) + 0
    <3>1. \A q \in Platforms : Len(external[q]) \in Nat
      <4>1. external \in [Platforms -> Seq(Post)]
        BY <1>a DEF TypeOK
      <4> QED BY <4>1
    <3> QED BY <1>c, <2>5, <3>1
  <2>10. \A s \in Audited : audited'[s] + (0 + 0) <= audited[s] + 2 * 0
    <3>1. \A s \in Audited : audited[s] \in Nat
      BY <1>a DEF TypeOK
    <3> QED BY <1>c, <3>1
  <2> QED BY <1>a, <2>4, <2>5, <2>7, <2>8, <2>9, <2>10, Settle
<1> QED BY <1>a, <1>c, <1>1, <1>2, <1>3, ReviewBecomes

LEMMA PublishCounts ==
  ASSUME Basics, Counted, DurableRunAssumption, Grows, NEW e \in Executors, Publish(e)
  PROVE  Settled(0) /\ Undecided(exec'[e])
<1>a. TypeOK /\ AllFinite /\ exec[e].copy \in RunRecord /\ external \in [Platforms -> Seq(Post)]
  BY DEF Basics, Counted, TypeOK
<1> DEFINE x == exec[e]
<1>c. /\ x.pc = "publishing" /\ x.at > 0 /\ x.next = None
      /\ job' = job /\ review' = review /\ audited' = audited
  BY DEF Publish, Basics, Shape, ShapeOf, ShapeAt
<1>h. UNCHANGED Handling
  BY KeyStep
<1>2. PICK p \in Platforms :
          /\ p = Targets[x.at]
          /\ \/ /\ external' = external
                /\ Becomes(e, "publishing", x.key, x.copy, x.next, x.at + 1, x.posted, x.loaded)
             \/ /\ p \notin x.copy.published /\ Sends(p, x)
                /\ Becomes(e, "recording", x.key, x.copy, x.next, x.at, x.posted, x.loaded)
  BY <1>a, <1>c, PublishBecomes
<1>3. /\ exec'[e].copy = x.copy /\ exec'[e].next = None
      /\ \A f \in Executors \ {e} : exec'[f] = exec[f]
  BY <1>c, <1>2 DEF Becomes
<1>4. exec'[e].pc \in {"publishing", "recording"}
  BY <1>2 DEF Becomes
<1>5. /\ \A i \in Drafts : ~WillReview(exec'[e], i)
      /\ WillAudit(exec[e]) /\ ~WillAuditTwice(exec'[e]) /\ Undecided(exec'[e])
  BY <1>c, <1>4 DEF WillReview, WillAudit, WillAuditTwice, Undecided, Leads, Unaudited
<1>6. CASE external' = external /\ exec'[e].pc = "publishing"
  <2>1. \A q \in Platforms : WillPublish(exec'[e], q) => WillPublish(exec[e], q)
    BY <1>c, <1>3, <1>6 DEF WillPublish, Leads
  <2>2. Quiet(e) /\ Frozen
    BY <1>c, <1>5, <1>6, <2>1 DEF Quiet, Frozen
  <2> QED BY <1>a, <1>c, <1>h, <1>3, <1>5, <2>2, QuietSettles
<1>7. CASE /\ Sends(p, x) /\ p \notin x.copy.published
           /\ exec'[e].pc = "recording" /\ exec'[e].at = x.at
  <2> DEFINE t == [All(Platforms, 0) EXCEPT ![p] = -1]
  <2>1. \A q \in Platforms : /\ WillPublish(exec[e], q) <=> q \notin x.copy.published
                             /\ WillPublish(exec'[e], q) <=> q \notin x.copy.published /\ q # p
    BY <1>c, <1>2, <1>3, <1>7 DEF WillPublish, Leads
  <2>2. /\ All(Drafts, 0) \in [Drafts -> Deltas] /\ t \in [Platforms -> Deltas] /\ 0 \in Deltas
        /\ \A i \in Drafts : All(Drafts, 0)[i] = 0
        /\ \A q \in Platforms : t[q] = IF q = p THEN -1 ELSE 0
    BY DEF All, Deltas
  <2> HIDE DEF t
  <2>3. \A q \in Platforms : Bounded(Pending, Publishers(q), Pending', Publishers(q)', t[q])
    BY <1>a, <1>c, <1>h, <1>3, <1>7, <2>1, <2>2, InnerLoads
  <2>4. Loads(t, All(Drafts, 0), 0, 0)
    BY <1>a, <1>c, <1>h, <1>3, <1>5, <2>2, <2>3, InnerLoads DEF Loads
  <2>5. \A q \in Platforms : Len(external'[q]) + t[q] <= Len(external[q]) + 0
    <3>1. ASSUME NEW s \in Seq(Post), NEW post \in Post
          PROVE  Len(s) \in Nat /\ Len(Append(s, post)) = Len(s) + 1
      BY <3>1, AppendProperties
    <3>2. PICK post \in Post : external' = [external EXCEPT ![p] = Append(@, post)]
      BY <1>7 DEF Sends
    <3>3. \A q \in Platforms : /\ Len(external[q]) \in Nat
                               /\ Len(external'[q]) = IF q = p THEN Len(external[q]) + 1
                                                               ELSE Len(external[q])
      BY <1>a, <3>1, <3>2
    <3> QED BY <2>2, <3>3
  <2>6. \A i \in Drafts : review'[i] + All(Drafts, 0)[i] <= review[i] + 0
    <3>1. \A i \in Drafts : review[i] \in Nat
      BY <1>a DEF TypeOK
    <3> QED BY <1>c, <2>2, <3>1
  <2>7. \A s \in Audited : audited'[s] + (0 + 0) <= audited[s] + 2 * 0
    <3>1. \A s \in Audited : audited[s] \in Nat
      BY <1>a DEF TypeOK
    <3> QED BY <1>c, <3>1
  <2> QED BY <1>a, <1>5, <2>2, <2>4, <2>5, <2>6, <2>7, Settle
<1> QED BY <1>2, <1>6, <1>7 DEF Becomes

LEMMA AuditCounts ==
  ASSUME Basics, Counted, DurableRunAssumption, Grows, NEW e \in Executors, Audit(e)
  PROVE  Settled(0) /\ Undecided(exec'[e])
<1>a. TypeOK /\ AllFinite /\ exec[e].copy \in RunRecord /\ Undecided(exec[e])
  BY DEF Basics, Counted, TypeOK
<1> DEFINE x == exec[e]
<1>c. /\ x.pc = "auditing" /\ x.copy.status \in Audited
      /\ job' = job /\ external' = external /\ review' = review
      /\ audited' = [audited EXCEPT ![x.copy.status] = @ + 1]
  BY DEF Audit, Basics, Shape, ShapeOf, ShapeAt
<1>h. UNCHANGED Handling
  BY KeyStep
<1>1. /\ exec'[e].pc = "marking" /\ exec'[e].next = x.next /\ exec'[e].key = x.key
      /\ \A f \in Executors \ {e} : exec'[f] = exec[f]
  BY <1>a, <1>c, AuditBecomes DEF Becomes
<1>2. /\ \A p \in Platforms : WillPublish(exec'[e], p) => WillPublish(exec[e], p)
      /\ \A i \in Drafts : WillReview(exec'[e], i) => WillReview(exec[e], i)
  BY <1>c, <1>1 DEF WillPublish, WillReview, Leads
<1>3. WillAudit(exec[e]) /\ Undecided(exec'[e])
  BY <1>c, <1>1 DEF WillAudit, Unaudited, Undecided
<1>4. \/ ~WillAudit(exec'[e]) /\ ~WillAuditTwice(exec'[e])
      \/ WillAuditTwice(exec[e]) /\ ~WillAuditTwice(exec'[e])
  <2>1. CASE x.next = None
    BY <1>1, <2>1 DEF WillAudit, WillAuditTwice, Leads, Unaudited
  <2>2. CASE x.next # None
    <3>1. ~Before(x.next)
      BY <1>a, <1>c, <2>2 DEF Undecided
    <3> QED BY <1>c, <1>1, <2>2, <3>1 DEF WillAuditTwice, Unaudited
  <2> QED BY <2>1, <2>2
<1>5. /\ All(Platforms, 0) \in [Platforms -> Deltas] /\ All(Drafts, 0) \in [Drafts -> Deltas]
      /\ 0 \in Deltas /\ -1 \in Deltas
      /\ \A q \in Platforms : All(Platforms, 0)[q] = 0
      /\ \A i \in Drafts : All(Drafts, 0)[i] = 0
  BY DEF All, Deltas
<1>6. Loads(All(Platforms, 0), All(Drafts, 0), -1, 0) \/ Loads(All(Platforms, 0), All(Drafts, 0), 0, -1)
  BY <1>a, <1>c, <1>h, <1>1, <1>2, <1>3, <1>4, <1>5, InnerLoads DEF Loads
<1>7. \A q \in Platforms : Len(external'[q]) + All(Platforms, 0)[q] <= Len(external[q]) + 0
  <2>1. \A q \in Platforms : Len(external[q]) \in Nat
    <3>1. external \in [Platforms -> Seq(Post)]
      BY <1>a DEF TypeOK
    <3> QED BY <3>1
  <2> QED BY <1>c, <1>5, <2>1
<1>8. \A i \in Drafts : review'[i] + All(Drafts, 0)[i] <= review[i] + 0
  <2>1. \A i \in Drafts : review[i] \in Nat
    BY <1>a DEF TypeOK
  <2> QED BY <1>c, <1>5, <2>1
<1>9. \A s \in Audited : audited'[s] <= audited[s] + 1 /\ audited[s] \in Nat /\ audited'[s] \in Nat
  <2>1. audited \in [Audited -> Nat]
    BY <1>a DEF TypeOK
  <2>2. \A s \in Audited : audited'[s] = IF s = x.copy.status THEN audited[s] + 1 ELSE audited[s]
    BY <1>c, <2>1
  <2> QED BY <2>1, <2>2
<1>10. /\ \A s \in Audited : audited'[s] + (-1 + 0) <= audited[s] + 2 * 0
       /\ \A s \in Audited : audited'[s] + (0 + (-1)) <= audited[s] + 2 * 0
  BY <1>9
<1>11. Settled(0)
  <2>1. CASE Loads(All(Platforms, 0), All(Drafts, 0), -1, 0)
    BY <1>a, <1>5, <1>7, <1>8, <1>10, <2>1, Settle
  <2>2. CASE Loads(All(Platforms, 0), All(Drafts, 0), 0, -1)
    BY <1>a, <1>5, <1>7, <1>8, <1>10, <2>2, Settle
  <2> QED BY <1>6, <2>1, <2>2
<1> QED BY <1>3, <1>11

LEMMA SaveCounts ==
  ASSUME Basics, Counted, DurableRunAssumption, Grows, NEW e \in Executors,
         Record(e) \/ EndPublish(e) \/ Save(e) \/ Mark(e) \/ RaisePermanent(e)
  PROVE  Settled(0) /\ Undecided(exec'[e])
<1>a. TypeOK /\ AllFinite /\ exec[e].copy \in RunRecord /\ Undecided(exec[e])
  BY DEF Basics, Counted, TypeOK
<1> DEFINE x == exec[e]
<1>c. job' = job /\ Frozen
  BY DEF Record, EndPublish, Save, Mark, RaisePermanent, Frozen
<1>h. UNCHANGED Handling
  BY KeyStep
<1>n. x.pc \in {"publishing", "recording"} => x.next = None /\ x.at > 0
  BY DEF Basics, Shape, ShapeOf, ShapeAt
<1>1. CASE Record(e)
  <2>1. x.pc = "recording" /\ x.at > 0 /\ x.at <= Len(Targets)
    BY <1>1 DEF Record, Basics, Shape, ShapeOf, ShapeAt
  <2>2. PICK p \in Platforms :
          /\ p = Targets[x.at]
          /\ Becomes(e, "publishing", x.key,
                     [x.copy EXCEPT !.published = x.copy.published \cup {p}],
                     x.next, x.at + 1, x.posted \cup {p}, x.loaded)
    BY <1>1, <1>a, <2>1, RecordBecomes
  <2>3. /\ exec'[e].pc = "publishing" /\ exec'[e].copy.published = x.copy.published \cup {p}
        /\ \A f \in Executors \ {e} : exec'[f] = exec[f]
    BY <1>a, <2>2 DEF Becomes, RunRecord
  <2>4. /\ \A q \in Platforms : WillPublish(exec'[e], q) => WillPublish(exec[e], q)
        /\ \A i \in Drafts : ~WillReview(exec'[e], i)
    BY <2>1, <2>2, <2>3 DEF WillPublish, WillReview, Leads
  <2>5. WillAudit(exec[e]) /\ ~WillAuditTwice(exec'[e]) /\ Undecided(exec'[e])
    BY <2>1, <2>3 DEF WillAudit, WillAuditTwice, Undecided
  <2>6. Quiet(e)
    BY <2>4, <2>5 DEF Quiet
  <2> QED BY <1>a, <1>c, <1>h, <2>3, <2>5, <2>6, QuietSettles
<1>2. CASE EndPublish(e)
  <2>1. PICK r : exec' = [exec EXCEPT ![e].pc = "saving", ![e].copy = r, ![e].next = None]
    BY <1>2 DEF EndPublish, Finish
  <2>2. /\ exec'[e].pc = "saving" /\ exec'[e].next = None
        /\ \A f \in Executors \ {e} : exec'[f] = exec[f]
    <3>1. exec \in [Executors -> ExecRecord]
      BY <1>a DEF TypeOK, ExecRecord, Pcs, Nexts
    <3> QED BY <2>1, <3>1 DEF ExecRecord
  <2>3. /\ \A q \in Platforms : ~WillPublish(exec'[e], q)
        /\ \A i \in Drafts : ~WillReview(exec'[e], i)
    BY <2>2 DEF WillPublish, WillReview, Leads
  <2>4. WillAudit(exec[e]) /\ ~WillAuditTwice(exec'[e]) /\ Undecided(exec'[e])
    BY <1>2, <2>2 DEF EndPublish, WillAudit, WillAuditTwice, Undecided
  <2>5. Quiet(e)
    BY <2>3, <2>4 DEF Quiet
  <2> QED BY <1>a, <1>c, <1>h, <2>2, <2>4, <2>5, QuietSettles
<1>3. CASE Save(e) \/ Mark(e)
  <2>1. PICK pc \in {"auditing", "routing"} :
           /\ exec' = [exec EXCEPT ![e].pc = pc]
           /\ pc = "auditing" => x.pc = "saving" /\ x.copy.status \in Audited \ x.copy.emitted
    BY <1>3 DEF Save, Mark
  <2>2. Becomes(e, pc, x.key, x.copy, x.next, x.at, x.posted, x.loaded)
    BY <1>a, <2>1, PcBecomes, Names
  <2>3. /\ exec'[e].pc = pc /\ exec'[e].copy = x.copy /\ exec'[e].next = x.next
        /\ \A f \in Executors \ {e} : exec'[f] = exec[f]
    BY <2>2 DEF Becomes
  <2>4. x.pc \in {"saving", "marking"}
    BY <1>3 DEF Save, Mark
  <2>5. /\ \A q \in Platforms : WillPublish(exec'[e], q) => WillPublish(exec[e], q)
        /\ \A i \in Drafts : WillReview(exec'[e], i) => WillReview(exec[e], i)
    BY <2>1, <2>3, <2>4 DEF WillPublish, WillReview, Leads
  <2>6. /\ WillAudit(exec'[e]) => WillAudit(exec[e])
        /\ WillAuditTwice(exec'[e]) => WillAuditTwice(exec[e])
    BY <2>1, <2>3, <2>4 DEF WillAudit, WillAuditTwice, Leads, Unaudited
  <2>7. Undecided(exec'[e])
    BY <1>a, <2>1, <2>3, <2>4 DEF Undecided
  <2>8. Quiet(e)
    BY <2>5, <2>6 DEF Quiet
  <2> QED BY <1>a, <1>c, <1>h, <2>3, <2>7, <2>8, QuietSettles
<1>4. CASE RaisePermanent(e)
  <2>1. /\ exec'[e].pc = "giving up" /\ exec'[e].next = "dead"
        /\ \A f \in Executors \ {e} : exec'[f] = exec[f]
    BY <1>a, <1>4, DeadBecomes DEF Becomes
  <2>2. /\ \A q \in Platforms : ~WillPublish(exec'[e], q)
        /\ \A i \in Drafts : ~WillReview(exec'[e], i)
    BY <2>1 DEF WillPublish, WillReview, Leads
  <2>3. ~WillAudit(exec'[e]) /\ ~WillAuditTwice(exec'[e]) /\ Undecided(exec'[e])
    BY <2>1 DEF WillAudit, WillAuditTwice, Undecided, Leads, Unaudited
  <2>4. Quiet(e)
    BY <2>2, <2>3 DEF Quiet
  <2> QED BY <1>a, <1>c, <1>h, <2>1, <2>3, <2>4, QuietSettles
<1> QED BY <1>1, <1>2, <1>3, <1>4

\* An error of the handler, or a post row that is lost.
LEMMA RaiseCounts ==
  ASSUME Basics, Counted, DurableRunAssumption, Grows, NEW e \in Executors,
         RaiseTransient(e) \/ RecordFails(e)
  PROVE  Settled(1) /\ Undecided(exec'[e])
<1>a. TypeOK /\ AllFinite
  BY DEF Basics, Counted
<1>c. job' = job /\ Frozen
  BY DEF RaiseTransient, RecordFails, Frozen
<1>h. UNCHANGED Handling
  BY KeyStep
<1>1. exec' = [exec EXCEPT ![e].pc = "giving up"]
  BY DEF RaiseTransient, RecordFails
<1>2. exec'[e].pc = "giving up" /\ \A f \in Executors \ {e} : exec'[f] = exec[f]
  BY <1>a, <1>1, PcBecomes, Names DEF Becomes
<1>3. Undecided(exec'[e])
  BY <1>2 DEF Undecided
<1>4. /\ \A p \in Platforms : All(Platforms, 1)[p] = 1
      /\ \A i \in Drafts : All(Drafts, 1)[i] = 1
  BY DEF All
<1>5. Loads(All(Platforms, 1), All(Drafts, 1), 1, 1)
  BY <1>a, <1>c, <1>h, <1>2, <1>4, InnerLoads DEF Loads
<1> QED BY <1>a, <1>c, <1>3, <1>5, Rising

\* The load passes from a job to its consumer.
LEMMA ClaimCounts ==
  ASSUME Basics, Counted, DurableRunAssumption, Grows, NEW e \in Executors, NEW k \in Keys,
         Claim(e, k)
  PROVE  Settled(0) /\ Undecided(exec'[e])
<1>a. TypeOK /\ AllFinite /\ run \in RunRecord
  BY DEF Basics, Counted, TypeOK
<1> DEFINE pc == IF k.phase = "publish" THEN "publishing" ELSE "working"
           c == [run EXCEPT !.status = PhaseStatus(k.phase, run.status)]
<1>1. /\ exec'[e].pc = pc /\ exec'[e].key = k /\ exec'[e].copy = c
      /\ \A f \in Executors \ {e} : exec'[f] = exec[f]
  BY <1>a, ClaimBecomes DEF Becomes
<1>2. c.status = PhaseStatus(k.phase, run.status)
  BY <1>a DEF RunRecord
<1> HIDE DEF c
<1>3. Undecided(exec'[e])
  <2>1. pc = "working" /\ k.phase # "tailor" => PhaseStatus(k.phase, run.status) \notin Audited
    BY DEF PhaseStatus, Keys, Phases, Audited
  <2> QED BY <1>1, <1>2, <2>1 DEF Undecided
<1>4. Frozen /\ job[k].status = "queued" /\ exec[e].pc = "idle"
  BY DEF Claim, Claimable, Frozen
<1>5. k \in Pending /\ Pending' \subseteq Pending \ {k}
  <2>1. exec[e].key \notin Keys
    BY <1>4 DEF Basics, Shape, ShapeOf, ShapeAt, Idle, DurableRunAssumption
  <2>2. \A j \in Keys : Handled(j) => Handled(j)'
    BY <1>1, <2>1 DEF Handled
  <2>3. Handled(k)'
    BY <1>1 DEF Handled
  <2>4. \A j \in Keys : job'[j].status = IF j = k THEN "running" ELSE job[j].status
    BY <1>a, ClaimRow
  <2> QED BY <1>4, <2>2, <2>3, <2>4 DEF Pending, Queued
<1>6. Early' \subseteq Early \ {k} /\ (k \in Early <=> Before(k.phase))
  BY <1>5 DEF Early
<1>7. ~Before(k.phase) => ~WillAuditTwice(exec'[e])
  BY <1>1 DEF WillAuditTwice, Unaudited
<1>8. /\ \A p \in Platforms : All(Platforms, 0)[p] = 0
      /\ \A i \in Drafts : All(Drafts, 0)[i] = 0
  BY DEF All
<1>9. /\ \A p \in Platforms : Bounded(Pending, Publishers(p), Pending', Publishers(p)', 0)
      /\ \A i \in Drafts : Bounded(Pending, Reviewers(i), Pending', Reviewers(i)', 0)
      /\ Bounded(Pending, Auditors, Pending', Auditors', 0)
  BY <1>a, <1>1, <1>5, ExecSets, Trade DEF AllFinite
<1>10. Bounded(Early, EarlyAuditors, Early', EarlyAuditors', 0)
  <2>1. CASE Before(k.phase)
    BY <1>a, <1>1, <1>6, <2>1, EarlyFinite, ExecSets, Trade DEF AllFinite
  <2>2. CASE ~Before(k.phase)
    <3>1. e \notin EarlyAuditors' /\ EarlyAuditors' \ {e} = EarlyAuditors \ {e}
      BY <1>1, <1>7, <2>2, ExecSets
    <3> QED BY <1>a, <1>6, <3>1, EarlyFinite, Trade DEF AllFinite
  <2> QED BY <2>1, <2>2
<1>11. Loads(All(Platforms, 0), All(Drafts, 0), 0, 0)
  BY <1>8, <1>9, <1>10 DEF Loads
<1> QED BY <1>a, <1>3, <1>4, <1>11, Steady

\* The load of a consumer passes to job k, or is dropped.
LEMMA HandOver ==
  ASSUME AllFinite, NEW e \in Executors, \A f \in Executors \ {e} : exec'[f] = exec[f],
         exec'[e].pc \in {"idle", "completing"}, NEW k \in Keys, Pending' \subseteq Pending \cup {k},
         \/ Pending' \subseteq Pending
         \/ Leads(exec[e]) /\ (Before(k.phase) => WillAuditTwice(exec[e]))
  PROVE  Loads(All(Platforms, 0), All(Drafts, 0), 0, 0) /\ Undecided(exec'[e])
<1>1. /\ \A p \in Platforms : ~WillPublish(exec'[e], p)
      /\ \A i \in Drafts : ~WillReview(exec'[e], i)
      /\ ~WillAudit(exec'[e]) /\ ~WillAuditTwice(exec'[e]) /\ Undecided(exec'[e])
  BY DEF WillPublish, WillReview, WillAudit, WillAuditTwice, Leads, Unaudited, Undecided
<1>2. /\ \A p \in Platforms : All(Platforms, 0)[p] = 0
      /\ \A i \in Drafts : All(Drafts, 0)[i] = 0
  BY DEF All
<1>3. /\ \A p \in Platforms : e \notin Publishers(p)' /\ Publishers(p)' \ {e} = Publishers(p) \ {e}
      /\ \A i \in Drafts : e \notin Reviewers(i)' /\ Reviewers(i)' \ {e} = Reviewers(i) \ {e}
      /\ e \notin Auditors' /\ Auditors' \ {e} = Auditors \ {e}
      /\ e \notin EarlyAuditors' /\ EarlyAuditors' \ {e} = EarlyAuditors \ {e}
  BY <1>1, ExecSets
<1>4. CASE Pending' \subseteq Pending
  <2>1. Early' \subseteq Early
    BY <1>4 DEF Early
  <2>2. /\ \A p \in Platforms : Bounded(Pending, Publishers(p), Pending', Publishers(p)', 0)
        /\ \A i \in Drafts : Bounded(Pending, Reviewers(i), Pending', Reviewers(i)', 0)
        /\ Bounded(Pending, Auditors, Pending', Auditors', 0)
    BY <1>3, <1>4, Trade DEF AllFinite
  <2>3. Bounded(Early, EarlyAuditors, Early', EarlyAuditors', 0)
    BY <1>3, <2>1, EarlyFinite, Trade DEF AllFinite
  <2> QED BY <1>1, <1>2, <2>2, <2>3 DEF Loads
<1>5. CASE Leads(exec[e]) /\ (Before(k.phase) => WillAuditTwice(exec[e]))
  <2>1. /\ \A p \in Platforms : e \in Publishers(p)
        /\ \A i \in Drafts : e \in Reviewers(i)
        /\ e \in Auditors /\ (Before(k.phase) => e \in EarlyAuditors)
    BY <1>5, ExecSets DEF WillPublish, WillReview, WillAudit
  <2>2. /\ \A p \in Platforms : Bounded(Pending, Publishers(p), Pending', Publishers(p)', 0)
        /\ \A i \in Drafts : Bounded(Pending, Reviewers(i), Pending', Reviewers(i)', 0)
        /\ Bounded(Pending, Auditors, Pending', Auditors', 0)
    BY <1>3, <2>1, Trade DEF AllFinite
  <2>3. Bounded(Early, EarlyAuditors, Early', EarlyAuditors', 0)
    <3>1. CASE Before(k.phase)
      <4>1. Early' \subseteq Early \cup {k}
        BY DEF Early
      <4> QED BY <1>3, <2>1, <3>1, <4>1, EarlyFinite, Trade DEF AllFinite
    <3>2. CASE ~Before(k.phase)
      <4>1. Early' \subseteq Early
        BY <3>2 DEF Early
      <4> QED BY <1>3, <4>1, EarlyFinite, Trade DEF AllFinite
    <3> QED BY <3>1, <3>2
  <2> QED BY <1>1, <1>2, <2>2, <2>3 DEF Loads
<1> QED BY <1>4, <1>5

LEMMA RouteCounts ==
  ASSUME Basics, Counted, DurableRunAssumption, Grows, NEW e \in Executors, Route(e)
  PROVE  Settled(0) /\ Undecided(exec'[e])
<1>a. TypeOK /\ AllFinite
  BY DEF Basics, Counted
<1> DEFINE x == exec[e]
<1>c. Frozen /\ x.pc = "routing" /\ x.key \in Keys
  BY DEF Route, Frozen, Basics, Shape, ShapeOf, ShapeAt
<1>h. \A f \in Executors : exec'[f].key = exec[f].key
  BY KeyStep DEF Handling
<1>1. exec'[e].pc = "completing" /\ \A f \in Executors \ {e} : exec'[f] = exec[f]
  <2>1. exec' = [exec EXCEPT ![e].pc = "completing"]
    BY DEF Route
  <2> QED BY <1>a, <2>1, PcBecomes, Names DEF Becomes
<1>2. CASE job' = job
  <2>1. Pending' \subseteq Pending
    BY <1>h, <1>2 DEF Pending, Queued, Handled
  <2> QED BY <1>a, <1>c, <1>1, <2>1, HandOver, Steady
<1>3. CASE job' # job
  <2>1. x.next \in Phases /\ x.copy.revision \in 0..MaxRevisions /\ x.next # None
    BY <1>3 DEF Route, Basics, Shape, ShapeOf, ShapeAt, TypeOK, RunRecord
  <2>2. PICK k \in Keys : k = Key(x.next, x.copy.revision) /\ k.phase = x.next
    <3>1. Key(x.next, x.copy.revision) \in Keys
      BY <2>1 DEF Key, Keys
    <3> QED BY <3>1 DEF Key
  <2>3. job' = [job EXCEPT ![k].status = "queued"]
    BY <1>3, <2>2 DEF Route, Enqueue
  <2>4. \A j \in Keys : job'[j].status = IF j = k THEN "queued" ELSE job[j].status
    <3>1. job \in [Keys -> JobState]
      BY <1>a DEF TypeOK
    <3> QED BY <2>3, <3>1 DEF JobState
  <2>5. Pending' \subseteq Pending \cup {k}
    BY <1>h, <2>4 DEF Pending, Queued, Handled
  <2>6. Leads(x) /\ (Before(k.phase) => WillAuditTwice(x))
    BY <1>c, <2>1, <2>2 DEF Leads, WillAuditTwice
  <2> QED BY <1>a, <1>c, <1>1, <2>5, <2>6, HandOver, Steady
<1> QED BY <1>2, <1>3

\* A consumer becomes idle: only its own job may become pending.
LEMMA IdlePending ==
  ASSUME Basics, DurableRunAssumption, NEW e \in Executors, exec[e].pc # "idle",
         exec' = [exec EXCEPT ![e] = Idle],
         \A j \in Keys : j # exec[e].key => job'[j].status = job[j].status
  PROVE  /\ exec'[e].pc = "idle" /\ \A f \in Executors \ {e} : exec'[f] = exec[f]
         /\ exec[e].key \in Keys /\ Pending' \subseteq Pending \cup {exec[e].key}
         /\ job'[exec[e].key].status \in {"succeeded", "dead"} => Pending' \subseteq Pending
<1>1. exec'[e].pc = "idle" /\ \A f \in Executors \ {e} : exec'[f] = exec[f]
  BY IdleBecomes DEF Basics, Becomes
<1>2. exec[e].key \in Keys
  BY DEF Basics, Shape, ShapeOf, ShapeAt
<1>3. \A j \in Keys : j # exec[e].key => (Handled(j) => Handled(j)')
  BY <1>1 DEF Handled
<1> QED BY <1>1, <1>2, <1>3 DEF Pending, Queued

LEMMA EndCounts ==
  ASSUME Basics, Counted, DurableRunAssumption, Grows, NEW e \in Executors,
         Complete(e) \/ GiveUp(e)
  PROVE  Settled(0) /\ Undecided(exec'[e])
<1>a. TypeOK /\ AllFinite
  BY DEF Basics, Counted
<1> DEFINE x == exec[e]
<1>b. Frozen /\ x.pc \in {"completing", "giving up"} /\ exec' = [exec EXCEPT ![e] = Idle]
  BY DEF Complete, GiveUp, Frozen
<1>1. PICK k \in Keys : k = x.key
  BY <1>b DEF Basics, Shape, ShapeOf, ShapeAt
<1>2. PICK s \in {"queued", "succeeded", "dead"} :
         /\ job' = [job EXCEPT ![k].status = s]
         /\ s = "queued" => x.pc = "giving up" /\ x.next # "dead"
  BY <1>1 DEF Complete, GiveUp
<1>3. \A j \in Keys : job'[j].status = IF j = k THEN s ELSE job[j].status
  BY <1>a, <1>2, JobStep
<1>4. /\ exec'[e].pc = "idle" /\ \A f \in Executors \ {e} : exec'[f] = exec[f]
      /\ Pending' \subseteq Pending \cup {k}
      /\ s \in {"succeeded", "dead"} => Pending' \subseteq Pending
  BY <1>b, <1>1, <1>3, IdlePending
<1>5. s = "queued" => Leads(x) /\ (Before(k.phase) => WillAuditTwice(x))
  BY <1>1, <1>2 DEF Leads, WillAuditTwice
<1>6. Loads(All(Platforms, 0), All(Drafts, 0), 0, 0) /\ Undecided(exec'[e])
  BY <1>a, <1>4, <1>5, HandOver
<1> QED BY <1>a, <1>b, <1>6, Steady

\* A fault: job k may become pending though its consumer has spent nothing.
LEMMA FaultLoads ==
  ASSUME AllFinite, NEW k \in Keys, Pending' \subseteq Pending \cup {k},
         /\ \A p \in Platforms : Publishers(p)' \subseteq Publishers(p)
         /\ \A i \in Drafts : Reviewers(i)' \subseteq Reviewers(i),
         Auditors' \subseteq Auditors, EarlyAuditors' \subseteq EarlyAuditors
  PROVE  /\ Loads(All(Platforms, 1), All(Drafts, 1), 1, 1)
         /\ Pending' \subseteq Pending => Loads(All(Platforms, 0), All(Drafts, 0), 0, 0)
<1>1. ASSUME NEW K, NEW A, NEW L, NEW B, IsFiniteSet(K), IsFiniteSet(A), B \subseteq A
      PROVE  /\ L \subseteq K \cup {k} => Bounded(K, A, L, B, 1)
             /\ L \subseteq K => Bounded(K, A, L, B, 0)
  <2>1. IsFiniteSet(B) /\ Cardinality(B) <= Cardinality(A)
    BY <1>1, FS_Subset
  <2>2. Cardinality(A) \in Nat /\ Cardinality(B) \in Nat /\ Cardinality(K) \in Nat
    BY <1>1, <2>1, FS_CardinalityType
  <2>3. L \subseteq K \cup {k} => IsFiniteSet(L) /\ Cardinality(L) <= Cardinality(K) + 1
    BY <1>1, OneMore
  <2>4. L \subseteq K => IsFiniteSet(L) /\ Cardinality(L) <= Cardinality(K)
    BY <1>1, FS_Subset
  <2>5. IsFiniteSet(L) => Cardinality(L) \in Nat
    BY FS_CardinalityType
  <2> QED BY <2>1, <2>2, <2>3, <2>4, <2>5 DEF Bounded
<1>2. /\ \A p \in Platforms : All(Platforms, 0)[p] = 0 /\ All(Platforms, 1)[p] = 1
      /\ \A i \in Drafts : All(Drafts, 0)[i] = 0 /\ All(Drafts, 1)[i] = 1
  BY DEF All
<1>3. Early' \subseteq Early \cup {k} /\ (Pending' \subseteq Pending => Early' \subseteq Early)
  BY DEF Early
<1>4. /\ \A p \in Platforms : Bounded(Pending, Publishers(p), Pending', Publishers(p)', 1)
      /\ \A i \in Drafts : Bounded(Pending, Reviewers(i), Pending', Reviewers(i)', 1)
      /\ Bounded(Pending, Auditors, Pending', Auditors', 1)
      /\ Bounded(Early, EarlyAuditors, Early', EarlyAuditors', 1)
  BY <1>1, <1>3, EarlyFinite DEF AllFinite
<1>5. Pending' \subseteq Pending =>
      /\ \A p \in Platforms : Bounded(Pending, Publishers(p), Pending', Publishers(p)', 0)
      /\ \A i \in Drafts : Bounded(Pending, Reviewers(i), Pending', Reviewers(i)', 0)
      /\ Bounded(Pending, Auditors, Pending', Auditors', 0)
      /\ Bounded(Early, EarlyAuditors, Early', EarlyAuditors', 0)
  BY <1>1, <1>3, EarlyFinite DEF AllFinite
<1> QED BY <1>2, <1>4, <1>5 DEF Loads

LEMMA CrashCounts ==
  ASSUME Basics, Counted, DurableRunAssumption, Grows, NEW e \in Executors, Crash(e)
  PROVE  Settled(1) /\ Undecided(exec'[e])
<1>a. TypeOK /\ AllFinite
  BY DEF Basics, Counted
<1>b. Frozen /\ exec[e].pc # "idle" /\ exec' = [exec EXCEPT ![e] = Idle] /\ job' = job
  BY DEF Crash, Frozen
<1>1. /\ exec'[e].pc = "idle" /\ \A f \in Executors \ {e} : exec'[f] = exec[f]
      /\ exec[e].key \in Keys /\ Pending' \subseteq Pending \cup {exec[e].key}
  BY <1>b, IdlePending
<1>2. /\ \A p \in Platforms : ~WillPublish(exec'[e], p)
      /\ \A i \in Drafts : ~WillReview(exec'[e], i)
      /\ ~WillAudit(exec'[e]) /\ ~WillAuditTwice(exec'[e]) /\ Undecided(exec'[e])
  BY <1>1 DEF WillPublish, WillReview, WillAudit, WillAuditTwice, Leads, Unaudited, Undecided
<1>3. /\ \A p \in Platforms : Publishers(p)' \subseteq Publishers(p)
      /\ \A i \in Drafts : Reviewers(i)' \subseteq Reviewers(i)
      /\ Auditors' \subseteq Auditors /\ EarlyAuditors' \subseteq EarlyAuditors
  BY <1>1, <1>2, ExecSets
<1>4. Loads(All(Platforms, 1), All(Drafts, 1), 1, 1)
  BY <1>a, <1>1, <1>3, FaultLoads
<1> QED BY <1>a, <1>b, <1>2, <1>4, Rising

LEMMA RedeliverCounts ==
  ASSUME Basics, Counted, DurableRunAssumption, Grows, NEW k \in Keys, Redeliver(k)
  PROVE  IF Handled(k) THEN Settled(1) ELSE Settled(0)
<1>a. TypeOK /\ AllFinite
  BY DEF Basics, Counted
<1>b. /\ Frozen /\ exec' = exec /\ job[k].status = "running"
      /\ job' = [job EXCEPT ![k].status = "queued"]
  BY DEF Redeliver, Frozen
<1>1. \A j \in Keys : job'[j].status = IF j = k THEN "queued" ELSE job[j].status
  <2>1. job \in [Keys -> JobState]
    BY <1>a DEF TypeOK
  <2> QED BY <1>b, <2>1 DEF JobState
<1>2. Pending' \subseteq Pending \cup {k} /\ (~Handled(k) => Pending' \subseteq Pending)
  BY <1>b, <1>1 DEF Pending, Queued, Handled
<1>3. /\ \A p \in Platforms : Publishers(p)' = Publishers(p)
      /\ \A i \in Drafts : Reviewers(i)' = Reviewers(i)
      /\ Auditors' = Auditors /\ EarlyAuditors' = EarlyAuditors
  BY <1>b DEF Publishers, Reviewers, Auditors, EarlyAuditors
<1>4. /\ Loads(All(Platforms, 1), All(Drafts, 1), 1, 1)
      /\ ~Handled(k) => Loads(All(Platforms, 0), All(Drafts, 0), 0, 0)
  BY <1>a, <1>2, <1>3, FaultLoads
<1> QED BY <1>a, <1>b, <1>4, Rising, Steady

LEMMA CountedStep ==
  ASSUME Basics, Counted, DurableRunAssumption, [Next]_vars
  PROVE  Counted'
<1>g. Grows /\ TypeOK /\ AllFinite
  BY Growing DEF Basics, Counted
<1>n. faults \in Nat /\ errors \in Nat /\ faults' \in Nat /\ errors' \in Nat
  <2>1. MaxFaults \in Nat /\ MaxErrors \in Nat
    BY DEF DurableRunAssumption
  <2>2. /\ faults \in 0..MaxFaults /\ errors \in 0..MaxErrors
        /\ faults' \in 0..MaxFaults /\ errors' \in 0..MaxErrors
    BY <1>g DEF TypeOK, Grows, FaultsGrow, ErrorsGrow
  <2> QED BY <2>1, <2>2
<1>1. ASSUME NEW d \in {0, 1}, faults' + errors' = faults + errors + d, Settled(d),
             \A f \in Executors : Undecided(exec'[f])
      PROVE  Counted'
  <2>1. /\ \A p \in Platforms : OutLoad(p) <= 1 + faults + errors
        /\ \A i \in Drafts : ReviewLoad(i) <= 1 + faults + errors
        /\ \A s \in Audited : AuditLoad(s) <= 2 * (1 + faults + errors)
    BY DEF Counted
  <2>n. \A S : IsFiniteSet(S) => Cardinality(S) \in Int
    BY FS_CardinalityType
  <2>f. AllFinite'
    BY <1>1 DEF Settled
  <2>p. /\ Cardinality(Pending) \in Int /\ Cardinality(Pending') \in Int
        /\ Cardinality(Auditors) \in Int /\ Cardinality(Auditors') \in Int
        /\ Cardinality(EarlyAuditors) \in Int /\ Cardinality(EarlyAuditors') \in Int
        /\ Cardinality(Early) \in Int /\ Cardinality(Early') \in Int
    <3>1. IsFiniteSet(Early) /\ IsFiniteSet(Early')
      BY <1>g, <2>f, FS_Subset DEF AllFinite, Early
    <3> QED BY <1>g, <2>n, <2>f, <3>1 DEF AllFinite
  <2>a. \A k, l, m \in Int : k + (l + m) \in Int
    OBVIOUS
  <2>b. ASSUME NEW j \in Int, NEW k \in Int, j <= k + d, k <= 1 + faults + errors
        PROVE  j <= 1 + faults' + errors'
    <3>1. \A l, m, n, o \in Nat :
             j <= k + d /\ k <= 1 + l + m /\ n + o = l + m + d => j <= 1 + n + o
      OBVIOUS
    <3>2. faults' + errors' = faults + errors + d
      BY <1>1
    <3> QED BY <1>n, <2>b, <3>1, <3>2
  <2>2. ASSUME NEW p \in Platforms PROVE OutLoad(p)' <= 1 + faults' + errors'
    <3>1. external[p] \in Seq(Post) /\ external'[p] \in Seq(Post)
      BY <1>g DEF TypeOK, Grows, OutGrows
    <3>2. Len(external[p]) \in Int /\ Len(external'[p]) \in Int
      BY <3>1
    <3>3. Cardinality(Publishers(p)) \in Int /\ Cardinality(Publishers(p)') \in Int
      BY <1>g, <2>n, <2>f DEF AllFinite
    <3>4. OutLoad(p) \in Int /\ OutLoad(p)' \in Int
      BY <2>a, <2>p, <3>2, <3>3 DEF OutLoad
    <3>5. OutLoad(p)' <= OutLoad(p) + d /\ OutLoad(p) <= 1 + faults + errors
      BY <1>1, <2>1 DEF Settled
    <3> QED BY <2>b, <3>4, <3>5
  <2>3. ASSUME NEW i \in Drafts PROVE ReviewLoad(i)' <= 1 + faults' + errors'
    <3>1. review[i] \in Nat /\ review'[i] \in Nat
      BY <1>g DEF TypeOK, Grows, CountsGrow
    <3>2. review[i] \in Int /\ review'[i] \in Int
      BY <3>1
    <3>3. Cardinality(Reviewers(i)) \in Int /\ Cardinality(Reviewers(i)') \in Int
      BY <1>g, <2>n, <2>f DEF AllFinite
    <3>4. ReviewLoad(i) \in Int /\ ReviewLoad(i)' \in Int
      BY <2>a, <2>p, <3>2, <3>3 DEF ReviewLoad
    <3>5. ReviewLoad(i)' <= ReviewLoad(i) + d /\ ReviewLoad(i) <= 1 + faults + errors
      BY <1>1, <2>1 DEF Settled
    <3> QED BY <2>b, <3>4, <3>5
  <2>4. ASSUME NEW s \in Audited PROVE AuditLoad(s)' <= 2 * (1 + faults' + errors')
    <3>1. AuditLoad(s)' <= AuditLoad(s) + 2 * d /\ AuditLoad(s) <= 2 * (1 + faults + errors)
      BY <1>1, <2>1 DEF Settled
    <3>2. AuditLoad(s) \in Int /\ AuditLoad(s)' \in Int
      <4>1. audited[s] \in Nat /\ audited'[s] \in Nat
        BY <1>g DEF TypeOK, Grows, CountsGrow
      <4>2. \A i \in Nat, j, k, l, m \in Int : i + (j + k) + (l + m) \in Int
        OBVIOUS
      <4> QED BY <2>p, <4>1, <4>2 DEF AuditLoad
    <3>3. \A i, j \in Int, k, l, m, n \in Nat :
             i <= j + 2 * d /\ j <= 2 * (1 + k + l) /\ m + n = k + l + d => i <= 2 * (1 + m + n)
      OBVIOUS
    <3>4. faults' + errors' = faults + errors + d
      BY <1>1
    <3> QED BY <1>n, <3>1, <3>2, <3>3, <3>4
  <2> QED BY <1>1, <2>2, <2>3, <2>4 DEF Counted, Settled
<1>u. \A f \in Executors : Undecided(exec[f])
  BY DEF Counted
<1>2. ASSUME NEW e \in Executors, Step(e) \/ Crash(e) \/ RecordFails(e)
      PROVE  Counted'
  <2>1. \A f \in Executors \ {e} : exec'[f] = exec[f]
    BY <1>g, <1>2, KeptStep DEF Kept
  <2>2. \A f \in Executors : f # e => Undecided(exec'[f])
    BY <1>u, <2>1
  <2>3. CASE RaiseTransient(e)
    <3>1. faults' = faults /\ errors' = errors + 1
      BY <2>3 DEF RaiseTransient
    <3>2. Settled(1) /\ Undecided(exec'[e])
      BY <1>g, <2>3, RaiseCounts
    <3>3. faults' + errors' = faults + errors + 1
      BY <1>n, <3>1
    <3> QED BY <1>1, <2>2, <3>2, <3>3
  <2>4. CASE Crash(e) \/ RecordFails(e)
    <3>1. faults' = faults + 1 /\ errors' = errors
      BY <2>4 DEF Crash, RecordFails
    <3>2. Settled(1) /\ Undecided(exec'[e])
      BY <1>g, <2>4, RaiseCounts, CrashCounts
    <3>3. faults' + errors' = faults + errors + 1
      BY <1>n, <3>1
    <3> QED BY <1>1, <2>2, <3>2, <3>3
  <2>5. CASE \/ \E k \in Keys : Claim(e, k)
             \/ Work(e) \/ Review(e) \/ Publish(e) \/ Record(e) \/ EndPublish(e)
             \/ Save(e) \/ Audit(e) \/ Mark(e) \/ Route(e) \/ Complete(e)
             \/ RaisePermanent(e) \/ GiveUp(e)
    <3>1. faults' = faults /\ errors' = errors
      BY <2>5 DEF Claim, Work, Review, Publish, Record, EndPublish, Save, Audit, Mark, Route,
         Complete, RaisePermanent, GiveUp
    <3>2. Settled(0) /\ Undecided(exec'[e])
      BY <1>g, <2>5, ClaimCounts, WorkCounts, ReviewCounts, PublishCounts, SaveCounts,
         AuditCounts, RouteCounts, EndCounts
    <3>3. faults' + errors' = faults + errors + 0
      BY <1>n, <3>1
    <3> QED BY <1>1, <2>2, <3>2, <3>3
  <2> QED BY <1>2, <2>3, <2>4, <2>5 DEF Step
<1>3. ASSUME NEW k \in Keys, Redeliver(k) PROVE Counted'
  <2>1. exec' = exec /\ errors' = errors /\ faults' = IF Handled(k) THEN faults + 1 ELSE faults
    BY <1>3 DEF Redeliver
  <2>2. \A f \in Executors : Undecided(exec'[f])
    BY <1>u, <2>1
  <2>3. CASE Handled(k)
    <3>1. faults' + errors' = faults + errors + 1
      BY <1>n, <2>1, <2>3
    <3> QED BY <1>1, <1>3, <1>g, <2>2, <2>3, <3>1, RedeliverCounts
  <2>4. CASE ~Handled(k)
    <3>1. faults' + errors' = faults + errors + 0
      BY <1>n, <2>1, <2>4
    <3> QED BY <1>1, <1>3, <1>g, <2>2, <2>4, <3>1, RedeliverCounts
  <2> QED BY <2>3, <2>4
<1>4. CASE UNCHANGED vars
  <2>1. UNCHANGED <<job, exec, external, review, audited, errors, faults>>
    BY <1>4 DEF vars
  <2>2. /\ Pending' = Pending /\ Auditors' = Auditors /\ EarlyAuditors' = EarlyAuditors
        /\ \A p \in Platforms : Publishers(p)' = Publishers(p)
        /\ \A i \in Drafts : Reviewers(i)' = Reviewers(i)
    BY <2>1 DEF Pending, Queued, Handled, Auditors, EarlyAuditors, Publishers, Reviewers
  <2>3. Early' = Early
    BY <2>2 DEF Early
  <2> QED BY <2>1, <2>2, <2>3 DEF Counted, AllFinite, OutLoad, ReviewLoad, AuditLoad
<1> QED BY <1>2, <1>3, <1>4 DEF Next

LEMMA CountedInit == ASSUME DurableRunAssumption, Init PROVE Counted
<1> DEFINE k0 == Key("select", 0)
<1>1. k0 \in Keys /\ k0.phase = "select"
  BY DEF Key, Keys, Phases, DurableRunAssumption
<1>2. /\ \A k \in Keys : job[k].status = IF k = k0 THEN "queued" ELSE "absent"
      /\ \A e \in Executors : exec[e] = Idle
      /\ external = [p \in Platforms |-> <<>>] /\ review = [d \in Drafts |-> 0]
      /\ audited = [s \in Audited |-> 0] /\ errors = 0 /\ faults = 0
  BY DEF Init
<1>3. Pending = {k0} /\ Early = {k0}
  BY <1>1, <1>2 DEF Pending, Queued, Early, Before
<1>4. /\ Auditors = {} /\ EarlyAuditors = {}
      /\ \A p \in Platforms : Publishers(p) = {}
      /\ \A i \in Drafts : Reviewers(i) = {}
  <2>1. \A e \in Executors : exec[e].pc = "idle"
    BY <1>2 DEF Idle
  <2> QED BY <2>1 DEF Auditors, EarlyAuditors, Publishers, Reviewers, WillAudit, WillAuditTwice,
             WillPublish, WillReview, Leads, Unaudited
<1>5. /\ Cardinality({}) = 0 /\ IsFiniteSet({}) /\ Cardinality({k0}) = 1 /\ IsFiniteSet({k0})
  BY FS_EmptySet, FS_Singleton
<1>6. AllFinite
  BY <1>3, <1>4, <1>5 DEF AllFinite
<1>7. \A e \in Executors : Undecided(exec[e])
  BY <1>2 DEF Undecided, Idle
<1>8. \A p \in Platforms : OutLoad(p) <= 1 + faults + errors
  <2> TAKE p \in Platforms
  <2>1. Len(external[p]) = 0
    BY <1>2
  <2>2. Cardinality(Pending) = 1 /\ Cardinality(Publishers(p)) = 0
    BY <1>3, <1>4, <1>5
  <2>3. OutLoad(p) = 1 /\ 1 + faults + errors = 1
    BY <1>2, <2>1, <2>2 DEF OutLoad
  <2> QED BY <2>3
<1>9. \A i \in Drafts : ReviewLoad(i) <= 1 + faults + errors
  <2> TAKE i \in Drafts
  <2>1. review[i] = 0
    BY <1>2
  <2>2. Cardinality(Pending) = 1 /\ Cardinality(Reviewers(i)) = 0
    BY <1>3, <1>4, <1>5
  <2>3. ReviewLoad(i) = 1 /\ 1 + faults + errors = 1
    BY <1>2, <2>1, <2>2 DEF ReviewLoad
  <2> QED BY <2>3
<1>10. \A s \in Audited : AuditLoad(s) <= 2 * (1 + faults + errors)
  BY <1>2, <1>3, <1>4, <1>5 DEF AuditLoad
<1> QED BY <1>6, <1>7, <1>8, <1>9, <1>10 DEF Counted

LEMMA CountedHolds == Spec => []Counted
<1>1. Init => Counted
  BY CountedInit, DurableRunAssumption
<1>2. Basics /\ Counted /\ [Next]_vars => Counted'
  BY CountedStep, DurableRunAssumption
<1> QED BY <1>1, <1>2, BasicsHold, PTL DEF Spec

\* Half-way failures and their retries never publish a draft, create its review post or
\* audit a status twice; crashes, redeliveries to a second consumer and lost post rows
\* allow at most one more of each for every fault and error, and two more audits.
THEOREM DuplicatesAreCounted == Spec => []DuplicatesNeedFaults
<1>1. ASSUME IInv, Counted PROVE DuplicatesNeedFaults
  <2>a. TypeOK
    BY <1>1 DEF IInv, Basics
  <2>n. faults \in Nat /\ errors \in Nat
    <3>1. MaxFaults \in Nat /\ MaxErrors \in Nat
      BY DurableRunAssumption DEF DurableRunAssumption
    <3>2. faults \in 0..MaxFaults /\ errors \in 0..MaxErrors
      BY <2>a DEF TypeOK
    <3> QED BY <3>1, <3>2
  <2>1. CASE faults = 0
    <3>1. Singles
      BY <1>1, <2>1 DEF IInv, Clean
    <3>2. Repeats = 0
      BY <2>1 DEF Repeats
    <3> QED BY <2>1, <3>1, <3>2 DEF Singles, DuplicatesNeedFaults
  <2>2. CASE faults # 0
    <3>1. Repeats = faults + errors
      BY <2>2 DEF Repeats
    <3>2. \A S : IsFiniteSet(S) => Cardinality(S) \in Nat
      BY FS_CardinalityType
    <3>3. /\ Cardinality(Pending) \in Nat /\ Cardinality(Auditors) \in Nat
          /\ Cardinality(Early) \in Nat /\ Cardinality(EarlyAuditors) \in Nat
          /\ \A p \in Platforms : Cardinality(Publishers(p)) \in Nat
          /\ \A i \in Drafts : Cardinality(Reviewers(i)) \in Nat
      BY <1>1, <3>2, EarlyFinite DEF Counted, AllFinite
    <3>4. \A p \in Platforms : Len(external[p]) \in Nat
      <4>1. external \in [Platforms -> Seq(Post)]
        BY <2>a DEF TypeOK
      <4> QED BY <4>1
    <3>5. /\ \A i \in Drafts : review[i] \in Nat
          /\ \A s \in Audited : audited[s] \in Nat
      BY <2>a DEF TypeOK
    <3>6. \A p \in Platforms : Len(external[p]) <= 1 + (faults + errors)
      BY <1>1, <2>n, <3>3, <3>4 DEF Counted, OutLoad
    <3>7. \A i \in Drafts : review[i] <= 1 + (faults + errors)
      BY <1>1, <2>n, <3>3, <3>5 DEF Counted, ReviewLoad
    <3>8. \A s \in Audited : audited[s] <= 2 * (1 + (faults + errors))
      BY <1>1, <2>n, <3>3, <3>5 DEF Counted, AuditLoad
    <3> QED BY <2>2, <3>1, <3>6, <3>7, <3>8 DEF DuplicatesNeedFaults
  <2> QED BY <2>1, <2>2
<1> QED BY <1>1, Inductive, CountedHolds, PTL
=============================================================================
