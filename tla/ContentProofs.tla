---------------------------- MODULE ContentProofs ----------------------------
(***************************************************************************)
(* What holds of the parts of Content for any size: ladders of approval,   *)
(* documents made of posts, scores of fetched reactions, recycled posts,   *)
(* experiments, the items, accounts and drafts of a run, the messages of a *)
(* chat, and publish calls of any adapter; then the same of their joined   *)
(* specification.                                                          *)
(***************************************************************************)
EXTENDS Content, CampaignProofs, FiniteSetTheorems, SequenceTheorems, WellFoundedInduction,
        TLAPS

\* Numbers have a least one.
LEMMA NumbersDescend == IsWellFoundedOn({d \in Nat \X Nat : d[1] < d[2]}, Nat)
  BY NatLessThanWellFounded DEF OpToRel

LEMMA LeastNumber ==
  ASSUME NEW U \in SUBSET Nat, U # {}
  PROVE  \E x \in U : \A y \in U : x <= y
<1> DEFINE D == {d \in Nat \X Nat : d[1] < d[2]}
<1>1. \E x \in U : \A y \in U : ~ (<<y, x>> \in D)
  <2>1. IsWellFoundedOn(D, Nat)
    BY NumbersDescend
  <2> HIDE DEF D
  <2>2. QED BY <2>1, WFMin
<1>2. PICK x \in U : \A y \in U : ~ (<<y, x>> \in D)
  BY <1>1
<1>3. ASSUME NEW y \in U PROVE x <= y
  <2>1. x \in Nat /\ y \in Nat /\ ~ (y < x)
    BY <1>2
  <2>2. QED BY <2>1
<1>4. QED BY <1>3

-----------------------------------------------------------------------------
(* Approval: how requests climb their ladder.                                  *)

(* Approval ladders: what a request's status says follows from its        *)
(* decisions, as long as nobody edits its policy.                          *)

\* A policy has one row.
OneRow == \A j, k \in DOMAIN policies : policies[j].id = policies[k].id => j = k

\* The status of a request that nobody has edited follows from its decisions: the steps
\* before its index have passed, all have once it is approved, and whoever has decided
\* was named by the step.
Named(q) == \A k \in DOMAIN q.decisions : q.decisions[k].by \in MayDecide[q.decisions[k].step]
Climbed(q) ==
    /\ q.status \notin {"rejected", "cancelled"} =>
          \A i \in 1 .. q.index : i \in DOMAIN q.ladder => V!Passed(q.decisions, q.ladder[i])
    /\ q.status \in V!OpenStatus => q.index < Len(q.ladder)
    /\ q.status = "approved" => q.index >= Len(q.ladder)

\* While it is open its policy stands as it was.
Stands(q) == q.status \in V!OpenStatus => V!Known(q.policy) /\ V!PolicyOf(q.policy).steps = q.ladder

Followed == \A r \in V!Opened : /\ Named(requests[r])
                                /\ r \notin edited => Climbed(requests[r]) /\ Stands(requests[r])

LadderInv == V!TypeOK /\ OneRow /\ Followed /\ V!RejectionIsLast /\ V!WaitsForSomebody

LEMMA Least ==
  ASSUME NEW S \in SUBSET Nat, S # {}
  PROVE  V!Min(S) \in S /\ \A n \in S : V!Min(S) <= n
<1>1. \E x \in S : \A y \in S : x <= y
  BY LeastNumber
<1>2. QED BY <1>1 DEF V!Min

LEMMA Greater ==
  ASSUME NEW m \in Nat, NEW n \in Nat
  PROVE  V!Max({m, n}) \in {m, n} /\ V!Max({m, n}) >= m /\ V!Max({m, n}) >= n
<1>1. \E x \in {m, n} : \A y \in {m, n} : x >= y
  OBVIOUS
<1>2. QED BY <1>1 DEF V!Max

\* The sizes of sets are what they are in every module.
LEMMA ApprovalSizes ==
  ASSUME NEW U PROVE V!Cardinality(U) = Cardinality(U)
  BY Zenon DEF V!Cardinality, Cardinality

\* Approvals of one more decision: as many at least.
LEMMA MoreApprovals ==
  ASSUME V!ApprovalAssumption, NEW ds \in Seq(V!Decisions), NEW d \in V!Decisions, d.approved,
         NEW s \in Rung
  PROVE  /\ V!Complete(ds, s) => V!Complete(Append(ds, d), s)
         /\ V!Rejected(Append(ds, d), s) => V!Rejected(ds, s)
<1>1. /\ \A k \in DOMAIN ds : Append(ds, d)[k] = ds[k]
      /\ DOMAIN ds = 1 .. Len(ds) /\ DOMAIN Append(ds, d) = 1 .. Len(ds) + 1
      /\ Append(ds, d)[Len(ds) + 1] = d /\ Len(ds) \in Nat
  OBVIOUS
<1>2. V!On(ds, s) \subseteq V!On(Append(ds, d), s)
  BY <1>1 DEF V!On
<1>3. ASSUME V!Complete(ds, s) PROVE V!Complete(Append(ds, d), s)
  <2>1. PICK old : old = {k \in V!On(ds, s) : ds[k].approved}
    OBVIOUS
  <2>2. PICK all : all = {k \in V!On(Append(ds, d), s) : Append(ds, d)[k].approved}
    OBVIOUS
  <2>3. old \subseteq all
    BY <1>1, <1>2, <2>1, <2>2 DEF V!On
  <2>4. all \subseteq 1 .. Len(ds) + 1
    BY <1>1, <2>2 DEF V!On
  <2>5. IsFiniteSet(all)
    <3>1. IsFiniteSet(1 .. Len(ds) + 1)
      BY <1>1, FS_Interval
    <3>2. QED BY <2>4, <3>1, FS_Subset
  <2>6. Cardinality(old) <= Cardinality(all) /\ Cardinality(all) \in Nat
        /\ Cardinality(old) \in Nat
    BY <2>3, <2>5, FS_Subset, FS_CardinalityType
  <2>7. Needs[s] \in Int
    BY DEF V!ApprovalAssumption
  <2>8. Cardinality(old) >= Needs[s]
    <3>1. V!Cardinality(old) >= Needs[s]
      BY <1>3, <2>1 DEF V!Complete
    <3>2. QED BY <3>1, ApprovalSizes
  <2>9. Cardinality(all) >= Needs[s]
    BY <2>6, <2>7, <2>8
  <2>10. V!Cardinality(all) >= Needs[s]
    BY <2>9, ApprovalSizes
  <2>11. QED BY <2>2, <2>10 DEF V!Complete
<1>4. ASSUME V!Rejected(Append(ds, d), s) PROVE V!Rejected(ds, s)
  BY <1>1, <1>4 DEF V!Rejected, V!On
<1>5. QED BY <1>3, <1>4


\* What advance() makes of a request: it climbs past passed steps up to one that has not.
LEMMA Climb ==
  ASSUME V!ApprovalAssumption, NEW q \in V!RequestRows, NEW ladder \in Ladders,
         NEW c, c = V!Advanced(q, ladder)
  PROVE  /\ c \in V!RequestRows
         /\ c.policy = q.policy /\ c.ladder = q.ladder /\ c.decisions = q.decisions
         /\ c.index >= q.index /\ (c.index = q.index \/ c.index <= Len(ladder))
         /\ \A i \in q.index + 1 .. c.index :
               i \in DOMAIN ladder => V!Passed(q.decisions, ladder[i])
         /\ \/ c.index >= Len(ladder) /\ c.status = "approved"
            \/ /\ c.index < Len(ladder) /\ ~ V!Passed(q.decisions, ladder[c.index + 1])
               /\ c.status = IF V!Rejected(q.decisions, ladder[c.index + 1]) THEN "rejected"
                             ELSE q.status
<1>1. /\ q.index \in Nat /\ Len(ladder) \in Nat /\ DOMAIN ladder = 1 .. Len(ladder)
  BY DEF V!RequestRows, V!ApprovalAssumption
<1>2. PICK stops : stops = {i \in q.index .. Len(ladder) - 1 : ~ V!Passed(q.decisions, ladder[i + 1])}
  OBVIOUS
<1>3. stops \in SUBSET Nat
  BY <1>1, <1>2
<1>4. PICK to : to = IF stops = {} THEN V!Max({q.index, Len(ladder)}) ELSE V!Min(stops)
  OBVIOUS
<1>5. c = [q EXCEPT !.index = to,
             !.status = IF stops = {} THEN "approved"
                        ELSE IF V!Rejected(q.decisions, ladder[to + 1]) THEN "rejected" ELSE @]
  BY <1>2, <1>4 DEF V!Advanced
<1>6. CASE stops = {}
  <2>1. to \in {q.index, Len(ladder)} /\ to >= q.index /\ to >= Len(ladder)
    BY <1>1, <1>4, <1>6, Greater
  <2>2. c = [q EXCEPT !.index = to, !.status = "approved"]
    BY <1>5, <1>6
  <2>3. /\ c \in V!RequestRows /\ c.index = to /\ c.status = "approved"
        /\ c.policy = q.policy /\ c.ladder = q.ladder /\ c.decisions = q.decisions
    BY <1>1, <2>1, <2>2 DEF V!RequestRows, V!RequestStatus
  <2>4. ASSUME NEW i \in q.index + 1 .. to, i \in DOMAIN ladder
        PROVE  V!Passed(q.decisions, ladder[i])
    <3>1. i - 1 \in q.index .. Len(ladder) - 1 /\ (i - 1) + 1 = i
      BY <1>1, <2>1, <2>4
    <3>2. QED BY <1>2, <1>6, <3>1
  <2>5. QED BY <1>1, <2>1, <2>3, <2>4
<1>7. CASE stops # {}
  <2>1. to \in stops /\ \A n \in stops : to <= n
    BY <1>3, <1>4, <1>7, Least
  <2>2. to \in Nat /\ to >= q.index /\ to < Len(ladder) /\ ~ V!Passed(q.decisions, ladder[to + 1])
    BY <1>1, <1>2, <2>1
  <2>3. PICK st : st = IF V!Rejected(q.decisions, ladder[to + 1]) THEN "rejected" ELSE q.status
    OBVIOUS
  <2>4. c = [q EXCEPT !.index = to, !.status = st]
    BY <1>5, <1>7, <2>3
  <2>5. st \in V!RequestStatus
    BY <2>3 DEF V!RequestRows, V!RequestStatus
  <2>6. /\ c \in V!RequestRows /\ c.index = to /\ c.status = st
        /\ c.policy = q.policy /\ c.ladder = q.ladder /\ c.decisions = q.decisions
    BY <2>2, <2>4, <2>5 DEF V!RequestRows
  <2>7. ASSUME NEW i \in q.index + 1 .. to, i \in DOMAIN ladder
        PROVE  V!Passed(q.decisions, ladder[i])
    <3>1. i - 1 \in q.index .. Len(ladder) - 1 /\ (i - 1) + 1 = i /\ i - 1 < to
      BY <1>1, <2>2, <2>7
    <3>2. i - 1 \notin stops
      BY <1>1, <2>1, <2>2, <3>1
    <3>3. QED BY <1>2, <3>1, <3>2
  <2>8. QED BY <1>1, <2>2, <2>3, <2>6, <2>7
<1>8. QED BY <1>6, <1>7

\* A decision: the step decided upon, and what the request becomes.
LEMMA Decided ==
  ASSUME V!ApprovalAssumption, V!TypeOK, OneRow,
         NEW r \in Ticket, NEW who \in Person, NEW ok \in BOOLEAN, V!Decide(r, who, ok)
  PROVE  \E ladder \in Ladders, d \in V!Decisions, q, c \in V!RequestRows :
            /\ r \in V!Opened /\ requests[r].status \in V!OpenStatus /\ V!Known(requests[r].policy)
            /\ ladder = V!PolicyOf(requests[r].policy).steps
            /\ requests[r].index + 1 \in DOMAIN ladder
            /\ d = [step |-> ladder[requests[r].index + 1], by |-> who, approved |-> ok]
            /\ who \in MayDecide[d.step]
            /\ q \in V!RequestRows /\ q.policy = requests[r].policy
            /\ q.ladder = requests[r].ladder /\ q.index = requests[r].index
            /\ q.decisions = Append(requests[r].decisions, d) /\ q.status = "in_progress"
            /\ c = V!Advanced(q, ladder) /\ requests' = [requests EXCEPT ![r] = c]
            /\ policies' = policies /\ edited' = edited
<1>1. PICK ladder : ladder = V!PolicyOf(requests[r].policy).steps
  OBVIOUS
<1>2. /\ r \in V!Opened /\ requests[r].status \in V!OpenStatus /\ V!Known(requests[r].policy)
      /\ policies' = policies /\ edited' = edited
  BY DEF V!Decide, V!Decidable
<1>3. requests[r] \in V!RequestRows
  BY <1>2 DEF V!TypeOK
<1>4. ladder \in Ladders
  <2>1. V!PolicyOf(requests[r].policy) \in V!PolicyRows
    BY <1>2 DEF V!TypeOK, V!Known, V!PolicyOf
  <2>2. QED BY <1>1, <2>1 DEF V!PolicyRows
<1>5. requests[r].index + 1 \in DOMAIN ladder /\ who \in MayDecide[ladder[requests[r].index + 1]]
  BY <1>1 DEF V!Decide
<1>6. PICK d : d = [step |-> ladder[requests[r].index + 1], by |-> who, approved |-> ok]
  OBVIOUS
<1>7. d \in V!Decisions
  BY <1>4, <1>5, <1>6 DEF V!Decisions, V!ApprovalAssumption
<1>8. PICK q : q = [requests[r] EXCEPT !.decisions = Append(requests[r].decisions, d),
                                       !.status = "in_progress"]
  OBVIOUS
<1>9. /\ q \in V!RequestRows /\ q.policy = requests[r].policy
      /\ q.ladder = requests[r].ladder /\ q.index = requests[r].index
      /\ q.decisions = Append(requests[r].decisions, d) /\ q.status = "in_progress"
  <2>1. /\ requests[r].decisions \in Seq(V!Decisions) /\ requests[r].policy \in Policy
        /\ requests[r].ladder \in Ladders /\ requests[r].index \in Nat
    BY <1>3 DEF V!RequestRows
  <2>2. PICK ds : ds = Append(requests[r].decisions, d)
    OBVIOUS
  <2>3. ds \in Seq(V!Decisions)
    BY <1>7, <2>1, <2>2
  <2>4. q = [requests[r] EXCEPT !.decisions = ds, !.status = "in_progress"]
    BY <1>8, <2>2
  <2>5. "in_progress" \in V!RequestStatus
    BY DEF V!RequestStatus, V!OpenStatus
  <2>6. /\ q.policy = requests[r].policy /\ q.ladder = requests[r].ladder
        /\ q.index = requests[r].index /\ q.decisions = ds /\ q.status = "in_progress"
    BY <1>3, <2>4 DEF V!RequestRows
  <2>7. q \in V!RequestRows
    BY <1>3, <2>3, <2>4, <2>5 DEF V!RequestRows
  <2>8. QED BY <2>2, <2>6, <2>7
<1>10. PICK c : c = V!Advanced(q, ladder)
  OBVIOUS
<1>11. requests' = [requests EXCEPT ![r] = c]
  <2>1. requests' = [requests EXCEPT ![r] = V!Advanced(
            [requests[r] EXCEPT !.decisions = Append(requests[r].decisions, [
                step |-> V!PolicyOf(requests[r].policy).steps[requests[r].index + 1],
                by |-> who, approved |-> ok]), !.status = "in_progress"],
            V!PolicyOf(requests[r].policy).steps)]
    BY DEF V!Decide
  <2>2. QED BY <1>1, <1>6, <1>8, <1>10, <2>1
<1>12. c \in V!RequestRows
  BY <1>4, <1>9, <1>10, Climb
<1>13. QED BY <1>1, <1>2, <1>4, <1>5, <1>6, <1>7, <1>9, <1>10, <1>11, <1>12


\* Whoever looks for a policy finds its row.
LEMMA TheRow ==
  ASSUME NEW ps, NEW k \in DOMAIN ps, \A i, j \in DOMAIN ps : ps[i].id = ps[j].id => i = j
  PROVE  ps[CHOOSE j \in DOMAIN ps : ps[j].id = ps[k].id] = ps[k]
<1>1. PICK c : c = CHOOSE j \in DOMAIN ps : ps[j].id = ps[k].id
  OBVIOUS
<1>2. c \in DOMAIN ps /\ ps[c].id = ps[k].id
  BY <1>1
<1>3. QED BY <1>1, <1>2

\* A policy action touches no request; a policy that is not as it was excuses the
\* requests open on it.
LEMMA PoliciesStep ==
  ASSUME V!ApprovalAssumption, V!TypeOK, OneRow, NEW p \in Policy,
         V!CreatePolicy(p) \/ V!UpdatePolicy(p) \/ V!DeletePolicy(p)
  PROVE  /\ policies' \in Seq(V!PolicyRows) /\ OneRow' /\ requests' = requests
         /\ edited \subseteq edited' /\ edited' \subseteq V!Opened
         /\ \A k \in DOMAIN policies : \/ V!OpenOn(policies[k].id) \subseteq edited'
                \/ \E j \in DOMAIN policies' : /\ policies'[j].id = policies[k].id
                                               /\ policies'[j].steps = policies[k].steps
<1>1. /\ policies \in Seq(V!PolicyRows) /\ Len(policies) \in Nat
      /\ DOMAIN policies = 1 .. Len(policies) /\ edited \subseteq V!Opened
      /\ \A q \in Policy : V!OpenOn(q) \subseteq V!Opened
      /\ \A k \in DOMAIN policies : policies[k] \in V!PolicyRows
  BY DEF V!TypeOK, V!OpenOn
<1>2. CASE V!CreatePolicy(p)
  <2>1. PICK l \in Ladders, fs \in SUBSET Flow, ps \in SUBSET Platform :
           policies' = Append(policies, [id |-> p, steps |-> l, enabled |-> TRUE,
                                         flows |-> fs, platforms |-> ps])
    BY <1>2 DEF V!CreatePolicy
  <2>2. PICK row : row = [id |-> p, steps |-> l, enabled |-> TRUE, flows |-> fs, platforms |-> ps]
    OBVIOUS
  <2>3. row \in V!PolicyRows /\ row.id = p
    BY <2>2 DEF V!PolicyRows
  <2>4. /\ policies' \in Seq(V!PolicyRows) /\ DOMAIN policies' = 1 .. Len(policies) + 1
        /\ \A k \in DOMAIN policies : policies'[k] = policies[k]
        /\ policies'[Len(policies) + 1] = row
    BY <1>1, <2>1, <2>2, <2>3
  <2>5. /\ \A k \in DOMAIN policies : policies[k].id # p
        /\ requests' = requests /\ edited' = edited
    BY <1>2 DEF V!CreatePolicy, V!Known
  <2>6. \A k \in DOMAIN policies' : k \in DOMAIN policies \/ k = Len(policies) + 1
    BY <1>1, <2>4
  <2>7. OneRow'
    <3>1. SUFFICES ASSUME NEW j \in DOMAIN policies', NEW k \in DOMAIN policies',
                          policies'[j].id = policies'[k].id
                   PROVE  j = k
      BY DEF OneRow
    <3>2. QED BY <2>3, <2>4, <2>5, <2>6, <3>1 DEF OneRow
  <2>8. DOMAIN policies \subseteq DOMAIN policies'
    BY <1>1, <2>4
  <2>9. QED BY <1>1, <2>4, <2>5, <2>7, <2>8
<1>3. CASE V!UpdatePolicy(p)
  <2>1. PICK l \in Ladders, on \in BOOLEAN :
          /\ policies' = [k \in DOMAIN policies |-> IF policies[k].id # p THEN policies[k]
                            ELSE [policies[k] EXCEPT !.steps = l, !.enabled = on]]
          /\ edited' = IF l = V!PolicyOf(p).steps THEN edited ELSE edited \cup V!OpenOn(p)
    BY <1>3 DEF V!UpdatePolicy
  <2>2. requests' = requests
    BY <1>3 DEF V!UpdatePolicy
  <2>3. ASSUME NEW k \in DOMAIN policies
        PROVE  /\ policies'[k] \in V!PolicyRows /\ policies'[k].id = policies[k].id
               /\ policies[k].id # p => policies'[k].steps = policies[k].steps
               /\ policies[k].id = p => policies'[k].steps = l
    <3>1. policies[k] \in V!PolicyRows
      BY <1>1
    <3>2. CASE policies[k].id # p
      BY <2>1, <3>1, <3>2
    <3>3. CASE policies[k].id = p
      <4>1. policies'[k] = [policies[k] EXCEPT !.steps = l, !.enabled = on]
        BY <2>1, <3>3
      <4>2. QED BY <3>1, <3>3, <4>1 DEF V!PolicyRows
    <3>4. QED BY <3>2, <3>3
  <2>4. DOMAIN policies' = DOMAIN policies
    BY <2>1
  <2>5. policies' \in Seq(V!PolicyRows)
    <3>1. policies' \in [1 .. Len(policies) -> V!PolicyRows]
      BY <1>1, <2>1, <2>3
    <3>2. QED BY <1>1, <3>1
  <2>6. OneRow'
    <3>1. SUFFICES ASSUME NEW j \in DOMAIN policies', NEW k \in DOMAIN policies',
                          policies'[j].id = policies'[k].id
                   PROVE  j = k
      BY DEF OneRow
    <3>2. QED BY <2>3, <2>4, <3>1 DEF OneRow
  <2>7. ASSUME NEW k \in DOMAIN policies, ~ (V!OpenOn(policies[k].id) \subseteq edited')
        PROVE  policies'[k].steps = policies[k].steps
    <3>1. CASE policies[k].id = p
      <4>1. l = V!PolicyOf(p).steps
        BY <2>1, <2>7, <3>1
      <4>2. V!PolicyOf(p) = policies[k]
        BY <3>1, TheRow DEF V!PolicyOf, OneRow
      <4>3. QED BY <2>3, <3>1, <4>1, <4>2
    <3>2. QED BY <2>3, <3>1
  <2>8. V!OpenOn(p) \subseteq V!Opened
    BY DEF V!OpenOn
  <2>9. edited \subseteq edited' /\ edited' \subseteq V!Opened
    BY <1>1, <2>1, <2>8
  <2>10. QED BY <2>2, <2>3, <2>4, <2>5, <2>6, <2>7, <2>9
<1>4. CASE V!DeletePolicy(p)
  <2>1. PICK i \in DOMAIN policies : /\ policies[i].id = p
           /\ policies' = SubSeq(policies, 1, i - 1) \o SubSeq(policies, i + 1, Len(policies))
    BY <1>4 DEF V!DeletePolicy
  <2>2. /\ edited' = edited \cup V!OpenOn(p) /\ requests' = requests
    BY <1>4 DEF V!DeletePolicy
  <2>3. /\ i \in 1 .. Len(policies) /\ i \in Nat
    BY <1>1, <2>1
  <2>4. PICK front, back : /\ front = SubSeq(policies, 1, i - 1)
                           /\ back = SubSeq(policies, i + 1, Len(policies))
    OBVIOUS
  <2>5. /\ front \in Seq(V!PolicyRows) /\ Len(front) = i - 1
        /\ \A k \in 1 .. i - 1 : front[k] = policies[k]
    BY <1>1, <2>3, <2>4
  <2>6. /\ back \in Seq(V!PolicyRows) /\ Len(back) = Len(policies) - i
        /\ \A k \in 1 .. Len(policies) - i : back[k] = policies[k + i]
    BY <1>1, <2>3, <2>4
  <2>7. policies' = front \o back
    BY <2>1, <2>4
  <2>8. policies' \in Seq(V!PolicyRows)
    BY <2>5, <2>6, <2>7
  <2>8a. /\ Len(policies') = Len(front) + Len(back)
         /\ \A k \in 1 .. Len(front) : policies'[k] = front[k]
         /\ \A k \in Len(front) + 1 .. Len(front) + Len(back) :
               policies'[k] = back[k - Len(front)]
    <3>1. /\ Len(front \o back) = Len(front) + Len(back)
          /\ \A k \in 1 .. Len(front) + Len(back) :
                (front \o back)[k] = IF k <= Len(front) THEN front[k] ELSE back[k - Len(front)]
      BY <2>5, <2>6, ConcatProperties, Zenon
    <3>2. Len(front) \in Nat /\ Len(back) \in Nat
      BY <2>5, <2>6
    <3>3. QED BY <2>7, <3>1, <3>2
  <2>9. DOMAIN policies' = 1 .. Len(policies) - 1
    <3>1. Len(policies') = Len(policies) - 1
      BY <1>1, <2>3, <2>5, <2>6, <2>8a
    <3>2. QED BY <2>8, <3>1
  <2>10. /\ \A k \in 1 .. i - 1 : policies'[k] = policies[k]
         /\ \A k \in i .. Len(policies) - 1 : policies'[k] = policies[k + 1]
    <3>1. ASSUME NEW k \in 1 .. i - 1 PROVE policies'[k] = policies[k]
      BY <2>3, <2>5, <2>8a
    <3>2. ASSUME NEW k \in i .. Len(policies) - 1 PROVE policies'[k] = policies[k + 1]
      <4>1. PICK h : h = k - (i - 1)
        OBVIOUS
      <4>2. /\ k \in Len(front) + 1 .. Len(front) + Len(back) /\ h = k - Len(front)
            /\ h \in 1 .. Len(policies) - i /\ h + i = k + 1
        <5>1. PICK n : n = Len(policies)
          OBVIOUS
        <5>2. n \in Nat /\ i \in Nat /\ i >= 1 /\ k \in Nat /\ k >= i /\ k <= n - 1
          BY <1>1, <2>3, <3>2, <5>1
        <5>3. Len(front) = i - 1 /\ Len(back) = n - i
          BY <2>5, <2>6, <5>1
        <5>4. h = k - (i - 1) /\ h \in Int
          BY <4>1, <5>2
        <5>5. QED BY <5>1, <5>2, <5>3, <5>4
      <4>3. policies'[k] = back[h] /\ back[h] = policies[h + i]
        BY <2>6, <2>8a, <4>2
      <4>4. QED BY <4>2, <4>3
    <3>3. QED BY <3>1, <3>2
  <2>11. OneRow'
    <3>1. SUFFICES ASSUME NEW j \in DOMAIN policies', NEW k \in DOMAIN policies',
                          policies'[j].id = policies'[k].id
                   PROVE  j = k
      BY DEF OneRow
    <3>2. PICK a \in DOMAIN policies : policies'[j] = policies[a] /\ a = IF j < i THEN j ELSE j + 1
      BY <1>1, <2>3, <2>9, <2>10
    <3>3. PICK b \in DOMAIN policies : policies'[k] = policies[b] /\ b = IF k < i THEN k ELSE k + 1
      BY <1>1, <2>3, <2>9, <2>10
    <3>4. a = b
      BY <3>1, <3>2, <3>3 DEF OneRow
    <3>5. QED BY <2>3, <2>9, <3>2, <3>3, <3>4
  <2>12. ASSUME NEW k \in DOMAIN policies, ~ (V!OpenOn(policies[k].id) \subseteq edited')
         PROVE  \E j \in DOMAIN policies' : policies'[j] = policies[k]
    <3>1. policies[k].id # p
      BY <2>2, <2>12
    <3>2. k # i
      BY <2>1, <3>1
    <3>3. CASE k < i
      BY <1>1, <2>3, <2>9, <2>10, <3>3
    <3>4. CASE i < k
      <4>1. k - 1 \in i .. Len(policies) - 1 /\ (k - 1) + 1 = k /\ k - 1 \in 1 .. Len(policies) - 1
        BY <1>1, <2>3, <3>4
      <4>2. QED BY <2>9, <2>10, <4>1
    <3>5. QED BY <1>1, <2>3, <3>2, <3>3, <3>4
  <2>13. V!OpenOn(p) \subseteq V!Opened
    BY DEF V!OpenOn
  <2>14. edited \subseteq edited' /\ edited' \subseteq V!Opened
    BY <1>1, <2>2, <2>13
  <2>15. QED BY <2>2, <2>8, <2>11, <2>12, <2>14
<1>5. QED BY <1>2, <1>3, <1>4


\* A request opens at the first step of a policy that stands.
LEMMA OpeningATicket ==
  ASSUME V!ApprovalAssumption, V!TypeOK, OneRow,
         NEW r \in Ticket, NEW f \in Flow, NEW pl \in Platform, V!OpenRequest(r, f, pl)
  PROVE  /\ r \notin V!Opened /\ V!Opened' = V!Opened \cup {r}
         /\ policies' = policies /\ edited' = edited
         /\ \A x \in V!Opened : requests'[x] = requests[x]
         /\ requests' \in [V!Opened' -> V!RequestRows]
         /\ requests'[r].index = 0 /\ requests'[r].decisions = <<>>
         /\ requests'[r].status = "pending" /\ requests'[r].ladder \in Ladders
         /\ V!Known(requests'[r].policy) /\ V!PolicyOf(requests'[r].policy).steps = requests'[r].ladder
<1>1. PICK k \in V!Resolved(f, pl) :
          requests' = [x \in V!Opened \cup {r} |-> IF x \in V!Opened THEN requests[x]
             ELSE [policy |-> policies[k].id, ladder |-> policies[k].steps, index |-> 0,
                   decisions |-> <<>>, status |-> "pending"]]
  BY DEF V!OpenRequest
<1>2. r \notin V!Opened /\ policies' = policies /\ edited' = edited
  BY DEF V!OpenRequest
<1>3. k \in DOMAIN policies /\ policies[k] \in V!PolicyRows
  BY <1>1 DEF V!Resolved, V!TypeOK
<1>4. PICK q : q = [policy |-> policies[k].id, ladder |-> policies[k].steps, index |-> 0,
                    decisions |-> <<>>, status |-> "pending"]
  OBVIOUS
<1>5. /\ q.policy = policies[k].id /\ q.ladder = policies[k].steps /\ q.index = 0
      /\ q.decisions = <<>> /\ q.status = "pending"
  BY <1>4
<1>6. q \in V!RequestRows
  <2>1. <<>> \in Seq(V!Decisions) /\ "pending" \in V!RequestStatus
    BY DEF V!RequestStatus, V!OpenStatus
  <2>2. policies[k].id \in Policy /\ policies[k].steps \in Ladders
    BY <1>3 DEF V!PolicyRows
  <2>3. QED BY <1>4, <2>1, <2>2 DEF V!RequestRows
<1>7. /\ V!Opened' = V!Opened \cup {r} /\ \A x \in V!Opened : requests'[x] = requests[x]
      /\ requests'[r] = q /\ requests' \in [V!Opened' -> V!RequestRows]
  BY <1>1, <1>2, <1>4, <1>6 DEF V!Opened, V!TypeOK
<1>8. V!Known(q.policy)
  BY <1>3, <1>5 DEF V!Known
<1>9. V!PolicyOf(q.policy) = policies[k]
  BY <1>3, <1>5, TheRow DEF V!PolicyOf, OneRow
<1>10. QED BY <1>2, <1>3, <1>5, <1>6, <1>7, <1>8, <1>9 DEF V!RequestRows

\* Cancelling changes a status.
LEMMA Cancelling ==
  ASSUME V!ApprovalAssumption, V!TypeOK, NEW r \in Ticket, V!CancelRequest(r)
  PROVE  /\ r \in V!Opened /\ V!Opened' = V!Opened /\ policies' = policies /\ edited' = edited
         /\ requests' \in [V!Opened -> V!RequestRows]
         /\ \A x \in V!Opened \ {r} : requests'[x] = requests[x]
         /\ requests'[r].policy = requests[r].policy /\ requests'[r].ladder = requests[r].ladder
         /\ requests'[r].index = requests[r].index
         /\ requests'[r].decisions = requests[r].decisions
         /\ requests'[r].status = "cancelled"
<1>1. r \in V!Opened /\ policies' = policies /\ edited' = edited
  BY DEF V!CancelRequest
<1>2. requests \in [V!Opened -> V!RequestRows] /\ requests[r] \in V!RequestRows
  BY <1>1 DEF V!TypeOK
<1>3. PICK q : q = [requests[r] EXCEPT !.status = "cancelled"]
  OBVIOUS
<1>4. /\ q \in V!RequestRows /\ q.policy = requests[r].policy /\ q.ladder = requests[r].ladder
      /\ q.index = requests[r].index /\ q.decisions = requests[r].decisions
      /\ q.status = "cancelled"
  BY <1>2, <1>3 DEF V!RequestRows, V!RequestStatus
<1>5. requests' = [requests EXCEPT ![r] = q]
  BY <1>3 DEF V!CancelRequest
<1>6. QED BY <1>1, <1>2, <1>4, <1>5 DEF V!Opened

\* A decision, in terms of the requests alone.
LEMMA Deciding ==
  ASSUME V!ApprovalAssumption, V!TypeOK, OneRow,
         NEW r \in Ticket, NEW who \in Person, NEW ok \in BOOLEAN, V!Decide(r, who, ok)
  PROVE  \E ladder \in Ladders, d \in V!Decisions, ds \in Seq(V!Decisions), c \in V!RequestRows :
            /\ r \in V!Opened /\ V!Opened' = V!Opened /\ policies' = policies /\ edited' = edited
            /\ requests[r] \in V!RequestRows /\ requests[r].status \in V!OpenStatus
            /\ V!Known(requests[r].policy) /\ ladder = V!PolicyOf(requests[r].policy).steps
            /\ requests[r].index + 1 \in DOMAIN ladder
            /\ d.step = ladder[requests[r].index + 1] /\ d.by \in MayDecide[d.step]
            /\ d.approved = ok /\ ds = Append(requests[r].decisions, d)
            /\ requests' \in [V!Opened -> V!RequestRows] /\ requests'[r] = c
            /\ \A x \in V!Opened \ {r} : requests'[x] = requests[x]
            /\ c.policy = requests[r].policy /\ c.ladder = requests[r].ladder
            /\ c.decisions = ds /\ c.index >= requests[r].index
            /\ (c.index = requests[r].index \/ c.index <= Len(ladder))
            /\ \A i \in requests[r].index + 1 .. c.index :
                  i \in DOMAIN ladder => V!Passed(ds, ladder[i])
            /\ \/ c.index >= Len(ladder) /\ c.status = "approved"
               \/ /\ c.index < Len(ladder) /\ ~ V!Passed(ds, ladder[c.index + 1])
                  /\ c.status = IF V!Rejected(ds, ladder[c.index + 1]) THEN "rejected"
                                ELSE "in_progress"
<1>1. PICK ladder \in Ladders, d \in V!Decisions, q, c \in V!RequestRows :
            /\ r \in V!Opened /\ requests[r].status \in V!OpenStatus /\ V!Known(requests[r].policy)
            /\ ladder = V!PolicyOf(requests[r].policy).steps
            /\ requests[r].index + 1 \in DOMAIN ladder
            /\ d = [step |-> ladder[requests[r].index + 1], by |-> who, approved |-> ok]
            /\ who \in MayDecide[d.step]
            /\ q \in V!RequestRows /\ q.policy = requests[r].policy
            /\ q.ladder = requests[r].ladder /\ q.index = requests[r].index
            /\ q.decisions = Append(requests[r].decisions, d) /\ q.status = "in_progress"
            /\ c = V!Advanced(q, ladder) /\ requests' = [requests EXCEPT ![r] = c]
            /\ policies' = policies /\ edited' = edited
  BY Decided
<1>2. q.decisions \in Seq(V!Decisions)
  BY <1>1 DEF V!RequestRows
<1>3. requests \in [V!Opened -> V!RequestRows] /\ requests[r] \in V!RequestRows
  BY <1>1 DEF V!TypeOK
<1>4. /\ requests' \in [V!Opened -> V!RequestRows] /\ requests'[r] = c
      /\ \A x \in V!Opened \ {r} : requests'[x] = requests[x]
  <2>1. r \in V!Opened /\ c \in V!RequestRows /\ requests' = [requests EXCEPT ![r] = c]
    BY <1>1
  <2>2. QED BY <1>3, <2>1
<1>5. V!Opened' = V!Opened
  BY <1>4 DEF V!Opened
<1>6. d.step = ladder[requests[r].index + 1] /\ d.by = who /\ d.approved = ok
  BY <1>1
<1>7. /\ c.policy = q.policy /\ c.ladder = q.ladder /\ c.decisions = q.decisions
      /\ c.index >= q.index /\ (c.index = q.index \/ c.index <= Len(ladder))
      /\ \A i \in q.index + 1 .. c.index : i \in DOMAIN ladder => V!Passed(q.decisions, ladder[i])
      /\ \/ c.index >= Len(ladder) /\ c.status = "approved"
         \/ /\ c.index < Len(ladder) /\ ~ V!Passed(q.decisions, ladder[c.index + 1])
            /\ c.status = IF V!Rejected(q.decisions, ladder[c.index + 1]) THEN "rejected"
                          ELSE q.status
  <2>1. q \in V!RequestRows /\ c = V!Advanced(q, ladder)
    BY <1>1
  <2>2. QED BY <2>1, Climb
<1>8. PICK ds \in Seq(V!Decisions) : ds = q.decisions
  BY <1>2
<1>9. /\ r \in V!Opened /\ requests[r].status \in V!OpenStatus /\ V!Known(requests[r].policy)
      /\ ladder = V!PolicyOf(requests[r].policy).steps /\ policies' = policies /\ edited' = edited
      /\ requests[r].index + 1 \in DOMAIN ladder /\ who \in MayDecide[d.step]
      /\ ds = Append(requests[r].decisions, d) /\ q.status = "in_progress"
      /\ q.policy = requests[r].policy /\ q.ladder = requests[r].ladder
      /\ q.index = requests[r].index
  BY <1>1, <1>8
<1>10. /\ c.policy = requests[r].policy /\ c.ladder = requests[r].ladder
       /\ c.decisions = ds /\ c.index >= requests[r].index
       /\ (c.index = requests[r].index \/ c.index <= Len(ladder))
       /\ \A i \in requests[r].index + 1 .. c.index :
             i \in DOMAIN ladder => V!Passed(ds, ladder[i])
       /\ \/ c.index >= Len(ladder) /\ c.status = "approved"
          \/ /\ c.index < Len(ladder) /\ ~ V!Passed(ds, ladder[c.index + 1])
             /\ c.status = IF V!Rejected(ds, ladder[c.index + 1]) THEN "rejected"
                           ELSE "in_progress"
  BY <1>7, <1>8, <1>9
<1>11. d.by \in MayDecide[d.step]
  BY <1>6, <1>9
<1>12. QED BY <1>3, <1>4, <1>5, <1>6, <1>9, <1>10, <1>11


\* What each step keeps.
LEMMA ApprovalInit ==
  ASSUME V!ApprovalAssumption, V!Init PROVE LadderInv
<1>1. policies = <<>> /\ requests = <<>> /\ edited = {} /\ V!Opened = {}
      /\ policies \in Seq(V!PolicyRows) /\ DOMAIN policies = {}
  BY DEF V!Init, V!Opened
<1>2. requests \in [V!Opened -> V!RequestRows]
  BY <1>1
<1>3. QED BY <1>1, <1>2
      DEF LadderInv, V!TypeOK, OneRow, Followed, V!RejectionIsLast, V!WaitsForSomebody

LEMMA ApprovalTypesStep ==
  ASSUME V!ApprovalAssumption, V!TypeOK, OneRow, [V!Next]_(V!vars)
  PROVE  V!TypeOK' /\ OneRow'
<1>1. CASE UNCHANGED V!vars
  BY <1>1 DEF V!vars, V!TypeOK, OneRow, V!Opened
<1>2. ASSUME NEW p \in Policy, V!CreatePolicy(p) \/ V!UpdatePolicy(p) \/ V!DeletePolicy(p)
      PROVE  V!TypeOK' /\ OneRow'
  <2>1. /\ policies' \in Seq(V!PolicyRows) /\ OneRow' /\ requests' = requests
        /\ edited' \subseteq V!Opened
    BY <1>2, PoliciesStep
  <2>2. QED BY <2>1 DEF V!TypeOK, V!Opened
<1>3. ASSUME NEW r \in Ticket, NEW f \in Flow, NEW pl \in Platform, V!OpenRequest(r, f, pl)
      PROVE  V!TypeOK' /\ OneRow'
  <2>1. /\ r \notin V!Opened /\ V!Opened' = V!Opened \cup {r} /\ policies' = policies
        /\ edited' = edited /\ \A x \in V!Opened : requests'[x] = requests[x]
        /\ requests' \in [V!Opened' -> V!RequestRows]
        /\ requests'[r].index = 0 /\ requests'[r].ladder \in Ladders
    BY <1>3, OpeningATicket
  <2>2. \E l \in Ladders : requests'[r].index <= Len(l)
    BY <2>1 DEF V!ApprovalAssumption
  <2>3. \A x \in V!Opened' : \E l \in Ladders : requests'[x].index <= Len(l)
    BY <2>1, <2>2 DEF V!TypeOK
  <2>4. OneRow'
    BY <2>1 DEF OneRow
  <2>5. QED BY <2>1, <2>3, <2>4 DEF V!TypeOK
<1>4. ASSUME NEW r \in Ticket, NEW who \in Person, NEW ok \in BOOLEAN, V!Decide(r, who, ok)
      PROVE  V!TypeOK' /\ OneRow'
  <2>1. PICK ladder \in Ladders :
            /\ r \in V!Opened /\ V!Opened' = V!Opened /\ policies' = policies /\ edited' = edited
            /\ requests' \in [V!Opened -> V!RequestRows]
            /\ \A x \in V!Opened \ {r} : requests'[x] = requests[x]
            /\ (requests'[r].index = requests[r].index \/ requests'[r].index <= Len(ladder))
    BY <1>4, Deciding
  <2>2. \A x \in V!Opened : \E l \in Ladders : requests'[x].index <= Len(l)
    BY <2>1 DEF V!TypeOK
  <2>3. OneRow'
    BY <2>1 DEF OneRow
  <2>4. QED BY <2>1, <2>2, <2>3 DEF V!TypeOK
<1>5. ASSUME NEW r \in Ticket, V!CancelRequest(r)
      PROVE  V!TypeOK' /\ OneRow'
  <2>1. /\ r \in V!Opened /\ V!Opened' = V!Opened /\ policies' = policies /\ edited' = edited
        /\ requests' \in [V!Opened -> V!RequestRows]
        /\ \A x \in V!Opened \ {r} : requests'[x] = requests[x]
        /\ requests'[r].index = requests[r].index
    BY <1>5, Cancelling
  <2>2. \A x \in V!Opened : \E l \in Ladders : requests'[x].index <= Len(l)
    BY <2>1 DEF V!TypeOK
  <2>3. OneRow'
    BY <2>1 DEF OneRow
  <2>4. QED BY <2>1, <2>2, <2>3 DEF V!TypeOK
<1>6. QED BY <1>1, <1>2, <1>3, <1>4, <1>5 DEF V!Next

\* A rejection ends the climb where it is.
LEMMA RejectionStep ==
  ASSUME V!ApprovalAssumption, V!TypeOK, OneRow, V!RejectionIsLast, [V!Next]_(V!vars)
  PROVE  V!RejectionIsLast'
<1>1. CASE UNCHANGED V!vars
  BY <1>1 DEF V!vars, V!RejectionIsLast, V!Opened
<1>2. ASSUME NEW p \in Policy, V!CreatePolicy(p) \/ V!UpdatePolicy(p) \/ V!DeletePolicy(p)
      PROVE  V!RejectionIsLast'
  <2>1. requests' = requests
    BY <1>2, PoliciesStep
  <2>2. QED BY <2>1 DEF V!RejectionIsLast, V!Opened
<1>3. ASSUME NEW r \in Ticket, NEW f \in Flow, NEW pl \in Platform, V!OpenRequest(r, f, pl)
      PROVE  V!RejectionIsLast'
  <2>1. /\ V!Opened' = V!Opened \cup {r} /\ \A x \in V!Opened : requests'[x] = requests[x]
        /\ requests'[r].decisions = <<>>
    BY <1>3, OpeningATicket
  <2>2. DOMAIN requests'[r].decisions = {}
    BY <2>1
  <2>3. QED BY <2>1, <2>2 DEF V!RejectionIsLast
<1>4. ASSUME NEW r \in Ticket, NEW who \in Person, NEW ok \in BOOLEAN, V!Decide(r, who, ok)
      PROVE  V!RejectionIsLast'
  <2>1. PICK ladder \in Ladders, d \in V!Decisions, ds \in Seq(V!Decisions), c \in V!RequestRows :
            /\ r \in V!Opened /\ V!Opened' = V!Opened
            /\ requests[r] \in V!RequestRows /\ requests[r].status \in V!OpenStatus
            /\ requests[r].index + 1 \in DOMAIN ladder
            /\ d.step = ladder[requests[r].index + 1]
            /\ d.approved = ok /\ ds = Append(requests[r].decisions, d) /\ requests'[r] = c
            /\ \A x \in V!Opened \ {r} : requests'[x] = requests[x]
            /\ c.decisions = ds /\ c.index >= requests[r].index
            /\ \A i \in requests[r].index + 1 .. c.index :
                  i \in DOMAIN ladder => V!Passed(ds, ladder[i])
            /\ \/ c.index >= Len(ladder) /\ c.status = "approved"
               \/ /\ c.index < Len(ladder) /\ ~ V!Passed(ds, ladder[c.index + 1])
                  /\ c.status = IF V!Rejected(ds, ladder[c.index + 1]) THEN "rejected"
                                ELSE "in_progress"
    BY <1>4, Deciding
  <2>2. PICK old \in Seq(V!Decisions) : old = requests[r].decisions
    BY <2>1 DEF V!RequestRows
  <2>3. /\ \A k \in DOMAIN old : ds[k] = old[k] /\ k \in DOMAIN ds
        /\ DOMAIN ds = 1 .. Len(ds) /\ Len(ds) = Len(old) + 1 /\ DOMAIN old = 1 .. Len(old)
        /\ ds[Len(ds)] = d /\ Len(ds) \in DOMAIN ds /\ Len(old) \in Nat
    BY <2>1, <2>2
  <2>4. \A k \in DOMAIN old : old[k].approved
    BY <2>1, <2>2 DEF V!RejectionIsLast, V!OpenStatus
  <2>5. ASSUME ~ d.approved PROVE c.status = "rejected"
    <3>1. V!Rejected(ds, d.step)
      BY <2>3, <2>5 DEF V!Rejected, V!On
    <3>2. ~ V!Passed(ds, ladder[requests[r].index + 1])
      BY <2>1, <3>1 DEF V!Passed
    <3>3. requests[r].index \in Nat /\ c.index \in Nat /\ Len(ladder) \in Nat
          /\ DOMAIN ladder = 1 .. Len(ladder)
      BY <2>1 DEF V!RequestRows, V!ApprovalAssumption
    <3>4. c.index = requests[r].index
      <4>1. ASSUME c.index # requests[r].index PROVE FALSE
        <5>1. requests[r].index + 1 \in requests[r].index + 1 .. c.index
          BY <2>1, <3>3, <4>1
        <5>2. QED BY <2>1, <3>2, <5>1
      <4>2. QED BY <4>1
    <3>5. c.index < Len(ladder)
      BY <2>1, <3>3, <3>4
    <3>6. QED BY <2>1, <3>1, <3>3, <3>4, <3>5
  <2>6. ASSUME NEW k \in DOMAIN ds, ~ ds[k].approved
        PROVE  k = Len(ds) /\ c.status = "rejected"
    <3>1. k \notin DOMAIN old
      BY <2>3, <2>4, <2>6
    <3>2. k = Len(ds)
      BY <2>3, <3>1
    <3>3. QED BY <2>3, <2>5, <2>6, <3>2
  <2>7. QED BY <2>1, <2>6 DEF V!RejectionIsLast
<1>5. ASSUME NEW r \in Ticket, V!CancelRequest(r)
      PROVE  V!RejectionIsLast'
  <2>1. /\ r \in V!Opened /\ V!Opened' = V!Opened
        /\ \A x \in V!Opened \ {r} : requests'[x] = requests[x]
        /\ requests'[r].decisions = requests[r].decisions /\ requests'[r].status = "cancelled"
    BY <1>5, Cancelling
  <2>2. QED BY <2>1 DEF V!RejectionIsLast
<1>6. QED BY <1>1, <1>2, <1>3, <1>4, <1>5 DEF V!Next


\* What has passed stays passed as long as nobody rejects, and an unedited request
\* climbs the ladder it was opened with.
LEMMA FollowedStep ==
  ASSUME V!ApprovalAssumption, V!TypeOK, OneRow, Followed, V!RejectionIsLast, [V!Next]_(V!vars)
  PROVE  Followed'
<1>1. CASE UNCHANGED V!vars
  BY <1>1 DEF V!vars, Followed, V!Opened, Named, Climbed, Stands, V!Known, V!PolicyOf, V!Passed, V!Complete,
              V!Rejected, V!On
<1>2. ASSUME NEW p \in Policy, V!CreatePolicy(p) \/ V!UpdatePolicy(p) \/ V!DeletePolicy(p)
      PROVE  Followed'
  <2>1. /\ OneRow' /\ requests' = requests /\ edited \subseteq edited'
        /\ \A k \in DOMAIN policies : \/ V!OpenOn(policies[k].id) \subseteq edited'
               \/ \E j \in DOMAIN policies' : /\ policies'[j].id = policies[k].id
                                              /\ policies'[j].steps = policies[k].steps
    BY <1>2, PoliciesStep
  <2>2. ASSUME NEW r \in V!Opened, r \notin edited' PROVE Stands(requests[r])'
    <3>1. Stands(requests[r]) /\ r \notin edited
      BY <2>1, <2>2 DEF Followed
    <3>2. SUFFICES ASSUME requests[r].status \in V!OpenStatus
                   PROVE  (V!Known(requests[r].policy) /\ V!PolicyOf(requests[r].policy).steps
                                                          = requests[r].ladder)'
      BY <2>1 DEF Stands
    <3>3. PICK k \in DOMAIN policies : policies[k].id = requests[r].policy
      BY <3>1, <3>2 DEF Stands, V!Known
    <3>4. policies[k].steps = requests[r].ladder
      <4>1. V!PolicyOf(requests[r].policy) = policies[k]
        BY <3>3, TheRow DEF V!PolicyOf, OneRow
      <4>2. QED BY <3>1, <3>2, <4>1 DEF Stands
    <3>5. r \in V!OpenOn(policies[k].id)
      BY <3>2, <3>3 DEF V!OpenOn
    <3>6. PICK j \in DOMAIN policies' : /\ policies'[j].id = policies[k].id
                                        /\ policies'[j].steps = policies[k].steps
      BY <2>1, <2>2, <3>5
    <3>7. policies'[CHOOSE i \in DOMAIN policies' : policies'[i].id = policies'[j].id]
             = policies'[j]
      BY <2>1, TheRow DEF OneRow
    <3>8. V!PolicyOf(requests[r].policy)' = policies'[j]
      BY <2>1, <3>3, <3>6, <3>7 DEF V!PolicyOf
    <3>9. V!Known(requests[r].policy)'
      BY <2>1, <3>3, <3>6 DEF V!Known
    <3>10. QED BY <2>1, <3>4, <3>6, <3>8, <3>9
  <2>3. ASSUME NEW r \in V!Opened PROVE /\ Named(requests[r])'
                                        /\ r \notin edited => Climbed(requests[r])'
    BY <2>1, <2>3 DEF Followed, Named, Climbed, V!Passed, V!Complete, V!Rejected, V!On
  <2>4. V!Opened' = V!Opened
    BY <2>1 DEF V!Opened
  <2>5. QED BY <2>1, <2>2, <2>3, <2>4 DEF Followed
<1>3. ASSUME NEW r \in Ticket, NEW f \in Flow, NEW pl \in Platform, V!OpenRequest(r, f, pl)
      PROVE  Followed'
  <2>1. /\ r \notin V!Opened /\ V!Opened' = V!Opened \cup {r}
        /\ policies' = policies /\ edited' = edited
        /\ \A x \in V!Opened : requests'[x] = requests[x]
        /\ requests'[r].index = 0 /\ requests'[r].decisions = <<>>
        /\ requests'[r].status = "pending" /\ requests'[r].ladder \in Ladders
        /\ V!Known(requests'[r].policy)
        /\ V!PolicyOf(requests'[r].policy).steps = requests'[r].ladder
    BY <1>3, OpeningATicket
  <2>2. \A x \in V!Opened : /\ Named(requests'[x])
                            /\ x \notin edited => Climbed(requests'[x]) /\ Stands(requests'[x])
    BY <2>1 DEF Followed
  <2>3. Named(requests'[r])
    <3>1. DOMAIN requests'[r].decisions = {}
      BY <2>1
    <3>2. QED BY <3>1 DEF Named
  <2>4. Climbed(requests'[r])
    <3>1. Len(requests'[r].ladder) \in Nat /\ Len(requests'[r].ladder) # 0
      BY <2>1 DEF V!ApprovalAssumption
    <3>2. QED BY <2>1, <3>1 DEF Climbed
  <2>5. Stands(requests'[r])
    BY <2>1 DEF Stands
  <2>6. \A x \in V!Opened' : /\ Named(requests'[x])
                             /\ x \notin edited => Climbed(requests'[x]) /\ Stands(requests'[x])
    BY <2>1, <2>2, <2>3, <2>4, <2>5
  <2>7. ASSUME NEW x \in V!Opened'
        PROVE  /\ Named(requests[x])'
               /\ x \notin edited' => Climbed(requests[x])' /\ Stands(requests[x])'
    <3>1. Named(requests'[x]) /\ (x \notin edited => Climbed(requests'[x]) /\ Stands(requests'[x]))
      BY <2>6
    <3>2. Named(requests[x])'
      BY <3>1 DEF Named
    <3>3. ASSUME x \notin edited' PROVE Climbed(requests[x])'
      BY <2>1, <3>1, <3>3 DEF Climbed, V!Passed, V!Complete, V!Rejected, V!On
    <3>4. ASSUME x \notin edited' PROVE Stands(requests[x])'
      BY <2>1, <3>1, <3>4 DEF Stands, V!Known, V!PolicyOf
    <3>5. QED BY <3>2, <3>3, <3>4
  <2>8. QED BY <2>7 DEF Followed
<1>4. ASSUME NEW r \in Ticket, NEW who \in Person, NEW ok \in BOOLEAN, V!Decide(r, who, ok)
      PROVE  Followed'
  <2>1. PICK ladder \in Ladders, d \in V!Decisions, ds \in Seq(V!Decisions), c \in V!RequestRows :
            /\ r \in V!Opened /\ V!Opened' = V!Opened /\ policies' = policies /\ edited' = edited
            /\ requests[r] \in V!RequestRows /\ requests[r].status \in V!OpenStatus
            /\ V!Known(requests[r].policy) /\ ladder = V!PolicyOf(requests[r].policy).steps
            /\ requests[r].index + 1 \in DOMAIN ladder
            /\ d.step = ladder[requests[r].index + 1] /\ d.by \in MayDecide[d.step]
            /\ ds = Append(requests[r].decisions, d) /\ requests'[r] = c
            /\ \A x \in V!Opened \ {r} : requests'[x] = requests[x]
            /\ c.policy = requests[r].policy /\ c.ladder = requests[r].ladder
            /\ c.decisions = ds /\ c.index >= requests[r].index
            /\ \A i \in requests[r].index + 1 .. c.index :
                  i \in DOMAIN ladder => V!Passed(ds, ladder[i])
            /\ \/ c.index >= Len(ladder) /\ c.status = "approved"
               \/ /\ c.index < Len(ladder) /\ ~ V!Passed(ds, ladder[c.index + 1])
                  /\ c.status = IF V!Rejected(ds, ladder[c.index + 1]) THEN "rejected"
                                ELSE "in_progress"
    BY <1>4, Deciding
  <2>2. PICK old \in Seq(V!Decisions) : old = requests[r].decisions
    BY <2>1 DEF V!RequestRows
  <2>3. /\ \A k \in DOMAIN old : ds[k] = old[k] /\ k \in DOMAIN ds
        /\ DOMAIN ds = 1 .. Len(ds) /\ Len(ds) = Len(old) + 1 /\ DOMAIN old = 1 .. Len(old)
        /\ ds[Len(ds)] = d /\ Len(ds) \in DOMAIN ds /\ Len(old) \in Nat
    BY <2>1, <2>2
  <2>4. Named(c)
    <3>1. ASSUME NEW k \in DOMAIN ds PROVE ds[k].by \in MayDecide[ds[k].step]
      <4>1. CASE k = Len(ds)
        BY <2>1, <2>3, <4>1
      <4>2. CASE k # Len(ds)
        <5>1. k \in DOMAIN old
          BY <2>3, <4>2
        <5>2. QED BY <2>1, <2>2, <2>3, <5>1 DEF Followed, Named
      <4>3. QED BY <4>1, <4>2
    <3>2. QED BY <2>1, <3>1 DEF Named
  <2>5. ASSUME r \notin edited PROVE Climbed(c) /\ Stands(c)
    <3>1. Climbed(requests[r]) /\ requests[r].ladder = ladder
      BY <2>1, <2>5 DEF Followed, Stands
    <3>2. requests[r].index \in Nat /\ c.index \in Nat /\ Len(ladder) \in Nat
          /\ DOMAIN ladder = 1 .. Len(ladder) /\ \A i \in DOMAIN ladder : ladder[i] \in Rung
      BY <2>1 DEF V!RequestRows, V!ApprovalAssumption
    <3>3. ASSUME c.status # "rejected", NEW i \in 1 .. c.index, i \in DOMAIN ladder
          PROVE  V!Passed(ds, ladder[i])
      <4>1. CASE i > requests[r].index
        <5>1. i \in requests[r].index + 1 .. c.index
          BY <3>2, <3>3, <4>1
        <5>2. QED BY <2>1, <3>3, <5>1
      <4>2. CASE i <= requests[r].index
        <5>1. V!Passed(old, ladder[i])
          <6>1. i \in 1 .. requests[r].index /\ requests[r].status \notin {"rejected", "cancelled"}
            BY <2>1, <3>2, <4>2 DEF V!OpenStatus
          <6>2. QED BY <2>2, <3>1, <3>3, <6>1 DEF Climbed
        <5>2. d.approved
          <6>1. SUFFICES ASSUME ~ d.approved PROVE FALSE
            OBVIOUS
          <6>2. requests'[r].decisions = ds /\ ~ ds[Len(ds)].approved
            BY <2>1, <2>3, <6>1
          <6>3. V!RejectionIsLast'
            BY RejectionStep
          <6>4. requests'[r].status \in {"rejected", "cancelled"}
            BY <2>1, <2>3, <6>2, <6>3 DEF V!RejectionIsLast
          <6>5. QED BY <2>1, <3>3, <6>4
        <5>3. /\ V!Complete(old, ladder[i]) => V!Complete(ds, ladder[i])
              /\ V!Rejected(ds, ladder[i]) => V!Rejected(old, ladder[i])
          BY <2>1, <2>2, <3>2, <3>3, <5>2, MoreApprovals
        <5>4. QED BY <5>1, <5>3 DEF V!Passed
      <4>3. QED BY <3>2, <4>1, <4>2
    <3>4. c.status \in V!OpenStatus => c.index < Len(ladder)
      BY <2>1 DEF V!OpenStatus
    <3>5. c.status = "approved" => c.index >= Len(ladder)
      BY <2>1
    <3>6. Climbed(c)
      BY <2>1, <3>1, <3>3, <3>4, <3>5 DEF Climbed
    <3>7. Stands(c)
      BY <2>1, <3>1 DEF Stands
    <3>8. QED BY <3>6, <3>7
  <2>6. \A x \in V!Opened' : /\ Named(requests'[x])
                             /\ x \notin edited => Climbed(requests'[x]) /\ Stands(requests'[x])
    BY <2>1, <2>4, <2>5 DEF Followed
  <2>7. ASSUME NEW x \in V!Opened'
        PROVE  /\ Named(requests[x])'
               /\ x \notin edited' => Climbed(requests[x])' /\ Stands(requests[x])'
    <3>1. Named(requests'[x]) /\ (x \notin edited => Climbed(requests'[x]) /\ Stands(requests'[x]))
      BY <2>6
    <3>2. Named(requests[x])'
      BY <3>1 DEF Named
    <3>3. ASSUME x \notin edited' PROVE Climbed(requests[x])'
      BY <2>1, <3>1, <3>3 DEF Climbed, V!Passed, V!Complete, V!Rejected, V!On
    <3>4. ASSUME x \notin edited' PROVE Stands(requests[x])'
      BY <2>1, <3>1, <3>4 DEF Stands, V!Known, V!PolicyOf
    <3>5. QED BY <3>2, <3>3, <3>4
  <2>8. QED BY <2>7 DEF Followed
<1>5. ASSUME NEW r \in Ticket, V!CancelRequest(r)
      PROVE  Followed'
  <2>1. /\ r \in V!Opened /\ V!Opened' = V!Opened /\ policies' = policies /\ edited' = edited
        /\ \A x \in V!Opened \ {r} : requests'[x] = requests[x]
        /\ requests'[r].decisions = requests[r].decisions /\ requests'[r].status = "cancelled"
    BY <1>5, Cancelling
  <2>2. Named(requests'[r])
    BY <2>1 DEF Followed, Named
  <2>3. Climbed(requests'[r]) /\ Stands(requests'[r])
    BY <2>1 DEF Climbed, Stands, V!OpenStatus
  <2>4. \A x \in V!Opened' : /\ Named(requests'[x])
                             /\ x \notin edited => Climbed(requests'[x]) /\ Stands(requests'[x])
    BY <2>1, <2>2, <2>3 DEF Followed
  <2>5. ASSUME NEW x \in V!Opened'
        PROVE  /\ Named(requests[x])'
               /\ x \notin edited' => Climbed(requests[x])' /\ Stands(requests[x])'
    <3>1. Named(requests'[x]) /\ (x \notin edited => Climbed(requests'[x]) /\ Stands(requests'[x]))
      BY <2>4
    <3>2. Named(requests[x])'
      BY <3>1 DEF Named
    <3>3. ASSUME x \notin edited' PROVE Climbed(requests[x])'
      BY <2>1, <3>1, <3>3 DEF Climbed, V!Passed, V!Complete, V!Rejected, V!On
    <3>4. ASSUME x \notin edited' PROVE Stands(requests[x])'
      BY <2>1, <3>1, <3>4 DEF Stands, V!Known, V!PolicyOf
    <3>5. QED BY <3>2, <3>3, <3>4
  <2>6. QED BY <2>5 DEF Followed
<1>6. QED BY <1>1, <1>2, <1>3, <1>4, <1>5 DEF V!Next

\* Where an unedited request waits.
LEMMA WaitsStep ==
  ASSUME V!ApprovalAssumption, V!TypeOK, OneRow, Followed, V!WaitsForSomebody, [V!Next]_(V!vars)
  PROVE  V!WaitsForSomebody'
<1> DEFINE Waits(q) == q.status \in V!OpenStatus =>
              \/ /\ q.ladder[q.index + 1] \notin Optional
                 /\ V!Cardinality({k \in V!On(q.decisions, q.ladder[q.index + 1]) :
                                     q.decisions[k].approved}) < Needs[q.ladder[q.index + 1]]
              \/ q.index = 0 /\ q.decisions = <<>>
<1>w. V!WaitsForSomebody <=> \A r \in V!Opened \ edited : Waits(requests[r])
  BY DEF V!WaitsForSomebody, V!Approvals
<1>v. V!WaitsForSomebody' <=> \A r \in V!Opened' \ edited' : Waits(requests'[r])
  BY DEF V!WaitsForSomebody, V!Approvals, V!On
<1> HIDE DEF Waits
<1>1. CASE UNCHANGED V!vars
  BY <1>1, <1>w, <1>v DEF V!vars, V!Opened
<1>2. ASSUME NEW p \in Policy, V!CreatePolicy(p) \/ V!UpdatePolicy(p) \/ V!DeletePolicy(p)
      PROVE  V!WaitsForSomebody'
  <2>1. requests' = requests /\ edited \subseteq edited'
    BY <1>2, PoliciesStep
  <2>2. QED BY <2>1, <1>w, <1>v DEF V!Opened
<1>3. ASSUME NEW r \in Ticket, NEW f \in Flow, NEW pl \in Platform, V!OpenRequest(r, f, pl)
      PROVE  V!WaitsForSomebody'
  <2>1. /\ V!Opened' = V!Opened \cup {r} /\ edited' = edited
        /\ \A x \in V!Opened : requests'[x] = requests[x]
        /\ requests'[r].index = 0 /\ requests'[r].decisions = <<>>
    BY <1>3, OpeningATicket
  <2>2. Waits(requests'[r])
    BY <2>1 DEF Waits
  <2>3. QED BY <2>1, <2>2, <1>w, <1>v
<1>4. ASSUME NEW r \in Ticket, NEW who \in Person, NEW ok \in BOOLEAN, V!Decide(r, who, ok)
      PROVE  V!WaitsForSomebody'
  <2>1. PICK ladder \in Ladders, ds \in Seq(V!Decisions), c \in V!RequestRows :
            /\ r \in V!Opened /\ V!Opened' = V!Opened /\ edited' = edited
            /\ requests[r] \in V!RequestRows /\ requests[r].status \in V!OpenStatus
            /\ ladder = V!PolicyOf(requests[r].policy).steps /\ requests'[r] = c
            /\ \A x \in V!Opened \ {r} : requests'[x] = requests[x]
            /\ c.ladder = requests[r].ladder /\ c.decisions = ds
            /\ \/ c.index >= Len(ladder) /\ c.status = "approved"
               \/ /\ c.index < Len(ladder) /\ ~ V!Passed(ds, ladder[c.index + 1])
                  /\ c.status = IF V!Rejected(ds, ladder[c.index + 1]) THEN "rejected"
                                ELSE "in_progress"
    BY <1>4, Deciding
  <2>2. ASSUME r \notin edited, c.status \in V!OpenStatus
        PROVE  /\ c.ladder[c.index + 1] \notin Optional
               /\ V!Cardinality({k \in V!On(ds, c.ladder[c.index + 1]) : ds[k].approved})
                     < Needs[c.ladder[c.index + 1]]
    <3>1. c.ladder = ladder
      BY <2>1, <2>2 DEF Followed, Stands
    <3>2. /\ c.index < Len(ladder) /\ c.status = "in_progress"
          /\ ~ V!Rejected(ds, ladder[c.index + 1]) /\ ~ V!Passed(ds, ladder[c.index + 1])
      BY <2>1, <2>2 DEF V!OpenStatus
    <3>3. ladder[c.index + 1] \notin Optional /\ ~ V!Complete(ds, ladder[c.index + 1])
      BY <3>2 DEF V!Passed
    <3>4. ladder[c.index + 1] \in Rung
      BY <2>1, <3>2 DEF V!RequestRows, V!ApprovalAssumption
    <3>5. PICK n : n = V!Cardinality({k \in V!On(ds, ladder[c.index + 1]) : ds[k].approved})
      OBVIOUS
    <3>6. n \in Nat
      <4>1. {k \in V!On(ds, ladder[c.index + 1]) : ds[k].approved} \subseteq 1 .. Len(ds)
        BY DEF V!On
      <4>2. IsFiniteSet(1 .. Len(ds))
        BY FS_Interval
      <4>3. PICK yes : yes = {k \in V!On(ds, ladder[c.index + 1]) : ds[k].approved}
        OBVIOUS
      <4>4. Cardinality(yes) \in Nat
        BY <4>1, <4>2, <4>3, FS_Subset, FS_CardinalityType
      <4>5. QED BY <3>5, <4>3, <4>4, ApprovalSizes
    <3>7. Needs[ladder[c.index + 1]] \in Int
      BY <3>4 DEF V!ApprovalAssumption
    <3>8. ~ (n >= Needs[ladder[c.index + 1]])
      BY <3>3, <3>5 DEF V!Complete
    <3>9. n < Needs[ladder[c.index + 1]]
      BY <3>6, <3>7, <3>8
    <3>10. QED BY <3>1, <3>3, <3>5, <3>9
  <2>3. r \notin edited => Waits(c)
    BY <2>1, <2>2 DEF Waits
  <2>4. QED BY <2>1, <2>3, <1>w, <1>v
<1>5. ASSUME NEW r \in Ticket, V!CancelRequest(r)
      PROVE  V!WaitsForSomebody'
  <2>1. /\ V!Opened' = V!Opened /\ edited' = edited
        /\ \A x \in V!Opened \ {r} : requests'[x] = requests[x]
        /\ requests'[r].status = "cancelled"
    BY <1>5, Cancelling
  <2>2. Waits(requests'[r])
    BY <2>1 DEF Waits, V!OpenStatus
  <2>3. QED BY <2>1, <2>2, <1>w, <1>v
<1>6. QED BY <1>1, <1>2, <1>3, <1>4, <1>5 DEF V!Next

LEMMA ApprovalInv ==
  ASSUME V!ApprovalAssumption PROVE V!Spec => []LadderInv
<1>1. V!Init => LadderInv
  BY ApprovalInit
<1>2. LadderInv /\ [V!Next]_(V!vars) => LadderInv'
  BY ApprovalTypesStep, RejectionStep, FollowedStep, WaitsStep DEF LadderInv
<1>3. QED BY <1>1, <1>2, PTL DEF V!Spec

\* Policies, requests and their decisions keep their types.
THEOREM ApprovalTypes ==
  ASSUME V!ApprovalAssumption PROVE V!Spec => []V!TypeOK
<1>1. LadderInv => V!TypeOK
  BY DEF LadderInv
<1>2. QED BY <1>1, ApprovalInv, PTL

\* However policies are edited, a rejection is the last decision of its request, and
\* the request is rejected, or cancelled later.
THEOREM RejectionsAreFinal ==
  ASSUME V!ApprovalAssumption PROVE V!Spec => []V!RejectionIsLast
<1>1. LadderInv => V!RejectionIsLast
  BY DEF LadderInv
<1>2. QED BY <1>1, ApprovalInv, PTL

\* On any ladder, a request whose policy nobody edited is approved only with the
\* approvals each step that is not optional asks for, by people the steps name, and
\* without a rejection.
THEOREM ApprovalsAreEarned ==
  ASSUME V!ApprovalAssumption PROVE V!Spec => []V!ApprovedIsEarned
<1>1. ASSUME LadderInv PROVE V!ApprovedIsEarned
  <2>1. SUFFICES ASSUME NEW r \in V!Opened \ edited, requests[r].status = "approved"
                 PROVE  /\ \A s \in V!Elements(requests[r].ladder) \ Optional :
                              V!Cardinality(V!Approvals(r, s)) >= Needs[s]
                        /\ \A k \in DOMAIN requests[r].decisions :
                              /\ requests[r].decisions[k].approved
                              /\ requests[r].decisions[k].by
                                    \in MayDecide[requests[r].decisions[k].step]
    BY DEF V!ApprovedIsEarned
  <2>2. Climbed(requests[r]) /\ Named(requests[r]) /\ requests[r] \in V!RequestRows
    BY <1>1, <2>1 DEF LadderInv, Followed, V!TypeOK
  <2>3. /\ requests[r].index \in Nat /\ requests[r].ladder \in Seq(Rung)
        /\ requests[r].index >= Len(requests[r].ladder)
    BY <2>1, <2>2 DEF Climbed, V!RequestRows, V!ApprovalAssumption
  <2>4. ASSUME NEW s \in V!Elements(requests[r].ladder) \ Optional
        PROVE  V!Cardinality(V!Approvals(r, s)) >= Needs[s]
    <3>1. PICK i \in DOMAIN requests[r].ladder : s = requests[r].ladder[i]
      BY <2>4 DEF V!Elements
    <3>2. i \in 1 .. requests[r].index
      BY <2>3, <3>1
    <3>3. V!Passed(requests[r].decisions, s)
      BY <2>1, <2>2, <3>1, <3>2 DEF Climbed
    <3>4. QED BY <2>4, <3>3 DEF V!Passed, V!Complete, V!Approvals
  <2>5. \A k \in DOMAIN requests[r].decisions : requests[r].decisions[k].approved
    BY <1>1, <2>1 DEF LadderInv, V!RejectionIsLast
  <2>6. QED BY <2>2, <2>4, <2>5 DEF Named
<1>2. QED BY <1>1, ApprovalInv, PTL

\* An open request whose policy nobody edited waits at a step that asks for more,
\* or at its first one, which has not been looked at.
THEOREM OpenRequestsWait ==
  ASSUME V!ApprovalAssumption PROVE V!Spec => []V!WaitsForSomebody
<1>1. LadderInv => V!WaitsForSomebody
  BY DEF LadderInv
<1>2. QED BY <1>1, ApprovalInv, PTL

-----------------------------------------------------------------------------
(* The knowledge base: what one job makes of a post.                           *)

(* The knowledge base: a post is ingested once unless two jobs had it.     *)

\* What a job has in hand.
Todo(j) == job[j].todo

\* A post in the hands of two jobs is known to be shared; so is one in hand that
\* has a document already.
InHandOnce ==
    /\ \A i, j \in Job : i # j => Todo(i) \cap Todo(j) \subseteq twice
    /\ \A j \in Job : \A d \in docs : d.ref \in Todo(j) => d.ref \in twice

KnowledgeInv == K!TypeOK /\ InHandOnce /\ K!IngestedOnce

LEMMA KnowledgeInit ==
  ASSUME K!KnowledgeAssumption, K!Init PROVE KnowledgeInv
<1>1. K!TypeOK
  BY DEF K!KnowledgeAssumption, K!Init, K!TypeOK, K!Docs
<1>2. InHandOnce /\ K!IngestedOnce
  BY DEF K!Init, InHandOnce, K!IngestedOnce, Todo
<1>3. QED BY <1>1, <1>2 DEF KnowledgeInv

\* What add_document leaves: one more document, of a number not used before.
LEMMA OneMore ==
  ASSUME K!KnowledgeAssumption, K!TypeOK, NEW ref \in Posted \cup {"manual"}, NEW embeds \in BOOLEAN,
         K!AddDocument(ref, embeds)
  PROVE  /\ made' \in 0 .. MaxDocs
         /\ docs' \subseteq K!Docs
         /\ \E n : docs' = docs \cup {n} /\ n.ref = ref
<1>1. made' = made + 1 /\ made' \in 1 .. MaxDocs
  BY DEF K!AddDocument, K!TypeOK, K!KnowledgeAssumption
<1>2. PICK answered \in BOOLEAN :
        docs' = docs \cup {[no |-> made', ref |-> ref, embedded |-> embeds /\ answered]}
  BY DEF K!AddDocument
<1>3. (embeds /\ answered) \in BOOLEAN
  OBVIOUS
<1>4. [no |-> made', ref |-> ref, embedded |-> embeds /\ answered] \in K!Docs
  BY <1>1, <1>3 DEF K!Docs
<1>5. docs' \subseteq K!Docs
  BY <1>2, <1>4 DEF K!TypeOK
<1>6. [no |-> made', ref |-> ref, embedded |-> embeds /\ answered].ref = ref
  OBVIOUS
<1>7. \E n : docs' = docs \cup {n} /\ n.ref = ref
  BY <1>2, <1>6
<1>8. QED BY <1>1, <1>5, <1>7

LEMMA KnowledgeStep ==
  ASSUME K!KnowledgeAssumption, KnowledgeInv, [K!Next]_(K!vars) PROVE KnowledgeInv'
<1>1. CASE K!Measure
  <2>1. K!TypeOK'
    BY <1>1 DEF K!Measure, KnowledgeInv, K!TypeOK
  <2>2. InHandOnce' /\ K!IngestedOnce'
    BY <1>1 DEF K!Measure, KnowledgeInv, InHandOnce, K!IngestedOnce, Todo
  <2>3. QED BY <2>1, <2>2 DEF KnowledgeInv
\* The query leaves out what has a document and notes what others have in hand.
<1>2. ASSUME NEW j \in Job, K!StartIngest(j) PROVE KnowledgeInv'
  <2>1. PICK embeds \in BOOLEAN :
          job' = [job EXCEPT ![j] = [todo |-> K!Candidates, embeds |-> embeds]]
    BY <1>2 DEF K!StartIngest
  <2>2. K!Candidates \subseteq Posted /\ \A d \in docs : d.ref \notin K!Candidates
    BY DEF K!Candidates, KnowledgeInv, K!TypeOK
  <2>3. Todo(j)' = K!Candidates /\ \A i \in Job \ {j} : Todo(i)' = Todo(i)
    BY <2>1 DEF Todo, KnowledgeInv, K!TypeOK
  <2>4. twice \subseteq twice' /\ \A i \in Job : K!Candidates \cap Todo(i) \subseteq twice'
    BY <1>2 DEF K!StartIngest, Todo
  <2>5. docs' = docs
    BY <1>2 DEF K!StartIngest
  <2>6. K!TypeOK'
    BY <1>2, <2>1, <2>2 DEF K!StartIngest, KnowledgeInv, K!TypeOK
  <2>7. InHandOnce'
    <3>1. ASSUME NEW h \in Job, NEW i \in Job, h # i PROVE Todo(h)' \cap Todo(i)' \subseteq twice'
      BY <2>3, <2>4, <3>1 DEF KnowledgeInv, InHandOnce
    <3>2. ASSUME NEW i \in Job, NEW d \in docs', d.ref \in Todo(i)' PROVE d.ref \in twice'
      BY <2>2, <2>3, <2>4, <2>5, <3>2 DEF KnowledgeInv, InHandOnce
    <3>3. QED BY <3>1, <3>2 DEF InHandOnce
  <2>8. K!IngestedOnce'
    BY <2>4, <2>5 DEF KnowledgeInv, K!IngestedOnce
  <2>9. QED BY <2>6, <2>7, <2>8 DEF KnowledgeInv
\* A document of a post that another job also has, or that has one already, is of
\* a shared post.
<1>3. ASSUME NEW j \in Job, K!IngestOne(j) PROVE KnowledgeInv'
  <2>1. PICK p \in job[j].todo :
          /\ job' = [job EXCEPT ![j].todo = @ \ {p}]
          /\ K!AddDocument(p, job[j].embeds) \/ UNCHANGED <<docs, made>>
          /\ UNCHANGED <<top, adding, twice>>
    BY <1>3 DEF K!IngestOne
  <2>2. p \in Posted /\ job[j].embeds \in BOOLEAN
    BY DEF KnowledgeInv, K!TypeOK
  <2>3. Todo(j)' = Todo(j) \ {p} /\ \A i \in Job \ {j} : Todo(i)' = Todo(i)
    BY <2>1 DEF Todo, KnowledgeInv, K!TypeOK
  <2>4. job' \in [Job -> [todo : SUBSET Posted, embeds : BOOLEAN]]
    BY <2>1 DEF KnowledgeInv, K!TypeOK
  <2>5. CASE UNCHANGED <<docs, made>>
    <3>1. K!TypeOK'
      BY <2>1, <2>4, <2>5 DEF KnowledgeInv, K!TypeOK
    <3>2. InHandOnce' /\ K!IngestedOnce'
      BY <2>1, <2>3, <2>5 DEF KnowledgeInv, InHandOnce, K!IngestedOnce
    <3>3. QED BY <3>1, <3>2 DEF KnowledgeInv
  <2>6. CASE K!AddDocument(p, job[j].embeds)
    <3>1. /\ made' \in 0 .. MaxDocs /\ docs' \subseteq K!Docs
          /\ \E n : docs' = docs \cup {n} /\ n.ref = p
      BY <2>2, <2>6, OneMore DEF KnowledgeInv
    <3>2. PICK n : docs' = docs \cup {n} /\ n.ref = p
      BY <3>1
    <3>3. K!TypeOK'
      BY <2>1, <2>4, <3>1 DEF KnowledgeInv, K!TypeOK
    <3>4. p \in Todo(j)
      BY DEF Todo
    <3>5. InHandOnce'
      <4>1. ASSUME NEW h \in Job, NEW i \in Job, h # i
            PROVE  Todo(h)' \cap Todo(i)' \subseteq twice'
        BY <2>1, <2>3, <4>1 DEF KnowledgeInv, InHandOnce
      <4>2. ASSUME NEW i \in Job, NEW d \in docs', d.ref \in Todo(i)' PROVE d.ref \in twice'
        BY <2>1, <2>3, <3>2, <3>4, <4>2 DEF KnowledgeInv, InHandOnce
      <4>3. QED BY <4>1, <4>2 DEF InHandOnce
    <3>6. K!IngestedOnce'
      BY <2>1, <3>2, <3>4 DEF KnowledgeInv, InHandOnce, K!IngestedOnce
    <3>7. QED BY <3>3, <3>5, <3>6 DEF KnowledgeInv
  <2>7. QED BY <2>1, <2>5, <2>6
<1>4. ASSUME NEW j \in Job, K!IngestStops(j) PROVE KnowledgeInv'
  <2>1. Todo(j)' = {} /\ \A i \in Job \ {j} : Todo(i)' = Todo(i)
    BY <1>4 DEF K!IngestStops, Todo, KnowledgeInv, K!TypeOK
  <2>2. K!TypeOK'
    BY <1>4 DEF K!IngestStops, KnowledgeInv, K!TypeOK
  <2>3. InHandOnce' /\ K!IngestedOnce'
    BY <1>4, <2>1 DEF K!IngestStops, KnowledgeInv, InHandOnce, K!IngestedOnce
  <2>4. QED BY <2>2, <2>3 DEF KnowledgeInv
<1>5. ASSUME NEW u \in User, K!Request(u) PROVE KnowledgeInv'
  <2>1. K!TypeOK'
    BY <1>5 DEF K!Request, KnowledgeInv, K!TypeOK
  <2>2. InHandOnce' /\ K!IngestedOnce'
    BY <1>5 DEF K!Request, KnowledgeInv, InHandOnce, K!IngestedOnce, Todo
  <2>3. QED BY <2>1, <2>2 DEF KnowledgeInv
\* A user's document is of no post.
<1>6. ASSUME NEW u \in User, K!UserAdds(u) PROVE KnowledgeInv'
  <2>1. (adding[u] = "embedding") \in BOOLEAN
    OBVIOUS
  <2>2. /\ made' \in 0 .. MaxDocs /\ docs' \subseteq K!Docs
        /\ \E n : docs' = docs \cup {n} /\ n.ref = "manual"
    BY <1>6, <2>1, OneMore DEF K!UserAdds, KnowledgeInv
  <2>3. PICK n : docs' = docs \cup {n} /\ n.ref = "manual"
    BY <2>2
  <2>4. K!TypeOK'
    BY <1>6, <2>2 DEF K!UserAdds, KnowledgeInv, K!TypeOK
  <2>5. \A i \in Job : "manual" \notin Todo(i)
    BY DEF Todo, KnowledgeInv, K!TypeOK, K!KnowledgeAssumption
  <2>6. job' = job /\ twice' = twice
    BY <1>6 DEF K!UserAdds
  <2>7. InHandOnce'
    BY <2>3, <2>5, <2>6 DEF KnowledgeInv, InHandOnce, Todo
  <2>8. K!IngestedOnce'
    BY <2>3, <2>6 DEF KnowledgeInv, K!IngestedOnce
  <2>9. QED BY <2>4, <2>7, <2>8 DEF KnowledgeInv
<1>7. ASSUME NEW d \in docs, K!UserDeletes(d) PROVE KnowledgeInv'
  <2>1. K!TypeOK'
    BY <1>7 DEF K!UserDeletes, KnowledgeInv, K!TypeOK
  <2>2. InHandOnce' /\ K!IngestedOnce'
    BY <1>7 DEF K!UserDeletes, KnowledgeInv, InHandOnce, K!IngestedOnce, Todo
  <2>3. QED BY <2>1, <2>2 DEF KnowledgeInv
<1>8. CASE UNCHANGED (K!vars)
  BY <1>8 DEF K!vars, KnowledgeInv, K!TypeOK, InHandOnce, K!IngestedOnce, Todo
<1>9. QED BY <1>1, <1>2, <1>3, <1>4, <1>5, <1>6, <1>7, <1>8 DEF K!Next

LEMMA KnowledgeInvariant ==
  ASSUME K!KnowledgeAssumption PROVE K!Spec => []KnowledgeInv
<1>1. K!Init => KnowledgeInv BY KnowledgeInit
<1>2. KnowledgeInv /\ [K!Next]_(K!vars) => KnowledgeInv' BY KnowledgeStep
<1>3. QED BY <1>1, <1>2, PTL DEF K!Spec

\* The documents and the jobs keep their types.
THEOREM KnowledgeTypes ==
  ASSUME K!KnowledgeAssumption PROVE K!Spec => []K!TypeOK
<1>1. KnowledgeInv => K!TypeOK BY DEF KnowledgeInv
<1>2. QED BY <1>1, KnowledgeInvariant, PTL

\* knowledge.auto_ingest: two documents of one post exist only if two jobs had the
\* post in hand at the same time, whatever fails, stops or is deleted between.
THEOREM PostsAreIngestedOnce ==
  ASSUME K!KnowledgeAssumption PROVE K!Spec => []K!IngestedOnce
<1>1. KnowledgeInv => K!IngestedOnce BY DEF KnowledgeInv
<1>2. QED BY <1>1, KnowledgeInvariant, PTL

-----------------------------------------------------------------------------
(* Engagement: rows told from snapshots that grow.                             *)

\* What reactions are worth on a platform.
Worth(site) == Cardinality(E!Filled[site] \cap E!Weighted(site))
Silent == {"facebook", "pinterest", "mastodon", "telegram"}

LEMMA ColumnsAreFinite == IsFiniteSet(E!Columns)
<1>1. IsFiniteSet({})
  BY FS_EmptySet
<1>2. IsFiniteSet({"likes"})
  BY FS_Singleton
<1>3. IsFiniteSet({"likes"} \cup {"comments"})
  BY <1>2, FS_AddElement
<1>4. IsFiniteSet({"likes"} \cup {"comments"} \cup {"shares"})
  BY <1>3, FS_AddElement
<1>5. IsFiniteSet({"likes"} \cup {"comments"} \cup {"shares"} \cup {"impressions"})
  BY <1>4, FS_AddElement
<1>6. IsFiniteSet({"likes"} \cup {"comments"} \cup {"shares"} \cup {"impressions"} \cup {"reach"})
  BY <1>5, FS_AddElement
<1>7. IsFiniteSet({"likes"} \cup {"comments"} \cup {"shares"} \cup {"impressions"} \cup {"reach"}
                  \cup {"clicks"})
  BY <1>6, FS_AddElement
<1>8. IsFiniteSet({"likes"} \cup {"comments"} \cup {"shares"} \cup {"impressions"} \cup {"reach"}
                  \cup {"clicks"} \cup {"saves"})
  BY <1>7, FS_AddElement
<1>9. E!Columns = {"likes"} \cup {"comments"} \cup {"shares"} \cup {"impressions"} \cup {"reach"}
                \cup {"clicks"} \cup {"saves"}
  BY DEF E!Columns
<1>10. QED BY <1>8, <1>9

\* The sizes of sets are what they are in every module.
LEMMA PostSizes ==
  ASSUME NEW U PROVE E!Cardinality(U) = Cardinality(U)
  BY Zenon DEF E!Cardinality, Cardinality

LEMMA WorthIsNatural ==
  ASSUME NEW site \in DOMAIN E!Filled
  PROVE  Worth(site) \in Nat /\ (site \notin Silent => Worth(site) > 0)
<1> DEFINE Both == E!Filled[site] \cap E!Weighted(site)
<1>1. E!Weighted(site) \subseteq E!Columns
  BY DEF E!Weighted, E!Columns
<1>2. IsFiniteSet(Both)
  <2>1. Both \subseteq E!Columns
    BY <1>1
  <2> HIDE DEF Both
  <2>2. QED BY <2>1, ColumnsAreFinite, FS_Subset
<1>3. Cardinality(Both) \in Nat /\ (Cardinality(Both) = 0 => Both = {})
  <2> HIDE DEF Both
  <2>1. QED BY <1>2, FS_CardinalityType, FS_EmptySet
<1>4. ASSUME site \notin Silent PROVE "likes" \in Both
  <2>1. site \in {"twitter", "instagram", "linkedin", "youtube", "threads"}
    BY <1>4 DEF E!Filled, Silent
  <2>2. "likes" \in E!Filled[site]
    BY <2>1 DEF E!Filled, E!TwitterMetrics, E!InstagramMetrics, E!LinkedInMetrics, E!YouTubeMetrics, E!ThreadsMetrics
  <2>3. "likes" \in E!Weighted(site)
    BY <2>1 DEF E!Weighted
  <2>4. QED BY <2>2, <2>3
<1>5. Worth(site) = Cardinality(Both)
  BY DEF Worth
<1> HIDE DEF Both
<1>6. QED BY <1>3, <1>4, <1>5

LEMMA ProductsGrow ==
  ASSUME NEW m \in Nat, NEW n \in Nat, NEW w \in Nat, m <= n
  PROVE  m * w <= n * w /\ m * w \in Nat /\ (n > 0 /\ w > 0 => n * w > 0)
  OBVIOUS

\* Fewer columns are worth no more.
LEMMA PartsAreWorthLess ==
  ASSUME NEW site \in DOMAIN E!Filled, NEW cols, cols \subseteq E!Filled[site]
  PROVE  /\ E!Cardinality(cols \cap E!Weighted(site)) \in Nat
         /\ E!Cardinality(cols \cap E!Weighted(site)) <= Worth(site)
<1> DEFINE Both == E!Filled[site] \cap E!Weighted(site)
           Some == cols \cap E!Weighted(site)
<1>1. E!Weighted(site) \subseteq E!Columns
  BY DEF E!Weighted, E!Columns
<1>2. Both \subseteq E!Columns /\ Some \subseteq Both
  BY <1>1
<1>3. Worth(site) = Cardinality(Both) /\ E!Cardinality(Some) = Cardinality(Some)
  BY PostSizes DEF Worth
<1> HIDE DEF Both, Some
<1>4. IsFiniteSet(Both)
  BY <1>2, ColumnsAreFinite, FS_Subset
<1>5. IsFiniteSet(Some) /\ Cardinality(Some) <= Cardinality(Both)
  BY <1>2, <1>4, FS_Subset
<1>6. Cardinality(Some) \in Nat
  BY <1>5, FS_CardinalityType
<1>7. E!Cardinality(Some) \in Nat /\ E!Cardinality(Some) <= Worth(site)
  BY <1>3, <1>5, <1>6
<1>8. QED BY <1>7 DEF Some

\* A snapshot has the columns of its platform's answer, or fewer.
Answered(s) == s.filled \subseteq E!Filled[PlatformOf[s.post]]

LEMMA Scored ==
  ASSUME E!EngagementAssumption, NEW s \in E!Shots, Answered(s)
  PROVE  /\ Worth(PlatformOf[s.post]) \in Nat /\ s.count \in Nat /\ E!Score(s) \in Nat
         /\ E!Score(s) <= s.count * Worth(PlatformOf[s.post])
         /\ E!Complete(s) => E!Score(s) = s.count * Worth(PlatformOf[s.post])
         /\ PlatformOf[s.post] \notin Silent => Worth(PlatformOf[s.post]) > 0
<1>1. s.post \in Posted /\ s.count \in Nat
  BY DEF E!Shots, E!EngagementAssumption
<1>2. PlatformOf[s.post] \in DOMAIN E!Filled
  BY <1>1 DEF E!EngagementAssumption
<1>3. /\ Worth(PlatformOf[s.post]) \in Nat
      /\ PlatformOf[s.post] \notin Silent => Worth(PlatformOf[s.post]) > 0
  BY <1>2, WorthIsNatural
<1>4. PICK n : n = E!Cardinality(s.filled \cap E!Weighted(PlatformOf[s.post]))
  OBVIOUS
<1>5. n \in Nat /\ n <= Worth(PlatformOf[s.post]) /\ E!Score(s) = s.count * n
  <2>1. E!Score(s) = s.count * n
    BY <1>4 DEF E!Score
  <2>2. QED BY <1>2, <1>4, <2>1, PartsAreWorthLess DEF Answered
<1>6. E!Complete(s) => n = Worth(PlatformOf[s.post])
  BY <1>4, PostSizes DEF E!Complete, Worth
<1>7. s.count * n <= s.count * Worth(PlatformOf[s.post]) /\ s.count * n \in Nat
  BY <1>1, <1>3, <1>5, ProductsGrow
<1>8. QED BY <1>1, <1>3, <1>5, <1>6, <1>7

\* Reactions ever had, the ones taken back included, only grow, and so do the ones
\* taken back; a snapshot has the numbers of its time.
Ever(s) == s.count + s.undone
ShotsGrow ==
    /\ \A k \in DOMAIN shots :
          /\ Answered(shots[k]) /\ shots[k].undone <= undone[shots[k].post]
          /\ Ever(shots[k]) <= real[shots[k].post] + undone[shots[k].post]
    /\ \A j, k \in DOMAIN shots :
          j <= k /\ shots[j].post = shots[k].post
          => shots[j].undone <= shots[k].undone /\ Ever(shots[j]) <= Ever(shots[k])

\* Snapshot k is the newest one of the row's post that the row has seen.
Seen(r, k) == /\ k \in 1 .. r.upto /\ shots[k].post = r.post
              /\ \A j \in 1 .. r.upto : shots[j].post = r.post => j <= k
\* A row scores the newest snapshot it has seen.
Told(r) == /\ r.upto <= Len(shots)
           /\ \E k \in 1 .. r.upto : Seen(r, k) /\ r.score = E!Score(shots[k])
RowsTold == /\ \A r \in rollup : Told(r)
            /\ \A a \in Aggregate : \A r \in agg[a].rows : Told(r)

EngagementInv == E!TypeOK /\ ShotsGrow /\ RowsTold

LEMMA EngagementInit ==
  ASSUME E!EngagementAssumption, E!Init PROVE EngagementInv
<1>1. MaxReal \in Nat /\ MaxUndone \in Nat /\ MaxShots \in Nat /\ MaxRounds \in Nat
  BY DEF E!EngagementAssumption
<1>2. /\ real = [p \in Posted |-> -1] /\ undone = [p \in Posted |-> 0]
      /\ shots = <<>> /\ rollup = {} /\ rounds = 0
      /\ agg = [a \in Aggregate |-> [on |-> FALSE, rows |-> {}]]
  BY DEF E!Init
<1>3. real \in [Posted -> -1 .. MaxReal] /\ undone \in [Posted -> 0 .. MaxUndone]
  BY <1>1, <1>2
<1>4. shots \in Seq(E!Shots) /\ Len(shots) = 0 /\ DOMAIN shots = {}
  BY <1>2
<1>5. agg \in [Aggregate -> [on : BOOLEAN, rows : SUBSET E!Rows]]
  BY <1>2
<1>6. rollup \subseteq E!Rows /\ rounds \in 0 .. MaxRounds
  BY <1>1, <1>2
<1>7. \A a \in Aggregate : agg[a].rows = {}
  BY <1>2
<1>8. E!TypeOK
  BY <1>1, <1>3, <1>4, <1>5, <1>6 DEF E!TypeOK
<1>9. QED BY <1>2, <1>4, <1>7, <1>8 DEF EngagementInv, ShotsGrow, RowsTold

\* A reaction leaves the snapshots as they are, and fewer of them only when it is
\* taken back.
LEMMA ReactKeeps ==
  ASSUME E!EngagementAssumption, EngagementInv, NEW p \in Posted, E!React(p) \/ E!Unreact(p)
  PROVE  EngagementInv'
<1>1. UNCHANGED <<shots, agg, rollup, rounds>>
  BY DEF E!React, E!Unreact
<1>2. /\ real \in [Posted -> -1 .. MaxReal] /\ MaxReal \in Nat /\ shots \in Seq(E!Shots)
      /\ undone \in [Posted -> 0 .. MaxUndone] /\ MaxUndone \in Nat
      /\ \A k \in DOMAIN shots : shots[k] \in E!Shots
  BY DEF EngagementInv, E!TypeOK, E!EngagementAssumption
<1>3. /\ real' \in [Posted -> -1 .. MaxReal] /\ undone' \in [Posted -> 0 .. MaxUndone]
      /\ \A q \in Posted :
            /\ real[q] \in Int /\ real'[q] \in Int /\ undone[q] \in Nat /\ undone'[q] \in Nat
            /\ undone[q] <= undone'[q] /\ real[q] + undone[q] <= real'[q] + undone'[q]
  <2>1. CASE E!React(p)
    <3>1. real[p] < MaxReal /\ real' = [real EXCEPT ![p] = @ + 1] /\ undone' = undone
      BY <2>1 DEF E!React
    <3>2. QED BY <1>2, <3>1
  <2>2. CASE E!Unreact(p)
    <3>1. /\ real[p] > 0 /\ real' = [real EXCEPT ![p] = @ - 1]
          /\ undone[p] < MaxUndone /\ undone' = [undone EXCEPT ![p] = @ + 1]
      BY <2>2 DEF E!Unreact
    <3>2. QED BY <1>2, <3>1
  <2>3. QED BY <2>1, <2>2
<1>4. E!TypeOK'
  BY <1>1, <1>3 DEF EngagementInv, E!TypeOK
<1>5. ShotsGrow'
  <2>1. ASSUME NEW k \in DOMAIN shots
        PROVE  /\ shots[k].undone <= undone'[shots[k].post]
               /\ Ever(shots[k]) <= real'[shots[k].post] + undone'[shots[k].post]
    <3>1. shots[k].post \in Posted /\ shots[k].count \in Nat /\ shots[k].undone \in Nat
      BY <1>2 DEF E!Shots
    <3>2. QED BY <1>3, <3>1 DEF EngagementInv, ShotsGrow, Ever
  <2>2. QED BY <1>1, <2>1 DEF EngagementInv, ShotsGrow, Ever, Answered
<1>6. RowsTold'
  BY <1>1 DEF EngagementInv, RowsTold, Told, Seen, E!Score
<1>7. QED BY <1>4, <1>5, <1>6 DEF EngagementInv

\* The new snapshot has all the reactions its post has ever had.
LEMMA FetchKeeps ==
  ASSUME E!EngagementAssumption, EngagementInv, NEW p \in Posted, E!FetchForPost(p) PROVE EngagementInv'
<1>1. /\ real[p] # -1 /\ Len(shots) < MaxShots /\ UNCHANGED <<real, undone, agg, rollup, rounds>>
  BY DEF E!FetchForPost
<1>2. PICK shot \in E!AdapterFetch(p) : shots' = Append(shots, shot)
  BY DEF E!FetchForPost
<1>3. /\ real \in [Posted -> -1 .. MaxReal] /\ MaxReal \in Nat /\ MaxShots \in Nat
      /\ undone \in [Posted -> 0 .. MaxUndone] /\ MaxUndone \in Nat
      /\ shots \in Seq(E!Shots) /\ Len(shots) \in Nat
      /\ DOMAIN shots = 1 .. Len(shots) /\ \A k \in DOMAIN shots : shots[k] \in E!Shots
  BY DEF EngagementInv, E!TypeOK, E!EngagementAssumption
<1>4. real[p] \in 0 .. MaxReal /\ undone[p] \in 0 .. MaxUndone
  BY <1>1, <1>3
<1>5. /\ shot.post = p /\ shot.count = real[p] /\ shot.undone = undone[p]
      /\ shot \in E!Shots /\ Answered(shot)
  <2>1. PICK cols \in E!Answers(PlatformOf[p]) :
           shot = [post |-> p, filled |-> cols, count |-> real[p], undone |-> undone[p]]
    BY <1>2 DEF E!AdapterFetch
  <2>2. cols \subseteq E!Filled[PlatformOf[p]] /\ cols \subseteq E!Columns
    <3>1. PlatformOf[p] \in DOMAIN E!Filled
      BY DEF E!EngagementAssumption
    <3>2. E!Filled[PlatformOf[p]] \subseteq E!Columns
      BY <3>1 DEF E!Filled, E!Columns, E!TwitterMetrics, E!InstagramMetrics, E!LinkedInMetrics,
                  E!YouTubeMetrics, E!ThreadsMetrics, E!FacebookMetrics, E!PinterestMetrics,
                  E!MastodonMetrics, E!OtherMetrics
    <3>3. E!Filled["instagram"] = E!InstagramMetrics
      BY DEF E!Filled
    <3>4. cols \subseteq E!Filled[PlatformOf[p]]
      BY <2>1, <3>3 DEF E!Answers, E!InstagramMetrics
    <3>5. QED BY <3>2, <3>4
  <2>3. shot \in E!Shots
    BY <1>4, <2>1, <2>2 DEF E!Shots
  <2>4. QED BY <2>1, <2>2, <2>3 DEF Answered
<1>6. PICK n \in Nat : n = Len(shots) + 1
  BY <1>3
<1>7. /\ shots' \in Seq(E!Shots) /\ Len(shots') = n /\ DOMAIN shots' = DOMAIN shots \cup {n}
      /\ shots'[n] = shot /\ \A k \in DOMAIN shots : shots'[k] = shots[k] /\ k < n
      /\ n \notin DOMAIN shots
  BY <1>2, <1>3, <1>5, <1>6
<1>8. E!TypeOK'
  BY <1>1, <1>3, <1>6, <1>7 DEF EngagementInv, E!TypeOK
<1>9. ShotsGrow'
  <2>1. \A k \in DOMAIN shots' :
           /\ Answered(shots'[k]) /\ shots'[k].undone <= undone[shots'[k].post]
           /\ Ever(shots'[k]) <= real[shots'[k].post] + undone[shots'[k].post]
    <3>1. shot.undone <= undone[p] /\ Ever(shot) <= real[p] + undone[p]
      BY <1>4, <1>5 DEF Ever
    <3>2. QED BY <1>5, <1>7, <3>1 DEF EngagementInv, ShotsGrow
  <2>2. ASSUME NEW j \in DOMAIN shots', NEW k \in DOMAIN shots', j <= k,
               shots'[j].post = shots'[k].post
        PROVE  shots'[j].undone <= shots'[k].undone /\ Ever(shots'[j]) <= Ever(shots'[k])
    <3>1. CASE k = n
      <4>1. shots'[k].undone = undone[p] /\ Ever(shots'[k]) = real[p] + undone[p] /\ shots'[k].post = p
        BY <1>5, <1>7, <2>2, <3>1 DEF Ever
      <4>2. QED BY <2>1, <2>2, <4>1
    <3>2. CASE k \in DOMAIN shots
      <4>1. j \in DOMAIN shots
        BY <1>3, <1>6, <1>7, <2>2, <3>2
      <4>2. QED BY <1>7, <2>2, <3>2, <4>1 DEF EngagementInv, ShotsGrow
    <3>3. QED BY <1>7, <3>1, <3>2
  <2>3. QED BY <1>1, <2>1, <2>2 DEF ShotsGrow, Answered, Ever
<1>10. ASSUME NEW r \in E!Rows, Told(r) PROVE Told(r)'
  <2>1. r.upto \in Nat /\ r.upto <= Len(shots)
    BY <1>3, <1>10 DEF E!Rows, Told
  <2>2. \A k \in 1 .. r.upto : k \in DOMAIN shots /\ shots'[k] = shots[k]
    BY <1>3, <1>7, <2>1
  <2>3. PICK k \in 1 .. r.upto : Seen(r, k) /\ r.score = E!Score(shots[k])
    BY <1>10 DEF Told
  <2>4. Seen(r, k)'
    BY <2>2, <2>3 DEF Seen
  <2>5. r.score = E!Score(shots'[k]) /\ r.upto <= Len(shots')
    BY <1>3, <1>6, <1>7, <2>1, <2>2, <2>3
  <2>6. QED BY <2>3, <2>4, <2>5 DEF Told, E!Score
<1>11. RowsTold'
  <2>1. rollup \subseteq E!Rows /\ \A a \in Aggregate : agg[a].rows \subseteq E!Rows
    BY DEF EngagementInv, E!TypeOK
  <2>2. QED BY <1>1, <1>10, <2>1 DEF EngagementInv, RowsTold
<1>12. QED BY <1>8, <1>9, <1>11 DEF EngagementInv

\* A job scores the latest snapshot of each post.
LEMMA ReadKeeps ==
  ASSUME E!EngagementAssumption, EngagementInv, NEW a \in Aggregate, E!AggregateRead(a) PROVE EngagementInv'
<1> DEFINE found == UNION {{[post |-> p, score |-> E!Score(shots[k]), upto |-> Len(shots)] :
                             k \in E!Latest(p)} : p \in {q \in Posted : shots # <<>>}}
<1>1. /\ rounds < MaxRounds /\ rounds' = rounds + 1
      /\ agg' = [agg EXCEPT ![a] = [on |-> TRUE, rows |-> found]]
      /\ UNCHANGED <<real, undone, shots, rollup>>
  BY DEF E!AggregateRead
<1>2. /\ shots \in Seq(E!Shots) /\ Len(shots) \in 0 .. MaxShots /\ MaxShots \in Nat /\ MaxRounds \in Nat
      /\ DOMAIN shots = 1 .. Len(shots) /\ \A k \in DOMAIN shots : shots[k] \in E!Shots
      /\ rounds \in 0 .. MaxRounds /\ agg \in [Aggregate -> [on : BOOLEAN, rows : SUBSET E!Rows]]
  BY DEF EngagementInv, E!TypeOK, E!EngagementAssumption
<1>3. ASSUME NEW r \in found PROVE r \in E!Rows /\ Told(r)
  <2>0. PICK p \in Posted : r \in {[post |-> p, score |-> E!Score(shots[k]), upto |-> Len(shots)] :
                                   k \in E!Latest(p)}
    BY <1>3
  <2>1. PICK k \in E!Latest(p) : r = [post |-> p, score |-> E!Score(shots[k]), upto |-> Len(shots)]
    BY <2>0
  <2>2. /\ k \in DOMAIN shots /\ shots[k].post = p
        /\ \A j \in DOMAIN shots : shots[j].post = p => j <= k
    BY <2>1 DEF E!Latest
  <2>3. r.post = p /\ r.score = E!Score(shots[k]) /\ r.upto = Len(shots)
    BY <2>1
  <2>4. E!Score(shots[k]) \in Nat
    BY <1>2, <2>2, Scored DEF EngagementInv, ShotsGrow
  <2>5. r \in E!Rows
    BY <1>2, <2>1, <2>4 DEF E!Rows
  <2>6. Seen(r, k)
    BY <1>2, <2>2, <2>3 DEF Seen
  <2>7. QED BY <1>2, <2>2, <2>3, <2>5, <2>6 DEF Told
<1> HIDE DEF found
<1>4. agg' \in [Aggregate -> [on : BOOLEAN, rows : SUBSET E!Rows]]
  BY <1>1, <1>2, <1>3
<1>5. E!TypeOK'
  BY <1>1, <1>2, <1>4 DEF EngagementInv, E!TypeOK
<1>6. ShotsGrow'
  BY <1>1 DEF EngagementInv, ShotsGrow, Ever, Answered
<1>7. \A b \in Aggregate : agg'[b].rows = IF b = a THEN found ELSE agg[b].rows
  BY <1>1, <1>2
<1>8. ASSUME NEW r, Told(r) PROVE Told(r)'
  BY <1>1, <1>8 DEF Told, Seen, E!Score
<1>9. RowsTold'
  BY <1>1, <1>3, <1>7, <1>8 DEF EngagementInv, RowsTold
<1>10. QED BY <1>5, <1>6, <1>9 DEF EngagementInv

LEMMA WriteKeeps ==
  ASSUME E!EngagementAssumption, EngagementInv, NEW a \in Aggregate, E!AggregateWrite(a) \/ E!AggregateFails(a)
  PROVE  EngagementInv'
<1>1. /\ agg' = [agg EXCEPT ![a] = [on |-> FALSE, rows |-> {}]]
      /\ rollup' = rollup \/ rollup' = rollup \cup agg[a].rows
      /\ UNCHANGED <<real, undone, shots, rounds>>
  BY DEF E!AggregateWrite, E!AggregateFails
<1>2. agg \in [Aggregate -> [on : BOOLEAN, rows : SUBSET E!Rows]] /\ rollup \subseteq E!Rows
  BY DEF EngagementInv, E!TypeOK
<1>3. /\ agg' \in [Aggregate -> [on : BOOLEAN, rows : SUBSET E!Rows]] /\ rollup' \subseteq E!Rows
      /\ \A b \in Aggregate : agg'[b].rows \subseteq agg[b].rows
  BY <1>1, <1>2
<1>4. E!TypeOK' /\ ShotsGrow'
  BY <1>1, <1>3 DEF EngagementInv, E!TypeOK, ShotsGrow, Ever, Answered
<1>5. ASSUME NEW r, Told(r) PROVE Told(r)'
  BY <1>1, <1>5 DEF Told, Seen, E!Score
<1>6. RowsTold'
  BY <1>1, <1>3, <1>5 DEF EngagementInv, RowsTold
<1>7. QED BY <1>4, <1>6 DEF EngagementInv

LEMMA EngagementStep ==
  ASSUME E!EngagementAssumption, EngagementInv, [E!Next]_(E!vars) PROVE EngagementInv'
<1>1. CASE UNCHANGED E!vars
  BY <1>1 DEF E!vars, EngagementInv, E!TypeOK, ShotsGrow, Ever, Answered, RowsTold, Told, Seen, E!Score
<1>2. ASSUME NEW p \in Posted, E!React(p) \/ E!Unreact(p) \/ E!FetchForPost(p) PROVE EngagementInv'
  BY <1>2, ReactKeeps, FetchKeeps
<1>3. ASSUME NEW a \in Aggregate, E!AggregateRead(a) \/ E!AggregateWrite(a) \/ E!AggregateFails(a)
      PROVE  EngagementInv'
  BY <1>3, ReadKeeps, WriteKeeps
<1>4. QED BY <1>1, <1>2, <1>3 DEF E!Next

\* The snapshot a row scores is the newest of its post that it has seen.
LEMMA NewestIsSeen ==
  ASSUME EngagementInv, NEW r \in rollup, NEW k, Seen(r, k) PROVE E!Newest(r) = shots[k]
<1> DEFINE U == {j \in 1 .. r.upto : shots[j].post = r.post}
<1>1. r.upto \in Nat
  BY DEF EngagementInv, E!TypeOK, E!Rows
<1>2. k \in U /\ \A j \in U : k >= j
  BY <1>1 DEF Seen
<1>3. U \subseteq Int
  BY <1>1
<1>4. E!Newest(r) = shots[E!Max(U)]
  BY DEF E!Newest
<1> HIDE DEF U
<1>5. E!Max(U) \in U /\ \A j \in U : E!Max(U) >= j
  BY <1>2, Zenon DEF E!Max
<1>6. E!Max(U) = k
  <2>1. k \in Int /\ E!Max(U) \in Int /\ k >= E!Max(U) /\ E!Max(U) >= k
    BY <1>2, <1>3, <1>5
  <2>2. QED BY <2>1
<1>7. QED BY <1>4, <1>6

\* A snapshot that is seen later has the greater score, if it is complete and none
\* of the reactions were taken back.
LEMMA ScoresFall ==
  ASSUME E!EngagementAssumption, EngagementInv PROVE E!ScoresFallByFailure
<1>1. SUFFICES ASSUME NEW r \in rollup, NEW s \in rollup, r.post = s.post, r.upto <= s.upto,
                      s.score < r.score, E!Complete(E!Newest(s)),
                      ~ (E!Newest(r).undone < E!Newest(s).undone)
               PROVE  FALSE
  BY DEF E!ScoresFallByFailure
<1>2. /\ r.upto \in Nat /\ s.upto \in Nat /\ r.upto <= Len(shots) /\ s.upto <= Len(shots)
      /\ DOMAIN shots = 1 .. Len(shots) /\ Len(shots) \in Nat
      /\ \A k \in DOMAIN shots : shots[k] \in E!Shots /\ Answered(shots[k])
  BY DEF EngagementInv, E!TypeOK, ShotsGrow, RowsTold, Told, E!Rows
<1>3. PICK k \in 1 .. r.upto : Seen(r, k) /\ r.score = E!Score(shots[k])
  BY DEF EngagementInv, RowsTold, Told
<1>4. PICK m \in 1 .. s.upto : Seen(s, m) /\ s.score = E!Score(shots[m])
  BY DEF EngagementInv, RowsTold, Told
<1>5. /\ k \in DOMAIN shots /\ m \in DOMAIN shots /\ shots[k].post = r.post /\ shots[m].post = r.post
      /\ k \in Nat /\ m \in Nat /\ k <= m
  BY <1>1, <1>2, <1>3, <1>4 DEF Seen
<1>6. E!Complete(shots[m]) /\ ~ (shots[k].undone < shots[m].undone)
  BY <1>1, <1>3, <1>4, NewestIsSeen
<1>7. /\ shots[k].undone <= shots[m].undone /\ Ever(shots[k]) <= Ever(shots[m])
      /\ shots[k].undone \in Nat /\ shots[m].undone \in Nat
      /\ shots[k].count \in Nat /\ shots[m].count \in Nat
  BY <1>2, <1>5 DEF EngagementInv, ShotsGrow, E!Shots
<1>8. shots[k].count <= shots[m].count
  BY <1>6, <1>7 DEF Ever
<1>9. PICK w \in Nat : w = Worth(PlatformOf[r.post])
  BY <1>2, <1>5, Scored
<1>10. /\ E!Score(shots[k]) <= shots[k].count * w /\ E!Score(shots[k]) \in Nat
       /\ E!Score(shots[m]) = shots[m].count * w
  BY <1>2, <1>5, <1>6, <1>9, Scored
<1>11. /\ shots[k].count * w <= shots[m].count * w /\ shots[k].count * w \in Nat
       /\ shots[m].count * w \in Nat
  BY <1>7, <1>8, ProductsGrow
<1>12. QED BY <1>1, <1>3, <1>4, <1>10, <1>11

LEMMA ReactionsScore ==
  ASSUME E!EngagementAssumption, EngagementInv PROVE E!ReactionsCount
<1>1. SUFFICES ASSUME NEW r \in rollup, E!Complete(E!Newest(r)), E!Newest(r).count > 0,
                      PlatformOf[r.post] \notin Silent
               PROVE  r.score > 0
  BY DEF E!ReactionsCount, Silent
<1>2. /\ r.upto \in Nat /\ r.upto <= Len(shots)
      /\ DOMAIN shots = 1 .. Len(shots) /\ Len(shots) \in Nat
      /\ \A j \in DOMAIN shots : shots[j] \in E!Shots /\ Answered(shots[j])
  BY DEF EngagementInv, E!TypeOK, ShotsGrow, RowsTold, Told, E!Rows
<1>3. PICK m \in 1 .. r.upto : Seen(r, m) /\ r.score = E!Score(shots[m])
  BY DEF EngagementInv, RowsTold, Told
<1>4. m \in DOMAIN shots /\ shots[m].post = r.post /\ E!Complete(shots[m]) /\ shots[m].count > 0
  BY <1>1, <1>2, <1>3, NewestIsSeen DEF Seen
<1>5. PICK w \in Nat : w = Worth(PlatformOf[r.post]) /\ w > 0
  BY <1>1, <1>2, <1>4, Scored
<1>6. E!Score(shots[m]) = shots[m].count * w /\ shots[m].count \in Nat
  BY <1>2, <1>4, <1>5, Scored
<1>7. shots[m].count * w > 0
  BY <1>4, <1>5, <1>6, ProductsGrow
<1>8. QED BY <1>3, <1>6, <1>7

LEMMA BestIsTrue ==
  ASSUME EngagementInv PROVE E!BestWasTrue
<1>1. ASSUME NEW r \in E!Learnings PROVE \E k \in 1 .. r.upto : shots[k].post = r.post /\ E!Score(shots[k]) = r.score
  <2>1. Told(r)
    BY DEF EngagementInv, RowsTold, E!Learnings
  <2>2. QED BY <2>1 DEF Told, Seen
<1>2. QED BY <1>1 DEF E!BestWasTrue

LEMMA EngagementInvariant ==
  ASSUME E!EngagementAssumption PROVE E!Spec => []EngagementInv
<1>1. E!Init => EngagementInv BY EngagementInit
<1>2. EngagementInv /\ [E!Next]_(E!vars) => EngagementInv' BY EngagementStep
<1>3. QED BY <1>1, <1>2, PTL DEF E!Spec

\* Snapshots and rollup rows keep their types.
THEOREM EngagementTypes ==
  ASSUME E!EngagementAssumption PROVE E!Spec => []E!TypeOK
<1>1. EngagementInv => E!TypeOK BY DEF EngagementInv
<1>2. QED BY <1>1, EngagementInvariant, PTL

\* fetch and rollup: however rounds and aggregations overlap, the score of a post falls
\* from one row to a later one only if the later one scores an incomplete snapshot,
\* or if reactions were taken back between the two.
THEOREM ScoresFallOnFailures ==
  ASSUME E!EngagementAssumption PROVE E!Spec => []E!ScoresFallByFailure
<1>1. EngagementInv => E!ScoresFallByFailure BY ScoresFall
<1>2. QED BY <1>1, EngagementInvariant, PTL

\* _compute_engagement: reactions that were fetched give a score, except on the
\* platforms whose adapter reports under names that no column has.
THEOREM ReactionsAreCounted ==
  ASSUME E!EngagementAssumption PROVE E!Spec => []E!ReactionsCount
<1>1. EngagementInv => E!ReactionsCount BY ReactionsScore
<1>2. QED BY <1>1, EngagementInvariant, PTL

\* What readers get as the best score was the score of a snapshot of that post.
THEOREM BestScoresWereTrue ==
  ASSUME E!EngagementAssumption PROVE E!Spec => []E!BestWasTrue
<1>1. EngagementInv => E!BestWasTrue BY BestIsTrue
<1>2. QED BY <1>1, EngagementInvariant, PTL

-----------------------------------------------------------------------------
(* Recycling: lines of copies count up.                                        *)

\* Numbers have a least one.
-----------------------------------------------------------------------------
(* Content recycling.                                                      *)

\* What a run has in hand are copies it may make: of posts it has not copied yet,
\* and below the limit.
InRun ==
    /\ \A r \in Runner : /\ run[r].no <= runs
                         /\ run[r].no = 0 => run[r].todo = {}
    /\ \A r, o \in Runner : run[r].no = run[o].no /\ run[r].no # 0 => r = o
    /\ \A r \in Runner : \A c, d \in run[r].todo : c[1] = d[1] => c = d
    /\ \A r \in Runner : \A c \in run[r].todo :
          /\ c[2] < MaxRecycle
          /\ \A q \in R!Ids : rows[q].parent = c[1] => rows[q].by # run[r].no
\* No copy is from a run to come, and each was made by some run of its parent.
Copied == \A q \in R!Ids : rows[q].by <= runs /\ (rows[q].parent # 0 => rows[q].parent \in R!Ids)
\* As long as no count is lost, a copy has one more than its parent.
Counts ==
    Persists /\ ~ wiped =>
        /\ \A q \in R!Ids : rows[q].parent # 0 => rows[q].count = rows[rows[q].parent].count + 1
        /\ \A r \in Runner : \A c \in run[r].todo : c[2] = rows[c[1]].count

RecycleInv == R!TypeOK /\ InRun /\ Copied /\ Counts /\ R!OneCopyPerRun

LEMMA PostFields ==
  ASSUME R!TypeOK, NEW p \in R!Ids
  PROVE  /\ rows[p] \in R!PostRows /\ rows[p].parent \in 0 .. MaxPosts /\ rows[p].by \in 0 .. MaxRuns
         /\ rows[p].count \in 0 .. MaxRecycle /\ rows[p].score \in {0, 1}
<1>1. rows \in Seq(R!PostRows) /\ p \in 1 .. Len(rows)
  BY DEF R!TypeOK, R!Ids
<1>2. rows[p] \in R!PostRows
  BY <1>1
<1>3. QED BY <1>2 DEF R!PostRows

LEMMA RecycleInit ==
  ASSUME R!RecyclingAssumption, R!Init PROVE RecycleInv
<1>1. /\ Originals \in Nat /\ MaxRuns \in Nat /\ MaxPosts \in Nat /\ MaxRecycle \in Nat
      /\ Originals <= MaxPosts
  BY DEF R!RecyclingAssumption
<1>2. /\ rows = [k \in 1 .. Originals |-> R!Fresh] /\ R!Ids = 1 .. Originals
      /\ \A k \in R!Ids : rows[k] = R!Fresh
  BY DEF R!Init, R!Ids
<1>3. R!Fresh \in R!PostRows
  BY <1>1 DEF R!Fresh, R!PostRows
<1>4. rows \in Seq(R!PostRows) /\ Len(rows) = Originals
  BY <1>1, <1>2, <1>3
<1>5. \A k \in R!Ids : rows[k].parent = 0 /\ rows[k].by = 0
  BY <1>2 DEF R!Fresh
<1>6. \A r \in Runner : run[r].no = 0 /\ run[r].todo = {}
  BY DEF R!Init
<1>7. run \in [Runner -> [no : 0 .. MaxRuns, todo : SUBSET (R!Ids \X (0 .. MaxRecycle))]]
  BY <1>1 DEF R!Init
<1>8. R!TypeOK
  <2>1. enabled = TRUE /\ wiped = FALSE /\ runs = 0
    BY DEF R!Init
  <2>2. enabled \in BOOLEAN /\ wiped \in BOOLEAN
    BY <2>1, Zenon
  <2>3. Len(rows) <= MaxPosts /\ runs \in 0 .. MaxRuns
    BY <1>1, <1>4, <2>1
  <2>4. QED BY <1>4, <1>7, <2>2, <2>3, Zenon DEF R!TypeOK
<1>9. InRun /\ Copied /\ Counts /\ R!OneCopyPerRun
  BY <1>1, <1>5, <1>6 DEF InRun, Copied, Counts, R!OneCopyPerRun, R!Init
<1>10. QED BY <1>8, <1>9 DEF RecycleInv

\* A post is changed in place: its parent and its run stay.
LEMMA RowKeeps ==
  ASSUME R!RecyclingAssumption, RecycleInv, UNCHANGED <<run, runs>>, NEW p \in R!Ids,
         NEW row \in R!PostRows, rows' = [rows EXCEPT ![p] = row], enabled' \in BOOLEAN,
         row.parent = rows[p].parent, row.by = rows[p].by, wiped' \in BOOLEAN,
         Persists => \/ row.count = rows[p].count /\ wiped' = wiped
                     \/ row.count = 0 /\ wiped' = (wiped \/ rows[p].count > 0)
  PROVE  RecycleInv'
<1>1. rows \in Seq(R!PostRows) /\ Len(rows) <= MaxPosts
  BY DEF RecycleInv, R!TypeOK
<1>2. /\ rows' \in Seq(R!PostRows) /\ Len(rows') = Len(rows)
      /\ DOMAIN rows' = DOMAIN rows /\ p \in 1 .. Len(rows)
  BY <1>1 DEF R!Ids
<1>3. /\ R!Ids' = R!Ids /\ \A q \in R!Ids : rows'[q] = IF q = p THEN row ELSE rows[q]
  BY <1>1, <1>2 DEF R!Ids
<1>4. \A q \in R!Ids : rows'[q].parent = rows[q].parent /\ rows'[q].by = rows[q].by
  BY <1>3
<1>5. R!TypeOK'
  BY <1>1, <1>2, <1>3 DEF RecycleInv, R!TypeOK
<1>6. InRun'
  BY <1>3, <1>4 DEF RecycleInv, InRun
<1>7. Copied' /\ R!OneCopyPerRun'
  BY <1>3, <1>4 DEF RecycleInv, Copied, R!OneCopyPerRun
<1>8. Counts'
  <2>1. SUFFICES ASSUME Persists, ~ wiped' PROVE Counts'
    BY DEF Counts
  <2>2. rows[p].count \in Nat /\ rows[p].count <= MaxRecycle /\ MaxRecycle \in Nat
    BY PostFields DEF RecycleInv, R!RecyclingAssumption
  <2>3. ~ wiped /\ row.count = rows[p].count
    BY <2>1, <2>2
  <2>4. \A q \in R!Ids : rows'[q].count = rows[q].count
    BY <1>3, <2>3
  <2>5. \A r \in Runner : \A c \in run[r].todo : c[1] \in R!Ids
    BY DEF RecycleInv, R!TypeOK
  <2>6. QED BY <1>3, <1>4, <2>1, <2>3, <2>4, <2>5 DEF RecycleInv, Counts, Copied
<1>9. QED BY <1>5, <1>6, <1>7, <1>8 DEF RecycleInv

\* A run takes a new number, so nothing is copied by it yet.
LEMMA ExecuteKeeps ==
  ASSUME R!RecyclingAssumption, RecycleInv, NEW r \in Runner, R!Execute(r) PROVE RecycleInv'
<1>1. /\ run[r].no = 0 /\ runs < MaxRuns /\ runs' = runs + 1
      /\ UNCHANGED <<rows, enabled, wiped>> /\ R!Ids' = R!Ids
  BY DEF R!Execute, R!Ids
<1>2. PICK picked \in SUBSET {p \in R!Ids : R!Candidate(p)} :
         run' = [run EXCEPT ![r] = [no |-> runs + 1, todo |-> {<<p, rows[p].count>> : p \in picked}]]
  BY DEF R!Execute
<1>3. run \in [Runner -> [no : 0 .. MaxRuns, todo : SUBSET (R!Ids \X (0 .. MaxRecycle))]]
  BY DEF RecycleInv, R!TypeOK
<1>4. /\ \A o \in Runner : run'[o] = IF o = r THEN [no |-> runs + 1, todo |-> {<<p, rows[p].count>> : p \in picked}]
                           ELSE run[o]
      /\ runs \in Nat /\ MaxRuns \in Nat /\ MaxRecycle \in Nat
  BY <1>2, <1>3 DEF RecycleInv, R!TypeOK, R!RecyclingAssumption
<1>5. /\ run'[r].no = runs + 1
      /\ run'[r].todo = {<<p, rows[p].count>> : p \in picked}
      /\ \A o \in Runner : o # r => run'[o] = run[o]
  <2> DEFINE mine == {<<p, rows[p].count>> : p \in picked}
  <2>1. run'[r] = [no |-> runs + 1, todo |-> mine]
    BY <1>4
  <2> HIDE DEF mine
  <2>2. run'[r].no = runs + 1 /\ run'[r].todo = mine
    BY <2>1
  <2>3. QED BY <1>4, <2>2 DEF mine
<1>5a. \A c \in run'[r].todo : \E p \in picked : c = <<p, rows[p].count>>
  BY <1>5
<1>6. \A p \in picked : p \in R!Ids /\ rows[p].count \in 0 .. MaxRecycle /\ rows[p].count < MaxRecycle
  <2>1. \A p \in R!Ids : rows[p] \in R!PostRows
    BY DEF RecycleInv, R!TypeOK, R!Ids
  <2>2. QED BY <1>2, <2>1 DEF R!Candidate, R!PostRows
<1>7. R!TypeOK'
  <2>1. run' \in [Runner -> [no : 0 .. MaxRuns, todo : SUBSET (R!Ids \X (0 .. MaxRecycle))]]
    <3>1. {<<p, rows[p].count>> : p \in picked} \subseteq R!Ids \X (0 .. MaxRecycle)
      BY <1>6
    <3>2. runs + 1 \in 0 .. MaxRuns
      BY <1>1, <1>4
    <3>3. QED BY <1>2, <1>3, <3>1, <3>2
  <2>2. QED BY <1>1, <1>4, <2>1 DEF RecycleInv, R!TypeOK
<1>8. InRun'
  <2>1. \A o \in Runner : o # r => run'[o].no # runs + 1 /\ run[o].no \in Nat /\ run[o].no <= runs
    BY <1>3, <1>4, <1>5 DEF RecycleInv, InRun
  <2>2. \A o \in Runner : run'[o].no <= runs' /\ (run'[o].no = 0 => run'[o].todo = {})
    BY <1>1, <1>4, <1>5, <2>1 DEF RecycleInv, InRun
  <2>3. \A x, o \in Runner : run'[x].no = run'[o].no /\ run'[x].no # 0 => x = o
    BY <1>5, <2>1 DEF RecycleInv, InRun
  <2>4. \A o \in Runner : \A c, d \in run'[o].todo : c[1] = d[1] => c = d
    BY <1>5, <1>5a DEF RecycleInv, InRun
  <2>5. \A q \in R!Ids : rows[q].by <= runs /\ rows[q].by \in Nat
    BY PostFields DEF RecycleInv, Copied
  <2>6. ASSUME NEW o \in Runner, NEW c \in run'[o].todo
        PROVE  c[2] < MaxRecycle /\ \A q \in R!Ids : rows[q].parent = c[1] => rows[q].by # run'[o].no
    <3>1. CASE o = r
      <4>1. PICK p \in picked : c = <<p, rows[p].count>>
        BY <1>5a, <3>1
      <4>2. QED BY <1>4, <1>5, <1>6, <2>5, <3>1, <4>1
    <3>2. CASE o # r
      BY <1>5, <3>2 DEF RecycleInv, InRun
    <3>3. QED BY <3>1, <3>2
  <2>7. QED BY <1>1, <2>2, <2>3, <2>4, <2>6 DEF InRun
<1>9. Copied' /\ R!OneCopyPerRun'
  <2>1. \A q \in R!Ids : rows[q].by <= runs /\ rows[q].by \in Nat
    BY PostFields DEF RecycleInv, Copied
  <2>2. QED BY <1>1, <1>4, <2>1 DEF RecycleInv, Copied, R!OneCopyPerRun
<1>10. Counts'
  <2>1. ASSUME Persists, ~ wiped, NEW o \in Runner, NEW c \in run'[o].todo PROVE c[2] = rows[c[1]].count
    <3>1. CASE o = r
      BY <1>5a, <3>1
    <3>2. CASE o # r
      BY <1>5, <2>1, <3>2 DEF RecycleInv, Counts
    <3>3. QED BY <3>1, <3>2
  <2>2. QED BY <1>1, <2>1 DEF RecycleInv, Counts
<1>11. QED BY <1>7, <1>8, <1>9, <1>10 DEF RecycleInv

\* The copy is the first of its parent by this run.
LEMMA RepublishKeeps ==
  ASSUME R!RecyclingAssumption, RecycleInv, NEW r \in Runner, NEW p \in R!Ids, NEW n \in 0 .. MaxRecycle,
         R!Republish(r, p, n)
  PROVE  RecycleInv'
<1>1. /\ <<p, n>> \in run[r].todo /\ run' = [run EXCEPT ![r].todo = @ \ {<<p, n>>}]
      /\ UNCHANGED <<enabled, runs, wiped>>
  BY DEF R!Republish
<1>2. run \in [Runner -> [no : 0 .. MaxRuns, todo : SUBSET (R!Ids \X (0 .. MaxRecycle))]]
  BY DEF RecycleInv, R!TypeOK
<1>3. /\ \A o \in Runner : run'[o].no = run[o].no /\ run'[o].todo \subseteq run[o].todo
      /\ <<p, n>> \notin run'[r].todo
      /\ run' \in [Runner -> [no : 0 .. MaxRuns, todo : SUBSET (R!Ids \X (0 .. MaxRecycle))]]
  BY <1>1, <1>2
<1>4. CASE UNCHANGED rows
  <2>1. R!Ids' = R!Ids
    BY <1>4 DEF R!Ids
  <2>2. R!TypeOK'
    BY <1>1, <1>3, <1>4, <2>1 DEF RecycleInv, R!TypeOK
  <2>3. InRun'
    BY <1>1, <1>3, <1>4, <2>1 DEF RecycleInv, InRun
  <2>4. Copied' /\ Counts' /\ R!OneCopyPerRun'
    BY <1>1, <1>3, <1>4, <2>1 DEF RecycleInv, Copied, Counts, R!OneCopyPerRun
  <2>5. QED BY <2>2, <2>3, <2>4 DEF RecycleInv
<1> DEFINE copy == [R!Fresh EXCEPT !.parent = p, !.by = run[r].no, !.status = "scheduled",
                                 !.score = rows[p].score, !.count = IF Persists THEN R!Counted(n) ELSE 0]
           crest == Len(rows) + 1
<1>5. CASE Len(rows) < MaxPosts /\ rows' = Append(rows, copy)
  <2>1. rows \in Seq(R!PostRows) /\ Len(rows) \in Nat /\ R!Ids = 1 .. Len(rows)
        /\ MaxPosts \in Nat /\ MaxRuns \in Nat /\ MaxRecycle \in Nat
    BY DEF RecycleInv, R!TypeOK, R!Ids, R!RecyclingAssumption
  <2>2. /\ n < MaxRecycle /\ run[r].no # 0 /\ run[r].no \in 0 .. MaxRuns /\ run[r].no <= runs
        /\ \A q \in R!Ids : rows[q].parent = p => rows[q].by # run[r].no
    BY <1>1, <1>2 DEF RecycleInv, InRun
  <2>3. /\ copy.parent = p /\ copy.by = run[r].no
        /\ copy.count = (IF Persists THEN n + 1 ELSE 0)
    BY DEF R!Fresh, R!Counted
  <2>4. copy \in R!PostRows
    <3>1. rows[p] \in R!PostRows
      BY <2>1
    <3>2. p \in 0 .. MaxPosts /\ (IF Persists THEN n + 1 ELSE 0) \in 0 .. MaxRecycle
          /\ rows[p].score \in {0, 1}
      BY <2>1, <2>2, <1>5, PostFields DEF RecycleInv
    <3>3. QED BY <2>2, <3>2 DEF R!PostRows, R!Fresh, R!Counted
  <2> HIDE DEF copy
  <2>5. /\ rows' \in Seq(R!PostRows) /\ Len(rows') = crest /\ R!Ids' = 1 .. crest
        /\ rows'[crest] = copy /\ \A q \in R!Ids : rows'[q] = rows[q]
    BY <1>5, <2>1, <2>4 DEF R!Ids
  <2>6. /\ R!Ids' = R!Ids \cup {crest} /\ crest \notin R!Ids /\ crest # 0
    BY <2>1, <2>5
  <2> HIDE DEF crest
  <2>7. R!TypeOK'
    <3>1. run' \in [Runner -> [no : 0 .. MaxRuns, todo : SUBSET (R!Ids' \X (0 .. MaxRecycle))]]
      BY <1>3, <2>6
    <3>2. Len(rows') <= MaxPosts
      BY <1>5, <2>1, <2>5 DEF crest
    <3>3. QED BY <1>1, <2>5, <3>1, <3>2 DEF RecycleInv, R!TypeOK
  <2>8. InRun'
    <3>1. ASSUME NEW o \in Runner, NEW c \in run'[o].todo, NEW q \in R!Ids', rows'[q].parent = c[1]
          PROVE  rows'[q].by # run'[o].no
      <4>1. c \in run[o].todo /\ run[o].no # 0
        BY <1>3, <3>1 DEF RecycleInv, InRun
      <4>2. CASE q \in R!Ids
        <5>1. rows[q].parent = c[1]
          BY <2>5, <3>1, <4>2
        <5>2. rows[q].by # run[o].no
          BY <4>1, <4>2, <5>1 DEF RecycleInv, InRun
        <5>3. QED BY <1>3, <2>5, <4>2, <5>2
      <4>3. CASE q = crest /\ o = r
        <5>1. c[1] = p
          BY <2>3, <2>5, <3>1, <4>3
        <5>2. c = <<p, n>>
          BY <1>1, <4>1, <4>3, <5>1 DEF RecycleInv, InRun
        <5>3. QED BY <1>3, <3>1, <4>3, <5>2
      <4>4. CASE q = crest /\ o # r
        <5>1. run[o].no # run[r].no
          BY <4>1, <4>4 DEF RecycleInv, InRun
        <5>2. QED BY <1>3, <2>3, <2>5, <4>4, <5>1
      <4>5. QED BY <2>6, <4>2, <4>3, <4>4
    <3>2. /\ \A o \in Runner : run'[o].no <= runs' /\ (run'[o].no = 0 => run'[o].todo = {})
          /\ \A x, o \in Runner : run'[x].no = run'[o].no /\ run'[x].no # 0 => x = o
          /\ \A o \in Runner : \A c, d \in run'[o].todo : c[1] = d[1] => c = d
          /\ \A o \in Runner : \A c \in run'[o].todo : c[2] < MaxRecycle
      BY <1>1, <1>3 DEF RecycleInv, InRun
    <3>3. QED BY <3>1, <3>2 DEF InRun
  <2>9. Copied'
    BY <1>1, <2>2, <2>3, <2>5, <2>6 DEF RecycleInv, Copied
  <2>10. R!OneCopyPerRun'
    BY <2>2, <2>3, <2>5, <2>6 DEF RecycleInv, R!OneCopyPerRun
  <2>11. Counts'
    <3>1. SUFFICES ASSUME Persists, ~ wiped PROVE Counts'
      BY <1>1 DEF Counts
    <3>2. rows[p].count = n
      BY <1>1, <3>1 DEF RecycleInv, Counts
    <3>3. \A q \in R!Ids' : rows'[q].parent # 0 => rows'[q].count = rows'[rows'[q].parent].count + 1
      <4>1. ASSUME NEW q \in R!Ids, rows[q].parent # 0 PROVE rows[q].count = rows'[rows[q].parent].count + 1
        BY <2>5, <3>1, <4>1 DEF RecycleInv, Counts, Copied
      <4>2. rows'[crest].parent = p /\ rows'[crest].count = n + 1 /\ rows'[p].count = n
        BY <2>3, <2>5, <3>1, <3>2
      <4>3. QED BY <2>5, <2>6, <4>1, <4>2
    <3>4. \A o \in Runner : \A c \in run'[o].todo : c[2] = rows'[c[1]].count
      <4>1. \A o \in Runner : \A c \in run[o].todo : c[1] \in R!Ids
        BY <1>2
      <4>2. QED BY <1>3, <2>5, <3>1, <4>1 DEF RecycleInv, Counts
    <3>5. QED BY <3>3, <3>4 DEF Counts
  <2>12. QED BY <2>7, <2>8, <2>9, <2>10, <2>11 DEF RecycleInv
<1>6. QED BY <1>4, <1>5 DEF R!Republish

LEMMA EndKeeps ==
  ASSUME R!RecyclingAssumption, RecycleInv, NEW r \in Runner, R!EndRun(r) PROVE RecycleInv'
<1>1. /\ run[r].no # 0 /\ run[r].todo = {} /\ run' = [run EXCEPT ![r].no = 0]
      /\ UNCHANGED <<rows, enabled, runs, wiped>> /\ R!Ids' = R!Ids
  BY DEF R!EndRun, R!Ids
<1>2. /\ run \in [Runner -> [no : 0 .. MaxRuns, todo : SUBSET (R!Ids \X (0 .. MaxRecycle))]]
      /\ MaxRuns \in Nat /\ runs \in Nat
  BY DEF RecycleInv, R!TypeOK, R!RecyclingAssumption
<1>3. /\ run'[r].no = 0 /\ run'[r].todo = {} /\ \A o \in Runner : o # r => run'[o] = run[o]
      /\ run' \in [Runner -> [no : 0 .. MaxRuns, todo : SUBSET (R!Ids \X (0 .. MaxRecycle))]]
  BY <1>1, <1>2
<1>4. \A o \in Runner : run'[o].todo = run[o].todo
  BY <1>1, <1>3
<1>5. R!TypeOK'
  BY <1>1, <1>3 DEF RecycleInv, R!TypeOK
<1>6. InRun'
  <2>1. \A o \in Runner : run'[o].no <= runs' /\ (run'[o].no = 0 => run'[o].todo = {})
    BY <1>1, <1>2, <1>3 DEF RecycleInv, InRun
  <2>2. \A x, o \in Runner : run'[x].no = run'[o].no /\ run'[x].no # 0 => x = o
    BY <1>3 DEF RecycleInv, InRun
  <2>3. \A o \in Runner : \A c \in run'[o].todo : o # r /\ run'[o] = run[o]
    BY <1>3
  <2>4. QED BY <1>1, <1>4, <2>1, <2>2, <2>3 DEF RecycleInv, InRun
<1>7. Copied' /\ Counts' /\ R!OneCopyPerRun'
  BY <1>1, <1>4 DEF RecycleInv, Copied, Counts, R!OneCopyPerRun
<1>8. QED BY <1>5, <1>6, <1>7 DEF RecycleInv

LEMMA RecycleStep ==
  ASSUME R!RecyclingAssumption, RecycleInv, [R!Next]_(R!vars) PROVE RecycleInv'
<1> USE DEF R!Ids
<1>1. rows \in Seq(R!PostRows) /\ \A p \in R!Ids : rows[p] \in R!PostRows
  BY DEF RecycleInv, R!TypeOK
<1>2. ASSUME NEW p \in R!Ids, R!PublishNow(p) \/ R!Ages(p) \/ R!DeletePost(p) PROVE RecycleInv'
  <2>1. PICK row : row \in {[rows[p] EXCEPT !.status = "published"], [rows[p] EXCEPT !.old = TRUE],
                            [rows[p] EXCEPT !.gone = TRUE]} /\ rows' = [rows EXCEPT ![p] = row]
    BY <1>2 DEF R!PublishNow, R!Ages, R!DeletePost
  <2>2. /\ row \in R!PostRows /\ row.parent = rows[p].parent /\ row.by = rows[p].by
        /\ row.count = rows[p].count
    BY <1>1, <2>1 DEF R!PostRows
  <2>3. UNCHANGED <<enabled, run, runs, wiped>> /\ enabled \in BOOLEAN /\ wiped \in BOOLEAN
    BY <1>2 DEF R!PublishNow, R!Ages, R!DeletePost, RecycleInv, R!TypeOK
  <2>4. QED BY <2>1, <2>2, <2>3, RowKeeps
<1>3. ASSUME NEW p \in R!Ids, R!Collect(p) PROVE RecycleInv'
  <2>1. PICK score \in {0, 1} : rows' = [rows EXCEPT ![p].score = score, ![p].count = 0]
    BY <1>3 DEF R!Collect
  <2>2. PICK row : row = [rows[p] EXCEPT !.score = score, !.count = 0]
    OBVIOUS
  <2>3. rows' = [rows EXCEPT ![p] = row]
    BY <1>1, <2>1, <2>2
  <2>4. MaxRecycle \in Nat
    BY DEF R!RecyclingAssumption
  <2>5. /\ row \in R!PostRows /\ row.parent = rows[p].parent /\ row.by = rows[p].by
        /\ row.count = 0
    <3>1. 0 \in 0 .. MaxRecycle
      BY <2>4
    <3>2. rows[p] \in R!PostRows
      BY <1>1
    <3>3. QED BY <2>2, <3>1, <3>2 DEF R!PostRows
  <2>6. /\ UNCHANGED <<enabled, run, runs>> /\ enabled \in BOOLEAN
        /\ wiped' = (wiped \/ rows[p].count > 0) /\ wiped' \in BOOLEAN
    BY <1>3 DEF R!Collect, RecycleInv, R!TypeOK
  <2>7. QED BY <2>3, <2>5, <2>6, RowKeeps
<1>4. CASE R!Disable \/ UNCHANGED R!vars
  <2>1. UNCHANGED <<rows, run, runs, wiped>> /\ enabled' \in BOOLEAN
    BY <1>4 DEF R!Disable, R!vars, RecycleInv, R!TypeOK
  <2>2. QED BY <2>1 DEF RecycleInv, R!TypeOK, InRun, Copied, Counts, R!OneCopyPerRun
<1>5. ASSUME NEW r \in Runner, R!Execute(r) \/ R!EndRun(r) PROVE RecycleInv'
  BY <1>5, ExecuteKeeps, EndKeeps
<1>6. ASSUME NEW r \in Runner, NEW p \in R!Ids, NEW n \in 0 .. MaxRecycle, R!Republish(r, p, n) PROVE RecycleInv'
  BY <1>6, RepublishKeeps
<1>7. QED BY <1>2, <1>3, <1>4, <1>5, <1>6 DEF R!Next

\* A line of copies counts up.
LEMMA RecycledLines ==
  ASSUME R!RecyclingAssumption, RecycleInv PROVE R!LinesEnd
<1>1. SUFFICES ASSUME Persists, ~ wiped, NEW line \in R!Lines(MaxRecycle + 1) PROVE FALSE
  BY DEF R!LinesEnd
<1>2. MaxRecycle \in Nat
  BY DEF R!RecyclingAssumption
<1> DEFINE N == MaxRecycle + 1
           U == {k \in 0 .. N : ~ (rows[line[k]].count >= k)}
<1>3. /\ \A k \in 0 .. N : line[k] \in R!Ids
      /\ \A k \in 1 .. N : rows[line[k]].parent = line[k - 1]
  BY <1>2 DEF R!Lines
<1>4. /\ \A p \in R!Ids : rows[p].count \in 0 .. MaxRecycle
      /\ 0 \notin R!Ids
  <2>1. \A p \in R!Ids : rows[p].count \in 0 .. MaxRecycle
    BY PostFields DEF RecycleInv
  <2>2. DOMAIN rows = 1 .. Len(rows) /\ Len(rows) \in Nat
    BY DEF RecycleInv, R!TypeOK
  <2>3. QED BY <2>1, <2>2 DEF R!Ids
<1>5. U = {}
  <2>1. SUFFICES ASSUME U # {} PROVE FALSE
    OBVIOUS
  <2>2. U \in SUBSET Nat
    BY <1>2
  <2>3. \E x \in U : \A y \in U : x <= y
    <3> HIDE DEF U
    <3>1. QED BY <2>1, <2>2, LeastNumber
  <2>4. PICK x \in U : \A y \in U : x <= y
    BY <2>3
  <2>5. x \in 0 .. N /\ x # 0
    BY <1>2, <1>3, <1>4
  <2>6. x - 1 \in 0 .. N /\ x - 1 \notin U
    BY <1>2, <2>4, <2>5
  <2>7. /\ rows[line[x - 1]].count >= x - 1 /\ line[x] \in R!Ids /\ line[x - 1] \in R!Ids
        /\ rows[line[x]].parent = line[x - 1]
    BY <1>2, <1>3, <2>5, <2>6
  <2>8. rows[line[x]].count = rows[line[x - 1]].count + 1
    BY <1>1, <1>4, <2>7 DEF RecycleInv, Counts
  <2>9. rows[line[x]].count >= x
    BY <1>2, <1>4, <2>5, <2>7, <2>8
  <2>10. QED BY <2>4, <2>9
<1>6. rows[line[N]].count >= N
  BY <1>2, <1>5
<1>7. QED BY <1>2, <1>3, <1>4, <1>6

LEMMA RecycleInvariant ==
  ASSUME R!RecyclingAssumption PROVE R!Spec => []RecycleInv
<1>1. R!Init => RecycleInv BY RecycleInit
<1>2. RecycleInv /\ [R!Next]_(R!vars) => RecycleInv' BY RecycleStep
<1>3. QED BY <1>1, <1>2, PTL DEF R!Spec

\* The posts, the switch and the runs keep their types.
THEOREM RecycleTypes ==
  ASSUME R!RecyclingAssumption PROVE R!Spec => []R!TypeOK
<1>1. RecycleInv => R!TypeOK BY DEF RecycleInv
<1>2. QED BY <1>1, RecycleInvariant, PTL

\* recycle: while the counts are kept, no line of copies of copies has more than
\* max_recycle_count of them, however many runs overlap.
THEOREM RecycledLinesEnd ==
  ASSUME R!RecyclingAssumption PROVE R!Spec => []R!LinesEnd
<1>1. RecycleInv => R!LinesEnd BY RecycledLines
<1>2. QED BY <1>1, RecycleInvariant, PTL

\* A run makes one copy of a post at most.
THEOREM OneCopyARun ==
  ASSUME R!RecyclingAssumption PROVE R!Spec => []R!OneCopyPerRun
<1>1. RecycleInv => R!OneCopyPerRun BY DEF RecycleInv
<1>2. QED BY <1>1, RecycleInvariant, PTL

-----------------------------------------------------------------------------
(* Experiments: calls of start, and the rows they owe.                         *)

\* Only a call that is being raised in is at a variant, and one that has not
\* found its platform has nothing to do.
InStart ==
    \A c \in Caller : /\ start[c].pc # "raising" => start[c].at = {}
                      /\ start[c].pc \in {"idle", "platform"} => start[c].todo = {}

\* The calls that may still add a row of a variant.
Owes(c, v) == start[c].pc = "platform" \/ v \in start[c].todo
Owing(v) == {c \in Caller : Owes(c, v)}
Owed == \A v \in Variant : IsFiniteSet(Owing(v)) /\ entered[v] + Cardinality(Owing(v)) <= starts

ExperimentTypes ==
    /\ state \in X!ExperimentStatus /\ window \in BOOLEAN
    /\ variant \in [Variant -> X!VariantStatus] /\ entered \in [Variant -> Nat]
    /\ start \in [Caller -> X!Starts] /\ starts \in 0 .. MaxStarts
    /\ through \in BOOLEAN /\ closed \in {"no", "settled", "cancelled"}

ExperimentInv == ExperimentTypes /\ InStart /\ Owed /\ X!ClosedStays /\ X!RowsAreEmpty

LEMMA ExperimentInit ==
  ASSUME X!ExperimentsAssumption, X!Init PROVE ExperimentInv
<1>1. /\ state = "draft" /\ window = FALSE /\ starts = 0 /\ through = FALSE /\ closed = "no"
      /\ variant = [v \in Variant |-> "pending"] /\ entered = [v \in Variant |-> 0]
      /\ start = [c \in Caller |-> X!Idle]
  BY DEF X!Init
<1>2. X!Idle \in X!Starts /\ X!Idle.pc = "idle" /\ X!Idle.todo = {} /\ X!Idle.at = {}
  BY DEF X!Idle, X!Starts
<1>3. \A c \in Caller : start[c] = X!Idle
  BY <1>1
<1>4. start \in [Caller -> X!Starts]
  BY <1>1, <1>2
<1>5. ExperimentTypes
  <2>1. variant \in [Variant -> X!VariantStatus] /\ entered \in [Variant -> Nat]
    BY <1>1 DEF X!VariantStatus
  <2>2. starts \in 0 .. MaxStarts /\ state \in X!ExperimentStatus
    BY <1>1 DEF X!ExperimentsAssumption, X!ExperimentStatus
  <2>3. QED BY <1>1, <1>4, <2>1, <2>2 DEF ExperimentTypes
<1>6. InStart
  BY <1>2, <1>3 DEF InStart
<1>7. ASSUME NEW v \in Variant PROVE IsFiniteSet(Owing(v)) /\ entered[v] + Cardinality(Owing(v)) <= starts
  <2>1. Owing(v) = {}
    BY <1>2, <1>3 DEF Owing, Owes
  <2>2. IsFiniteSet({}) /\ Cardinality({}) = 0
    BY FS_EmptySet
  <2>3. entered[v] = 0
    BY <1>1
  <2>4. QED BY <1>1, <2>1, <2>2, <2>3
<1>8. X!ClosedStays /\ X!RowsAreEmpty
  BY <1>1 DEF X!ClosedStays, X!RowsAreEmpty
<1>9. QED BY <1>5, <1>6, <1>7, <1>8 DEF ExperimentInv, Owed

LEMMA OneMoreOwes ==
  ASSUME NEW S, IsFiniteSet(S), NEW c
  PROVE  /\ IsFiniteSet(S \cup {c}) /\ IsFiniteSet(S \ {c})
         /\ Cardinality(S) \in Nat
         /\ Cardinality(S \cup {c}) \in Nat /\ Cardinality(S \ {c}) \in Nat
         /\ Cardinality(S \cup {c}) <= Cardinality(S) + 1
         /\ Cardinality(S \ {c}) <= Cardinality(S)
         /\ c \in S => Cardinality(S \ {c}) = Cardinality(S) - 1
<1>1. IsFiniteSet(S \cup {c}) /\ Cardinality(S \cup {c}) = IF c \in S THEN Cardinality(S) ELSE Cardinality(S) + 1
  BY FS_AddElement
<1>2. IsFiniteSet(S \ {c}) /\ Cardinality(S \ {c}) = IF c \in S THEN Cardinality(S) - 1 ELSE Cardinality(S)
  BY FS_RemoveElement
<1>3. Cardinality(S) \in Nat /\ Cardinality(S \cup {c}) \in Nat /\ Cardinality(S \ {c}) \in Nat
  BY <1>1, <1>2, FS_CardinalityType
<1>4. QED BY <1>1, <1>2, <1>3

\* What a step of one call does to what it owes of each variant, and to the rows.
OwedStep(c) ==
    /\ \A d \in Caller : d # c => start'[d] = start[d]
    /\ entered' \in [Variant -> Nat] /\ starts' \in Nat
    /\ \A v \in Variant :
          \/ entered'[v] = entered[v] /\ (Owes(c, v)' => Owes(c, v)) /\ starts' = starts
          \/ entered'[v] = entered[v] /\ starts' = starts + 1
          \/ entered'[v] = entered[v] + 1 /\ Owes(c, v) /\ ~ Owes(c, v)' /\ starts' = starts

LEMMA OwedKept ==
  ASSUME Owed, NEW c \in Caller, ExperimentTypes, OwedStep(c)
  PROVE  Owed'
<1>1. SUFFICES ASSUME NEW v \in Variant
               PROVE  IsFiniteSet(Owing(v)') /\ entered'[v] + Cardinality(Owing(v)') <= starts'
  BY DEF Owed
<1> DEFINE S == Owing(v)
<1>2. IsFiniteSet(S) /\ entered[v] + Cardinality(S) <= starts /\ entered[v] \in Nat /\ starts \in Nat
      /\ entered'[v] \in Nat /\ starts' \in Nat
  BY DEF Owed, ExperimentTypes, OwedStep
<1>3. \A d \in Caller : d # c => start'[d] = start[d]
  BY DEF OwedStep
<1>4. Owing(v)' = IF Owes(c, v)' THEN S \cup {c} ELSE S \ {c}
  BY <1>3 DEF Owing, Owes
<1>5. Owes(c, v) <=> c \in S
  BY DEF Owing
<1>6. \/ entered'[v] = entered[v] /\ (Owes(c, v)' => Owes(c, v)) /\ starts' = starts
      \/ entered'[v] = entered[v] /\ starts' = starts + 1
      \/ entered'[v] = entered[v] + 1 /\ Owes(c, v) /\ ~ Owes(c, v)' /\ starts' = starts
  BY DEF OwedStep
<1> HIDE DEF S
<1>7. /\ IsFiniteSet(S \cup {c}) /\ IsFiniteSet(S \ {c})
      /\ Cardinality(S) \in Nat
      /\ Cardinality(S \cup {c}) \in Nat /\ Cardinality(S \ {c}) \in Nat
      /\ Cardinality(S \cup {c}) <= Cardinality(S) + 1
      /\ Cardinality(S \ {c}) <= Cardinality(S)
      /\ c \in S => Cardinality(S \ {c}) = Cardinality(S) - 1
  BY <1>2, OneMoreOwes
<1>8. c \in S => S \cup {c} = S
  OBVIOUS
<1>9. IsFiniteSet(Owing(v)')
  BY <1>4, <1>7
<1>10. entered'[v] + Cardinality(Owing(v)') <= starts'
  <2>1. CASE Owes(c, v)'
    <3>1. Cardinality(Owing(v)') = Cardinality(S \cup {c})
      BY <1>4, <2>1
    <3>2. CASE c \in S
      <4>1. Cardinality(Owing(v)') = Cardinality(S)
        BY <1>8, <3>1, <3>2
      <4>2. QED BY <1>2, <1>6, <1>7, <2>1, <4>1
    <3>3. CASE c \notin S
      <4>1. entered'[v] = entered[v] /\ starts' = starts + 1
        BY <1>5, <1>6, <2>1, <3>3
      <4>2. Cardinality(S \cup {c}) <= Cardinality(S) + 1
        BY <1>7
      <4>3. QED BY <1>2, <1>7, <3>1, <4>1, <4>2
    <3>4. QED BY <3>2, <3>3
  <2>2. CASE ~ Owes(c, v)'
    <3>1. Cardinality(Owing(v)') = Cardinality(S \ {c})
      BY <1>4, <2>2
    <3>2. QED BY <1>2, <1>5, <1>6, <1>7, <2>2, <3>1
  <2>3. QED BY <2>1, <2>2
<1>11. QED BY <1>9, <1>10

\* What a call of start is at, as the types have it.
LEMMA StartFields ==
  ASSUME ExperimentTypes, NEW c \in Caller
  PROVE  /\ start[c] = [pc |-> start[c].pc, todo |-> start[c].todo, at |-> start[c].at]
         /\ start[c].pc \in {"idle", "platform", "next", "raising"}
         /\ start[c].todo \subseteq Variant /\ start[c].at \subseteq Variant
<1>1. start[c] \in X!Starts
  BY DEF ExperimentTypes
<1>2. QED BY <1>1 DEF X!Starts

\* Steps of one call that leave the experiment, the variants and the rows alone.
LEMMA CallMoves ==
  ASSUME X!ExperimentsAssumption, ExperimentInv, NEW c \in Caller,
         X!PlatformMissing(c) \/ X!PlatformFound(c) \/ X!Started(c)
  PROVE  ExperimentInv'
<1>1. PICK p \in {"idle", "next"}, t \in {{}, Variant} :
        /\ start' = [start EXCEPT ![c] = [pc |-> p, todo |-> t, at |-> {}]]
        /\ p = "idle" => t = {}
        /\ start[c].pc \in {"platform", "next"}
        /\ start[c].pc = "next" => t = {} /\ start[c].todo = {}
        /\ UNCHANGED <<state, window, variant, entered, starts, closed>> /\ through' \in BOOLEAN
  <2>1. through \in BOOLEAN
    BY DEF ExperimentInv, ExperimentTypes
  <2>2. CASE X!PlatformMissing(c)
    BY <2>1, <2>2 DEF X!PlatformMissing, X!Idle
  <2>3. CASE X!PlatformFound(c)
    BY <2>1, <2>3 DEF X!PlatformFound
  <2>4. CASE X!Started(c)
    BY <2>4 DEF X!Started, X!Idle
  <2>5. QED BY <2>2, <2>3, <2>4
<1>2. /\ start'[c].pc = p /\ start'[c].todo = t /\ start'[c].at = {} /\ start[c].at = {}
      /\ \A d \in Caller : d # c => start'[d] = start[d]
      /\ start[c].pc = "platform" => start[c].todo = {}
  BY <1>1 DEF ExperimentInv, ExperimentTypes, InStart
<1>3. start' \in [Caller -> X!Starts]
  <2>1. [pc |-> p, todo |-> t, at |-> {}] \in X!Starts
    BY <1>1 DEF X!Starts
  <2>2. QED BY <1>1, <2>1 DEF ExperimentInv, ExperimentTypes
<1>4. ExperimentTypes'
  BY <1>1, <1>3 DEF ExperimentInv, ExperimentTypes
<1>5. InStart'
  BY <1>1, <1>2 DEF ExperimentInv, InStart
<1>6. Owed'
  <2>1. entered' \in [Variant -> Nat] /\ starts' \in Nat
    BY <1>1 DEF ExperimentInv, ExperimentTypes
  <2>2. ASSUME NEW v \in Variant PROVE Owes(c, v)' => Owes(c, v)
    BY <1>1, <1>2 DEF Owes
  <2>3. OwedStep(c)
    BY <1>1, <1>2, <2>1, <2>2 DEF OwedStep
  <2>4. QED BY <2>3, OwedKept DEF ExperimentInv
<1>7. X!RowsAreEmpty' /\ X!ClosedStays'
  BY <1>1, <1>2 DEF ExperimentInv, X!RowsAreEmpty, X!ClosedStays
<1>8. QED BY <1>4, <1>5, <1>6, <1>7 DEF ExperimentInv

LEMMA BeginKeeps ==
  ASSUME X!ExperimentsAssumption, ExperimentInv, NEW c \in Caller, X!Begin(c) PROVE ExperimentInv'
<1>1. /\ start[c].pc = "idle" /\ starts < MaxStarts /\ state' = "running" /\ window' = FALSE
      /\ start' = [start EXCEPT ![c] = [@ EXCEPT !.pc = "platform"]]
      /\ starts' = starts + 1 /\ closed' = "no" /\ UNCHANGED <<variant, entered, through>>
  BY DEF X!Begin
<1>2. start[c].todo = {} /\ start[c].at = {}
  BY <1>1 DEF ExperimentInv, InStart
<1>3. start'[c] = [pc |-> "platform", todo |-> {}, at |-> {}]
  <2>1. start[c] = [pc |-> start[c].pc, todo |-> start[c].todo, at |-> start[c].at]
    BY StartFields DEF ExperimentInv
  <2>2. start'[c] = [start[c] EXCEPT !.pc = "platform"]
    BY <1>1 DEF ExperimentInv, ExperimentTypes
  <2>3. QED BY <1>2, <2>1, <2>2
<1>4. /\ start'[c].pc = "platform" /\ start'[c].todo = {} /\ start'[c].at = {}
      /\ \A d \in Caller : d # c => start'[d] = start[d]
  BY <1>1, <1>3 DEF ExperimentInv, ExperimentTypes
<1>5. start' \in [Caller -> X!Starts]
  <2>1. [pc |-> "platform", todo |-> {}, at |-> {}] \in X!Starts
    BY DEF X!Starts
  <2>2. QED BY <1>1, <1>3, <2>1 DEF ExperimentInv, ExperimentTypes
<1>6. starts' \in 0 .. MaxStarts /\ starts \in Nat
  BY <1>1 DEF ExperimentInv, ExperimentTypes, X!ExperimentsAssumption
<1>7. ExperimentTypes'
  BY <1>1, <1>5, <1>6 DEF ExperimentInv, ExperimentTypes, X!ExperimentStatus
<1>8. InStart'
  BY <1>4 DEF ExperimentInv, InStart
<1>9. Owed'
  <2>1. entered' \in [Variant -> Nat] /\ starts' \in Nat
    BY <1>1, <1>6 DEF ExperimentInv, ExperimentTypes
  <2>2. OwedStep(c)
    BY <1>1, <1>4, <2>1 DEF OwedStep
  <2>3. QED BY <2>2, OwedKept DEF ExperimentInv
<1>10. X!RowsAreEmpty'
  BY <1>1, <1>2, <1>4 DEF ExperimentInv, X!RowsAreEmpty
<1>11. QED BY <1>1, <1>7, <1>8, <1>9, <1>10 DEF ExperimentInv, X!ClosedStays

\* A row that is added has its call at its variant; an insert that fails, fails it.
LEMMA AddRowKeeps ==
  ASSUME X!ExperimentsAssumption, ExperimentInv, NEW c \in Caller, NEW u \in Variant, X!AddRow(c, u)
  PROVE  ExperimentInv'
<1>1. /\ start[c].pc = "next" /\ u \in start[c].todo
      /\ UNCHANGED <<state, window, starts, through, closed>>
  BY DEF X!AddRow
<1>2. start[c].at = {} /\ start[c].todo \subseteq Variant
  BY <1>1, StartFields DEF ExperimentInv, InStart
<1>3. PICK p \in {"next", "raising"}, t \in SUBSET Variant :
        /\ start'[c] = [pc |-> p, todo |-> start[c].todo \ {u}, at |-> t]
        /\ start' = [start EXCEPT ![c] = start'[c]]
        /\ \/ /\ p = "raising" /\ t = {u} /\ variant' = variant
              /\ entered' = [entered EXCEPT ![u] = entered[u] + 1]
           \/ p = "next" /\ t = {} /\ variant' = [variant EXCEPT ![u] = "failed"] /\ entered' = entered
  <2>1. CASE /\ entered' = [entered EXCEPT ![u] = @ + 1]
             /\ start' = [start EXCEPT ![c] = [pc |-> "raising", todo |-> @.todo \ {u}, at |-> {u}]]
             /\ UNCHANGED variant
    <3>1. start'[c] = [pc |-> "raising", todo |-> start[c].todo \ {u}, at |-> {u}]
      BY <2>1 DEF ExperimentInv, ExperimentTypes
    <3>2. {u} \in SUBSET Variant
      OBVIOUS
    <3>3. QED BY <2>1, <3>1, <3>2
  <2>2. CASE /\ variant' = [variant EXCEPT ![u] = "failed"]
             /\ start' = [start EXCEPT ![c].todo = @ \ {u}]
             /\ UNCHANGED entered
    <3>1. start'[c] = [pc |-> "next", todo |-> start[c].todo \ {u}, at |-> {}]
      <4>1. start[c] = [pc |-> start[c].pc, todo |-> start[c].todo, at |-> start[c].at]
        BY StartFields DEF ExperimentInv
      <4>2. start'[c] = [start[c] EXCEPT !.todo = start[c].todo \ {u}]
        BY <2>2 DEF ExperimentInv, ExperimentTypes
      <4>3. QED BY <1>1, <1>2, <4>1, <4>2
    <3>2. start' = [start EXCEPT ![c] = start'[c]]
      BY <2>2 DEF ExperimentInv, ExperimentTypes
    <3>3. QED BY <2>2, <3>1, <3>2
  <2>3. QED BY <2>1, <2>2 DEF X!AddRow
<1>4. /\ start'[c].pc = p /\ start'[c].todo = start[c].todo \ {u} /\ start'[c].at = t
      /\ \A d \in Caller : d # c => start'[d] = start[d]
  BY <1>3 DEF ExperimentInv, ExperimentTypes
<1>5. start' \in [Caller -> X!Starts]
  <2>1. start'[c] \in X!Starts
    BY <1>2, <1>3 DEF X!Starts
  <2>2. QED BY <1>3, <2>1 DEF ExperimentInv, ExperimentTypes
<1>6. /\ variant' \in [Variant -> X!VariantStatus] /\ entered' \in [Variant -> Nat]
      /\ \A v \in Variant : entered'[v] = entered[v] \/ v = u
  <2>1. variant \in [Variant -> X!VariantStatus] /\ entered \in [Variant -> Nat]
    BY DEF ExperimentInv, ExperimentTypes
  <2>2. QED BY <1>3, <2>1 DEF X!VariantStatus
<1>7. ExperimentTypes'
  BY <1>1, <1>5, <1>6 DEF ExperimentInv, ExperimentTypes
<1>8. InStart'
  BY <1>3, <1>4 DEF ExperimentInv, InStart
<1>9. Owed'
  <2>1. starts' \in Nat /\ starts \in Nat /\ starts' = starts
    BY <1>1 DEF ExperimentInv, ExperimentTypes
  <2>2. ASSUME NEW v \in Variant
        PROVE  \/ entered'[v] = entered[v] /\ (v \in start'[c].todo => v \in start[c].todo)
               \/ entered'[v] = entered[v] + 1 /\ v \in start[c].todo /\ v \notin start'[c].todo
    <3>1. entered \in [Variant -> Nat]
      BY DEF ExperimentInv, ExperimentTypes
    <3>2. entered'[v] = entered[v] \/ (v = u /\ entered'[v] = entered[v] + 1)
      BY <1>3, <3>1
    <3>3. QED BY <1>1, <1>4, <3>2
  <2>3. start[c].pc # "platform" /\ start'[c].pc # "platform"
    BY <1>1, <1>3, <1>4
  <2>4. OwedStep(c)
    BY <1>4, <1>6, <2>1, <2>2, <2>3 DEF OwedStep, Owes
  <2>5. QED BY <2>4, OwedKept DEF ExperimentInv
<1>10. X!RowsAreEmpty'
  <2>1. SUFFICES ASSUME NEW v \in Variant, entered'[v] > 0
                 PROVE  variant'[v] = "failed" \/ \E d \in Caller : start'[d].at = {v}
    BY DEF X!RowsAreEmpty
  <2>2. CASE v = u
    BY <1>3, <1>4, <2>2 DEF ExperimentInv, ExperimentTypes
  <2>3. CASE v # u
    <3>1. entered[v] > 0 /\ variant'[v] = variant[v]
      BY <1>3, <1>6, <2>1, <2>3 DEF ExperimentInv, ExperimentTypes
    <3>2. variant[v] = "failed" \/ \E d \in Caller : start[d].at = {v}
      BY <3>1 DEF ExperimentInv, X!RowsAreEmpty
    <3>3. ASSUME NEW d \in Caller, start[d].at = {v} PROVE start'[d].at = {v}
      BY <1>2, <1>4, <3>3
    <3>4. QED BY <3>1, <3>2, <3>3
  <2>4. QED BY <2>2, <2>3
<1>11. X!ClosedStays'
  BY <1>1 DEF ExperimentInv, X!ClosedStays
<1>12. QED BY <1>7, <1>8, <1>9, <1>10, <1>11 DEF ExperimentInv

LEMMA RaisesKeeps ==
  ASSUME X!ExperimentsAssumption, ExperimentInv, NEW c \in Caller, X!AdapterRaises(c) PROVE ExperimentInv'
<1>1. /\ start[c].pc = "raising"
      /\ variant' = [v \in Variant |-> IF v \in start[c].at THEN "failed" ELSE variant[v]]
      /\ start' = [start EXCEPT ![c] = [pc |-> "next", todo |-> @.todo, at |-> {}]]
      /\ UNCHANGED <<state, window, entered, starts, through, closed>>
  BY DEF X!AdapterRaises, X!Outcome
<1>2. /\ start'[c] = [pc |-> "next", todo |-> start[c].todo, at |-> {}]
      /\ \A d \in Caller : d # c => start'[d] = start[d]
  BY <1>1 DEF ExperimentInv, ExperimentTypes
<1>3. start'[c].pc = "next" /\ start'[c].todo = start[c].todo /\ start'[c].at = {}
  BY <1>2
<1>4. start' \in [Caller -> X!Starts]
  <2>1. start'[c] \in X!Starts
    <3>1. start[c].todo \subseteq Variant
      BY StartFields DEF ExperimentInv
    <3>2. QED BY <1>2, <3>1 DEF X!Starts
  <2>2. QED BY <1>1, <1>2, <2>1 DEF ExperimentInv, ExperimentTypes
<1>5. variant' \in [Variant -> X!VariantStatus]
  BY <1>1 DEF ExperimentInv, ExperimentTypes, X!VariantStatus
<1>6. ExperimentTypes'
  BY <1>1, <1>4, <1>5 DEF ExperimentInv, ExperimentTypes
<1>7. InStart'
  BY <1>2, <1>3 DEF ExperimentInv, InStart
<1>8. Owed'
  <2>1. entered' \in [Variant -> Nat] /\ starts' \in Nat /\ starts \in Nat
    BY <1>1 DEF ExperimentInv, ExperimentTypes
  <2>2. OwedStep(c)
    BY <1>1, <1>2, <1>3, <2>1 DEF OwedStep, Owes
  <2>3. QED BY <2>2, OwedKept DEF ExperimentInv
<1>9. X!RowsAreEmpty'
  <2>1. SUFFICES ASSUME NEW v \in Variant, entered[v] > 0, variant'[v] # "failed"
                 PROVE  \E d \in Caller : start'[d].at = {v}
    BY <1>1 DEF X!RowsAreEmpty
  <2>2. variant[v] # "failed" /\ v \notin start[c].at
    BY <1>1, <2>1
  <2>3. PICK d \in Caller : start[d].at = {v}
    BY <2>1, <2>2 DEF ExperimentInv, X!RowsAreEmpty
  <2>4. d # c
    BY <2>2, <2>3
  <2>5. QED BY <1>2, <2>3, <2>4
<1>10. X!ClosedStays'
  BY <1>1 DEF ExperimentInv, X!ClosedStays
<1>11. QED BY <1>6, <1>7, <1>8, <1>9, <1>10 DEF ExperimentInv

LEMMA ExperimentStep ==
  ASSUME X!ExperimentsAssumption, ExperimentInv, [X!Next]_(X!vars) PROVE ExperimentInv'
<1>1. CASE UNCHANGED X!vars
  BY <1>1 DEF X!vars, ExperimentInv, ExperimentTypes, InStart, Owed, Owing, Owes, X!ClosedStays, X!RowsAreEmpty
<1>2. ASSUME NEW c \in Caller,
             \/ X!Begin(c) \/ X!PlatformMissing(c) \/ X!PlatformFound(c) \/ X!AdapterRaises(c) \/ X!Started(c)
             \/ \E v \in Variant : X!AddRow(c, v)
      PROVE  ExperimentInv'
  BY <1>2, BeginKeeps, CallMoves, RaisesKeeps, AddRowKeeps
<1>3. CASE X!WindowPasses \/ X!Settle \/ X!Cancel
  <2>1. /\ UNCHANGED <<variant, entered, start, starts, through>>
        /\ state' \in X!ExperimentStatus /\ window' \in BOOLEAN
        /\ closed' \in {"no", "settled", "cancelled"} /\ (closed' # "no" => state' = closed')
    BY <1>3 DEF X!WindowPasses, X!Settle, X!Settling, X!Cancel, ExperimentInv, ExperimentTypes, X!ClosedStays,
       X!ExperimentStatus
  <2>2. ExperimentTypes'
    BY <2>1 DEF ExperimentInv, ExperimentTypes
  <2>3. InStart' /\ X!RowsAreEmpty'
    BY <2>1 DEF ExperimentInv, InStart, X!RowsAreEmpty
  <2>4. Owed'
    BY <2>1 DEF ExperimentInv, Owed, Owing, Owes
  <2>5. QED BY <2>1, <2>2, <2>3, <2>4 DEF ExperimentInv, X!ClosedStays
<1>4. QED BY <1>1, <1>2, <1>3 DEF X!Next

\* A variant has as many rows as starts, at most.
LEMMA ExperimentTyped ==
  ASSUME X!ExperimentsAssumption, ExperimentInv PROVE X!TypeOK
<1>1. ASSUME NEW v \in Variant PROVE entered[v] \in 0 .. MaxStarts
  <2>1. IsFiniteSet(Owing(v)) /\ entered[v] + Cardinality(Owing(v)) <= starts
    BY DEF ExperimentInv, Owed
  <2>2. Cardinality(Owing(v)) \in Nat
    BY <2>1, FS_CardinalityType
  <2>3. entered[v] \in Nat /\ starts \in 0 .. MaxStarts /\ MaxStarts \in Nat
    BY DEF ExperimentInv, ExperimentTypes, X!ExperimentsAssumption
  <2>4. entered[v] <= starts /\ starts <= MaxStarts
    BY <2>1, <2>2, <2>3
  <2>5. QED BY <2>3, <2>4
<1>2. entered \in [Variant -> 0 .. MaxStarts]
  BY <1>1 DEF ExperimentInv, ExperimentTypes
<1>3. QED BY <1>2 DEF ExperimentInv, ExperimentTypes, X!TypeOK

LEMMA ExperimentInvariant ==
  ASSUME X!ExperimentsAssumption PROVE X!Spec => []ExperimentInv
<1>1. X!Init => ExperimentInv BY ExperimentInit
<1>2. ExperimentInv /\ [X!Next]_(X!vars) => ExperimentInv' BY ExperimentStep
<1>3. QED BY <1>1, <1>2, PTL DEF X!Spec

\* The experiment, its variants and the calls of start keep their types; a variant
\* has as many rows as there were starts, at most.
THEOREM ExperimentsAreTyped ==
  ASSUME X!ExperimentsAssumption PROVE X!Spec => []X!TypeOK
<1>1. ExperimentInv => X!TypeOK BY ExperimentTyped
<1>2. QED BY <1>1, ExperimentInvariant, PTL

\* cancel and maybe_settle: a start that is under way reopens nothing, and a
\* cancelled experiment is not settled.
THEOREM ClosedExperimentsStay ==
  ASSUME X!ExperimentsAssumption PROVE X!Spec => []X!ClosedStays
<1>1. ExperimentInv => X!ClosedStays BY DEF ExperimentInv
<1>2. QED BY <1>1, ExperimentInvariant, PTL

\* start: a variant that has a row failed, or its adapter call is about to.
THEOREM RowsStandForNothing ==
  ASSUME X!ExperimentsAssumption PROVE X!Spec => []X!RowsAreEmpty
<1>1. ExperimentInv => X!RowsAreEmpty BY DEF ExperimentInv
<1>2. QED BY <1>1, ExperimentInvariant, PTL

-----------------------------------------------------------------------------
(* Targeting: what is resolved twice is the same.                              *)

\* Until an account fails or recovers, a run under review has a post for each
\* account its directive stands for.
AsResolved ==
    /\ turn = "new" => ~ moved
    /\ turn = "review" => /\ \A a \in Account : drafts[a] \in {"none", "review"}
                          /\ ~ moved => \A a \in Account : drafts[a] # "none" <=> a \in T!Resolve(directive)

TargetingInv == T!TypeOK /\ AsResolved /\ T!SameAccounts

LEMMA ResolvesToAccounts ==
  ASSUME NEW words, T!Pinned # {} PROVE T!Resolve(words) # {} /\ \E a \in T!Resolve(words) : a \in Account
<1> DEFINE S == {a \in IF T!IsEmpty(T!Combined(words)) THEN T!Pinned ELSE T!Wanted(T!Combined(words)) :
                    a \notin T!Combined(words).noIds /\ PluginOf[a] \notin T!Combined(words).noPlugins}
<1>1. T!Resolve(words) = IF S = {} THEN T!Pinned ELSE S
  BY DEF T!Resolve, T!Fallback
<1>2. T!Pinned \subseteq Account /\ S \subseteq Account
  BY DEF T!Pinned, T!Wanted, T!Connected
<1>3. QED BY <1>1, <1>2

LEMMA TargetingInit ==
  ASSUME T!TargetingAssumption, T!Init PROVE TargetingInv
<1>1. /\ pinned \in SUBSET Account /\ selector \in Stored /\ failing = {} /\ directive = {}
      /\ turn = "new" /\ barred = {} /\ drafts = [a \in Account |-> "none"] /\ turns = 0 /\ moved = FALSE
  BY DEF T!Init
<1>2. selector \in T!Selector /\ turns \in 0 .. MaxTurns
  BY <1>1 DEF T!TargetingAssumption
<1>3. QED BY <1>1, <1>2 DEF TargetingInv, T!TypeOK, AsResolved, T!SameAccounts

LEMMA StartTargets ==
  ASSUME T!TargetingAssumption, TargetingInv, NEW words \in Phrases, T!Start(words) PROVE TargetingInv'
<1>1. /\ turn = "new" /\ turn' = "review" /\ directive' = words
      /\ drafts' = [a \in Account |-> IF a \in T!Resolve(words) THEN "review" ELSE "none"]
      /\ UNCHANGED <<pinned, selector, failing, barred, turns, moved>>
  BY DEF T!Start
<1>2. words \subseteq T!Phrase
  BY DEF T!TargetingAssumption
<1>3. drafts' \in [Account -> {"none", "review", "published", "failed"}]
  BY <1>1
<1>4. T!TypeOK'
  BY <1>1, <1>2, <1>3 DEF TargetingInv, T!TypeOK
<1>5. T!Resolve(directive)' = T!Resolve(words)
  BY <1>1 DEF T!Resolve, T!Combined, T!Wanted, T!Connected, T!Fallback, T!Pinned
<1>6. \A a \in Account : (drafts'[a] # "none" <=> a \in T!Resolve(words)) /\ drafts'[a] \in {"none", "review"}
  BY <1>1
<1>7. AsResolved' /\ T!SameAccounts'
  BY <1>1, <1>5, <1>6 DEF AsResolved, T!SameAccounts
<1>8. QED BY <1>4, <1>7 DEF TargetingInv

LEMMA TurnTargets ==
  ASSUME T!TargetingAssumption, TargetingInv, NEW a \in Account, T!Turn(a) PROVE TargetingInv'
<1>1. /\ turn # "done" /\ turns < MaxTurns /\ turns' = turns + 1 /\ moved' = (moved \/ turn = "review")
      /\ failing' = IF a \in failing THEN failing \ {a} ELSE failing \cup {a}
      /\ UNCHANGED <<pinned, selector, directive, turn, drafts, barred>>
  BY DEF T!Turn
<1>2. failing \subseteq Account /\ turns \in 0 .. MaxTurns /\ MaxTurns \in Nat
  BY DEF TargetingInv, T!TypeOK, T!TargetingAssumption
<1>3. failing' \subseteq Account
  BY <1>1, <1>2
<1>4. turns' \in 0 .. MaxTurns
  BY <1>1, <1>2
<1>5. moved' \in BOOLEAN
  BY <1>1, Zenon DEF TargetingInv, T!TypeOK
<1>6. T!TypeOK'
  BY <1>1, <1>3, <1>4, <1>5 DEF TargetingInv, T!TypeOK
<1>7. AsResolved' /\ T!SameAccounts'
  BY <1>1 DEF TargetingInv, AsResolved, T!SameAccounts
<1>8. QED BY <1>6, <1>7 DEF TargetingInv

LEMMA ApproveTargets ==
  ASSUME T!TargetingAssumption, TargetingInv, NEW set \in SUBSET Account, T!Approve(set) PROVE TargetingInv'
<1>1. /\ turn = "review" /\ turn' = "done" /\ barred' = set
      /\ drafts' = [a \in Account |->
                      IF drafts[a] = "none" THEN "none"
                      ELSE IF a \in set THEN "failed"
                      ELSE IF a \in T!Resolve(directive) THEN "published" ELSE drafts[a]]
      /\ UNCHANGED <<pinned, selector, failing, directive, turns, moved>>
  BY DEF T!Approve, T!Words
<1>2. drafts' \in [Account -> {"none", "review", "published", "failed"}]
  BY <1>1 DEF TargetingInv, T!TypeOK
<1>3. T!TypeOK'
  BY <1>1, <1>2 DEF TargetingInv, T!TypeOK
<1>4. T!SameAccounts'
  <2>1. SUFFICES ASSUME ~ moved, NEW a \in Account, drafts'[a] # "none"
                 PROVE  drafts'[a] = IF a \in set THEN "failed" ELSE "published"
    BY <1>1 DEF T!SameAccounts
  <2>2. drafts[a] # "none"
    BY <1>1, <2>1
  <2>3. a \in T!Resolve(directive)
    BY <1>1, <2>1, <2>2 DEF TargetingInv, AsResolved
  <2>4. QED BY <1>1, <2>2, <2>3
<1>5. QED BY <1>1, <1>3, <1>4 DEF TargetingInv, AsResolved

LEMMA TargetingStep ==
  ASSUME T!TargetingAssumption, TargetingInv, [T!Next]_(T!targetVars) PROVE TargetingInv'
<1>1. CASE UNCHANGED T!targetVars
  BY <1>1 DEF T!targetVars, TargetingInv, T!TypeOK, AsResolved, T!SameAccounts, T!Resolve, T!Combined, T!Wanted, T!Connected,
     T!Fallback, T!Pinned
<1>2. ASSUME NEW words \in Phrases, T!Start(words) PROVE TargetingInv'
  BY <1>2, StartTargets
<1>3. ASSUME NEW a \in Account, T!Turn(a) PROVE TargetingInv'
  BY <1>3, TurnTargets
<1>4. ASSUME NEW set \in SUBSET Account, T!Approve(set) PROVE TargetingInv'
  BY <1>4, ApproveTargets
<1>5. CASE T!Reject
  <2>1. drafts' \in [Account -> {"none", "review", "published", "failed"}]
    BY <1>5 DEF T!Reject, TargetingInv, T!TypeOK
  <2>2. QED BY <1>5, <2>1 DEF T!Reject, TargetingInv, T!TypeOK, AsResolved, T!SameAccounts
<1>6. QED BY <1>1, <1>2, <1>3, <1>4, <1>5 DEF T!Next

LEMMA TargetsFound ==
  ASSUME TargetingInv PROVE T!NeverSilent
<1>1. SUFFICES ASSUME turn = "review", ~ moved, T!Pinned # {}
               PROVE  \E a \in Account : drafts[a] # "none"
  BY DEF T!NeverSilent
<1>2. QED BY <1>1, ResolvesToAccounts DEF TargetingInv, AsResolved

LEMMA TargetingInvariant ==
  ASSUME T!TargetingAssumption PROVE T!Spec => []TargetingInv
<1>1. T!Init => TargetingInv BY TargetingInit
<1>2. TargetingInv /\ [T!Next]_(T!targetVars) => TargetingInv' BY TargetingStep
<1>3. QED BY <1>1, <1>2, PTL DEF T!Spec

\* The pins, the words and the posts of a run keep their types.
THEOREM TargetingTypes ==
  ASSUME T!TargetingAssumption PROVE T!Spec => []T!TypeOK
<1>1. TargetingInv => T!TypeOK BY DEF TargetingInv
<1>2. QED BY <1>1, TargetingInvariant, PTL

\* _resolve_targets: an approved run posts to the accounts that were reviewed, unless
\* accounts failed or recovered between; whatever the words, the pins and the labels.
THEOREM RunsPostWhatWasReviewed ==
  ASSUME T!TargetingAssumption PROVE T!Spec => []T!SameAccounts
<1>1. TargetingInv => T!SameAccounts BY DEF TargetingInv
<1>2. QED BY <1>1, TargetingInvariant, PTL

\* A run with a pinned account that is connected starts with a post.
THEOREM RunsAreNotSilent ==
  ASSUME T!TargetingAssumption PROVE T!Spec => []T!NeverSilent
<1>1. TargetingInv => T!NeverSilent BY TargetsFound
<1>2. QED BY <1>1, TargetingInvariant, PTL

-----------------------------------------------------------------------------
(* Chats: decisions of messages, and requests that die.                        *)

\* Numbers below a bound have a greatest one.
LEMMA GreatestNumber ==
  ASSUME NEW U \in SUBSET Nat, U # {}, NEW b \in Nat, \A x \in U : x <= b
  PROVE  \E x \in U : \A y \in U : y <= x
<1> DEFINE B == {n \in Nat : \A x \in U : x <= n}
<1>1. B \in SUBSET Nat /\ b \in B
  OBVIOUS
<1>2. \E n \in B : \A m \in B : n <= m
  <2> HIDE DEF B
  <2>1. QED BY <1>1, LeastNumber
<1>3. PICK n \in B : \A m \in B : n <= m
  BY <1>2
<1>4. n \in Nat /\ \A x \in U : x <= n
  OBVIOUS
<1>5. ASSUME \A x \in U : x # n PROVE FALSE
  <2>1. PICK x \in U : TRUE
    OBVIOUS
  <2>2. n # 0
    BY <1>4, <1>5, <2>1
  <2>3. n - 1 \in Nat /\ \A y \in U : y <= n - 1
    BY <1>4, <1>5, <2>2
  <2>4. QED BY <1>3, <1>4, <2>3
<1>6. QED BY <1>4, <1>5

SessionRow(rs, ms) ==
    [run : rs, chat : Chats, number : Nat, ref : Nat, status : C!SessionStatus, shows : BOOLEAN,
     by : Seq(ms), rushed : BOOLEAN]
MessageRow == [chat : Chats, text : C!Texts, reply : Nat, tap : BOOLEAN, picture : BOOLEAN,
               due : BOOLEAN, barred : BOOLEAN]
RunRow == [chat : Chats, status : C!RunStatus, picture : BOOLEAN]
RequestRow(m, r, s) ==
    [pc : {"idle", "resuming", "drafting", "sending", "saving", "closing"},
     msg : 0 .. m, run : 0 .. r, session : 0 .. s, ref : Nat, verdict : C!SessionStatus,
     picture : BOOLEAN]

\* Numbers of messages grow; the bot's are its own, and one chat's but on Telegram.
NumbersGrow ==
    /\ \E b \in Nat : \A c \in Chats : last[c] <= b
    /\ \A c \in Chats : \A n \in said[c] : 0 < n /\ n <= last[c]
    /\ channel # "telegram" => \A c, d \in Chats : c # d => said[c] \cap said[d] = {}
RepliesAreSaid == \A i \in DOMAIN messages : messages[i].reply \in {0} \cup said[messages[i].chat]
RefsAreSaid ==
    \A s \in DOMAIN sessions :
       /\ sessions[s].number \in {0} \cup said[sessions[s].chat]
       /\ sessions[s].ref \in {0, sessions[s].number}

\* What the requests have in hand, and that the draft one sends is its own.
AtHand(q) ==
    IF req[q].pc = "idle" THEN req[q].run = 0
    ELSE /\ req[q].msg # 0 /\ req[q].run # 0
         /\ req[q].pc # "drafting" => req[q].session # 0
         /\ req[q].pc \in {"resuming", "drafting", "sending"} => req[q].ref = 0
         /\ req[q].pc = "sending" =>
               sessions[req[q].session].number = 0 /\ sessions[req[q].session].ref = 0
         /\ req[q].pc = "saving" =>
               /\ sessions[req[q].session].ref = 0
               /\ req[q].ref \in {0, sessions[req[q].session].number}
AtWork == \A q \in Requests : AtHand(q)
Apart ==
    \A p, q \in Requests :
       p # q /\ req[p].pc \in {"sending", "saving"} /\ req[q].pc \in {"sending", "saving"}
       => req[p].session # req[q].session

\* A session has the status its last message gave it.
ByItsLast ==
    \A s \in DOMAIN sessions : sessions[s].status # "pending" =>
       sessions[s].by # <<>> /\ C!Verdict(C!Decider(s).text) = sessions[s].status
\* On a run whose newest draft was decided at rest nobody is sending a draft.
Workers ==
    \A s \in DOMAIN sessions :
       C!Newest(s) /\ sessions[s].status # "pending" /\ ~ sessions[s].rushed =>
          \A q \in Requests : req[q].run = sessions[s].run => req[q].pc \in {"resuming", "drafting"}
\* And while the run waits, the decision is to be delivered or to be acted upon.
ActedUpon(s) ==
    \E q \in Requests : /\ req[q].pc = "resuming" /\ req[q].run = sessions[s].run
                        /\ req[q].msg = sessions[s].by[Len(sessions[s].by)]
                        /\ req[q].verdict = sessions[s].status
Held(s) ==
    /\ C!Newest(s) /\ sessions[s].status \in {"approved", "rejected"}
    /\ jobs[sessions[s].run].status = "awaiting"
    /\ C!Decider(s).reply = sessions[s].ref /\ sessions[s].ref # 0
    /\ ~ sessions[s].rushed
    => ActedUpon(s) \/ C!Decider(s).due \/ C!Decider(s).barred
DecisionsAreHeld == \A s \in DOMAIN sessions : Held(s)

Referring == NumbersGrow /\ RepliesAreSaid /\ RefsAreSaid
Verdicts == ByItsLast /\ Workers /\ DecisionsAreHeld
InboxInv ==
    /\ C!TypeOK /\ Referring /\ AtWork /\ Apart /\ Verdicts
    /\ C!OwnChat /\ C!LabelsAreNoFeedback /\ C!BriefPictureStays
-----------------------------------------------------------------------------
LEMMA InboxTyped ==
  ASSUME C!InboxAssumption, C!TypeOK
  PROVE  /\ messages \in Seq(MessageRow) /\ jobs \in Seq(RunRow)
         /\ Len(messages) \in Nat /\ Len(jobs) \in Nat /\ Len(sessions) \in Nat
         /\ DOMAIN messages = 1 .. Len(messages) /\ DOMAIN jobs = 1 .. Len(jobs)
         /\ DOMAIN sessions = 1 .. Len(sessions)
         /\ sessions \in Seq(SessionRow(1 .. Len(jobs), 1 .. Len(messages)))
         /\ req \in [Requests -> RequestRow(Len(messages), Len(jobs), Len(sessions))]
         /\ last \in [Chats -> Nat] /\ said \in [Chats -> SUBSET Nat]
<1>1. messages \in Seq(MessageRow) /\ jobs \in Seq(RunRow)
  BY DEF C!TypeOK, MessageRow, RunRow
<1>2. DOMAIN messages = 1 .. Len(messages) /\ DOMAIN jobs = 1 .. Len(jobs)
  BY <1>1
<1>3. sessions \in Seq(SessionRow(DOMAIN jobs, DOMAIN messages))
  BY DEF C!TypeOK, SessionRow
<1>4. req \in [Requests -> RequestRow(Len(messages), Len(jobs), Len(sessions))]
  BY DEF C!TypeOK, RequestRow
<1>5. QED BY <1>1, <1>2, <1>3, <1>4 DEF C!TypeOK

LEMMA TypedNext ==
  ASSUME channel' \in Channels, trigger' \in C!Trigger, last' \in [Chats -> Nat],
         said' \in [Chats -> SUBSET Nat], messages' \in Seq(MessageRow), jobs' \in Seq(RunRow),
         sessions' \in Seq(SessionRow(1 .. Len(jobs'), 1 .. Len(messages'))),
         req' \in [Requests -> RequestRow(Len(messages'), Len(jobs'), Len(sessions'))],
         troubles' \in 0 .. MaxTroubles[channel']
  PROVE  C!TypeOK'
<1>1. DOMAIN messages' = 1 .. Len(messages') /\ DOMAIN jobs' = 1 .. Len(jobs')
  OBVIOUS
<1>2. sessions' \in Seq(SessionRow(DOMAIN jobs', DOMAIN messages'))
  BY <1>1
<1>3. QED BY <1>2 DEF C!TypeOK, MessageRow, RunRow, SessionRow, RequestRow

\* One row of each table.
LEMMA RowsAreTyped ==
  ASSUME C!InboxAssumption, C!TypeOK
  PROVE  /\ \A i \in DOMAIN messages : messages[i] \in MessageRow
         /\ \A r \in DOMAIN jobs : jobs[r] \in RunRow
         /\ \A s \in DOMAIN sessions :
               sessions[s] \in SessionRow(1 .. Len(jobs), 1 .. Len(messages))
         /\ \A q \in Requests : req[q] \in RequestRow(Len(messages), Len(jobs), Len(sessions))
  BY InboxTyped

\* Rows stay rows when there are more messages, runs and sessions.
LEMMA RowsStay ==
  ASSUME NEW m \in Nat, NEW n \in Nat, NEW r \in Nat, NEW u \in Nat, m <= n, r <= u,
         NEW s \in SessionRow(1 .. r, 1 .. m)
  PROVE  s \in SessionRow(1 .. u, 1 .. n)
<1>1. 1 .. m \subseteq 1 .. n /\ 1 .. r \subseteq 1 .. u
  OBVIOUS
<1>2. s.by \in Seq(1 .. n)
  BY <1>1 DEF SessionRow
<1>3. QED BY <1>1, <1>2 DEF SessionRow

LEMMA NumberIsNew ==
  ASSUME C!TypeOK, NumbersGrow, NEW c \in Chats
  PROVE  /\ C!NextNumber(c) \in Nat /\ C!NextNumber(c) > last[c]
         /\ channel # "telegram" => \A d \in Chats : C!NextNumber(c) > last[d]
<1>1. last \in [Chats -> Nat]
  BY DEF C!TypeOK
<1>2. CASE channel = "telegram"
  BY <1>1, <1>2 DEF C!NextNumber
<1>3. CASE channel # "telegram"
  <2> DEFINE U == {last[d] : d \in Chats}
             peak == CHOOSE n \in U : \A d \in Chats : last[d] <= n
  <2>1. PICK b \in Nat : \A d \in Chats : last[d] <= b
    BY DEF NumbersGrow
  <2>2. U \in SUBSET Nat /\ U # {} /\ \A x \in U : x <= b
    BY <1>1, <2>1
  <2>3. \E x \in U : \A y \in U : y <= x
    <3> HIDE DEF U
    <3>1. QED BY <2>1, <2>2, GreatestNumber
  <2>4. \E n \in U : \A d \in Chats : last[d] <= n
    BY <2>3
  <2>5. peak \in U /\ \A d \in Chats : last[d] <= peak
    <3> HIDE DEF U
    <3>1. QED BY <2>4
  <2>6. C!NextNumber(c) = 1 + peak
    BY <1>3 DEF C!NextNumber
  <2>7. peak \in Nat
    BY <2>2, <2>5
  <2> HIDE DEF peak, U
  <2>8. QED BY <1>1, <2>5, <2>6, <2>7
<1>4. QED BY <1>2, <1>3

\* A new number in a chat, and perhaps a message of the bot with it.
LEMMA NumbersKeep ==
  ASSUME C!TypeOK, NumbersGrow, NEW c \in Chats, UNCHANGED channel,
         last' = [last EXCEPT ![c] = C!NextNumber(c)],
         said' = said \/ said' = [said EXCEPT ![c] = @ \cup {C!NextNumber(c)}]
  PROVE  /\ NumbersGrow' /\ last' \in [Chats -> Nat] /\ said' \in [Chats -> SUBSET Nat]
         /\ \A d \in Chats : said[d] \subseteq said'[d]
<1>1. last \in [Chats -> Nat] /\ said \in [Chats -> SUBSET Nat]
  BY DEF C!TypeOK
<1>2. PICK n \in Nat : n = C!NextNumber(c) /\ n > last[c]
                       /\ (channel # "telegram" => \A d \in Chats : n > last[d])
  BY NumberIsNew
<1>3. /\ last' = [last EXCEPT ![c] = n]
      /\ said' = said \/ said' = [said EXCEPT ![c] = @ \cup {n}]
  BY <1>2
<1>4. last' \in [Chats -> Nat] /\ said' \in [Chats -> SUBSET Nat]
  BY <1>1, <1>3
<1>5. \A d \in Chats : said[d] \subseteq said'[d] /\ said'[d] \subseteq said[d] \cup {n}
                       /\ (d # c => said'[d] = said[d])
  BY <1>1, <1>3
<1>6. \E b \in Nat : \A d \in Chats : last'[d] <= b
  <2>1. PICK b \in Nat : \A d \in Chats : last[d] <= b
    BY DEF NumbersGrow
  <2>2. b + n \in Nat /\ \A d \in Chats : last'[d] <= b + n
    BY <1>1, <1>2, <1>3, <2>1
  <2>3. QED BY <2>2
<1>7. \A d \in Chats : \A k \in said'[d] : 0 < k /\ k <= last'[d]
  <2>1. ASSUME NEW d \in Chats, NEW k \in said'[d] PROVE 0 < k /\ k <= last'[d]
    <3>1. CASE k \in said[d]
      <4>1. 0 < k /\ k <= last[d] /\ last[d] <= last'[d] /\ k \in Nat /\ last[d] \in Nat /\ last'[d] \in Nat
        BY <1>1, <1>2, <1>3, <3>1 DEF NumbersGrow
      <4>2. QED BY <4>1
    <3>2. CASE k \notin said[d]
      <4>1. d = c /\ k = n
        BY <1>5, <2>1, <3>2
      <4>2. QED BY <1>1, <1>2, <1>3, <4>1
    <3>3. QED BY <3>1, <3>2
  <2>2. QED BY <2>1
<1>8. ASSUME channel # "telegram", NEW d \in Chats, NEW e \in Chats, d # e
      PROVE  said'[d] \cap said'[e] = {}
  <2>1. said[d] \cap said[e] = {}
    BY <1>8 DEF NumbersGrow
  <2>2. \A f \in Chats : n \notin said[f]
    <3>1. SUFFICES ASSUME NEW f \in Chats, n \in said[f] PROVE FALSE
      OBVIOUS
    <3>2. n <= last[f] /\ n > last[f] /\ last[f] \in Nat
      BY <1>1, <1>2, <1>8, <3>1 DEF NumbersGrow
    <3>3. QED BY <3>2
  <2>3. QED BY <1>5, <1>8, <2>1, <2>2
<1>9. QED BY <1>4, <1>5, <1>6, <1>7, <1>8 DEF NumbersGrow

\* The greatest of some sessions.
LEMMA LatestIsThere ==
  ASSUME C!InboxAssumption, C!TypeOK, NEW S \in SUBSET DOMAIN sessions, S # {}
  PROVE  C!LatestOf(S) \in S /\ \A t \in S : t <= C!LatestOf(S)
<1>1. DOMAIN sessions = 1 .. Len(sessions) /\ Len(sessions) \in Nat
  BY InboxTyped
<1>2. S \in SUBSET Nat /\ \A x \in S : x <= Len(sessions)
  BY <1>1
<1>3. \E x \in S : \A y \in S : y <= x
  BY <1>1, <1>2, GreatestNumber
<1>4. QED BY <1>3 DEF C!LatestOf

Stays(i) ==
    /\ messages'[i].chat = messages[i].chat /\ messages'[i].text = messages[i].text
    /\ messages'[i].reply = messages[i].reply /\ messages'[i].tap = messages[i].tap
\* What is to be delivered is not taken for delivered.
StillDue(i) == messages[i].due \/ messages[i].barred

\* Who decided a session, in numbers.
LEMMA Decider_is ==
  ASSUME C!InboxAssumption, C!TypeOK, NEW s \in DOMAIN sessions, sessions[s].by # <<>>
  PROVE  /\ sessions[s].by \in Seq(1 .. Len(messages))
         /\ Len(sessions[s].by) \in DOMAIN sessions[s].by
         /\ sessions[s].by[Len(sessions[s].by)] \in 1 .. Len(messages)
         /\ C!Decider(s) = messages[sessions[s].by[Len(sessions[s].by)]]
<1>1. sessions[s] \in SessionRow(1 .. Len(jobs), 1 .. Len(messages))
  BY InboxTyped
<1>2. sessions[s].by \in Seq(1 .. Len(messages))
  BY <1>1 DEF SessionRow
<1>3. QED BY <1>2 DEF C!Decider

\* What is approved or rejected was so in as many words.
LEMMA FinalWords ==
  ASSUME C!InboxAssumption, C!TypeOK, ByItsLast, NEW s \in DOMAIN sessions,
         sessions[s].status \in {"approved", "rejected"}
  PROVE  sessions[s].by # <<>> /\ C!Decider(s).text \in {"approve", "reject"}
<1>1. sessions[s].by # <<>> /\ C!Verdict(C!Decider(s).text) = sessions[s].status
  BY DEF ByItsLast
<1>2. C!Decider(s).text \in C!Texts
  BY <1>1, Decider_is, RowsAreTyped, InboxTyped DEF MessageRow
<1>3. QED BY <1>1, <1>2 DEF C!Verdict, C!Texts

\* Steps that touch no session, run or request.
LEMMA ChatKeeps ==
  ASSUME C!InboxAssumption, InboxInv, UNCHANGED <<channel, jobs, sessions, req>>,
         trigger' \in C!Trigger, troubles' \in 0 .. MaxTroubles[channel],
         last' \in [Chats -> Nat], said' \in [Chats -> SUBSET Nat], NumbersGrow',
         \A d \in Chats : said[d] \subseteq said'[d],
         messages' \in Seq(MessageRow), Len(messages) <= Len(messages'),
         \A i \in 1 .. Len(messages) : Stays(i),
         \A i \in 1 .. Len(messages) :
            messages[i].text \in {"approve", "reject"} /\ StillDue(i) => StillDue(i)',
         \A i \in 1 .. Len(messages') :
            i <= Len(messages) \/ messages'[i].reply \in {0} \cup said'[messages'[i].chat]
  PROVE  InboxInv'
<1>1. /\ C!TypeOK /\ channel \in Channels /\ Len(messages) \in Nat /\ Len(messages') \in Nat
      /\ DOMAIN messages = 1 .. Len(messages) /\ DOMAIN messages' = 1 .. Len(messages')
      /\ jobs \in Seq(RunRow) /\ messages \in Seq(MessageRow)
      /\ Len(jobs) \in Nat /\ Len(sessions) \in Nat
  BY InboxTyped DEF InboxInv, C!TypeOK
<1>2. C!TypeOK'
  <2>1. sessions' \in Seq(SessionRow(1 .. Len(jobs'), 1 .. Len(messages')))
    <3>1. sessions \in Seq(SessionRow(1 .. Len(jobs), 1 .. Len(messages)))
      BY <1>1, InboxTyped
    <3>2. SessionRow(1 .. Len(jobs), 1 .. Len(messages)) \subseteq
          SessionRow(1 .. Len(jobs), 1 .. Len(messages'))
      BY <1>1, RowsStay
    <3>3. QED BY <3>1, <3>2
  <2>2. req' \in [Requests -> RequestRow(Len(messages'), Len(jobs'), Len(sessions'))]
    <3>1. req \in [Requests -> RequestRow(Len(messages), Len(jobs), Len(sessions))]
      BY <1>1, InboxTyped
    <3>2. 0 .. Len(messages) \subseteq 0 .. Len(messages')
      BY <1>1
    <3>3. QED BY <3>1, <3>2 DEF RequestRow
  <2>3. channel' \in Channels /\ troubles' \in 0 .. MaxTroubles[channel'] /\ jobs' \in Seq(RunRow)
    BY <1>1
  <2>4. QED BY <2>1, <2>2, <2>3, TypedNext
<1>3. ASSUME NEW s \in DOMAIN sessions, NEW k \in DOMAIN sessions[s].by
      PROVE  sessions[s].by[k] \in 1 .. Len(messages) /\ Stays(sessions[s].by[k])
  <2>1. sessions[s] \in SessionRow(1 .. Len(jobs), 1 .. Len(messages))
    BY <1>1, InboxTyped
  <2>2. sessions[s].by \in Seq(1 .. Len(messages))
    BY <2>1 DEF SessionRow
  <2>3. QED BY <2>2
<1>4. Referring'
  <2>1. RepliesAreSaid'
    <3>1. SUFFICES ASSUME NEW i \in 1 .. Len(messages') PROVE messages'[i].reply \in {0} \cup said'[messages'[i].chat]
      BY <1>1 DEF RepliesAreSaid
    <3>2. CASE i <= Len(messages)
      <4>1. i \in 1 .. Len(messages) /\ Stays(i) /\ messages[i] \in MessageRow
        BY <1>1, <3>2
      <4>2. messages[i].reply \in {0} \cup said[messages[i].chat] /\ messages[i].chat \in Chats
        BY <1>1, <4>1 DEF InboxInv, Referring, RepliesAreSaid, MessageRow
      <4>3. QED BY <4>1, <4>2 DEF Stays
    <3>3. QED BY <3>2
  <2>2. RefsAreSaid'
    <3>1. \A s \in DOMAIN sessions : sessions[s].chat \in Chats
      BY <1>1, RowsAreTyped DEF SessionRow
    <3>2. QED BY <3>1 DEF InboxInv, Referring, RefsAreSaid
  <2>3. QED BY <2>1, <2>2 DEF Referring
<1>5. AtWork' /\ Apart'
  BY DEF InboxInv, AtWork, AtHand, Apart
<1>6. Verdicts'
  <2>1. ASSUME NEW s \in DOMAIN sessions, sessions[s].by # <<>>
        PROVE  /\ C!Decider(s)'.text = C!Decider(s).text /\ C!Decider(s)'.reply = C!Decider(s).reply
               /\ C!Decider(s).text \in {"approve", "reject"} /\ (C!Decider(s).due \/ C!Decider(s).barred)
                     => C!Decider(s)'.due \/ C!Decider(s)'.barred
    <3>1. PICK i \in 1 .. Len(messages) : i = sessions[s].by[Len(sessions[s].by)]
      BY <1>1, <2>1, Decider_is
    <3>2. C!Decider(s) = messages[i] /\ C!Decider(s)' = messages'[i]
      BY <3>1 DEF C!Decider
    <3>3. Stays(i) /\ (messages[i].text \in {"approve", "reject"} /\ StillDue(i) => StillDue(i)')
      OBVIOUS
    <3>4. QED BY <3>2, <3>3 DEF Stays, StillDue
  <2>2. ByItsLast'
    BY <2>1 DEF InboxInv, Verdicts, ByItsLast, C!Verdict
  <2>3. Workers'
    BY DEF InboxInv, Verdicts, Workers, C!Newest
  <2>4. ASSUME NEW s \in DOMAIN sessions PROVE Held(s)'
    <3>1. Held(s)
      BY DEF InboxInv, Verdicts, DecisionsAreHeld
    <3>2. sessions[s].status \in {"approved", "rejected"} =>
             sessions[s].by # <<>> /\ C!Decider(s).text \in {"approve", "reject"}
      BY <1>1, FinalWords DEF InboxInv, Verdicts
    <3>3. (C!Newest(s)' <=> C!Newest(s)) /\ (ActedUpon(s)' <=> ActedUpon(s))
      BY DEF C!Newest, ActedUpon
    <3>4. QED BY <2>1, <3>1, <3>2, <3>3 DEF Held
  <2>5. QED BY <2>2, <2>3, <2>4 DEF Verdicts, DecisionsAreHeld
<1>7. C!OwnChat'
  BY <1>3 DEF InboxInv, C!OwnChat, Stays
<1>8. C!LabelsAreNoFeedback'
  <2>1. ASSUME NEW s \in DOMAIN sessions, sessions[s].by # <<>> PROVE 1 \in DOMAIN sessions[s].by
    BY <1>1, <2>1, Decider_is
  <2>2. ASSUME NEW s \in DOMAIN sessions, sessions[s].by # <<>> PROVE Stays(sessions[s].by[1])
    BY <1>3, <2>1, <2>2
  <2>3. QED BY <2>2 DEF InboxInv, C!LabelsAreNoFeedback, Stays
<1>9. C!BriefPictureStays'
  BY DEF InboxInv, C!BriefPictureStays
<1>10. QED BY <1>2, <1>4, <1>5, <1>6, <1>7, <1>8, <1>9 DEF InboxInv

LEMMA MessageKeeps ==
  ASSUME C!InboxAssumption, InboxInv, NEW c \in Chats, NEW text \in C!Texts, NEW reply \in {0} \cup said[c],
         NEW tap \in BOOLEAN, NEW pic \in BOOLEAN, C!Message(c, text, reply, tap, pic)
  PROVE  InboxInv'
<1>1. C!TypeOK /\ NumbersGrow /\ last \in [Chats -> Nat] /\ said \in [Chats -> SUBSET Nat]
      /\ messages \in Seq(MessageRow) /\ Len(messages) \in Nat
  BY InboxTyped DEF InboxInv, Referring
<1> DEFINE row == [chat |-> c, text |-> text, reply |-> reply, tap |-> tap,
                   picture |-> pic, due |-> TRUE, barred |-> FALSE]
<1>2. UNCHANGED <<channel, trigger, said, jobs, sessions, req, troubles>>
      /\ last' = [last EXCEPT ![c] = C!NextNumber(c)] /\ messages' = Append(messages, row)
  BY DEF C!Message
<1>3. row \in MessageRow /\ row.reply \in {0} \cup said[row.chat]
  <2>1. reply \in Nat
    BY <1>1
  <2>2. QED BY <2>1 DEF MessageRow
<1>4. NumbersGrow' /\ last' \in [Chats -> Nat] /\ said' \in [Chats -> SUBSET Nat]
  BY <1>1, <1>2, NumbersKeep
<1> HIDE DEF row
<1>5. messages' \in Seq(MessageRow) /\ Len(messages') = Len(messages) + 1
      /\ messages'[Len(messages) + 1] = row /\ \A i \in 1 .. Len(messages) : messages'[i] = messages[i]
  BY <1>1, <1>2, <1>3
<1>6. trigger' \in C!Trigger /\ troubles' \in 0 .. MaxTroubles[channel]
  BY <1>1, <1>2 DEF C!TypeOK
<1>7. \A i \in 1 .. Len(messages) : Stays(i) /\ (StillDue(i) => StillDue(i)')
  BY <1>5 DEF Stays, StillDue
<1>8. \A i \in 1 .. Len(messages') :
         i <= Len(messages) \/ messages'[i].reply \in {0} \cup said'[messages'[i].chat]
  <2>1. \A i \in 1 .. Len(messages') : i <= Len(messages) \/ i = Len(messages) + 1
    BY <1>1, <1>5
  <2>2. QED BY <1>2, <1>3, <1>5, <2>1
<1>9. Len(messages) <= Len(messages')
  BY <1>1, <1>5
<1>10. QED BY <1>2, <1>4, <1>5, <1>6, <1>7, <1>8, <1>9, ChatKeeps

\* One message is answered, refused or due again.
LEMMA DeliveryKeeps ==
  ASSUME C!InboxAssumption, InboxInv, UNCHANGED <<channel, jobs, sessions, req>>,
         trigger' \in C!Trigger, troubles' \in 0 .. MaxTroubles[channel],
         last' \in [Chats -> Nat], said' \in [Chats -> SUBSET Nat], NumbersGrow',
         \A d \in Chats : said[d] \subseteq said'[d],
         messages' \in Seq(MessageRow), Len(messages') = Len(messages),
         \A i \in 1 .. Len(messages) : Stays(i) /\
            (messages[i].text \in {"approve", "reject"} /\ StillDue(i) => StillDue(i)')
  PROVE  InboxInv'
<1>1. Len(messages) \in Nat
  BY InboxTyped DEF InboxInv
<1>2. Len(messages) <= Len(messages') /\ \A i \in 1 .. Len(messages') : i <= Len(messages)
  BY <1>1
<1>3. QED BY <1>2, ChatKeeps

LEMMA DropKeeps ==
  ASSUME C!InboxAssumption, InboxInv, NEW q \in Requests, NEW i \in DOMAIN messages, C!Drop(q, i)
  PROVE  InboxInv'
<1>1. C!TypeOK /\ NumbersGrow /\ messages \in Seq(MessageRow) /\ i \in 1 .. Len(messages)
  BY InboxTyped DEF InboxInv, Referring
<1>2. UNCHANGED <<channel, trigger, last, said, jobs, sessions, req, troubles>>
      /\ messages' = [messages EXCEPT ![i].due = FALSE, ![i].barred = TRUE]
  BY DEF C!Drop
<1>3. \A j \in 1 .. Len(messages) : messages[j] \in MessageRow
  BY <1>1, RowsAreTyped, InboxTyped
<1>4. messages' = [messages EXCEPT ![i] = [messages[i] EXCEPT !.due = FALSE, !.barred = TRUE]]
  BY <1>2
<1>5. [messages[i] EXCEPT !.due = FALSE, !.barred = TRUE] \in MessageRow
  BY <1>1, <1>3 DEF MessageRow
<1>6. messages' \in Seq(MessageRow) /\ Len(messages') = Len(messages)
  BY <1>1, <1>4, <1>5
<1>7. \A j \in 1 .. Len(messages) : Stays(j) /\ (StillDue(j) => StillDue(j)')
  <2>1. ASSUME NEW j \in 1 .. Len(messages) PROVE Stays(j) /\ (StillDue(j) => StillDue(j)')
    <3>1. CASE j = i
      BY <1>1, <1>3, <1>4, <3>1 DEF Stays, StillDue, MessageRow
    <3>2. CASE j # i
      BY <1>1, <1>4, <3>2 DEF Stays, StillDue
    <3>3. QED BY <3>1, <3>2
  <2>2. QED BY <2>1
<1>8. NumbersGrow' /\ trigger' \in C!Trigger /\ troubles' \in 0 .. MaxTroubles[channel]
      /\ last' \in [Chats -> Nat] /\ said' \in [Chats -> SUBSET Nat]
  BY <1>1, <1>2 DEF NumbersGrow, C!TypeOK
<1>9. QED BY <1>2, <1>6, <1>7, <1>8, DeliveryKeeps

\* A message marked due or answered stays the message it was.
LEMMA DueIsSet ==
  ASSUME C!InboxAssumption, C!TypeOK, NEW i \in DOMAIN messages, NEW due \in BOOLEAN,
         messages' = [messages EXCEPT ![i].due = due]
  PROVE  /\ messages' \in Seq(MessageRow) /\ Len(messages') = Len(messages)
         /\ \A j \in 1 .. Len(messages) : Stays(j) /\ (j # i \/ due => (StillDue(j) => StillDue(j)'))
         /\ messages'[i].due = due
<1>1. messages \in Seq(MessageRow) /\ i \in 1 .. Len(messages)
      /\ \A j \in 1 .. Len(messages) : messages[j] \in MessageRow
  BY InboxTyped, RowsAreTyped
<1>2. messages' = [messages EXCEPT ![i] = [messages[i] EXCEPT !.due = due]]
  OBVIOUS
<1>3. [messages[i] EXCEPT !.due = due] \in MessageRow
  BY <1>1 DEF MessageRow
<1>4. messages' \in Seq(MessageRow) /\ Len(messages') = Len(messages)
  BY <1>1, <1>2, <1>3
<1>5. ASSUME NEW j \in 1 .. Len(messages)
      PROVE Stays(j) /\ (j # i \/ due => (StillDue(j) => StillDue(j)'))
  <2>1. CASE j = i
    BY <1>1, <1>2, <2>1 DEF Stays, StillDue, MessageRow
  <2>2. CASE j # i
    BY <1>1, <1>2, <2>2 DEF Stays, StillDue
  <2>3. QED BY <2>1, <2>2
<1>6. messages'[i].due = due
  BY <1>1, <1>2 DEF MessageRow
<1>7. QED BY <1>4, <1>5, <1>6

LEMMA PromptKeeps ==
  ASSUME C!InboxAssumption, InboxInv, NEW q \in Requests, NEW i \in DOMAIN messages, C!Prompt(q, i)
  PROVE  InboxInv'
<1>1. C!TypeOK /\ NumbersGrow /\ i \in 1 .. Len(messages)
  BY InboxTyped DEF InboxInv, Referring
<1> DEFINE c == messages[i].chat
<1>2. c \in Chats
  BY <1>1, RowsAreTyped DEF MessageRow
<1>3. UNCHANGED <<channel, trigger, jobs, sessions, req, troubles>>
      /\ messages' = [messages EXCEPT ![i].due = FALSE] /\ messages[i].text = "revise"
      /\ ((C!Credentials /\ C!Say(c)) \/ UNCHANGED <<last, said>>)
  BY DEF C!Prompt, C!Answered, C!Ask, C!Intercepted
<1> HIDE DEF c
<1>4. /\ NumbersGrow' /\ last' \in [Chats -> Nat] /\ said' \in [Chats -> SUBSET Nat]
      /\ \A d \in Chats : said[d] \subseteq said'[d]
  <2>1. CASE UNCHANGED <<last, said>>
    BY <1>1, <1>3, <2>1 DEF NumbersGrow, C!TypeOK
  <2>2. CASE C!Say(c)
    BY <1>1, <1>2, <1>3, <2>2, NumbersKeep DEF C!Say
  <2>3. QED BY <1>3, <2>1, <2>2
<1>5. /\ messages' \in Seq(MessageRow) /\ Len(messages') = Len(messages)
      /\ \A j \in 1 .. Len(messages) : Stays(j) /\ (j # i => (StillDue(j) => StillDue(j)'))
  BY <1>1, <1>3, DueIsSet
<1>6. trigger' \in C!Trigger /\ troubles' \in 0 .. MaxTroubles[channel]
  BY <1>1, <1>3 DEF C!TypeOK
<1>7. \A j \in 1 .. Len(messages) : Stays(j) /\
            (messages[j].text \in {"approve", "reject"} /\ StillDue(j) => StillDue(j)')
  BY <1>3, <1>5
<1>8. QED BY <1>3, <1>4, <1>5, <1>6, <1>7, DeliveryKeeps

LEMMA GiveUpKeeps ==
  ASSUME C!InboxAssumption, InboxInv, NEW q \in Requests, C!GiveUp(q)
  PROVE  InboxInv'
<1>1. C!TypeOK /\ NumbersGrow
  BY DEF InboxInv, Referring
<1>2. UNCHANGED <<channel, trigger, last, said, jobs, sessions, req>>
      /\ messages' = [messages EXCEPT ![req[q].msg].due = TRUE] /\ req[q].pc # "idle"
      /\ troubles < MaxTroubles[channel] /\ troubles' = troubles + 1
  BY DEF C!GiveUp, C!Trouble
<1>3. req[q].msg \in DOMAIN messages
  BY <1>1, <1>2, RowsAreTyped, InboxTyped DEF InboxInv, AtWork, AtHand, RequestRow
<1>4. /\ messages' \in Seq(MessageRow) /\ Len(messages') = Len(messages)
      /\ \A j \in 1 .. Len(messages) : Stays(j) /\ (StillDue(j) => StillDue(j)')
  BY <1>1, <1>2, <1>3, DueIsSet
<1>5. troubles' \in 0 .. MaxTroubles[channel]
  BY <1>1, <1>2 DEF C!TypeOK, C!InboxAssumption
<1>6. trigger' \in C!Trigger /\ NumbersGrow' /\ last' \in [Chats -> Nat] /\ said' \in [Chats -> SUBSET Nat]
  BY <1>1, <1>2 DEF C!TypeOK, NumbersGrow
<1>7. QED BY <1>2, <1>4, <1>5, <1>6, DeliveryKeeps

LEMMA PagesKeep ==
  ASSUME C!InboxAssumption, InboxInv, C!Edit \/ C!Delete
  PROVE  InboxInv'
<1>1. C!TypeOK /\ NumbersGrow /\ messages \in Seq(MessageRow)
  BY InboxTyped DEF InboxInv, Referring
<1>2. UNCHANGED <<channel, last, said, messages, jobs, sessions, req>>
      /\ troubles < MaxTroubles[channel] /\ troubles' = troubles + 1
  BY DEF C!Edit, C!Delete, C!Trouble
<1>3. trigger' \in C!Trigger
  BY <1>1 DEF C!TypeOK, C!Trigger, C!Edit, C!Delete
<1>4. troubles' \in 0 .. MaxTroubles[channel]
  BY <1>1, <1>2 DEF C!TypeOK, C!InboxAssumption
<1>5. \A j \in 1 .. Len(messages) : Stays(j) /\ (StillDue(j) => StillDue(j)')
  BY <1>2 DEF Stays, StillDue
<1>6. NumbersGrow' /\ last' \in [Chats -> Nat] /\ said' \in [Chats -> SUBSET Nat]
  BY <1>1, <1>2 DEF C!TypeOK, NumbersGrow
<1>7. messages' \in Seq(MessageRow) /\ Len(messages') = Len(messages)
      /\ \A d \in Chats : said[d] \subseteq said'[d]
  BY <1>1, <1>2
<1>8. QED BY <1>2, <1>3, <1>4, <1>5, <1>6, <1>7, DeliveryKeeps

\* Steps that leave the sessions alone.
LEMMA SessionsKeep ==
  ASSUME C!InboxAssumption, InboxInv, UNCHANGED <<channel, trigger, last, said, sessions>>,
         messages' \in Seq(MessageRow), Len(messages') = Len(messages),
         \A i \in 1 .. Len(messages) : Stays(i),
         jobs' \in Seq(RunRow), Len(jobs) <= Len(jobs'),
         \A r \in 1 .. Len(jobs) : jobs'[r].picture = jobs[r].picture,
         req' \in [Requests -> RequestRow(Len(messages), Len(jobs'), Len(sessions))],
         troubles' \in 0 .. MaxTroubles[channel],
         AtWork', Apart', Workers', DecisionsAreHeld'
  PROVE  InboxInv'
<1>1. /\ C!TypeOK /\ channel \in Channels /\ Len(messages) \in Nat /\ Len(jobs) \in Nat
      /\ DOMAIN messages = 1 .. Len(messages) /\ DOMAIN messages' = 1 .. Len(messages)
      /\ Len(jobs') \in Nat /\ trigger \in C!Trigger /\ last \in [Chats -> Nat]
      /\ said \in [Chats -> SUBSET Nat]
  BY InboxTyped DEF InboxInv, C!TypeOK
<1>2. C!TypeOK'
  <2>1. sessions' \in Seq(SessionRow(1 .. Len(jobs'), 1 .. Len(messages')))
    <3>1. sessions \in Seq(SessionRow(1 .. Len(jobs), 1 .. Len(messages)))
      BY <1>1, InboxTyped
    <3>2. SessionRow(1 .. Len(jobs), 1 .. Len(messages)) \subseteq
          SessionRow(1 .. Len(jobs'), 1 .. Len(messages))
      BY <1>1, RowsStay
    <3>3. QED BY <3>1, <3>2
  <2>2. req' \in [Requests -> RequestRow(Len(messages'), Len(jobs'), Len(sessions'))]
    OBVIOUS
  <2>3. channel' \in Channels /\ troubles' \in 0 .. MaxTroubles[channel'] /\ trigger' \in C!Trigger
        /\ last' \in [Chats -> Nat] /\ said' \in [Chats -> SUBSET Nat]
    BY <1>1
  <2>4. QED BY <2>1, <2>2, <2>3, TypedNext
<1>3. ASSUME NEW s \in DOMAIN sessions, NEW k \in DOMAIN sessions[s].by
      PROVE  sessions[s].by[k] \in 1 .. Len(messages) /\ Stays(sessions[s].by[k])
  <2>1. sessions[s].by \in Seq(1 .. Len(messages))
    BY <1>1, RowsAreTyped DEF SessionRow
  <2>2. QED BY <2>1
<1>4. Referring'
  <2>1. RepliesAreSaid'
    BY <1>1 DEF RepliesAreSaid, InboxInv, Referring, Stays
  <2>2. RefsAreSaid' /\ NumbersGrow'
    BY DEF InboxInv, Referring, RefsAreSaid, NumbersGrow
  <2>3. QED BY <2>1, <2>2 DEF Referring
<1>5. ByItsLast'
  <2>1. ASSUME NEW s \in DOMAIN sessions, sessions[s].by # <<>>
        PROVE  C!Decider(s)'.text = C!Decider(s).text
    BY <1>1, <1>3, <2>1, Decider_is DEF C!Decider, Stays
  <2>2. QED BY <2>1 DEF InboxInv, Verdicts, ByItsLast
<1>6. C!OwnChat'
  BY <1>3 DEF InboxInv, C!OwnChat, Stays
<1>7. C!LabelsAreNoFeedback'
  <2>1. ASSUME NEW s \in DOMAIN sessions, sessions[s].by # <<>> PROVE Stays(sessions[s].by[1])
    BY <1>1, <1>3, <2>1, Decider_is
  <2>2. QED BY <2>1 DEF InboxInv, C!LabelsAreNoFeedback, Stays
<1>8. C!BriefPictureStays'
  <2>1. \A s \in DOMAIN sessions : sessions[s].run \in 1 .. Len(jobs)
    BY <1>1, RowsAreTyped DEF SessionRow
  <2>2. QED BY <2>1 DEF InboxInv, C!BriefPictureStays
<1>9. QED BY <1>2, <1>4, <1>5, <1>6, <1>7, <1>8 DEF InboxInv, Verdicts

\* A request at rest is none of the workers.
LEMMA RestKeeps ==
  ASSUME C!InboxAssumption, InboxInv, NEW q \in Requests, UNCHANGED sessions,
         req' = [req EXCEPT ![q] = C!Idle]
  PROVE  /\ req' \in [Requests -> RequestRow(Len(messages), Len(jobs), Len(sessions))]
         /\ AtWork' /\ Apart' /\ Workers'
<1>1. /\ C!TypeOK /\ Len(messages) \in Nat /\ Len(jobs) \in Nat /\ Len(sessions) \in Nat
      /\ req \in [Requests -> RequestRow(Len(messages), Len(jobs), Len(sessions))]
      /\ DOMAIN jobs = 1 .. Len(jobs)
  BY InboxTyped DEF InboxInv
<1>2. C!Idle \in RequestRow(Len(messages), Len(jobs), Len(sessions)) /\ C!Idle.pc = "idle" /\ C!Idle.run = 0
  BY <1>1 DEF C!Idle, RequestRow, C!SessionStatus
<1>3. req' \in [Requests -> RequestRow(Len(messages), Len(jobs), Len(sessions))]
  BY <1>1, <1>2
<1>4. req'[q] = C!Idle /\ \A p \in Requests : p # q => req'[p] = req[p]
  BY <1>1
<1>5. AtWork'
  BY <1>2, <1>4 DEF AtWork, AtHand, InboxInv
<1>6. Apart'
  BY <1>2, <1>4 DEF Apart, InboxInv
<1>7. Workers'
  <2>1. \A s \in DOMAIN sessions : sessions[s].run \in 1 .. Len(jobs)
    BY <1>1, RowsAreTyped DEF SessionRow
  <2>2. \A s \in DOMAIN sessions : sessions[s].run # 0
    BY <1>1, <2>1
  <2>3. QED BY <1>2, <1>4, <2>2 DEF Workers, C!Newest, InboxInv, Verdicts
<1>8. QED BY <1>3, <1>5, <1>6, <1>7

LEMMA RunChanges ==
  ASSUME C!InboxAssumption, C!TypeOK, NEW r \in DOMAIN jobs, NEW now \in C!RunStatus,
         jobs' = [jobs EXCEPT ![r].status = now]
  PROVE  /\ jobs' \in Seq(RunRow) /\ Len(jobs') = Len(jobs) /\ Len(jobs) <= Len(jobs')
         /\ \A t \in 1 .. Len(jobs) : jobs'[t].picture = jobs[t].picture /\ jobs'[t].chat = jobs[t].chat
         /\ jobs'[r].status = now
         /\ \A t \in 1 .. Len(jobs) : t # r => jobs'[t] = jobs[t]
<1>1. jobs \in Seq(RunRow) /\ r \in 1 .. Len(jobs) /\ \A t \in 1 .. Len(jobs) : jobs[t] \in RunRow
  BY InboxTyped, RowsAreTyped
<1>2. jobs' = [jobs EXCEPT ![r] = [jobs[r] EXCEPT !.status = now]]
  OBVIOUS
<1>3. [jobs[r] EXCEPT !.status = now] \in RunRow
  BY <1>1 DEF RunRow
<1>4. jobs' \in Seq(RunRow) /\ Len(jobs') = Len(jobs) /\ Len(jobs) \in Nat
  BY <1>1, <1>2, <1>3
<1>5. jobs'[r].status = now /\ jobs'[r].picture = jobs[r].picture /\ jobs'[r].chat = jobs[r].chat
  BY <1>1, <1>2 DEF RunRow
<1>6. \A t \in 1 .. Len(jobs) : t # r => jobs'[t] = jobs[t]
  BY <1>1, <1>2
<1>7. QED BY <1>4, <1>5, <1>6

LEMMA DieKeeps ==
  ASSUME C!InboxAssumption, InboxInv, NEW q \in Requests, C!Die(q)
  PROVE  InboxInv'
<1>1. C!TypeOK
  BY DEF InboxInv
<1>2. /\ UNCHANGED <<channel, trigger, last, said, sessions>> /\ req[q].pc # "idle"
      /\ req' = [req EXCEPT ![q] = C!Idle] /\ messages' = [messages EXCEPT ![req[q].msg].due = TRUE]
      /\ troubles < MaxTroubles[channel] /\ troubles' = troubles + 1
      /\ UNCHANGED jobs \/ jobs' = [jobs EXCEPT ![req[q].run].status = "failed"]
  BY DEF C!Die, C!Trouble
<1>3. req[q].msg \in DOMAIN messages /\ req[q].run \in DOMAIN jobs
  BY <1>1, <1>2, RowsAreTyped, InboxTyped DEF InboxInv, AtWork, AtHand, RequestRow
<1>4. /\ messages' \in Seq(MessageRow) /\ Len(messages') = Len(messages)
      /\ \A j \in 1 .. Len(messages) : Stays(j) /\ (StillDue(j) => StillDue(j)')
      /\ messages'[req[q].msg].due
  BY <1>1, <1>2, <1>3, DueIsSet
<1>5. troubles' \in 0 .. MaxTroubles[channel]
  BY <1>1, <1>2 DEF C!TypeOK, C!InboxAssumption
<1>6. /\ jobs' \in Seq(RunRow) /\ Len(jobs') = Len(jobs) /\ Len(jobs) <= Len(jobs')
      /\ \A r \in 1 .. Len(jobs) : jobs'[r].picture = jobs[r].picture
      /\ \A r \in 1 .. Len(jobs) : jobs'[r].status = "awaiting" => jobs[r].status = "awaiting"
  <2>1. CASE UNCHANGED jobs
    BY <1>1, <2>1, InboxTyped
  <2>2. CASE jobs' = [jobs EXCEPT ![req[q].run].status = "failed"]
    BY <1>1, <1>3, <2>2, RunChanges DEF C!RunStatus
  <2>3. QED BY <1>2, <2>1, <2>2
<1>7. /\ req' \in [Requests -> RequestRow(Len(messages), Len(jobs'), Len(sessions))]
      /\ AtWork' /\ Apart' /\ Workers'
  BY <1>2, <1>6, RestKeeps
<1>8. DecisionsAreHeld'
  <2>1. SUFFICES ASSUME NEW s \in DOMAIN sessions, C!Newest(s)', sessions[s].status \in {"approved", "rejected"},
                        jobs'[sessions[s].run].status = "awaiting",
                        C!Decider(s)'.reply = sessions[s].ref, sessions[s].ref # 0, ~ sessions[s].rushed
                 PROVE  ActedUpon(s)' \/ C!Decider(s)'.due \/ C!Decider(s)'.barred
    BY <1>2 DEF DecisionsAreHeld, Held
  <2>2. sessions[s].by # <<>> /\ C!Decider(s).text \in {"approve", "reject"}
    BY <1>1, <2>1, FinalWords DEF InboxInv, Verdicts
  <2>3. PICK j \in 1 .. Len(messages) : j = sessions[s].by[Len(sessions[s].by)] /\ C!Decider(s) = messages[j]
    BY <1>1, <2>2, Decider_is
  <2>4. C!Decider(s)' = messages'[j] /\ Stays(j) /\ (StillDue(j) => StillDue(j)')
    BY <1>2, <1>4, <2>3 DEF C!Decider
  <2>5. sessions[s].run \in 1 .. Len(jobs)
    BY <1>1, RowsAreTyped DEF SessionRow
  <2>6. C!Newest(s) /\ C!Decider(s).reply = sessions[s].ref /\ jobs[sessions[s].run].status = "awaiting"
    BY <1>2, <1>6, <2>1, <2>3, <2>4, <2>5 DEF C!Newest, Stays
  <2>7. ActedUpon(s) \/ StillDue(j)
    BY <2>1, <2>3, <2>6 DEF InboxInv, Verdicts, DecisionsAreHeld, Held, StillDue
  <2>8. CASE ActedUpon(s)
    <3>1. PICK p \in Requests : /\ req[p].pc = "resuming" /\ req[p].run = sessions[s].run
                                /\ req[p].msg = j /\ req[p].verdict = sessions[s].status
      BY <2>3, <2>8 DEF ActedUpon
    <3>2. CASE p = q
      BY <1>4, <2>4, <3>1, <3>2
    <3>3. CASE p # q
      <4>1. req'[p] = req[p]
        BY <1>1, <1>2, <3>3 DEF C!TypeOK
      <4>2. ActedUpon(s)'
        BY <1>2, <2>3, <3>1, <4>1 DEF ActedUpon
      <4>3. QED BY <4>2
    <3>4. QED BY <3>2, <3>3
  <2>9. CASE StillDue(j)
    BY <2>4, <2>9 DEF StillDue
  <2>10. QED BY <2>7, <2>8, <2>9
<1>9. QED BY <1>2, <1>4, <1>5, <1>6, <1>7, <1>8, SessionsKeep

\* The decision a waiting run's newest draft got, and who keeps it.
LEMMA HeldIs ==
  ASSUME C!InboxAssumption, InboxInv, NEW s \in DOMAIN sessions, C!Newest(s),
         sessions[s].status \in {"approved", "rejected"}, jobs[sessions[s].run].status = "awaiting",
         C!Decider(s).reply = sessions[s].ref, sessions[s].ref # 0, ~ sessions[s].rushed
  PROVE  \/ \E p \in Requests : /\ req[p].pc = "resuming" /\ req[p].run = sessions[s].run
                                /\ req[p].msg = sessions[s].by[Len(sessions[s].by)]
                                /\ req[p].verdict = sessions[s].status
         \/ C!Decider(s).due \/ C!Decider(s).barred
  BY DEF InboxInv, Verdicts, DecisionsAreHeld, Held, ActedUpon

\* Steps that touch neither sessions nor messages, and no run that waits.
LEMMA HeldStays ==
  ASSUME C!InboxAssumption, InboxInv, UNCHANGED <<sessions, messages>>,
         \A s \in DOMAIN sessions :
            /\ C!Newest(s) /\ sessions[s].status \in {"approved", "rejected"} /\ ~ sessions[s].rushed
            /\ jobs'[sessions[s].run].status = "awaiting"
            => /\ jobs[sessions[s].run].status = "awaiting"
               /\ \A p \in Requests : req[p].pc = "resuming" /\ req[p].run = sessions[s].run
                                      /\ req[p].verdict = sessions[s].status => req'[p] = req[p]
  PROVE  DecisionsAreHeld'
<1>1. SUFFICES ASSUME NEW s \in DOMAIN sessions, C!Newest(s)', sessions[s].status \in {"approved", "rejected"},
                      jobs'[sessions[s].run].status = "awaiting",
                      C!Decider(s)'.reply = sessions[s].ref, sessions[s].ref # 0, ~ sessions[s].rushed
               PROVE  ActedUpon(s)' \/ C!Decider(s)'.due \/ C!Decider(s)'.barred
  BY DEF DecisionsAreHeld, Held
<1>2. C!Newest(s) /\ C!Decider(s)' = C!Decider(s)
  BY <1>1 DEF C!Newest, C!Decider
<1>3. jobs[sessions[s].run].status = "awaiting"
  BY <1>1, <1>2
<1>4. CASE C!Decider(s).due \/ C!Decider(s).barred
  BY <1>2, <1>4
<1>5. CASE \E p \in Requests : /\ req[p].pc = "resuming" /\ req[p].run = sessions[s].run
                               /\ req[p].msg = sessions[s].by[Len(sessions[s].by)]
                               /\ req[p].verdict = sessions[s].status
  <2>1. PICK p \in Requests : /\ req[p].pc = "resuming" /\ req[p].run = sessions[s].run
                              /\ req[p].msg = sessions[s].by[Len(sessions[s].by)]
                              /\ req[p].verdict = sessions[s].status
    BY <1>5
  <2>2. req'[p] = req[p]
    BY <1>1, <1>2, <2>1
  <2>3. ActedUpon(s)'
    BY <2>1, <2>2 DEF ActedUpon
  <2>4. QED BY <2>3
<1>6. QED BY <1>1, <1>2, <1>3, <1>4, <1>5, HeldIs

LEMMA ResumeKeeps ==
  ASSUME C!InboxAssumption, InboxInv, NEW q \in Requests, C!Resume(q)
  PROVE  InboxInv'
<1> DEFINE r == req[q].run
<1>1. /\ C!TypeOK /\ messages \in Seq(MessageRow) /\ Len(messages) \in Nat /\ Len(jobs) \in Nat
      /\ Len(sessions) \in Nat /\ jobs \in Seq(RunRow)
      /\ req \in [Requests -> RequestRow(Len(messages), Len(jobs), Len(sessions))]
      /\ troubles \in 0 .. MaxTroubles[channel]
  BY InboxTyped DEF InboxInv, C!TypeOK
<1>2. /\ UNCHANGED <<channel, trigger, last, said, messages, sessions, troubles>>
      /\ req[q].pc = "resuming"
  BY DEF C!Resume
<1>3. r \in DOMAIN jobs
  BY <1>1, <1>2, RowsAreTyped, InboxTyped DEF InboxInv, AtWork, AtHand, RequestRow
<1>4. \A j \in 1 .. Len(messages) : Stays(j)
  BY <1>2 DEF Stays
<1>5. CASE (jobs[r].status # "awaiting" \/ req[q].verdict = "pending") /\ UNCHANGED jobs
           /\ req' = [req EXCEPT ![q] = C!Idle]
  <2>1. /\ req' \in [Requests -> RequestRow(Len(messages), Len(jobs), Len(sessions))]
        /\ AtWork' /\ Apart' /\ Workers'
    BY <1>2, <1>5, RestKeeps
  <2>2. \A p \in Requests : p # q => req'[p] = req[p]
    BY <1>1, <1>5
  <2>3. DecisionsAreHeld'
    BY <1>2, <1>5, <2>2, HeldStays
  <2>4. QED BY <1>1, <1>2, <1>4, <1>5, <2>1, <2>3, SessionsKeep
<1>6. CASE /\ req[q].verdict \in {"approved", "rejected"}
           /\ jobs' = [jobs EXCEPT ![r].status =
                          IF req[q].verdict = "approved" THEN "succeeded" ELSE "cancelled"]
           /\ req' = [req EXCEPT ![q] = C!Idle]
  <2> DEFINE now == IF req[q].verdict = "approved" THEN "succeeded" ELSE "cancelled"
  <2>1. /\ jobs' \in Seq(RunRow) /\ Len(jobs') = Len(jobs) /\ Len(jobs) <= Len(jobs')
        /\ \A t \in 1 .. Len(jobs) : jobs'[t].picture = jobs[t].picture
        /\ jobs'[r].status # "awaiting" /\ \A t \in 1 .. Len(jobs) : t # r => jobs'[t] = jobs[t]
    <3>1. now \in C!RunStatus /\ now # "awaiting"
      BY DEF C!RunStatus
    <3>2. jobs' = [jobs EXCEPT ![r].status = now]
      BY <1>6
    <3> HIDE DEF now, r
    <3>3. QED BY <1>1, <1>3, <3>1, <3>2, RunChanges
  <2>2. /\ req' \in [Requests -> RequestRow(Len(messages), Len(jobs), Len(sessions))]
        /\ AtWork' /\ Apart' /\ Workers'
    BY <1>2, <1>6, RestKeeps
  <2>3. \A p \in Requests : p # q => req'[p] = req[p]
    BY <1>1, <1>6
  <2>4. \A s \in DOMAIN sessions : sessions[s].run \in 1 .. Len(jobs)
    BY <1>1, RowsAreTyped DEF SessionRow
  <2>5. DecisionsAreHeld'
    BY <1>2, <2>1, <2>3, <2>4, HeldStays
  <2>6. QED BY <1>1, <1>2, <1>4, <2>1, <2>2, <2>5, SessionsKeep
<1>7. CASE /\ req[q].verdict = "revision_requested"
           /\ jobs' = [jobs EXCEPT ![r].status = "executing"]
           /\ req' = [req EXCEPT ![q].pc = "drafting"]
  <2>1. /\ jobs' \in Seq(RunRow) /\ Len(jobs') = Len(jobs) /\ Len(jobs) <= Len(jobs')
        /\ \A t \in 1 .. Len(jobs) : jobs'[t].picture = jobs[t].picture
        /\ jobs'[r].status # "awaiting" /\ \A t \in 1 .. Len(jobs) : t # r => jobs'[t] = jobs[t]
    <3>1. "executing" \in C!RunStatus
      BY DEF C!RunStatus
    <3> HIDE DEF r
    <3>2. QED BY <1>1, <1>3, <1>7, <3>1, RunChanges
  <2>2. /\ req'[q] = [req[q] EXCEPT !.pc = "drafting"] /\ \A p \in Requests : p # q => req'[p] = req[p]
        /\ req[q] \in RequestRow(Len(messages), Len(jobs), Len(sessions))
        /\ req' = [req EXCEPT ![q] = [req[q] EXCEPT !.pc = "drafting"]]
    BY <1>1, <1>7
  <2>3. [req[q] EXCEPT !.pc = "drafting"] \in RequestRow(Len(messages), Len(jobs), Len(sessions))
    BY <2>2 DEF RequestRow
  <2>4. req' \in [Requests -> RequestRow(Len(messages), Len(jobs), Len(sessions))]
    BY <1>1, <2>2, <2>3
  <2>5. /\ req'[q].pc = "drafting" /\ req'[q].run = req[q].run /\ req'[q].ref = req[q].ref
        /\ req'[q].msg = req[q].msg
    BY <2>2 DEF RequestRow
  <2>6. AtWork'
    BY <1>2, <2>2, <2>5 DEF AtWork, AtHand, InboxInv
  <2>7. Apart'
    BY <1>2, <2>2, <2>5 DEF Apart, InboxInv
  <2>8. Workers'
    BY <1>2, <2>2, <2>5 DEF Workers, C!Newest, InboxInv, Verdicts
  <2>9. \A s \in DOMAIN sessions : sessions[s].run \in 1 .. Len(jobs)
    BY <1>1, RowsAreTyped DEF SessionRow
  <2>10. DecisionsAreHeld'
    BY <1>2, <1>7, <2>1, <2>2, <2>9, HeldStays
  <2>11. QED BY <1>1, <1>2, <1>4, <2>1, <2>4, <2>6, <2>7, <2>8, <2>10, SessionsKeep
<1>8. QED BY <1>5, <1>6, <1>7 DEF C!Resume

LEMMA SendFailsKeeps ==
  ASSUME C!InboxAssumption, InboxInv, NEW q \in Requests, C!SendFails(q)
  PROVE  InboxInv'
<1>1. /\ C!TypeOK /\ messages \in Seq(MessageRow) /\ Len(messages) \in Nat /\ Len(jobs) \in Nat
      /\ Len(sessions) \in Nat /\ jobs \in Seq(RunRow)
      /\ req \in [Requests -> RequestRow(Len(messages), Len(jobs), Len(sessions))]
  BY InboxTyped DEF InboxInv
<1>2. /\ UNCHANGED <<channel, trigger, last, said, messages, jobs, sessions>>
      /\ req[q].pc = "sending" /\ req' = [req EXCEPT ![q].pc = "saving"]
  BY DEF C!SendFails
<1>3. troubles' \in 0 .. MaxTroubles[channel]
  <2>1. troubles' = troubles \/ (troubles < MaxTroubles[channel] /\ troubles' = troubles + 1)
    BY DEF C!SendFails, C!Trouble
  <2>2. QED BY <1>1, <2>1 DEF C!TypeOK, C!InboxAssumption
<1>4. \A j \in 1 .. Len(messages) : Stays(j)
  BY <1>2 DEF Stays
<1>5. /\ req'[q] = [req[q] EXCEPT !.pc = "saving"] /\ \A p \in Requests : p # q => req'[p] = req[p]
      /\ req[q] \in RequestRow(Len(messages), Len(jobs), Len(sessions))
      /\ req' = [req EXCEPT ![q] = [req[q] EXCEPT !.pc = "saving"]]
  BY <1>1, <1>2
<1>6. [req[q] EXCEPT !.pc = "saving"] \in RequestRow(Len(messages), Len(jobs), Len(sessions))
  BY <1>5 DEF RequestRow
<1>7. req' \in [Requests -> RequestRow(Len(messages), Len(jobs), Len(sessions))]
  BY <1>1, <1>5, <1>6
<1>8. /\ req'[q].pc = "saving" /\ req'[q].run = req[q].run /\ req'[q].ref = req[q].ref
      /\ req'[q].msg = req[q].msg /\ req'[q].session = req[q].session
  BY <1>5 DEF RequestRow
<1>9. AtHand(q) /\ \A p \in Requests : AtHand(p)
  BY DEF InboxInv, AtWork
<1>10. AtWork'
  <2>1. AtHand(q)'
    BY <1>2, <1>8, <1>9 DEF AtHand
  <2>2. \A p \in Requests : p # q => AtHand(p)'
    BY <1>2, <1>5, <1>9 DEF AtHand
  <2>3. QED BY <2>1, <2>2 DEF AtWork
<1>11. Apart'
  BY <1>2, <1>5, <1>8 DEF Apart, InboxInv
<1>12. Workers'
  BY <1>2, <1>5, <1>8 DEF Workers, C!Newest, InboxInv, Verdicts
<1>13. DecisionsAreHeld'
  BY <1>2, <1>5, HeldStays
<1>14. QED BY <1>1, <1>2, <1>3, <1>4, <1>7, <1>10, <1>11, <1>12, <1>13, SessionsKeep

LEMMA CloseKeeps ==
  ASSUME C!InboxAssumption, InboxInv, NEW q \in Requests, C!Close(q)
  PROVE  InboxInv'
<1> DEFINE r == req[q].run
<1>1. /\ C!TypeOK /\ messages \in Seq(MessageRow) /\ Len(messages) \in Nat /\ Len(jobs) \in Nat
      /\ Len(sessions) \in Nat
      /\ req \in [Requests -> RequestRow(Len(messages), Len(jobs), Len(sessions))]
      /\ troubles \in 0 .. MaxTroubles[channel]
  BY InboxTyped DEF InboxInv, C!TypeOK
<1>2. /\ UNCHANGED <<channel, trigger, last, said, messages, sessions, troubles>>
      /\ req[q].pc = "closing" /\ jobs' = [jobs EXCEPT ![r].status = "awaiting"]
      /\ req' = [req EXCEPT ![q] = C!Idle]
  BY DEF C!Close
<1>3. r \in DOMAIN jobs
  BY <1>1, <1>2, RowsAreTyped, InboxTyped DEF InboxInv, AtWork, AtHand, RequestRow
<1>4. \A j \in 1 .. Len(messages) : Stays(j)
  BY <1>2 DEF Stays
<1>5. /\ jobs' \in Seq(RunRow) /\ Len(jobs') = Len(jobs) /\ Len(jobs) <= Len(jobs')
      /\ \A t \in 1 .. Len(jobs) : jobs'[t].picture = jobs[t].picture
      /\ \A t \in 1 .. Len(jobs) : t # r => jobs'[t] = jobs[t]
  <2>1. "awaiting" \in C!RunStatus
    BY DEF C!RunStatus
  <2> HIDE DEF r
  <2>2. QED BY <1>1, <1>2, <1>3, <2>1, RunChanges
<1>6. /\ req' \in [Requests -> RequestRow(Len(messages), Len(jobs), Len(sessions))]
      /\ AtWork' /\ Apart' /\ Workers'
  BY <1>2, RestKeeps
<1>7. \A p \in Requests : p # q => req'[p] = req[p]
  BY <1>1, <1>2
<1>8. \A s \in DOMAIN sessions : sessions[s].run \in 1 .. Len(jobs)
  BY <1>1, RowsAreTyped DEF SessionRow
<1>9. \A s \in DOMAIN sessions :
         C!Newest(s) /\ sessions[s].status \in {"approved", "rejected"} /\ ~ sessions[s].rushed
         => sessions[s].run # r
  BY <1>2 DEF InboxInv, Verdicts, Workers
<1>10. DecisionsAreHeld'
  BY <1>2, <1>5, <1>7, <1>8, <1>9, HeldStays
<1>11. QED BY <1>1, <1>2, <1>4, <1>5, <1>6, <1>10, SessionsKeep

\* The rows of requests that begin.
RunBegun(i, r) == [C!Idle EXCEPT !.pc = "drafting", !.msg = i, !.run = r]
AnswerBegun(i, s, r, v) ==
    [C!Idle EXCEPT !.pc = "resuming", !.msg = i, !.session = s, !.run = r, !.verdict = v]

LEMMA NewRun ==
  ASSUME NEW m \in Nat, NEW n \in Nat, NEW u \in Nat, NEW i \in 0 .. m, NEW r \in 0 .. n
  PROVE  LET e == RunBegun(i, r) IN
         e \in RequestRow(m, n, u) /\ e.pc = "drafting" /\ e.msg = i /\ e.run = r /\ e.ref = 0
<1> DEFINE x == [C!Idle EXCEPT !.pc = "drafting"]
           a == [x EXCEPT !.msg = i]
<1>1. x \in RequestRow(m, n, u) /\ x.pc = "drafting" /\ x.ref = 0
  <2>1. C!Idle \in RequestRow(m, n, u) /\ C!Idle.ref = 0
    BY DEF C!Idle, RequestRow, C!SessionStatus
  <2>2. QED BY <2>1 DEF RequestRow
<1> HIDE DEF x
<1>2. a \in RequestRow(m, n, u) /\ a.pc = "drafting" /\ a.msg = i /\ a.ref = 0
  BY <1>1 DEF RequestRow
<1> HIDE DEF a
<1>3. LET e == [a EXCEPT !.run = r] IN
      e \in RequestRow(m, n, u) /\ e.pc = "drafting" /\ e.msg = i /\ e.run = r /\ e.ref = 0
  BY <1>2 DEF RequestRow
<1>4. QED BY <1>3 DEF a, x, RunBegun

LEMMA NewAnswer ==
  ASSUME NEW m \in Nat, NEW n \in Nat, NEW u \in Nat, NEW i \in 0 .. m, NEW r \in 0 .. n,
         NEW s \in 0 .. u, NEW v \in C!SessionStatus
  PROVE  LET e == AnswerBegun(i, s, r, v) IN
         /\ e \in RequestRow(m, n, u) /\ e.pc = "resuming" /\ e.msg = i /\ e.session = s
         /\ e.run = r /\ e.verdict = v /\ e.ref = 0
<1> DEFINE x == [C!Idle EXCEPT !.pc = "resuming"]
           a == [x EXCEPT !.msg = i]
           b == [a EXCEPT !.session = s]
           c == [b EXCEPT !.run = r]
           d == [c EXCEPT !.verdict = v]
<1>1. x \in RequestRow(m, n, u) /\ x.pc = "resuming" /\ x.ref = 0
  <2>1. C!Idle \in RequestRow(m, n, u) /\ C!Idle.ref = 0
    BY DEF C!Idle, RequestRow, C!SessionStatus
  <2>2. QED BY <2>1 DEF RequestRow
<1> HIDE DEF x
<1>2. a \in RequestRow(m, n, u) /\ a.pc = "resuming" /\ a.msg = i /\ a.ref = 0
  BY <1>1 DEF RequestRow
<1> HIDE DEF a
<1>3. b \in RequestRow(m, n, u) /\ b.pc = "resuming" /\ b.msg = i /\ b.ref = 0 /\ b.session = s
  BY <1>2 DEF RequestRow
<1> HIDE DEF b
<1>4. c \in RequestRow(m, n, u) /\ c.pc = "resuming" /\ c.msg = i /\ c.ref = 0 /\ c.session = s
      /\ c.run = r
  BY <1>3 DEF RequestRow
<1> HIDE DEF c
<1>5. d \in RequestRow(m, n, u) /\ d.pc = "resuming" /\ d.msg = i /\ d.ref = 0 /\ d.session = s
      /\ d.run = r /\ d.verdict = v
  BY <1>4 DEF RequestRow
<1>6. QED BY <1>5 DEF x, a, b, c, d, AnswerBegun

\* What a request that begins is given.
Begins(q, i) ==
    /\ req[q].pc = "idle" /\ \A p \in Requests : p # q => req'[p] = req[p]
    /\ req'[q] \in RequestRow(Len(messages), Len(jobs'), Len(sessions))
    /\ req'[q].pc \in {"resuming", "drafting"} /\ req'[q].msg = i /\ req'[q].run # 0
    /\ req'[q].ref = 0 /\ (req'[q].pc = "resuming" => req'[q].session # 0)

LEMMA BeginningIsTyped ==
  ASSUME C!InboxAssumption, InboxInv, NEW q \in Requests, NEW i \in DOMAIN messages, Begins(q, i),
         Len(jobs') \in Nat, Len(jobs) <= Len(jobs'), NEW row, req' = [req EXCEPT ![q] = row]
  PROVE  req' \in [Requests -> RequestRow(Len(messages), Len(jobs'), Len(sessions))]
<1>1. /\ req \in [Requests -> RequestRow(Len(messages), Len(jobs), Len(sessions))]
      /\ Len(jobs) \in Nat
  BY InboxTyped DEF InboxInv
<1>2. 0 .. Len(jobs) \subseteq 0 .. Len(jobs')
  BY <1>1
<1>3. \A p \in Requests : req'[p] \in RequestRow(Len(messages), Len(jobs'), Len(sessions))
  <2>1. ASSUME NEW p \in Requests, p # q
        PROVE req'[p] \in RequestRow(Len(messages), Len(jobs'), Len(sessions))
    <3>1. req[p] \in RequestRow(Len(messages), Len(jobs), Len(sessions)) /\ req'[p] = req[p]
      BY <1>1, <2>1 DEF Begins
    <3>2. QED BY <1>2, <3>1 DEF RequestRow
  <2>2. QED BY <2>1 DEF Begins
<1>4. DOMAIN req' = Requests /\ req' = [p \in Requests |-> req'[p]]
  BY <1>1
<1>5. QED BY <1>3, <1>4

LEMMA BeginningKeepsOthers ==
  ASSUME C!InboxAssumption, InboxInv, NEW q \in Requests, NEW i \in DOMAIN messages, Begins(q, i),
         \A s \in DOMAIN sessions : sessions'[s].number = sessions[s].number
                                    /\ sessions'[s].ref = sessions[s].ref
  PROVE  AtWork' /\ Apart'
<1>1. /\ i \in 1 .. Len(messages) /\ DOMAIN sessions = 1 .. Len(sessions)
      /\ req \in [Requests -> RequestRow(Len(messages), Len(jobs), Len(sessions))]
      /\ Len(messages) \in Nat /\ Len(sessions) \in Nat
  BY InboxTyped DEF InboxInv
<1>2. AtHand(q)'
  BY <1>1 DEF Begins, AtHand
<1>3. ASSUME NEW p \in Requests, p # q PROVE AtHand(p)'
  <2>1. req'[p] = req[p] /\ AtHand(p)
    BY <1>3 DEF Begins, InboxInv, AtWork
  <2>2. req[p].session \in 0 .. Len(sessions)
    BY <1>1 DEF RequestRow
  <2>3. req[p].session # 0 => req[p].session \in DOMAIN sessions
    BY <1>1, <2>2
  <2>4. QED BY <2>1, <2>3 DEF AtHand
<1>4. Apart'
  BY DEF Begins, Apart, InboxInv
<1>5. QED BY <1>2, <1>3, <1>4 DEF AtWork

\* A message that is answered now was not one that answers another open draft.
LEMMA AnsweringKeeps ==
  ASSUME C!InboxAssumption, InboxInv, NEW q \in Requests, NEW i \in DOMAIN messages, Begins(q, i),
         messages' = [messages EXCEPT ![i].due = FALSE],
         NEW s \in DOMAIN sessions, sessions'[s] = sessions[s], C!Newest(s)', C!Newest(s)' => C!Newest(s),
         jobs'[sessions[s].run].status = "awaiting" => jobs[sessions[s].run].status = "awaiting",
         messages[i].reply = sessions[s].ref /\ sessions[s].ref # 0
            => messages[i].text = "short"
  PROVE  Held(s)'
<1>1. SUFFICES ASSUME sessions[s].status \in {"approved", "rejected"},
                      jobs'[sessions[s].run].status = "awaiting",
                      C!Decider(s)'.reply = sessions[s].ref, sessions[s].ref # 0, ~ sessions[s].rushed
               PROVE  ActedUpon(s)' \/ C!Decider(s)'.due \/ C!Decider(s)'.barred
  BY DEF Held
<1>2. C!TypeOK /\ sessions[s].by # <<>> /\ C!Decider(s).text \in {"approve", "reject"}
  BY <1>1, FinalWords DEF InboxInv, Verdicts
<1>3. PICK j \in 1 .. Len(messages) : j = sessions[s].by[Len(sessions[s].by)] /\ C!Decider(s) = messages[j]
  BY <1>2, Decider_is
<1>4. /\ Stays(j) /\ (j # i => (StillDue(j) => StillDue(j)'))
  BY <1>2, DueIsSet
<1>5. C!Decider(s)' = messages'[j]
  BY <1>3 DEF C!Decider
<1>6. C!Newest(s) /\ jobs[sessions[s].run].status = "awaiting" /\ C!Decider(s).reply = sessions[s].ref
  BY <1>1, <1>3, <1>4, <1>5 DEF Stays
<1>7. CASE \E p \in Requests : /\ req[p].pc = "resuming" /\ req[p].run = sessions[s].run
                               /\ req[p].msg = sessions[s].by[Len(sessions[s].by)]
                               /\ req[p].verdict = sessions[s].status
  <2>1. PICK p \in Requests : /\ req[p].pc = "resuming" /\ req[p].run = sessions[s].run
                              /\ req[p].msg = sessions[s].by[Len(sessions[s].by)]
                              /\ req[p].verdict = sessions[s].status
    BY <1>7
  <2>2. req'[p] = req[p]
    BY <2>1 DEF Begins
  <2>3. ActedUpon(s)'
    BY <2>1, <2>2 DEF ActedUpon
  <2>4. QED BY <2>3
<1>8. CASE C!Decider(s).due \/ C!Decider(s).barred
  <2>1. j # i
    BY <1>1, <1>2, <1>3, <1>6
  <2>2. StillDue(j)'
    BY <1>3, <1>4, <1>8, <2>1 DEF StillDue
  <2>3. QED BY <1>5, <2>2 DEF StillDue
<1>9. QED BY <1>1, <1>6, <1>7, <1>8, HeldIs

LEMMA StartKeeps ==
  ASSUME C!InboxAssumption, InboxInv, NEW q \in Requests, NEW i \in DOMAIN messages, C!Start(q, i)
  PROVE  InboxInv'
<1>1. /\ C!TypeOK /\ messages \in Seq(MessageRow) /\ Len(messages) \in Nat /\ Len(jobs) \in Nat
      /\ Len(sessions) \in Nat /\ jobs \in Seq(RunRow) /\ i \in 1 .. Len(messages)
      /\ req \in [Requests -> RequestRow(Len(messages), Len(jobs), Len(sessions))]
      /\ troubles \in 0 .. MaxTroubles[channel] /\ messages[i] \in MessageRow
  BY InboxTyped, RowsAreTyped DEF InboxInv, C!TypeOK
<1>2. /\ UNCHANGED <<channel, trigger, last, said, sessions, troubles>>
      /\ req[q].pc = "idle" /\ messages' = [messages EXCEPT ![i].due = FALSE]
      /\ C!ByRef(messages[i].reply) = {}
      /\ req' = [req EXCEPT ![q] = [C!Idle EXCEPT !.pc = "drafting", !.msg = i, !.run = Len(jobs) + 1]]
  BY DEF C!Start, C!Arrives, C!Answered
<1>3. PICK kept \in C!Kept(messages[i]) :
         jobs' = Append(jobs, [chat |-> messages[i].chat, status |-> "executing", picture |-> kept])
  BY DEF C!Start
<1> DEFINE begun == [chat |-> messages[i].chat, status |-> "executing", picture |-> kept]
           row == [C!Idle EXCEPT !.pc = "drafting", !.msg = i, !.run = Len(jobs) + 1]
<1>4. begun \in RunRow
  <2>1. messages[i].picture \in BOOLEAN /\ messages[i].chat \in Chats
    BY <1>1 DEF MessageRow
  <2>2. kept \in BOOLEAN
    BY <2>1 DEF C!Kept
  <2>3. QED BY <2>1, <2>2 DEF RunRow, C!RunStatus
<1>5. /\ jobs' \in Seq(RunRow) /\ Len(jobs') = Len(jobs) + 1 /\ Len(jobs) <= Len(jobs')
      /\ \A r \in 1 .. Len(jobs) : jobs'[r] = jobs[r]
  <2> HIDE DEF begun
  <2>1. jobs' = Append(jobs, begun)
    BY <1>3 DEF begun
  <2>2. QED BY <1>1, <1>4, <2>1
<1>6. /\ row.pc = "drafting" /\ row.msg = i /\ row.run = Len(jobs) + 1 /\ row.ref = 0
      /\ row \in RequestRow(Len(messages), Len(jobs'), Len(sessions)) /\ row.run # 0
  <2>1. Len(jobs) + 1 \in 0 .. Len(jobs') /\ i \in 0 .. Len(messages) /\ Len(jobs) + 1 # 0
    BY <1>1, <1>5
  <2>2. Len(jobs') \in Nat
    BY <1>1, <1>5
  <2>3. Len(messages) \in Nat /\ Len(sessions) \in Nat
    BY <1>1
  <2> DEFINE n == Len(jobs) + 1
  <2>4. n \in 0 .. Len(jobs') /\ n # 0
    BY <2>1
  <2> HIDE DEF n
  <2>5. LET e == RunBegun(i, n) IN
        e \in RequestRow(Len(messages), Len(jobs'), Len(sessions)) /\ e.pc = "drafting"
        /\ e.msg = i /\ e.run = n /\ e.ref = 0
    BY ONLY <2>1, <2>2, <2>3, <2>4, NewRun
  <2>6. QED BY <2>4, <2>5 DEF n, RunBegun
<1>7. req' = [req EXCEPT ![q] = row] /\ req'[q] = row /\ \A p \in Requests : p # q => req'[p] = req[p]
  BY <1>1, <1>2
<1> HIDE DEF row, begun
<1>8. Begins(q, i)
  <2>1. req[q].pc = "idle" /\ (\A p \in Requests : p # q => req'[p] = req[p]) /\ req'[q] = row
    BY <1>2, <1>7
  <2>2. QED BY <1>6, <2>1 DEF Begins
<1>9. req' \in [Requests -> RequestRow(Len(messages), Len(jobs'), Len(sessions))]
  <2>1. Len(jobs') \in Nat /\ Len(jobs) <= Len(jobs') /\ req' = [req EXCEPT ![q] = row]
    BY <1>1, <1>5, <1>7
  <2>2. QED BY <1>8, <2>1, BeginningIsTyped
<1>10. AtWork' /\ Apart'
  BY <1>2, <1>8, BeginningKeepsOthers
<1>11. Workers'
  BY <1>2, <1>6, <1>7 DEF Workers, C!Newest, InboxInv, Verdicts
<1>12. \A s \in DOMAIN sessions : sessions[s].run \in 1 .. Len(jobs)
  BY <1>1, InboxTyped, RowsAreTyped DEF SessionRow
<1>13. DecisionsAreHeld'
  <2>1. ASSUME NEW s \in DOMAIN sessions PROVE Held(s)'
    <3>1. ~ (messages[i].reply = sessions[s].ref /\ sessions[s].ref # 0)
      BY <1>2 DEF C!ByRef
    <3>2. C!Newest(s)' <=> C!Newest(s)
      BY <1>2 DEF C!Newest
    <3>3. sessions'[s] = sessions[s] /\ jobs'[sessions[s].run] = jobs[sessions[s].run]
      BY <1>2, <1>5, <1>12
    <3>4. CASE C!Newest(s)'
      BY <1>2, <1>8, <3>1, <3>2, <3>3, <3>4, AnsweringKeeps
    <3>5. CASE ~ C!Newest(s)'
      BY <3>5 DEF Held
    <3>6. QED BY <3>4, <3>5
  <2>2. QED BY <1>2, <2>1 DEF DecisionsAreHeld
<1>14. /\ messages' \in Seq(MessageRow) /\ Len(messages') = Len(messages)
       /\ \A j \in 1 .. Len(messages) : Stays(j)
  BY <1>1, <1>2, DueIsSet
<1>15. QED BY <1>1, <1>2, <1>5, <1>9, <1>10, <1>11, <1>13, <1>14, SessionsKeep

LEMMA DraftKeeps ==
  ASSUME C!InboxAssumption, InboxInv, NEW q \in Requests, C!Draft(q)
  PROVE  InboxInv'
<1> DEFINE r == req[q].run
           n == Len(sessions) + 1
           row == [run |-> r, chat |-> jobs[r].chat, number |-> 0, ref |-> 0, status |-> "pending",
                   shows |-> C!Shows(q), by |-> <<>>, rushed |-> FALSE]
<1>1. /\ C!TypeOK /\ messages \in Seq(MessageRow) /\ Len(messages) \in Nat /\ Len(jobs) \in Nat
      /\ Len(sessions) \in Nat /\ jobs \in Seq(RunRow)
      /\ DOMAIN sessions = 1 .. Len(sessions) /\ DOMAIN jobs = 1 .. Len(jobs)
      /\ sessions \in Seq(SessionRow(1 .. Len(jobs), 1 .. Len(messages)))
      /\ req \in [Requests -> RequestRow(Len(messages), Len(jobs), Len(sessions))]
  BY InboxTyped DEF InboxInv
<1>2. /\ UNCHANGED <<channel, trigger, last, said, messages, troubles>>
      /\ req[q].pc = "drafting" /\ jobs' = [jobs EXCEPT ![r].status = "awaiting"]
      /\ sessions' = Append(sessions, row)
      /\ req' = [req EXCEPT ![q].pc = "sending", ![q].session = n]
  BY DEF C!Draft
<1>3. r \in 1 .. Len(jobs) /\ jobs[r] \in RunRow /\ req[q] \in RequestRow(Len(messages), Len(jobs), Len(sessions))
      /\ req[q].msg # 0 /\ req[q].ref = 0 /\ r # 0
  BY <1>1, <1>2, RowsAreTyped DEF InboxInv, AtWork, AtHand, RequestRow
<1>4. /\ jobs' \in Seq(RunRow) /\ Len(jobs') = Len(jobs)
      /\ \A t \in 1 .. Len(jobs) : jobs'[t].picture = jobs[t].picture
      /\ \A t \in 1 .. Len(jobs) : t # r => jobs'[t] = jobs[t]
  <2>1. "awaiting" \in C!RunStatus
    BY DEF C!RunStatus
  <2>2. r \in DOMAIN jobs /\ jobs' = [jobs EXCEPT ![r].status = "awaiting"]
    BY <1>1, <1>2, <1>3
  <2> HIDE DEF r
  <2>3. QED BY <1>1, <2>1, <2>2, RunChanges
<1>5. /\ row \in SessionRow(1 .. Len(jobs), 1 .. Len(messages)) /\ row.run = r /\ row.number = 0
      /\ row.ref = 0 /\ row.status = "pending" /\ row.by = <<>>
      /\ (jobs[r].picture => row.shows)
  <2>1. C!Shows(q) \in BOOLEAN /\ (jobs[r].picture => C!Shows(q))
    BY <1>3 DEF C!Shows, RunRow, RequestRow
  <2>2. jobs[r].chat \in Chats /\ <<>> \in Seq(1 .. Len(messages))
    BY <1>3 DEF RunRow
  <2>3. QED BY <1>3, <2>1, <2>2 DEF SessionRow, C!SessionStatus
<1> HIDE DEF row
<1>6. /\ sessions' \in Seq(SessionRow(1 .. Len(jobs), 1 .. Len(messages))) /\ Len(sessions') = n
      /\ sessions'[n] = row /\ \A s \in 1 .. Len(sessions) : sessions'[s] = sessions[s]
      /\ DOMAIN sessions' = 1 .. n
  BY <1>1, <1>2, <1>5
<1>7. /\ req'[q].pc = "sending" /\ req'[q].session = n /\ req'[q].run = r /\ req'[q].ref = 0
      /\ req'[q].msg = req[q].msg /\ \A p \in Requests : p # q => req'[p] = req[p]
      /\ req' \in [Requests -> RequestRow(Len(messages), Len(jobs), Len(sessions'))]
  <2> DEFINE a == [req[q] EXCEPT !.pc = "sending"]
             b == [a EXCEPT !.session = n]
  <2>1. a \in RequestRow(Len(messages), Len(jobs), Len(sessions)) /\ a.pc = "sending" /\ a.run = r
        /\ a.ref = 0 /\ a.msg = req[q].msg
    BY <1>3 DEF RequestRow
  <2>2. req' = [req EXCEPT ![q] = b]
    BY <1>2
  <2> HIDE DEF a
  <2>3. 0 .. Len(sessions) \subseteq 0 .. Len(sessions') /\ n \in 0 .. Len(sessions')
    BY <1>1, <1>6
  <2>4. b \in RequestRow(Len(messages), Len(jobs), Len(sessions')) /\ b.pc = "sending"
        /\ b.session = n /\ b.run = r /\ b.ref = 0 /\ b.msg = req[q].msg
    BY <2>1, <2>3 DEF RequestRow
  <2>5. RequestRow(Len(messages), Len(jobs), Len(sessions)) \subseteq
        RequestRow(Len(messages), Len(jobs), Len(sessions'))
    BY <2>3 DEF RequestRow
  <2> HIDE DEF b
  <2>6. req' \in [Requests -> RequestRow(Len(messages), Len(jobs), Len(sessions'))]
    BY <1>1, <2>2, <2>4, <2>5
  <2>7. req'[q] = b /\ \A p \in Requests : p # q => req'[p] = req[p]
    BY <1>1, <2>2
  <2>8. QED BY <2>4, <2>6, <2>7
<1> HIDE DEF r
<1>8. C!TypeOK'
  <2>1. /\ channel' \in Channels /\ trigger' \in C!Trigger /\ last' \in [Chats -> Nat]
        /\ said' \in [Chats -> SUBSET Nat] /\ troubles' \in 0 .. MaxTroubles[channel']
        /\ messages' \in Seq(MessageRow) /\ jobs' \in Seq(RunRow)
    BY <1>1, <1>2, <1>4 DEF C!TypeOK
  <2>2. sessions' \in Seq(SessionRow(1 .. Len(jobs'), 1 .. Len(messages')))
    BY <1>2, <1>4, <1>6
  <2>3. req' \in [Requests -> RequestRow(Len(messages'), Len(jobs'), Len(sessions'))]
    BY <1>2, <1>4, <1>7
  <2>4. QED BY <2>1, <2>2, <2>3, TypedNext
<1>9. \A s \in 1 .. n : s = n \/ s \in 1 .. Len(sessions)
  BY <1>1
<1>10. Referring'
  <2>1. RepliesAreSaid' /\ NumbersGrow'
    BY <1>2 DEF InboxInv, Referring, RepliesAreSaid, NumbersGrow
  <2>2. RefsAreSaid'
    <3>1. SUFFICES ASSUME NEW s \in 1 .. n
                   PROVE  /\ sessions'[s].number \in {0} \cup said[sessions'[s].chat]
                          /\ sessions'[s].ref \in {0, sessions'[s].number}
      BY <1>2, <1>6 DEF RefsAreSaid
    <3>2. QED BY <1>1, <1>5, <1>6, <1>9 DEF InboxInv, Referring, RefsAreSaid
  <2>3. QED BY <2>1, <2>2 DEF Referring
<1>11. AtWork'
  <2>1. AtHand(q)'
    BY <1>3, <1>5, <1>6, <1>7, <1>1 DEF AtHand
  <2>2. ASSUME NEW p \in Requests, p # q PROVE AtHand(p)'
    <3>1. req'[p] = req[p] /\ AtHand(p) /\ req[p].session \in 0 .. Len(sessions)
      BY <1>1, <1>7, <2>2 DEF InboxInv, AtWork, RequestRow
    <3>2. req[p].session # 0 => sessions'[req[p].session] = sessions[req[p].session]
      BY <1>1, <1>6, <3>1
    <3>3. QED BY <3>1, <3>2 DEF AtHand
  <2>3. QED BY <2>1, <2>2 DEF AtWork
<1>12. Apart'
  <2>1. \A p \in Requests : p # q => req'[p].session # n
    <3>1. \A p \in Requests : req[p].session \in 0 .. Len(sessions)
      BY <1>1 DEF RequestRow
    <3>2. QED BY <1>1, <1>7, <3>1
  <2>2. QED BY <1>7, <2>1 DEF Apart, InboxInv
\* Older sessions of the run are no longer its newest.
<1>13. \A s \in 1 .. Len(sessions) : C!Newest(s)' => C!Newest(s) /\ sessions[s].run # r
  <2>1. ASSUME NEW s \in 1 .. Len(sessions), C!Newest(s)' PROVE C!Newest(s) /\ sessions[s].run # r
    <3>1. \A t \in 1 .. n : sessions'[t].run = sessions'[s].run => t <= s
      BY <1>6, <2>1 DEF C!Newest
    <3>2. sessions'[s] = sessions[s] /\ s < n /\ n \in 1 .. n
      BY <1>1, <1>6
    <3>3. sessions[s].run # r
      BY <1>1, <1>5, <1>6, <3>1, <3>2
    <3>4. C!Newest(s)
      BY <1>1, <1>6, <3>1, <3>2 DEF C!Newest
    <3>5. QED BY <3>3, <3>4
  <2>2. QED BY <2>1
<1>14. ByItsLast'
  <2>1. ASSUME NEW s \in 1 .. n, sessions'[s].status # "pending"
        PROVE  sessions'[s].by # <<>> /\ C!Verdict(C!Decider(s)'.text) = sessions'[s].status
    <3>1. s \in 1 .. Len(sessions) /\ sessions'[s] = sessions[s]
      BY <1>5, <1>6, <1>9, <2>1
    <3>2. C!Decider(s)' = C!Decider(s)
      BY <1>2, <3>1 DEF C!Decider
    <3>3. QED BY <1>1, <2>1, <3>1, <3>2 DEF InboxInv, Verdicts, ByItsLast
  <2>2. QED BY <1>6, <2>1 DEF ByItsLast
<1>15. Workers'
  <2>1. ASSUME NEW s \in 1 .. n, C!Newest(s)', sessions'[s].status # "pending", ~ sessions'[s].rushed,
               NEW p \in Requests, req'[p].run = sessions'[s].run
        PROVE  req'[p].pc \in {"resuming", "drafting"}
    <3>1. s \in 1 .. Len(sessions) /\ sessions'[s] = sessions[s]
      BY <1>5, <1>6, <1>9, <2>1
    <3>2. C!Newest(s) /\ sessions[s].run # r
      BY <1>13, <2>1, <3>1
    <3>3. p # q /\ req'[p] = req[p]
      BY <1>7, <2>1, <3>1, <3>2
    <3>4. QED BY <1>1, <2>1, <3>1, <3>2, <3>3 DEF InboxInv, Verdicts, Workers
  <2>2. QED BY <1>6, <2>1 DEF Workers
<1>16. DecisionsAreHeld'
  <2>1. ASSUME NEW s \in 1 .. n PROVE Held(s)'
    <3>1. CASE s = n
      BY <1>5, <1>6, <3>1 DEF Held
    <3>2. CASE s \in 1 .. Len(sessions)
      <4>1. SUFFICES ASSUME C!Newest(s)', sessions'[s].status \in {"approved", "rejected"},
                            jobs'[sessions'[s].run].status = "awaiting",
                            C!Decider(s)'.reply = sessions'[s].ref, sessions'[s].ref # 0,
                            ~ sessions'[s].rushed
                     PROVE  ActedUpon(s)' \/ C!Decider(s)'.due \/ C!Decider(s)'.barred
        BY DEF Held
      <4>2. sessions'[s] = sessions[s] /\ C!Newest(s) /\ sessions[s].run # r /\ s \in DOMAIN sessions
        BY <1>1, <1>6, <1>13, <3>2, <4>1
      <4>3. C!Decider(s)' = C!Decider(s)
        BY <1>2, <4>2 DEF C!Decider
      <4>4. sessions[s].run \in 1 .. Len(jobs)
        BY <1>1, <4>2, RowsAreTyped DEF SessionRow
      <4>5. jobs[sessions[s].run].status = "awaiting"
        BY <1>4, <4>1, <4>2, <4>4
      <4>6. CASE C!Decider(s).due \/ C!Decider(s).barred
        BY <4>3, <4>6
      <4>7. CASE \E p \in Requests : /\ req[p].pc = "resuming" /\ req[p].run = sessions[s].run
                                     /\ req[p].msg = sessions[s].by[Len(sessions[s].by)]
                                     /\ req[p].verdict = sessions[s].status
        <5>1. PICK p \in Requests : /\ req[p].pc = "resuming" /\ req[p].run = sessions[s].run
                                    /\ req[p].msg = sessions[s].by[Len(sessions[s].by)]
                                    /\ req[p].verdict = sessions[s].status
          BY <4>7
        <5>2. req'[p] = req[p]
          BY <1>2, <1>7, <5>1
        <5>3. ActedUpon(s)'
          BY <4>2, <5>1, <5>2 DEF ActedUpon
        <5>4. QED BY <5>3
      <4>8. QED BY <4>1, <4>2, <4>3, <4>5, <4>6, <4>7, HeldIs
    <3>3. QED BY <1>9, <3>1, <3>2
  <2>2. QED BY <1>6, <2>1 DEF DecisionsAreHeld
<1>17. C!OwnChat'
  <2>1. ASSUME NEW s \in 1 .. n, NEW k \in DOMAIN sessions'[s].by
        PROVE  s \in DOMAIN sessions /\ sessions'[s] = sessions[s]
    BY <1>1, <1>5, <1>6, <1>9, <2>1
  <2>2. QED BY <1>2, <1>6, <2>1 DEF InboxInv, C!OwnChat
<1>18. C!LabelsAreNoFeedback'
  <2>1. ASSUME NEW s \in 1 .. n, sessions'[s].by # <<>>
        PROVE  s \in DOMAIN sessions /\ sessions'[s] = sessions[s]
    BY <1>1, <1>5, <1>6, <1>9, <2>1
  <2>2. QED BY <1>2, <1>6, <2>1 DEF InboxInv, C!LabelsAreNoFeedback
<1>19. C!BriefPictureStays'
  <2>1. ASSUME NEW s \in 1 .. n, jobs'[sessions'[s].run].picture PROVE sessions'[s].shows
    <3>1. CASE s = n
      BY <1>3, <1>4, <1>5, <1>6, <2>1, <3>1
    <3>2. CASE s \in 1 .. Len(sessions)
      <4>1. sessions[s].run \in 1 .. Len(jobs)
        BY <1>1, <3>2, RowsAreTyped DEF SessionRow
      <4>2. QED BY <1>1, <1>4, <1>6, <2>1, <3>2, <4>1 DEF InboxInv, C!BriefPictureStays
    <3>3. QED BY <1>9, <3>1, <3>2
  <2>2. QED BY <1>6, <2>1 DEF C!BriefPictureStays
<1>20. QED BY <1>8, <1>10, <1>11, <1>12, <1>14, <1>15, <1>16, <1>17, <1>18, <1>19 DEF InboxInv, Verdicts

\* The step of a request whose draft is on its way: it touches its own session
\* only, and leaves the requests that bring decisions alone.
OnItsWay(q, s, row, doing) ==
    /\ req[q].pc \in {"sending", "saving"} /\ s \in DOMAIN sessions /\ s = req[q].session
    /\ row \in SessionRow(1 .. Len(jobs), 1 .. Len(messages)) /\ sessions' = [sessions EXCEPT ![s] = row]
    /\ row.run = sessions[s].run /\ row.chat = sessions[s].chat /\ row.shows = sessions[s].shows
    /\ row.by = sessions[s].by /\ row.rushed = sessions[s].rushed
    /\ row.status \in {"pending", sessions[s].status}
    /\ row.number \in {0} \cup said'[row.chat] /\ row.ref \in {0, row.number}
    /\ row.status # "pending" => row.ref = sessions[s].ref
    /\ doing \in RequestRow(Len(messages), Len(jobs), Len(sessions))
    /\ req' = [req EXCEPT ![q] = doing] /\ doing.pc \in {"saving", "closing"}
    /\ doing.run = req[q].run /\ doing.msg = req[q].msg /\ doing.session = s
    /\ doing.pc = "saving" => row.ref = 0 /\ doing.ref \in {0, row.number}

LEMMA SendingKeeps ==
  ASSUME C!InboxAssumption, InboxInv, NEW q \in Requests,
         UNCHANGED <<channel, trigger, messages, jobs, troubles>>,
         last' \in [Chats -> Nat], said' \in [Chats -> SUBSET Nat], NumbersGrow',
         \A d \in Chats : said[d] \subseteq said'[d],
         NEW s, NEW row, NEW doing, OnItsWay(q, s, row, doing)
  PROVE  InboxInv'
<1>0. /\ req[q].pc \in {"sending", "saving"} /\ s \in DOMAIN sessions /\ s = req[q].session
      /\ row \in SessionRow(1 .. Len(jobs), 1 .. Len(messages)) /\ sessions' = [sessions EXCEPT ![s] = row]
      /\ row.run = sessions[s].run /\ row.chat = sessions[s].chat /\ row.shows = sessions[s].shows
      /\ row.by = sessions[s].by /\ row.rushed = sessions[s].rushed
      /\ row.status \in {"pending", sessions[s].status}
      /\ row.number \in {0} \cup said'[row.chat] /\ row.ref \in {0, row.number}
      /\ row.status # "pending" => row.ref = sessions[s].ref
      /\ doing \in RequestRow(Len(messages), Len(jobs), Len(sessions))
      /\ req' = [req EXCEPT ![q] = doing] /\ doing.pc \in {"saving", "closing"}
      /\ doing.run = req[q].run /\ doing.msg = req[q].msg /\ doing.session = s
      /\ doing.pc = "saving" => row.ref = 0 /\ doing.ref \in {0, row.number}
  BY DEF OnItsWay
<1> USE <1>0
<1>1. /\ C!TypeOK /\ messages \in Seq(MessageRow) /\ Len(messages) \in Nat /\ Len(jobs) \in Nat
      /\ Len(sessions) \in Nat /\ jobs \in Seq(RunRow)
      /\ DOMAIN sessions = 1 .. Len(sessions) /\ DOMAIN jobs = 1 .. Len(jobs)
      /\ sessions \in Seq(SessionRow(1 .. Len(jobs), 1 .. Len(messages)))
      /\ req \in [Requests -> RequestRow(Len(messages), Len(jobs), Len(sessions))]
  BY InboxTyped DEF InboxInv
<1>2. /\ sessions' \in Seq(SessionRow(1 .. Len(jobs), 1 .. Len(messages)))
      /\ Len(sessions') = Len(sessions) /\ DOMAIN sessions' = 1 .. Len(sessions)
      /\ sessions'[s] = row /\ \A t \in 1 .. Len(sessions) : t # s => sessions'[t] = sessions[t]
  BY <1>1
<1>3. /\ \A t \in 1 .. Len(sessions) :
            /\ sessions'[t].run = sessions[t].run /\ sessions'[t].chat = sessions[t].chat
            /\ sessions'[t].shows = sessions[t].shows /\ sessions'[t].by = sessions[t].by
            /\ sessions'[t].rushed = sessions[t].rushed
            /\ sessions'[t].status \in {"pending", sessions[t].status}
            /\ sessions'[t].status # "pending" => sessions'[t].ref = sessions[t].ref
  BY <1>2
<1>4. req' \in [Requests -> RequestRow(Len(messages), Len(jobs), Len(sessions))] /\ req'[q] = doing
      /\ \A p \in Requests : p # q => req'[p] = req[p]
  BY <1>1
<1>5. AtHand(q) /\ sessions[s].ref = 0
  BY DEF InboxInv, AtWork, AtHand
<1>6. C!TypeOK'
  <2>1. /\ channel' \in Channels /\ trigger' \in C!Trigger /\ last' \in [Chats -> Nat]
        /\ said' \in [Chats -> SUBSET Nat] /\ troubles' \in 0 .. MaxTroubles[channel']
        /\ messages' \in Seq(MessageRow) /\ jobs' \in Seq(RunRow)
    BY <1>1 DEF C!TypeOK
  <2>2. sessions' \in Seq(SessionRow(1 .. Len(jobs'), 1 .. Len(messages')))
    BY <1>2
  <2>3. req' \in [Requests -> RequestRow(Len(messages'), Len(jobs'), Len(sessions'))]
    BY <1>2, <1>4
  <2>4. QED BY <2>1, <2>2, <2>3, TypedNext
<1>7. Referring'
  <2>1. RepliesAreSaid'
    <3>1. \A i \in DOMAIN messages : messages[i].chat \in Chats
      BY <1>1, RowsAreTyped DEF MessageRow
    <3>2. QED BY <3>1 DEF InboxInv, Referring, RepliesAreSaid
  <2>2. RefsAreSaid'
    <3>1. ASSUME NEW t \in 1 .. Len(sessions)
          PROVE  /\ sessions'[t].number \in {0} \cup said'[sessions'[t].chat]
                 /\ sessions'[t].ref \in {0, sessions'[t].number}
      <4>1. CASE t = s
        BY <1>2, <4>1
      <4>2. CASE t # s
        <5>1. sessions'[t] = sessions[t] /\ sessions[t].chat \in Chats
          BY <1>1, <1>2, <4>2, RowsAreTyped DEF SessionRow
        <5>2. QED BY <1>1, <5>1 DEF InboxInv, Referring, RefsAreSaid
      <4>3. QED BY <4>1, <4>2
    <3>2. QED BY <1>2, <3>1 DEF RefsAreSaid
  <2>3. QED BY <2>1, <2>2 DEF Referring
<1>8. AtWork'
  <2>1. AtHand(q)'
    <3>1. s # 0 /\ req[q].msg # 0 /\ req[q].run # 0
      BY <1>1, <1>5 DEF AtHand
    <3>2. QED BY <1>2, <1>4, <3>1 DEF AtHand
  <2>2. ASSUME NEW p \in Requests, p # q PROVE AtHand(p)'
    <3>1. req'[p] = req[p] /\ AtHand(p) /\ req[p].session \in 0 .. Len(sessions)
      BY <1>1, <1>4, <2>2 DEF InboxInv, AtWork, RequestRow
    <3>2. req[p].pc \in {"sending", "saving"} => req[p].session # s
      BY <2>2 DEF InboxInv, Apart
    <3>3. req[p].pc \in {"sending", "saving"} => sessions'[req[p].session] = sessions[req[p].session]
      BY <1>1, <1>2, <3>1, <3>2 DEF AtHand
    <3>4. QED BY <3>1, <3>3 DEF AtHand
  <2>3. QED BY <2>1, <2>2 DEF AtWork
<1>9. Apart'
  BY <1>4 DEF Apart, InboxInv
<1>10. \A t \in 1 .. Len(sessions) : C!Newest(t)' <=> C!Newest(t)
  BY <1>1, <1>2, <1>3 DEF C!Newest
<1>11. \A t \in 1 .. Len(sessions) : C!Decider(t)' = C!Decider(t)
  BY <1>3 DEF C!Decider
<1>12. ByItsLast'
  <2>1. ASSUME NEW t \in 1 .. Len(sessions), sessions'[t].status # "pending"
        PROVE  sessions'[t].by # <<>> /\ C!Verdict(C!Decider(t)'.text) = sessions'[t].status
    <3>1. sessions'[t].status = sessions[t].status /\ sessions'[t].by = sessions[t].by
      BY <1>3, <2>1
    <3>2. sessions[t].by # <<>> /\ C!Verdict(C!Decider(t).text) = sessions[t].status
      BY <1>1, <2>1, <3>1 DEF InboxInv, Verdicts, ByItsLast
    <3>3. QED BY <1>11, <3>1, <3>2
  <2>2. QED BY <1>2, <2>1 DEF ByItsLast
<1>13. Workers'
  <2>1. ASSUME NEW t \in 1 .. Len(sessions), C!Newest(t)', sessions'[t].status # "pending",
               ~ sessions'[t].rushed, NEW p \in Requests, req'[p].run = sessions'[t].run
        PROVE  req'[p].pc \in {"resuming", "drafting"}
    <3>1. C!Newest(t) /\ sessions[t].status # "pending" /\ ~ sessions[t].rushed
          /\ sessions'[t].run = sessions[t].run
      BY <1>3, <1>10, <2>1
    <3>2. \A o \in Requests : req[o].run = sessions[t].run => req[o].pc \in {"resuming", "drafting"}
      BY <1>1, <3>1 DEF InboxInv, Verdicts, Workers
    <3>3. p # q
      BY <1>4, <2>1, <3>1, <3>2
    <3>4. QED BY <1>4, <2>1, <3>1, <3>2, <3>3
  <2>2. QED BY <1>2, <2>1 DEF Workers
<1>14. DecisionsAreHeld'
  <2>1. ASSUME NEW t \in 1 .. Len(sessions) PROVE Held(t)'
    <3>1. SUFFICES ASSUME C!Newest(t)', sessions'[t].status \in {"approved", "rejected"},
                          jobs'[sessions'[t].run].status = "awaiting",
                          C!Decider(t)'.reply = sessions'[t].ref, sessions'[t].ref # 0,
                          ~ sessions'[t].rushed
                   PROVE  ActedUpon(t)' \/ C!Decider(t)'.due \/ C!Decider(t)'.barred
      BY DEF Held
    <3>2. /\ C!Newest(t) /\ sessions[t].status \in {"approved", "rejected"}
          /\ jobs[sessions[t].run].status = "awaiting" /\ C!Decider(t).reply = sessions[t].ref
          /\ sessions[t].ref # 0 /\ ~ sessions[t].rushed
          /\ sessions'[t].status = sessions[t].status /\ t \in DOMAIN sessions
      BY <1>1, <1>3, <1>10, <1>11, <3>1
    <3>3. CASE C!Decider(t).due \/ C!Decider(t).barred
      BY <1>11, <3>3
    <3>4. CASE \E p \in Requests : /\ req[p].pc = "resuming" /\ req[p].run = sessions[t].run
                                   /\ req[p].msg = sessions[t].by[Len(sessions[t].by)]
                                   /\ req[p].verdict = sessions[t].status
      <4>1. PICK p \in Requests : /\ req[p].pc = "resuming" /\ req[p].run = sessions[t].run
                                  /\ req[p].msg = sessions[t].by[Len(sessions[t].by)]
                                  /\ req[p].verdict = sessions[t].status
        BY <3>4
      <4>2. req'[p] = req[p]
        BY <1>4, <4>1
      <4>3. ActedUpon(t)'
        BY <1>3, <3>2, <4>1, <4>2 DEF ActedUpon
      <4>4. QED BY <4>3
    <3>5. QED BY <3>2, <3>3, <3>4, HeldIs
  <2>2. QED BY <1>2, <2>1 DEF DecisionsAreHeld
\* Its own session has no reference yet, so nobody decided it from elsewhere.
<1>15. C!OwnChat'
  <2>1. ASSUME NEW t \in 1 .. Len(sessions), NEW k \in DOMAIN sessions'[t].by
        PROVE  LET m == messages[sessions'[t].by[k]] IN
               \/ m.chat = sessions'[t].chat
               \/ channel = "telegram" /\ m.reply # 0 /\ m.reply = sessions'[t].ref
    <3>1. LET m == messages[sessions[t].by[k]] IN
          \/ m.chat = sessions[t].chat
          \/ channel = "telegram" /\ m.reply # 0 /\ m.reply = sessions[t].ref
      BY <1>1, <1>3, <2>1 DEF InboxInv, C!OwnChat
    <3>2. CASE t = s
      BY <1>3, <1>5, <3>1, <3>2
    <3>3. CASE t # s
      BY <1>2, <3>1, <3>3
    <3>4. QED BY <3>2, <3>3
  <2>2. QED BY <1>2, <2>1 DEF C!OwnChat
<1>16. C!LabelsAreNoFeedback'
  <2>1. ASSUME channel = "telegram", NEW t \in 1 .. Len(sessions), sessions'[t].by # <<>>,
               messages[sessions'[t].by[1]].chat = sessions'[t].chat
        PROVE  LET m == messages[sessions'[t].by[1]] IN ~ (m.tap /\ m.text = "revise")
    BY <1>1, <1>3, <2>1 DEF InboxInv, C!LabelsAreNoFeedback
  <2>2. QED BY <1>2, <2>1 DEF C!LabelsAreNoFeedback
<1>17. C!BriefPictureStays'
  BY <1>1, <1>2, <1>3 DEF C!BriefPictureStays, InboxInv
<1>18. QED BY <1>6, <1>7, <1>8, <1>9, <1>12, <1>13, <1>14, <1>15, <1>16, <1>17 DEF InboxInv, Verdicts

LEMMA SendKeeps ==
  ASSUME C!InboxAssumption, InboxInv, NEW q \in Requests, C!Send(q)
  PROVE  InboxInv'
<1> DEFINE s == req[q].session
           c == sessions[s].chat
           n == C!NextNumber(c)
           row == [sessions[s] EXCEPT !.number = n]
           saving == [req[q] EXCEPT !.pc = "saving"]
           doing == [saving EXCEPT !.ref = n]
<1>1. /\ C!TypeOK /\ NumbersGrow /\ Len(messages) \in Nat /\ Len(jobs) \in Nat /\ Len(sessions) \in Nat
      /\ DOMAIN sessions = 1 .. Len(sessions)
      /\ req[q] \in RequestRow(Len(messages), Len(jobs), Len(sessions))
  BY InboxTyped, RowsAreTyped DEF InboxInv, Referring
<1>2. /\ UNCHANGED <<channel, trigger, messages, jobs, troubles>> /\ req[q].pc = "sending"
      /\ last' = [last EXCEPT ![c] = n] /\ said' = [said EXCEPT ![c] = @ \cup {n}]
      /\ sessions' = [sessions EXCEPT ![s] = row]
      /\ req' = [req EXCEPT ![q] = doing]
  BY DEF C!Send, C!Say
<1>3. /\ s \in DOMAIN sessions /\ sessions[s] \in SessionRow(1 .. Len(jobs), 1 .. Len(messages))
      /\ sessions[s].ref = 0
  <2>1. s # 0 /\ sessions[s].ref = 0
    BY <1>2 DEF InboxInv, AtWork, AtHand
  <2>2. s \in 1 .. Len(sessions)
    BY <1>1, <2>1 DEF RequestRow
  <2>3. QED BY <1>1, <2>1, <2>2, RowsAreTyped
<1>4. c \in Chats
  BY <1>3 DEF SessionRow
<1>5. n \in Nat
  <2> HIDE DEF c
  <2>1. QED BY <1>1, <1>4, NumberIsNew
<1>6. /\ NumbersGrow' /\ last' \in [Chats -> Nat] /\ said' \in [Chats -> SUBSET Nat]
      /\ \A d \in Chats : said[d] \subseteq said'[d]
  <2> HIDE DEF c
  <2>1. QED BY <1>1, <1>2, <1>4, NumbersKeep
<1>7. n \in said'[c]
  <2>1. said \in [Chats -> SUBSET Nat]
    BY <1>1 DEF C!TypeOK
  <2> HIDE DEF c, n
  <2>2. QED BY <1>2, <1>4, <2>1
<1> HIDE DEF n
<1>8. /\ row \in SessionRow(1 .. Len(jobs), 1 .. Len(messages))
      /\ row.run = sessions[s].run /\ row.chat = c /\ row.shows = sessions[s].shows
      /\ row.by = sessions[s].by /\ row.rushed = sessions[s].rushed
      /\ row.status = sessions[s].status /\ row.number = n /\ row.ref = sessions[s].ref
  BY <1>3, <1>5 DEF SessionRow
<1>9. /\ saving \in RequestRow(Len(messages), Len(jobs), Len(sessions)) /\ saving.pc = "saving"
      /\ saving.run = req[q].run /\ saving.msg = req[q].msg /\ saving.session = s
  BY <1>1 DEF RequestRow
<1> HIDE DEF saving
<1>10. /\ doing \in RequestRow(Len(messages), Len(jobs), Len(sessions)) /\ doing.pc = "saving"
       /\ doing.run = req[q].run /\ doing.msg = req[q].msg /\ doing.session = s /\ doing.ref = n
  BY <1>5, <1>9 DEF RequestRow
<1>11. s = req[q].session /\ c = sessions[s].chat
  OBVIOUS
<1> HIDE DEF doing, row, c, s
<1>12. OnItsWay(q, s, row, doing)
  BY <1>2, <1>3, <1>6, <1>7, <1>8, <1>10, <1>11 DEF OnItsWay
<1>13. QED BY <1>2, <1>6, <1>12, SendingKeeps

LEMMA SaveRefKeeps ==
  ASSUME C!InboxAssumption, InboxInv, NEW q \in Requests, C!SaveRef(q)
  PROVE  InboxInv'
<1> DEFINE s == req[q].session
           marked == [sessions[s] EXCEPT !.ref = req[q].ref]
           row == [marked EXCEPT !.status = "pending"]
           doing == [req[q] EXCEPT !.pc = "closing"]
<1>1. /\ C!TypeOK /\ NumbersGrow /\ Len(messages) \in Nat /\ Len(jobs) \in Nat /\ Len(sessions) \in Nat
      /\ DOMAIN sessions = 1 .. Len(sessions) /\ RefsAreSaid
      /\ last \in [Chats -> Nat] /\ said \in [Chats -> SUBSET Nat]
      /\ sessions \in Seq(SessionRow(1 .. Len(jobs), 1 .. Len(messages)))
      /\ req[q] \in RequestRow(Len(messages), Len(jobs), Len(sessions))
  BY InboxTyped, RowsAreTyped DEF InboxInv, Referring
<1>2. /\ UNCHANGED <<channel, trigger, last, said, messages, jobs, troubles>> /\ req[q].pc = "saving"
      /\ sessions' = [sessions EXCEPT ![s].ref = req[q].ref, ![s].status = "pending"]
      /\ req' = [req EXCEPT ![q] = doing]
  BY DEF C!SaveRef
<1>3. /\ s \in DOMAIN sessions /\ sessions[s] \in SessionRow(1 .. Len(jobs), 1 .. Len(messages))
      /\ sessions[s].ref = 0 /\ req[q].ref \in {0, sessions[s].number} /\ req[q].ref \in Nat
      /\ req[q].msg # 0 /\ req[q].run # 0
  <2>1. s # 0 /\ sessions[s].ref = 0 /\ req[q].ref \in {0, sessions[s].number}
        /\ req[q].msg # 0 /\ req[q].run # 0
    BY <1>2 DEF InboxInv, AtWork, AtHand
  <2>2. s \in 1 .. Len(sessions) /\ req[q].ref \in Nat
    BY <1>1, <2>1 DEF RequestRow
  <2>3. QED BY <1>1, <2>1, <2>2, RowsAreTyped
<1>4. sessions' = [sessions EXCEPT ![s] = row]
  BY <1>1, <1>2, <1>3
<1>5. /\ marked \in SessionRow(1 .. Len(jobs), 1 .. Len(messages))
      /\ marked.run = sessions[s].run /\ marked.chat = sessions[s].chat
      /\ marked.shows = sessions[s].shows /\ marked.by = sessions[s].by
      /\ marked.rushed = sessions[s].rushed /\ marked.number = sessions[s].number
      /\ marked.ref = req[q].ref
  BY <1>3 DEF SessionRow
<1> HIDE DEF marked
<1>6. /\ row \in SessionRow(1 .. Len(jobs), 1 .. Len(messages))
      /\ row.run = sessions[s].run /\ row.chat = sessions[s].chat
      /\ row.shows = sessions[s].shows /\ row.by = sessions[s].by
      /\ row.rushed = sessions[s].rushed /\ row.number = sessions[s].number
      /\ row.ref = req[q].ref /\ row.status = "pending"
  BY <1>5 DEF SessionRow, C!SessionStatus
<1>7. row.number \in {0} \cup said'[row.chat] /\ row.ref \in {0, row.number}
  BY <1>1, <1>2, <1>3, <1>6 DEF RefsAreSaid
<1>8. /\ doing \in RequestRow(Len(messages), Len(jobs), Len(sessions)) /\ doing.pc = "closing"
      /\ doing.run = req[q].run /\ doing.msg = req[q].msg /\ doing.session = s
  BY <1>1 DEF RequestRow
<1>9. NumbersGrow' /\ last' \in [Chats -> Nat] /\ said' \in [Chats -> SUBSET Nat]
      /\ \A d \in Chats : said[d] \subseteq said'[d]
  BY <1>1, <1>2 DEF NumbersGrow
<1>10. s = req[q].session
  OBVIOUS
<1> HIDE DEF doing, row, s
<1>11. OnItsWay(q, s, row, doing)
  BY <1>2, <1>3, <1>4, <1>6, <1>7, <1>8, <1>10 DEF OnItsWay
<1>12. QED BY <1>2, <1>9, <1>11, SendingKeeps

\* The sizes of sets are what they are in every module.
LEMMA ChatSizes ==
  ASSUME NEW U PROVE C!Cardinality(U) = Cardinality(U)
  BY Zenon DEF C!Cardinality, Cardinality

\* The draft a message answers.
LEMMA FoundIs ==
  ASSUME C!InboxAssumption, C!TypeOK, NEW i \in DOMAIN messages, C!Found(messages[i]) # 0
  PROVE  /\ C!Found(messages[i]) \in DOMAIN sessions
         /\ \/ C!Found(messages[i]) \in C!ByRef(messages[i].reply)
            \/ C!Found(messages[i]) \in C!PendingIn(messages[i].chat)
         /\ C!Cardinality(C!ByRef(messages[i].reply)) <= 1 =>
               \A t \in C!ByRef(messages[i].reply) : t = C!Found(messages[i])
<1> DEFINE m == messages[i]
           S == IF C!ByRef(m.reply) # {} THEN C!ByRef(m.reply) ELSE C!PendingIn(m.chat)
<1>1. S \in SUBSET DOMAIN sessions /\ C!Found(m) = C!LatestOf(S)
  BY DEF C!ByRef, C!PendingIn, C!Found
<1>2. S # {}
  BY <1>1 DEF C!LatestOf
<1>3. C!Found(m) \in S
  <2> HIDE DEF S
  <2>1. QED BY <1>1, <1>2, LatestIsThere
<1>4. ASSUME C!Cardinality(C!ByRef(m.reply)) <= 1, NEW t \in C!ByRef(m.reply)
      PROVE  t = C!Found(m)
  <2>1. C!Found(m) \in C!ByRef(m.reply)
    BY <1>3, <1>4
  <2>2. IsFiniteSet(C!ByRef(m.reply))
    <3>1. C!ByRef(m.reply) \subseteq 1 .. Len(sessions) /\ Len(sessions) \in Nat
      BY InboxTyped DEF C!ByRef
    <3>2. IsFiniteSet(1 .. Len(sessions))
      BY <3>1, FS_Interval
    <3>3. QED BY <3>1, <3>2, FS_Subset
  <2>3. Cardinality({t, C!Found(m)}) <= Cardinality(C!ByRef(m.reply))
    BY <1>4, <2>1, <2>2, FS_Subset
  <2>4. SUFFICES ASSUME t # C!Found(m) PROVE FALSE
    OBVIOUS
  <2>5. Cardinality({t, C!Found(m)}) = 2
    <3>1. IsFiniteSet({C!Found(m)}) /\ Cardinality({C!Found(m)}) = 1
      BY FS_Singleton
    <3>2. Cardinality({C!Found(m)} \cup {t}) = Cardinality({C!Found(m)}) + 1
      BY <2>4, <3>1, FS_AddElement
    <3>3. {C!Found(m)} \cup {t} = {t, C!Found(m)}
      OBVIOUS
    <3>4. QED BY <3>1, <3>2, <3>3
  <2>6. Cardinality(C!ByRef(m.reply)) \in Nat
    BY <2>2, FS_CardinalityType
  <2>7. Cardinality(C!ByRef(m.reply)) <= 1
    BY <1>4, ChatSizes
  <2> HIDE DEF m
  <2>8. QED BY <2>3, <2>5, <2>6, <2>7
<1>5. QED BY <1>1, <1>3, <1>4

LEMMA DecideKeeps ==
  ASSUME C!InboxAssumption, InboxInv, NEW q \in Requests, NEW i \in DOMAIN messages, C!Decide(q, i)
  PROVE  InboxInv'
<1> DEFINE m == messages[i]
<1>0. PICK s : s = C!Found(m)
  OBVIOUS
<1> DEFINE verdict == IF m.text = "short" THEN sessions[s].status ELSE C!Verdict(m.text)
<1>1. /\ C!TypeOK /\ messages \in Seq(MessageRow) /\ Len(messages) \in Nat /\ Len(jobs) \in Nat
      /\ Len(sessions) \in Nat /\ jobs \in Seq(RunRow) /\ i \in 1 .. Len(messages)
      /\ DOMAIN sessions = 1 .. Len(sessions) /\ DOMAIN jobs = 1 .. Len(jobs)
      /\ DOMAIN messages = 1 .. Len(messages)
      /\ sessions \in Seq(SessionRow(1 .. Len(jobs), 1 .. Len(messages)))
      /\ req \in [Requests -> RequestRow(Len(messages), Len(jobs), Len(sessions))]
      /\ troubles \in 0 .. MaxTroubles[channel] /\ m \in MessageRow
  BY InboxTyped, RowsAreTyped DEF InboxInv, C!TypeOK
<1>2. /\ UNCHANGED <<channel, trigger, last, said, jobs, troubles>>
      /\ req[q].pc = "idle" /\ messages' = [messages EXCEPT ![i].due = FALSE]
      /\ ~ C!Intercepted(m) /\ C!Cardinality(C!ByRef(m.reply)) <= 1 /\ s # 0
      /\ sessions' = IF m.text = "short" THEN sessions
                     ELSE [sessions EXCEPT ![s].status = verdict, ![s].by = Append(@, i),
                                           ![s].rushed = C!Working(sessions[s].run)]
  BY <1>0 DEF C!Decide, C!Arrives, C!Answered
<1>3. PICK kept \in C!Kept(m) :
         req' = [req EXCEPT ![q] = [C!Idle EXCEPT !.pc = "resuming", !.msg = i, !.session = s,
                                       !.run = sessions[s].run, !.verdict = verdict, !.picture = kept]]
  BY <1>0 DEF C!Decide
<1>4. /\ s \in DOMAIN sessions /\ (s \in C!ByRef(m.reply) \/ s \in C!PendingIn(m.chat))
      /\ \A t \in C!ByRef(m.reply) : t = s
  BY <1>0, <1>1, <1>2, FoundIs
<1>5. sessions[s] \in SessionRow(1 .. Len(jobs), 1 .. Len(messages))
      /\ sessions[s].run \in 1 .. Len(jobs) /\ sessions[s].run # 0
      /\ sessions[s].status \in C!SessionStatus
  <2>1. sessions[s] \in SessionRow(1 .. Len(jobs), 1 .. Len(messages))
    BY <1>1, <1>4, RowsAreTyped
  <2>2. sessions[s].run \in 1 .. Len(jobs) /\ sessions[s].status \in C!SessionStatus
    BY <2>1 DEF SessionRow
  <2>3. QED BY <1>1, <2>1, <2>2
<1>6. verdict \in C!SessionStatus /\ m.text \in C!Texts
  <2>1. m.text \in C!Texts
    BY <1>1 DEF MessageRow
  <2>2. m.text # "short" => C!Verdict(m.text) \in C!SessionStatus
    BY <2>1 DEF C!Verdict, C!Texts, C!SessionStatus
  <2>3. QED BY <1>5, <2>1, <2>2
<1>7. kept \in BOOLEAN
  BY <1>1 DEF MessageRow, C!Kept
<1>8. req' = [req EXCEPT ![q] = [AnswerBegun(i, s, sessions[s].run, verdict) EXCEPT !.picture = kept]]
  BY <1>3 DEF AnswerBegun
<1>9. /\ req'[q] = [AnswerBegun(i, s, sessions[s].run, verdict) EXCEPT !.picture = kept]
      /\ \A p \in Requests : p # q => req'[p] = req[p]
  <2> HIDE DEF verdict, m
  <2>1. QED BY <1>1, <1>8
<1>10. /\ req'[q] \in RequestRow(Len(messages), Len(jobs), Len(sessions))
       /\ req'[q].pc = "resuming" /\ req'[q].msg = i /\ req'[q].session = s
       /\ req'[q].run = sessions[s].run /\ req'[q].verdict = verdict /\ req'[q].ref = 0
  <2> DEFINE r == sessions[s].run
  <2>1. i \in 0 .. Len(messages) /\ r \in 0 .. Len(jobs) /\ s \in 0 .. Len(sessions)
    BY <1>1, <1>4, <1>5
  <2>2. verdict \in C!SessionStatus /\ kept \in BOOLEAN
        /\ Len(messages) \in Nat /\ Len(jobs) \in Nat /\ Len(sessions) \in Nat
    BY <1>1, <1>6, <1>7
  <2>3. req'[q] = [AnswerBegun(i, s, r, verdict) EXCEPT !.picture = kept]
    BY <1>9
  <2> HIDE DEF r, verdict
  <2>4. LET e == AnswerBegun(i, s, r, verdict) IN
         /\ e \in RequestRow(Len(messages), Len(jobs), Len(sessions))
         /\ e.pc = "resuming" /\ e.msg = i /\ e.session = s
         /\ e.run = r /\ e.verdict = verdict /\ e.ref = 0
    BY ONLY <2>1, <2>2, NewAnswer, SMTT(60)
  <2>5. QED BY <2>2, <2>3, <2>4 DEF r, RequestRow
<1> HIDE DEF m, verdict
<1>11. Begins(q, i) /\ s # 0 /\ Len(jobs') \in Nat /\ Len(jobs) <= Len(jobs')
  <2>1. Len(jobs') = Len(jobs) /\ s # 0
    BY <1>2
  <2>2. Begins(q, i)
    BY <1>2, <1>5, <1>9, <1>10, <2>1 DEF Begins
  <2>3. QED BY <1>1, <2>1, <2>2
<1>12. req' \in [Requests -> RequestRow(Len(messages), Len(jobs), Len(sessions))]
  <2>1. Len(jobs') = Len(jobs)
    BY <1>2
  <2>2. req' \in [Requests -> RequestRow(Len(messages), Len(jobs'), Len(sessions))]
    BY <1>8, <1>11, BeginningIsTyped
  <2>3. QED BY <2>1, <2>2
<1>13. /\ messages' \in Seq(MessageRow) /\ Len(messages') = Len(messages)
       /\ \A j \in 1 .. Len(messages) : Stays(j)
  BY <1>1, <1>2, DueIsSet
<1>14. CASE m.text = "short"
  <2>1. UNCHANGED sessions
    BY <1>2, <1>14
  <2>2. AtWork' /\ Apart'
    BY <1>11, <2>1, BeginningKeepsOthers
  <2>3. Workers'
    <3>1. req'[q].pc = "resuming" /\ (\A p \in Requests : p # q => req'[p] = req[p]) /\ Workers
      BY <1>9, <1>10 DEF InboxInv, Verdicts
    <3>2. QED BY <2>1, <3>1 DEF Workers, C!Newest
  <2>4. DecisionsAreHeld'
    <3>1. ASSUME NEW t \in DOMAIN sessions PROVE Held(t)'
      <4>1. C!Newest(t)' <=> C!Newest(t)
        BY <2>1 DEF C!Newest
      <4>2. sessions'[t] = sessions[t] /\ jobs'[sessions[t].run] = jobs[sessions[t].run]
        BY <1>2, <2>1
      <4>3. messages[i].text = "short"
        BY <1>14 DEF m
      <4>4. CASE C!Newest(t)'
        BY <1>2, <1>11, <4>1, <4>2, <4>3, <4>4, AnsweringKeeps
      <4>5. CASE ~ C!Newest(t)'
        BY <4>5 DEF Held
      <4>6. QED BY <4>4, <4>5
    <3>2. QED BY <2>1, <3>1 DEF DecisionsAreHeld
  <2>5. jobs' \in Seq(RunRow) /\ Len(jobs) <= Len(jobs')
        /\ \A r \in 1 .. Len(jobs) : jobs'[r].picture = jobs[r].picture
    BY <1>1, <1>2
  <2>6. req' \in [Requests -> RequestRow(Len(messages), Len(jobs'), Len(sessions))]
    BY <1>2, <1>12
  <2>7. troubles' \in 0 .. MaxTroubles[channel]
    BY <1>1, <1>2
  <2>8. QED BY <1>2, <1>13, <2>1, <2>2, <2>3, <2>4, <2>5, <2>6, <2>7, SessionsKeep
<1>15. CASE m.text # "short"
  <2> DEFINE busy == C!Working(sessions[s].run)
             decided == [sessions[s] EXCEPT !.status = verdict]
             signed == [decided EXCEPT !.by = Append(sessions[s].by, i)]
             row == [signed EXCEPT !.rushed = busy]
  <2>1. sessions' = [sessions EXCEPT ![s].status = verdict, ![s].by = Append(@, i), ![s].rushed = busy]
        /\ verdict = C!Verdict(m.text)
    BY <1>2, <1>15 DEF verdict
  <2>2. busy \in BOOLEAN /\ (busy <=> \E p \in Requests : req[p].run = sessions[s].run)
    BY DEF C!Working
  <2>3. sessions[s].by \in Seq(1 .. Len(messages)) /\ i \in 1 .. Len(messages)
    BY <1>1, <1>5 DEF SessionRow
  <2>4. decided \in SessionRow(1 .. Len(jobs), 1 .. Len(messages)) /\ decided.status = verdict
        /\ decided.by = sessions[s].by /\ decided.run = sessions[s].run /\ decided.chat = sessions[s].chat
        /\ decided.ref = sessions[s].ref /\ decided.number = sessions[s].number /\ decided.shows = sessions[s].shows
    BY <1>5, <1>6 DEF SessionRow
  <2>5. sessions' = [sessions EXCEPT ![s] = row]
    <3> HIDE DEF busy
    <3>1. [sessions EXCEPT ![s].status = verdict, ![s].by = Append(@, i), ![s].rushed = busy]
          = [sessions EXCEPT ![s] = row]
      BY <1>1, <1>4, <2>4
    <3>2. QED BY <2>1, <3>1
  <2> HIDE DEF busy, decided
  <2>6. Append(sessions[s].by, i) \in Seq(1 .. Len(messages))
    BY <2>3
  <2>7. signed \in SessionRow(1 .. Len(jobs), 1 .. Len(messages)) /\ signed.status = verdict
        /\ signed.by = Append(sessions[s].by, i) /\ signed.run = sessions[s].run /\ signed.chat = sessions[s].chat
        /\ signed.ref = sessions[s].ref /\ signed.number = sessions[s].number /\ signed.shows = sessions[s].shows
    BY <2>4, <2>6 DEF SessionRow
  <2> HIDE DEF signed
  <2>8. row \in SessionRow(1 .. Len(jobs), 1 .. Len(messages)) /\ row.status = verdict
        /\ row.by = Append(sessions[s].by, i) /\ row.run = sessions[s].run /\ row.chat = sessions[s].chat
        /\ row.ref = sessions[s].ref /\ row.number = sessions[s].number /\ row.shows = sessions[s].shows
        /\ row.rushed = busy
    BY <2>2, <2>7 DEF SessionRow
  <2> HIDE DEF row
  <2>9. /\ sessions' \in Seq(SessionRow(1 .. Len(jobs), 1 .. Len(messages)))
        /\ Len(sessions') = Len(sessions) /\ DOMAIN sessions' = 1 .. Len(sessions)
        /\ sessions'[s] = row /\ \A t \in 1 .. Len(sessions) : t # s => sessions'[t] = sessions[t]
        /\ s \in 1 .. Len(sessions)
    BY <1>1, <1>4, <2>5, <2>8
  <2>10. \A t \in 1 .. Len(sessions) :
            /\ sessions'[t].run = sessions[t].run /\ sessions'[t].chat = sessions[t].chat
            /\ sessions'[t].shows = sessions[t].shows
            /\ sessions'[t].number = sessions[t].number /\ sessions'[t].ref = sessions[t].ref
    BY <2>8, <2>9
  <2>11. C!TypeOK'
    <3>1. /\ channel' \in Channels /\ trigger' \in C!Trigger /\ last' \in [Chats -> Nat]
          /\ said' \in [Chats -> SUBSET Nat] /\ troubles' \in 0 .. MaxTroubles[channel']
          /\ messages' \in Seq(MessageRow) /\ jobs' \in Seq(RunRow)
      BY <1>1, <1>2, <1>13 DEF C!TypeOK
    <3>2. sessions' \in Seq(SessionRow(1 .. Len(jobs'), 1 .. Len(messages')))
      BY <1>2, <1>13, <2>9
    <3>3. req' \in [Requests -> RequestRow(Len(messages'), Len(jobs'), Len(sessions'))]
      BY <1>2, <1>12, <1>13, <2>9
    <3>4. QED BY <3>1, <3>2, <3>3, TypedNext
  <2>12. Referring'
    <3>1. NumbersGrow'
      BY <1>2 DEF InboxInv, Referring, NumbersGrow
    <3>2. RepliesAreSaid'
      <4>1. DOMAIN messages' = 1 .. Len(messages)
        BY <1>13
      <4>2. QED BY <1>1, <1>2, <1>13, <4>1 DEF InboxInv, Referring, RepliesAreSaid, Stays
    <3>3. RefsAreSaid'
      BY <1>1, <1>2, <2>9, <2>10 DEF InboxInv, Referring, RefsAreSaid
    <3>4. QED BY <3>1, <3>2, <3>3 DEF Referring
  <2>13. AtWork' /\ Apart'
    BY <1>1, <1>11, <2>10, BeginningKeepsOthers
  <2>14. \A t \in 1 .. Len(sessions) : C!Newest(t)' <=> C!Newest(t)
    BY <1>1, <2>9, <2>10 DEF C!Newest
  \* The session this message decides.
  <2>15. /\ row.by # <<>> /\ Len(row.by) = Len(sessions[s].by) + 1 /\ row.by[Len(row.by)] = i
         /\ C!Decider(s)' = messages'[i] /\ messages'[i].text = m.text
    <3>1. row.by = Append(sessions[s].by, i) /\ Len(row.by) = Len(sessions[s].by) + 1
          /\ row.by[Len(row.by)] = i /\ row.by # <<>>
      BY <2>3, <2>8
    <3>2. C!Decider(s)' = messages'[i]
      BY <2>9, <3>1 DEF C!Decider
    <3>3. messages'[i].text = m.text
      BY <1>1, <1>13 DEF Stays, m
    <3>4. QED BY <3>1, <3>2, <3>3
  <2>26. /\ DOMAIN row.by = 1 .. Len(sessions[s].by) + 1 /\ DOMAIN sessions[s].by = 1 .. Len(sessions[s].by)
         /\ row.by[Len(sessions[s].by) + 1] = i
         /\ \A k \in 1 .. Len(sessions[s].by) : row.by[k] = sessions[s].by[k]
         /\ \A k \in DOMAIN row.by : k \in DOMAIN sessions[s].by \/ k = Len(sessions[s].by) + 1
    <3> DEFINE old == sessions[s].by
    <3>1. old \in Seq(1 .. Len(messages)) /\ row.by = Append(old, i)
      BY <2>3, <2>8
    <3> HIDE DEF old
    <3>2. /\ DOMAIN row.by = 1 .. Len(old) + 1 /\ DOMAIN old = 1 .. Len(old) /\ row.by[Len(old) + 1] = i
          /\ \A k \in 1 .. Len(old) : row.by[k] = old[k]
      BY <2>3, <3>1
    <3>3. Len(old) \in Nat
      BY <3>1
    <3>4. \A k \in DOMAIN row.by : k \in DOMAIN old \/ k = Len(old) + 1
      BY <3>2, <3>3
    <3>5. QED BY <3>2, <3>4 DEF old
  <2>16. \A t \in 1 .. Len(sessions) : t # s /\ sessions[t].by # <<>> =>
            C!Decider(t)'.text = C!Decider(t).text
    <3>1. ASSUME NEW t \in 1 .. Len(sessions), t # s, sessions[t].by # <<>>
          PROVE  C!Decider(t)'.text = C!Decider(t).text
      <4>1. PICK j \in 1 .. Len(messages) : j = sessions[t].by[Len(sessions[t].by)] /\ C!Decider(t) = messages[j]
        BY <1>1, <3>1, Decider_is
      <4>2. sessions'[t] = sessions[t]
        BY <2>9, <3>1
      <4>3. C!Decider(t)' = messages'[j]
        BY <4>1, <4>2 DEF C!Decider
      <4>4. QED BY <1>13, <4>1, <4>3 DEF Stays
    <3>2. QED BY <3>1
  <2>17. ByItsLast'
    <3>1. ASSUME NEW t \in 1 .. Len(sessions), sessions'[t].status # "pending"
          PROVE  sessions'[t].by # <<>> /\ C!Verdict(C!Decider(t)'.text) = sessions'[t].status
      <4>1. CASE t = s
        BY <2>1, <2>8, <2>9, <2>15, <4>1
      <4>2. CASE t # s
        BY <1>1, <2>9, <2>16, <3>1, <4>2 DEF InboxInv, Verdicts, ByItsLast
      <4>3. QED BY <4>1, <4>2
    <3>2. QED BY <2>9, <3>1 DEF ByItsLast
  <2>18. Workers'
    <3>1. ASSUME NEW t \in 1 .. Len(sessions), C!Newest(t)', sessions'[t].status # "pending",
                 ~ sessions'[t].rushed, NEW p \in Requests, req'[p].run = sessions'[t].run
          PROVE  req'[p].pc \in {"resuming", "drafting"}
      <4>1. CASE p = q
        BY <1>10, <4>1
      <4>2. CASE p # q /\ t = s
        BY <1>9, <2>2, <2>8, <2>9, <3>1, <4>2
      <4>3. CASE p # q /\ t # s
        <5>1. sessions'[t] = sessions[t] /\ req'[p] = req[p] /\ C!Newest(t)
          BY <1>9, <2>9, <2>14, <3>1, <4>3
        <5>2. QED BY <1>1, <3>1, <5>1 DEF InboxInv, Verdicts, Workers
      <4>4. QED BY <4>1, <4>2, <4>3
    <3>2. QED BY <2>9, <3>1 DEF Workers
  <2>19. DecisionsAreHeld'
    <3>1. ASSUME NEW t \in 1 .. Len(sessions) PROVE Held(t)'
      <4>1. CASE t = s
        <5>1. ActedUpon(s)'
          BY <1>10, <2>8, <2>9, <2>15 DEF ActedUpon
        <5>2. QED BY <4>1, <5>1 DEF Held
      <4>2. CASE t # s
        <5>1. sessions'[t] = sessions[t] /\ (C!Newest(t)' <=> C!Newest(t)) /\ t \in DOMAIN sessions
              /\ jobs'[sessions[t].run] = jobs[sessions[t].run]
          BY <1>1, <1>2, <2>9, <2>14, <4>2
        <5>2. ~ (messages[i].reply = sessions[t].ref /\ sessions[t].ref # 0)
          BY <1>4, <4>2, <5>1 DEF C!ByRef, m
        <5>3. CASE C!Newest(t)'
          BY <1>2, <1>11, <5>1, <5>2, <5>3, AnsweringKeeps
        <5>4. CASE ~ C!Newest(t)'
          BY <5>4 DEF Held
        <5>5. QED BY <5>3, <5>4
      <4>3. QED BY <4>1, <4>2
    <3>2. QED BY <2>9, <3>1 DEF DecisionsAreHeld
  <2>20. \A t \in 1 .. Len(sessions) : \A k \in DOMAIN sessions[t].by :
            sessions[t].by[k] \in 1 .. Len(messages) /\ Stays(sessions[t].by[k])
    <3>1. ASSUME NEW t \in 1 .. Len(sessions), NEW k \in DOMAIN sessions[t].by
          PROVE  sessions[t].by[k] \in 1 .. Len(messages)
      <4>1. sessions[t].by \in Seq(1 .. Len(messages))
        BY <1>1, RowsAreTyped DEF SessionRow
      <4>2. QED BY <3>1, <4>1
    <3>2. QED BY <1>13, <3>1
  \* Answered by reference on a channel with ids of its own, it is of its own chat.
  <2>21. \/ m.chat = sessions[s].chat
         \/ channel = "telegram" /\ m.reply # 0 /\ m.reply = sessions[s].ref
    <3>1. CASE s \in C!PendingIn(m.chat)
      BY <3>1 DEF C!PendingIn
    <3>2. CASE s \in C!ByRef(m.reply) /\ channel # "telegram"
      <4>1. m.reply # 0 /\ sessions[s].ref = m.reply
        BY <3>2 DEF C!ByRef
      <4>2. m.reply \in said[m.chat] /\ m.reply \in said[sessions[s].chat]
        BY <1>4, <4>1 DEF InboxInv, Referring, RepliesAreSaid, RefsAreSaid, m
      <4>3. m.chat \in Chats /\ sessions[s].chat \in Chats
        BY <1>1, <1>5 DEF MessageRow, SessionRow
      <4>4. QED BY <3>2, <4>2, <4>3 DEF InboxInv, Referring, NumbersGrow
    <3>3. CASE s \in C!ByRef(m.reply) /\ channel = "telegram"
      BY <3>3 DEF C!ByRef
    <3>4. QED BY <1>4, <3>1, <3>2, <3>3
  <2>22. C!OwnChat'
    <3>1. ASSUME NEW t \in 1 .. Len(sessions), NEW k \in DOMAIN sessions'[t].by
          PROVE  LET e == messages'[sessions'[t].by[k]] IN
                 \/ e.chat = sessions'[t].chat
                 \/ channel = "telegram" /\ e.reply # 0 /\ e.reply = sessions'[t].ref
      <4>1. CASE k \in DOMAIN sessions[t].by /\ sessions'[t].by[k] = sessions[t].by[k]
        <5>1. LET e == messages[sessions[t].by[k]] IN
              \/ e.chat = sessions[t].chat
              \/ channel = "telegram" /\ e.reply # 0 /\ e.reply = sessions[t].ref
          BY <1>1, <4>1 DEF InboxInv, C!OwnChat
        <5>2. Stays(sessions[t].by[k])
          BY <2>20, <4>1
        <5>3. QED BY <2>10, <4>1, <5>1, <5>2 DEF Stays
      <4>2. CASE t = s /\ sessions'[t].by[k] = i
        <5>1. Stays(i)
          BY <1>1, <1>13
        <5>2. QED BY <2>10, <2>21, <4>2, <5>1 DEF Stays, m
      <4>3. t # s => k \in DOMAIN sessions[t].by /\ sessions'[t].by[k] = sessions[t].by[k]
        BY <2>9, <3>1
      <4>4. t = s => \/ k \in DOMAIN sessions[t].by /\ sessions'[t].by[k] = sessions[t].by[k]
                     \/ sessions'[t].by[k] = i
        BY <2>9, <2>26, <3>1
      <4>5. QED BY <4>1, <4>2, <4>3, <4>4
    <3>2. QED BY <1>2, <2>9, <3>1 DEF C!OwnChat
  <2>23. C!LabelsAreNoFeedback'
    <3>1. ASSUME channel = "telegram", NEW t \in 1 .. Len(sessions), sessions'[t].by # <<>>,
                 messages'[sessions'[t].by[1]].chat = sessions'[t].chat
          PROVE  LET e == messages'[sessions'[t].by[1]] IN ~ (e.tap /\ e.text = "revise")
      <4>1. CASE sessions[t].by # <<>>
        <5>2. 1 \in DOMAIN sessions[t].by
          BY <1>1, <4>1, Decider_is
        <5>1. sessions'[t].by[1] = sessions[t].by[1]
          BY <2>9, <2>26, <5>2
        <5>3. Stays(sessions[t].by[1])
          BY <2>20, <5>2
        <5>4. QED BY <1>1, <2>10, <3>1, <4>1, <5>1, <5>3 DEF InboxInv, C!LabelsAreNoFeedback, Stays
      <4>2. CASE sessions[t].by = <<>>
        <5>1. t = s
          BY <2>9, <3>1, <4>2
        <5>2. sessions'[t].by[1] = i
          BY <2>8, <2>9, <4>2, <5>1
        <5>3. Stays(i) /\ m.chat = sessions[s].chat
          BY <1>1, <1>13, <2>10, <3>1, <5>1, <5>2 DEF Stays, m
        <5>4. sessions[s].status = "pending"
          BY <1>4, <4>2, <5>1 DEF InboxInv, Verdicts, ByItsLast
        <5>5. s \in C!PendingIn(m.chat)
          BY <1>4, <5>3, <5>4 DEF C!PendingIn
        <5>6. ~ (m.tap /\ m.text = "revise")
          BY <1>2, <5>5 DEF C!Intercepted
        <5>7. QED BY <5>2, <5>3, <5>6 DEF Stays, m
      <4>3. QED BY <4>1, <4>2
    <3>2. QED BY <1>2, <2>9, <3>1 DEF C!LabelsAreNoFeedback
  <2>24. C!BriefPictureStays'
    BY <1>1, <1>2, <2>9, <2>10 DEF C!BriefPictureStays, InboxInv
  <2>25. QED BY <2>11, <2>12, <2>13, <2>17, <2>18, <2>19, <2>22, <2>23, <2>24 DEF InboxInv, Verdicts
<1>16. QED BY <1>14, <1>15

LEMMA WhatPeopleWrite ==
  ASSUME C!InboxAssumption, InboxInv, NEW c \in Chats, C!Write(c) \/ C!Tap(c)
  PROVE  InboxInv'
<1>1. said \in [Chats -> SUBSET Nat] /\ RefsAreSaid
  BY DEF InboxInv, C!TypeOK, Referring
<1>2. CASE C!Write(c)
  <2>1. PICK typed \in Typed : \E reply \in {0} \cup said[c] : C!Message(c, typed[1], reply, FALSE, typed[2])
    BY <1>2 DEF C!Write
  <2>2. PICK reply \in {0} \cup said[c] : C!Message(c, typed[1], reply, FALSE, typed[2])
    BY <2>1
  <2>3. typed[1] \in C!Texts /\ typed[2] \in BOOLEAN
    <3>1. typed \in {"approve", "reject", "revise", "words", "short"} \X BOOLEAN
      BY DEF C!InboxAssumption
    <3>2. PICK text \in {"approve", "reject", "revise", "words", "short"} :
             \E with \in BOOLEAN : typed = <<text, with>>
      BY <3>1
    <3>3. PICK with \in BOOLEAN : typed = <<text, with>>
      BY <3>2
    <3>4. typed[1] = text /\ typed[2] = with
      BY <3>3
    <3>5. QED BY <3>4 DEF C!Texts
  <2>4. QED BY <2>2, <2>3, MessageKeeps
<1>3. CASE C!Tap(c)
  <2>1. PICK s \in DOMAIN sessions : \E button \in Labels :
           /\ sessions[s].chat = c /\ sessions[s].number # 0
           /\ C!Message(c, button, C!ButtonReply(s), channel = "telegram", FALSE)
    BY <1>3 DEF C!Tap
  <2>2. PICK button \in Labels :
           /\ sessions[s].chat = c /\ sessions[s].number # 0
           /\ C!Message(c, button, C!ButtonReply(s), channel = "telegram", FALSE)
    BY <2>1
  <2>3. button \in C!Texts /\ (channel = "telegram") \in BOOLEAN /\ C!ButtonReply(s) \in {0} \cup said[c]
    BY <1>1, <2>2 DEF C!InboxAssumption, C!Texts, C!ButtonReply, RefsAreSaid
  <2>4. QED BY <2>2, <2>3, MessageKeeps
<1>4. QED BY <1>2, <1>3

LEMMA InboxInit ==
  ASSUME C!InboxAssumption, C!Init
  PROVE  InboxInv
<1>1. /\ channel \in Channels /\ trigger = C!NewTrigger /\ last = [c \in Chats |-> 0]
      /\ said = [c \in Chats |-> {}] /\ messages = <<>> /\ jobs = <<>> /\ sessions = <<>>
      /\ req = [q \in Requests |-> C!Idle] /\ troubles = 0
  BY DEF C!Init
<1>2. DOMAIN messages = {} /\ DOMAIN sessions = {} /\ DOMAIN jobs = {} /\ Len(messages) = 0
      /\ Len(sessions) = 0 /\ Len(jobs) = 0
  BY <1>1
<1>3. C!TypeOK
  <2>1. trigger \in C!Trigger /\ 0 \in 0 .. MaxTroubles[channel]
    <3>1. trigger \in C!Trigger
      BY <1>1 DEF C!NewTrigger, C!Trigger
    <3>2. MaxTroubles[channel] \in Nat
      BY <1>1 DEF C!InboxAssumption
    <3>3. QED BY <3>1, <3>2
  <2>2. \A q \in Requests : req[q] \in RequestRow(0, 0, 0)
    BY <1>1 DEF C!Idle, RequestRow, C!SessionStatus
  <2>3. messages \in Seq(MessageRow) /\ jobs \in Seq(RunRow)
        /\ sessions \in Seq(SessionRow(DOMAIN jobs, DOMAIN messages))
    BY <1>1
  <2>4. req \in [Requests -> RequestRow(Len(messages), Len(jobs), Len(sessions))]
    BY <1>1, <1>2, <2>2
  <2>5. last \in [Chats -> Nat] /\ said \in [Chats -> SUBSET Nat] /\ troubles \in 0 .. MaxTroubles[channel]
    BY <1>1, <2>1
  <2>6. QED BY <1>1, <2>1, <2>3, <2>4, <2>5 DEF C!TypeOK, MessageRow, RunRow, SessionRow, RequestRow
<1>4. NumbersGrow
  <2>1. \A c \in Chats : last[c] <= 0 /\ said[c] = {}
    BY <1>1
  <2>2. QED BY <2>1 DEF NumbersGrow
<1>5. RepliesAreSaid /\ RefsAreSaid /\ ByItsLast /\ Workers /\ DecisionsAreHeld
      /\ C!OwnChat /\ C!LabelsAreNoFeedback /\ C!BriefPictureStays
  BY <1>2 DEF RepliesAreSaid, RefsAreSaid, ByItsLast, Workers, DecisionsAreHeld,
              C!OwnChat, C!LabelsAreNoFeedback, C!BriefPictureStays
<1>6. AtWork /\ Apart
  BY <1>1 DEF AtWork, AtHand, Apart, C!Idle
<1>7. QED BY <1>3, <1>4, <1>5, <1>6 DEF InboxInv, Referring, Verdicts

LEMMA InboxStep ==
  ASSUME C!InboxAssumption, InboxInv, [C!Next]_(C!inboxVars)
  PROVE  InboxInv'
<1>1. ASSUME NEW c \in Chats, C!Write(c) \/ C!Tap(c) PROVE InboxInv'
  BY <1>1, WhatPeopleWrite
<1>2. ASSUME NEW q \in Requests, C!Handle(q) PROVE InboxInv'
  BY <1>2, GiveUpKeeps, DieKeeps, ResumeKeeps, DraftKeeps, SendKeeps, SendFailsKeeps, SaveRefKeeps,
     CloseKeeps DEF C!Handle
<1>3. ASSUME NEW q \in Requests, NEW i \in DOMAIN messages, C!Receive(q, i) PROVE InboxInv'
  BY <1>3, DropKeeps, PromptKeeps, DecideKeeps, StartKeeps DEF C!Receive
<1>4. CASE C!Edit \/ C!Delete
  BY <1>4, PagesKeep
<1>5. CASE UNCHANGED C!inboxVars
  BY <1>5 DEF C!inboxVars, InboxInv, C!TypeOK, Referring, NumbersGrow, RepliesAreSaid, RefsAreSaid,
              AtWork, AtHand, Apart, Verdicts, ByItsLast, Workers, DecisionsAreHeld, Held, ActedUpon,
              C!Newest, C!Decider, C!OwnChat, C!LabelsAreNoFeedback, C!BriefPictureStays
<1>6. QED BY <1>1, <1>2, <1>3, <1>4, <1>5 DEF C!Next

LEMMA InvTapsAreKept ==
  ASSUME InboxInv
  PROVE  C!TapsAreKept
<1>1. SUFFICES ASSUME NEW s \in DOMAIN sessions, C!Newest(s), sessions[s].status \in {"approved", "rejected"},
                      jobs[sessions[s].run].status = "awaiting",
                      C!Decider(s).reply = sessions[s].ref, sessions[s].ref # 0, ~ sessions[s].rushed
               PROVE  C!Working(sessions[s].run) \/ C!Decider(s).due \/ C!Decider(s).barred
  BY DEF C!TapsAreKept
<1>2. Held(s)
  BY DEF InboxInv, Verdicts, DecisionsAreHeld
<1>3. ActedUpon(s) \/ C!Decider(s).due \/ C!Decider(s).barred
  BY <1>1, <1>2 DEF Held
<1>4. ActedUpon(s) => C!Working(sessions[s].run)
  BY DEF ActedUpon, C!Working
<1>5. QED BY <1>3, <1>4

LEMMA InboxInvariant ==
  ASSUME C!InboxAssumption PROVE C!Spec => []InboxInv
<1>1. C!Init => InboxInv BY InboxInit
<1>2. InboxInv /\ [C!Next]_(C!inboxVars) => InboxInv' BY InboxStep
<1>3. QED BY <1>1, <1>2, PTL DEF C!Spec

\* Messages, runs, sessions and requests keep their types.
THEOREM InboxTypes ==
  ASSUME C!InboxAssumption PROVE C!Spec => []C!TypeOK
<1>1. InboxInv => C!TypeOK BY DEF InboxInv
<1>2. QED BY <1>1, InboxInvariant, PTL

\* _handle_messaging_webhook: a session is decided from its own chat, but for one number in
\* two chats of Telegram.
THEOREM ChatsDecideTheirOwn ==
  ASSUME C!InboxAssumption PROVE C!Spec => []C!OwnChat
<1>1. InboxInv => C!OwnChat BY DEF InboxInv
<1>2. QED BY <1>1, InboxInvariant, PTL

\* _handle_messaging_webhook: a tap on Revise is nobody's feedback.
THEOREM ReviseAsksFirst ==
  ASSUME C!InboxAssumption PROVE C!Spec => []C!LabelsAreNoFeedback
<1>1. InboxInv => C!LabelsAreNoFeedback BY DEF InboxInv
<1>2. QED BY <1>1, InboxInvariant, PTL

\* trigger_service: a decision outlives the request that took it, until the allowlist
\* bars its chat, whatever dies, is delivered twice or is answered late.
THEOREM TapsSurviveDeaths ==
  ASSUME C!InboxAssumption PROVE C!Spec => []C!TapsAreKept
<1>1. InboxInv => C!TapsAreKept BY InvTapsAreKept
<1>2. QED BY <1>1, InboxInvariant, PTL

\* resume_after_review: drafts of a brief with a picture show one.
THEOREM BriefsKeepTheirPicture ==
  ASSUME C!InboxAssumption PROVE C!Spec => []C!BriefPictureStays
<1>1. InboxInv => C!BriefPictureStays BY DEF InboxInv
<1>2. QED BY <1>1, InboxInvariant, PTL

-----------------------------------------------------------------------------
(* Intake: what is chosen, claimed and out.                                    *)

\* What was consumed by runs that ended, while the run that has an item is under way.
Settled(e) == e \in consumed /\ ~ (stage = "publishing" /\ e \in heard.chosen)

\* Rows that were loaded are Ready until their run ends.
LoadedAreReady ==
    stage \in {"loaded", "publishing"} => \A e \in I!Candidates : I!IsCms(e) => label[e] = "ready"
\* A run that publishes was given candidates, and claimed them.
ChosenAreLoaded ==
    stage = "publishing" => /\ heard.chosen \subseteq I!Candidates
                            /\ ~ durable => heard.chosen \subseteq consumed
\* An item is out once, and then settled.
ItemsAreOutOnce ==
    ~ durable => \A e \in I!Entry, a \in RunAccount :
        ~ I!IsCms(e) => live[e][a] <= IF Settled(e) THEN 1 ELSE 0
\* A row is out when it is Ready no more.
RowsLoseReady ==
    ~ durable /\ ~ unwritten => \A e \in I!Entry, a \in RunAccount :
        I!IsCms(e) => live[e][a] <= IF label[e] = "ready" THEN 0 ELSE I!Twins(a)
\* A row that is settled is out everywhere.
SettledRowsAreOut ==
    ~ durable => \A e \in I!Entry : Settled(e) /\ I!IsCms(e) => \A a \in RunAccount : live[e][a] > 0

IntakeInv ==
    /\ I!TypeOK /\ LoadedAreReady /\ ChosenAreLoaded /\ ItemsAreOutOnce /\ RowsLoseReady
    /\ SettledRowsAreOut /\ I!RotationServesAll /\ I!TraceIsComplete

\* The sizes of sets are what they are in every module.
LEMMA IntakeSizes ==
  ASSUME NEW U PROVE I!Cardinality(U) = Cardinality(U)
  BY Zenon DEF I!Cardinality, Cardinality

LEMMA AccountsAreFew ==
  ASSUME I!IntakeAssumption PROVE IsFiniteSet(RunAccount) /\ RunAccount \subseteq Nat
<1>1. I!IsFiniteSet(RunAccount) <=> IsFiniteSet(RunAccount)
  BY DEF I!IsFiniteSet, IsFiniteSet
<1>2. QED BY <1>1 DEF I!IntakeAssumption

\* Accounts and posts are few.
LEMMA FewPosts ==
  ASSUME I!IntakeAssumption
  PROVE  /\ IsFiniteSet(I!Posts)
         /\ \A a \in RunAccount : I!Twins(a) \in Nat
         /\ \A posted : \A e \in I!Entry, a \in RunAccount :
               /\ I!Times(e, a, posted) \in Nat /\ I!Times(e, a, posted) <= I!Twins(a)
               /\ (\A p \in I!Posts : <<e, p>> \in posted) => I!Times(e, a, posted) > 0
               /\ (\A p \in I!Posts : <<e, p>> \notin posted) => I!Times(e, a, posted) = 0
<1>1. IsFiniteSet(RunAccount) /\ RunAccount \subseteq Nat
  BY AccountsAreFew
<1>2. IsFiniteSet(I!Posts)
  <2>1. IsFiniteSet(RunAccount \X RunAccount)
    BY <1>1, FS_Product
  <2>2. I!Posts \in SUBSET (RunAccount \X RunAccount)
    BY DEF I!Posts
  <2>3. QED BY <2>1, <2>2, FS_Subset
<1>3. ASSUME NEW a \in RunAccount
      PROVE  IsFiniteSet({b \in RunAccount : RunKind[b] = RunKind[a]}) /\ I!Twins(a) \in Nat
  <2>1. {b \in RunAccount : RunKind[b] = RunKind[a]} \in SUBSET RunAccount
    OBVIOUS
  <2>2. IsFiniteSet({b \in RunAccount : RunKind[b] = RunKind[a]})
    BY <1>1, <2>1, FS_Subset
  <2>3. QED BY <2>2, FS_CardinalityType, IntakeSizes DEF I!Twins
<1>4. ASSUME NEW e \in I!Entry, NEW a \in RunAccount, NEW posted
      PROVE  /\ I!Times(e, a, posted) \in Nat /\ I!Times(e, a, posted) <= I!Twins(a)
             /\ (\A p \in I!Posts : <<e, p>> \in posted) => I!Times(e, a, posted) > 0
             /\ (\A p \in I!Posts : <<e, p>> \notin posted) => I!Times(e, a, posted) = 0
  <2> DEFINE Mine == {p \in I!Posts : p[2] = a /\ <<e, p>> \in posted}
             Same == {b \in RunAccount : RunKind[b] = RunKind[a]}
             f == [p \in Mine |-> p[1]]
  <2>1. IsFiniteSet(Mine)
    <3>1. Mine \in SUBSET I!Posts
      OBVIOUS
    <3>2. QED BY <1>2, <3>1, FS_Subset
  <2>2. IsFiniteSet(Same)
    BY <1>3
  <2>3. f \in Injection(Mine, Same)
    <3>1. \A p \in Mine : p[1] \in Same /\ p = <<p[1], a>>
      BY DEF I!Posts
    <3>2. f \in [Mine -> Same]
      BY <3>1
    <3>3. \A p, q \in Mine : f[p] = f[q] => p = q
      BY <3>1
    <3>4. QED BY <3>2, <3>3 DEF Injection, IsInjective
  <2>4. Cardinality(Mine) <= Cardinality(Same)
    <3> HIDE DEF Mine, Same, f
    <3>1. QED BY <2>2, <2>3, FS_Injection
  <2>5. Cardinality(Mine) \in Nat /\ (Cardinality(Mine) = 0 <=> Mine = {})
    <3> HIDE DEF Mine
    <3>1. QED BY <2>1, FS_CardinalityType, FS_EmptySet
  <2>6. I!Times(e, a, posted) = Cardinality(Mine) /\ I!Twins(a) = Cardinality(Same)
    BY IntakeSizes DEF I!Times, I!Twins
  <2>7. (\A p \in I!Posts : <<e, p>> \in posted) => <<a, a>> \in Mine
    BY DEF I!Posts
  <2>8. (\A p \in I!Posts : <<e, p>> \notin posted) => Mine = {}
    OBVIOUS
  <2> HIDE DEF Mine, Same
  <2>9. QED BY <2>4, <2>5, <2>6, <2>7, <2>8
<1>5. QED BY <1>2, <1>3, <1>4

\* Of the items of one source one is newer than no other.
LEMMA SourcesHaveNewest ==
  ASSUME I!IntakeAssumption, I!TypeOK, NEW s \in Source, NEW set \in SUBSET I!Of(s), set # {}
  PROVE  \E m \in set : {d \in set : I!Newer(d, m)} = {}
<1>1. /\ \A e \in set : e \in I!Candidates /\ e \in I!Entry /\ e \in Nat /\ HomeOf[e] = s
      /\ \A e \in set : items[e].at \in -1 .. MaxClock
      /\ MaxClock \in Nat /\ s \in Nat
  BY DEF I!Of, I!TypeOK, I!Items, I!Entry, I!Undated, I!IntakeAssumption
<1> DEFINE Ages == {items[e].at + 1 : e \in set}
<1>2. \E k \in Ages : \A j \in Ages : j <= k
  <2>1. Ages \in SUBSET Nat /\ Ages # {} /\ MaxClock + 1 \in Nat /\ \A k \in Ages : k <= MaxClock + 1
    BY <1>1
  <2> HIDE DEF Ages
  <2>2. QED BY <2>1, GreatestNumber
<1>3. PICK k \in Ages : \A j \in Ages : j <= k
  BY <1>2
<1> DEFINE Young == {e \in set : items[e].at + 1 = k}
<1>4. /\ Young # {}
      /\ \A e \in set, d \in Young : items[e].at <= items[d].at
  <2>1. \A e \in set : items[e].at + 1 <= k /\ items[e].at \in Int
    BY <1>1, <1>3
  <2>2. \E e \in set : items[e].at + 1 = k
    OBVIOUS
  <2>3. k \in Int
    BY <2>1, <2>2
  <2>4. ASSUME NEW e \in set, NEW d \in Young PROVE items[e].at <= items[d].at
    BY <2>1, <2>3
  <2>5. QED BY <2>2, <2>4
<1> DEFINE Kind == I!Registry[FeedKind[s]].order
<1>5. \A d, e \in set : I!First(d, e) <=> IF Kind = "newest" THEN there[d] > there[e] ELSE d < e
  BY <1>1 DEF I!First, I!AdapterOf
<1>6. \E m \in Young : \A d \in Young : ~ I!First(d, m)
  <2>1. CASE Kind = "newest"
    <3> DEFINE Moments == {there[e] : e \in Young}
    <3>1. Moments \in SUBSET Nat /\ Moments # {} /\ \A n \in Moments : n <= I!Absent /\ I!Absent \in Nat
      BY <1>1, <1>4 DEF I!TypeOK, I!Absent
    <3>2. \E n \in Moments : \A j \in Moments : j <= n
      <4> HIDE DEF Moments
      <4>1. QED BY <3>1, GreatestNumber
    <3>3. PICK m \in Young : \A d \in Young : there[d] <= there[m]
      BY <3>2
    <3>4. \A d \in Young : there[d] \in Nat
      BY <3>1
    <3>5. \A d \in Young : ~ (there[d] > there[m])
      BY <3>3, <3>4
    <3>6. QED BY <1>5, <2>1, <3>5
  <2>2. CASE Kind # "newest"
    <3>1. Young \in SUBSET Nat /\ Young # {}
      BY <1>1, <1>4
    <3>2. PICK m \in Young : \A d \in Young : m <= d
      <4> HIDE DEF Young
      <4>1. QED BY <3>1, LeastNumber
    <3>3. \A d \in Young : ~ (d < m)
      BY <3>1, <3>2
    <3>4. QED BY <1>5, <2>2, <3>3
  <2>3. QED BY <2>1, <2>2
<1>7. PICK m \in Young : \A d \in Young : ~ I!First(d, m)
  BY <1>6
<1>8. ASSUME NEW d \in set, I!Newer(d, m) PROVE FALSE
  <2>1. /\ items[d].at \in Int /\ items[m].at \in Int /\ items[d].at <= items[m].at
        /\ HomeOf[d] = s /\ HomeOf[m] = s /\ s \in Nat
    BY <1>1, <1>4
  <2>2. items[d].at = items[m].at /\ I!First(d, m)
    BY <1>8, <2>1 DEF I!Newer, I!Before
  <2>3. d \in Young
    BY <2>2, <1>7
  <2>4. QED BY <1>7, <2>2, <2>3
<1>9. QED BY <1>7, <1>8

\* The newest of a set are of it, and there are some if there may be.
LEMMA NewestOfSource ==
  ASSUME I!IntakeAssumption, I!TypeOK, NEW s \in Source, NEW set \in SUBSET I!Of(s), NEW n \in Nat
  PROVE  /\ I!Newest(n, set) \subseteq set
         /\ I!Newest(n, set) # {} => n # 0
         /\ n # 0 /\ set # {} => I!Newest(n, set) # {}
<1>1. I!Newest(n, set) \subseteq set
  BY DEF I!Newest
<1>2. IsFiniteSet(set)
  <2>1. set \in SUBSET I!Entry /\ IsFiniteSet(I!Entry)
    <3>1. set \in SUBSET (1 .. MaxEntry) /\ MaxEntry \in Int
      BY DEF I!Of, I!TypeOK, I!Entry, I!IntakeAssumption
    <3>2. IsFiniteSet(1 .. MaxEntry)
      BY <3>1, FS_Interval
    <3>3. QED BY <3>1, <3>2 DEF I!Entry
  <2>2. QED BY <2>1, FS_Subset
<1>3. ASSUME NEW e \in I!Newest(n, set) PROVE n # 0
  <2> DEFINE Above == {d \in set : I!Newer(d, e)}
  <2>1. Above \in SUBSET set
    OBVIOUS
  <2>2. Cardinality(Above) \in Nat
    <3> HIDE DEF Above
    <3>1. QED BY <1>2, <2>1, FS_Subset, FS_CardinalityType
  <2>3. Cardinality(Above) < n
    BY IntakeSizes DEF I!Newest
  <2> HIDE DEF Above
  <2>4. QED BY <2>2, <2>3
<1>4. ASSUME n # 0, set # {} PROVE I!Newest(n, set) # {}
  <2>1. PICK m \in set : {d \in set : I!Newer(d, m)} = {}
    BY <1>4, SourcesHaveNewest
  <2>2. Cardinality({d \in set : I!Newer(d, m)}) = 0
    BY <2>1, FS_EmptySet
  <2>3. 0 < n
    BY <1>4
  <2>4. m \in I!Newest(n, set)
    BY <2>1, <2>2, <2>3, IntakeSizes DEF I!Newest
  <2>5. QED BY <2>4
<1>5. QED BY <1>1, <1>3, <1>4

\* A run without candidates.
LEMMA NothingLoaded ==
  DOMAIN <<>> = {} /\ DOMAIN <<>> \subseteq I!Entry /\ <<>> \in [DOMAIN <<>> -> I!Items]
<1>1. DOMAIN <<>> = {}
  OBVIOUS
<1>2. <<>> = [e \in {} |-> 0]
  BY <1>1
<1>3. QED BY <1>1, <1>2

LEMMA IntakeInit ==
  ASSUME I!IntakeAssumption, I!Init PROVE IntakeInv
<1>1. consumed = {} /\ items = <<>> /\ stage = "idle" /\ loads = 0 /\ clock = 0
  BY DEF I!Init
<1>2. DOMAIN items = {}
  BY <1>1, NothingLoaded
<1>3. I!TypeOK
  <2>1. /\ clock \in 0 .. MaxClock /\ loads \in 0 .. MaxLoads /\ I!Absent \in 0 .. I!Absent
    BY <1>1 DEF I!IntakeAssumption, I!Absent
  <2>2. there \in [I!Entry -> 0 .. I!Absent]
    BY <2>1 DEF I!Init
  <2>3. /\ label \in [I!Entry -> {"ready", "published", "failed"}]
        /\ live \in [I!Entry -> [RunAccount -> Nat]] /\ heard \in I!Heard /\ unwritten \in BOOLEAN
    BY DEF I!Init, I!Heard
  <2>4. I!Candidates \subseteq I!Entry /\ items \in [I!Candidates -> I!Items]
    BY <1>1, NothingLoaded DEF I!Candidates
  <2>5. QED BY <1>1, <2>1, <2>2, <2>3, <2>4 DEF I!TypeOK, I!Init
<1>4. \A e \in I!Entry : ~ Settled(e)
  BY <1>1 DEF Settled
<1>5. ItemsAreOutOnce /\ RowsLoseReady /\ SettledRowsAreOut
  <2>1. \A e \in I!Entry, a \in RunAccount : live[e][a] = 0
    BY DEF I!Init
  <2>2. \A e \in I!Entry : label[e] = "ready"
    BY DEF I!Init
  <2>3. QED BY <1>4, <2>1, <2>2 DEF ItemsAreOutOnce, RowsLoseReady, SettledRowsAreOut
<1>6. LoadedAreReady /\ ChosenAreLoaded
  BY <1>1 DEF LoadedAreReady, ChosenAreLoaded
<1>7. heard.chosen = {} /\ heard.unseen = {}
  BY DEF I!Init
<1>8. I!RotationServesAll /\ I!TraceIsComplete
  BY <1>7 DEF I!RotationServesAll, I!TraceIsComplete
<1>9. QED BY <1>3, <1>5, <1>6, <1>8 DEF IntakeInv
-----------------------------------------------------------------------------
LEMMA AppearKeeps ==
  ASSUME I!IntakeAssumption, IntakeInv, NEW e \in I!Entry, I!Appear(e) PROVE IntakeInv'
<1>1. /\ I!TypeOK /\ MaxClock \in Nat
      /\ there' = [there EXCEPT ![e] = clock] /\ clock' = clock + 1 /\ clock < MaxClock
      /\ UNCHANGED <<strategy, durable, consumed, items, stage, loads, label, live, heard, unwritten>>
  BY DEF I!Appear, IntakeInv, I!IntakeAssumption
<1>2. I!TypeOK'
  <2>1. clock' \in 0 .. MaxClock /\ clock \in 0 .. I!Absent
    BY <1>1 DEF I!TypeOK, I!Absent
  <2>2. there' \in [I!Entry -> 0 .. I!Absent]
    BY <1>1, <2>1 DEF I!TypeOK
  <2>3. (I!Candidates \subseteq I!Entry /\ items \in [I!Candidates -> I!Items])'
    BY <1>1 DEF I!TypeOK, I!Candidates, I!Items
  <2>4. QED BY <1>1, <2>1, <2>2, <2>3 DEF I!TypeOK
<1>3. QED
  BY <1>1, <1>2 DEF IntakeInv, LoadedAreReady, ChosenAreLoaded, ItemsAreOutOnce, RowsLoseReady,
     SettledRowsAreOut, Settled, I!RotationServesAll, I!TraceIsComplete, I!Candidates

\* What is taken was there, and Ready.
LEMMA TakenIsShown ==
  ASSUME NEW s, NEW broken, NEW e \in I!Taken(s, broken)
  PROVE  e \in I!Entry /\ there[e] # I!Absent /\ (I!IsCms(e) => label[e] = "ready")
<1>1. e \in I!Readable(s, broken)
  BY DEF I!Taken
<1>2. e \in I!Shown(s)
  BY <1>1 DEF I!Readable
<1>3. QED BY <1>2 DEF I!Shown

LEMMA LoadKeeps ==
  ASSUME I!IntakeAssumption, IntakeInv, I!Load PROVE IntakeInv'
<1>1. /\ I!TypeOK /\ stage = "idle" /\ stage' = "loaded" /\ loads < MaxLoads /\ loads' = loads + 1
      /\ UNCHANGED <<clock, there, strategy, durable, consumed, label, live, heard, unwritten>>
      /\ MaxLoads \in Nat /\ MaxClock \in Nat
  BY DEF I!Load, IntakeInv, I!IntakeAssumption
<1>2. PICK broken \in SUBSET I!Entry, undated \in SUBSET I!Entry :
        items' = [e \in UNION {I!Taken(s, broken) : s \in Source} |->
                    [at |-> I!Dated(e, undated), aware |-> "aware" \in I!AdapterOf(e).stamps]]
  BY DEF I!Load
<1>3. I!Candidates' = UNION {I!Taken(s, broken) : s \in Source}
  BY <1>2 DEF I!Candidates
<1>4. \A e \in I!Candidates' : e \in I!Entry /\ there[e] # I!Absent /\ (I!IsCms(e) => label[e] = "ready")
  BY <1>3, TakenIsShown
<1>5. I!TypeOK'
  <2>1. loads' \in 0 .. MaxLoads
    BY <1>1 DEF I!TypeOK
  <2>2. ASSUME NEW e \in I!Candidates'
        PROVE  [at |-> I!Dated(e, undated), aware |-> "aware" \in I!AdapterOf(e).stamps] \in I!Items
    <3>1. there[e] \in 0 .. I!Absent /\ there[e] # I!Absent /\ clock \in 0 .. MaxClock
      BY <1>1, <1>4, <2>2 DEF I!TypeOK
    <3>2. there[e] \in I!Undated .. MaxClock /\ clock \in I!Undated .. MaxClock /\ I!Undated \in I!Undated .. MaxClock
      BY <1>1, <3>1 DEF I!Absent, I!Undated
    <3>3. I!Dated(e, undated) \in I!Undated .. MaxClock
      BY <3>2 DEF I!Dated
    <3>4. ("aware" \in I!AdapterOf(e).stamps) \in BOOLEAN
      OBVIOUS
    <3>5. QED BY <3>3, <3>4 DEF I!Items
  <2>3. (I!Candidates \subseteq I!Entry)' /\ (items \in [I!Candidates -> I!Items])'
    BY <1>2, <1>3, <1>4, <2>2 DEF I!Items
  <2>4. QED BY <1>1, <2>1, <2>3 DEF I!TypeOK
<1>6. LoadedAreReady'
  BY <1>1, <1>4 DEF LoadedAreReady, I!IsCms
<1>7. \A e \in I!Entry : Settled(e)' <=> Settled(e)
  BY <1>1 DEF Settled
<1>8. ChosenAreLoaded'
  BY <1>1 DEF ChosenAreLoaded
<1>9. ItemsAreOutOnce' /\ RowsLoseReady' /\ SettledRowsAreOut'
  BY <1>1, <1>7 DEF IntakeInv, ItemsAreOutOnce, RowsLoseReady, SettledRowsAreOut, I!IsCms, I!Twins
<1>10. I!RotationServesAll' /\ I!TraceIsComplete'
  BY <1>1 DEF IntakeInv, I!RotationServesAll, I!TraceIsComplete
<1>11. QED BY <1>5, <1>6, <1>8, <1>9, <1>10 DEF IntakeInv
-----------------------------------------------------------------------------
\* Whatever unseen items are chosen, they are claimed.
LEMMA ChoosesKeeps ==
  ASSUME I!IntakeAssumption, IntakeInv, stage = "loaded",
         NEW chosen \in SUBSET I!Unseen, NEW skipped \in SUBSET I!Candidates,
         NEW raised \in BOOLEAN, I!Chooses(chosen, skipped, raised),
         UNCHANGED <<clock, there, strategy, durable, items, loads, label, live, unwritten>>,
         strategy = "roundrobin" /\ chosen # {} /\ ~ raised =>
             \A e \in I!Unseen : \E d \in chosen : HomeOf[d] = HomeOf[e],
         strategy \in {"per_item", "roundrobin", "engagement_weighted"} /\ ~ raised =>
             I!Unseen \subseteq chosen \cup skipped
  PROVE  IntakeInv'
<1>1. /\ heard' = [unseen |-> I!Unseen, chosen |-> chosen, skipped |-> skipped, raised |-> raised]
      /\ consumed' = IF durable THEN consumed ELSE consumed \cup chosen
      /\ stage' = IF chosen = {} THEN "idle" ELSE "publishing"
  BY DEF I!Chooses
<1>2. /\ I!TypeOK /\ chosen \subseteq I!Candidates /\ chosen \cap consumed = {}
      /\ I!Unseen \subseteq I!Candidates /\ I!Candidates' = I!Candidates
  BY DEF IntakeInv, I!Unseen, I!Candidates
<1>3. I!TypeOK'
  <2>1. I!Candidates \subseteq I!Entry
    BY <1>2 DEF I!TypeOK
  <2>2. heard' \in I!Heard
    BY <1>1, <1>2, <2>1 DEF I!Heard
  <2>3. consumed' \subseteq I!Entry /\ stage' \in {"idle", "loaded", "publishing", "dead"}
    BY <1>1, <1>2, <2>1 DEF I!TypeOK
  <2>4. QED BY <1>2, <2>2, <2>3 DEF I!TypeOK, I!Items
<1>4. ASSUME ~ durable, NEW e \in I!Entry PROVE Settled(e)' <=> Settled(e)
  <2>1. Settled(e) <=> e \in consumed
    BY DEF Settled
  <2>2. heard'.chosen = chosen /\ consumed' = consumed \cup chosen
    BY <1>1, <1>4
  <2>3. CASE e \in chosen
    BY <1>1, <1>2, <2>1, <2>2, <2>3 DEF Settled
  <2>4. CASE e \notin chosen
    BY <2>1, <2>2, <2>4 DEF Settled
  <2>5. QED BY <2>3, <2>4
<1>5. LoadedAreReady'
  BY <1>1, <1>2 DEF IntakeInv, LoadedAreReady, I!IsCms
<1>6. ChosenAreLoaded'
  BY <1>1, <1>2 DEF ChosenAreLoaded
<1>7. ItemsAreOutOnce' /\ RowsLoseReady' /\ SettledRowsAreOut'
  BY <1>4 DEF IntakeInv, ItemsAreOutOnce, RowsLoseReady, SettledRowsAreOut, I!IsCms, I!Twins
<1>8. I!RotationServesAll'
  BY <1>1 DEF I!RotationServesAll
<1>9. I!TraceIsComplete'
  BY <1>1 DEF I!TraceIsComplete
<1>10. QED BY <1>3, <1>5, <1>6, <1>7, <1>8, <1>9 DEF IntakeInv

\* Rotation takes unseen items, and if any then of each source that has some.
LEMMA RotationTakesAll ==
  ASSUME I!IntakeAssumption, I!TypeOK
  PROVE  /\ I!RoundRobin \subseteq I!Unseen
         /\ I!RoundRobin # {} => \A e \in I!Unseen : \E d \in I!RoundRobin : HomeOf[d] = HomeOf[e]
<1>1. PerSource \in Nat /\ \A e \in I!Candidates : HomeOf[e] \in Source
  BY DEF I!IntakeAssumption, I!TypeOK
<1>2. \A s \in Source : I!Unseen \cap I!Of(s) \in SUBSET I!Of(s)
  OBVIOUS
<1>3. \A s \in Source :
         /\ I!Newest(PerSource, I!Unseen \cap I!Of(s)) \subseteq I!Unseen \cap I!Of(s)
         /\ I!Newest(PerSource, I!Unseen \cap I!Of(s)) # {} => PerSource # 0
         /\ PerSource # 0 /\ I!Unseen \cap I!Of(s) # {} => I!Newest(PerSource, I!Unseen \cap I!Of(s)) # {}
  BY <1>1, <1>2, NewestOfSource
<1>4. I!RoundRobin \subseteq I!Unseen
  BY <1>3 DEF I!RoundRobin
<1>5. ASSUME I!RoundRobin # {}, NEW e \in I!Unseen PROVE \E d \in I!RoundRobin : HomeOf[d] = HomeOf[e]
  <2>1. PerSource # 0
    BY <1>3, <1>5 DEF I!RoundRobin
  <2>2. HomeOf[e] \in Source /\ e \in I!Of(HomeOf[e])
    BY <1>1 DEF I!Unseen, I!Of
  <2>3. PICK d \in I!Newest(PerSource, I!Unseen \cap I!Of(HomeOf[e])) : TRUE
    BY <1>3, <2>1, <2>2
  <2>4. d \in I!RoundRobin
    BY <2>2, <2>3 DEF I!RoundRobin
  <2>5. HomeOf[d] = HomeOf[e]
    BY <1>3, <2>2, <2>3 DEF I!Of
  <2>6. QED BY <2>4, <2>5
<1>6. QED BY <1>4, <1>5

LEMMA SelectKeeps ==
  ASSUME I!IntakeAssumption, IntakeInv, I!Select PROVE IntakeInv'
<1>1. /\ I!TypeOK /\ stage = "loaded" /\ I!Unseen \subseteq I!Candidates
      /\ UNCHANGED <<clock, there, strategy, durable, items, loads, label, live, unwritten>>
  BY DEF I!Select, IntakeInv, I!Unseen
<1>2. CASE strategy = "per_item" /\ I!Chooses(I!PerItem, I!Candidates \ I!PerItem, FALSE)
  <2>1. I!PerItem \in SUBSET I!Unseen /\ I!Candidates \ I!PerItem \in SUBSET I!Candidates
    BY DEF I!PerItem, I!Newest
  <2>2. I!Unseen \subseteq I!PerItem \cup (I!Candidates \ I!PerItem)
    BY <1>1
  <2>3. strategy # "roundrobin"
    BY <1>2
  <2>4. QED BY <1>1, <1>2, <2>1, <2>2, <2>3, ChoosesKeeps
<1>3. CASE strategy = "roundrobin" /\ I!Chooses(I!RoundRobin, I!Candidates \ I!RoundRobin, FALSE)
  <2>1. I!RoundRobin \in SUBSET I!Unseen /\ I!Candidates \ I!RoundRobin \in SUBSET I!Candidates
    BY <1>1, RotationTakesAll
  <2>2. I!Unseen \subseteq I!RoundRobin \cup (I!Candidates \ I!RoundRobin)
    BY <1>1
  <2>3. I!RoundRobin # {} => \A e \in I!Unseen : \E d \in I!RoundRobin : HomeOf[d] = HomeOf[e]
    BY <1>1, RotationTakesAll
  <2>4. QED BY <1>1, <1>3, <2>1, <2>2, <2>3, ChoosesKeeps
<1>4. CASE strategy = "freshness" /\ I!Chooses(I!Freshness, I!FreshnessSkipped(I!Freshness), FALSE)
  <2>1. I!Freshness \in SUBSET I!Unseen /\ I!FreshnessSkipped(I!Freshness) \in SUBSET I!Candidates
    BY DEF I!Freshness, I!Newest, I!Fresh, I!FreshnessSkipped
  <2>2. strategy \notin {"per_item", "roundrobin", "engagement_weighted"}
    BY <1>4
  <2>3. QED BY <1>1, <1>4, <2>1, <2>2, ChoosesKeeps
<1>5. CASE /\ strategy = "engagement_weighted"
           /\ \E history \in [Source -> {0, 1}] :
                I!Chooses(I!EngagementWeighted(history), I!Unseen \ I!EngagementWeighted(history), FALSE)
  <2>1. PICK history \in [Source -> {0, 1}] :
           I!Chooses(I!EngagementWeighted(history), I!Unseen \ I!EngagementWeighted(history), FALSE)
    BY <1>5
  <2>2. I!EngagementWeighted(history) \in SUBSET I!Unseen
    BY DEF I!EngagementWeighted
  <2>3. /\ I!Unseen \ I!EngagementWeighted(history) \in SUBSET I!Candidates
        /\ I!Unseen \subseteq I!EngagementWeighted(history) \cup (I!Unseen \ I!EngagementWeighted(history))
    BY <1>1
  <2>4. strategy # "roundrobin"
    BY <1>5
  <2>5. QED BY <1>1, <2>1, <2>2, <2>3, <2>4, ChoosesKeeps
<1>6. CASE /\ strategy = "relevance"
           /\ \/ \E c \in I!RelevantOf(I!Unseen) : I!Chooses(c, I!Unseen \ c, FALSE)
              \/ I!Chooses(I!RelevanceFallback, {}, FALSE)
  <2>1. strategy \notin {"per_item", "roundrobin", "engagement_weighted"}
    BY <1>6
  <2>2. ASSUME NEW c \in I!RelevantOf(I!Unseen), I!Chooses(c, I!Unseen \ c, FALSE) PROVE IntakeInv'
    <3>1. c \in SUBSET I!Unseen /\ I!Unseen \ c \in SUBSET I!Candidates
      BY <1>1 DEF I!RelevantOf
    <3>2. QED BY <1>1, <2>1, <2>2, <3>1, ChoosesKeeps
  <2>3. CASE I!Chooses(I!RelevanceFallback, {}, FALSE)
    <3>1. I!RelevanceFallback \in SUBSET I!Unseen /\ {} \in SUBSET I!Candidates
      BY DEF I!RelevanceFallback, I!Newest
    <3>2. QED BY <1>1, <2>1, <2>3, <3>1, ChoosesKeeps
  <2>4. QED BY <1>6, <2>2, <2>3
<1>7. QED BY <1>2, <1>3, <1>4, <1>5, <1>6 DEF I!Select

LEMMA SelectRaisesKeeps ==
  ASSUME I!IntakeAssumption, IntakeInv, I!SelectRaises PROVE IntakeInv'
<1>1. /\ I!TypeOK /\ stage = "loaded"
      /\ UNCHANGED <<clock, there, strategy, durable, items, loads, label, live, unwritten>>
  BY DEF I!SelectRaises, IntakeInv
<1>2. CASE durable /\ stage' = "dead" /\ UNCHANGED <<heard, consumed>>
  <2>1. I!TypeOK'
    BY <1>1, <1>2, Zenon DEF I!TypeOK, I!Candidates, I!Items
  <2>2. LoadedAreReady' /\ ChosenAreLoaded'
    BY <1>2 DEF LoadedAreReady, ChosenAreLoaded
  <2>3. ItemsAreOutOnce' /\ RowsLoseReady' /\ SettledRowsAreOut'
    BY <1>1, <1>2 DEF ItemsAreOutOnce, RowsLoseReady, SettledRowsAreOut
  <2>4. I!RotationServesAll' /\ I!TraceIsComplete'
    BY <1>1, <1>2 DEF IntakeInv, I!RotationServesAll, I!TraceIsComplete
  <2>5. QED BY <2>1, <2>2, <2>3, <2>4 DEF IntakeInv
<1>3. CASE I!Chooses(I!FirstUnseen, {}, TRUE)
  <2>1. I!FirstUnseen \in SUBSET I!Unseen /\ {} \in SUBSET I!Candidates
    BY DEF I!FirstUnseen
  <2>2. QED BY <1>1, <1>3, <2>1, ChoosesKeeps
<1>4. QED BY <1>2, <1>3 DEF I!SelectRaises

LEMMA RestartKeeps ==
  ASSUME I!IntakeAssumption, IntakeInv, I!Restart PROVE IntakeInv'
<1>1. /\ I!TypeOK /\ stage = "dead" /\ stage' = "idle" /\ items' = <<>>
      /\ UNCHANGED <<clock, there, strategy, durable, consumed, loads, label, live, heard, unwritten>>
  BY DEF I!Restart, IntakeInv
<1>2. I!TypeOK'
  <2>1. (I!Candidates \subseteq I!Entry)' /\ (items \in [I!Candidates -> I!Items])'
    BY <1>1, NothingLoaded DEF I!Candidates
  <2>2. QED BY <1>1, <2>1 DEF I!TypeOK
<1>3. \A e \in I!Entry : Settled(e)' <=> Settled(e)
  BY <1>1 DEF Settled
<1>4. LoadedAreReady' /\ ChosenAreLoaded'
  BY <1>1 DEF LoadedAreReady, ChosenAreLoaded
<1>5. ItemsAreOutOnce' /\ RowsLoseReady' /\ SettledRowsAreOut'
  BY <1>1, <1>3 DEF IntakeInv, ItemsAreOutOnce, RowsLoseReady, SettledRowsAreOut, I!IsCms, I!Twins
<1>6. I!RotationServesAll' /\ I!TraceIsComplete'
  BY <1>1 DEF IntakeInv, I!RotationServesAll, I!TraceIsComplete
<1>7. QED BY <1>2, <1>4, <1>5, <1>6 DEF IntakeInv
-----------------------------------------------------------------------------
\* However far the rows of a run get, what holds of items holds after it.
LEMMA RowsEndKeeps ==
  ASSUME I!IntakeAssumption, IntakeInv, stage = "publishing", ~ durable,
         NEW posted \in SUBSET (I!Rows \X I!Posts), NEW raised \in SUBSET I!Rows,
         raised = {} => posted = I!Rows \X I!Posts, I!RowsEnd(posted, raised),
         stage' = "idle", items' = <<>>,
         UNCHANGED <<clock, there, strategy, durable, loads, heard>>
  PROVE  IntakeInv'
<1>1. /\ I!TypeOK /\ heard.chosen \subseteq I!Candidates /\ heard.chosen \subseteq consumed
      /\ \A e \in I!Rows : label[e] = "ready"
      /\ I!Rows \subseteq I!Entry
  BY DEF IntakeInv, ChosenAreLoaded, LoadedAreReady, I!Rows, I!TypeOK
<1>2. PICK silent \in SUBSET I!Rows :
        /\ label' = [e \in I!Entry |-> IF e \in silent THEN label[e] ELSE I!Written(e, posted, raised)]
        /\ unwritten' = (unwritten \/ silent # {})
  BY DEF I!RowsEnd
<1>3. /\ live' = [e \in I!Entry |-> [a \in RunAccount |-> live[e][a] + I!Times(e, a, posted)]]
      /\ consumed' = IF raised = {} THEN consumed ELSE consumed \ heard.chosen
  BY DEF I!RowsEnd, I!Released
<1>4. \A e \in I!Entry, a \in RunAccount :
         /\ I!Times(e, a, posted) \in Nat /\ I!Times(e, a, posted) <= I!Twins(a)
         /\ (\A p \in I!Posts : <<e, p>> \in posted) => I!Times(e, a, posted) > 0
         /\ (\A p \in I!Posts : <<e, p>> \notin posted) => I!Times(e, a, posted) = 0
  BY FewPosts
<1>5. \A e \in I!Entry, a \in RunAccount :
         /\ live[e][a] \in Nat /\ live'[e][a] \in Nat /\ I!Twins(a) \in Nat
         /\ live'[e][a] = live[e][a] + I!Times(e, a, posted)
  <2>1. \A e \in I!Entry, a \in RunAccount : live[e][a] \in Nat
    BY <1>1 DEF I!TypeOK
  <2>2. QED BY <1>3, <1>4, <2>1, FewPosts
<1>6. \A e \in I!Entry, a \in RunAccount : e \notin I!Rows => live'[e][a] = live[e][a]
  <2>1. \A e \in I!Entry, p \in I!Posts : e \notin I!Rows => <<e, p>> \notin posted
    OBVIOUS
  <2>2. QED BY <1>4, <1>5, <2>1
<1>7. I!TypeOK'
  <2>1. \A e \in I!Entry : I!Written(e, posted, raised) \in {"ready", "published", "failed"}
    BY <1>1 DEF I!Written, I!TypeOK
  <2>2. label' \in [I!Entry -> {"ready", "published", "failed"}]
    BY <1>1, <1>2, <2>1 DEF I!TypeOK
  <2>3. live' \in [I!Entry -> [RunAccount -> Nat]]
    BY <1>3, <1>5
  <2>4. consumed' \subseteq I!Entry /\ unwritten' \in BOOLEAN
    BY <1>1, <1>2, <1>3 DEF I!TypeOK
  <2>5. (I!Candidates \subseteq I!Entry)' /\ (items \in [I!Candidates -> I!Items])'
    BY NothingLoaded DEF I!Candidates
  <2>6. QED BY <1>1, <2>2, <2>3, <2>4, <2>5 DEF I!TypeOK
<1>8. \A e \in I!Entry : Settled(e)' <=> e \in consumed'
  BY DEF Settled
<1>9. \A e \in I!Entry : Settled(e) <=> e \in consumed /\ e \notin heard.chosen
  BY DEF Settled
<1>10. ItemsAreOutOnce'
  <2>1. ASSUME NEW e \in I!Entry, NEW a \in RunAccount, ~ I!IsCms(e)
        PROVE  live'[e][a] <= IF Settled(e)' THEN 1 ELSE 0
    <3>1. live'[e][a] = live[e][a]
      BY <1>6, <2>1 DEF I!Rows
    <3>2. live[e][a] <= IF Settled(e) THEN 1 ELSE 0
      BY <2>1 DEF IntakeInv, ItemsAreOutOnce
    <3>3. Settled(e) => Settled(e)'
      BY <1>3, <1>8, <1>9
    <3>4. QED BY <1>5, <3>1, <3>2, <3>3
  <2>2. QED BY <2>1 DEF ItemsAreOutOnce, I!IsCms
<1>11. RowsLoseReady'
  <2>1. ASSUME ~ unwritten', NEW e \in I!Entry, NEW a \in RunAccount, I!IsCms(e)
        PROVE  live'[e][a] <= IF label'[e] = "ready" THEN 0 ELSE I!Twins(a)
    <3>1. ~ unwritten /\ label'[e] = I!Written(e, posted, raised)
      BY <1>2, <2>1
    <3>2. live[e][a] <= IF label[e] = "ready" THEN 0 ELSE I!Twins(a)
      BY <2>1, <3>1 DEF IntakeInv, RowsLoseReady
    <3>3. CASE e \notin I!Rows
      <4>1. label'[e] = label[e]
        BY <3>1, <3>3 DEF I!Written
      <4>2. QED BY <1>6, <3>2, <3>3, <4>1
    <3>4. CASE e \in I!Rows
      <4>1. live[e][a] = 0
        BY <1>1, <1>5, <3>2, <3>4
      <4>2. live'[e][a] = I!Times(e, a, posted)
        BY <1>4, <1>5, <4>1
      <4>3. ASSUME label'[e] = "ready" PROVE I!Times(e, a, posted) = 0
        <5>1. \A p \in I!Posts : <<e, p>> \notin posted
          BY <3>1, <4>3 DEF I!Written
        <5>2. QED BY <1>4, <5>1
      <4>4. CASE label'[e] = "ready"
        BY <4>2, <4>3, <4>4
      <4>5. CASE label'[e] # "ready"
        BY <1>4, <4>2, <4>5
      <4>6. QED BY <4>4, <4>5
    <3>5. QED BY <3>3, <3>4
  <2>2. QED BY <2>1 DEF RowsLoseReady, I!IsCms, I!Twins
<1>12. SettledRowsAreOut'
  <2>1. ASSUME NEW e \in I!Entry, Settled(e)', I!IsCms(e), NEW a \in RunAccount PROVE live'[e][a] > 0
    <3>1. CASE Settled(e)
      <4>1. live[e][a] > 0
        BY <2>1, <3>1 DEF IntakeInv, SettledRowsAreOut
      <4>2. QED BY <1>4, <1>5, <4>1
    <3>2. CASE ~ Settled(e)
      <4>1. e \in consumed' /\ e \in heard.chosen /\ raised = {}
        BY <1>3, <1>8, <1>9, <2>1, <3>2
      <4>2. \A p \in I!Posts : <<e, p>> \in posted
        BY <2>1, <4>1 DEF I!Rows
      <4>3. I!Times(e, a, posted) > 0
        BY <1>4, <4>2
      <4>4. QED BY <1>4, <1>5, <4>3
    <3>3. QED BY <3>1, <3>2
  <2>2. QED BY <2>1 DEF SettledRowsAreOut, I!IsCms
<1>13. LoadedAreReady' /\ ChosenAreLoaded'
  BY DEF LoadedAreReady, ChosenAreLoaded
<1>14. I!RotationServesAll' /\ I!TraceIsComplete'
  BY DEF IntakeInv, I!RotationServesAll, I!TraceIsComplete
<1>15. QED BY <1>7, <1>10, <1>11, <1>12, <1>13, <1>14 DEF IntakeInv

LEMMA PublishRowsKeeps ==
  ASSUME I!IntakeAssumption, IntakeInv, I!PublishRows PROVE IntakeInv'
<1>1. /\ stage = "publishing" /\ ~ durable /\ stage' = "idle" /\ items' = <<>>
      /\ UNCHANGED <<clock, there, strategy, durable, loads, heard>>
  BY DEF I!PublishRows
<1>2. CASE I!RowsEnd(I!Rows \X I!Posts, {})
  BY <1>1, <1>2, RowsEndKeeps
<1>3. ASSUME NEW e \in I!Rows, NEW final \in I!Posts, NEW whole \in SUBSET (I!Rows \ {e}),
             I!RowsEnd((whole \X I!Posts) \cup ({e} \X {p \in I!Posts : I!Sooner(p, final)}), {e})
      PROVE  IntakeInv'
  <2>1. (whole \X I!Posts) \cup ({e} \X {p \in I!Posts : I!Sooner(p, final)}) \in SUBSET (I!Rows \X I!Posts)
    OBVIOUS
  <2>2. {e} \in SUBSET I!Rows /\ {e} # {}
    OBVIOUS
  <2>3. QED BY <1>1, <1>3, <2>1, <2>2, RowsEndKeeps
<1>4. QED BY <1>2, <1>3 DEF I!PublishRows

LEMMA PublishPostsKeeps ==
  ASSUME I!IntakeAssumption, IntakeInv, I!PublishPosts PROVE IntakeInv'
<1>1. /\ I!TypeOK /\ stage = "publishing" /\ (durable \/ I!Rows = {}) /\ stage' = "idle" /\ items' = <<>>
      /\ UNCHANGED <<clock, there, strategy, durable, loads, label, heard, unwritten>>
  BY DEF I!PublishPosts, IntakeInv
<1>2. \/ /\ live' = [e \in I!Entry |-> [a \in RunAccount |->
                        IF e \in heard.chosen THEN live[e][a] + 1 ELSE live[e][a]]]
         /\ consumed' = consumed
      \/ consumed' = consumed \ heard.chosen /\ live' = live
  BY DEF I!PublishPosts
<1>3. \A e \in I!Entry, a \in RunAccount : live[e][a] \in Nat
  BY <1>1 DEF I!TypeOK
<1>4. \A e \in I!Entry, a \in RunAccount :
         live'[e][a] = live[e][a]
            \/ (e \in heard.chosen /\ consumed' = consumed /\ live'[e][a] = live[e][a] + 1)
  BY <1>2
<1>5. I!TypeOK'
  <2>1. live' \in [I!Entry -> [RunAccount -> Nat]]
    <3>1. \A e \in I!Entry : [a \in RunAccount |-> IF e \in heard.chosen THEN live[e][a] + 1 ELSE live[e][a]]
                            \in [RunAccount -> Nat]
      BY <1>3
    <3>2. live \in [I!Entry -> [RunAccount -> Nat]]
      BY <1>1 DEF I!TypeOK
    <3>3. QED BY <1>2, <3>1, <3>2
  <2>2. consumed' \subseteq I!Entry
    BY <1>1, <1>2 DEF I!TypeOK
  <2>3. (I!Candidates \subseteq I!Entry)' /\ (items \in [I!Candidates -> I!Items])'
    BY <1>1, NothingLoaded DEF I!Candidates
  <2>4. QED BY <1>1, <2>1, <2>2, <2>3 DEF I!TypeOK
<1>6. \A e \in I!Entry : /\ Settled(e)' <=> e \in consumed'
                         /\ Settled(e) <=> e \in consumed /\ e \notin heard.chosen
  BY <1>1 DEF Settled
<1>7. ASSUME ~ durable, NEW e \in I!Entry, I!IsCms(e)
      PROVE  /\ \A a \in RunAccount : live'[e][a] = live[e][a]
             /\ Settled(e)' => Settled(e)
  <2>1. I!Rows = {} /\ e \notin heard.chosen
    BY <1>1, <1>7 DEF I!Rows
  <2>2. QED BY <1>2, <1>4, <1>6, <2>1
<1>8. ASSUME ~ durable, NEW e \in I!Entry, NEW a \in RunAccount, ~ I!IsCms(e)
      PROVE  live'[e][a] <= IF Settled(e)' THEN 1 ELSE 0
  <2>1. live[e][a] <= IF Settled(e) THEN 1 ELSE 0
    BY <1>8 DEF IntakeInv, ItemsAreOutOnce
  <2>2. e \in heard.chosen => e \in consumed
    BY <1>1, <1>8 DEF IntakeInv, ChosenAreLoaded
  <2>3. Settled(e) => Settled(e)'
    BY <1>2, <1>6
  <2>4. CASE live'[e][a] = live[e][a]
    BY <1>3, <2>1, <2>3, <2>4
  <2>5. CASE e \in heard.chosen /\ consumed' = consumed /\ live'[e][a] = live[e][a] + 1
    BY <1>3, <1>6, <2>1, <2>2, <2>5
  <2>6. QED BY <1>4, <2>4, <2>5
<1>9. ItemsAreOutOnce'
  BY <1>1, <1>8 DEF ItemsAreOutOnce, I!IsCms
<1>10. RowsLoseReady'
  BY <1>1, <1>7 DEF IntakeInv, RowsLoseReady, I!IsCms, I!Twins
<1>11. SettledRowsAreOut'
  BY <1>1, <1>7 DEF IntakeInv, SettledRowsAreOut, I!IsCms
<1>12. LoadedAreReady' /\ ChosenAreLoaded'
  BY <1>1 DEF LoadedAreReady, ChosenAreLoaded
<1>13. I!RotationServesAll' /\ I!TraceIsComplete'
  BY <1>1 DEF IntakeInv, I!RotationServesAll, I!TraceIsComplete
<1>14. QED BY <1>5, <1>9, <1>10, <1>11, <1>12, <1>13 DEF IntakeInv
-----------------------------------------------------------------------------
LEMMA IntakeStep ==
  ASSUME I!IntakeAssumption, IntakeInv, [I!Next]_(I!vars) PROVE IntakeInv'
<1>1. CASE UNCHANGED I!vars
  <2>1. UNCHANGED <<clock, there, strategy, durable, consumed, items, stage, loads, label, live, heard,
                    unwritten>>
    BY <1>1 DEF I!vars
  <2>2. I!TypeOK'
    BY <2>1, Zenon DEF IntakeInv, I!TypeOK, I!Candidates, I!Items
  <2>3. QED
    BY <2>1, <2>2 DEF IntakeInv, LoadedAreReady, ChosenAreLoaded, ItemsAreOutOnce, RowsLoseReady,
       SettledRowsAreOut, Settled, I!RotationServesAll, I!TraceIsComplete, I!Candidates, I!IsCms, I!Twins
<1>2. ASSUME NEW e \in I!Entry, I!Appear(e) PROVE IntakeInv'
  BY <1>2, AppearKeeps
<1>3. CASE I!Load
  BY <1>3, LoadKeeps
<1>4. CASE I!Select
  BY <1>4, SelectKeeps
<1>5. CASE I!SelectRaises
  BY <1>5, SelectRaisesKeeps
<1>6. CASE I!PublishRows
  BY <1>6, PublishRowsKeeps
<1>7. CASE I!PublishPosts
  BY <1>7, PublishPostsKeeps
<1>8. CASE I!Restart
  BY <1>8, RestartKeeps
<1>9. QED BY <1>1, <1>2, <1>3, <1>4, <1>5, <1>6, <1>7, <1>8 DEF I!Next

\* One selection a post of an item, and a row is out when no run has it.
LEMMA ItemsGoOutOnce ==
  ASSUME I!IntakeAssumption, IntakeInv PROVE I!NeverTwice /\ I!RowsAreOut
<1>1. I!TypeOK /\ \A e \in I!Entry, a \in RunAccount : live[e][a] \in Nat /\ I!Twins(a) \in Nat
  BY FewPosts DEF IntakeInv, I!TypeOK
<1>2. ASSUME ~ durable, ~ unwritten, NEW e \in I!Entry, NEW a \in RunAccount
      PROVE  live[e][a] <= IF I!IsCms(e) THEN I!Twins(a) ELSE 1
  <2>1. ~ I!IsCms(e) => live[e][a] <= IF Settled(e) THEN 1 ELSE 0
    BY <1>2 DEF IntakeInv, ItemsAreOutOnce
  <2>2. I!IsCms(e) => live[e][a] <= IF label[e] = "ready" THEN 0 ELSE I!Twins(a)
    BY <1>2 DEF IntakeInv, RowsLoseReady
  <2>3. QED BY <1>1, <2>1, <2>2
<1>3. ASSUME ~ durable, stage = "idle", NEW e \in consumed, I!IsCms(e), NEW a \in RunAccount
      PROVE  live[e][a] > 0
  <2>1. e \in I!Entry /\ Settled(e)
    BY <1>1, <1>3 DEF I!TypeOK, Settled
  <2>2. QED BY <1>3, <2>1 DEF IntakeInv, SettledRowsAreOut
<1>4. QED BY <1>2, <1>3 DEF I!NeverTwice, I!RowsAreOut

LEMMA IntakeInvariant ==
  ASSUME I!IntakeAssumption PROVE I!Spec => []IntakeInv
<1>1. I!Init => IntakeInv BY IntakeInit
<1>2. IntakeInv /\ [I!Next]_(I!vars) => IntakeInv' BY IntakeStep
<1>3. QED BY <1>1, <1>2, PTL DEF I!Spec

\* Candidates, claims, rows and the last selection keep their types.
THEOREM IntakeTypes ==
  ASSUME I!IntakeAssumption PROVE I!Spec => []I!TypeOK
<1>1. IntakeInv => I!TypeOK BY DEF IntakeInv
<1>2. QED BY <1>1, IntakeInvariant, PTL

\* consumed_keys and the Status of rows: no entry has posts of two runs on an account, unless a
\* write of its Status failed.
THEOREM ItemsAreNeverTwice ==
  ASSUME I!IntakeAssumption PROVE I!Spec => []I!NeverTwice
<1>1. IntakeInv => I!NeverTwice BY ItemsGoOutOnce
<1>2. QED BY <1>1, IntakeInvariant, PTL

\* release_unclaimed_for_run: between runs a row that stays consumed is out on every account.
THEOREM ClaimedRowsAreOut ==
  ASSUME I!IntakeAssumption PROVE I!Spec => []I!RowsAreOut
<1>1. IntakeInv => I!RowsAreOut BY ItemsGoOutOnce
<1>2. QED BY <1>1, IntakeInvariant, PTL

\* RoundRobinStrategy: a rotation that takes anything takes something of every source with
\* an unseen item, unless its dates do not compare.
THEOREM RotationIsFair ==
  ASSUME I!IntakeAssumption PROVE I!Spec => []I!RotationServesAll
<1>1. IntakeInv => I!RotationServesAll BY DEF IntakeInv
<1>2. QED BY <1>1, IntakeInvariant, PTL

\* _run_selection: the trace of a strategy that looks at all items names every unseen one, as
\* chosen or as skipped.
THEOREM TracesTellAll ==
  ASSUME I!IntakeAssumption PROVE I!Spec => []I!TraceIsComplete
<1>1. IntakeInv => I!TraceIsComplete BY DEF IntakeInv
<1>2. QED BY <1>1, IntakeInvariant, PTL

-----------------------------------------------------------------------------
(* Drafting: plans, attempts, and what of them goes out.                       *)

\* Blueprints and drafts have numbers, of which one is the greatest.
Numbered(f) == \E b \in Nat : \A k \in DOMAIN f : k <= b
Numberings == Numbered(plan) /\ Numbered(written)

\* What is attached is of a kind the platform takes.
Fits(p, media) == media \in Media => KindOf[media] \in G!Range(Prefers[p])
PlanFits == \A k \in DOMAIN plan : Fits(plan[k].plugin, plan[k].media)
FaultsAreKnown == \A k \in DOMAIN written : written[k].fault \in G!Faults

\* A durable run plans and drafts nothing its profile denies, once it is tailored.
NothingDenied ==
    path = "durable" =>
       /\ revises = 0
       /\ phase \in {"execute", "critique"} => \A k \in DOMAIN plan : plan[k].plugin \notin Denied[profile]
       /\ \A k \in DOMAIN written : written[k].plugin \notin Denied[profile]

\* The posts of a round are there when it has been judged, one for each account of
\* its draft's platform; a durable run finds another account when that one is gone.
IsJudged == phase \notin {"plan", "tailor", "execute", "critique"}
PostsOfRounds == \A p \in queued : p.round <= revises /\ (p.round = revises => IsJudged)
PostsOfDrafts ==
    \A p \in queued : p.round = revises =>
       /\ p.draft \in DOMAIN written
       /\ path = "inline" \/ gone = {} => DraftPlugin[p.account] = written[p.draft].plugin

\* What is live was a post, with its own text or the last one for its platform.
LiveIsOver ==
    outbox # {} => phase \in {"succeeded", "waiting"} \/ (phase = "review" /\ path = "durable")
LiveIsPosted == \A p \in outbox : p.post \in queued
LiveTexts ==
    \A p \in outbox : p.post.round = revises =>
       p.text = p.post.draft \/ p.text = G!LastOf(DraftPlugin[p.post.account])
Unflagged ==
    ~ human /\ outbox # {} =>
       phase = "succeeded" /\ ~ G!Flagged /\ \A p \in outbox : p.text \in DOMAIN written

\* Each attempt on a plan but its first was one of the revisions.
Attempts ==
    /\ phase \in {"plan", "tailor"} => drafted = 0
    /\ phase = "execute" => drafted <= revision /\ drafted <= MaxRevisions
    /\ phase = "critique" => drafted <= revision + 1

AccountsStay == \E i \in DOMAIN DraftAccount : DraftAccount[i] \notin gone

DraftingInv ==
    /\ G!TypeOK /\ AccountsStay /\ Numberings /\ PlanFits /\ G!LinksKept /\ G!MediaFits /\ FaultsAreKnown
    /\ NothingDenied /\ PostsOfRounds /\ PostsOfDrafts
    /\ LiveIsOver /\ LiveIsPosted /\ LiveTexts /\ Unflagged
    /\ Attempts /\ G!RevisionsEnd
-----------------------------------------------------------------------------
LEMMA LeastIs ==
  ASSUME NEW U \in SUBSET Nat, U # {}
  PROVE  G!Least(U) \in U /\ \A n \in U : G!Least(U) <= n
<1>1. \E x \in U : \A y \in U : x <= y
  BY LeastNumber
<1>2. QED BY <1>1 DEF G!Least

\* A CHOOSE of the greatest of the drafts of a platform finds one.
LEMMA LastIs ==
  ASSUME DOMAIN written \subseteq Nat, Numbered(written), NEW p,
         NEW d \in DOMAIN written, written[d].plugin = p
  PROVE  G!LastOf(p) \in DOMAIN written /\ written[G!LastOf(p)].plugin = p
<1> DEFINE same == {k \in DOMAIN written : written[k].plugin = p}
<1>1. PICK b \in Nat : \A k \in DOMAIN written : k <= b
  BY DEF Numbered
<1>2. same \in SUBSET Nat /\ same # {} /\ \A x \in same : x <= b
  BY <1>1
<1>3. \E x \in same : \A y \in same : y <= x
  <2> HIDE DEF same
  <2>1. QED BY <1>1, <1>2, GreatestNumber
<1>4. G!LastOf(p) = CHOOSE k \in same : \A j \in same : j <= k
  BY DEF G!LastOf
<1>5. G!LastOf(p) \in same
  <2> HIDE DEF same
  <2>1. QED BY <1>3, <1>4
<1>6. QED BY <1>5

\* _select_media_for_platform returns an asset of a preferred kind, or none.
LEMMA FirstIs ==
  ASSUME G!DraftingAssumption, NEW kinds, G!ItemsWith(kinds) # {}
  PROVE  G!FirstOf(kinds) \in Media /\ KindOf[G!FirstOf(kinds)] \in kinds
<1>1. ItemMedia \in Seq(Seq(Media))
  BY DEF G!DraftingAssumption
<1>2. PICK i : i = G!Least(G!ItemsWith(kinds))
  OBVIOUS
<1>3. i \in DOMAIN ItemMedia /\ G!AssetsOf(i, kinds) # {}
  <2>1. G!ItemsWith(kinds) \in SUBSET Nat
    BY <1>1 DEF G!ItemsWith
  <2>2. i \in G!ItemsWith(kinds)
    BY <1>2, <2>1, LeastIs
  <2>3. QED BY <2>2 DEF G!ItemsWith
<1>4. ItemMedia[i] \in Seq(Media)
  BY <1>1, <1>3
<1>5. PICK j : j = G!Least(G!AssetsOf(i, kinds))
  OBVIOUS
<1>6. j \in DOMAIN ItemMedia[i] /\ KindOf[ItemMedia[i][j]] \in kinds
  <2>1. G!AssetsOf(i, kinds) \in SUBSET Nat
    BY <1>4 DEF G!AssetsOf
  <2>2. j \in G!AssetsOf(i, kinds)
    BY <1>3, <1>5, <2>1, LeastIs
  <2>3. QED BY <2>2 DEF G!AssetsOf
<1>7. G!FirstOf(kinds) = ItemMedia[i][j]
  BY <1>2, <1>5 DEF G!FirstOf
<1>8. QED BY <1>4, <1>6, <1>7

LEMMA AttachedFits ==
  ASSUME G!DraftingAssumption, NEW p \in G!Plugin
  PROVE  G!Attached(p) \in Media \cup {G!NoMedia} /\ Fits(p, G!Attached(p))
<1>1. Prefers[p] \in Seq({"image", "video"})
  BY DEF G!DraftingAssumption
<1> DEFINE kinds == {k \in DOMAIN Prefers[p] : G!ItemsWith({Prefers[p][k]}) # {}}
<1>2. CASE kinds = {}
  <2>1. G!Attached(p) = G!NoMedia /\ G!NoMedia \notin Media
    BY <1>2 DEF G!Attached, G!DraftingAssumption
  <2>2. QED BY <2>1 DEF Fits
<1>3. CASE kinds # {}
  <2>1. kinds \in SUBSET Nat
    BY <1>1
  <2>2. PICK k : k = G!Least(kinds)
    OBVIOUS
  <2>3. k \in kinds
    <3> HIDE DEF kinds
    <3>1. QED BY <1>3, <2>1, <2>2, LeastIs
  <2>4. G!Attached(p) = G!FirstOf({Prefers[p][k]})
    BY <1>3, <2>2 DEF G!Attached
  <2>5. G!Attached(p) \in Media /\ KindOf[G!Attached(p)] \in {Prefers[p][k]}
    BY <2>3, <2>4, FirstIs
  <2>6. Prefers[p][k] \in G!Range(Prefers[p])
    BY <2>3 DEF G!Range
  <2>7. QED BY <2>5, <2>6 DEF Fits
<1>4. QED BY <1>2, <1>3

LEMMA DraftingInit ==
  ASSUME G!DraftingAssumption, G!Init
  PROVE  DraftingInv
<1>1. /\ path \in {"inline", "durable"} /\ profile \in Profile
      /\ accounts = DOMAIN DraftAccount /\ gone = {} /\ phase = "plan" /\ plan = <<>>
      /\ written = <<>> /\ revision = 0 /\ drafted = 0 /\ revises = 0 /\ picture = FALSE
      /\ queued = {} /\ outbox = {} /\ human = FALSE
  BY DEF G!Init
<1>2. MaxRevises \in Nat /\ MaxRevisions \in Nat
  BY DEF G!DraftingAssumption
<1>3. DOMAIN plan = {} /\ DOMAIN written = {}
  BY <1>1
<1>4. plan \in [DOMAIN plan -> G!Blueprint] /\ written \in [DOMAIN written -> G!Draft]
  BY <1>1
<1>5. G!TypeOK
  <2>1. DOMAIN plan \subseteq Nat /\ DOMAIN written \subseteq Nat
    BY <1>3
  <2>2. /\ accounts \subseteq DOMAIN DraftAccount /\ gone \subseteq G!Range(DraftAccount)
        /\ queued \subseteq G!Post /\ outbox \subseteq [post : G!Post, text : Nat]
    BY <1>1
  <2>3. revises \in 0 .. MaxRevises /\ revision \in Nat /\ drafted \in Nat
    BY <1>1, <1>2
  <2>4. QED BY <1>1, <1>4, <2>1, <2>2, <2>3, Zenon DEF G!TypeOK
<1>6. Numberings
  BY <1>3 DEF Numberings, Numbered
<1>7. PlanFits /\ G!LinksKept /\ G!MediaFits /\ FaultsAreKnown /\ NothingDenied
  BY <1>1, <1>3 DEF PlanFits, G!LinksKept, G!MediaFits, FaultsAreKnown, NothingDenied
<1>8. /\ PostsOfRounds /\ PostsOfDrafts /\ LiveIsOver /\ LiveIsPosted /\ LiveTexts
      /\ Unflagged
  BY <1>1 DEF PostsOfRounds, PostsOfDrafts, LiveIsOver, LiveIsPosted, LiveTexts, Unflagged
<1>9. Attempts /\ G!RevisionsEnd
  BY <1>1, <1>2 DEF Attempts, G!RevisionsEnd
<1>10. AccountsStay
  <2>1. DOMAIN DraftAccount # {}
    <3>1. Len(DraftAccount) \in Nat /\ Len(DraftAccount) # 0 /\ DOMAIN DraftAccount = 1 .. Len(DraftAccount)
      BY EmptySeq DEF G!DraftingAssumption
    <3>2. QED BY <3>1
  <2>2. QED BY <1>1, <2>1 DEF AccountsStay
<1>11. QED BY <1>5, <1>6, <1>7, <1>8, <1>9, <1>10 DEF DraftingInv

\* Steps that leave the plan and the drafts alone, and the accounts they were made of.
LEMMA DisconnectKeeps ==
  ASSUME G!DraftingAssumption, DraftingInv, NEW a \in G!Range(DraftAccount), G!Disconnect(a)
  PROVE  DraftingInv'
<1>1. /\ gone' = gone \cup {a}
      /\ UNCHANGED <<path, profile, accounts, phase, plan, written, revision, drafted, revises,
                     picture, queued, outbox, human>>
  BY DEF G!Disconnect, G!config
<1>2. G!TypeOK'
  BY <1>1 DEF DraftingInv, G!TypeOK
<1>3. Numberings' /\ PlanFits' /\ G!LinksKept' /\ G!MediaFits' /\ FaultsAreKnown'
  BY <1>1 DEF DraftingInv, Numberings, Numbered, PlanFits, G!LinksKept, G!MediaFits,
              FaultsAreKnown, G!Faults
<1>4. NothingDenied' /\ PostsOfRounds'
  BY <1>1 DEF DraftingInv, NothingDenied, PostsOfRounds, IsJudged
<1>5. gone' # {}
  BY <1>1
<1>6. PostsOfDrafts'
  BY <1>1, <1>5 DEF DraftingInv, PostsOfDrafts
<1>7. LiveIsOver' /\ LiveIsPosted' /\ LiveTexts'
  BY <1>1 DEF DraftingInv, LiveIsOver, LiveIsPosted, LiveTexts, G!LastOf
<1>8. Unflagged'
  BY <1>1 DEF DraftingInv, Unflagged, G!Flagged, G!Scanned
<1>9. Attempts' /\ G!RevisionsEnd'
  BY <1>1 DEF DraftingInv, Attempts, G!RevisionsEnd
<1>10. AccountsStay'
  <2>1. gone \subseteq G!Range(DraftAccount) /\ G!Range(DraftAccount) # gone'
    BY <1>1 DEF DraftingInv, G!TypeOK, G!Disconnect
  <2>2. QED BY <1>1, <2>1 DEF AccountsStay, G!Range
<1>11. QED BY <1>2, <1>3, <1>4, <1>6, <1>7, <1>8, <1>9, <1>10 DEF DraftingInv

LEMMA PlanKeeps ==
  ASSUME G!DraftingAssumption, DraftingInv, G!Plan
  PROVE  DraftingInv'
<1>1. /\ phase = "plan"
      /\ UNCHANGED <<path, profile, accounts, gone, written, revision, drafted, revises,
                     picture, queued, outbox, human>>
  BY DEF G!Plan, G!config
<1>2. PICK answer \in G!Answers :
         plan' = [k \in DOMAIN answer |-> [plugin |-> answer[k], media |-> G!Attached(answer[k])]]
  BY DEF G!Plan
<1>3. /\ phase' \in {"tailor", "execute"}
      /\ phase' = "execute" /\ path = "durable" => profile = "none"
  BY DEF G!Plan
<1>4. G!Targets \subseteq DOMAIN DraftAccount
  BY DEF G!Targets, G!Accounts, G!Present, DraftingInv, G!TypeOK
<1>5. \A i \in G!Targets : G!PluginAt(i) \in G!Plugin
  BY <1>4 DEF G!PluginAt, G!Plugin, G!Range
<1>6. \E b \in Nat : DOMAIN DraftAccount = 1 .. b
  BY DEF G!DraftingAssumption
<1>7. /\ DOMAIN answer \subseteq Nat /\ \A k \in DOMAIN answer : answer[k] \in G!Plugin
      /\ \E b \in Nat : \A k \in DOMAIN answer : k <= b
  <2>1. CASE answer = [i \in G!Targets |-> G!PluginAt(i)]
    BY <1>4, <1>5, <1>6, <2>1
  <2>2. ASSUME NEW n \in 1 .. MaxBlueprints, answer \in [1 .. n -> {G!PluginAt(i) : i \in G!Targets}]
        PROVE  /\ DOMAIN answer = 1 .. n /\ n \in Nat
               /\ \A k \in DOMAIN answer : answer[k] \in G!Plugin
    BY <1>5, <2>2 DEF G!DraftingAssumption
  <2>3. CASE \E n \in 1 .. MaxBlueprints : answer \in [1 .. n -> {G!PluginAt(i) : i \in G!Targets}]
    <3>1. PICK n \in 1 .. MaxBlueprints : answer \in [1 .. n -> {G!PluginAt(i) : i \in G!Targets}]
      BY <2>3
    <3>2. DOMAIN answer = 1 .. n /\ n \in Nat /\ \A k \in DOMAIN answer : answer[k] \in G!Plugin
      BY <2>2, <3>1
    <3>3. QED BY <3>2
  <2>4. answer \in UNION {[1 .. n -> {G!PluginAt(i) : i \in G!Targets}] : n \in 1 .. MaxBlueprints}
        \/ answer = [i \in G!Targets |-> G!PluginAt(i)]
    BY DEF G!Answers
  <2>5. QED BY <2>1, <2>3, <2>4
<1>8. /\ DOMAIN plan' = DOMAIN answer
      /\ \A k \in DOMAIN plan' : /\ plan'[k].plugin = answer[k]
                                 /\ plan'[k].media = G!Attached(answer[k])
                                 /\ plan'[k] = [plugin |-> answer[k], media |-> G!Attached(answer[k])]
  BY <1>2
<1>9. \A k \in DOMAIN plan' : /\ plan'[k] \in G!Blueprint
                              /\ Fits(plan'[k].plugin, plan'[k].media)
  <2>1. ASSUME NEW k \in DOMAIN plan'
        PROVE  plan'[k] \in G!Blueprint /\ Fits(plan'[k].plugin, plan'[k].media)
    <3>1. answer[k] \in G!Plugin
      BY <1>7, <1>8
    <3>2. G!Attached(answer[k]) \in Media \cup {G!NoMedia} /\ Fits(answer[k], G!Attached(answer[k]))
      BY <3>1, AttachedFits
    <3>3. QED BY <1>8, <3>1, <3>2 DEF G!Blueprint
  <2>2. QED BY <2>1
<1>10. plan' \in [DOMAIN plan' -> G!Blueprint]
  BY <1>2, <1>8, <1>9
<1>11. G!TypeOK'
  <2>1. G!TypeOK
    BY DEF DraftingInv
  <2>2. DOMAIN plan' \subseteq Nat
    BY <1>7, <1>8
  <2>3. phase' \in {"plan", "tailor", "execute", "critique", "review", "waiting", "exhausted",
                   "succeeded"}
    BY <1>3
  <2>4. QED BY <1>1, <1>10, <2>1, <2>2, <2>3, Zenon DEF G!TypeOK
<1>12. Numberings' /\ PlanFits'
  BY <1>1, <1>7, <1>8, <1>9 DEF DraftingInv, Numberings, Numbered, PlanFits
<1>13. G!LinksKept' /\ G!MediaFits' /\ FaultsAreKnown'
  BY <1>1 DEF DraftingInv, G!LinksKept, G!MediaFits, FaultsAreKnown, G!Faults
<1>14. NothingDenied'
  BY <1>1, <1>3 DEF DraftingInv, NothingDenied, G!DraftingAssumption, G!TypeOK
<1>15. PostsOfRounds' /\ PostsOfDrafts'
  BY <1>1 DEF DraftingInv, PostsOfRounds, PostsOfDrafts, IsJudged
<1>16. outbox = {}
  BY <1>1 DEF DraftingInv, LiveIsOver
<1>17. LiveIsOver' /\ LiveIsPosted' /\ LiveTexts' /\ Unflagged'
  BY <1>1, <1>16 DEF LiveIsOver, LiveIsPosted, LiveTexts, Unflagged
<1>18. Attempts' /\ G!RevisionsEnd'
  BY <1>1, <1>3 DEF DraftingInv, Attempts, G!RevisionsEnd, G!TypeOK, G!DraftingAssumption
<1>19. AccountsStay'
  BY <1>1 DEF DraftingInv, AccountsStay
<1>20. QED BY <1>11, <1>12, <1>13, <1>14, <1>15, <1>17, <1>18, <1>19 DEF DraftingInv

LEMMA TailorKeeps ==
  ASSUME G!DraftingAssumption, DraftingInv, G!Tailor
  PROVE  DraftingInv'
<1>1. /\ phase = "tailor" /\ phase' \in {"succeeded", "execute"}
      /\ UNCHANGED <<path, profile, accounts, gone, written, revision, drafted, revises,
                     picture, queued, outbox, human>>
  BY DEF G!Tailor, G!config
<1>2. \/ phase' = "succeeded" /\ plan' = plan
      \/ phase' = "execute" /\ plan' = G!Tailored
  BY DEF G!Tailor
<1>3. /\ DOMAIN G!Tailored \subseteq DOMAIN plan
      /\ \A k \in DOMAIN G!Tailored : /\ G!Tailored[k] = plan[k]
                                      /\ plan[k].plugin \notin Denied[profile]
      /\ G!Tailored = [k \in DOMAIN G!Tailored |-> G!Tailored[k]]
  BY DEF G!Tailored
<1>4. /\ DOMAIN plan' \subseteq DOMAIN plan /\ \A k \in DOMAIN plan' : plan'[k] = plan[k]
      /\ plan' = [k \in DOMAIN plan' |-> plan'[k]]
  <2>1. plan = [k \in DOMAIN plan |-> plan[k]]
    BY DEF DraftingInv, G!TypeOK
  <2>2. QED BY <1>2, <1>3, <2>1
<1>5. G!TypeOK'
  <2>1. G!TypeOK
    BY DEF DraftingInv
  <2>2. DOMAIN plan' \subseteq Nat /\ \A k \in DOMAIN plan' : plan'[k] \in G!Blueprint
    BY <1>4, <2>1 DEF G!TypeOK
  <2>3. plan' \in [DOMAIN plan' -> G!Blueprint]
    BY <1>4, <2>2
  <2>4. phase' \in {"plan", "tailor", "execute", "critique", "review", "waiting", "exhausted",
                   "succeeded"}
    BY <1>1
  <2>5. QED BY <1>1, <2>1, <2>2, <2>3, <2>4, Zenon DEF G!TypeOK
<1>6. Numberings' /\ PlanFits'
  BY <1>1, <1>4 DEF DraftingInv, Numberings, Numbered, PlanFits
<1>7. G!LinksKept' /\ G!MediaFits' /\ FaultsAreKnown'
  BY <1>1 DEF DraftingInv, G!LinksKept, G!MediaFits, FaultsAreKnown, G!Faults
<1>8. NothingDenied'
  BY <1>1, <1>2, <1>3 DEF DraftingInv, NothingDenied
<1>9. PostsOfRounds' /\ PostsOfDrafts'
  BY <1>1 DEF DraftingInv, PostsOfRounds, PostsOfDrafts, IsJudged
<1>10. outbox = {}
  BY <1>1 DEF DraftingInv, LiveIsOver
<1>11. LiveIsOver' /\ LiveIsPosted' /\ LiveTexts' /\ Unflagged'
  BY <1>1, <1>10 DEF LiveIsOver, LiveIsPosted, LiveTexts, Unflagged
<1>12. Attempts' /\ G!RevisionsEnd'
  BY <1>1 DEF DraftingInv, Attempts, G!RevisionsEnd, G!TypeOK, G!DraftingAssumption
<1>13. AccountsStay'
  BY <1>1 DEF DraftingInv, AccountsStay
<1>14. QED BY <1>5, <1>6, <1>7, <1>8, <1>9, <1>11, <1>12, <1>13 DEF DraftingInv

LEMMA ExecutingKeeps ==
  ASSUME G!DraftingAssumption, DraftingInv, G!Execute
  PROVE  DraftingInv'
<1>1. /\ phase = "execute" /\ phase' = "critique" /\ drafted' = drafted + 1
      /\ UNCHANGED <<path, profile, accounts, gone, plan, revision, revises,
                     picture, queued, outbox, human>>
  BY DEF G!Execute, G!config
<1>2. PICK links \in [DOMAIN plan -> {G!Ensured(kept) : kept \in SUBSET G!Link}] :
        \E fault \in [DOMAIN plan -> G!Faults] :
           written' = [k \in DOMAIN plan |->
              [plugin |-> plan[k].plugin, links |-> links[k], fault |-> fault[k],
               media |-> IF picture THEN G!Picture ELSE G!MediaFor(plan[k])]]
  BY DEF G!Execute
<1>3. PICK fault \in [DOMAIN plan -> G!Faults] :
           written' = [k \in DOMAIN plan |->
              [plugin |-> plan[k].plugin, links |-> links[k], fault |-> fault[k],
               media |-> IF picture THEN G!Picture ELSE G!MediaFor(plan[k])]]
  BY <1>2
<1>4. /\ DOMAIN written' = DOMAIN plan
      /\ \A k \in DOMAIN plan :
            /\ written'[k] = [plugin |-> plan[k].plugin, links |-> links[k], fault |-> fault[k],
                             media |-> IF picture THEN G!Picture ELSE G!MediaFor(plan[k])]
            /\ written'[k].plugin = plan[k].plugin /\ written'[k].links = links[k]
            /\ written'[k].fault = fault[k]
            /\ written'[k].media = IF picture THEN G!Picture ELSE G!MediaFor(plan[k])
  BY <1>3
<1>5. ASSUME NEW k \in DOMAIN plan
      PROVE  /\ written'[k] \in G!Draft
             /\ \A u \in G!Link : u \in written'[k].links \/ \E v \in written'[k].links : u \in Within[v]
             /\ written'[k].media \in Media => KindOf[written'[k].media] \in G!Range(Prefers[written'[k].plugin])
             /\ written'[k].plugin \in Requires => written'[k].media # G!NoMedia
             /\ written'[k].fault \in G!Faults
  <2>1. plan[k] \in G!Blueprint /\ Fits(plan[k].plugin, plan[k].media)
    BY DEF DraftingInv, G!TypeOK, PlanFits
  <2>2. PICK kept \in SUBSET G!Link : links[k] = G!Ensured(kept)
    BY <1>2
  <2>3. links[k] \in SUBSET G!Link
    BY <2>2 DEF G!Ensured, G!Wanted
  <2>4. \A u \in G!Link : u \in links[k] \/ \E v \in links[k] : u \in Within[v]
    BY <2>2 DEF G!Ensured, G!Wanted
  <2>5. fault[k] \in G!Faults /\ fault[k] \in {"none", "banned", "rule"}
    BY <1>3 DEF G!Faults
  <2>6. /\ plan[k].media \in Media \cup {G!NoMedia} /\ plan[k].plugin \in G!Plugin
        /\ Media \cap {G!NoMedia, G!Generated, G!Picture} = {}
    BY <2>1 DEF G!Blueprint, G!DraftingAssumption
  <2>7. PICK media : media = IF picture THEN G!Picture ELSE G!MediaFor(plan[k])
    OBVIOUS
  <2>8. /\ media \in Media \cup {G!NoMedia, G!Generated, G!Picture}
        /\ media \in Media => media = plan[k].media
        /\ plan[k].plugin \in Requires => media # G!NoMedia
    BY <2>6, <2>7 DEF G!MediaFor, G!NoMedia, G!Generated, G!Picture
  <2>9. written'[k] \in G!Draft
    BY <1>4, <2>3, <2>5, <2>6, <2>7, <2>8 DEF G!Draft
  <2>10. written'[k].media = media /\ written'[k].plugin = plan[k].plugin
         /\ written'[k].links = links[k] /\ written'[k].fault = fault[k]
    BY <1>4, <2>7
  <2>11. media \in Media => KindOf[media] \in G!Range(Prefers[plan[k].plugin])
    BY <2>1, <2>8 DEF Fits
  <2>12. QED BY <2>4, <2>5, <2>8, <2>9, <2>10, <2>11
<1>6. G!TypeOK'
  <2>1. G!TypeOK
    BY DEF DraftingInv
  <2>2. DOMAIN written' \subseteq Nat /\ drafted' \in Nat
    BY <1>1, <1>4, <2>1 DEF G!TypeOK
  <2>3. written' \in [DOMAIN written' -> G!Draft]
    BY <1>3, <1>4, <1>5
  <2>4. phase' \in {"plan", "tailor", "execute", "critique", "review", "waiting", "exhausted",
                   "succeeded"}
    BY <1>1
  <2>5. QED BY <1>1, <2>1, <2>2, <2>3, <2>4, Zenon DEF G!TypeOK
<1>7. Numberings' /\ PlanFits'
  BY <1>1, <1>4 DEF DraftingInv, Numberings, Numbered, PlanFits
<1>8. G!LinksKept' /\ G!MediaFits' /\ FaultsAreKnown'
  <2>1. UNCHANGED G!Faults
    BY <1>1 DEF G!Faults
  <2>2. G!LinksKept'
    BY <1>4, <1>5 DEF G!LinksKept
  <2>3. G!MediaFits'
    BY <1>4, <1>5 DEF G!MediaFits
  <2>4. FaultsAreKnown'
    BY <1>4, <1>5, <2>1 DEF FaultsAreKnown
  <2>5. QED BY <2>2, <2>3, <2>4
<1>9. NothingDenied'
  BY <1>1, <1>4 DEF DraftingInv, NothingDenied
<1>10. \A p \in queued : p.round # revises
  BY <1>1 DEF DraftingInv, PostsOfRounds, IsJudged
<1>11. PostsOfRounds' /\ PostsOfDrafts'
  BY <1>1, <1>10 DEF DraftingInv, PostsOfRounds, PostsOfDrafts, IsJudged
<1>12. outbox = {}
  BY <1>1 DEF DraftingInv, LiveIsOver
<1>13. LiveIsOver' /\ LiveIsPosted' /\ LiveTexts' /\ Unflagged'
  BY <1>1, <1>12 DEF LiveIsOver, LiveIsPosted, LiveTexts, Unflagged
<1>14. Attempts' /\ G!RevisionsEnd'
  BY <1>1 DEF DraftingInv, Attempts, G!RevisionsEnd, G!TypeOK, G!DraftingAssumption
<1>15. AccountsStay'
  BY <1>1 DEF DraftingInv, AccountsStay
<1>16. QED BY <1>6, <1>7, <1>8, <1>9, <1>11, <1>13, <1>14, <1>15 DEF DraftingInv

\* What judging makes of the drafts: posts of this round, of the platform of their
\* draft, in a durable run as long as every account is there.
LEMMA PersistedIs ==
  ASSUME G!DraftingAssumption, DraftingInv, NEW p \in G!Persisted
  PROVE  /\ p \in G!Post /\ p.round = revises /\ p.draft \in DOMAIN written
         /\ path = "inline" \/ gone = {} => DraftPlugin[p.account] = written[p.draft].plugin
<1>1. G!TypeOK /\ (path = "durable" => revises = 0)
  BY DEF DraftingInv, NothingDenied
<1>2. DOMAIN written \subseteq Nat /\ accounts \subseteq DOMAIN DraftAccount /\ revises \in 0 .. MaxRevises
      /\ path \in {"inline", "durable"} /\ DOMAIN DraftAccount \subseteq Nat
  BY <1>1 DEF G!TypeOK, G!DraftingAssumption
<1>3. CASE path = "inline"
  <2>1. /\ p \in [round : {revises}, draft : DOMAIN written, account : {DraftAccount[i] : i \in accounts}]
        /\ DraftPlugin[p.account] = written[p.draft].plugin
    BY <1>3 DEF G!Persisted
  <2>2. {DraftAccount[i] : i \in accounts} \subseteq G!Range(DraftAccount)
    BY <1>2 DEF G!Range
  <2>3. p \in G!Post
    BY <1>2, <2>1, <2>2 DEF G!Post
  <2>4. QED BY <2>1, <2>3
<1>4. CASE path = "durable"
  <2>1. PICK k \in DOMAIN written : p = [round |-> 0, draft |-> k, account |-> G!MatchOf(written[k].plugin)]
    BY <1>4 DEF G!Persisted
  <2>2. written[k].plugin \in G!Plugin
    BY <1>1 DEF G!TypeOK, G!Draft
  <2> DEFINE same == {i \in G!Present : G!PluginAt(i) = written[k].plugin}
  <2>3. PICK S : S = IF same = {} THEN G!Present ELSE same
    OBVIOUS
  <2>4. S \in SUBSET Nat /\ S # {} /\ S \subseteq G!Present
    BY <1>2, <2>3 DEF DraftingInv, AccountsStay, G!Present
  <2>5. PICK i : i = G!Least(S)
    OBVIOUS
  <2>6. i \in S
    BY <2>4, <2>5, LeastIs
  <2>7. G!MatchOf(written[k].plugin) = DraftAccount[i]
    BY <2>3, <2>5 DEF G!MatchOf
  <2>8. gone = {} => same # {}
    BY <2>2 DEF G!Plugin, G!Range, G!PluginAt, G!Present
  <2>9. gone = {} => DraftPlugin[DraftAccount[i]] = written[k].plugin
    BY <2>3, <2>6, <2>8 DEF G!PluginAt
  <2>10. DraftAccount[i] \in G!Range(DraftAccount)
    BY <2>4, <2>6 DEF G!Present, G!Range
  <2>11. p.round = 0 /\ p.draft = k /\ p.account = DraftAccount[i]
    BY <2>1, <2>7
  <2>12. p \in G!Post
    BY <1>1, <1>2, <1>4, <2>1, <2>7, <2>10 DEF G!Post
  <2>13. QED BY <1>1, <1>4, <2>9, <2>11, <2>12
<1>5. QED BY <1>2, <1>3, <1>4

\* What an unattended run sends: its own posts, with a text there is.
LEMMA SentIs ==
  ASSUME G!DraftingAssumption, DraftingInv, NEW p \in G!Sent(G!Persisted)
  PROVE  /\ p \in [post : G!Post, text : Nat] /\ p.post \in G!Persisted
         /\ p.text \in DOMAIN written
         /\ p.text = p.post.draft \/ p.text = G!LastOf(DraftPlugin[p.post.account])
<1>1. DOMAIN written \subseteq Nat /\ Numbered(written)
  BY DEF DraftingInv, G!TypeOK, Numberings
<1>2. CASE path = "inline"
  <2>1. PICK q \in G!Reachable(G!Persisted) : p = [post |-> q, text |-> G!LastOf(DraftPlugin[q.account])]
    BY <1>2 DEF G!Sent
  <2>2. q \in G!Persisted
    BY <2>1 DEF G!Reachable
  <2>3. q \in G!Post /\ q.draft \in DOMAIN written /\ DraftPlugin[q.account] = written[q.draft].plugin
    BY <1>2, <2>2, PersistedIs
  <2>4. G!LastOf(DraftPlugin[q.account]) \in DOMAIN written
    BY <1>1, <2>3, LastIs
  <2>5. p.post = q /\ p.text = G!LastOf(DraftPlugin[q.account])
    BY <2>1
  <2>6. PICK n \in Nat : n = G!LastOf(DraftPlugin[q.account])
    BY <1>1, <2>4
  <2>7. p = [post |-> q, text |-> n]
    BY <2>1, <2>6
  <2>8. QED BY <2>2, <2>3, <2>4, <2>5, <2>7
<1>3. CASE path = "durable"
  <2>1. PICK q \in G!Persisted : p = [post |-> q, text |-> q.draft]
    BY <1>3 DEF G!Sent
  <2>2. q \in G!Post /\ q.draft \in DOMAIN written
    BY <2>1, PersistedIs
  <2>3. QED BY <1>1, <2>1, <2>2
<1>4. QED BY <1>2, <1>3 DEF DraftingInv, G!TypeOK

\* The critique leaves the drafts as they are.
LEMMA CritiqueKeepsDrafts ==
  ASSUME DraftingInv, phase = "critique",
         UNCHANGED <<path, profile, accounts, gone, plan, written, drafted, revises, picture, human>>
  PROVE  /\ AccountsStay' /\ Numberings' /\ PlanFits' /\ G!LinksKept' /\ G!MediaFits'
         /\ FaultsAreKnown' /\ NothingDenied'
<1>1. AccountsStay' /\ Numberings' /\ PlanFits' /\ G!LinksKept'
  BY DEF DraftingInv, AccountsStay, Numberings, Numbered, PlanFits, G!LinksKept
<1>2. G!MediaFits' /\ FaultsAreKnown'
  BY DEF DraftingInv, G!MediaFits, FaultsAreKnown, G!Faults
<1>3. NothingDenied'
  BY DEF DraftingInv, NothingDenied
<1>4. QED BY <1>1, <1>2, <1>3

\* An attempt that is judged: another one, or posts of this round that may be live.
LEMMA CritiqueKeeps ==
  ASSUME G!DraftingAssumption, DraftingInv, G!Critique
  PROVE  DraftingInv'
<1>1. /\ phase = "critique"
      /\ UNCHANGED <<path, profile, accounts, gone, plan, written, drafted, revises, picture,
                     human>>
  BY DEF G!Critique, G!config
<1>2. /\ AccountsStay' /\ Numberings' /\ PlanFits' /\ G!LinksKept' /\ G!MediaFits'
      /\ FaultsAreKnown' /\ NothingDenied'
  BY <1>1, CritiqueKeepsDrafts
<1>3. /\ G!TypeOK /\ outbox = {} /\ MaxRevisions \in Nat /\ drafted <= revision + 1
      /\ drafted <= MaxRevisions + 1
      /\ \A p \in queued : p.round <= revises /\ p.round # revises
  BY <1>1 DEF DraftingInv, LiveIsOver, PostsOfRounds, IsJudged, Attempts, G!RevisionsEnd,
              G!DraftingAssumption
<1>4. UNCHANGED <<G!Flagged, G!Persisted>> /\ \A p : UNCHANGED G!LastOf(p)
  BY <1>1 DEF G!Flagged, G!Scanned, G!Persisted, G!MatchOf, G!Present, G!LastOf
<1>5. \A p \in G!Persisted : /\ p \in G!Post /\ p.round = revises /\ p.draft \in DOMAIN written
                             /\ path = "inline" \/ gone = {} =>
                                   DraftPlugin[p.account] = written[p.draft].plugin
  BY PersistedIs
<1>6. CASE /\ G!MayRevise /\ revision' = revision + 1 /\ UNCHANGED outbox
           /\ phase' = "execute" /\ UNCHANGED queued
  <2>1. revision < MaxRevisions /\ revision \in Nat /\ drafted \in Nat
    BY <1>3, <1>6 DEF G!MayRevise, G!TypeOK
  <2>2. G!TypeOK'
    <3>1. revision' \in Nat
      BY <1>6, <2>1
    <3>2. phase' \in {"plan", "tailor", "execute", "critique", "review", "waiting", "exhausted",
                     "succeeded"}
      BY <1>6
    <3>3. QED BY <1>1, <1>3, <1>6, <3>1, <3>2, Zenon DEF G!TypeOK
  <2>3. PostsOfRounds' /\ PostsOfDrafts'
    BY <1>1, <1>3, <1>6 DEF PostsOfRounds, PostsOfDrafts
  <2>4. LiveIsOver' /\ LiveIsPosted' /\ LiveTexts' /\ Unflagged'
    BY <1>3, <1>6 DEF LiveIsOver, LiveIsPosted, LiveTexts, Unflagged
  <2>5. Attempts' /\ G!RevisionsEnd'
    BY <1>1, <1>3, <1>6, <2>1 DEF Attempts, G!RevisionsEnd
  <2>6. QED BY <1>2, <2>2, <2>3, <2>4, <2>5 DEF DraftingInv
<1>7. CASE /\ outbox' = G!Sent(G!Persisted) /\ phase' = "succeeded" /\ ~ G!Flagged
           /\ queued' = IF path = "inline" THEN G!Persisted ELSE {s.post : s \in outbox'}
           /\ UNCHANGED revision
  <2>1. \A p \in outbox' : /\ p \in [post : G!Post, text : Nat] /\ p.post \in G!Persisted
                           /\ p.text \in DOMAIN written
                           /\ p.text = p.post.draft \/ p.text = G!LastOf(DraftPlugin[p.post.account])
    BY <1>7, SentIs
  <2>2. queued' \subseteq G!Persisted /\ \A p \in outbox' : p.post \in queued'
    BY <1>7, <2>1
  <2>3. G!TypeOK'
    <3>1. queued' \subseteq G!Post /\ outbox' \subseteq [post : G!Post, text : Nat]
      BY <1>5, <2>1, <2>2
    <3>2. phase' \in {"plan", "tailor", "execute", "critique", "review", "waiting", "exhausted",
                     "succeeded"}
      BY <1>7
    <3>3. QED BY <1>1, <1>3, <1>7, <3>1, <3>2, Zenon DEF G!TypeOK
  <2>4. PostsOfRounds'
    <3>1. IsJudged' /\ revises \in Nat
      BY <1>3, <1>7 DEF IsJudged, G!TypeOK, G!DraftingAssumption
    <3>2. QED BY <1>1, <1>5, <2>2, <3>1 DEF PostsOfRounds
  <2>5. PostsOfDrafts'
    BY <1>1, <1>5, <2>2 DEF PostsOfDrafts
  <2>6. LiveIsOver' /\ LiveIsPosted'
    BY <1>7, <2>2 DEF LiveIsOver, LiveIsPosted
  <2>7. LiveTexts'
    BY <1>1, <1>4, <2>1 DEF LiveTexts
  <2>8. Unflagged'
    BY <1>1, <1>4, <1>7, <2>1 DEF Unflagged
  <2>9. Attempts' /\ G!RevisionsEnd'
    BY <1>1, <1>3, <1>7 DEF Attempts, G!RevisionsEnd
  <2>10. QED BY <1>2, <2>3, <2>4, <2>5, <2>6, <2>7, <2>8, <2>9 DEF DraftingInv
<1>8. CASE /\ queued' = queued \cup G!Persisted /\ UNCHANGED <<revision, outbox>>
           /\ phase' \in {"waiting", "review"}
  <2>1. G!TypeOK'
    <3>1. queued' \subseteq G!Post
      BY <1>3, <1>5, <1>8 DEF G!TypeOK
    <3>2. phase' \in {"plan", "tailor", "execute", "critique", "review", "waiting", "exhausted",
                     "succeeded"}
      BY <1>8
    <3>3. QED BY <1>1, <1>3, <1>8, <3>1, <3>2, Zenon DEF G!TypeOK
  <2>2. PostsOfRounds'
    <3>1. IsJudged' /\ revises \in Nat
      BY <1>3, <1>8 DEF IsJudged, G!TypeOK, G!DraftingAssumption
    <3>2. QED BY <1>1, <1>3, <1>5, <1>8, <3>1 DEF PostsOfRounds
  <2>3. PostsOfDrafts'
    BY <1>1, <1>3, <1>5, <1>8 DEF PostsOfDrafts
  <2>4. LiveIsOver' /\ LiveIsPosted' /\ LiveTexts' /\ Unflagged'
    BY <1>3, <1>8 DEF LiveIsOver, LiveIsPosted, LiveTexts, Unflagged
  <2>5. Attempts' /\ G!RevisionsEnd'
    BY <1>1, <1>3, <1>8 DEF Attempts, G!RevisionsEnd
  <2>6. QED BY <1>2, <2>1, <2>2, <2>3, <2>4, <2>5 DEF DraftingInv
<1>9. QED
  <2>1. PICK decision \in G!Decisions, approval \in BOOLEAN, ways \in BOOLEAN :
       \/ /\ decision = "revise"
          /\ revision' = revision + 1
          /\ IF path = "durable" /\ revision + 1 > MaxRevisions
             THEN phase' = "exhausted" /\ queued' = G!Persisted
             ELSE phase' = "execute" /\ UNCHANGED queued
          /\ UNCHANGED outbox
       \/ /\ decision = "approve" /\ ~ approval /\ revises = 0
          /\ outbox' = G!Sent(G!Persisted) /\ phase' = "succeeded"
          /\ queued' = IF path = "inline" THEN G!Persisted ELSE {s.post : s \in outbox'}
          /\ UNCHANGED revision
       \/ /\ decision = "escalate" \/ (decision = "approve" /\ (approval \/ revises > 0))
          /\ queued' = queued \cup G!Persisted
          /\ phase' = IF path = "inline" /\ ~ approval /\ ~ ways /\ revises = 0
                     THEN "waiting" ELSE "review"
          /\ UNCHANGED <<revision, outbox>>
    BY DEF G!Critique
  <2>2. /\ decision = "revise" => G!MayRevise
        /\ decision = "approve" => ~ G!Flagged
    BY DEF G!Decisions
  <2>3. G!MayRevise => ~ (revision + 1 > MaxRevisions)
    BY <1>3 DEF G!MayRevise, G!TypeOK
  <2>4. CASE decision = "revise"
    BY <1>6, <2>1, <2>2, <2>3, <2>4
  <2>5. CASE /\ decision = "approve" /\ ~ approval /\ revises = 0
             /\ outbox' = G!Sent(G!Persisted) /\ phase' = "succeeded"
             /\ queued' = IF path = "inline" THEN G!Persisted ELSE {s.post : s \in outbox'}
             /\ UNCHANGED revision
    BY <1>7, <2>2, <2>5
  <2>6. CASE /\ queued' = queued \cup G!Persisted
             /\ phase' = IF path = "inline" /\ ~ approval /\ ~ ways /\ revises = 0
                        THEN "waiting" ELSE "review"
             /\ UNCHANGED <<revision, outbox>>
    BY <1>8, <2>6
  <2>7. QED BY <2>1, <2>4, <2>5, <2>6

\* Steps of people who look at what was judged.
LEMMA ApproveKeeps ==
  ASSUME G!DraftingAssumption, DraftingInv, G!Approve
  PROVE  DraftingInv'
<1>1. /\ phase = "review" /\ path = "inline" /\ phase' = "succeeded" /\ human' = TRUE
      /\ outbox' = {[post |-> p, text |-> p.draft] : p \in G!Reachable(queued)}
      /\ UNCHANGED <<path, profile, accounts, gone, plan, written, revision, drafted, revises,
                     picture, queued>>
  BY DEF G!Approve, G!config
<1>2. G!TypeOK /\ \A p \in queued : p \in G!Post
  BY DEF DraftingInv, G!TypeOK
<1>3. \A p \in outbox' : /\ p \in [post : G!Post, text : Nat] /\ p.post \in queued
                         /\ p.text = p.post.draft
  BY <1>1, <1>2 DEF G!Reachable, G!Post
<1>4. G!TypeOK'
  <2>1. outbox' \subseteq [post : G!Post, text : Nat]
    BY <1>3
  <2>2. human' \in BOOLEAN
        /\ phase' \in {"plan", "tailor", "execute", "critique", "review", "waiting", "exhausted",
                       "succeeded"}
    BY <1>1
  <2>3. QED BY <1>1, <1>2, <2>1, <2>2, Zenon DEF G!TypeOK
<1>5. Numberings' /\ PlanFits' /\ G!LinksKept' /\ G!MediaFits' /\ FaultsAreKnown' /\ AccountsStay'
  BY <1>1 DEF DraftingInv, Numberings, Numbered, PlanFits, G!LinksKept, G!MediaFits,
              FaultsAreKnown, G!Faults, AccountsStay
<1>6. NothingDenied' /\ PostsOfRounds' /\ PostsOfDrafts'
  BY <1>1 DEF DraftingInv, NothingDenied, PostsOfRounds, PostsOfDrafts, IsJudged
<1>7. LiveIsOver' /\ LiveIsPosted' /\ LiveTexts' /\ Unflagged'
  BY <1>1, <1>3 DEF LiveIsOver, LiveIsPosted, LiveTexts, Unflagged
<1>8. Attempts' /\ G!RevisionsEnd'
  BY <1>1 DEF DraftingInv, Attempts, G!RevisionsEnd
<1>9. QED BY <1>4, <1>5, <1>6, <1>7, <1>8 DEF DraftingInv

LEMMA PublishNowKeeps ==
  ASSUME G!DraftingAssumption, DraftingInv, G!PublishNow
  PROVE  DraftingInv'
<1>1. /\ phase = "waiting" \/ (phase = "review" /\ path = "durable")
      /\ human' = TRUE
      /\ UNCHANGED <<path, profile, accounts, gone, phase, plan, written, revision, drafted,
                     revises, picture, queued>>
  BY DEF G!PublishNow, G!config
<1>2. PICK p \in G!Reachable(queued) : outbox' = outbox \cup {[post |-> p, text |-> p.draft]}
  BY DEF G!PublishNow
<1>3. G!TypeOK /\ p \in queued /\ p \in G!Post /\ p.draft \in Nat
  BY <1>2 DEF DraftingInv, G!TypeOK, G!Reachable, G!Post
<1> DEFINE new == [post |-> p, text |-> p.draft]
<1>4. new \in [post : G!Post, text : Nat] /\ new.post = p /\ new.text = p.draft
  BY <1>3
<1>5. outbox' = outbox \cup {new}
  BY <1>2
<1> HIDE DEF new
<1>6. G!TypeOK'
  <2>1. outbox' \subseteq [post : G!Post, text : Nat]
    BY <1>3, <1>4, <1>5 DEF G!TypeOK
  <2>2. human' \in BOOLEAN
    BY <1>1
  <2>3. QED BY <1>1, <1>3, <2>1, <2>2, Zenon DEF G!TypeOK
<1>7. Numberings' /\ PlanFits' /\ G!LinksKept' /\ G!MediaFits' /\ FaultsAreKnown' /\ AccountsStay'
  BY <1>1 DEF DraftingInv, Numberings, Numbered, PlanFits, G!LinksKept, G!MediaFits,
              FaultsAreKnown, G!Faults, AccountsStay
<1>8. NothingDenied' /\ PostsOfRounds' /\ PostsOfDrafts'
  BY <1>1 DEF DraftingInv, NothingDenied, PostsOfRounds, PostsOfDrafts, IsJudged
<1>9. LiveIsOver' /\ LiveIsPosted' /\ Unflagged'
  BY <1>1, <1>3, <1>4, <1>5 DEF DraftingInv, LiveIsOver, LiveIsPosted, Unflagged
<1>10. LiveTexts'
  <2>1. \A a : G!LastOf(a)' = G!LastOf(a)
    BY <1>1 DEF G!LastOf
  <2>2. QED BY <1>1, <1>4, <1>5, <2>1 DEF DraftingInv, LiveTexts
<1>11. Attempts' /\ G!RevisionsEnd'
  BY <1>1 DEF DraftingInv, Attempts, G!RevisionsEnd
<1>12. QED BY <1>6, <1>7, <1>8, <1>9, <1>10, <1>11 DEF DraftingInv

LEMMA ReviseKeeps ==
  ASSUME G!DraftingAssumption, DraftingInv, G!Revise
  PROVE  DraftingInv'
<1>1. /\ phase = "review" /\ path = "inline" /\ phase' = "plan" /\ revises < MaxRevises
      /\ revises' = revises + 1 /\ revision' = (IF revises = 0 THEN 0 ELSE revision) + 1
      /\ picture' \in BOOLEAN /\ accounts' = G!Present /\ drafted' = 0
      /\ UNCHANGED <<path, profile, gone, plan, written, queued, outbox, human>>
  BY DEF G!Revise, G!config
<1>2. G!TypeOK /\ MaxRevises \in Nat /\ MaxRevisions \in Nat
  BY DEF DraftingInv, G!DraftingAssumption
<1>3. revises \in Nat /\ revises' \in 0 .. MaxRevises /\ revision' \in Nat
  BY <1>1, <1>2 DEF G!TypeOK
<1>4. G!TypeOK'
  <2>1. accounts' \subseteq DOMAIN DraftAccount
    BY <1>1 DEF G!Present
  <2>2. drafted' \in Nat /\ picture' \in BOOLEAN
        /\ phase' \in {"plan", "tailor", "execute", "critique", "review", "waiting", "exhausted",
                       "succeeded"}
    BY <1>1
  <2>3. QED BY <1>1, <1>2, <1>3, <2>1, <2>2, Zenon DEF G!TypeOK
<1>5. Numberings' /\ PlanFits' /\ G!LinksKept' /\ G!MediaFits' /\ FaultsAreKnown' /\ AccountsStay'
  BY <1>1 DEF DraftingInv, Numberings, Numbered, PlanFits, G!LinksKept, G!MediaFits,
              FaultsAreKnown, G!Faults, AccountsStay
<1>6. \A p \in queued : p.round < revises'
  <2>1. \A p \in queued : p.round <= revises /\ p.round \in Nat
    BY <1>2 DEF DraftingInv, PostsOfRounds, G!TypeOK, G!Post
  <2>2. QED BY <1>1, <1>3, <2>1
<1>7. \A p \in queued : p.round <= revises' /\ p.round # revises'
  <2>1. \A p \in queued : p.round \in Nat
    BY <1>2 DEF G!TypeOK, G!Post
  <2>2. QED BY <1>3, <1>6, <2>1
<1>8. NothingDenied' /\ PostsOfRounds' /\ PostsOfDrafts'
  BY <1>1, <1>7 DEF NothingDenied, PostsOfRounds, PostsOfDrafts
<1>9. outbox = {}
  BY <1>1 DEF DraftingInv, LiveIsOver
<1>10. LiveIsOver' /\ LiveIsPosted' /\ LiveTexts' /\ Unflagged'
  BY <1>1, <1>9 DEF LiveIsOver, LiveIsPosted, LiveTexts, Unflagged
<1>11. Attempts' /\ G!RevisionsEnd'
  BY <1>1, <1>2, <1>3 DEF Attempts, G!RevisionsEnd
<1>12. QED BY <1>4, <1>5, <1>8, <1>10, <1>11 DEF DraftingInv

LEMMA DraftingStep ==
  ASSUME G!DraftingAssumption, DraftingInv, [G!Next]_(G!vars)
  PROVE  DraftingInv'
<1>1. ASSUME NEW a \in G!Range(DraftAccount), G!Disconnect(a) PROVE DraftingInv'
  BY <1>1, DisconnectKeeps
<1>2. CASE UNCHANGED G!vars
  BY <1>2 DEF G!vars, DraftingInv, G!TypeOK, AccountsStay, Numberings, Numbered, PlanFits, G!LinksKept,
              G!MediaFits, FaultsAreKnown, G!Faults, NothingDenied, PostsOfRounds, IsJudged,
              PostsOfDrafts, LiveIsOver, LiveIsPosted, LiveTexts, G!LastOf, Unflagged, G!Flagged,
              G!Scanned, Attempts, G!RevisionsEnd
<1>3. QED
  BY <1>1, <1>2, PlanKeeps, TailorKeeps, ExecutingKeeps, CritiqueKeeps, ApproveKeeps,
     PublishNowKeeps, ReviseKeeps DEF G!Next

\* _publish_posts_for_run and _execute: what the invariant says of texts and accounts.
LEMMA OwnText ==
  ASSUME DraftingInv, ~ G!Repeats, NEW p \in G!LiveNow, path = "inline" \/ gone = {}
  PROVE  /\ p.post \in G!Post /\ p = [post |-> p.post, text |-> p.post.draft]
         /\ p.post.draft \in DOMAIN written /\ p.text = G!LastOf(DraftPlugin[p.post.account])
         /\ DraftPlugin[p.post.account] = written[p.post.draft].plugin
<1>1. p \in outbox /\ p.post.round = revises /\ p.post \in queued
  BY DEF G!LiveNow, DraftingInv, LiveIsPosted
<1>2. p \in [post : G!Post, text : Nat] /\ DOMAIN written \subseteq Nat /\ Numbered(written)
  BY <1>1 DEF DraftingInv, G!TypeOK, Numberings
<1>3. /\ p.post.draft \in DOMAIN written
      /\ DraftPlugin[p.post.account] = written[p.post.draft].plugin
  BY <1>1 DEF DraftingInv, PostsOfDrafts
<1>4. PICK k : k = G!LastOf(DraftPlugin[p.post.account])
  OBVIOUS
<1>5. k \in DOMAIN written /\ written[k].plugin = DraftPlugin[p.post.account]
  BY <1>2, <1>3, <1>4, LastIs
<1>6. k = p.post.draft
  BY <1>3, <1>5 DEF G!Repeats
<1>7. p.text = p.post.draft \/ p.text = k
  BY <1>1, <1>4 DEF DraftingInv, LiveTexts
<1>8. QED BY <1>2, <1>3, <1>4, <1>6, <1>7

LEMMA FlagsAreSeen ==
  ASSUME DraftingInv PROVE G!FlaggedNeedsHuman
<1>1. SUFFICES ASSUME ~ human, NEW p \in outbox PROVE written[p.text].fault = "none"
  BY DEF G!FlaggedNeedsHuman
<1>2. ~ G!Flagged /\ p.text \in DOMAIN written
  BY <1>1 DEF DraftingInv, Unflagged
<1>3. written[p.text].fault \in G!Faults
  BY <1>2 DEF DraftingInv, FaultsAreKnown
<1>4. written[p.text].fault # "banned" /\ ~ G!Scanned(p.text)
  BY <1>2 DEF G!Flagged
<1>5. QED BY <1>2, <1>3, <1>4 DEF G!Scanned, G!Faults

LEMMA DeniedStayOut ==
  ASSUME DraftingInv PROVE G!DenylistHolds
<1>1. SUFFICES ASSUME path = "durable", gone = {}, NEW p \in queued
              PROVE DraftPlugin[p.account] \notin Denied[profile]
  BY DEF G!DenylistHolds
<1>2. p.round = revises
  <2>1. p.round \in Nat /\ p.round <= revises /\ revises = 0
    BY <1>1 DEF DraftingInv, G!TypeOK, G!Post, PostsOfRounds, NothingDenied
  <2>2. QED BY <2>1
<1>3. QED BY <1>1, <1>2 DEF DraftingInv, PostsOfDrafts, NothingDenied

LEMMA AccountsGetOne ==
  ASSUME DraftingInv PROVE G!OncePerAccount
<1>1. SUFFICES ASSUME ~ G!Repeats, gone = {}, NEW p \in G!LiveNow, NEW q \in G!LiveNow,
                     p.post.account = q.post.account
              PROVE  p = q
  BY DEF G!OncePerAccount
<1>2. p.post \in G!Post /\ q.post \in G!Post /\ p.post.round = revises /\ q.post.round = revises
  BY <1>1, OwnText DEF G!LiveNow
<1>3. p.post.draft = q.post.draft
  <2>1. /\ p.post.draft \in DOMAIN written
        /\ DraftPlugin[p.post.account] = written[p.post.draft].plugin
    BY <1>1, OwnText
  <2>2. /\ q.post.draft \in DOMAIN written
        /\ DraftPlugin[q.post.account] = written[q.post.draft].plugin
    BY <1>1, OwnText
  <2>3. QED BY <1>1, <2>1, <2>2 DEF G!Repeats
<1>4. p.post = q.post
  BY <1>1, <1>2, <1>3 DEF G!Post
<1>5. p = [post |-> p.post, text |-> p.post.draft] /\ q = [post |-> q.post, text |-> q.post.draft]
  BY <1>1, OwnText
<1>6. QED BY <1>4, <1>5

LEMMA ReviewersSeeWhatGoes ==
  ASSUME DraftingInv PROVE G!SeenIsSent
  BY OwnText DEF G!SeenIsSent

LEMMA DraftingInvariant ==
  ASSUME G!DraftingAssumption PROVE G!Spec => []DraftingInv
<1>1. G!Init => DraftingInv BY DraftingInit
<1>2. DraftingInv /\ [G!Next]_(G!vars) => DraftingInv' BY DraftingStep
<1>3. QED BY <1>1, <1>2, PTL DEF G!Spec

\* Blueprints, drafts, posts and what is live keep their types.
THEOREM DraftingTypes ==
  ASSUME G!DraftingAssumption PROVE G!Spec => []G!TypeOK
<1>1. DraftingInv => G!TypeOK BY DEF DraftingInv
<1>2. QED BY <1>1, DraftingInvariant, PTL

\* EvaluatorAgent and CritiqueAgent: flagged wording goes out only when a person approved.
THEOREM FlaggedWaitsForPeople ==
  ASSUME G!DraftingAssumption PROVE G!Spec => []G!FlaggedNeedsHuman
<1>1. DraftingInv => G!FlaggedNeedsHuman BY FlagsAreSeen
<1>2. QED BY <1>1, DraftingInvariant, PTL

\* TailorAgent: a durable run posts to no platform its profile denies, unless an account
\* was disconnected.
THEOREM DeniedPlatformsGetNothing ==
  ASSUME G!DraftingAssumption PROVE G!Spec => []G!DenylistHolds
<1>1. DraftingInv => G!DenylistHolds BY DeniedStayOut
<1>2. QED BY <1>1, DraftingInvariant, PTL

\* CritiqueAgent: no plan is executed more often than max_revisions allows, and the guard of
\* the durable runner is never needed.
THEOREM AttemptsEnd ==
  ASSUME G!DraftingAssumption PROVE G!Spec => []G!RevisionsEnd
<1>1. DraftingInv => G!RevisionsEnd BY DEF DraftingInv
<1>2. QED BY <1>1, DraftingInvariant, PTL

\* _ensure_urls_present and _select_media_for_platform: a draft has the links it was given,
\* media of a kind its platform takes, and media where it needs some.
THEOREM DraftsKeepLinksAndMedia ==
  ASSUME G!DraftingAssumption PROVE G!Spec => [](G!LinksKept /\ G!MediaFits)
<1>1. DraftingInv => (G!LinksKept /\ G!MediaFits) BY DEF DraftingInv
<1>2. QED BY <1>1, DraftingInvariant, PTL

\* _persist_drafts: an account gets one post of a round, if the plan names no platform twice.
THEOREM AccountsGetOnePost ==
  ASSUME G!DraftingAssumption PROVE G!Spec => []G!OncePerAccount
<1>1. DraftingInv => G!OncePerAccount BY AccountsGetOne
<1>2. QED BY <1>1, DraftingInvariant, PTL

\* resume_after_review: the reviewer approves the text he was shown, if the plan names no
\* platform twice.
THEOREM WhatIsSeenIsSent ==
  ASSUME G!DraftingAssumption PROVE G!Spec => []G!SeenIsSent
<1>1. DraftingInv => G!SeenIsSent BY ReviewersSeeWhatGoes
<1>2. QED BY <1>1, DraftingInvariant, PTL

-----------------------------------------------------------------------------
(* Adapters: the calls of one publish, in order.                               *)

\* The calls, and the lists of them that adapters make.
CallNames == {"post", "start", "fetch", "container", "poll", "sleep"}
Routes == {<<>>, <<"post">>, <<"start", "post">>, <<"start", "fetch", "post">>,
           <<"container", "poll", "post">>, <<"container", "sleep", "post">>}

\* What the lemmas below use of an adapter.
Regular(d) ==
    /\ d.first = <<>> \/ (d.first = <<"start", "fetch", "upload">> /\ d.calls = <<"post">>)
    /\ d.calls \in Routes
    /\ d.experimental \in BOOLEAN /\ (d.experimental <=> d.calls = <<>>)
    /\ d.cut \in BOOLEAN /\ d.sep \in {0, 1, 2, 5} /\ d.maxTags \in {0, MaxTags}
    /\ d.limit = "text" \/ (d.limit = "sent" /\ d.sep = 1)
    /\ d.bare = 0 \/ (d.bare = 4 /\ d.sep = 5)

LEMMA RoutesEndInPost ==
  ASSUME NEW route \in Routes
  PROVE  /\ route \in Seq(CallNames) /\ Len(route) \in Nat /\ (route = <<>> <=> Len(route) = 0)
         /\ \A k \in 1 .. Len(route) : route[k] = "post" <=> k = Len(route)
<1>1. CASE route = <<>>
  BY <1>1
<1>2. CASE route = <<"post">>
  <2>1. route \in Seq(CallNames)
    BY <1>2 DEF CallNames
  <2>2. Len(route) = 1 /\ route[1] = "post"
    BY <1>2
  <2>3. \A k \in 1 .. 1 : k = 1
    OBVIOUS
  <2>4. route # <<>>
    BY <1>2
  <2>5. QED BY <2>1, <2>2, <2>3, <2>4
<1>3. CASE route = <<"start", "post">>
  <2>1. route \in Seq(CallNames)
    BY <1>3 DEF CallNames
  <2>2. Len(route) = 2 /\ route[1] = "start" /\ route[2] = "post"
    BY <1>3
  <2>3. \A k \in 1 .. 2 : k = 1 \/ k = 2
    OBVIOUS
  <2>4. route # <<>>
    BY <1>3
  <2>5. QED BY <2>1, <2>2, <2>3, <2>4
<1>4. CASE route = <<"start", "fetch", "post">>
  <2>1. route \in Seq(CallNames)
    BY <1>4 DEF CallNames
  <2>2. Len(route) = 3 /\ route[1] = "start" /\ route[2] = "fetch" /\ route[3] = "post"
    BY <1>4
  <2>3. \A k \in 1 .. 3 : k = 1 \/ k = 2 \/ k = 3
    OBVIOUS
  <2>4. route # <<>>
    BY <1>4
  <2>5. QED BY <2>1, <2>2, <2>3, <2>4
<1>5. CASE route = <<"container", "poll", "post">>
  <2>1. route \in Seq(CallNames)
    BY <1>5 DEF CallNames
  <2>2. Len(route) = 3 /\ route[1] = "container" /\ route[2] = "poll" /\ route[3] = "post"
    BY <1>5
  <2>3. \A k \in 1 .. 3 : k = 1 \/ k = 2 \/ k = 3
    OBVIOUS
  <2>4. route # <<>>
    BY <1>5
  <2>5. QED BY <2>1, <2>2, <2>3, <2>4
<1>6. CASE route = <<"container", "sleep", "post">>
  <2>1. route \in Seq(CallNames)
    BY <1>6 DEF CallNames
  <2>2. Len(route) = 3 /\ route[1] = "container" /\ route[2] = "sleep" /\ route[3] = "post"
    BY <1>6
  <2>3. \A k \in 1 .. 3 : k = 1 \/ k = 2 \/ k = 3
    OBVIOUS
  <2>4. route # <<>>
    BY <1>6
  <2>5. QED BY <2>1, <2>2, <2>3, <2>4
<1>7. QED BY <1>1, <1>2, <1>3, <1>4, <1>5, <1>6 DEF Routes

LEMMA AdaptersAreRegular ==
  ASSUME NEW p \in DOMAIN A!Platforms PROVE Regular(A!Platforms[p])
<1>1. A!Platforms[p] \in {A!Instagram, A!YouTube, A!LinkedIn, A!Facebook, A!Threads, A!Pinterest, A!Twitter, A!Bluesky, A!Telegram,
                        A!Tumblr, A!Reddit, A!Slack, A!Discord, A!Mastodon, A!Medium, A!TikTok}
  BY DEF A!Platforms
<1>2. Regular(A!Instagram)
  <2>1. /\ A!Instagram.first = <<>> /\ A!Instagram.calls = <<"container", "poll", "post">>
        /\ A!Instagram.sep = 5 /\ A!Instagram.maxTags = MaxTags /\ A!Instagram.limit = "text"
        /\ A!Instagram.cut = FALSE /\ A!Instagram.experimental = FALSE /\ A!Instagram.bare = 4
    BY DEF A!Instagram, A!Plain
  <2>2. A!Instagram.calls \in Routes
    BY <2>1 DEF Routes
  <2>3. A!Instagram.calls # <<>>
    BY <2>1
  <2>4. A!Instagram.first = <<>> \/ (A!Instagram.first = <<"start", "fetch", "upload">> /\ A!Instagram.calls = <<"post">>)
    BY <2>1
  <2>5. QED BY <2>1, <2>2, <2>3, <2>4, Zenon DEF Regular
<1>3. Regular(A!YouTube)
  <2>1. /\ A!YouTube.first = <<>> /\ A!YouTube.calls = <<"start", "fetch", "post">>
        /\ A!YouTube.sep = 2 /\ A!YouTube.maxTags = MaxTags /\ A!YouTube.limit = "text"
        /\ A!YouTube.cut = TRUE /\ A!YouTube.experimental = FALSE /\ A!YouTube.bare = 0
    BY DEF A!YouTube, A!Plain
  <2>2. A!YouTube.calls \in Routes
    BY <2>1 DEF Routes
  <2>3. A!YouTube.calls # <<>>
    BY <2>1
  <2>4. A!YouTube.first = <<>> \/ (A!YouTube.first = <<"start", "fetch", "upload">> /\ A!YouTube.calls = <<"post">>)
    BY <2>1
  <2>5. QED BY <2>1, <2>2, <2>3, <2>4, Zenon DEF Regular
<1>4. Regular(A!LinkedIn)
  <2>1. /\ A!LinkedIn.first = <<"start", "fetch", "upload">> /\ A!LinkedIn.calls = <<"post">>
        /\ A!LinkedIn.sep = 2 /\ A!LinkedIn.maxTags = MaxTags /\ A!LinkedIn.limit = "text"
        /\ A!LinkedIn.cut = FALSE /\ A!LinkedIn.experimental = FALSE /\ A!LinkedIn.bare = 0
    BY DEF A!LinkedIn, A!Plain
  <2>2. A!LinkedIn.calls \in Routes
    BY <2>1 DEF Routes
  <2>3. A!LinkedIn.calls # <<>>
    BY <2>1
  <2>4. A!LinkedIn.first = <<>> \/ (A!LinkedIn.first = <<"start", "fetch", "upload">> /\ A!LinkedIn.calls = <<"post">>)
    BY <2>1
  <2>5. QED BY <2>1, <2>2, <2>3, <2>4, Zenon DEF Regular
<1>5. Regular(A!Facebook)
  <2>1. /\ A!Facebook.first = <<>> /\ A!Facebook.calls = <<"post">>
        /\ A!Facebook.sep = 2 /\ A!Facebook.maxTags = MaxTags /\ A!Facebook.limit = "text"
        /\ A!Facebook.cut = FALSE /\ A!Facebook.experimental = FALSE /\ A!Facebook.bare = 0
    BY DEF A!Facebook, A!Plain
  <2>2. A!Facebook.calls \in Routes
    BY <2>1 DEF Routes
  <2>3. A!Facebook.calls # <<>>
    BY <2>1
  <2>4. A!Facebook.first = <<>> \/ (A!Facebook.first = <<"start", "fetch", "upload">> /\ A!Facebook.calls = <<"post">>)
    BY <2>1
  <2>5. QED BY <2>1, <2>2, <2>3, <2>4, Zenon DEF Regular
<1>6. Regular(A!Threads)
  <2>1. /\ A!Threads.first = <<>> /\ A!Threads.calls = <<"container", "sleep", "post">>
        /\ A!Threads.sep = 2 /\ A!Threads.maxTags = MaxTags /\ A!Threads.limit = "text"
        /\ A!Threads.cut = FALSE /\ A!Threads.experimental = FALSE /\ A!Threads.bare = 0
    BY DEF A!Threads, A!Plain
  <2>2. A!Threads.calls \in Routes
    BY <2>1 DEF Routes
  <2>3. A!Threads.calls # <<>>
    BY <2>1
  <2>4. A!Threads.first = <<>> \/ (A!Threads.first = <<"start", "fetch", "upload">> /\ A!Threads.calls = <<"post">>)
    BY <2>1
  <2>5. QED BY <2>1, <2>2, <2>3, <2>4, Zenon DEF Regular
<1>7. Regular(A!Pinterest)
  <2>1. /\ A!Pinterest.first = <<>> /\ A!Pinterest.calls = <<"post">>
        /\ A!Pinterest.sep = 2 /\ A!Pinterest.maxTags = MaxTags /\ A!Pinterest.limit = "text"
        /\ A!Pinterest.cut = TRUE /\ A!Pinterest.experimental = FALSE /\ A!Pinterest.bare = 0
    BY DEF A!Pinterest, A!Plain
  <2>2. A!Pinterest.calls \in Routes
    BY <2>1 DEF Routes
  <2>3. A!Pinterest.calls # <<>>
    BY <2>1
  <2>4. A!Pinterest.first = <<>> \/ (A!Pinterest.first = <<"start", "fetch", "upload">> /\ A!Pinterest.calls = <<"post">>)
    BY <2>1
  <2>5. QED BY <2>1, <2>2, <2>3, <2>4, Zenon DEF Regular
<1>8. Regular(A!Twitter)
  <2>1. /\ A!Twitter.first = <<>> /\ A!Twitter.calls = <<"post">>
        /\ A!Twitter.sep = 1 /\ A!Twitter.maxTags = MaxTags /\ A!Twitter.limit = "sent"
        /\ A!Twitter.cut = FALSE /\ A!Twitter.experimental = FALSE /\ A!Twitter.bare = 0
    BY DEF A!Twitter, A!Plain
  <2>2. A!Twitter.calls \in Routes
    BY <2>1 DEF Routes
  <2>3. A!Twitter.calls # <<>>
    BY <2>1
  <2>4. A!Twitter.first = <<>> \/ (A!Twitter.first = <<"start", "fetch", "upload">> /\ A!Twitter.calls = <<"post">>)
    BY <2>1
  <2>5. QED BY <2>1, <2>2, <2>3, <2>4, Zenon DEF Regular
<1>9. Regular(A!Bluesky)
  <2>1. /\ A!Bluesky.first = <<>> /\ A!Bluesky.calls = <<"start", "post">>
        /\ A!Bluesky.sep = 1 /\ A!Bluesky.maxTags = MaxTags /\ A!Bluesky.limit = "text"
        /\ A!Bluesky.cut = FALSE /\ A!Bluesky.experimental = FALSE /\ A!Bluesky.bare = 0
    BY DEF A!Bluesky, A!Plain
  <2>2. A!Bluesky.calls \in Routes
    BY <2>1 DEF Routes
  <2>3. A!Bluesky.calls # <<>>
    BY <2>1
  <2>4. A!Bluesky.first = <<>> \/ (A!Bluesky.first = <<"start", "fetch", "upload">> /\ A!Bluesky.calls = <<"post">>)
    BY <2>1
  <2>5. QED BY <2>1, <2>2, <2>3, <2>4, Zenon DEF Regular
<1>10. Regular(A!Telegram)
  <2>1. /\ A!Telegram.first = <<>> /\ A!Telegram.calls = <<"post">>
        /\ A!Telegram.sep = 2 /\ A!Telegram.maxTags = MaxTags /\ A!Telegram.limit = "text"
        /\ A!Telegram.cut = FALSE /\ A!Telegram.experimental = FALSE /\ A!Telegram.bare = 0
    BY DEF A!Telegram, A!Plain
  <2>2. A!Telegram.calls \in Routes
    BY <2>1 DEF Routes
  <2>3. A!Telegram.calls # <<>>
    BY <2>1
  <2>4. A!Telegram.first = <<>> \/ (A!Telegram.first = <<"start", "fetch", "upload">> /\ A!Telegram.calls = <<"post">>)
    BY <2>1
  <2>5. QED BY <2>1, <2>2, <2>3, <2>4, Zenon DEF Regular
<1>11. Regular(A!Tumblr)
  <2>1. /\ A!Tumblr.first = <<>> /\ A!Tumblr.calls = <<"post">>
        /\ A!Tumblr.sep = 0 /\ A!Tumblr.maxTags = MaxTags /\ A!Tumblr.limit = "text"
        /\ A!Tumblr.cut = FALSE /\ A!Tumblr.experimental = FALSE /\ A!Tumblr.bare = 0
    BY DEF A!Tumblr, A!Plain
  <2>2. A!Tumblr.calls \in Routes
    BY <2>1 DEF Routes
  <2>3. A!Tumblr.calls # <<>>
    BY <2>1
  <2>4. A!Tumblr.first = <<>> \/ (A!Tumblr.first = <<"start", "fetch", "upload">> /\ A!Tumblr.calls = <<"post">>)
    BY <2>1
  <2>5. QED BY <2>1, <2>2, <2>3, <2>4, Zenon DEF Regular
<1>12. Regular(A!Reddit)
  <2>1. /\ A!Reddit.first = <<>> /\ A!Reddit.calls = <<"post">>
        /\ A!Reddit.sep = 0 /\ A!Reddit.maxTags = 0 /\ A!Reddit.limit = "text"
        /\ A!Reddit.cut = FALSE /\ A!Reddit.experimental = FALSE /\ A!Reddit.bare = 0
    BY DEF A!Reddit, A!Plain
  <2>2. A!Reddit.calls \in Routes
    BY <2>1 DEF Routes
  <2>3. A!Reddit.calls # <<>>
    BY <2>1
  <2>4. A!Reddit.first = <<>> \/ (A!Reddit.first = <<"start", "fetch", "upload">> /\ A!Reddit.calls = <<"post">>)
    BY <2>1
  <2>5. QED BY <2>1, <2>2, <2>3, <2>4, Zenon DEF Regular
<1>13. Regular(A!Slack)
  <2>1. /\ A!Slack.first = <<>> /\ A!Slack.calls = <<"post">>
        /\ A!Slack.sep = 0 /\ A!Slack.maxTags = 0 /\ A!Slack.limit = "text"
        /\ A!Slack.cut = FALSE /\ A!Slack.experimental = FALSE /\ A!Slack.bare = 0
    BY DEF A!Slack, A!Plain
  <2>2. A!Slack.calls \in Routes
    BY <2>1 DEF Routes
  <2>3. A!Slack.calls # <<>>
    BY <2>1
  <2>4. A!Slack.first = <<>> \/ (A!Slack.first = <<"start", "fetch", "upload">> /\ A!Slack.calls = <<"post">>)
    BY <2>1
  <2>5. QED BY <2>1, <2>2, <2>3, <2>4, Zenon DEF Regular
<1>14. Regular(A!Discord)
  <2>1. /\ A!Discord.first = <<>> /\ A!Discord.calls = <<"post">>
        /\ A!Discord.sep = 2 /\ A!Discord.maxTags = MaxTags /\ A!Discord.limit = "text"
        /\ A!Discord.cut = FALSE /\ A!Discord.experimental = FALSE /\ A!Discord.bare = 0
    BY DEF A!Discord, A!Plain
  <2>2. A!Discord.calls \in Routes
    BY <2>1 DEF Routes
  <2>3. A!Discord.calls # <<>>
    BY <2>1
  <2>4. A!Discord.first = <<>> \/ (A!Discord.first = <<"start", "fetch", "upload">> /\ A!Discord.calls = <<"post">>)
    BY <2>1
  <2>5. QED BY <2>1, <2>2, <2>3, <2>4, Zenon DEF Regular
<1>15. Regular(A!Mastodon)
  <2>1. /\ A!Mastodon.first = <<>> /\ A!Mastodon.calls = <<"post">>
        /\ A!Mastodon.sep = 2 /\ A!Mastodon.maxTags = MaxTags /\ A!Mastodon.limit = "text"
        /\ A!Mastodon.cut = FALSE /\ A!Mastodon.experimental = FALSE /\ A!Mastodon.bare = 0
    BY DEF A!Mastodon, A!Plain
  <2>2. A!Mastodon.calls \in Routes
    BY <2>1 DEF Routes
  <2>3. A!Mastodon.calls # <<>>
    BY <2>1
  <2>4. A!Mastodon.first = <<>> \/ (A!Mastodon.first = <<"start", "fetch", "upload">> /\ A!Mastodon.calls = <<"post">>)
    BY <2>1
  <2>5. QED BY <2>1, <2>2, <2>3, <2>4, Zenon DEF Regular
<1>16. Regular(A!Medium)
  <2>1. /\ A!Medium.first = <<>> /\ A!Medium.calls = <<>>
        /\ A!Medium.sep = 0 /\ A!Medium.maxTags = MaxTags /\ A!Medium.limit = "text"
        /\ A!Medium.cut = FALSE /\ A!Medium.experimental = TRUE /\ A!Medium.bare = 0
    BY DEF A!Medium, A!Plain
  <2>2. A!Medium.calls \in Routes
    BY <2>1 DEF Routes
  <2>3. A!Medium.calls = <<>>
    BY <2>1
  <2>4. A!Medium.first = <<>> \/ (A!Medium.first = <<"start", "fetch", "upload">> /\ A!Medium.calls = <<"post">>)
    BY <2>1
  <2>5. QED BY <2>1, <2>2, <2>3, <2>4, Zenon DEF Regular
<1>17. Regular(A!TikTok)
  <2>1. /\ A!TikTok.first = <<>> /\ A!TikTok.calls = <<>>
        /\ A!TikTok.sep = 1 /\ A!TikTok.maxTags = MaxTags /\ A!TikTok.limit = "text"
        /\ A!TikTok.cut = FALSE /\ A!TikTok.experimental = TRUE /\ A!TikTok.bare = 0
    BY DEF A!TikTok, A!Plain
  <2>2. A!TikTok.calls \in Routes
    BY <2>1 DEF Routes
  <2>3. A!TikTok.calls = <<>>
    BY <2>1
  <2>4. A!TikTok.first = <<>> \/ (A!TikTok.first = <<"start", "fetch", "upload">> /\ A!TikTok.calls = <<"post">>)
    BY <2>1
  <2>5. QED BY <2>1, <2>2, <2>3, <2>4, Zenon DEF Regular
<1>18. QED BY <1>1, <1>2, <1>3, <1>4, <1>5, <1>6, <1>7, <1>8, <1>9, <1>10, <1>11, <1>12, <1>13, <1>14, <1>15, <1>16, <1>17

\* A list of calls ends with the one that posts, if it is not empty.
LEMMA StepsEndInPost ==
  ASSUME plat \in DOMAIN A!Platforms
  PROVE  /\ Len(A!Steps) \in Nat
         /\ A!Adapter.experimental => Len(A!Steps) = 0
         /\ ~ A!Adapter.experimental => Len(A!Steps) > 0
         /\ \A k \in 1 .. Len(A!Steps) : A!Steps[k] = "post" <=> k = Len(A!Steps)
<1>1. Regular(A!Adapter)
  BY AdaptersAreRegular DEF A!Adapter
<1>2. CASE payload.media # "none" /\ A!Adapter.first # <<>>
  <2>1. A!Adapter.first = <<"start", "fetch", "upload">> /\ A!Adapter.calls = <<"post">>
    BY <1>1, <1>2 DEF Regular
  <2>2. A!Steps = <<"start", "fetch", "upload">> \o <<"post">>
    BY <1>2, <2>1 DEF A!Steps
  <2>3. /\ Len(A!Steps) = 4 /\ A!Steps[1] = "start" /\ A!Steps[2] = "fetch" /\ A!Steps[3] = "upload"
        /\ A!Steps[4] = "post"
    BY <2>2
  <2>4. \A k \in 1 .. 4 : k = 1 \/ k = 2 \/ k = 3 \/ k = 4
    OBVIOUS
  <2>5. \A k \in 1 .. Len(A!Steps) : A!Steps[k] = "post" <=> k = Len(A!Steps)
    BY <2>3, <2>4
  <2>6. ~ A!Adapter.experimental
    BY <1>1, <2>1 DEF Regular
  <2>7. QED BY <2>3, <2>5, <2>6
<1>3. CASE payload.media = "none" \/ A!Adapter.first = <<>>
  <2>1. A!Adapter.calls \in Routes
    BY <1>1 DEF Regular
  <2>2. /\ A!Adapter.calls \in Seq(CallNames) /\ Len(A!Adapter.calls) \in Nat
        /\ (A!Adapter.calls = <<>> <=> Len(A!Adapter.calls) = 0)
        /\ \A k \in 1 .. Len(A!Adapter.calls) : A!Adapter.calls[k] = "post" <=> k = Len(A!Adapter.calls)
    BY <2>1, RoutesEndInPost
  <2>3. A!Steps = A!Adapter.calls
    <3>1. A!Steps = <<>> \o A!Adapter.calls
      BY <1>3 DEF A!Steps
    <3>2. QED BY <2>2, <3>1, EmptySeq, ConcatEmptySeq
  <2>4. A!Adapter.experimental <=> A!Adapter.calls = <<>>
    BY <1>1 DEF Regular
  <2>5. QED BY <2>2, <2>3, <2>4
<1>4. QED BY <1>2, <1>3

LEMMA InstagramSteps ==
  ASSUME plat = "instagram" PROVE A!Steps = <<"container", "poll", "post">>
<1>1. A!Adapter = A!Instagram
  BY DEF A!Adapter, A!Platforms
<1>2. A!Instagram.first = <<>> /\ A!Instagram.calls = <<"container", "poll", "post">>
  BY DEF A!Instagram, A!Plain
<1>3. QED BY <1>1, <1>2 DEF A!Steps

\* What is sent, in numbers.
LEMMA SentInNumbers ==
  ASSUME A!AdaptersAssumption, plat \in DOMAIN A!Platforms, payload \in A!Payloads
  PROVE  /\ payload.text \in Nat /\ payload.tags \in Nat /\ payload.media \in A!Kinds
         /\ A!Adapter.sep \in Nat /\ A!Adapter.maxTags \in Nat /\ MaxText \in Nat
         /\ A!Adapter.bare \in 0 .. A!Adapter.sep /\ (A!Adapter.limit = "sent" => A!Adapter.bare = 0)
         /\ \A n \in Nat : A!TagText(n) \in Nat
         /\ \A m, n \in Nat : m <= n => A!TagText(m) <= A!TagText(n)
         /\ A!Composed \in Nat /\ A!Sent \in Nat
<1>1. Regular(A!Adapter)
  BY AdaptersAreRegular DEF A!Adapter
<1>2. MaxText \in Nat /\ MaxTags \in Nat
  BY DEF A!AdaptersAssumption
<1>3. payload.text \in Nat /\ payload.tags \in Nat /\ payload.media \in A!Kinds
  BY <1>2 DEF A!Payloads
<1>4. /\ A!Adapter.sep \in Nat /\ A!Adapter.maxTags \in Nat
      /\ A!Adapter.bare \in 0 .. A!Adapter.sep /\ (A!Adapter.limit = "sent" => A!Adapter.bare = 0)
  BY <1>1, <1>2 DEF Regular
<1>5. \A n \in Nat : A!TagText(n) \in Nat
  BY DEF A!TagText
<1>6. \A m, n \in Nat : m <= n => A!TagText(m) <= A!TagText(n)
  BY DEF A!TagText
<1>7. A!Composed \in Nat
  BY <1>3, <1>4, <1>5 DEF A!Composed
<1>8. QED BY <1>2, <1>3, <1>4, <1>5, <1>6, <1>7 DEF A!Sent

MediaSent == IF payload.media \in A!Adapter.sends THEN payload.media ELSE "none"

\* A call of publish has posted when it is past its last remote call, and a call
\* before it has only if its answer was lost.
CallsInOrder ==
    /\ pc \in {"idle", "raised", "refused"} => Len(shown) = lost
    /\ pc = "calling" =>
         /\ A!Valid /\ at >= 1 /\ ~ (A!Adapter.experimental /\ caller = "inline")
         /\ at <= Len(A!Steps) => Len(shown) = lost
         /\ at = Len(A!Steps) + 1 => Len(shown) = lost + (IF A!Adapter.experimental THEN 0 ELSE 1)
    /\ pc = "done" => Len(shown) = lost + 1
                      \/ (A!Adapter.experimental /\ caller = "durable" /\ Len(shown) = lost)
ContainerInOrder ==
    plat = "instagram" /\ pc = "calling" =>
        /\ at = 2 => container \in {"working", "finished", "failed"}
        /\ at = 3 => container = "finished"
\* Posts are all of the one payload, which is valid.
PostsAlike ==
    \A k \in DOMAIN shown :
        A!Valid /\ ~ A!Adapter.experimental /\ shown[k].text = A!Sent /\ shown[k].media = MediaSent

AdaptersInv == A!TypeOK /\ CallsInOrder /\ ContainerInOrder /\ PostsAlike

\* What is fixed while publish is called.
Fixed == <<plat, caller, payload>>
LEMMA FixedKeeps ==
  ASSUME UNCHANGED Fixed
  PROVE  A!Adapter' = A!Adapter /\ A!Steps' = A!Steps /\ A!Valid' = A!Valid /\ A!Sent' = A!Sent /\ MediaSent' = MediaSent
BY DEF Fixed, A!Adapter, A!Steps, A!Valid, A!Measured, A!Sent, A!Composed, MediaSent

LEMMA AdaptersInit ==
  ASSUME A!AdaptersAssumption, A!Init PROVE AdaptersInv
<1>1. /\ plat \in DOMAIN A!Platforms /\ caller \in {"inline", "durable"} /\ payload \in A!Payloads
      /\ pc = "idle" /\ at = 0 /\ container = A!NoContainer /\ polls = 0 /\ tries = 0
      /\ shown = <<>> /\ lost = 0
  BY DEF A!Init
<1>2. Len(A!Steps) \in Nat
  BY <1>1, StepsEndInPost
<1>3. /\ polls \in 0 .. MaxPolls /\ tries \in 0 .. MaxTries /\ at \in 0 .. Len(A!Steps) + 1
  BY <1>1, <1>2 DEF A!AdaptersAssumption
<1>4. shown \in Seq([text : Nat, media : A!Kinds, from : {A!NoContainer, "finished"}])
      /\ Len(shown) = 0 /\ DOMAIN shown = {}
  BY <1>1
<1>5. A!TypeOK
  BY <1>1, <1>3, <1>4 DEF A!TypeOK
<1>6. QED BY <1>1, <1>4, <1>5 DEF AdaptersInv, CallsInOrder, ContainerInOrder, PostsAlike

LEMMA PublishKeeps ==
  ASSUME A!AdaptersAssumption, AdaptersInv, A!Publish PROVE AdaptersInv'
<1>1. /\ pc \in {"idle", "raised"} /\ tries < MaxTries /\ tries' = tries + 1 /\ polls' = 0
      /\ container' = A!NoContainer /\ at' = 1
      /\ pc' = IF (A!Adapter.experimental /\ caller = "inline") \/ ~ A!Valid THEN "refused" ELSE "calling"
      /\ UNCHANGED <<plat, caller, payload, shown, lost>>
  BY DEF A!Publish, A!Retried
<1>2. /\ A!Adapter' = A!Adapter /\ A!Steps' = A!Steps /\ A!Valid' = A!Valid /\ A!Sent' = A!Sent /\ MediaSent' = MediaSent
  BY <1>1, FixedKeeps DEF Fixed
<1>3. plat \in DOMAIN A!Platforms /\ Len(shown) = lost
  BY <1>1 DEF AdaptersInv, A!TypeOK, CallsInOrder
<1>4. /\ Len(A!Steps) \in Nat /\ (A!Adapter.experimental => Len(A!Steps) = 0)
      /\ (~ A!Adapter.experimental => Len(A!Steps) > 0)
  BY <1>3, StepsEndInPost
<1>5. A!TypeOK'
  <2>1. tries' \in 0 .. MaxTries /\ polls' \in 0 .. MaxPolls
    BY <1>1 DEF AdaptersInv, A!TypeOK, A!AdaptersAssumption
  <2>2. at' \in 0 .. Len(A!Steps) + 1
    BY <1>1, <1>4
  <2>3. QED BY <1>1, <1>2, <2>1, <2>2 DEF AdaptersInv, A!TypeOK
<1>6. Len(shown) \in Nat /\ lost \in Nat
  BY <1>3 DEF AdaptersInv, A!TypeOK
<1>7. CallsInOrder'
  BY <1>1, <1>2, <1>3, <1>4, <1>6 DEF CallsInOrder
<1>8. ContainerInOrder'
  BY <1>1 DEF ContainerInOrder
<1>9. PostsAlike'
  BY <1>1, <1>2 DEF AdaptersInv, PostsAlike
<1>10. QED BY <1>5, <1>7, <1>8, <1>9 DEF AdaptersInv

\* A remote call that goes on, or that raises, and posts nothing.
LEMMA CallKeeps ==
  ASSUME A!AdaptersAssumption, AdaptersInv,
         A!Calling, UNCHANGED <<plat, caller, payload, tries, shown, lost>>,
         polls' \in 0 .. MaxPolls,
         container' \in {A!NoContainer, "working", "finished", "failed", "used"},
         \/ A!Raise
         \/ A!GoOn /\ A!Steps[at] # "post"
         \/ UNCHANGED <<pc, at, container>>,
         plat = "instagram" /\ A!GoOn =>
            /\ at = 1 => container' = "working"
            /\ at = 2 => container' = "finished"
  PROVE  AdaptersInv'
<1>1. /\ pc = "calling" /\ at \in 1 .. Len(A!Steps) /\ plat \in DOMAIN A!Platforms
      /\ Len(shown) = lost /\ A!Valid /\ ~ (A!Adapter.experimental /\ caller = "inline")
  BY DEF A!Calling, AdaptersInv, A!TypeOK, CallsInOrder
<1>2. /\ A!Adapter' = A!Adapter /\ A!Steps' = A!Steps /\ A!Valid' = A!Valid /\ A!Sent' = A!Sent /\ MediaSent' = MediaSent
  BY FixedKeeps DEF Fixed
<1>3. Len(A!Steps) \in Nat /\ (\A k \in 1 .. Len(A!Steps) : A!Steps[k] = "post" <=> k = Len(A!Steps))
  BY <1>1, StepsEndInPost
<1>4. CASE A!Raise
  <2>1. pc' = "raised" /\ at' = at
    BY <1>4 DEF A!Raise
  <2>2. A!TypeOK'
    BY <1>2, <2>1 DEF AdaptersInv, A!TypeOK
  <2>3. CallsInOrder' /\ ContainerInOrder'
    BY <1>1, <2>1 DEF CallsInOrder, ContainerInOrder
  <2>4. PostsAlike'
    BY <1>2 DEF AdaptersInv, PostsAlike
  <2>5. QED BY <2>2, <2>3, <2>4 DEF AdaptersInv
<1>5. CASE A!GoOn /\ A!Steps[at] # "post"
  <2>1. pc' = "calling" /\ at' = at + 1 /\ at # Len(A!Steps)
    BY <1>1, <1>3, <1>5 DEF A!GoOn
  <2>2. at' \in 1 .. Len(A!Steps) /\ at' >= 1 /\ at' # Len(A!Steps) + 1
    BY <1>1, <1>3, <2>1
  <2>3. at' \in 0 .. Len(A!Steps) + 1
    BY <1>3, <2>2
  <2>4. A!TypeOK'
    BY <1>2, <2>1, <2>3 DEF AdaptersInv, A!TypeOK
  <2>5. CallsInOrder'
    BY <1>1, <1>2, <2>1, <2>2 DEF CallsInOrder
  <2>6. ContainerInOrder'
    BY <1>1, <1>3, <1>5, <2>1, <2>2 DEF ContainerInOrder
  <2>7. PostsAlike'
    BY <1>2 DEF AdaptersInv, PostsAlike
  <2>8. QED BY <2>4, <2>5, <2>6, <2>7 DEF AdaptersInv
<1>6. CASE UNCHANGED <<pc, at, container>>
  <2>1. A!TypeOK'
    BY <1>2, <1>6 DEF AdaptersInv, A!TypeOK
  <2>2. CallsInOrder' /\ ContainerInOrder' /\ PostsAlike'
    BY <1>2, <1>6 DEF AdaptersInv, CallsInOrder, ContainerInOrder, PostsAlike
  <2>3. QED BY <2>1, <2>2 DEF AdaptersInv
<1>7. QED BY <1>4, <1>5, <1>6

LEMMA PrepareKeeps ==
  ASSUME A!AdaptersAssumption, AdaptersInv, A!Prepare PROVE AdaptersInv'
<1>1. PICK call \in {"start", "fetch", "upload", "sleep"} : A!Doing(call)
  BY DEF A!Prepare
<1>2. /\ A!Calling /\ A!Steps[at] = call /\ A!GoOn
      /\ UNCHANGED <<plat, caller, payload, container, polls, tries, shown, lost>>
  BY <1>1 DEF A!Prepare, A!Doing
<1>3. plat = "instagram" => FALSE
  <2>1. ASSUME plat = "instagram" PROVE FALSE
    <3>1. A!Steps = <<"container", "poll", "post">>
      BY <2>1, InstagramSteps
    <3>2. at \in 1 .. 3
      BY <1>2, <3>1 DEF A!Calling
    <3>3. A!Steps[at] \in {"container", "poll", "post"}
      BY <3>1, <3>2
    <3>4. QED BY <1>1, <1>2, <3>3
  <2>2. QED BY <2>1
<1>4. /\ polls' \in 0 .. MaxPolls
      /\ container' \in {A!NoContainer, "working", "finished", "failed", "used"}
  BY <1>2 DEF AdaptersInv, A!TypeOK
<1>5. QED BY <1>1, <1>2, <1>3, <1>4, CallKeeps

LEMMA ContainerKeeps ==
  ASSUME A!AdaptersAssumption, AdaptersInv, A!MakeContainer PROVE AdaptersInv'
<1>1. /\ A!Calling /\ A!Steps[at] = "container" /\ container' = "working" /\ A!GoOn
      /\ UNCHANGED <<plat, caller, payload, polls, tries, shown, lost>>
  BY DEF A!MakeContainer, A!Doing
<1>2. plat = "instagram" => at = 1
  <2>1. ASSUME plat = "instagram" PROVE at = 1
    <3>1. A!Steps = <<"container", "poll", "post">>
      BY <2>1, InstagramSteps
    <3>2. at \in 1 .. 3
      BY <1>1, <3>1 DEF A!Calling
    <3>3. QED BY <1>1, <3>1, <3>2
  <2>2. QED BY <2>1
<1>3. polls' \in 0 .. MaxPolls
  BY <1>1 DEF AdaptersInv, A!TypeOK
<1>4. QED BY <1>1, <1>2, <1>3, CallKeeps

LEMMA ProcessKeeps ==
  ASSUME A!AdaptersAssumption, AdaptersInv, A!Process PROVE AdaptersInv'
<1>1. /\ container = "working" /\ container' \in {"finished", "failed"}
      /\ UNCHANGED <<plat, caller, payload, pc, at, polls, tries, shown, lost>>
  BY DEF A!Process
<1>2. /\ A!Adapter' = A!Adapter /\ A!Steps' = A!Steps /\ A!Valid' = A!Valid /\ A!Sent' = A!Sent /\ MediaSent' = MediaSent
  BY <1>1, FixedKeeps DEF Fixed
<1>3. A!TypeOK'
  BY <1>1, <1>2 DEF AdaptersInv, A!TypeOK
<1>4. CallsInOrder' /\ PostsAlike'
  BY <1>1, <1>2 DEF AdaptersInv, CallsInOrder, PostsAlike
<1>5. ContainerInOrder'
  BY <1>1 DEF AdaptersInv, ContainerInOrder
<1>6. QED BY <1>3, <1>4, <1>5 DEF AdaptersInv

LEMMA PollKeeps ==
  ASSUME A!AdaptersAssumption, AdaptersInv, A!Poll PROVE AdaptersInv'
<1>1. /\ A!Calling /\ A!Steps[at] = "poll"
      /\ IF A!PollEnds THEN A!GoOn /\ UNCHANGED polls
         ELSE IF container = "failed" \/ polls = MaxPolls THEN A!Raise /\ UNCHANGED polls
         ELSE polls' = polls + 1 /\ UNCHANGED <<pc, at>>
      /\ UNCHANGED <<plat, caller, payload, container, tries, shown, lost>>
  BY DEF A!Poll, A!Doing
<1>2. plat = "instagram" => at = 2
  <2>1. ASSUME plat = "instagram" PROVE at = 2
    <3>1. A!Steps = <<"container", "poll", "post">>
      BY <2>1, InstagramSteps
    <3>2. at \in 1 .. 3
      BY <1>1, <3>1 DEF A!Calling
    <3>3. QED BY <1>1, <3>1, <3>2
  <2>2. QED BY <2>1
<1>3. /\ container' \in {A!NoContainer, "working", "finished", "failed", "used"}
      /\ polls \in 0 .. MaxPolls /\ MaxPolls \in Nat
  BY <1>1 DEF AdaptersInv, A!TypeOK, A!AdaptersAssumption
<1>4. CASE A!PollEnds
  <2>1. A!GoOn /\ polls' = polls /\ container' = "finished"
    BY <1>1, <1>4 DEF A!PollEnds
  <2>2. QED BY <1>1, <1>2, <1>3, <2>1, CallKeeps
<1>5. CASE ~ A!PollEnds /\ (container = "failed" \/ polls = MaxPolls)
  <2>1. A!Raise /\ polls' = polls
    BY <1>1, <1>5
  <2>2. ~ A!GoOn
    BY <2>1, <1>1 DEF A!Raise, A!GoOn, A!Calling
  <2>3. QED BY <1>1, <1>3, <2>1, <2>2, CallKeeps
<1>6. CASE ~ A!PollEnds /\ ~ (container = "failed" \/ polls = MaxPolls)
  <2>1. polls' = polls + 1 /\ UNCHANGED <<pc, at, container>> /\ polls # MaxPolls
    BY <1>1, <1>6
  <2>2. polls' \in 0 .. MaxPolls
    BY <1>3, <2>1
  <2>3. ~ A!GoOn
    BY <1>1, <2>1 DEF A!GoOn, A!Calling
  <2>4. QED BY <1>1, <1>3, <2>1, <2>2, <2>3, CallKeeps
<1>7. QED BY <1>4, <1>5, <1>6

LEMMA PostKeeps ==
  ASSUME A!AdaptersAssumption, AdaptersInv, A!Post PROVE AdaptersInv'
<1> DEFINE row == [text |-> A!Sent, from |-> container, media |-> MediaSent]
<1>1. /\ A!Calling /\ A!Steps[at] = "post" /\ container \in {A!NoContainer, "finished"}
      /\ shown' = Append(shown, row)
      /\ container' = IF container = A!NoContainer THEN container ELSE "used"
      /\ (A!GoOn /\ lost' = lost) \/ (A!Raise /\ lost' = lost + 1)
      /\ UNCHANGED <<plat, caller, payload, polls, tries>>
  BY DEF A!Post, A!Doing, A!Accepted, MediaSent
<1>2. /\ pc = "calling" /\ at \in 1 .. Len(A!Steps) /\ plat \in DOMAIN A!Platforms /\ payload \in A!Payloads
      /\ Len(shown) = lost /\ A!Valid /\ ~ (A!Adapter.experimental /\ caller = "inline") /\ lost \in Nat
      /\ shown \in Seq([text : Nat, media : A!Kinds, from : {A!NoContainer, "finished"}])
  BY <1>1 DEF A!Calling, AdaptersInv, A!TypeOK, CallsInOrder
<1>3. /\ A!Adapter' = A!Adapter /\ A!Steps' = A!Steps /\ A!Valid' = A!Valid /\ A!Sent' = A!Sent /\ MediaSent' = MediaSent
  BY <1>1, FixedKeeps DEF Fixed
<1>4. /\ Len(A!Steps) \in Nat /\ (\A k \in 1 .. Len(A!Steps) : A!Steps[k] = "post" <=> k = Len(A!Steps))
      /\ (A!Adapter.experimental => Len(A!Steps) = 0)
  BY <1>2, StepsEndInPost
<1>5. at = Len(A!Steps) /\ ~ A!Adapter.experimental
  BY <1>1, <1>2, <1>4
<1>6. row \in [text : Nat, media : A!Kinds, from : {A!NoContainer, "finished"}]
      /\ row.text = A!Sent /\ row.media = MediaSent
  <2>1. A!Sent \in Nat /\ payload.media \in A!Kinds
    BY <1>2, SentInNumbers
  <2>2. MediaSent \in A!Kinds
    BY <2>1 DEF MediaSent, A!Kinds
  <2>3. QED BY <1>1, <2>1, <2>2
<1> HIDE DEF row
<1>7. /\ shown' \in Seq([text : Nat, media : A!Kinds, from : {A!NoContainer, "finished"}])
      /\ Len(shown') = lost + 1
      /\ \A k \in DOMAIN shown' : shown'[k] = row \/ (k \in DOMAIN shown /\ shown'[k] = shown[k])
  BY <1>1, <1>2, <1>6
<1>8. PostsAlike'
  <2>1. ASSUME NEW k \in DOMAIN shown' PROVE shown'[k].text = A!Sent /\ shown'[k].media = MediaSent
    BY <1>6, <1>7 DEF AdaptersInv, PostsAlike
  <2>2. QED BY <1>2, <1>3, <1>5, <2>1 DEF PostsAlike
<1>9. container' \in {A!NoContainer, "working", "finished", "failed", "used"} /\ lost' \in Nat
  BY <1>1, <1>2
<1>10. CASE A!GoOn /\ lost' = lost
  <2>1. pc' = "calling" /\ at' = Len(A!Steps) + 1
    BY <1>2, <1>5, <1>10 DEF A!GoOn
  <2>2. at' \in 0 .. Len(A!Steps) + 1 /\ at' >= 1 /\ ~ (at' <= Len(A!Steps))
    BY <1>4, <2>1
  <2>3. A!TypeOK'
    BY <1>1, <1>3, <1>7, <1>9, <2>1, <2>2 DEF AdaptersInv, A!TypeOK
  <2>4. CallsInOrder'
    BY <1>1, <1>2, <1>3, <1>5, <1>7, <1>10, <2>1, <2>2 DEF CallsInOrder
  <2>5. ContainerInOrder'
    <3>1. ASSUME plat = "instagram" PROVE at' = 4
      <4>1. A!Steps = <<"container", "poll", "post">>
        BY <3>1, InstagramSteps
      <4>2. QED BY <2>1, <4>1
    <3>2. QED BY <1>1, <3>1 DEF ContainerInOrder
  <2>6. QED BY <1>8, <2>3, <2>4, <2>5 DEF AdaptersInv
<1>11. CASE A!Raise /\ lost' = lost + 1
  <2>1. pc' = "raised" /\ at' = at
    BY <1>11 DEF A!Raise
  <2>2. A!TypeOK'
    BY <1>1, <1>3, <1>7, <1>9, <2>1 DEF AdaptersInv, A!TypeOK
  <2>3. CallsInOrder' /\ ContainerInOrder'
    BY <1>7, <1>11, <2>1 DEF CallsInOrder, ContainerInOrder
  <2>4. QED BY <1>8, <2>2, <2>3 DEF AdaptersInv
<1>12. QED BY <1>1, <1>10, <1>11

LEMMA FailureKeeps ==
  ASSUME A!AdaptersAssumption, AdaptersInv, A!CallFails PROVE AdaptersInv'
<1>1. A!Calling /\ A!Raise /\ UNCHANGED <<plat, caller, payload, container, polls, tries, shown, lost>>
  BY DEF A!CallFails
<1>2. ~ A!GoOn
  BY <1>1 DEF A!Raise, A!GoOn, A!Calling
<1>3. /\ polls' \in 0 .. MaxPolls
      /\ container' \in {A!NoContainer, "working", "finished", "failed", "used"}
  BY <1>1 DEF AdaptersInv, A!TypeOK
<1>4. QED BY <1>1, <1>2, <1>3, CallKeeps

LEMMA ReturnKeeps ==
  ASSUME A!AdaptersAssumption, AdaptersInv, A!Return PROVE AdaptersInv'
<1>1. /\ pc = "calling" /\ at = Len(A!Steps) + 1 /\ pc' = "done"
      /\ UNCHANGED <<plat, caller, payload, at, container, polls, tries, shown, lost>>
  BY DEF A!Return
<1>2. /\ A!Adapter' = A!Adapter /\ A!Steps' = A!Steps /\ A!Valid' = A!Valid /\ A!Sent' = A!Sent /\ MediaSent' = MediaSent
  BY <1>1, FixedKeeps DEF Fixed
<1>3. A!TypeOK'
  BY <1>1, <1>2 DEF AdaptersInv, A!TypeOK
<1>4. /\ Len(shown) = lost + (IF A!Adapter.experimental THEN 0 ELSE 1) /\ lost \in Nat
      /\ ~ (A!Adapter.experimental /\ caller = "inline") /\ caller \in {"inline", "durable"}
  BY <1>1 DEF AdaptersInv, A!TypeOK, CallsInOrder
<1>5. CallsInOrder' /\ ContainerInOrder'
  BY <1>1, <1>2, <1>4 DEF CallsInOrder, ContainerInOrder
<1>6. PostsAlike'
  BY <1>1, <1>2 DEF AdaptersInv, PostsAlike
<1>7. QED BY <1>3, <1>5, <1>6 DEF AdaptersInv

LEMMA AdaptersStep ==
  ASSUME A!AdaptersAssumption, AdaptersInv, [A!Next]_(A!vars) PROVE AdaptersInv'
<1>1. CASE UNCHANGED A!vars
  <2>1. /\ A!Adapter' = A!Adapter /\ A!Steps' = A!Steps /\ A!Valid' = A!Valid /\ A!Sent' = A!Sent /\ MediaSent' = MediaSent
    BY <1>1, FixedKeeps DEF A!vars, Fixed
  <2>2. QED BY <1>1, <2>1 DEF A!vars, AdaptersInv, A!TypeOK, CallsInOrder, ContainerInOrder, PostsAlike
<1>2. QED BY <1>1, PublishKeeps, PrepareKeeps, ContainerKeeps, ProcessKeeps, PollKeeps, PostKeeps,
             FailureKeeps, ReturnKeeps DEF A!Next

LEMMA PostsFollow ==
  ASSUME AdaptersInv PROVE A!OnceUnlessLost /\ A!ReturnedIsPosted
<1>1. /\ plat \in DOMAIN A!Platforms /\ at \in 0 .. Len(A!Steps) + 1 /\ lost \in Nat
      /\ pc \in {"idle", "calling", "raised", "refused", "done"}
  BY DEF AdaptersInv, A!TypeOK
<1>2. Len(A!Steps) \in Nat
  BY <1>1, StepsEndInPost
<1>3. at <= Len(A!Steps) \/ at = Len(A!Steps) + 1
  BY <1>1, <1>2
<1>4. A!OnceUnlessLost
  BY <1>1, <1>3 DEF AdaptersInv, CallsInOrder, A!OnceUnlessLost
<1>5. A!ReturnedIsPosted
  BY DEF AdaptersInv, CallsInOrder, A!ReturnedIsPosted
<1>6. QED BY <1>4, <1>5

LEMMA ContainerFirst ==
  ASSUME AdaptersInv PROVE A!NeverEarly
<1>1. SUFFICES ASSUME plat = "instagram", A!Doing("post") PROVE container = "finished"
  BY DEF A!NeverEarly
<1>2. A!Steps = <<"container", "poll", "post">>
  BY <1>1, InstagramSteps
<1>3. pc = "calling" /\ at \in 1 .. 3 /\ A!Steps[at] = "post"
  BY <1>1, <1>2 DEF A!Doing, A!Calling
<1>4. at = 3
  BY <1>2, <1>3
<1>5. QED BY <1>1, <1>3, <1>4 DEF AdaptersInv, ContainerInOrder

LEMMA MediaFollow ==
  ASSUME AdaptersInv PROVE A!MediaDropsAreKnown
<1>1. SUFFICES ASSUME NEW k \in DOMAIN shown, shown[k].media # payload.media
               PROVE  \/ plat \in {"twitter", "bluesky", "reddit", "slack", "discord", "mastodon"}
                      \/ plat \in {"telegram", "tumblr"} /\ payload.media \in {"gif", "document"}
                      \/ plat = "facebook" /\ payload.media = "document"
  BY DEF A!MediaDropsAreKnown
<1>2. /\ payload.media \notin A!Adapter.sends /\ payload.media # "none"
      /\ payload.media \in A!Adapter.takes /\ payload.media \in A!Kinds /\ plat \in DOMAIN A!Platforms
      /\ ~ A!Adapter.experimental
  <2>1. /\ A!Valid /\ shown[k].media = MediaSent /\ payload \in A!Payloads /\ plat \in DOMAIN A!Platforms
        /\ ~ A!Adapter.experimental
    BY DEF AdaptersInv, A!TypeOK, PostsAlike
  <2>2. QED BY <1>1, <2>1 DEF A!Valid, MediaSent, A!Payloads
<1>3. QED
  <2> DEFINE m == payload.media
  <2>1. m \in {"image", "video", "gif", "document"}
    BY <1>2 DEF A!Kinds
  <2>2. /\ A!Instagram.sends = A!Attachable /\ A!LinkedIn.sends = A!Attachable /\ A!Threads.sends = A!Attachable
        /\ A!Pinterest.sends = A!Attachable
    BY DEF A!Instagram, A!LinkedIn, A!Threads, A!Pinterest, A!Plain
  <2>3. A!YouTube.takes = {"video"} /\ A!YouTube.sends = {"video"}
    BY DEF A!YouTube, A!Plain
  <2>4. /\ A!Facebook.sends = {"image", "gif", "video"} /\ A!Telegram.sends = {"image", "video"}
        /\ A!Tumblr.sends = {"image", "video"}
    BY DEF A!Facebook, A!Telegram, A!Tumblr, A!Plain
  <2>5. A!Medium.experimental = TRUE /\ A!TikTok.experimental = TRUE
    BY DEF A!Medium, A!TikTok, A!Plain
  <2>6. m \in A!Attachable
    BY <2>1 DEF A!Attachable, A!Kinds
  <2>7. /\ plat = "instagram" => A!Adapter = A!Instagram
        /\ plat = "youtube" => A!Adapter = A!YouTube
        /\ plat = "linkedin" => A!Adapter = A!LinkedIn
        /\ plat = "facebook" => A!Adapter = A!Facebook
        /\ plat = "threads" => A!Adapter = A!Threads
        /\ plat = "pinterest" => A!Adapter = A!Pinterest
        /\ plat = "telegram" => A!Adapter = A!Telegram
        /\ plat = "tumblr" => A!Adapter = A!Tumblr
        /\ plat = "medium" => A!Adapter = A!Medium
        /\ plat = "tiktok" => A!Adapter = A!TikTok
    BY DEF A!Adapter, A!Platforms
  <2>8. plat \in {"instagram", "youtube", "linkedin", "facebook", "threads", "pinterest", "twitter",
                  "bluesky", "telegram", "tumblr", "reddit", "slack", "discord", "mastodon", "medium",
                  "tiktok"}
    BY <1>2 DEF A!Platforms
  <2>9. plat \notin {"instagram", "linkedin", "threads", "pinterest", "youtube", "medium", "tiktok"}
    BY <1>2, <2>2, <2>3, <2>5, <2>6, <2>7
  <2>10. plat = "facebook" => m = "document"
    BY <1>2, <2>1, <2>4, <2>7
  <2>11. plat \in {"telegram", "tumblr"} => m \in {"gif", "document"}
    BY <1>2, <2>1, <2>4, <2>7
  <2>12. QED BY <2>8, <2>9, <2>10, <2>11

LEMMA LengthFollows ==
  ASSUME A!AdaptersAssumption, AdaptersInv PROVE A!LengthIsBounded
<1>1. SUFFICES ASSUME NEW k \in DOMAIN shown
               PROVE  shown[k].text <= IF A!Adapter.limit = "sent" \/ A!Adapter.cut THEN MaxText
                                       ELSE MaxText + A!Adapter.sep + A!TagText(A!Adapter.maxTags)
  BY DEF A!LengthIsBounded
<1>2. A!Valid /\ shown[k].text = A!Sent /\ payload \in A!Payloads /\ plat \in DOMAIN A!Platforms
  BY DEF AdaptersInv, A!TypeOK, PostsAlike
<1>3. /\ payload.text \in Nat /\ payload.tags \in Nat
      /\ A!Adapter.sep \in Nat /\ A!Adapter.maxTags \in Nat /\ MaxText \in Nat
      /\ A!Adapter.bare \in 0 .. A!Adapter.sep /\ (A!Adapter.limit = "sent" => A!Adapter.bare = 0)
      /\ \A n \in Nat : A!TagText(n) \in Nat
      /\ \A m, n \in Nat : m <= n => A!TagText(m) <= A!TagText(n)
      /\ A!Composed \in Nat /\ A!Sent \in Nat
  BY <1>2, SentInNumbers
<1>4. /\ payload.text <= MaxText /\ A!Measured <= MaxText /\ payload.tags <= A!Adapter.maxTags
  BY <1>2 DEF A!Valid
<1>5. /\ A!TagText(payload.tags) \in Nat /\ A!TagText(A!Adapter.maxTags) \in Nat
      /\ A!TagText(payload.tags) <= A!TagText(A!Adapter.maxTags)
  BY <1>3, <1>4
<1>6. A!Adapter.limit = "text" \/ A!Adapter.limit = "sent"
  BY <1>2, AdaptersAreRegular DEF A!Adapter, Regular
<1>7. /\ A!Composed <= MaxText + A!Adapter.sep + A!TagText(A!Adapter.maxTags)
      /\ A!Adapter.limit = "sent" => A!Composed <= MaxText
  BY <1>3, <1>4, <1>5, <1>6 DEF A!Composed, A!Measured
<1>8. A!Sent <= A!Composed /\ (A!Adapter.cut => A!Sent <= MaxText)
  BY <1>3 DEF A!Sent
<1>9. QED BY <1>2, <1>3, <1>5, <1>7, <1>8

LEMMA AdaptersInvariant ==
  ASSUME A!AdaptersAssumption PROVE A!Spec => []AdaptersInv
<1>1. A!Init => AdaptersInv BY AdaptersInit
<1>2. AdaptersInv /\ [A!Next]_(A!vars) => AdaptersInv' BY AdaptersStep
<1>3. QED BY <1>1, <1>2, PTL DEF A!Spec

\* Calls, containers and posts keep their types, for every platform.
THEOREM AdapterTypes ==
  ASSUME A!AdaptersAssumption PROVE A!Spec => []A!TypeOK
<1>1. AdaptersInv => A!TypeOK BY DEF AdaptersInv
<1>2. QED BY <1>1, AdaptersInvariant, PTL

\* publish: with any number of retries a draft is on its platform once, but for posts
\* whose answer was lost, and a call that returned has posted.
THEOREM PostsAreOnce ==
  ASSUME A!AdaptersAssumption PROVE A!Spec => [](A!OnceUnlessLost /\ A!ReturnedIsPosted)
<1>1. AdaptersInv => (A!OnceUnlessLost /\ A!ReturnedIsPosted) BY PostsFollow
<1>2. QED BY <1>1, AdaptersInvariant, PTL

\* Instagram publishes no unfinished container.
THEOREM ContainersFinishFirst ==
  ASSUME A!AdaptersAssumption PROVE A!Spec => []A!NeverEarly
<1>1. AdaptersInv => A!NeverEarly BY ContainerFirst
<1>2. QED BY <1>1, AdaptersInvariant, PTL

\* Media is left out only where the adapter is known for it.
THEOREM MediaIsKept ==
  ASSUME A!AdaptersAssumption PROVE A!Spec => []A!MediaDropsAreKnown
<1>1. AdaptersInv => A!MediaDropsAreKnown BY MediaFollow
<1>2. QED BY <1>1, AdaptersInvariant, PTL

\* What is posted fits the platform, but for the tags an adapter appends unmeasured.
THEOREM TextsKeepTheirLength ==
  ASSUME A!AdaptersAssumption PROVE A!Spec => []A!LengthIsBounded
<1>1. AdaptersInv => A!LengthIsBounded BY LengthFollows
<1>2. QED BY <1>1, AdaptersInvariant, PTL

-----------------------------------------------------------------------------
(* The parts side by side: a behaviour is one of the part it is about.         *)

\* No step changes what a behaviour is about.
LEMMA PartStays ==
  ASSUME NEW p, part = p, [NextAll]_varsAll PROVE part' = p
BY DEF NextAll, Only, varsAll

LEMMA CampaignsPart ==
  SpecAll => Spec
<1>1. InitAll => Init
  BY DEF InitAll
<1>2. ASSUME [NextAll]_varsAll PROVE [Next]_vars
  <2>1. CASE UNCHANGED varsAll
    BY <2>1 DEF varsAll
  <2>2. CASE Only("campaigns") /\ Next
    BY <2>2
  <2>3. ASSUME NEW p, p # "campaigns", Only(p) PROVE UNCHANGED vars
    BY <2>3 DEF Only
  <2>4. QED BY <1>2, <2>1, <2>2, <2>3 DEF NextAll
<1>3. QED BY <1>1, <1>2, PTL DEF SpecAll, Spec

LEMMA PublishingPart ==
  SpecAll => []~ (part = "publishing") \/ (A!Spec /\ [](part = "publishing"))
<1>1. InitAll /\ part = "publishing" => A!Init
  BY DEF InitAll
<1>2. part = "publishing" /\ [NextAll]_varsAll => [A!Next]_(A!vars)
  BY DEF NextAll, Only, varsAll, adapterVars, A!vars
<1>3. part = "publishing" /\ [NextAll]_varsAll => (part = "publishing")'
  BY PartStays
<1>4. ~ (part = "publishing") /\ [NextAll]_varsAll => (~ (part = "publishing"))'
  BY PartStays
<1>5. QED BY <1>1, <1>2, <1>3, <1>4, PTL DEF SpecAll, A!Spec

LEMMA EngagementPart ==
  SpecAll => []~ (part = "engagement") \/ (E!Spec /\ [](part = "engagement"))
<1>1. InitAll /\ part = "engagement" => E!Init
  BY DEF InitAll
<1>2. part = "engagement" /\ [NextAll]_varsAll => [E!Next]_(E!vars)
  BY DEF NextAll, Only, varsAll, engagementVars, E!vars
<1>3. part = "engagement" /\ [NextAll]_varsAll => (part = "engagement")'
  BY PartStays
<1>4. ~ (part = "engagement") /\ [NextAll]_varsAll => (~ (part = "engagement"))'
  BY PartStays
<1>5. QED BY <1>1, <1>2, <1>3, <1>4, PTL DEF SpecAll, E!Spec

LEMMA RecyclingPart ==
  SpecAll => []~ (part = "recycling") \/ (R!Spec /\ [](part = "recycling"))
<1>1. InitAll /\ part = "recycling" => R!Init
  BY DEF InitAll
<1>2. part = "recycling" /\ [NextAll]_varsAll => [R!Next]_(R!vars)
  BY DEF NextAll, Only, varsAll, recyclingVars, R!vars
<1>3. part = "recycling" /\ [NextAll]_varsAll => (part = "recycling")'
  BY PartStays
<1>4. ~ (part = "recycling") /\ [NextAll]_varsAll => (~ (part = "recycling"))'
  BY PartStays
<1>5. QED BY <1>1, <1>2, <1>3, <1>4, PTL DEF SpecAll, R!Spec

LEMMA ApprovalPart ==
  SpecAll => []~ (part = "approval") \/ (V!Spec /\ [](part = "approval"))
<1>1. InitAll /\ part = "approval" => V!Init
  BY DEF InitAll
<1>2. part = "approval" /\ [NextAll]_varsAll => [V!Next]_(V!vars)
  BY DEF NextAll, Only, varsAll, approvalVars, V!vars
<1>3. part = "approval" /\ [NextAll]_varsAll => (part = "approval")'
  BY PartStays
<1>4. ~ (part = "approval") /\ [NextAll]_varsAll => (~ (part = "approval"))'
  BY PartStays
<1>5. QED BY <1>1, <1>2, <1>3, <1>4, PTL DEF SpecAll, V!Spec

LEMMA ExperimentsPart ==
  SpecAll => []~ (part = "experiments") \/ (X!Spec /\ [](part = "experiments"))
<1>1. InitAll /\ part = "experiments" => X!Init
  BY DEF InitAll
<1>2. part = "experiments" /\ [NextAll]_varsAll => [X!Next]_(X!vars)
  BY DEF NextAll, Only, varsAll, experimentVars, X!vars
<1>3. part = "experiments" /\ [NextAll]_varsAll => (part = "experiments")'
  BY PartStays
<1>4. ~ (part = "experiments") /\ [NextAll]_varsAll => (~ (part = "experiments"))'
  BY PartStays
<1>5. QED BY <1>1, <1>2, <1>3, <1>4, PTL DEF SpecAll, X!Spec

LEMMA KnowledgePart ==
  SpecAll => []~ (part = "knowledge") \/ (K!Spec /\ [](part = "knowledge"))
<1>1. InitAll /\ part = "knowledge" => K!Init
  BY DEF InitAll
<1>2. part = "knowledge" /\ [NextAll]_varsAll => [K!Next]_(K!vars)
  BY DEF NextAll, Only, varsAll, knowledgeVars, K!vars
<1>3. part = "knowledge" /\ [NextAll]_varsAll => (part = "knowledge")'
  BY PartStays
<1>4. ~ (part = "knowledge") /\ [NextAll]_varsAll => (~ (part = "knowledge"))'
  BY PartStays
<1>5. QED BY <1>1, <1>2, <1>3, <1>4, PTL DEF SpecAll, K!Spec

LEMMA SelectionPart ==
  SpecAll => []~ (part = "selection") \/ (I!Spec /\ [](part = "selection"))
<1>1. InitAll /\ part = "selection" => I!Init
  BY DEF InitAll
<1>2. part = "selection" /\ [NextAll]_varsAll => [I!Next]_(I!vars)
  BY DEF NextAll, Only, varsAll, intakeVars, I!vars
<1>3. part = "selection" /\ [NextAll]_varsAll => (part = "selection")'
  BY PartStays
<1>4. ~ (part = "selection") /\ [NextAll]_varsAll => (~ (part = "selection"))'
  BY PartStays
<1>5. QED BY <1>1, <1>2, <1>3, <1>4, PTL DEF SpecAll, I!Spec

LEMMA TargetingPart ==
  SpecAll => []~ (part = "targeting") \/ (T!Spec /\ [](part = "targeting"))
<1>1. InitAll /\ part = "targeting" => T!Init
  BY DEF InitAll
<1>2. part = "targeting" /\ [NextAll]_varsAll => [T!Next]_(T!targetVars)
  BY DEF NextAll, Only, varsAll, targetVars, T!targetVars
<1>3. part = "targeting" /\ [NextAll]_varsAll => (part = "targeting")'
  BY PartStays
<1>4. ~ (part = "targeting") /\ [NextAll]_varsAll => (~ (part = "targeting"))'
  BY PartStays
<1>5. QED BY <1>1, <1>2, <1>3, <1>4, PTL DEF SpecAll, T!Spec

LEMMA InboxPart ==
  SpecAll => []~ (part = "inbox") \/ (C!Spec /\ [](part = "inbox"))
<1>1. InitAll /\ part = "inbox" => C!Init
  BY DEF InitAll
<1>2. part = "inbox" /\ [NextAll]_varsAll => [C!Next]_(C!inboxVars)
  BY DEF NextAll, Only, varsAll, chatVars, C!inboxVars
<1>3. part = "inbox" /\ [NextAll]_varsAll => (part = "inbox")'
  BY PartStays
<1>4. ~ (part = "inbox") /\ [NextAll]_varsAll => (~ (part = "inbox"))'
  BY PartStays
<1>5. QED BY <1>1, <1>2, <1>3, <1>4, PTL DEF SpecAll, C!Spec

LEMMA DraftingPart ==
  SpecAll => []~ (part = "drafting") \/ (G!Spec /\ [](part = "drafting"))
<1>1. InitAll /\ part = "drafting" => G!Init
  BY DEF InitAll
<1>2. part = "drafting" /\ [NextAll]_varsAll => [G!Next]_(G!vars)
  BY DEF NextAll, Only, varsAll, draftVars, G!vars
<1>3. part = "drafting" /\ [NextAll]_varsAll => (part = "drafting")'
  BY PartStays
<1>4. ~ (part = "drafting") /\ [NextAll]_varsAll => (~ (part = "drafting"))'
  BY PartStays
<1>5. QED BY <1>1, <1>2, <1>3, <1>4, PTL DEF SpecAll, G!Spec

\* aggregate, recycle and auto_ingest, whatever runs beside them: a score falls only
\* after a fetch that failed and reactions give a score, lines of recycled posts end while
\* their counts are kept, and a post becomes one document.
THEOREM LearningAlwaysHolds ==
  ASSUME ContentAssumption PROVE SpecAll => []LearningHolds
<1>1. E!Spec => []E!ScoresFallByFailure
  BY ScoresFallOnFailures DEF ContentAssumption
<1>2. E!Spec => []E!ReactionsCount
  BY ReactionsAreCounted DEF ContentAssumption
<1>3. E!Spec => []E!BestWasTrue
  BY BestScoresWereTrue DEF ContentAssumption
<1>4. R!Spec => []R!LinesEnd
  BY RecycledLinesEnd DEF ContentAssumption
<1>5. R!Spec => []R!OneCopyPerRun
  BY OneCopyARun DEF ContentAssumption
<1>6. K!Spec => []K!IngestedOnce
  BY PostsAreIngestedOnce DEF ContentAssumption
<1>7. /\ ~ (part = "engagement") \/ (E!ScoresFallByFailure /\ E!ReactionsCount /\ E!BestWasTrue)
      /\ ~ (part = "recycling") \/ (R!LinesEnd /\ R!OneCopyPerRun)
      /\ ~ (part = "knowledge") \/ K!IngestedOnce
      => LearningHolds
  BY DEF LearningHolds
<1>8. QED
  BY <1>1, <1>2, <1>3, <1>4, <1>5, <1>6, <1>7, EngagementPart, RecyclingPart, KnowledgePart, PTL

\* publish, _resolve_targets and the agents, whatever runs beside them: approved runs post to
\* the accounts that were reviewed, what nobody approved has no flagged wording, and a draft is
\* on its platform once but for answers that were lost.
THEOREM PublishingAlwaysHolds ==
  ASSUME ContentAssumption PROVE SpecAll => []PublishingHolds
<1>1. T!Spec => []T!SameAccounts
  BY RunsPostWhatWasReviewed DEF ContentAssumption
<1>2. T!Spec => []T!NeverSilent
  BY RunsAreNotSilent DEF ContentAssumption
<1>3. G!Spec => []G!FlaggedNeedsHuman
  BY FlaggedWaitsForPeople DEF ContentAssumption
<1>4. G!Spec => []G!DenylistHolds
  BY DeniedPlatformsGetNothing DEF ContentAssumption
<1>5. G!Spec => []G!RevisionsEnd
  BY AttemptsEnd DEF ContentAssumption
<1>6. G!Spec => [](G!LinksKept /\ G!MediaFits)
  BY DraftsKeepLinksAndMedia DEF ContentAssumption
<1>7. G!Spec => []G!OncePerAccount
  BY AccountsGetOnePost DEF ContentAssumption
<1>8. G!Spec => []G!SeenIsSent
  BY WhatIsSeenIsSent DEF ContentAssumption
<1>9. A!Spec => [](A!OnceUnlessLost /\ A!ReturnedIsPosted)
  BY PostsAreOnce DEF ContentAssumption
<1>10. A!Spec => []A!NeverEarly
  BY ContainersFinishFirst DEF ContentAssumption
<1>11. A!Spec => []A!MediaDropsAreKnown
  BY MediaIsKept DEF ContentAssumption
<1>12. A!Spec => []A!LengthIsBounded
  BY TextsKeepTheirLength DEF ContentAssumption
<1>13. /\ ~ (part = "targeting") \/ (T!SameAccounts /\ T!NeverSilent)
       /\ ~ (part = "drafting")
          \/ (/\ G!FlaggedNeedsHuman /\ G!DenylistHolds /\ G!RevisionsEnd
              /\ G!LinksKept /\ G!MediaFits /\ G!OncePerAccount /\ G!SeenIsSent)
       /\ ~ (part = "publishing")
          \/ (/\ A!OnceUnlessLost /\ A!ReturnedIsPosted /\ A!NeverEarly
              /\ A!MediaDropsAreKnown /\ A!LengthIsBounded)
       => PublishingHolds
  BY DEF PublishingHolds
<1>14. QED
  BY <1>1, <1>2, <1>3, <1>4, <1>5, <1>6, <1>7, <1>8, <1>9, <1>10, <1>11, <1>12, <1>13,
     TargetingPart, DraftingPart, PublishingPart, PTL

\* _run_selection, approvals, start() and the chat webhook, whatever runs beside them: no item
\* goes out in two runs and rotation serves every source, an approval is earned and a rejection
\* final, rows of experiments stand for nothing sent, and chats decide their own drafts.
THEOREM DecisionsAlwaysHold ==
  ASSUME ContentAssumption PROVE SpecAll => []DecisionsHold
<1>1. I!Spec => []I!NeverTwice
  BY ItemsAreNeverTwice DEF ContentAssumption
<1>2. I!Spec => []I!RowsAreOut
  BY ClaimedRowsAreOut DEF ContentAssumption
<1>3. I!Spec => []I!RotationServesAll
  BY RotationIsFair DEF ContentAssumption
<1>4. I!Spec => []I!TraceIsComplete
  BY TracesTellAll DEF ContentAssumption
<1>5. V!Spec => []V!ApprovedIsEarned
  BY ApprovalsAreEarned DEF ContentAssumption
<1>6. V!Spec => []V!RejectionIsLast
  BY RejectionsAreFinal DEF ContentAssumption
<1>7. V!Spec => []V!WaitsForSomebody
  BY OpenRequestsWait DEF ContentAssumption
<1>8. X!Spec => []X!ClosedStays
  BY ClosedExperimentsStay DEF ContentAssumption
<1>9. X!Spec => []X!RowsAreEmpty
  BY RowsStandForNothing DEF ContentAssumption
<1>10. C!Spec => []C!OwnChat
  BY ChatsDecideTheirOwn DEF ContentAssumption
<1>11. C!Spec => []C!LabelsAreNoFeedback
  BY ReviseAsksFirst DEF ContentAssumption
<1>12. C!Spec => []C!TapsAreKept
  BY TapsSurviveDeaths DEF ContentAssumption
<1>13. C!Spec => []C!BriefPictureStays
  BY BriefsKeepTheirPicture DEF ContentAssumption
<1>14. /\ ~ (part = "selection")
          \/ (I!NeverTwice /\ I!RowsAreOut /\ I!RotationServesAll /\ I!TraceIsComplete)
       /\ ~ (part = "approval")
          \/ (V!ApprovedIsEarned /\ V!RejectionIsLast /\ V!WaitsForSomebody)
       /\ ~ (part = "experiments") \/ (X!ClosedStays /\ X!RowsAreEmpty)
       /\ ~ (part = "inbox")
          \/ (C!OwnChat /\ C!LabelsAreNoFeedback /\ C!TapsAreKept /\ C!BriefPictureStays)
       => DecisionsHold
  BY DEF DecisionsHold
<1>15. QED
  BY <1>1, <1>2, <1>3, <1>4, <1>5, <1>6, <1>7, <1>8, <1>9, <1>10, <1>11, <1>12, <1>13, <1>14,
     SelectionPart, ApprovalPart, ExperimentsPart, InboxPart, PTL

\* The part a behaviour is about is one of them.
LEMMA PartIsKnown ==
  ASSUME ContentAssumption
  PROVE  SpecAll => [](part \in {"campaigns", "publishing", "engagement", "recycling",
                                 "approval", "experiments", "knowledge", "selection",
                                 "targeting", "inbox", "drafting"})
<1> DEFINE Known(p) == p \in {"campaigns", "publishing", "engagement", "recycling",
                              "approval", "experiments", "knowledge", "selection",
                              "targeting", "inbox", "drafting"}
<1>1. InitAll => Known(part)
  BY DEF InitAll, ContentAssumption
<1>2. Known(part) /\ [NextAll]_varsAll => Known(part)'
  BY PartStays
<1>3. QED BY <1>1, <1>2, PTL DEF SpecAll

\* Every part keeps its types, for any size.
THEOREM ContentTypes ==
  ASSUME ContentAssumption PROVE SpecAll => []TypesHold
<1> DEFINE Known == part \in {"campaigns", "publishing", "engagement", "recycling",
                              "approval", "experiments", "knowledge", "selection",
                              "targeting", "inbox", "drafting"}
<1>1. Spec => []TypeOK
  BY CampaignTypes
<1>2. A!Spec => []A!TypeOK
  BY AdapterTypes DEF ContentAssumption
<1>3. E!Spec => []E!TypeOK
  BY EngagementTypes DEF ContentAssumption
<1>4. R!Spec => []R!TypeOK
  BY RecycleTypes DEF ContentAssumption
<1>5. V!Spec => []V!TypeOK
  BY ApprovalTypes DEF ContentAssumption
<1>6. X!Spec => []X!TypeOK
  BY ExperimentsAreTyped DEF ContentAssumption
<1>7. K!Spec => []K!TypeOK
  BY KnowledgeTypes DEF ContentAssumption
<1>8. I!Spec => []I!TypeOK
  BY IntakeTypes DEF ContentAssumption
<1>9. T!Spec => []T!TypeOK
  BY TargetingTypes DEF ContentAssumption
<1>10. C!Spec => []C!TypeOK
  BY InboxTypes DEF ContentAssumption
<1>11. G!Spec => []G!TypeOK
  BY DraftingTypes DEF ContentAssumption
<1>12. SpecAll => []Known
  BY PartIsKnown
<1>13. /\ Known /\ TypeOK
       /\ ~ (part = "publishing") \/ A!TypeOK
       /\ ~ (part = "engagement") \/ E!TypeOK
       /\ ~ (part = "recycling") \/ R!TypeOK
       /\ ~ (part = "approval") \/ V!TypeOK
       /\ ~ (part = "experiments") \/ X!TypeOK
       /\ ~ (part = "knowledge") \/ K!TypeOK
       /\ ~ (part = "selection") \/ I!TypeOK
       /\ ~ (part = "targeting") \/ T!TypeOK
       /\ ~ (part = "inbox") \/ C!TypeOK
       /\ ~ (part = "drafting") \/ G!TypeOK
       => TypesHold
  BY DEF TypesHold
<1> HIDE DEF Known
<1>14. QED
  BY <1>1, <1>2, <1>3, <1>4, <1>5, <1>6, <1>7, <1>8, <1>9, <1>10, <1>11, <1>12, <1>13,
     CampaignsPart, PublishingPart, EngagementPart, RecyclingPart, ApprovalPart,
     ExperimentsPart, KnowledgePart, SelectionPart, TargetingPart, InboxPart, DraftingPart, PTL
=============================================================================
