-------------------------- MODULE ItemLedgerProofs --------------------------
(***************************************************************************)
(* What holds of the ledger for any number of runs, items and accounts,    *)
(* whatever fails: an item is used again only after it was made new, a     *)
(* claim is ended by its owner, and an item whose post is out stays        *)
(* consumed.                                                               *)
(***************************************************************************)
EXTENDS ItemLedger, FiniteSetTheorems, TLAPS

Early == {"fetching", "selecting", "claiming"}
Unpublished == Early \cup {"drafting", "linking", "deciding", "reviewing"}

RunRecord == [pc : Steps, mode : Modes, todo : SUBSET Items, kept : SUBSET Items,
              drafted : Seq(Units)]

LEMMA RunUpdates ==
  ASSUME NEW f \in [Runs -> RunRecord], NEW r \in Runs
  PROVE  /\ \A pc \in Steps : [f EXCEPT ![r].pc = pc] \in [Runs -> RunRecord]
         /\ \A t \in SUBSET Items : [f EXCEPT ![r].todo = t] \in [Runs -> RunRecord]
         /\ \A pc \in Steps, t \in SUBSET Items :
              [f EXCEPT ![r].pc = pc, ![r].todo = t] \in [Runs -> RunRecord]
         /\ \A t, k \in SUBSET Items :
              [f EXCEPT ![r].todo = t, ![r].kept = k] \in [Runs -> RunRecord]
         /\ \A t \in SUBSET Items, d \in Seq(Units) :
              [f EXCEPT ![r].todo = t, ![r].drafted = d] \in [Runs -> RunRecord]
         /\ \A pc \in Steps, t \in SUBSET Items, d \in Seq(Units) :
              [f EXCEPT ![r].pc = pc, ![r].todo = t, ![r].drafted = d] \in [Runs -> RunRecord]
  BY DEF RunRecord

LEMMA RunTypes ==
  ASSUME TypeOK, ItemLedgerAssumption, NEW r \in Runs,
         Selection(r) \/ Drafting(r) \/ Publishing(r) \/ Crash(r)
  PROVE  run' \in [Runs -> RunRecord]
<1>a. run \in [Runs -> RunRecord]
  BY DEF TypeOK, RunRecord
<1>b. /\ run[r].todo \in SUBSET Items /\ run[r].kept \in SUBSET Items
      /\ run[r].drafted \in Seq(Units)
  BY DEF TypeOK
<1>g. ASSUME NEW pc \in Steps, Goto(r, pc) PROVE run' \in [Runs -> RunRecord]
  BY <1>a, <1>g, RunUpdates DEF Goto
<1>s. /\ {"fetching", "selecting", "claiming", "drafting", "linking", "deciding"} \subseteq Steps
      /\ {"reviewing", "approved", "publishing", "failing", "rejected", "dead"} \subseteq Steps
      /\ {"succeeded", "failed", "cancelled"} \subseteq Steps
  BY DEF Steps
<1>1. CASE Fetch(r)
  BY <1>1, <1>g, <1>s DEF Fetch
<1>2. CASE Select(r)
  <2>1. PICK chosen \in SUBSET Items :
          run' = [run EXCEPT ![r].pc = "claiming", ![r].todo = chosen]
    BY <1>2 DEF Select, Offered
  <2> QED BY <2>1, <1>a, <1>s, RunUpdates
<1>3. ASSUME NEW i \in Items, Claim(r, i) PROVE run' \in [Runs -> RunRecord]
  <2>1. run[r].todo \ {i} \in SUBSET Items /\ run[r].kept \cup {i} \in SUBSET Items
    BY <1>b
  <2>2. CASE Claimable(i)
    <3>1. run' = [run EXCEPT ![r].todo = run[r].todo \ {i}, ![r].kept = run[r].kept \cup {i}]
      BY <1>3, <2>2, <1>a DEF Claim, RunRecord
    <3> QED BY <3>1, <2>1, <1>a, RunUpdates
  <2>3. CASE ~Claimable(i)
    <3>1. run' = [run EXCEPT ![r].todo = run[r].todo \ {i}]
      BY <1>3, <2>3, <1>a DEF Claim, RunRecord
    <3> QED BY <3>1, <2>1, <1>a, RunUpdates
  <2> QED BY <2>2, <2>3
<1>4. CASE EndClaims(r)
  <2>1. CASE run[r].kept = {}
    BY <1>4, <2>1, <1>g, <1>s DEF EndClaims
  <2>2. CASE run[r].kept # {}
    <3>1. run' = [run EXCEPT ![r].pc = "drafting", ![r].todo = run[r].kept]
      BY <1>4, <2>2 DEF EndClaims
    <3> QED BY <3>1, <1>a, <1>b, <1>s, RunUpdates
  <2> QED BY <2>1, <2>2
<1>5. ASSUME NEW i \in Items, DraftItem(r, i) PROVE run' \in [Runs -> RunRecord]
  <2>1. run[r].todo \ {i} \in SUBSET Items /\ Append(run[r].drafted, i) \in Seq(Units)
    BY <1>b DEF Units
  <2>2. PICK pc \in Steps :
          run' = [run EXCEPT ![r].pc = pc, ![r].todo = run[r].todo \ {i},
                             ![r].drafted = Append(run[r].drafted, i)]
    <3>1. run' = [run EXCEPT ![r].pc = IF IsLinked(r) THEN "linking" ELSE "drafting",
                             ![r].todo = run[r].todo \ {i},
                             ![r].drafted = Append(run[r].drafted, i)]
      BY <1>5, <1>a DEF DraftItem, RunRecord
    <3> QED BY <3>1, <1>s
  <2> QED BY <2>2, <2>1, <1>a, RunUpdates
<1>6. CASE DraftMerged(r)
  <2>1. {} \in SUBSET Items /\ <<Merged>> \in Seq(Units)
    BY DEF Units
  <2> QED BY <1>6, <2>1, <1>a, RunUpdates DEF DraftMerged
<1>7. ASSUME NEW i \in Items, SkipRow(r, i) PROVE run' \in [Runs -> RunRecord]
  BY <1>7, <1>a, <1>b, RunUpdates DEF SkipRow
<1>8. CASE Link(r)
  BY <1>8, <1>g, <1>s DEF Link
<1>9. CASE EndDrafts(r)
  BY <1>9, <1>g, <1>s DEF EndDrafts
<1>10. CASE Decide(r)
  BY <1>10, <1>g, <1>s DEF Decide
<1>11. ASSUME NEW p \in Posts, Publish(r, p) PROVE run' \in [Runs -> RunRecord]
  BY <1>11, <1>a DEF Publish
<1>12. ASSUME NEW p \in Posts, PublishFails(r, p) PROVE run' \in [Runs -> RunRecord]
  BY <1>12, <1>g, <1>s DEF PublishFails
<1>13. CASE EndPublish(r)
  BY <1>13, <1>g, <1>s DEF EndPublish
<1>14. CASE Review(r)
  BY <1>14, <1>g, <1>s DEF Review
<1>15. CASE Raise(r)
  BY <1>15, <1>g, <1>s DEF Raise
<1>16. CASE Release(r)
  BY <1>16, <1>g, <1>s DEF Release
<1>17. CASE Crash(r)
  BY <1>17, <1>g, <1>s DEF Crash
<1> QED BY <1>1, <1>2, <1>3, <1>4, <1>5, <1>6, <1>7, <1>8, <1>9, <1>10, <1>11, <1>12, <1>13,
           <1>14, <1>15, <1>16, <1>17 DEF Selection, Drafting, Publishing

Step(r) == Selection(r) \/ Drafting(r) \/ Publishing(r) \/ Crash(r)

\* A step of a run is its own: other runs and their posts stay, and it is a claim
\* that adds to the items of a run, and a draft to its drafts.
LEMMA RunFrame ==
  ASSUME TypeOK, NEW r \in Runs, Step(r)
  PROVE  /\ \A q \in Runs \ {r} : run'[q] = run[q]
         /\ run'[r].mode = run[r].mode
         /\ ~At(r, "claiming") => run'[r].kept = run[r].kept
         /\ ~At(r, "drafting") => run'[r].drafted = run[r].drafted
<1> USE DEF At
<1>a. run \in [Runs -> RunRecord]
  BY DEF TypeOK, RunRecord
<1>g. ASSUME NEW pc, Goto(r, pc)
      PROVE  /\ \A q \in Runs \ {r} : run'[q] = run[q]
             /\ run'[r] = [run[r] EXCEPT !.pc = pc]
  BY <1>a, <1>g DEF Goto
<1>h. ASSUME NEW pc, Goto(r, pc)
      PROVE  /\ \A q \in Runs \ {r} : run'[q] = run[q]
             /\ run'[r].mode = run[r].mode /\ run'[r].kept = run[r].kept
             /\ run'[r].drafted = run[r].drafted
  BY <1>a, <1>g, <1>h DEF RunRecord
<1>1. CASE Fetch(r)
  BY <1>1, <1>h DEF Fetch
<1>2. CASE Select(r)
  BY <1>2, <1>a DEF Select, RunRecord
<1>3. CASE \E i \in Items : Claim(r, i)
  BY <1>3, <1>a DEF Claim, RunRecord
<1>4. CASE EndClaims(r)
  BY <1>4, <1>h, <1>a DEF EndClaims, RunRecord
<1>5. CASE \E i \in Items : DraftItem(r, i)
  BY <1>5, <1>a DEF DraftItem, RunRecord
<1>6. CASE DraftMerged(r)
  BY <1>6, <1>a DEF DraftMerged, RunRecord
<1>7. CASE \E i \in Items : SkipRow(r, i)
  BY <1>7, <1>a DEF SkipRow, RunRecord
<1>8. CASE Link(r)
  BY <1>8, <1>h DEF Link
<1>9. CASE EndDrafts(r) \/ Decide(r)
  BY <1>9, <1>h DEF EndDrafts, Decide
<1>10. CASE \E p \in Posts : Publish(r, p)
  BY <1>10 DEF Publish
<1>11. CASE \E p \in Posts : PublishFails(r, p)
  BY <1>11, <1>h DEF PublishFails
<1>12. CASE EndPublish(r) \/ Review(r) \/ Raise(r)
  BY <1>12, <1>h DEF EndPublish, Review, Raise
<1>13. CASE Release(r) \/ Crash(r)
  BY <1>13, <1>h DEF Release, Crash
<1> QED
  BY <1>1, <1>2, <1>3, <1>4, <1>5, <1>6, <1>7, <1>8, <1>9, <1>10, <1>11, <1>12, <1>13
  DEF Step, Selection, Drafting, Publishing

LEMMA PostFrame ==
  ASSUME TypeOK, NEW r \in Runs, Step(r)
  PROVE  /\ \A p \in Posts : p.run # r => post'[p] = post[p]
         /\ run[r].pc \in Early \cup {"linking"} => post' = post
         /\ post' \in [Posts -> PostStatus]
<1> USE DEF TypeOK, At, PostStatus
<1>1. CASE Selection(r)
  BY <1>1 DEF Selection, Fetch, Select, Claim, EndClaims
<1>2. CASE Drafting(r)
  <2>1. ASSUME NEW u, Persist(r, u)
        PROVE  /\ \A p \in Posts : p.run # r => post'[p] = post[p]
               /\ post' \in [Posts -> PostStatus]
    BY <2>1 DEF Persist
  <2>2. CASE \E i \in Items : DraftItem(r, i)
    BY <2>1, <2>2 DEF DraftItem, Early
  <2>3. CASE DraftMerged(r)
    BY <2>1, <2>3 DEF DraftMerged, Early
  <2>4. CASE (\E i \in Items : SkipRow(r, i)) \/ Link(r) \/ EndDrafts(r) \/ Decide(r)
    BY <2>4 DEF SkipRow, Link, EndDrafts, Decide
  <2> QED BY <1>2, <2>2, <2>3, <2>4 DEF Drafting
<1>3. ASSUME NEW p \in Posts, Publish(r, p) \/ PublishFails(r, p)
      PROVE  /\ \A q \in Posts : q.run # r => post'[q] = post[q]
             /\ run[r].pc \in Early \cup {"linking"} => post' = post
             /\ post' \in [Posts -> PostStatus]
  BY <1>3 DEF Publish, PublishFails, PostsOf, Early
<1>4. CASE Review(r)
  BY <1>4 DEF Review, PostsOf, Early
<1>5. CASE EndPublish(r) \/ Raise(r) \/ Release(r) \/ Crash(r)
  BY <1>5 DEF EndPublish, Raise, Release, Crash
<1> QED BY <1>1, <1>2, <1>3, <1>4, <1>5 DEF Step, Publishing

\* The rows a step leaves: registered, claimed, linked or made new.
LEMMA LedgerFrame ==
  ASSUME TypeOK, NEW r \in Runs, Step(r)
  PROVE  \A i \in Items :
           \/ ledger'[i] = ledger[i]
           \/ Fetch(r) /\ ledger[i].status = "absent" /\ ledger'[i] = NewRow
           \/ /\ Claim(r, i) /\ Claimable(i)
              /\ ledger'[i].status = "consumed" /\ ledger'[i].run = r /\ ledger'[i].link = None
           \/ \E p \in PostsOf(r) :
                 /\ At(r, "linking") /\ Goto(r, "drafting") /\ post' = post
                 /\ p.unit = Last(run[r].drafted) /\ p.unit = i
                 /\ ledger'[i] = [ledger[i] EXCEPT !.link = p]
           \/ Release(r) /\ i \in Freeable(r) /\ ledger'[i] = NewRow
<1> USE DEF TypeOK, Row
<1>1. CASE Selection(r)
  <2>1. CASE Fetch(r)
    BY <2>1 DEF Fetch, Registered
  <2>2. ASSUME NEW i \in Items, Claim(r, i), NEW j \in Items
        PROVE  \/ ledger'[j] = ledger[j]
               \/ /\ Claim(r, j) /\ Claimable(j)
                  /\ ledger'[j].status = "consumed" /\ ledger'[j].run = r /\ ledger'[j].link = None
    <3>1. CASE ~Claimable(i)
      BY <2>2, <3>1 DEF Claim
    <3>2. CASE Claimable(i)
      <4>1. ledger' = [ledger EXCEPT ![i].status = "consumed", ![i].run = r, ![i].link = None]
        BY <2>2, <3>2 DEF Claim
      <4>2. CASE j = i
        <5>1. ledger[i] \in Row
          OBVIOUS
        <5>2. /\ ledger'[i].status = "consumed" /\ ledger'[i].run = r
              /\ ledger'[i].link = None
          BY <4>1, <5>1
        <5> QED BY <2>2, <3>2, <4>2, <5>2
      <4>3. CASE j # i
        BY <4>1, <4>3
      <4> QED BY <4>2, <4>3
    <3> QED BY <3>1, <3>2
  <2>3. CASE Select(r) \/ EndClaims(r)
    BY <2>3 DEF Select, EndClaims
  <2> QED BY <1>1, <2>1, <2>2, <2>3 DEF Selection
<1>2. CASE Drafting(r)
  <2>1. CASE Link(r)
    <3>1. PICK p \in PostsOf(r) : /\ p.unit = Last(run[r].drafted)
                                  /\ ledger' = [ledger EXCEPT ![p.unit].link = p]
      BY <2>1 DEF Link
    <3>2. At(r, "linking") /\ Goto(r, "drafting") /\ post' = post
      BY <2>1 DEF Link
    <3>3. \A i \in Items : i # p.unit => ledger'[i] = ledger[i]
      BY <3>1
    <3>4. \A i \in Items : i = p.unit => ledger'[i] = [ledger[i] EXCEPT !.link = p]
      BY <3>1
    <3> QED BY <3>1, <3>2, <3>3, <3>4
  <2>2. CASE Drafting(r) /\ ~Link(r)
    BY <2>2 DEF Drafting, DraftItem, SkipRow, DraftMerged, EndDrafts, Decide
  <2> QED BY <1>2, <2>1, <2>2
<1>3. CASE Publishing(r)
  <2>1. CASE Release(r)
    BY <2>1 DEF Release, Free
  <2>2. CASE Publishing(r) /\ ~Release(r)
    BY <2>2 DEF Publishing, Publish, PublishFails, EndPublish, Review, Raise
  <2> QED BY <1>3, <2>1, <2>2
<1>4. CASE Crash(r)
  BY <1>4 DEF Crash
<1> QED BY <1>1, <1>2, <1>3, <1>4 DEF Step

-----------------------------------------------------------------------------
(* The inductive invariant.                                                *)

\* A run has posts only after it claimed, they are in review until it publishes,
\* and each is of an item the run claimed, unless it is merged or a row of a CMS.
ShapeOf(r) ==
    /\ run[r].pc \in Early => run[r].drafted = <<>> /\ PostsOf(r) = {}
    /\ run[r].pc \in Unpublished => \A p \in PostsOf(r) : post[p] = "review"
    /\ run[r].pc \in {"drafting", "linking"} => run[r].todo \subseteq run[r].kept
    /\ At(r, "linking") =>
         IsLinked(r) /\ run[r].drafted # <<>> /\ Last(run[r].drafted) \in run[r].kept
    /\ run[r].pc \in {"deciding", "reviewing", "publishing", "approved"} =>
         run[r].drafted # <<>>
    /\ \A p \in PostsOf(r) :
         p.draft \in DraftsOf(r) /\ (IsLinked(r) => p.unit \in run[r].kept)
Shape == \A r \in Runs : ShapeOf(r)

LEMMA ShapeKept ==
  ASSUME TypeOK, ItemLedgerAssumption, NEW r \in Runs, ShapeOf(r), Step(r), run' \in [Runs -> RunRecord]
  PROVE  ShapeOf(r)'
<1> USE DEF At
<1>a. run \in [Runs -> RunRecord]
  BY DEF TypeOK, RunRecord
<1>f. /\ run'[r].mode = run[r].mode
      /\ ~At(r, "claiming") => run'[r].kept = run[r].kept
      /\ ~At(r, "drafting") => run'[r].drafted = run[r].drafted
      /\ run[r].pc \in Early \cup {"linking"} => post' = post
  BY RunFrame, PostFrame
<1>g. ASSUME NEW pc, Goto(r, pc)
      PROVE  run'[r].pc = pc /\ run'[r].todo = run[r].todo /\ run'[r].kept = run[r].kept
             /\ run'[r].drafted = run[r].drafted
  BY <1>a, <1>g DEF Goto, RunRecord
<1>l. run'[r].kept = run[r].kept => IsLinked(r)' = IsLinked(r) /\ DraftsOf(r)' = DraftsOf(r)
  BY <1>f DEF IsLinked, IsMerged, DraftsOf
<1>p. post' = post => PostsOf(r)' = PostsOf(r)
  BY DEF PostsOf
<1>1. CASE Fetch(r)
  <2>1. run'[r].pc = "selecting"
    BY <1>1, <1>g DEF Fetch
  <2> QED BY <1>1, <2>1, <1>f, <1>l, <1>p DEF Fetch, ShapeOf, Early, Unpublished
<1>2. CASE Select(r)
  <2>1. run'[r].pc = "claiming"
    BY <1>2, <1>a DEF Select, RunRecord
  <2> QED BY <1>2, <2>1, <1>f, <1>l, <1>p DEF Select, ShapeOf, Early, Unpublished
<1>3. CASE \E i \in Items : Claim(r, i)
  <2>1. run'[r].pc = "claiming" /\ At(r, "claiming")
    BY <1>3, <1>a DEF Claim, RunRecord
  <2> QED BY <2>1, <1>f, <1>p DEF ShapeOf, Early, Unpublished
<1>4. CASE EndClaims(r)
  <2>1. run'[r].kept = run[r].kept /\ At(r, "claiming")
        /\ (run'[r].pc = "succeeded" \/ (run'[r].pc = "drafting" /\ run'[r].todo = run[r].kept))
    <3>1. CASE run[r].kept = {}
      BY <1>4, <3>1, <1>g DEF EndClaims
    <3>2. CASE run[r].kept # {}
      BY <1>4, <3>2, <1>a DEF EndClaims, RunRecord
    <3> QED BY <3>1, <3>2
  <2> QED BY <2>1, <1>f, <1>l, <1>p DEF ShapeOf, Early, Unpublished
<1>5. ASSUME NEW i \in Items, DraftItem(r, i) PROVE ShapeOf(r)'
  <2>1. /\ At(r, "drafting") /\ i \in run[r].todo
        /\ run'[r].pc = IF IsLinked(r) THEN "linking" ELSE "drafting"
        /\ run'[r].todo = run[r].todo \ {i}
        /\ run'[r].drafted = Append(run[r].drafted, i)
    BY <1>5, <1>a DEF DraftItem, RunRecord
  <2>2. i \in run[r].kept /\ run[r].drafted \in Seq(Units) /\ i \in Units
    BY <2>1, <1>a DEF ShapeOf, RunRecord, Units
  <2>3. run'[r].drafted # <<>> /\ Last(run'[r].drafted) = i
    BY <2>1, <2>2 DEF Last
  <2>4. \A p \in PostsOf(r)' : /\ post'[p] = "review"
                               /\ p \in PostsOf(r) \/ (p.unit = i /\ p.draft \in DraftsOf(r))
    BY <1>5, <2>1 DEF DraftItem, Persist, PostsOf, TypeOK, ShapeOf, Unpublished
  <2> QED BY <2>1, <2>2, <2>3, <2>4, <1>f, <1>l DEF ShapeOf, Early
<1>6. CASE DraftMerged(r)
  <2>1. /\ At(r, "drafting") /\ IsMerged(r)
        /\ run'[r].pc = "drafting" /\ run'[r].todo = {} /\ run'[r].drafted = <<Merged>>
    BY <1>6, <1>a DEF DraftMerged, RunRecord
  <2>2. ~IsLinked(r)
    BY <2>1 DEF IsLinked
  <2>4. \A p \in PostsOf(r)' : post'[p] = "review" /\ (p \in PostsOf(r) \/ p.draft \in DraftsOf(r))
    BY <1>6, <2>1 DEF DraftMerged, Persist, PostsOf, TypeOK, ShapeOf, Unpublished
  <2> QED BY <2>1, <2>2, <2>4, <1>f, <1>l DEF ShapeOf, Early
<1>7. CASE \E i \in Items : SkipRow(r, i)
  <2>1. At(r, "drafting") /\ run'[r].pc = "drafting" /\ run'[r].todo \subseteq run[r].todo
        /\ run'[r].drafted = run[r].drafted /\ post' = post
    BY <1>7, <1>a DEF SkipRow, RunRecord
  <2> QED BY <2>1, <1>f, <1>l, <1>p DEF ShapeOf, Early, Unpublished
<1>8. CASE Link(r)
  <2>1. At(r, "linking") /\ run'[r].pc = "drafting" /\ run'[r].todo = run[r].todo
    BY <1>8, <1>g DEF Link
  <2> QED BY <2>1, <1>f, <1>l, <1>p DEF ShapeOf, Early, Unpublished
<1>9. CASE EndDrafts(r)
  <2>1. /\ At(r, "drafting") /\ run'[r].drafted = run[r].drafted /\ post' = post
        /\ run'[r].pc = IF run[r].drafted = <<>> THEN "succeeded" ELSE "deciding"
    BY <1>9, <1>g DEF EndDrafts
  <2> QED BY <2>1, <1>f, <1>l, <1>p DEF ShapeOf, Early, Unpublished
<1>10. CASE Decide(r)
  <2>1. /\ At(r, "deciding") /\ post' = post
        /\ run'[r].pc \in {"publishing", "reviewing"}
    BY <1>10, <1>g DEF Decide
  <2> QED BY <2>1, <1>f, <1>l, <1>p DEF ShapeOf, Early, Unpublished
<1>11. ASSUME NEW p \in Posts, Publish(r, p) \/ PublishFails(r, p) PROVE ShapeOf(r)'
  <2>1. /\ run[r].pc \in {"publishing", "approved"}
        /\ run'[r].pc \in {"publishing", "approved", "dead", "failing"}
    BY <1>11, <1>g DEF Publish, PublishFails
  <2>2. PostsOf(r)' = PostsOf(r)
    BY <1>11 DEF Publish, PublishFails, PostsOf, TypeOK
  <2> QED BY <2>1, <2>2, <1>f, <1>l DEF ShapeOf, Early, Unpublished
<1>12. CASE Review(r)
  <2>1. At(r, "reviewing") /\ run'[r].pc \in {"approved", "rejected"}
    BY <1>12, <1>g DEF Review
  <2>2. PostsOf(r)' = PostsOf(r)
    BY <1>12 DEF Review, PostsOf, TypeOK
  <2> QED BY <2>1, <2>2, <1>f, <1>l DEF ShapeOf, Early, Unpublished
<1>13. CASE EndPublish(r) \/ Raise(r) \/ Release(r) \/ Crash(r)
  <2>1. /\ run'[r].pc \in {"succeeded", "failing", "failed", "cancelled", "dead"}
        /\ run'[r].kept = run[r].kept /\ post' = post
    BY <1>13, <1>g DEF EndPublish, Raise, Release, Crash
  <2> QED BY <2>1, <1>f, <1>l, <1>p DEF ShapeOf, Early, Unpublished
<1> QED
  BY <1>1, <1>2, <1>3, <1>4, <1>5, <1>6, <1>7, <1>8, <1>9, <1>10, <1>11, <1>12, <1>13
  DEF Step, Selection, Drafting, Publishing

\* Every use of an item is paid for: by the row's first life, or by a release or a
\* reset, and a row that is not consumed has one use to give.
Unclaimed(i) == IF ledger[i].status = "consumed" THEN 0 ELSE 1
UsesCounted ==
    \A i \in Items :
       IsFiniteSet(UsersOf(i)) /\ Cardinality(UsersOf(i)) + Unclaimed(i) <= 1 + freed[i]

\* What a run kept is its own until the run gave it back.
Ended(r) == run[r].pc \in {"failed", "cancelled"}
Owns ==
    \A r \in Runs : ~Ended(r) => \A i \in run[r].kept :
       ledger[i].status = "consumed" /\ ledger[i].run = r
LinksOwn == \A i \in Items : ledger[i].link # None => ledger[i].link.run = ledger[i].run

\* The post of an item is linked before its run publishes.
Linked(p) ==
    \/ run[p.run].pc \in {"drafting", "deciding", "reviewing", "publishing", "approved"}
    \/ At(p.run, "linking") /\ p.unit # Last(run[p.run].drafted)
Ready ==
    \A p \in Posts : post[p] # "absent" /\ IsLinked(p.run) /\ Linked(p)
       => ledger[p.unit].link = p
Out ==
    \A p \in Posts : post[p] = "published" /\ IsLinked(p.run)
       => /\ ledger[p.unit].status = "consumed"
          /\ ledger[p.unit].run = p.run /\ ledger[p.unit].link = p

Untouched == resets = 0 => Owns /\ LinksOwn /\ (Cardinality(Accounts) = 1 => Ready /\ Out)

IInv == TypeOK /\ Shape /\ UsesCounted /\ Untouched /\ NothingStranded

-----------------------------------------------------------------------------
(* Types.                                                                  *)

LEMMA RowUpdates ==
  ASSUME NEW S, NEW R, NEW L, NEW f \in [Items -> [status : S, run : R, link : L]],
         NEW s \in S, NEW r \in R, NEW l \in L, NEW i \in Items
  PROVE  [f EXCEPT ![i].status = s, ![i].run = r, ![i].link = l]
           \in [Items -> [status : S, run : R, link : L]]
OBVIOUS

LEMMA LedgerTypes ==
  ASSUME TypeOK, ItemLedgerAssumption, [Next]_vars
  PROVE  ledger' \in [Items -> Row]
<1> USE DEF TypeOK
<1>n. NewRow \in Row
  BY DEF NewRow, Row
<1>1. ASSUME NEW r \in Runs, Selection(r) PROVE ledger' \in [Items -> Row]
  <2>1. CASE Fetch(r)
    BY <2>1, <1>n DEF Fetch, Registered
  <2>2. ASSUME NEW i \in Items, Claim(r, i) PROVE ledger' \in [Items -> Row]
    <3>1. CASE Claimable(i)
      <4>1. [ledger EXCEPT ![i].status = "consumed", ![i].run = r, ![i].link = None]
              \in [Items -> Row]
        <5>1. "consumed" \in {"absent", "new", "consumed"}
          OBVIOUS
        <5> QED BY <5>1, RowUpdates DEF Row
      <4> QED BY <2>2, <3>1, <4>1 DEF Claim
    <3> QED BY <2>2, <3>1 DEF Claim
  <2>3. CASE Select(r) \/ EndClaims(r)
    BY <2>3 DEF Select, EndClaims
  <2> QED BY <1>1, <2>1, <2>2, <2>3 DEF Selection
<1>2. ASSUME NEW r \in Runs, Drafting(r) PROVE ledger' \in [Items -> Row]
  <2>1. CASE Link(r)
    <3>1. PICK p \in Posts : ledger' = [ledger EXCEPT ![p.unit].link = p]
      BY <2>1 DEF Link, PostsOf
    <3>2. [ledger EXCEPT ![p.unit].link = p] \in [Items -> Row]
      BY DEF Row
    <3> QED BY <3>1, <3>2
  <2>2. CASE ~Link(r)
    BY <1>2, <2>2 DEF Drafting, DraftItem, SkipRow, DraftMerged, EndDrafts, Decide
  <2> QED BY <2>1, <2>2
<1>3. ASSUME NEW items, Free(items) PROVE ledger' \in [Items -> Row]
  BY <1>3, <1>n DEF Free
<1>4. ASSUME NEW r \in Runs, Publishing(r) \/ Crash(r) PROVE ledger' \in [Items -> Row]
  BY <1>4, <1>3 DEF Publishing, Publish, PublishFails, EndPublish, Review, Raise, Release, Crash
<1>5. CASE \E i \in Items : Reset(i)
  BY <1>5, <1>3 DEF Reset
<1>6. CASE (\E d \in Durables : DurableSelect(d) \/ DurablePublish(d)) \/ UNCHANGED vars
  BY <1>6 DEF DurableSelect, DurablePublish, vars
<1> QED BY <1>1, <1>2, <1>4, <1>5, <1>6 DEF Next

\* A row names a run exactly while it is consumed.
LEMMA NamesKept ==
  ASSUME TypeOK, ItemLedgerAssumption, [Next]_vars, NEW i \in Items
  PROVE  ledger'[i].run # None <=> ledger'[i].status = "consumed"
<1>n. NewRow.run = None /\ NewRow.status = "new"
  BY DEF NewRow
<1>1. ASSUME NEW r \in Runs, Step(r)
      PROVE  ledger'[i].run # None <=> ledger'[i].status = "consumed"
  <2>1. ASSUME NEW p, ledger'[i] = [ledger[i] EXCEPT !.link = p]
        PROVE  ledger'[i].run = ledger[i].run /\ ledger'[i].status = ledger[i].status
    <3>1. ledger[i] \in Row
      BY DEF TypeOK
    <3> QED BY <2>1, <3>1 DEF Row
  <2>2. CASE ledger'[i] = ledger[i]
    BY <2>2 DEF TypeOK
  <2>3. CASE ledger'[i] = NewRow
    BY <2>3, <1>n
  <2>4. CASE ledger'[i].status = "consumed" /\ ledger'[i].run = r
    BY <2>4 DEF ItemLedgerAssumption
  <2>5. CASE \E p \in PostsOf(r) : ledger'[i] = [ledger[i] EXCEPT !.link = p]
    BY <2>5, <2>1 DEF TypeOK
  <2> QED BY <1>1, <2>2, <2>3, <2>4, <2>5, LedgerFrame
<1>2. CASE \E j \in Items : Reset(j)
  BY <1>2, <1>n DEF Reset, Free, TypeOK
<1>3. CASE (\E d \in Durables : DurableSelect(d) \/ DurablePublish(d)) \/ UNCHANGED vars
  BY <1>3 DEF DurableSelect, DurablePublish, vars, TypeOK
<1> QED BY <1>1, <1>2, <1>3 DEF Next, Step

LEMMA TypeStep ==
  ASSUME TypeOK, Shape, ItemLedgerAssumption, [Next]_vars
  PROVE  TypeOK'
<1>1. ledger' \in [Items -> Row]
  BY LedgerTypes
<1>2. \A i \in Items : ledger'[i].run # None <=> ledger'[i].status = "consumed"
  BY NamesKept
<1>3. post' \in [Posts -> PostStatus]
  <2>1. ASSUME NEW r \in Runs, Step(r) PROVE post' \in [Posts -> PostStatus]
    BY <2>1, PostFrame
  <2>2. CASE \E i \in Items : Reset(i)
    BY <2>2 DEF Reset, TypeOK
  <2>3. CASE (\E d \in Durables : DurableSelect(d) \/ DurablePublish(d)) \/ UNCHANGED vars
    BY <2>3 DEF DurableSelect, DurablePublish, vars, TypeOK
  <2> QED BY <2>1, <2>2, <2>3 DEF Next, Step
<1>4. run' \in [Runs -> RunRecord]
  <2>1. ASSUME NEW r \in Runs, Step(r) PROVE run' \in [Runs -> RunRecord]
    BY <2>1, RunTypes DEF Step
  <2>2. CASE \E i \in Items : Reset(i)
    BY <2>2 DEF Reset, TypeOK, RunRecord
  <2>3. CASE (\E d \in Durables : DurableSelect(d) \/ DurablePublish(d)) \/ UNCHANGED vars
    BY <2>3 DEF DurableSelect, DurablePublish, vars, TypeOK, RunRecord
  <2> QED BY <2>1, <2>2, <2>3 DEF Next, Step
<1>5. durable' \in [Durables -> [pc : {"selecting", "publishing", "done"}, items : SUBSET Items]]
  <2>1. ASSUME NEW r \in Runs, Step(r) PROVE durable' = durable
    BY <2>1 DEF Step, Selection, Fetch, Select, Claim, EndClaims, Drafting, DraftItem, SkipRow,
       Link, DraftMerged, EndDrafts, Decide, Publishing, Publish, PublishFails, EndPublish,
       Review, Raise, Release, Crash
  <2>2. ASSUME NEW d \in Durables, DurableSelect(d)
        PROVE  durable' \in [Durables -> [pc : {"selecting", "publishing", "done"},
                                        items : SUBSET Items]]
    <3>1. PICK chosen \in SUBSET Items :
             durable' = [durable EXCEPT ![d] =
               [pc |-> IF chosen = {} THEN "done" ELSE "publishing", items |-> chosen]]
      BY <2>2 DEF DurableSelect, Offered
    <3> QED BY <3>1 DEF TypeOK
  <2>3. ASSUME NEW d \in Durables, DurablePublish(d)
        PROVE  durable' \in [Durables -> [pc : {"selecting", "publishing", "done"},
                                        items : SUBSET Items]]
    BY <2>3 DEF DurablePublish, TypeOK
  <2>4. CASE (\E i \in Items : Reset(i)) \/ UNCHANGED vars
    BY <2>4 DEF Reset, vars, TypeOK
  <2> QED BY <2>1, <2>2, <2>3, <2>4 DEF Next, Step, TypeOK
<1>6. sent' \in [Posts -> Units \cup {None}]
  <2>1. ASSUME NEW r \in Runs, NEW p \in Posts, Publish(r, p)
        PROVE  sent' \in [Posts -> Units \cup {None}]
    <3>1. p.unit \in Units
      BY DEF Posts
    <3>2. At(r, "publishing") => run[r].drafted # <<>> /\ run[r].drafted \in Seq(Units)
      BY DEF Shape, ShapeOf, TypeOK, At
    <3>3. At(r, "publishing") => Last(run[r].drafted) \in Units
      BY <3>2 DEF Last
    <3>4. TextOf(r, p) \in Units
      BY <2>1, <3>1, <3>3 DEF TextOf, Publish
    <3> QED BY <2>1, <3>4 DEF Publish, TypeOK
  <2>2. ASSUME NEW r \in Runs, Step(r), \A p \in Posts : ~Publish(r, p) PROVE sent' = sent
    BY <2>2 DEF Step, Selection, Fetch, Select, Claim, EndClaims, Drafting, DraftItem, SkipRow,
       Link, DraftMerged, EndDrafts, Decide, Publishing, PublishFails, EndPublish,
       Review, Raise, Release, Crash
  <2>3. CASE (\E i \in Items : Reset(i)) \/ UNCHANGED vars
    BY <2>3 DEF Reset, vars, TypeOK
  <2>4. CASE \E d \in Durables : DurableSelect(d) \/ DurablePublish(d)
    BY <2>4 DEF DurableSelect, DurablePublish, TypeOK
  <2> QED BY <2>1, <2>2, <2>3, <2>4 DEF Next, Step, TypeOK
<1>7. freed' \in [Items -> Nat]
  <2>1. ASSUME NEW items, Free(items) PROVE freed' \in [Items -> Nat]
    BY <2>1 DEF Free, TypeOK
  <2>2. ASSUME NEW r \in Runs, Step(r), ~Release(r) PROVE freed' = freed
    BY <2>2 DEF Step, Selection, Fetch, Select, Claim, EndClaims, Drafting, DraftItem, SkipRow,
       Link, DraftMerged, EndDrafts, Decide, Publishing, Publish, PublishFails, EndPublish,
       Review, Raise, Crash
  <2>3. ASSUME NEW r \in Runs, Release(r) PROVE freed' \in [Items -> Nat]
    BY <2>3, <2>1 DEF Release, TypeOK
  <2>4. CASE (\E i \in Items : Reset(i)) \/ UNCHANGED vars
    BY <2>4, <2>1 DEF Reset, vars, TypeOK
  <2>5. CASE \E d \in Durables : DurableSelect(d) \/ DurablePublish(d)
    BY <2>5 DEF DurableSelect, DurablePublish, TypeOK
  <2> QED BY <2>2, <2>3, <2>4, <2>5 DEF Next, Step, TypeOK
<1>8. errors' \in 0..MaxErrors /\ faults' \in 0..MaxFaults /\ resets' \in 0..MaxResets
  <2>a. /\ errors \in 0..MaxErrors /\ faults \in 0..MaxFaults /\ resets \in 0..MaxResets
        /\ MaxErrors \in Nat /\ MaxFaults \in Nat /\ MaxResets \in Nat
    BY DEF TypeOK, ItemLedgerAssumption
  <2>f. Fault => faults' \in 0..MaxFaults
    BY <2>a DEF Fault
  <2>1. ASSUME NEW r \in Runs, Selection(r) \/ Drafting(r)
        PROVE  errors' = errors /\ resets' = resets /\ faults' \in 0..MaxFaults
    BY <2>a, <2>f, <2>1 DEF Selection, Fetch, Select, Claim, EndClaims, Drafting, DraftItem, SkipRow,
       Link, DraftMerged, EndDrafts, Decide
  <2>2. ASSUME NEW r \in Runs, Publishing(r) \/ Crash(r)
        PROVE  errors' \in 0..MaxErrors /\ resets' = resets /\ faults' \in 0..MaxFaults
    BY <2>a, <2>f, <2>2 DEF Publishing, Publish, PublishFails, EndPublish, Review, Raise, Release, Crash
  <2>3. CASE (\E i \in Items : Reset(i)) \/ UNCHANGED vars
    <3>1. ASSUME resets < MaxResets, resets' = resets + 1 PROVE resets' \in 0..MaxResets
      BY <2>a, <3>1
    <3> QED BY <2>a, <2>3, <3>1 DEF Reset, vars
  <2>4. CASE \E d \in Durables : DurableSelect(d) \/ DurablePublish(d)
    BY <2>a, <2>f, <2>4 DEF DurableSelect, DurablePublish
  <2> QED BY <2>a, <2>1, <2>2, <2>3, <2>4 DEF Next
<1> QED BY <1>1, <1>2, <1>3, <1>4, <1>5, <1>6, <1>7, <1>8 DEF TypeOK, RunRecord

-----------------------------------------------------------------------------
(* What a step takes and gives.                                            *)

\* Only a claim of a new row adds to what a run kept.
LEMMA KeptFrame ==
  ASSUME TypeOK, NEW r \in Runs, Step(r)
  PROVE  \A i \in Items :
           (i \in run'[r].kept <=> i \in run[r].kept)
             \/ /\ ledger[i].status = "new" /\ ledger'[i].status = "consumed"
                /\ ledger'[i].run = r /\ i \in run'[r].kept /\ freed'[i] = freed[i]
<1>1. CASE ~\E i \in Items : Claim(r, i) /\ Claimable(i)
  <2>1. run'[r].kept = run[r].kept
    <3>1. CASE ~At(r, "claiming")
      BY <3>1, RunFrame
    <3>2. CASE \E i \in Items : Claim(r, i)
      BY <1>1, <3>2 DEF Claim, TypeOK
    <3>3. CASE EndClaims(r)
      BY <3>3 DEF EndClaims, Goto, TypeOK
    <3>4. CASE Raise(r) \/ Crash(r)
      BY <3>4 DEF Raise, Crash, Goto, TypeOK
    <3>5. CASE At(r, "claiming") /\ ~(\E i \in Items : Claim(r, i)) /\ ~EndClaims(r)
                  /\ ~Raise(r) /\ ~Crash(r)
      <4>1. ~Selection(r)
        BY <3>5 DEF Selection, Fetch, Select, At
      <4>2. ~Drafting(r)
        BY <3>5 DEF Drafting, DraftItem, SkipRow, Link, DraftMerged, EndDrafts, Decide, At
      <4>3. ~Publishing(r)
        BY <3>5 DEF Publishing, Publish, PublishFails, EndPublish, Review, Release, At
      <4> QED BY <3>5, <4>1, <4>2, <4>3 DEF Step
    <3> QED BY <3>1, <3>2, <3>3, <3>4, <3>5
  <2> QED BY <2>1
<1>2. ASSUME NEW j \in Items, Claim(r, j), Claimable(j)
      PROVE  \A i \in Items :
           (i \in run'[r].kept <=> i \in run[r].kept)
             \/ /\ ledger[i].status = "new" /\ ledger'[i].status = "consumed"
                /\ ledger'[i].run = r /\ i \in run'[r].kept /\ freed'[i] = freed[i]
  <2>1. run' = [run EXCEPT ![r].todo = @ \ {j}, ![r].kept = @ \cup {j}]
    BY <1>2 DEF Claim
  <2>2. run'[r].kept = run[r].kept \cup {j}
    BY <2>1 DEF TypeOK
  <2>3. ledger' = [ledger EXCEPT ![j].status = "consumed", ![j].run = r, ![j].link = None]
    BY <1>2 DEF Claim
  <2>4. ledger'[j].status = "consumed" /\ ledger'[j].run = r
    <3>1. ledger[j] \in Row
      BY DEF TypeOK
    <3> QED BY <2>3, <3>1 DEF Row, TypeOK
  <2>5. ledger[j].status = "new" /\ freed' = freed
    BY <1>2 DEF Claim, Claimable
  <2> QED BY <2>2, <2>4, <2>5
<1> QED BY <1>1, <1>2

\* A row stays with the run it names, unless that run or the operator frees it.
LEMMA RowStays ==
  ASSUME TypeOK, NEW r \in Runs, Step(r), NEW i \in Items, ledger[i].status = "consumed"
  PROVE  \/ /\ ledger'[i].status = "consumed" /\ ledger'[i].run = ledger[i].run
            /\ \/ ledger'[i].link = ledger[i].link
               \/ /\ At(r, "linking") /\ i = Last(run[r].drafted)
         \/ /\ Release(r) /\ ledger[i].run = r /\ i \in Freeable(r)
            /\ run'[r].pc \in {"failed", "cancelled"}
<1>1. ASSUME NEW p, ledger'[i] = [ledger[i] EXCEPT !.link = p]
      PROVE  ledger'[i].run = ledger[i].run /\ ledger'[i].status = ledger[i].status
  <2>1. ledger[i] \in Row
    BY DEF TypeOK
  <2> QED BY <1>1, <2>1 DEF Row
<1>2. CASE ledger'[i] = ledger[i]
  BY <1>2
<1>3. CASE \E p \in PostsOf(r) : /\ At(r, "linking")
             /\ p.unit = Last(run[r].drafted) /\ p.unit = i
             /\ ledger'[i] = [ledger[i] EXCEPT !.link = p]
  BY <1>1, <1>3
<1>4. CASE Release(r) /\ i \in Freeable(r)
  <2>1. run'[r].pc \in {"failed", "cancelled"}
    BY <1>4 DEF Release, Goto, TypeOK
  <2> QED BY <1>4, <2>1 DEF Freeable
<1> QED BY <1>2, <1>3, <1>4, LedgerFrame DEF Claimable

\* A step frees an item at most once, and then the row is new.
LEMMA FreedFrame ==
  ASSUME TypeOK, [Next]_vars, NEW i \in Items
  PROVE  freed'[i] = freed[i] \/ freed'[i] = freed[i] + 1
<1>1. ASSUME NEW r \in Runs, Step(r) PROVE freed'[i] = freed[i] \/ freed'[i] = freed[i] + 1
  <2>1. CASE Release(r)
    BY <2>1 DEF Release, Free, TypeOK
  <2>2. CASE ~Release(r)
    BY <1>1, <2>2 DEF Step, Selection, Fetch, Select, Claim, EndClaims, Drafting, DraftItem,
       SkipRow, Link, DraftMerged, EndDrafts, Decide, Publishing, Publish, PublishFails,
       EndPublish, Review, Raise, Crash
  <2> QED BY <2>1, <2>2
<1>2. CASE \E j \in Items : Reset(j)
  BY <1>2 DEF Reset, Free, TypeOK
<1>3. CASE (\E d \in Durables : DurableSelect(d) \/ DurablePublish(d)) \/ UNCHANGED vars
  BY <1>3 DEF DurableSelect, DurablePublish, vars
<1> QED BY <1>1, <1>2, <1>3 DEF Next, Step

-----------------------------------------------------------------------------
(* The invariant is kept.                                                  *)

LEMMA OneMore ==
  ASSUME NEW S, IsFiniteSet(S), NEW x
  PROVE  /\ IsFiniteSet(S \cup {x}) /\ Cardinality(S \cup {x}) \in Nat
         /\ Cardinality(S \cup {x}) <= Cardinality(S) + 1
<1>1. IsFiniteSet(S \cup {x}) /\ Cardinality(S \cup {x}) \in Nat /\ Cardinality(S) \in Nat
  BY FS_AddElement, FS_CardinalityType
<1>2. Cardinality(S \cup {x}) = IF x \in S THEN Cardinality(S) ELSE Cardinality(S) + 1
  BY FS_AddElement
<1> QED BY <1>1, <1>2

LEMMA UsesStep ==
  ASSUME TypeOK, TypeOK', UsesCounted, [Next]_vars
  PROVE  UsesCounted'
<1> SUFFICES ASSUME NEW i \in Items
             PROVE  IsFiniteSet(UsersOf(i)') /\ Cardinality(UsersOf(i)') + Unclaimed(i)' <= 1 + freed'[i]
  BY DEF UsesCounted
<1>0. /\ IsFiniteSet(UsersOf(i)) /\ Cardinality(UsersOf(i)) \in Nat
      /\ Cardinality(UsersOf(i)) + Unclaimed(i) <= 1 + freed[i]
      /\ freed[i] \in Nat
  BY FS_CardinalityType DEF UsesCounted, TypeOK
<1>f. freed'[i] = freed[i] \/ freed'[i] = freed[i] + 1
  BY FreedFrame
<1>1. ASSUME UsersOf(i)' = UsersOf(i), freed'[i] = freed[i] + 1
      PROVE  IsFiniteSet(UsersOf(i)') /\ Cardinality(UsersOf(i)') + Unclaimed(i)' <= 1 + freed'[i]
  <2>1. Unclaimed(i)' \in {0, 1} /\ Unclaimed(i) \in {0, 1}
    BY DEF Unclaimed
  <2> QED BY <1>0, <1>1, <2>1
<1>2. ASSUME UsersOf(i)' = UsersOf(i), freed'[i] = freed[i],
             ledger[i].status = "consumed" => ledger'[i].status = "consumed"
      PROVE  IsFiniteSet(UsersOf(i)') /\ Cardinality(UsersOf(i)') + Unclaimed(i)' <= 1 + freed'[i]
  <2>1. Unclaimed(i)' \in {0, 1} /\ Unclaimed(i) \in {0, 1} /\ Unclaimed(i)' <= Unclaimed(i)
    BY <1>2 DEF Unclaimed
  <2> QED BY <1>0, <1>2, <2>1
<1>3. ASSUME NEW r \in Runs, Step(r)
      PROVE  IsFiniteSet(UsersOf(i)') /\ Cardinality(UsersOf(i)') + Unclaimed(i)' <= 1 + freed'[i]
  <2>1. \A q \in Runs \ {r} : run'[q] = run[q]
    BY <1>3, RunFrame
  <2>2. CASE i \in run'[r].kept <=> i \in run[r].kept
    <3>1. UsersOf(i)' = UsersOf(i)
      BY <2>1, <2>2 DEF UsersOf
    <3>2. CASE freed'[i] = freed[i] + 1
      BY <1>1, <3>1, <3>2
    <3>3. CASE freed'[i] = freed[i]
      <4>1. ledger[i].status = "consumed" => ledger'[i].status = "consumed"
        <5>1. (/\ Release(r) /\ i \in Freeable(r)
               /\ freed' = [k \in Items |-> IF k \in Freeable(r) THEN freed[k] + 1 ELSE freed[k]])
              => freed'[i] = freed[i] + 1
          OBVIOUS
        <5>2. Release(r) => ledger' = ledger
                  \/ freed' = [k \in Items |-> IF k \in Freeable(r) THEN freed[k] + 1 ELSE freed[k]]
          BY DEF Release, Free
        <5>3. freed[i] # freed[i] + 1
          BY <1>0
        <5> QED BY <1>3, <3>3, <5>1, <5>2, <5>3, RowStays
      <4> QED BY <1>2, <3>1, <3>3, <4>1
    <3> QED BY <1>f, <3>2, <3>3
  <2>3. CASE /\ ledger[i].status = "new" /\ ledger'[i].status = "consumed"
             /\ i \in run'[r].kept /\ freed'[i] = freed[i]
    <3>1. Unclaimed(i) = 1 /\ Unclaimed(i)' = 0
      BY <2>3 DEF Unclaimed
    <3>2. UsersOf(i)' = UsersOf(i) \cup {r}
      BY <2>1, <2>3 DEF UsersOf
    <3>3. IsFiniteSet(UsersOf(i) \cup {r}) /\ Cardinality(UsersOf(i) \cup {r}) \in Nat
          /\ Cardinality(UsersOf(i) \cup {r}) <= Cardinality(UsersOf(i)) + 1
      BY <1>0, OneMore
    <3> QED BY <1>0, <2>3, <3>1, <3>2, <3>3
  <2> QED BY <1>3, <2>2, <2>3, KeptFrame
<1>4. ASSUME NEW j \in Items, Reset(j)
      PROVE  IsFiniteSet(UsersOf(i)') /\ Cardinality(UsersOf(i)') + Unclaimed(i)' <= 1 + freed'[i]
  <2>1. UsersOf(i)' = UsersOf(i)
    BY <1>4 DEF Reset, UsersOf
  <2>2. CASE i = j
    BY <1>1, <1>4, <2>1, <2>2 DEF Reset, Free, TypeOK
  <2>3. CASE i # j
    <3>1. ledger'[i] = ledger[i] /\ freed'[i] = freed[i]
      BY <1>4, <2>3 DEF Reset, Free, TypeOK
    <3> QED BY <1>2, <2>1, <3>1
  <2> QED BY <2>2, <2>3
<1>5. CASE (\E d \in Durables : DurableSelect(d) \/ DurablePublish(d)) \/ UNCHANGED vars
  BY <1>2, <1>5 DEF DurableSelect, DurablePublish, vars, UsersOf
<1> QED BY <1>3, <1>4, <1>5 DEF Next, Step

\* No step of a run ends it but Release, and none revives it.
LEMMA EndFrame ==
  ASSUME TypeOK, NEW r \in Runs, Step(r)
  PROVE  ~Ended(r) /\ (Ended(r)' => Release(r))
<1> USE DEF At, Ended
<1>g. ASSUME NEW pc, Goto(r, pc) PROVE run'[r].pc = pc
  BY <1>g DEF Goto, TypeOK
<1>1. CASE Selection(r)
  <2>1. ASSUME NEW i \in Items, Claim(r, i) PROVE ~Ended(r) /\ ~Ended(r)'
    BY <2>1 DEF Claim, TypeOK
  <2>2. CASE EndClaims(r)
    BY <2>2, <1>g DEF EndClaims, TypeOK
  <2>3. CASE Fetch(r) \/ Select(r)
    BY <2>3, <1>g DEF Fetch, Select, TypeOK
  <2> QED BY <1>1, <2>1, <2>2, <2>3 DEF Selection
<1>2. CASE Drafting(r)
  <2>1. ASSUME NEW i \in Items, DraftItem(r, i) \/ SkipRow(r, i) PROVE ~Ended(r) /\ ~Ended(r)'
    BY <2>1 DEF DraftItem, SkipRow, TypeOK
  <2>2. CASE DraftMerged(r)
    BY <2>2 DEF DraftMerged, TypeOK
  <2>3. CASE Link(r) \/ EndDrafts(r) \/ Decide(r)
    BY <2>3, <1>g DEF Link, EndDrafts, Decide
  <2> QED BY <1>2, <2>1, <2>2, <2>3 DEF Drafting
<1>3. CASE Publishing(r)
  BY <1>3, <1>g DEF Publishing, Publish, PublishFails, EndPublish, Review, Raise, Release
<1>4. CASE Crash(r)
  BY <1>4, <1>g DEF Crash
<1> QED BY <1>1, <1>2, <1>3, <1>4 DEF Step

LEMMA ShapeStep ==
  ASSUME TypeOK, Shape, ItemLedgerAssumption, [Next]_vars, TypeOK'
  PROVE  Shape'
<1> SUFFICES ASSUME NEW q \in Runs PROVE ShapeOf(q)'
  BY DEF Shape
<1>s. ShapeOf(q)
  BY DEF Shape
<1>f. ASSUME run'[q] = run[q], \A p \in Posts : p.run = q => post'[p] = post[p]
      PROVE  ShapeOf(q)'
  <2>1. PostsOf(q)' = PostsOf(q) /\ \A p \in PostsOf(q) : post'[p] = post[p]
    BY <1>f DEF PostsOf
  <2>2. IsLinked(q)' = IsLinked(q) /\ DraftsOf(q)' = DraftsOf(q)
    BY <1>f DEF IsLinked, IsMerged, DraftsOf
  <2> QED BY <1>s, <1>f, <2>1, <2>2 DEF ShapeOf, At
<1>1. ASSUME NEW r \in Runs, Step(r) PROVE ShapeOf(q)'
  <2>1. CASE q = r
    <3>1. run' \in [Runs -> RunRecord]
      BY <1>1, RunTypes DEF Step
    <3> QED BY <1>1, <1>s, <2>1, <3>1, ShapeKept
  <2>2. CASE q # r
    BY <1>1, <1>f, <2>2, RunFrame, PostFrame
  <2> QED BY <2>1, <2>2
<1>2. CASE \E i \in Items : Reset(i)
  BY <1>2, <1>f DEF Reset
<1>3. CASE (\E d \in Durables : DurableSelect(d) \/ DurablePublish(d)) \/ UNCHANGED vars
  BY <1>3, <1>f DEF DurableSelect, DurablePublish, vars
<1> QED BY <1>1, <1>2, <1>3 DEF Next, Step

LEMMA OwnsStep ==
  ASSUME TypeOK, TypeOK', Owns, NEW r \in Runs, Step(r)
  PROVE  Owns'
<1> SUFFICES ASSUME NEW q \in Runs, ~Ended(q)', NEW i \in Items, i \in run'[q].kept
             PROVE  ledger'[i].status = "consumed" /\ ledger'[i].run = q
  <2>1. \A q \in Runs : run'[q].kept \subseteq Items
    BY DEF TypeOK
  <2> QED BY <2>1 DEF Owns
<1>1. CASE i \in run[q].kept
  <2>1. ~Ended(q)
    BY RunFrame, EndFrame DEF Ended
  <2>2. ledger[i].status = "consumed" /\ ledger[i].run = q
    BY <1>1, <2>1 DEF Owns
  <2> QED BY <2>2, RowStays DEF Ended
<1>2. CASE i \notin run[q].kept
  BY <1>2, KeptFrame, RunFrame
<1> QED BY <1>1, <1>2

LEMMA LinksStep ==
  ASSUME TypeOK, ItemLedgerAssumption, Shape, Owns, LinksOwn, NEW r \in Runs, Step(r)
  PROVE  LinksOwn'
<1> SUFFICES ASSUME NEW i \in Items, ledger'[i].link # None
             PROVE  ledger'[i].link.run = ledger'[i].run
  BY DEF LinksOwn
<1>1. CASE ledger'[i] = ledger[i]
  BY <1>1 DEF LinksOwn
<1>2. CASE ledger'[i] = NewRow \/ ledger'[i].link = None
  BY <1>2 DEF NewRow
<1>3. ASSUME NEW p \in PostsOf(r), At(r, "linking"), p.unit = Last(run[r].drafted),
             p.unit = i, ledger'[i] = [ledger[i] EXCEPT !.link = p]
      PROVE  ledger'[i].link.run = ledger'[i].run
  <2>1. ledger[i] \in Row
    BY DEF TypeOK
  <2>2. ledger'[i].link = p /\ ledger'[i].run = ledger[i].run
    BY <1>3, <2>1 DEF Row
  <2>3. i \in run[r].kept /\ ~Ended(r)
    BY <1>3 DEF Shape, ShapeOf, Ended, At
  <2>4. ledger[i].run = r
    BY <2>3 DEF Owns
  <2> QED BY <2>2, <2>4 DEF PostsOf
<1> QED BY <1>1, <1>2, <1>3, LedgerFrame

\* With one account an item of a run has one post.
LEMMA OnePost ==
  ASSUME ItemLedgerAssumption, Cardinality(Accounts) = 1, NEW p \in Posts, NEW q \in Posts,
         p.run = q.run, p.unit = q.unit, p.draft = q.draft
  PROVE  p = q
<1>1. PICK a : Accounts = {a}
  BY FS_Singleton DEF ItemLedgerAssumption
<1>2. p.account = a /\ q.account = a
  BY <1>1 DEF Posts
<1>3. /\ p = [run |-> p.run, unit |-> p.unit, draft |-> p.draft, account |-> p.account]
      /\ q = [run |-> q.run, unit |-> q.unit, draft |-> q.draft, account |-> q.account]
  BY DEF Posts
<1> QED BY <1>2, <1>3

\* The row of a run's item is not touched by other runs.
LEMMA OthersRow ==
  ASSUME TypeOK, Shape, Owns, NEW r \in Runs, Step(r), NEW q \in Runs \ {r}, ~Ended(q),
         NEW i \in run[q].kept
  PROVE  ledger'[i].status = "consumed" /\ ledger'[i].run = q /\ ledger'[i].link = ledger[i].link
<1>1. i \in Items /\ ledger[i].status = "consumed" /\ ledger[i].run = q
  BY DEF Owns, TypeOK
<1>2. ~(At(r, "linking") /\ i = Last(run[r].drafted))
  <2>1. ASSUME At(r, "linking"), i = Last(run[r].drafted) PROVE FALSE
    <3>1. i \in run[r].kept /\ ~Ended(r)
      BY <2>1 DEF Shape, ShapeOf, Ended, At
    <3> QED BY <1>1, <3>1 DEF Owns
  <2> QED BY <2>1
<1> QED BY <1>1, <1>2, RowStays

\* The steps that link or that leave a run with posts linked.
LEMMA ReadyStep ==
  ASSUME TypeOK, TypeOK', ItemLedgerAssumption, Shape, Shape', Owns, Ready,
         Cardinality(Accounts) = 1, NEW r \in Runs, Step(r)
  PROVE  Ready'
<1> USE DEF At
<1> SUFFICES ASSUME NEW p \in Posts, post'[p] # "absent", IsLinked(p.run)', Linked(p)'
             PROVE  ledger'[p.unit].link = p
  BY DEF Ready
<1>p. p.run \in Runs
  BY DEF Posts
<1>1. CASE p.run # r
  <2>1. run'[p.run] = run[p.run] /\ post'[p] = post[p]
    BY <1>1, <1>p, RunFrame, PostFrame
  <2>2. IsLinked(p.run) /\ Linked(p) /\ post[p] # "absent"
    BY <2>1 DEF IsLinked, IsMerged, Linked
  <2>3. ledger[p.unit].link = p
    BY <2>2 DEF Ready
  <2>4. p.unit \in run[p.run].kept /\ ~Ended(p.run)
    BY <1>p, <2>2 DEF Shape, ShapeOf, PostsOf, Linked, Ended
  <2> QED BY <1>1, <1>p, <2>3, <2>4, OthersRow
<1>2. CASE p.run = r
  <2>a. run \in [Runs -> RunRecord]
    BY DEF TypeOK, RunRecord
  <2>g. ASSUME NEW pc, Goto(r, pc)
        PROVE  run'[r].pc = pc /\ run'[r].kept = run[r].kept /\ run'[r].mode = run[r].mode
               /\ run'[r].drafted = run[r].drafted
    BY <2>a, <2>g DEF Goto, RunRecord
  <2>l. run'[r].kept = run[r].kept => IsLinked(r)' = IsLinked(r)
    BY RunFrame DEF IsLinked, IsMerged
  <2>s. ASSUME post[p] # "absent", Linked(p), IsLinked(r), ledger' = ledger
        PROVE  ledger'[p.unit].link = p
    BY <1>2, <2>s DEF Ready
  <2>e. ASSUME run'[r].pc \notin {"drafting", "deciding", "reviewing", "publishing", "approved", "linking"}
        PROVE  FALSE
    BY <1>2, <2>e DEF Linked
  <2>1. CASE Fetch(r) \/ EndPublish(r) \/ Raise(r) \/ Release(r) \/ Crash(r)
    BY <2>1, <2>e, <2>g DEF Fetch, EndPublish, Raise, Release, Crash
  <2>2. CASE Select(r)
    BY <2>2, <2>e, <2>a DEF Select, RunRecord
  <2>3. ASSUME NEW i \in Items, Claim(r, i) PROVE FALSE
    BY <2>3, <2>e, <2>a DEF Claim, RunRecord
  <2>4. CASE EndClaims(r)
    BY <2>4, <1>2 DEF EndClaims, Shape, ShapeOf, Early, PostsOf
  <2>5. ASSUME NEW i \in Items, DraftItem(r, i) PROVE ledger'[p.unit].link = p
    <3>1. /\ At(r, "drafting") /\ run'[r].kept = run[r].kept /\ ledger' = ledger
          /\ run'[r].pc = IF IsLinked(r) THEN "linking" ELSE "drafting"
          /\ run'[r].drafted = Append(run[r].drafted, i)
      BY <2>5, <2>a DEF DraftItem, RunRecord
    <3>2. IsLinked(r) /\ run'[r].pc = "linking"
      BY <1>2, <2>l, <3>1
    <3>3. p.unit # Last(run'[r].drafted)
      BY <1>2, <3>2 DEF Linked
    <3>4. Last(run'[r].drafted) = i
      BY <3>1, <2>a DEF RunRecord, Last, Units
    <3>5. post[p] # "absent"
      BY <2>5, <3>3, <3>4 DEF DraftItem, Persist
    <3> QED BY <1>2, <2>s, <3>1, <3>2, <3>5 DEF Linked
  <2>6. CASE DraftMerged(r) \/ \E i \in Items : SkipRow(r, i)
    <3>1. ~IsLinked(r) /\ run'[r].kept = run[r].kept
      BY <2>6, <2>a DEF DraftMerged, SkipRow, IsLinked, RunRecord
    <3> QED BY <1>2, <3>1, <2>l
  <2>7. CASE Link(r)
    <3>1. /\ At(r, "linking") /\ run'[r].kept = run[r].kept /\ post' = post
          /\ IsLinked(r)
      BY <2>7, <2>g, <2>l DEF Link, Shape, ShapeOf
    <3>2. PICK q \in PostsOf(r) : /\ q.unit = Last(run[r].drafted)
                                  /\ ledger' = [ledger EXCEPT ![q.unit].link = q]
      BY <2>7 DEF Link
    <3>3. q \in Posts /\ q.run = r /\ q.draft = p.draft
      BY <1>2, <3>1, <3>2 DEF PostsOf, Shape, ShapeOf, DraftsOf, IsLinked
    <3>4. p.unit \in Items
      BY <1>2, <3>1 DEF Shape, ShapeOf, PostsOf, TypeOK
    <3>5. CASE p.unit = q.unit
      <4>1. p = q
        BY <1>2, <3>3, <3>5, OnePost
      <4>2. ledger[p.unit] \in Row
        BY <3>4 DEF TypeOK
      <4> QED BY <3>2, <3>4, <4>1, <4>2 DEF TypeOK, Row
    <3>6. CASE p.unit # q.unit
      <4>1. ledger'[p.unit] = ledger[p.unit]
        BY <3>2, <3>4, <3>6 DEF TypeOK
      <4>2. ledger[p.unit].link = p
        BY <1>2, <3>1, <3>2, <3>6 DEF Ready, Linked
      <4> QED BY <4>1, <4>2
    <3> QED BY <3>5, <3>6
  <2>8. CASE EndDrafts(r) \/ Decide(r)
    <3>1. /\ run[r].pc \in {"drafting", "deciding"} /\ run'[r].kept = run[r].kept
          /\ post' = post /\ ledger' = ledger
      BY <2>8, <2>g DEF EndDrafts, Decide
    <3> QED BY <1>2, <2>l, <2>s, <3>1 DEF Linked
  <2>9. ASSUME NEW q \in Posts, Publish(r, q) \/ PublishFails(r, q)
        PROVE  ledger'[p.unit].link = p
    <3>1. /\ run[r].pc \in {"publishing", "approved"} /\ run'[r].kept = run[r].kept
          /\ ledger' = ledger /\ post[q] = "review"
          /\ (post' = [post EXCEPT ![q] = "published"] \/ post' = [post EXCEPT ![q] = "failed"])
      BY <2>9, <2>g DEF Publish, PublishFails
    <3>2. post[p] # "absent"
      BY <3>1 DEF TypeOK
    <3> QED BY <1>2, <2>l, <2>s, <3>1, <3>2 DEF Linked
  <2>10. CASE Review(r)
    <3>1. run[r].pc = "reviewing" /\ run'[r].kept = run[r].kept /\ ledger' = ledger
      BY <2>10, <2>g DEF Review
    <3>2. post[p] # "absent"
      BY <2>10 DEF Review, TypeOK
    <3> QED BY <1>2, <2>l, <2>s, <3>1, <3>2 DEF Linked
  <2> QED
    BY <2>1, <2>2, <2>3, <2>4, <2>5, <2>6, <2>7, <2>8, <2>9, <2>10
    DEF Step, Selection, Drafting, Publishing
<1> QED BY <1>1, <1>2

LEMMA OutStep ==
  ASSUME TypeOK, ItemLedgerAssumption, Shape, Owns, Ready, Out,
         NEW r \in Runs, Step(r)
  PROVE  Out'
<1> USE DEF At
<1> SUFFICES ASSUME NEW p \in Posts, post'[p] = "published", IsLinked(p.run)'
             PROVE  /\ ledger'[p.unit].status = "consumed"
                    /\ ledger'[p.unit].run = p.run /\ ledger'[p.unit].link = p
  BY DEF Out
<1>p. p.run \in Runs
  BY DEF Posts
<1>1. CASE post[p] = "published"
  <2>1. p \in PostsOf(p.run)
    BY <1>1 DEF PostsOf
  <2>2. run[p.run].pc \notin Early
    BY <1>p, <2>1 DEF Shape, ShapeOf
  <2>3. IsLinked(p.run)
    BY <1>p, <2>2, RunFrame DEF IsLinked, IsMerged, Early
  <2>4. p.unit \in Items
    BY <1>p, <2>1, <2>3 DEF Shape, ShapeOf, TypeOK
  <2>5. /\ ledger[p.unit].status = "consumed"
        /\ ledger[p.unit].run = p.run /\ ledger[p.unit].link = p
    BY <1>1, <2>3 DEF Out
  <2>6. ASSUME At(r, "linking"), p.unit = Last(run[r].drafted) PROVE FALSE
    <3>1. p.unit \in run[r].kept /\ ~Ended(r)
      BY <2>6 DEF Shape, ShapeOf, Ended
    <3>2. p.run = r
      BY <2>5, <3>1 DEF Owns
    <3> QED BY <1>1, <2>1, <2>6, <3>2 DEF Shape, ShapeOf, Unpublished
  <2>7. p.unit \notin Freeable(r)
    BY <1>1, <2>5 DEF Freeable, ItemLedgerAssumption
  <2> QED BY <2>4, <2>5, <2>6, <2>7, RowStays
<1>2. CASE post[p] # "published"
  <2>1. Publish(r, p)
    <3>1. ~Selection(r)
      BY <1>2 DEF Selection, Fetch, Select, Claim, EndClaims
    <3>2. ~Drafting(r)
      BY <1>2 DEF Drafting, DraftItem, SkipRow, Link, DraftMerged, EndDrafts, Decide, Persist, TypeOK
    <3>3. ASSUME NEW q \in Posts, Publish(r, q) PROVE q = p
      BY <1>2, <3>3 DEF Publish, TypeOK
    <3>4. ASSUME NEW q \in Posts, PublishFails(r, q) PROVE FALSE
      BY <1>2, <3>4 DEF PublishFails, TypeOK
    <3>5. ~Review(r)
      BY <1>2 DEF Review, TypeOK
    <3> QED
      BY <1>2, <3>1, <3>2, <3>3, <3>4, <3>5
      DEF Step, Publishing, EndPublish, Raise, Release, Crash
  <2>2. /\ p.run = r /\ post[p] = "review" /\ run[r].pc \in {"publishing", "approved"}
        /\ run' = run /\ ledger' = ledger
    BY <2>1 DEF Publish, PostsOf
  <2>3. IsLinked(r)
    BY <2>2 DEF IsLinked, IsMerged
  <2>4. p.unit \in run[r].kept
    BY <2>2, <2>3 DEF Shape, ShapeOf, PostsOf
  <2>5. ledger[p.unit].link = p
    BY <2>2, <2>3 DEF Ready, Linked
  <2>6. ledger[p.unit].status = "consumed" /\ ledger[p.unit].run = r
    BY <2>2, <2>4 DEF Owns, Ended
  <2> QED BY <2>2, <2>5, <2>6
<1> QED BY <1>1, <1>2

LEMMA StrandedStep ==
  ASSUME TypeOK, TypeOK', ItemLedgerAssumption, Shape, NEW r \in Runs, Step(r), Owns, LinksOwn,
         NothingStranded
  PROVE  NothingStranded'
<1> USE DEF At
<1>0. resets' = resets
  BY DEF Step, Selection, Fetch, Select, Claim, EndClaims, Drafting, DraftItem, SkipRow,
     Link, DraftMerged, EndDrafts, Decide, Publishing, Publish, PublishFails, EndPublish,
     Review, Raise, Release, Crash
<1>1. faults' \in {faults, faults + 1} /\ faults \in Nat /\ resets \in Nat
  <2>1. faults' = faults \/ Fault
    BY DEF Step, Selection, Fetch, Select, Claim, EndClaims, Drafting, DraftItem, SkipRow,
       Link, DraftMerged, EndDrafts, Decide, Publishing, Publish, PublishFails, EndPublish,
       Review, Raise, Release, Crash
  <2> QED BY <2>1 DEF Fault, TypeOK, ItemLedgerAssumption
<1> SUFFICES ASSUME resets + faults = 0, faults' = faults, NEW i \in Items,
                    ledger'[i].status = "consumed", NEW q \in Runs, q = ledger'[i].run, Ended(q)'
             PROVE  ledger'[i].link # None /\ post'[ledger'[i].link] \in {"review", "published"}
  <2>1. resets' + faults' = 0 => resets + faults = 0 /\ faults' = faults
    BY <1>0, <1>1
  <2>2. \A i \in Items : ledger'[i].status = "consumed" => ledger'[i].run \in Runs
    BY DEF TypeOK, Row
  <2> QED BY <2>1, <2>2 DEF NothingStranded, Consumed, Ended
<1>2. CASE Ended(q)
  <2>1. q # r
    BY <1>2, EndFrame
  <2>2. ledger[i].status = "consumed" /\ ledger[i].run = q /\ ledger'[i].link = ledger[i].link
    <3>1. CASE ledger[i].status = "consumed"
      <4>1. ledger[i].run = q
        <5>1. Release(r) /\ i \in Freeable(r) => ledger' = ledger \/ ledger'[i].status # "consumed"
          BY DEF Release, Free, NewRow
        <5> QED BY <2>1, <3>1, <5>1, RowStays
      <4>2. ~(At(r, "linking") /\ i = Last(run[r].drafted))
        BY <2>1, <4>1 DEF Shape, ShapeOf, Owns, Ended
      <4> QED BY <2>1, <3>1, <4>1, <4>2, RowStays
    <3>2. CASE ledger[i].status # "consumed"
      <4>1. ledger'[i] # ledger[i] /\ ledger'[i] # NewRow /\ ledger'[i].run # r
        BY <2>1, <3>2 DEF NewRow
      <4>2. ASSUME At(r, "linking"), i = Last(run[r].drafted) PROVE FALSE
        BY <3>2, <4>2 DEF Shape, ShapeOf, Owns, Ended
      <4>3. At(r, "linking") \/ ledger'[i] \in {ledger[i], NewRow} \/ ledger'[i].run = r
        BY LedgerFrame
      <4>4. At(r, "linking") => Link(r) \/ ledger' = ledger
        BY EndFrame DEF Step, Selection, Fetch, Select, Claim, EndClaims, Drafting, DraftItem,
           SkipRow, DraftMerged, EndDrafts, Decide, Publishing, Publish, PublishFails,
           EndPublish, Review, Raise, Release, Crash
      <4>5. Link(r) => i = Last(run[r].drafted) \/ ledger'[i] = ledger[i]
        BY DEF Link, TypeOK
      <4> QED BY <4>1, <4>2, <4>3, <4>4, <4>5
    <3> QED BY <3>1, <3>2
  <2>3. ledger[i].link # None /\ post[ledger[i].link] \in {"review", "published"}
    BY <1>2, <2>2 DEF NothingStranded, Consumed, Ended
  <2>4. ledger[i].link \in Posts /\ ledger[i].link.run = q
    BY <2>2, <2>3 DEF LinksOwn, TypeOK, Row
  <2>5. post'[ledger[i].link] = post[ledger[i].link]
    BY <2>1, <2>4, PostFrame
  <2> QED BY <2>2, <2>3, <2>5
<1>3. CASE ~Ended(q)
  <2>1. q = r /\ Release(r)
    BY <1>3, RunFrame, EndFrame DEF Ended
  <2>2. faults' # faults + 1
    BY <1>1
  <2>3. ledger' = [k \in Items |-> IF k \in Freeable(r) THEN NewRow ELSE ledger[k]] /\ post' = post
    BY <2>1, <2>2 DEF Release, Free, Fault
  <2>4. i \notin Freeable(r) /\ ledger'[i] = ledger[i]
    BY <2>3 DEF NewRow
  <2>5. ledger[i].link # None /\ post[ledger[i].link] \notin {"absent", "failed"}
    BY <2>1, <2>4 DEF Freeable
  <2>6. ledger[i].link \in Posts
    BY <2>5 DEF TypeOK, Row
  <2> QED BY <2>3, <2>4, <2>5, <2>6 DEF TypeOK, PostStatus
<1> QED BY <1>2, <1>3

LEMMA UntouchedStep ==
  ASSUME TypeOK, TypeOK', ItemLedgerAssumption, Shape, Shape', Untouched, [Next]_vars
  PROVE  Untouched'
<1>1. ASSUME NEW r \in Runs, Step(r) PROVE Untouched'
  <2>1. resets' = resets
    BY <1>1 DEF Step, Selection, Fetch, Select, Claim, EndClaims, Drafting, DraftItem, SkipRow,
       Link, DraftMerged, EndDrafts, Decide, Publishing, Publish, PublishFails, EndPublish,
       Review, Raise, Release, Crash
  <2>2. ASSUME resets = 0
        PROVE  Owns' /\ LinksOwn' /\ (Cardinality(Accounts) = 1 => Ready' /\ Out')
    <3>1. Owns /\ LinksOwn /\ (Cardinality(Accounts) = 1 => Ready /\ Out)
      BY <2>2 DEF Untouched
    <3>2. Owns' /\ LinksOwn'
      BY <1>1, <3>1, OwnsStep, LinksStep
    <3>3. Cardinality(Accounts) = 1 => Ready' /\ Out'
      BY <1>1, <3>1, ReadyStep, OutStep
    <3> QED BY <3>2, <3>3
  <2> QED BY <2>1, <2>2 DEF Untouched
<1>2. CASE \E i \in Items : Reset(i)
  <2>1. resets' # 0
    BY <1>2 DEF Reset, TypeOK, ItemLedgerAssumption
  <2> QED BY <2>1 DEF Untouched
<1>3. CASE (\E d \in Durables : DurableSelect(d) \/ DurablePublish(d)) \/ UNCHANGED vars
  <2>1. ledger' = ledger /\ post' = post /\ run' = run /\ resets' = resets
    BY <1>3 DEF DurableSelect, DurablePublish, vars
  <2> QED
    BY <2>1 DEF Untouched, Owns, LinksOwn, Ready, Out, Ended, Linked, IsLinked, IsMerged, At
<1> QED BY <1>1, <1>2, <1>3 DEF Next, Step

LEMMA SumNotZero == \A a, b \in Nat : a # 0 => a + b # 0
OBVIOUS

LEMMA StrandedKept ==
  ASSUME TypeOK, TypeOK', ItemLedgerAssumption, Shape, Untouched, NothingStranded, [Next]_vars
  PROVE  NothingStranded'
<1>1. ASSUME NEW r \in Runs, Step(r) PROVE NothingStranded'
  <2>1. resets' = resets /\ (faults' = faults \/ faults' = faults + 1)
    BY <1>1 DEF Step, Selection, Fetch, Select, Claim, EndClaims, Drafting, DraftItem, SkipRow,
       Link, DraftMerged, EndDrafts, Decide, Publishing, Publish, PublishFails, EndPublish,
       Review, Raise, Release, Crash, Fault
  <2>2. resets \in Nat /\ faults' \in Nat
    <3>1. resets \in 0..MaxResets /\ faults' \in 0..MaxFaults /\ MaxResets \in Nat /\ MaxFaults \in Nat
      BY DEF TypeOK, ItemLedgerAssumption
    <3> QED BY <3>1
  <2>3. CASE resets = 0
    BY <1>1, <2>3, StrandedStep DEF Untouched
  <2>4. CASE resets # 0
    <3>1. resets' + faults' # 0
      <4>1. resets' \in Nat /\ resets' # 0 /\ faults' \in Nat
        BY <2>1, <2>2, <2>4
      <4> QED BY <4>1, SumNotZero
    <3> QED BY <3>1 DEF NothingStranded
  <2> QED BY <2>3, <2>4
<1>2. CASE \E i \in Items : Reset(i)
  <2>1. /\ resets \in 0..MaxResets /\ resets' = resets + 1
        /\ faults' \in 0..MaxFaults /\ MaxResets \in Nat /\ MaxFaults \in Nat
    BY <1>2 DEF Reset, TypeOK, ItemLedgerAssumption
  <2>2. resets' \in Nat /\ resets' # 0 /\ faults' \in Nat
    BY <2>1
  <2>3. resets' + faults' # 0
    BY <2>2, SumNotZero
  <2> QED BY <2>3 DEF NothingStranded
<1>3. CASE (\E d \in Durables : DurableSelect(d) \/ DurablePublish(d)) \/ UNCHANGED vars
  <2>1. /\ ledger' = ledger /\ post' = post /\ run' = run /\ resets' = resets
        /\ faults' = faults
    BY <1>3 DEF DurableSelect, DurablePublish, vars
  <2> QED BY <2>1 DEF NothingStranded, Consumed, At
<1> QED BY <1>1, <1>2, <1>3 DEF Next, Step

-----------------------------------------------------------------------------
(* The theorems.                                                           *)

LEMMA InitHolds == ASSUME ItemLedgerAssumption, Init PROVE IInv
<1>1. TypeOK
  <2>1. ledger \in [Items -> Row] /\ \A i \in Items : ledger[i].run = None /\ ledger[i].status = "absent"
    BY DEF Init, NewRow, Row
  <2>2. run \in [Runs -> RunRecord]
    <3>1. \A S : <<>> \in Seq(S)
      OBVIOUS
    <3>2. run \in [Runs -> [pc : {"fetching"}, mode : Modes, todo : {{}}, kept : {{}}, drafted : {<<>>}]]
      BY DEF Init
    <3>3. {"fetching"} \subseteq Steps /\ {{}} \subseteq SUBSET Items /\ {<<>>} \subseteq Seq(Units)
      BY <3>1 DEF Steps
    <3> QED BY <3>2, <3>3 DEF RunRecord
  <2>3. durable \in [Durables -> [pc : {"selecting", "publishing", "done"}, items : SUBSET Items]]
    BY DEF Init
  <2>4. /\ post \in [Posts -> PostStatus] /\ sent \in [Posts -> Units \cup {None}]
        /\ freed \in [Items -> Nat]
    BY DEF Init, PostStatus
  <2>5. errors \in 0..MaxErrors /\ faults \in 0..MaxFaults /\ resets \in 0..MaxResets
    BY DEF Init, ItemLedgerAssumption
  <2> QED BY <2>1, <2>2, <2>3, <2>4, <2>5 DEF TypeOK, RunRecord
<1>2. \A r \in Runs : PostsOf(r) = {}
  BY DEF Init, PostsOf
<1>3. \A r \in Runs : run[r].pc = "fetching" /\ run[r].kept = {} /\ run[r].drafted = <<>>
  BY DEF Init
<1>4. \A i \in Items : ledger[i].status = "absent" /\ ledger[i].link = None
  BY DEF Init, NewRow
<1>5. Shape
  BY <1>2, <1>3 DEF Shape, ShapeOf, Unpublished, Early, At
<1>6. UsesCounted
  <2>1. \A i \in Items : UsersOf(i) = {} /\ Unclaimed(i) = 1 /\ freed[i] = 0
    BY <1>3, <1>4 DEF Init, UsersOf, Unclaimed
  <2> QED BY <2>1, FS_EmptySet DEF UsesCounted
<1>7. Untouched
  BY <1>2, <1>3, <1>4 DEF Init, Untouched, Owns, LinksOwn, Ready, Out, PostsOf
<1>8. NothingStranded
  BY <1>4 DEF NothingStranded, Consumed
<1> QED BY <1>1, <1>5, <1>6, <1>7, <1>8 DEF IInv

LEMMA StepHolds == ASSUME ItemLedgerAssumption, IInv, [Next]_vars PROVE IInv'
<1>1. TypeOK'
  BY TypeStep DEF IInv
<1>2. Shape'
  BY <1>1, ShapeStep DEF IInv
<1>3. UsesCounted'
  BY <1>1, UsesStep DEF IInv
<1>4. Untouched'
  BY <1>1, <1>2, UntouchedStep DEF IInv
<1>5. NothingStranded'
  BY <1>1, StrandedKept DEF IInv
<1> QED BY <1>1, <1>2, <1>3, <1>4, <1>5 DEF IInv

LEMMA Inductive == Spec => []IInv
  BY InitHolds, StepHolds, ItemLedgerAssumption, PTL DEF Spec

\* The rows, runs and posts keep their types, and a row names a run exactly while
\* it is consumed (mark_consumed() and release_unclaimed_for_run() write both).
THEOREM TypeCorrect == Spec => []TypeOK
<1>1. IInv => TypeOK
  BY DEF IInv
<1> QED BY Inductive, <1>1, PTL

\* Any number of runs may select an item at once: the claim of mark_consumed() gives
\* it to one, and each further use follows a release or a reset.
THEOREM UsesAreReleased == Spec => []UsesNeedRelease
<1>1. ASSUME IInv PROVE UsesNeedRelease
  <2> SUFFICES ASSUME NEW i \in Items PROVE Cardinality(UsersOf(i)) <= 1 + freed[i]
    BY DEF UsesNeedRelease
  <2>1. IsFiniteSet(UsersOf(i)) /\ Cardinality(UsersOf(i)) + Unclaimed(i) <= 1 + freed[i]
    BY <1>1 DEF IInv, UsesCounted
  <2>2. Cardinality(UsersOf(i)) \in Nat /\ Unclaimed(i) \in {0, 1} /\ freed[i] \in Nat
    BY <1>1, <2>1, FS_CardinalityType DEF IInv, TypeOK, Unclaimed
  <2> QED BY <2>1, <2>2
<1> QED BY Inductive, <1>1, PTL

\* While no operator reset an item and the database answered, a run that failed or was
\* cancelled keeps only items whose post may still go out (release_unclaimed_for_run()).
THEOREM NothingIsStranded == Spec => []NothingStranded
<1>1. IInv => NothingStranded
  BY DEF IInv
<1> QED BY Inductive, <1>1, PTL

\* With one account per plugin an item whose own post is out stays consumed, whatever
\* else of its run, or of any other run, fails.
THEOREM OutItemsStayConsumed == Spec => []OutStaysConsumed
<1>1. IInv => OutStaysConsumed
  BY DEF IInv, Untouched, Out, OutStaysConsumed
<1> QED BY Inductive, <1>1, PTL

\* No run gives back what another run has claimed meanwhile: a consumed row becomes new
\* in a step of the run it names, or in a reset.
THEOREM ClaimsAreOwned == Spec => ClaimIsOwned
<1>1. ASSUME TypeOK, ItemLedgerAssumption, [Next]_vars, NEW i \in Items,
             ledger[i].status = "consumed", ledger'[i].status = "new"
      PROVE  resets' > resets \/ run'[ledger[i].run] # run[ledger[i].run]
  <2>1. ASSUME NEW r \in Runs, Step(r) PROVE run'[ledger[i].run] # run[ledger[i].run]
    <3>1. ledger[i].run = r /\ Release(r)
      BY <1>1, <2>1, RowStays
    <3>2. ~Ended(r) /\ Ended(r)'
      BY <1>1, <2>1, <3>1, RowStays, EndFrame DEF Ended
    <3> QED BY <3>1, <3>2 DEF Ended
  <2>2. CASE \E j \in Items : Reset(j)
    BY <1>1, <2>2 DEF Reset, TypeOK, ItemLedgerAssumption
  <2>3. CASE (\E d \in Durables : DurableSelect(d) \/ DurablePublish(d)) \/ UNCHANGED vars
    BY <1>1, <2>3 DEF DurableSelect, DurablePublish, vars
  <2> QED BY <1>1, <2>1, <2>2, <2>3 DEF Next, Step
<1>2. TypeOK /\ [Next]_vars =>
        [\A i \in Items : ledger[i].status = "consumed" /\ ledger'[i].status = "new"
           => resets' > resets \/ run'[ledger[i].run] # run[ledger[i].run]]_vars
  BY <1>1, ItemLedgerAssumption
<1> QED BY TypeCorrect, <1>2, PTL DEF Spec, ClaimIsOwned
=============================================================================
