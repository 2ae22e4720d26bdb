----------------------------- MODULE ItemLedger -----------------------------
(***************************************************************************)
(* The source_items table (services/source_items.py) under several runs of *)
(* workflows that read the same sources: what a run fetches is registered, *)
(* what it selects is claimed, posts are linked to the item they come from,*)
(* and a run that ends without success gives its items back.  A decision   *)
(* of a reviewer is one step here; InlineRun has its interleavings.        *)
(***************************************************************************)
EXTENDS Naturals, Sequences, FiniteSets, SequencesExt

CONSTANTS
    Runs,        \* runs of the inline path (workflow_service.py)
    Durables,    \* runs of the durable path (workflow_durable_runner.py)
    Items,       \* the items the sources yield
    Accounts,    \* target accounts, all of one platform plugin
    Merged,      \* the one draft that SYNTHESIZE makes of several items
    MaxChosen,   \* cap of the selection strategy
    MaxErrors,   \* bound on failing agents and adapter calls
    MaxFaults,   \* bound on database errors and crashes of a process
    MaxResets,   \* bound on resets by an operator
    None

Units == Items \cup {Merged}
\* A row of a CMS makes a draft per target account, an agent one per plugin.
Drafts == Accounts \cup {None}
Posts == [run : Runs, unit : Units, draft : Drafts, account : Accounts]

ASSUME ItemLedgerAssumption ==
    /\ Merged \notin Items
    /\ None \notin Runs /\ None \notin Posts
    /\ IsFiniteSet(Accounts)
    /\ MaxChosen \in Nat \ {0}
    /\ MaxErrors \in Nat /\ MaxFaults \in Nat /\ MaxResets \in Nat

VARIABLES
    ledger,   \* the source_items rows
    post,     \* status of each post
    run,      \* the inline runs
    durable,  \* the durable runs: what each has selected
    sent,     \* history: the draft whose text each published post carries
    freed,    \* history: how often each item was made new again
    errors, faults, resets

vars == <<ledger, post, run, durable, sent, freed, errors, faults, resets>>

PostStatus == {"absent", "review", "published", "failed"}

Row == [status : {"absent", "new", "consumed"}, run : Runs \cup {None},
        link : Posts \cup {None}]
NewRow == [status |-> "new", run |-> None, link |-> None]

Modes == {"synthesize", "per_item", "cms"}
Steps == {"fetching", "selecting", "claiming", "drafting", "linking", "deciding",
          "reviewing", "approved", "publishing", "failing", "rejected", "dead",
          "succeeded", "failed", "cancelled"}

\* Among the types: a row names a run exactly while it is consumed.
TypeOK ==
    /\ ledger \in [Items -> Row]
    /\ \A i \in Items : ledger[i].run # None <=> ledger[i].status = "consumed"
    /\ post \in [Posts -> PostStatus]
    /\ run \in [Runs -> [pc : Steps, mode : Modes, todo : SUBSET Items,
                         kept : SUBSET Items, drafted : Seq(Units)]]
    /\ durable \in [Durables -> [pc : {"selecting", "publishing", "done"},
                                 items : SUBSET Items]]
    /\ sent \in [Posts -> Units \cup {None}]
    /\ freed \in [Items -> Nat]
    /\ errors \in 0..MaxErrors /\ faults \in 0..MaxFaults /\ resets \in 0..MaxResets

Init ==
    /\ ledger = [i \in Items |-> [NewRow EXCEPT !.status = "absent"]]
    /\ post = [p \in Posts |-> "absent"]
    /\ run \in [Runs -> [pc : {"fetching"}, mode : Modes, todo : {{}}, kept : {{}},
                         drafted : {<<>>}]]
    /\ durable = [d \in Durables |-> [pc |-> "selecting", items |-> {}]]
    /\ sent = [p \in Posts |-> None]
    /\ freed = [i \in Items |-> 0]
    /\ errors = 0 /\ faults = 0 /\ resets = 0

At(r, pc) == run[r].pc = pc
Goto(r, pc) == run' = [run EXCEPT ![r].pc = pc]
Fault == faults < MaxFaults /\ faults' = faults + 1
Consumed == {i \in Items : ledger[i].status = "consumed"}
PostsOf(r) == {p \in Posts : p.run = r /\ post[p] # "absent"}

-----------------------------------------------------------------------------
(* Fetch, select, claim.                                                   *)

\* upsert_seen(): new rows for new items, others keep their status.  An error
\* of the database is logged and the run goes on.
Registered(rows) == [i \in Items |-> IF rows[i].status = "absent" THEN NewRow ELSE rows[i]]

Fetch(r) ==
    /\ At(r, "fetching")
    /\ \/ ledger' = Registered(ledger) /\ UNCHANGED faults
       \/ Fault /\ UNCHANGED ledger
    /\ Goto(r, "selecting")
    /\ UNCHANGED <<post, durable, sent, freed, errors, resets>>

\* The strategy chooses some of the items consumed_keys() does not list; a
\* failed lookup lists none.
Offered(consumed) ==
    {chosen \in SUBSET (Items \ consumed) : Cardinality(chosen) <= MaxChosen}

Select(r) ==
    /\ At(r, "selecting")
    /\ \/ \E chosen \in Offered(Consumed) :
             run' = [run EXCEPT ![r].pc = "claiming", ![r].todo = chosen]
          /\ UNCHANGED faults
       \/ \E chosen \in Offered({}) :
             run' = [run EXCEPT ![r].pc = "claiming", ![r].todo = chosen]
          /\ Fault
    /\ UNCHANGED <<ledger, post, durable, sent, freed, errors, resets>>

ClaimableTwice(i) == ledger[i].status \in {"new", "consumed"}
Claimable(i) == ledger[i].status = "new"

\* mark_consumed(): a claim that is lost drops the item.
Claim(r, i) ==
    /\ At(r, "claiming") /\ i \in run[r].todo
    /\ IF Claimable(i)
       THEN /\ ledger' = [ledger EXCEPT ![i].status = "consumed", ![i].run = r,
                                        ![i].link = None]
            /\ run' = [run EXCEPT ![r].todo = @ \ {i}, ![r].kept = @ \cup {i}]
       ELSE /\ run' = [run EXCEPT ![r].todo = @ \ {i}]
            /\ UNCHANGED ledger
    /\ UNCHANGED <<post, durable, sent, freed, errors, faults, resets>>

EndClaims(r) ==
    /\ At(r, "claiming") /\ run[r].todo = {}
    /\ IF run[r].kept = {} THEN Goto(r, "succeeded")
       ELSE run' = [run EXCEPT ![r].pc = "drafting", ![r].todo = run[r].kept]
    /\ UNCHANGED <<ledger, post, durable, sent, freed, errors, faults, resets>>

-----------------------------------------------------------------------------
(* Drafts: one per item, one of all items, or the CMS rows as they are.    *)

\* A single item is drafted, and linked, like an item of its own.
IsMerged(r) == run[r].mode = "synthesize" /\ Cardinality(run[r].kept) > 1
IsLinked(r) == run[r].mode # "cms" /\ ~IsMerged(r)

\* Each draft goes to every account of its plugin.
DraftsOf(r) == IF run[r].mode = "cms" THEN Accounts ELSE {None}
Persist(r, u) ==
    post' = [p \in Posts |-> IF p.run = r /\ p.unit = u /\ p.draft \in DraftsOf(r)
                             THEN "review" ELSE post[p]]

DraftItem(r, i) ==
    /\ At(r, "drafting") /\ ~IsMerged(r) /\ i \in run[r].todo
    /\ Persist(r, i)
    /\ run' = [run EXCEPT ![r].pc = IF IsLinked(r) THEN "linking" ELSE "drafting",
                          ![r].todo = @ \ {i}, ![r].drafted = Append(@, i)]
    /\ UNCHANGED <<ledger, durable, sent, freed, errors, faults, resets>>

\* update_post_link() for each post of the item in turn; the last one stays.
Link(r) ==
    /\ At(r, "linking")
    /\ \E p \in PostsOf(r) :
          /\ p.unit = Last(run[r].drafted)
          /\ ledger' = [ledger EXCEPT ![p.unit].link = p]
    /\ Goto(r, "drafting")
    /\ UNCHANGED <<post, durable, sent, freed, errors, faults, resets>>

DraftMerged(r) ==
    /\ At(r, "drafting") /\ IsMerged(r) /\ run[r].todo # {}
    /\ Persist(r, Merged)
    /\ run' = [run EXCEPT ![r].todo = {}, ![r].drafted = <<Merged>>]
    /\ UNCHANGED <<ledger, durable, sent, freed, errors, faults, resets>>

\* A CMS row that names other platforms gets no post.
SkipRow(r, i) ==
    /\ At(r, "drafting") /\ run[r].mode = "cms" /\ i \in run[r].todo
    /\ run' = [run EXCEPT ![r].todo = @ \ {i}]
    /\ UNCHANGED <<ledger, post, durable, sent, freed, errors, faults, resets>>

EndDrafts(r) ==
    /\ At(r, "drafting") /\ run[r].todo = {}
    /\ Goto(r, IF run[r].drafted = <<>> THEN "succeeded" ELSE "deciding")
    /\ UNCHANGED <<ledger, post, durable, sent, freed, errors, faults, resets>>

\* Without human approval the run publishes; with it, it waits.
Decide(r) ==
    /\ At(r, "deciding")
    /\ \E pc \in {"publishing", "reviewing"} : Goto(r, pc)
    /\ UNCHANGED <<ledger, post, durable, sent, freed, errors, faults, resets>>

-----------------------------------------------------------------------------
(* Publishing.  The automatic path looks the text up in a dictionary of    *)
(* drafts by plugin, which keeps the last one; after a review the text is  *)
(* the one of the post's row.                                              *)

TextOf(r, p) == IF At(r, "approved") THEN p.unit ELSE Last(run[r].drafted)

Publish(r, p) ==
    /\ At(r, "publishing") \/ At(r, "approved")
    /\ p \in PostsOf(r) /\ post[p] = "review"
    /\ post' = [post EXCEPT ![p] = "published"]
    /\ sent' = [sent EXCEPT ![p] = TextOf(r, p)]
    /\ UNCHANGED <<ledger, run, durable, freed, errors, faults, resets>>

\* An error ends the automatic run; after a review it leaves the run where it is.
PublishFails(r, p) ==
    /\ At(r, "publishing") \/ At(r, "approved")
    /\ p \in PostsOf(r) /\ post[p] = "review"
    /\ errors < MaxErrors /\ errors' = errors + 1
    /\ post' = [post EXCEPT ![p] = "failed"]
    /\ Goto(r, IF At(r, "approved") THEN "dead" ELSE "failing")
    /\ UNCHANGED <<ledger, durable, sent, freed, faults, resets>>

EndPublish(r) ==
    /\ At(r, "publishing") \/ At(r, "approved")
    /\ \A p \in PostsOf(r) : post[p] # "review"
    /\ Goto(r, "succeeded")
    /\ UNCHANGED <<ledger, post, durable, sent, freed, errors, faults, resets>>

Review(r) ==
    /\ At(r, "reviewing")
    /\ \/ Goto(r, "approved") /\ UNCHANGED post
       \/ /\ Goto(r, "rejected")
          /\ post' = [p \in Posts |-> IF p \in PostsOf(r) /\ post[p] = "review"
                                      THEN "failed" ELSE post[p]]
    /\ UNCHANGED <<ledger, durable, sent, freed, errors, faults, resets>>

\* An agent or the database fails.
Raise(r) ==
    /\ run[r].pc \in {"claiming", "drafting", "linking"}
    /\ errors < MaxErrors /\ errors' = errors + 1
    /\ Goto(r, "failing")
    /\ UNCHANGED <<ledger, post, durable, sent, freed, faults, resets>>

-----------------------------------------------------------------------------
(* release_unclaimed_for_run(): the run's items without a post that may    *)
(* still go out are new again.  An error of the database is logged only.   *)

FreeableUnlinked(r) == {i \in Items : ledger[i].run = r /\ ledger[i].link = None}
FreeableOfAny(r) ==
    {i \in Consumed : ledger[i].link = None \/ post[ledger[i].link] \in {"absent", "failed"}}
FreeableOut(r) == {i \in Items : ledger[i].run = r}
Freeable(r) ==
    {i \in Items : /\ ledger[i].run = r
                   /\ ledger[i].link = None \/ post[ledger[i].link] \in {"absent", "failed"}}

Free(items) ==
    /\ ledger' = [i \in Items |-> IF i \in items THEN NewRow ELSE ledger[i]]
    /\ freed' = [i \in Items |-> IF i \in items THEN freed[i] + 1 ELSE freed[i]]

Release(r) ==
    /\ \/ At(r, "failing") /\ Goto(r, "failed")
       \/ At(r, "rejected") /\ Goto(r, "cancelled")
    /\ \/ Free(Freeable(r)) /\ UNCHANGED faults
       \/ Fault /\ UNCHANGED <<ledger, freed>>
    /\ UNCHANGED <<post, durable, sent, errors, resets>>

\* The process ends: nothing resumes an inline run.
Crash(r) ==
    /\ run[r].pc \notin {"reviewing", "succeeded", "failed", "cancelled", "dead"}
    /\ Fault
    /\ Goto(r, "dead")
    /\ UNCHANGED <<ledger, post, durable, sent, freed, errors, resets>>

\* POST /source-items/{id}/reset.
Reset(i) ==
    /\ ledger[i].status # "absent"
    /\ resets < MaxResets /\ resets' = resets + 1
    /\ Free({i})
    /\ UNCHANGED <<post, run, durable, sent, errors, faults>>

-----------------------------------------------------------------------------
(* The durable path: select reads consumed_keys() and publish posts; no    *)
(* phase of it registers or claims an item.                                *)

DurableSelect(d) ==
    /\ durable[d].pc = "selecting"
    /\ \E chosen \in Offered(Consumed) :
          durable' = [durable EXCEPT ![d] =
             [pc |-> IF chosen = {} THEN "done" ELSE "publishing", items |-> chosen]]
    /\ UNCHANGED <<ledger, post, run, sent, freed, errors, faults, resets>>

DurablePublish(d) ==
    /\ durable[d].pc = "publishing"
    /\ durable' = [durable EXCEPT ![d].pc = "done"]
    /\ UNCHANGED <<ledger, post, run, sent, freed, errors, faults, resets>>

-----------------------------------------------------------------------------
Selection(r) == Fetch(r) \/ Select(r) \/ (\E i \in Items : Claim(r, i)) \/ EndClaims(r)

Drafting(r) ==
    \/ \E i \in Items : DraftItem(r, i) \/ SkipRow(r, i)
    \/ Link(r) \/ DraftMerged(r) \/ EndDrafts(r) \/ Decide(r)

Publishing(r) ==
    \/ \E p \in Posts : Publish(r, p) \/ PublishFails(r, p)
    \/ EndPublish(r) \/ Review(r) \/ Raise(r) \/ Release(r)

Next ==
    \/ \E r \in Runs : Selection(r) \/ Drafting(r) \/ Publishing(r) \/ Crash(r)
    \/ \E i \in Items : Reset(i)
    \/ \E d \in Durables : DurableSelect(d) \/ DurablePublish(d)

Spec == Init /\ [][Next]_vars
-----------------------------------------------------------------------------
(* Properties.                                                             *)

\* Runs that select the same item at the same time never both use it: every use
\* of an item beyond the first follows a release or an operator's reset.
UsersOf(i) == {r \in Runs : i \in run[r].kept}
UsesNeedRelease == \A i \in Items : Cardinality(UsersOf(i)) <= 1 + freed[i]

\* A claim is ended by its own run, or by the operator: a run that ends late
\* does not give away an item another run has claimed meanwhile.
ClaimIsOwned ==
    [][\A i \in Items : ledger[i].status = "consumed" /\ ledger'[i].status = "new"
          => resets' > resets \/ run'[ledger[i].run] # run[ledger[i].run]]_vars

\* Unless the database failed, a run that ended without success keeps no item
\* without a post that may still go out.  After a reset two runs may use an item, and the one that links last
\* binds the other's claim to its own post: then this is lost.
NothingStranded ==
    resets + faults = 0 => \A i \in Consumed : LET r == ledger[i].run IN
       At(r, "failed") \/ At(r, "cancelled")
          => ledger[i].link # None /\ post[ledger[i].link] \in {"review", "published"}

\* With one account per plugin, an item whose own post is out is not offered
\* again, whatever else of the run failed, unless the operator resets it.
OutStaysConsumed ==
    resets = 0 /\ Cardinality(Accounts) = 1 =>
       \A p \in Posts : post[p] = "published" /\ IsLinked(p.run)
          => ledger[p.unit].status = "consumed"

(* Statements of the documentation.                                        *)

\* _run_per_item_batches: each iteration produces a draft set for a single
\* source item, so a post carries the text made of its own item.
OwnText == \A p \in Posts : sent[p] \in {None, p.unit}

\* workflow_durable_runner.py: mark_consumed in _phase_publish claims the item.
DurableClaims ==
    \A d \in Durables : durable[d].pc = "done" =>
       \A i \in durable[d].items : ledger[i].status = "consumed"
=============================================================================
