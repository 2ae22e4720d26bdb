----------------------------- MODULE AuditChain -----------------------------
(***************************************************************************)
(* The audit log of one organisation (services/audit_log.py with the       *)
(* trigger and the view of migration 008): rows are appended by            *)
(* transactions of their own, each linked by a hash to the newest row the  *)
(* trigger can see; verify_chain walks the links, list_paged gives pages   *)
(* of the newest rows.  The hash is taken as injective.  A failed write is *)
(* swallowed.  Change and removal of a row by hand are what the chain is   *)
(* there to show.                                                          *)
(***************************************************************************)
EXTENDS Naturals, FiniteSets

CONSTANTS
    Writer,    \* requests that may append at the same time
    MaxRows,   \* bound on appended rows and on the ticks of now()
    Window,    \* the limit of verify_chain
    PageSize,  \* the limit of list_paged
    NoHash     \* NULL, the hash of a row older than migration 008

AuditChainAssumption ==
    /\ MaxRows \in Nat /\ Window \in Nat \ {0} /\ PageSize \in Nat \ {0}

VARIABLES
    log,      \* the committed rows
    draft,    \* the row each writer has begun or inserted
    clock, serial,
    walk,     \* a reader paging through the log, and the rows it was given
    tampered, \* history: rows changed or removed by hand, as they were
    lapped    \* history: two appends have overlapped

vars == <<log, draft, clock, serial, walk, tampered, lapped>>

Hash(text, at, prev) == <<text, at, prev>>
NoRow == [id |-> 0, at |-> 0, text |-> "", prev |-> <<>>, hash |-> NoHash]
Legacy == [NoRow EXCEPT !.text = "old"]
\* What a reader got, whether some row came again, and what it was due.
NoWalk == [on |-> FALSE, got |-> {}, again |-> FALSE, due |-> {}, cut |-> FALSE]

Before(r, s) == r.at < s.at \/ (r.at = s.at /\ r.id < s.id)
Newest(S) == CHOOSE r \in S : \A s \in S \ {r} : Before(s, r)
Oldest(S) == CHOOSE r \in S : \A s \in S \ {r} : Before(r, s)

TypeOK ==
    /\ \A r \in log : r.id \in 0 .. serial /\ r.at \in 0 .. clock
    /\ \A r, s \in log : r.id = s.id => r = s
    /\ \A w \in Writer : draft[w].at \in 0 .. clock
    /\ clock \in Nat /\ serial \in 0 .. MaxRows /\ lapped \in BOOLEAN
    /\ \A r \in tampered : r.id \in 0 .. serial

Init ==
    /\ log \in {{}, {Legacy}}
    /\ draft = [w \in Writer |-> NoRow]
    /\ clock = 0 /\ serial = 0 /\ walk = NoWalk
    /\ tampered = {} /\ lapped = FALSE

\* BEGIN of record's transaction, which fixes now().  Two may fall in one tick.
Begin(w) ==
    /\ draft[w] = NoRow /\ serial < MaxRows
    /\ \E now \in {clock, clock + 1} \cap 1 .. MaxRows :
          clock' = now /\ draft' = [draft EXCEPT ![w] = [NoRow EXCEPT !.at = now]]
    /\ lapped' = (lapped \/ \E v \in Writer : draft[v] # NoRow)
    /\ UNCHANGED <<log, serial, walk, tampered>>

\* Mutant of Link: the chain starts anew with every row.
LinkLoose(rows) == <<>>
\* The trigger: row_hash of the newest committed row, '' for none or for NULL.
Link(rows) ==
    IF rows = {} \/ Newest(rows).hash = NoHash THEN <<>> ELSE Newest(rows).hash

Insert(w) ==
    /\ draft[w].at # 0 /\ draft[w].id = 0 /\ serial < MaxRows
    /\ serial' = serial + 1
    /\ LET at == draft[w].at IN
       draft' = [draft EXCEPT ![w] = [id |-> serial + 1, at |-> at, text |-> "said",
                     prev |-> Link(log), hash |-> Hash("said", at, Link(log))]]
    /\ UNCHANGED <<log, clock, walk, tampered, lapped>>

Commit(w) ==
    /\ draft[w].id # 0
    /\ log' = log \cup {draft[w]}
    /\ draft' = [draft EXCEPT ![w] = NoRow]
    /\ UNCHANGED <<clock, serial, walk, tampered, lapped>>

\* Any exception: logged, never raised.
WriteFails(w) ==
    /\ draft[w] # NoRow
    /\ draft' = [draft EXCEPT ![w] = NoRow]
    /\ UNCHANGED <<log, clock, serial, walk, tampered, lapped>>

ChangedByHand(r) ==
    /\ tampered = {}
    /\ log' = (log \ {r}) \cup {[r EXCEPT !.text = "forged"]}
    /\ tampered' = {r}
    /\ UNCHANGED <<draft, clock, serial, walk, lapped>>

RemovedByHand(r) ==
    /\ tampered = {}
    /\ log' = log \ {r} /\ tampered' = {r}
    /\ UNCHANGED <<draft, clock, serial, walk, lapped>>

\* The newest n rows.
Page(rows, n) == {r \in rows : Cardinality({s \in rows : Before(r, s)}) < n}

\* has_more: one row more than the page holds.  Mutant: two rows more.
MoreThanOne(rows) == Cardinality(rows) > PageSize + 1
More(rows) == Cardinality(rows) > PageSize

StartWalk ==
    /\ walk = NoWalk /\ log # {}
    /\ walk' = [NoWalk EXCEPT !.on = TRUE, !.due = {r.id : r \in log}]
    /\ UNCHANGED <<log, draft, clock, serial, tampered, lapped>>

\* One page, and the cursor for the next one if there are more rows.  The cursor
\* holds the row's bigserial id, which _decode_cursor reads as a UUID: that raises,
\* the cursor is dropped, and the next page is the newest one again.
NextPage ==
    /\ walk.on
    /\ LET page == {r.id : r \in Page(log, PageSize)} IN
       walk' = [walk EXCEPT !.on = More(log), !.got = @ \cup page,
                            !.again = @ \/ page \cap walk.got # {}]
    /\ UNCHANGED <<log, draft, clock, serial, tampered, lapped>>

\* A database error looks like the end of the log.
PageFails ==
    /\ walk.on
    /\ walk' = [walk EXCEPT !.on = FALSE, !.cut = TRUE]
    /\ UNCHANGED <<log, draft, clock, serial, tampered, lapped>>

\* verify_chain over the oldest Window rows, those without a hash left out.
Walked ==
    {r \in log : /\ Cardinality({s \in log : Before(s, r)}) < Window
                 /\ r.hash # NoHash}
\* Mutant of RowOk: any row that has a hash will do.
RowOkIfHashed(r) == r.hash # NoHash
RowOk(r) == r.hash = Hash(r.text, r.at, r.prev)
\* Mutant of LinkOk: any link will do, if there is one.
LinkOkIfLinked(r) == (\A s \in Walked : ~ Before(s, r)) \/ r.prev # <<>>
\* The first row walked has nothing to be compared with.
LinkOk(r) ==
    LET prior == {s \in Walked : Before(s, r)} IN
    prior = {} \/ r.prev = Newest(prior).hash
Breaks == {r \in Walked : ~ RowOk(r) \/ ~ LinkOk(r)}

Next ==
    \/ \E w \in Writer : Begin(w) \/ Insert(w) \/ Commit(w) \/ WriteFails(w)
    \/ \E r \in log : ChangedByHand(r)
    \/ \E r \in log : RemovedByHand(r)
    \/ StartWalk \/ NextPage \/ PageFails

Spec == Init /\ [][Next]_vars
-----------------------------------------------------------------------------
\* As long as no two appends overlap, an untouched log verifies: the trigger
\* links every row to the one the walk reaches just before it.
UntouchedVerifies == ~ lapped /\ tampered = {} => Breaks = {}

\* A row changed by hand is reported at that row, whatever overlapped.
ChangeShows ==
    \A t \in tampered, r \in Walked : r.id = t.id => r \in Breaks

\* A removed row is reported once a later row has linked to it and an earlier
\* one is left, unless its twin (two overlapping appends of equal content in one
\* instant, since the id is not hashed) takes its place.
RemovalShows ==
    \A t \in tampered :
        (/\ \A r \in log : r.id # t.id /\ r.hash # t.hash
         /\ \E r, s \in Walked : /\ Before(r, t) /\ Before(t, s)
                               /\ s.prev = t.hash) => Breaks # {}

\* A reader who is told that there are no more rows was given each row committed
\* before it began and not touched since, whatever was appended meanwhile.
EndOfLogIsTrue ==
    walk # NoWalk /\ ~ walk.on /\ ~ walk.cut =>
       walk.due \ {t.id : t \in tampered} \subseteq walk.got

(* Statements of the documentation.                                        *)

\* list_paged: "strict less-than on the tuple so the same row never appears on two
\* consecutive pages".
PagesDoNotRepeat == ~ walk.again
=============================================================================
