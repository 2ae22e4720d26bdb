---------------------------- MODULE ServiceProofs ----------------------------
(***************************************************************************)
(* What holds of the smaller services for any size: audit logs with any    *)
(* number of writers and rows, erasure walks over any tables, circuit      *)
(* breakers, rate limits and budgets with any number of concurrent         *)
(* callers, schedules with any number of overlapping ticks, and the system *)
(* scheduler with any number of processes; then the same of the joined     *)
(* specification of all of them.                                           *)
(***************************************************************************)
EXTENDS Service, MembershipProofs, FiniteSetTheorems, SequenceTheorems, WellFoundedInduction,
        TLAPS

-----------------------------------------------------------------------------
(* The audit log: the hash chain, what it shows, and the walk of a reader.      *)

\* NULL is the hash of nothing.
NullIsNoHash == \A text, at, prev : A!Hash(text, at, prev) # NoHash

IsRow(r) == r = [id |-> r.id, at |-> r.at, text |-> r.text, prev |-> r.prev, hash |-> r.hash]
Hashed(r) == r.hash # NoHash
Sealed(r) == r.text = "said" /\ r.hash = A!Hash(r.text, r.at, r.prev)
Begun(w) == draft[w].at \in 1 .. clock /\ draft[w].id = 0
Written(w) ==
    /\ draft[w].id \in 1 .. serial /\ draft[w].at \in 1 .. clock
    /\ IsRow(draft[w]) /\ Sealed(draft[w])

\* The rows that are there and those about to come.
ChainForm ==
    /\ clock \in Nat /\ serial \in 0 .. MaxRows /\ lapped \in BOOLEAN
    /\ IsFiniteSet(log)
    /\ draft = [w \in Writer |-> draft[w]]
    /\ \A r \in log : /\ IsRow(r) /\ r.id \in 0 .. serial /\ r.at \in 0 .. clock
                      /\ ~ Hashed(r) => r.id = 0 /\ r.at = 0
                      /\ Hashed(r) => r.id # 0
    /\ \A w \in Writer : draft[w] = A!NoRow \/ Begun(w) \/ Written(w)
    /\ \A t \in tampered : t.id \in 0 .. serial

\* A number is given once.
Numbered ==
    /\ \A r, s \in log : r.id = s.id => r = s
    /\ \A v, w \in Writer : draft[v].id # 0 /\ draft[v].id = draft[w].id => v = w
    /\ \A w \in Writer : draft[w].id # 0 =>
          (\A r \in log \cup tampered : r.id # draft[w].id)

\* Rows are sealed until a hand changes one, and that one stays broken.
Seals ==
    /\ tampered = {} => \A r \in log : Hashed(r) => Sealed(r)
    /\ \A t \in tampered : \A r \in log : r.id = t.id /\ Hashed(r) => ~ A!RowOk(r)

\* The rows with a hash before r.
Prior(r) == {s \in log : Hashed(s) /\ A!Before(s, r)}
Top(S, r) == r \in S /\ \A s \in S \ {r} : A!Before(s, r)

\* Without overlap the one draft comes after every row and is linked to the last.
Chained ==
    ~ lapped /\ tampered = {} =>
    /\ \A v, w \in Writer : draft[v] # A!NoRow /\ draft[w] # A!NoRow => v = w
    /\ log = {} \/ \E r \in log : Top(log, r)
    /\ \A r \in log : Hashed(r) => Prior(r) = {} \/ r.prev = A!Newest(Prior(r)).hash
    /\ \A w \in Writer : draft[w] # A!NoRow => \A s \in log : s.at <= draft[w].at
    /\ \A w \in Writer : draft[w].id # 0 =>
          draft[w].prev = A!Link(log) /\ \A s \in log : s.id < draft[w].id

ChainInv == ChainForm /\ Numbered /\ Seals /\ Chained

\* The rows that stand for none and for one without a hash.
LEMMA EmptyRow ==
  A!NoRow.id = 0 /\ A!NoRow.at = 0
  BY DEF A!NoRow

LEMMA LegacyRow ==
  /\ A!Legacy.id = 0 /\ A!Legacy.at = 0 /\ A!Legacy.hash = NoHash
  /\ IsRow(A!Legacy)
<1>1. A!Legacy.id = 0
  BY DEF A!Legacy, A!NoRow
<1>2. A!Legacy.at = 0
  BY DEF A!Legacy, A!NoRow
<1>3. A!Legacy.hash = NoHash
  BY DEF A!Legacy, A!NoRow
<1>4. DOMAIN A!Legacy = {"id", "at", "text", "prev", "hash"}
  BY DEF A!Legacy, A!NoRow
<1>5. A!Legacy = [f \in {"id", "at", "text", "prev", "hash"} |-> A!Legacy[f]]
  BY DEF A!Legacy, A!NoRow
<1>6. IsRow(A!Legacy)
  BY <1>5 DEF IsRow
<1>7. QED BY <1>1, <1>2, <1>3, <1>6

\* The newest of a set is its top, if it has one.
LEMMA NewestIsTop ==
  ASSUME NEW S, NEW q, Top(S, q),
         \A r \in S : r.id \in Nat /\ r.at \in Nat
  PROVE  A!Newest(S) = q
<1>1. Top(S, A!Newest(S))
  BY DEF Top, A!Newest
<1>2. ASSUME A!Newest(S) # q PROVE FALSE
  <2>1. A!Before(A!Newest(S), q) /\ A!Before(q, A!Newest(S))
    BY <1>1, <1>2 DEF Top
  <2>2. A!Newest(S) \in S /\ q \in S
    BY <1>1 DEF Top
  <2>3. QED BY <2>1, <2>2 DEF A!Before
<1>3. QED BY <1>2

LEMMA AuditInit ==
  ASSUME A!AuditChainAssumption, A!Init PROVE ChainInv
<1>1. log = {} \/ log = {A!Legacy}
  BY DEF A!Init
<1>2. /\ draft = [w \in Writer |-> A!NoRow] /\ \A w \in Writer : draft[w] = A!NoRow
      /\ clock = 0 /\ serial = 0 /\ tampered = {} /\ lapped = FALSE
  BY DEF A!Init
<1>3. /\ A!Legacy.id = 0 /\ A!Legacy.at = 0 /\ A!Legacy.hash = NoHash /\ IsRow(A!Legacy)
      /\ A!NoRow.id = 0
  BY LegacyRow, EmptyRow
<1>4. IsFiniteSet(log)
  BY <1>1, FS_EmptySet, FS_Singleton
<1>5. ChainForm
  <2>1. clock \in Nat /\ serial \in 0 .. MaxRows
    BY <1>2 DEF A!AuditChainAssumption
  <2>2. lapped \in BOOLEAN
    BY <1>2
  <2>3. draft = [w \in Writer |-> draft[w]]
    BY <1>2
  <2>4. ASSUME NEW r \in log
        PROVE  /\ IsRow(r) /\ r.id \in 0 .. serial /\ r.at \in 0 .. clock
               /\ ~ Hashed(r) /\ r.id = 0 /\ r.at = 0
    BY <1>1, <1>2, <1>3 DEF Hashed
  <2>5. QED BY <1>2, <1>4, <2>1, <2>2, <2>3, <2>4 DEF ChainForm
<1>6. Numbered
  BY <1>1, <1>2, <1>3 DEF Numbered
<1>7. Seals
  <2>1. \A r \in log : ~ Hashed(r)
    BY <1>1, <1>3 DEF Hashed
  <2>2. QED BY <1>2, <2>1 DEF Seals
<1>8. Chained
  BY <1>1, <1>2, <1>3 DEF Chained, Hashed, Top
<1>9. QED BY <1>5, <1>6, <1>7, <1>8 DEF ChainInv

\* The rows of the log have numbers.
LEMMA LogNumbers ==
  ASSUME ChainForm, NEW r \in log
  PROVE  r.id \in Nat /\ r.at \in Nat
  BY DEF ChainForm

\* A row after all others is linked as the walk expects it if it is linked as the
\* trigger does.
LEMMA LinkFits ==
  ASSUME ChainForm, NEW q \in log, Top(log, q), NEW P, P = {s \in log : Hashed(s)}, P # {}
  PROVE  A!Link(log) = A!Newest(P).hash
<1>1. A!Newest(log) = q
  BY NewestIsTop, LogNumbers
<1>2. Hashed(q)
  <2>1. PICK s \in log : Hashed(s)
    OBVIOUS
  <2>2. CASE s = q
    BY <2>1, <2>2
  <2>3. CASE s # q
    <3>1. A!Before(s, q)
      BY <2>3 DEF Top
    <3>2. ~ (q.id = 0 /\ q.at = 0)
      BY <3>1, LogNumbers DEF A!Before
    <3>3. QED BY <3>2 DEF ChainForm
  <2>4. QED BY <2>2, <2>3
<1>3. Top(P, q)
  BY <1>2 DEF Top
<1>4. A!Newest(P) = q
  BY <1>3, NewestIsTop, LogNumbers
<1>5. QED BY <1>1, <1>2, <1>4 DEF A!Link, Hashed

\* A step that leaves log and history alone can only disturb what is said of drafts.
LEMMA BeginKeeps ==
  ASSUME A!AuditChainAssumption, ChainInv, NEW w \in Writer, A!Begin(w) PROVE ChainInv'
<1>1. /\ draft[w] = A!NoRow /\ UNCHANGED <<log, serial, reader, tampered>>
      /\ lapped' = (lapped \/ \E v \in Writer : draft[v] # A!NoRow)
  BY DEF A!Begin
<1>2. PICK now \in {clock, clock + 1} \cap 1 .. MaxRows :
        clock' = now /\ draft' = [draft EXCEPT ![w] = [A!NoRow EXCEPT !.at = now]]
  BY DEF A!Begin
<1>3. clock \in Nat /\ clock' \in Nat /\ clock' \in {clock, clock + 1} /\ now \in 1 .. clock'
  BY <1>2 DEF ChainInv, ChainForm, A!AuditChainAssumption
<1>4. draft'[w].at = now /\ draft'[w].id = 0
  BY <1>2 DEF ChainInv, ChainForm, A!NoRow
<1>5. \A v \in Writer \ {w} : draft'[v] = draft[v]
  BY <1>2 DEF ChainInv, ChainForm
<1>6. draft' = [v \in Writer |-> draft'[v]]
  BY <1>2 DEF ChainInv, ChainForm
<1>7. ChainForm'
  <2>1. lapped' \in BOOLEAN
    BY <1>1
  <2>2. \A v \in Writer : draft'[v] = A!NoRow \/ Begun(v)' \/ Written(v)'
    <3>1. Begun(w)'
      BY <1>2, <1>3, <1>4 DEF Begun
    <3>2. ASSUME NEW v \in Writer \ {w} PROVE draft'[v] = A!NoRow \/ Begun(v)' \/ Written(v)'
      BY <1>1, <1>3, <1>5 DEF ChainInv, ChainForm, Begun, Written
    <3>3. QED BY <3>1, <3>2
  <2>3. \A r \in log : r.at \in 0 .. clock'
    BY <1>3, LogNumbers DEF ChainInv, ChainForm
  <2>4. QED BY <1>1, <1>3, <1>6, <2>1, <2>2, <2>3 DEF ChainInv, ChainForm
<1>8. Numbered'
  BY <1>1, <1>4, <1>5 DEF ChainInv, Numbered
<1>9. Seals'
  BY <1>1 DEF ChainInv, Seals
<1>10. Chained'
  <2> SUFFICES ASSUME ~ lapped', tampered' = {} PROVE Chained'
    BY DEF Chained
  <2>1. ~ lapped /\ \A v \in Writer : draft[v] = A!NoRow
    BY <1>1
  <2>2. \A v \in Writer : draft'[v] # A!NoRow => v = w
    BY <1>5, <2>1
  <2>3. \A s \in log : s.at <= now
    BY <1>2, <1>3 DEF ChainInv, ChainForm
  <2>4. \A v \in Writer : draft'[v].id = 0
    BY <1>4, <1>5, <2>1, EmptyRow
  <2>5. \A r \in log : Hashed(r) => Prior(r) = {} \/ r.prev = A!Newest(Prior(r)).hash
    BY <1>1, <2>1 DEF ChainInv, Chained
  <2>6. QED BY <1>1, <1>4, <2>1, <2>2, <2>3, <2>4, <2>5 DEF ChainInv, Chained, Prior
<1>11. QED BY <1>7, <1>8, <1>9, <1>10 DEF ChainInv

\* The trigger numbers the row, links it to the newest and seals it.
LEMMA InsertKeeps ==
  ASSUME A!AuditChainAssumption, ChainInv, NEW w \in Writer, A!Insert(w) PROVE ChainInv'
<1> DEFINE new == [id |-> serial + 1, at |-> draft[w].at, text |-> "said", prev |-> A!Link(log),
                   hash |-> A!Hash("said", draft[w].at, A!Link(log))]
<1>1. /\ draft[w].at # 0 /\ draft[w].id = 0 /\ serial < MaxRows /\ serial' = serial + 1
      /\ draft' = [draft EXCEPT ![w] = new]
      /\ UNCHANGED <<log, clock, reader, tampered, lapped>>
  BY DEF A!Insert
<1>2. serial \in Nat /\ serial' \in 1 .. MaxRows
  BY <1>1 DEF ChainInv, ChainForm, A!AuditChainAssumption
<1>3. draft'[w] = new /\ \A v \in Writer \ {w} : draft'[v] = draft[v]
  BY <1>1 DEF ChainInv, ChainForm
<1>4. draft' = [v \in Writer |-> draft'[v]]
  BY <1>1 DEF ChainInv, ChainForm
<1>5. draft[w].at \in 1 .. clock
  BY <1>1, EmptyRow DEF ChainInv, ChainForm, Begun, Written
<1>6. /\ new.id = serial' /\ new.at = draft[w].at /\ new.prev = A!Link(log)
      /\ IsRow(new) /\ Sealed(new)
  BY <1>1 DEF IsRow, Sealed
<1> HIDE DEF new
<1>7. ChainForm'
  <2>1. Written(w)'
    BY <1>1, <1>2, <1>3, <1>5, <1>6 DEF Written
  <2>2. ASSUME NEW v \in Writer \ {w} PROVE draft'[v] = A!NoRow \/ Begun(v)' \/ Written(v)'
    BY <1>1, <1>2, <1>3 DEF ChainInv, ChainForm, Begun, Written
  <2>3. \A r \in log \cup tampered : r.id \in 0 .. serial'
    BY <1>1, <1>2 DEF ChainInv, ChainForm
  <2>4. QED BY <1>1, <1>2, <1>4, <2>1, <2>2, <2>3 DEF ChainInv, ChainForm
<1>8. Numbered'
  <2>1. \A v \in Writer : draft[v].id # serial'
    BY <1>1, <1>2, EmptyRow DEF ChainInv, ChainForm, Begun, Written
  <2>2. \A r \in log \cup tampered : r.id # serial'
    BY <1>1, <1>2 DEF ChainInv, ChainForm
  <2>3. QED BY <1>1, <1>3, <1>6, <2>1, <2>2 DEF ChainInv, Numbered
<1>9. Seals'
  BY <1>1 DEF ChainInv, Seals
<1>10. Chained'
  <2> SUFFICES ASSUME ~ lapped', tampered' = {} PROVE Chained'
    BY DEF Chained
  <2>1. ~ lapped /\ tampered = {}
    BY <1>1
  <2>2. draft[w] # A!NoRow
    BY <1>1, EmptyRow
  <2>3. \A v \in Writer \ {w} : draft'[v] = A!NoRow
    BY <1>3, <2>1, <2>2 DEF ChainInv, Chained
  <2>4. \A s \in log : s.at <= new.at /\ s.id < new.id
    BY <1>1, <1>2, <1>6, <2>1, <2>2 DEF ChainInv, ChainForm, Chained
  <2>5. draft'[w].prev = A!Link(log)
    BY <1>3, <1>6
  <2>6. \A v, u \in Writer : draft'[v] # A!NoRow /\ draft'[u] # A!NoRow => v = u
    BY <2>3
  <2>7. \A v \in Writer : draft'[v] # A!NoRow => \A s \in log : s.at <= draft'[v].at
    BY <1>3, <2>3, <2>4
  <2>8. \A v \in Writer : draft'[v].id # 0 =>
           draft'[v].prev = A!Link(log) /\ \A s \in log : s.id < draft'[v].id
    BY <1>3, <2>3, <2>4, <2>5, EmptyRow
  <2>9. \A r \in log : Hashed(r) => Prior(r) = {} \/ r.prev = A!Newest(Prior(r)).hash
    BY <2>1 DEF ChainInv, Chained
  <2>10. QED BY <1>1, <2>1, <2>6, <2>7, <2>8, <2>9 DEF ChainInv, Chained, Prior
<1>11. QED BY <1>7, <1>8, <1>9, <1>10 DEF ChainInv

\* The row comes to lie after all that are there, linked to the last of them.
LEMMA CommitKeeps ==
  ASSUME A!AuditChainAssumption, NullIsNoHash, ChainInv, NEW w \in Writer, A!Commit(w) PROVE ChainInv'
<1> DEFINE d == draft[w]
<1>1. /\ d.id # 0 /\ log' = log \cup {d} /\ draft' = [draft EXCEPT ![w] = A!NoRow]
      /\ UNCHANGED <<clock, serial, reader, tampered, lapped>>
  BY DEF A!Commit
<1>2. draft'[w] = A!NoRow /\ \A v \in Writer \ {w} : draft'[v] = draft[v]
  BY <1>1 DEF ChainInv, ChainForm
<1>3. draft' = [v \in Writer |-> draft'[v]]
  BY <1>1 DEF ChainInv, ChainForm
<1>4. Written(w)
  BY <1>1, EmptyRow DEF ChainInv, ChainForm, Begun
<1>5. /\ d.id \in 1 .. serial /\ d.at \in 1 .. clock /\ IsRow(d) /\ Sealed(d) /\ Hashed(d)
      /\ d # A!NoRow
  BY <1>4, EmptyRow DEF Written, Sealed, Hashed, NullIsNoHash
<1>6. \A r \in log \cup tampered : r.id # d.id
  BY <1>1 DEF ChainInv, Numbered
<1> HIDE DEF d
<1>7. ChainForm'
  <2>1. IsFiniteSet(log')
    BY <1>1, FS_AddElement DEF ChainInv, ChainForm
  <2>2. \A r \in log' : /\ IsRow(r) /\ r.id \in 0 .. serial /\ r.at \in 0 .. clock
                        /\ ~ Hashed(r) => r.id = 0 /\ r.at = 0
                        /\ Hashed(r) => r.id # 0
    BY <1>1, <1>5 DEF ChainInv, ChainForm
  <2>3. \A v \in Writer : draft'[v] = A!NoRow \/ Begun(v)' \/ Written(v)'
    BY <1>1, <1>2 DEF ChainInv, ChainForm, Begun, Written
  <2>4. QED BY <1>1, <1>3, <2>1, <2>2, <2>3 DEF ChainInv, ChainForm
<1>8. Numbered'
  <2>1. \A r, s \in log' : r.id = s.id => r = s
    BY <1>1, <1>6 DEF ChainInv, Numbered
  <2>2. \A v \in Writer : draft'[v].id # 0 =>
           draft'[v].id = draft[v].id /\ v # w
    BY <1>2, EmptyRow
  <2>3. \A u, v \in Writer : draft'[u].id # 0 /\ draft'[u].id = draft'[v].id => u = v
    BY <2>2 DEF ChainInv, Numbered
  <2>4. \A v \in Writer \ {w} : draft[v].id # 0 => draft[v].id # d.id
    BY DEF ChainInv, Numbered, d
  <2>5. ASSUME NEW v \in Writer, draft'[v].id # 0, NEW r \in log' \cup tampered
        PROVE  r.id # draft'[v].id
    BY <1>1, <2>2, <2>4, <2>5 DEF ChainInv, Numbered
  <2>6. QED BY <1>1, <2>1, <2>3, <2>5 DEF Numbered
<1>9. Seals'
  <2>1. tampered = {} => \A r \in log' : Hashed(r) => Sealed(r)
    BY <1>1, <1>5 DEF ChainInv, Seals
  <2>2. \A t \in tampered : \A r \in log' : r.id = t.id /\ Hashed(r) => ~ A!RowOk(r)
    BY <1>1, <1>6 DEF ChainInv, Seals
  <2>3. QED BY <1>1, <2>1, <2>2 DEF Seals
<1>10. Chained'
  <2> SUFFICES ASSUME ~ lapped', tampered' = {} PROVE Chained'
    BY DEF Chained
  <2>1. ~ lapped /\ tampered = {}
    BY <1>1
  <2>2. \A v \in Writer : draft'[v] = A!NoRow
    BY <1>2, <1>5, <2>1 DEF ChainInv, Chained, d
  <2>3. \A s \in log : s.at <= d.at /\ s.id < d.id
    BY <1>1, <1>5, <2>1 DEF ChainInv, Chained, d
  <2>4. \A s \in log : A!Before(s, d) /\ ~ A!Before(d, s) /\ s # d
    BY <1>5, <2>3, LogNumbers DEF A!Before, ChainInv
  <2>5. Top(log', d)
    BY <1>1, <2>4 DEF Top
  <2>6. A!Link(log) = d.prev
    BY <1>1, <1>5, <2>1 DEF ChainInv, Chained, d
  <2>7. \A r \in log : Prior(r)' = Prior(r)
    BY <1>1, <2>4 DEF Prior
  <2>8. ASSUME NEW r, r = d PROVE Prior(r)' = {s \in log : Hashed(s)}
    <3>1. ~ A!Before(r, r)
      BY <1>5, <2>8 DEF A!Before
    <3>2. QED BY <1>1, <2>4, <2>8, <3>1 DEF Prior
  <2>9. ASSUME NEW r \in log', Hashed(r)
        PROVE  Prior(r)' = {} \/ r.prev = A!Newest(Prior(r)').hash
    <3>1. CASE r \in log
      BY <2>1, <2>7, <2>9, <3>1 DEF ChainInv, Chained
    <3>2. CASE r = d
      <4>1. CASE log = {}
        BY <2>8, <3>2, <4>1
      <4>2. CASE log # {}
        <5>1. PICK q \in log : Top(log, q)
          BY <2>1, <4>2 DEF ChainInv, Chained
        <5>2. CASE {s \in log : Hashed(s)} # {}
          <6>1. A!Link(log) = A!Newest({s \in log : Hashed(s)}).hash
            BY <5>1, <5>2, LinkFits DEF ChainInv
          <6>2. QED BY <2>6, <2>8, <3>2, <6>1
        <5>3. QED BY <2>8, <3>2, <5>2
      <4>3. QED BY <4>1, <4>2
    <3>3. QED BY <1>1, <3>1, <3>2
  <2>10. \E r \in log' : Top(log', r)
    BY <2>5 DEF Top
  <2>11. \A r \in log' : Hashed(r) => Prior(r)' = {} \/ r.prev = A!Newest(Prior(r)').hash
    BY <2>9
  <2>12. QED BY <2>2, <2>10, <2>11, EmptyRow DEF Chained
<1>11. QED BY <1>7, <1>8, <1>9, <1>10 DEF ChainInv

LEMMA FailKeeps ==
  ASSUME ChainInv, NEW w \in Writer, A!WriteFails(w) PROVE ChainInv'
<1>1. draft' = [draft EXCEPT ![w] = A!NoRow] /\ UNCHANGED <<log, clock, serial, reader, tampered, lapped>>
  BY DEF A!WriteFails
<1>2. draft'[w] = A!NoRow /\ \A v \in Writer \ {w} : draft'[v] = draft[v]
  BY <1>1 DEF ChainInv, ChainForm
<1>3. draft' = [v \in Writer |-> draft'[v]]
  BY <1>1 DEF ChainInv, ChainForm
<1>4. \A v \in Writer : draft'[v] = A!NoRow \/ Begun(v)' \/ Written(v)'
  BY <1>1, <1>2 DEF ChainInv, ChainForm, Begun, Written
<1>5. ChainForm'
  BY <1>1, <1>3, <1>4 DEF ChainInv, ChainForm
<1>6. \A v \in Writer : draft'[v] # A!NoRow \/ draft'[v].id # 0 => draft'[v] = draft[v]
  BY <1>2, EmptyRow
<1>7. Numbered' /\ Seals'
  BY <1>1, <1>6 DEF ChainInv, Numbered, Seals
<1>8. Chained'
  <2> SUFFICES ASSUME ~ lapped', tampered' = {} PROVE Chained'
    BY DEF Chained
  <2>1. ~ lapped /\ tampered = {}
    BY <1>1
  <2>2. \A v, u \in Writer : draft'[v] # A!NoRow /\ draft'[u] # A!NoRow => v = u
    BY <1>6, <2>1 DEF ChainInv, Chained
  <2>3. \A v \in Writer : draft'[v] # A!NoRow => \A s \in log : s.at <= draft'[v].at
    BY <1>6, <2>1 DEF ChainInv, Chained
  <2>4. \A v \in Writer : draft'[v].id # 0 =>
           draft'[v].prev = A!Link(log) /\ \A s \in log : s.id < draft'[v].id
    BY <1>6, <2>1 DEF ChainInv, Chained
  <2>5. \A r \in log : Hashed(r) => Prior(r) = {} \/ r.prev = A!Newest(Prior(r)).hash
    BY <2>1 DEF ChainInv, Chained
  <2>6. QED BY <1>1, <2>1, <2>2, <2>3, <2>4, <2>5 DEF ChainInv, Chained, Prior
<1>9. QED BY <1>5, <1>7, <1>8 DEF ChainInv

\* The hash stays what it was while the text is another.
LEMMA ChangeKeeps ==
  ASSUME ChainInv, NEW r \in log, A!ChangedByHand(r) PROVE ChainInv'
<1> DEFINE forged == [r EXCEPT !.text = "forged"]
<1>1. /\ tampered = {} /\ log' = (log \ {r}) \cup {forged} /\ tampered' = {r}
      /\ UNCHANGED <<draft, clock, serial, reader, lapped>>
  BY DEF A!ChangedByHand
<1>2. IsRow(r)
  BY DEF ChainInv, ChainForm
<1>3. forged = [id |-> r.id, at |-> r.at, text |-> "forged", prev |-> r.prev, hash |-> r.hash]
  BY <1>2 DEF IsRow
<1>4. /\ forged.id = r.id /\ forged.at = r.at /\ forged.hash = r.hash /\ forged.prev = r.prev
      /\ forged.text = "forged" /\ IsRow(forged)
  BY <1>3 DEF IsRow
<1> HIDE DEF forged
<1>5. ChainForm'
  <2>1. IsFiniteSet(log')
    BY <1>1, FS_RemoveElement, FS_AddElement DEF ChainInv, ChainForm
  <2>2. \A s \in log' : /\ IsRow(s) /\ s.id \in 0 .. serial /\ s.at \in 0 .. clock
                        /\ ~ Hashed(s) => s.id = 0 /\ s.at = 0
                        /\ Hashed(s) => s.id # 0
    BY <1>1, <1>4 DEF ChainInv, ChainForm, Hashed
  <2>3. \A v \in Writer : draft'[v] = A!NoRow \/ Begun(v)' \/ Written(v)'
    BY <1>1 DEF ChainInv, ChainForm, Begun, Written
  <2>4. QED BY <1>1, <2>1, <2>2, <2>3 DEF ChainInv, ChainForm
<1>6. Numbered'
  BY <1>1, <1>4 DEF ChainInv, Numbered
<1>7. Seals'
  <2>1. Hashed(forged) => ~ A!RowOk(forged)
    <3>1. Hashed(forged) => r.hash = A!Hash("said", r.at, r.prev)
      BY <1>1, <1>4 DEF ChainInv, Seals, Sealed, Hashed
    <3>2. A!Hash("said", r.at, r.prev) # A!Hash("forged", r.at, r.prev)
      BY DEF A!Hash
    <3>3. QED BY <1>4, <3>1, <3>2 DEF A!RowOk
  <2>2. \A s \in log' : s.id = r.id => s = forged
    BY <1>1 DEF ChainInv, Numbered
  <2>3. QED BY <1>1, <2>1, <2>2 DEF Seals
<1>8. Chained'
  BY <1>1 DEF Chained
<1>9. QED BY <1>5, <1>6, <1>7, <1>8 DEF ChainInv

LEMMA RemovalKeeps ==
  ASSUME ChainInv, NEW r \in log, A!RemovedByHand(r) PROVE ChainInv'
<1>1. /\ log' = log \ {r} /\ tampered' = {r}
      /\ UNCHANGED <<draft, clock, serial, reader, lapped>>
  BY DEF A!RemovedByHand
<1>2. IsFiniteSet(log')
  BY <1>1, FS_RemoveElement DEF ChainInv, ChainForm
<1>3. \A v \in Writer : draft'[v] = A!NoRow \/ Begun(v)' \/ Written(v)'
  BY <1>1 DEF ChainInv, ChainForm, Begun, Written
<1>4. ChainForm'
  BY <1>1, <1>2, <1>3 DEF ChainInv, ChainForm
<1>5. Numbered'
  BY <1>1 DEF ChainInv, Numbered
<1>6. Seals'
  BY <1>1 DEF ChainInv, Numbered, Seals
<1>7. Chained'
  BY <1>1 DEF Chained
<1>8. QED BY <1>4, <1>5, <1>6, <1>7 DEF ChainInv

\* Readers leave the log alone.
LEMMA ReadersKeep ==
  ASSUME ChainInv, UNCHANGED <<log, draft, clock, serial, tampered, lapped>> PROVE ChainInv'
<1>1. ChainForm'
  BY DEF ChainInv, ChainForm, Begun, Written
<1>2. Numbered' /\ Seals'
  BY DEF ChainInv, Numbered, Seals
<1>3. Chained'
  BY DEF ChainInv, Chained, Prior
<1>4. QED BY <1>1, <1>2, <1>3 DEF ChainInv

LEMMA AuditStep ==
  ASSUME A!AuditChainAssumption, NullIsNoHash, ChainInv, [A!Next]_(A!vars) PROVE ChainInv'
<1>1. ASSUME NEW w \in Writer, A!Begin(w) \/ A!Insert(w) \/ A!Commit(w) \/ A!WriteFails(w) PROVE ChainInv'
  BY <1>1, BeginKeeps, InsertKeeps, CommitKeeps, FailKeeps
<1>2. ASSUME NEW r \in log, A!ChangedByHand(r) \/ A!RemovedByHand(r) PROVE ChainInv'
  BY <1>2, ChangeKeeps, RemovalKeeps
<1>3. CASE A!StartWalk
  BY <1>3, ReadersKeep DEF A!StartWalk
<1>4. CASE A!NextPage
  BY <1>4, ReadersKeep DEF A!NextPage
<1>5. CASE A!PageFails
  BY <1>5, ReadersKeep DEF A!PageFails
<1>6. CASE UNCHANGED A!vars
  BY <1>6, ReadersKeep DEF A!vars
<1>7. QED BY <1>1, <1>2, <1>3, <1>4, <1>5, <1>6 DEF A!Next

LEMMA AuditInvariant ==
  ASSUME A!AuditChainAssumption, NullIsNoHash PROVE A!Spec => []ChainInv
<1>1. A!Init => ChainInv BY AuditInit
<1>2. ChainInv /\ [A!Next]_(A!vars) => ChainInv' BY AuditStep
<1>3. QED BY <1>1, <1>2, PTL DEF A!Spec

\* The sizes of sets are what they are in every module.
LEMMA AuditCounts ==
  ASSUME NEW U PROVE A!Cardinality(U) = Cardinality(U)
  BY Zenon DEF A!Cardinality, Cardinality

\* The rows that come before a row in the window are in the window.
LEMMA WindowIsPrefix ==
  ASSUME A!AuditChainAssumption, ChainForm, NEW r \in A!Walked
  PROVE  {s \in A!Walked : A!Before(s, r)} = Prior(r)
<1> DEFINE Less(q) == {s \in log : A!Before(s, q)}
<1>1. r \in log /\ Cardinality(Less(r)) < Window
  BY AuditCounts DEF A!Walked
<1>2. ASSUME NEW s \in Prior(r) PROVE s \in A!Walked
  <2>1. s \in log /\ A!Before(s, r) /\ s.hash # NoHash
    BY DEF Prior, Hashed
  <2>2. Less(s) \subseteq Less(r)
    <3>1. ASSUME NEW q \in log, A!Before(q, s) PROVE A!Before(q, r)
      BY <1>1, <2>1, <3>1, LogNumbers DEF A!Before
    <3>2. QED BY <3>1
  <2>3. IsFiniteSet(Less(r))
    <3>1. Less(r) \in SUBSET log
      OBVIOUS
    <3>2. QED BY <3>1, FS_Subset DEF ChainForm
  <2>4. Cardinality(Less(s)) <= Cardinality(Less(r)) /\ IsFiniteSet(Less(s))
    <3>1. Less(s) \in SUBSET Less(r)
      BY <2>2
    <3> HIDE DEF Less
    <3>2. QED BY <2>3, <3>1, FS_Subset
  <2>5. Cardinality(Less(s)) \in Nat /\ Cardinality(Less(r)) \in Nat /\ Window \in Nat
    <3> HIDE DEF Less
    <3>1. QED BY <2>3, <2>4, FS_CardinalityType DEF A!AuditChainAssumption
  <2>6. Cardinality(Less(s)) < Window
    <3> HIDE DEF Less
    <3>1. QED BY <1>1, <2>4, <2>5
  <2>7. QED BY <2>1, <2>6, AuditCounts DEF A!Walked
<1>3. \A s \in A!Walked : s \in log /\ Hashed(s)
  BY DEF A!Walked, Hashed
<1>4. QED BY <1>2, <1>3 DEF Prior

LEMMA ChainVerifies ==
  ASSUME A!AuditChainAssumption, ChainInv PROVE A!UntouchedVerifies
<1> SUFFICES ASSUME ~ lapped, tampered = {}, NEW r \in A!Walked PROVE A!RowOk(r) /\ A!LinkOk(r)
  BY DEF A!UntouchedVerifies, A!Breaks
<1>1. r \in log /\ Hashed(r)
  BY DEF A!Walked, Hashed
<1>2. A!RowOk(r)
  BY <1>1 DEF ChainInv, Seals, Sealed, A!RowOk
<1>3. Prior(r) = {} \/ r.prev = A!Newest(Prior(r)).hash
  BY <1>1 DEF ChainInv, Chained
<1>4. A!LinkOk(r)
  BY <1>3, WindowIsPrefix DEF A!LinkOk, ChainInv
<1>5. QED BY <1>2, <1>4

\* record and verify_chain: as long as no two appends overlap, an untouched log
\* verifies, however many rows it has and however few of them are walked.
THEOREM UntouchedLogVerifies ==
  ASSUME A!AuditChainAssumption, NullIsNoHash PROVE A!Spec => []A!UntouchedVerifies
<1>1. ChainInv => A!UntouchedVerifies BY ChainVerifies
<1>2. QED BY <1>1, AuditInvariant, PTL

\* verify_chain: a row changed by hand is reported at that row whenever it is in
\* the window, whatever overlapped.
THEOREM ChangesShow ==
  ASSUME A!AuditChainAssumption, NullIsNoHash PROVE A!Spec => []A!ChangeShows
<1>1. ASSUME ChainInv, NEW t \in tampered, NEW r \in A!Walked, r.id = t.id PROVE r \in A!Breaks
  <2>1. r \in log /\ Hashed(r)
    BY DEF A!Walked, Hashed
  <2>2. ~ A!RowOk(r)
    BY <1>1, <2>1 DEF ChainInv, Seals
  <2>3. QED BY <2>2 DEF A!Breaks
<1>2. ChainInv => A!ChangeShows
  BY <1>1 DEF A!ChangeShows
<1>3. QED BY <1>2, AuditInvariant, PTL

\* The rows, the drafts and the counters keep their types.
THEOREM AuditTypes ==
  ASSUME A!AuditChainAssumption, NullIsNoHash PROVE A!Spec => []A!TypeOK
<1>1. ChainInv => A!TypeOK
  <2>1. ASSUME ChainInv, NEW w \in Writer PROVE draft[w].at \in 0 .. clock
    BY <2>1, EmptyRow DEF ChainInv, ChainForm, Begun, Written
  <2>2. QED BY <2>1 DEF ChainInv, ChainForm, Numbered, A!TypeOK
<1>2. QED BY <1>1, AuditInvariant, PTL

\* A removed row had its instant.
RowsPlaced == \A t \in tampered : t.at \in Nat

Touched(i) == \E t \in tampered : t.id = i
Noted(i) == Touched(i) \/ \E r \in log : r.id = i

\* What a reader is due is in the log yet, unless a hand touched it; once the reader
\* is told of the end, it has it.
Paging ==
    /\ reader = [on |-> reader.on, got |-> reader.got, again |-> reader.again,
                 due |-> reader.due, cut |-> reader.cut]
    /\ reader.on \in BOOLEAN
    /\ \A i \in reader.due : Noted(i)
    /\ reader # A!NoWalk /\ ~ reader.on /\ ~ reader.cut =>
          \A i \in reader.due : i \in reader.got \/ Touched(i)

AuditInv == ChainInv /\ RowsPlaced /\ Paging

\* Rows of one log come one after the other.
LEMMA OneByOne ==
  ASSUME ChainForm, Numbered, NEW r \in log, NEW s \in log, r # s
  PROVE  (A!Before(r, s) /\ ~ A!Before(s, r)) \/ (A!Before(s, r) /\ ~ A!Before(r, s))
<1>1. r.id \in Nat /\ r.at \in Nat /\ s.id \in Nat /\ s.at \in Nat
  BY LogNumbers
<1>2. r.id # s.id
  BY DEF Numbered
<1>3. QED BY <1>1, <1>2 DEF A!Before

\* How many rows of a set come after a row tells where it stands.
Above(S, r) == {s \in S : A!Before(r, s)}

LEMMA AboveCounts ==
  ASSUME ChainForm, Numbered, NEW S \in SUBSET log, NEW r \in S
  PROVE  /\ IsFiniteSet(S) /\ Cardinality(S) \in Nat
         /\ IsFiniteSet(Above(S, r)) /\ Cardinality(Above(S, r)) \in Nat
         /\ Cardinality(Above(S, r)) < Cardinality(S)
<1>1. IsFiniteSet(S)
  BY FS_Subset DEF ChainForm
<1>2. Above(S, r) \in SUBSET (S \ {r})
  <2>1. ~ A!Before(r, r)
    BY LogNumbers DEF A!Before
  <2>2. QED BY <2>1 DEF Above
<1>3. IsFiniteSet(S \ {r}) /\ Cardinality(S \ {r}) = Cardinality(S) - 1
  BY <1>1, FS_RemoveElement
<1>4. IsFiniteSet(Above(S, r)) /\ Cardinality(Above(S, r)) <= Cardinality(S \ {r})
  BY <1>2, <1>3, FS_Subset
<1>5. Cardinality(S) \in Nat /\ Cardinality(Above(S, r)) \in Nat
  BY <1>1, <1>4, FS_CardinalityType
<1>6. QED BY <1>1, <1>3, <1>4, <1>5

LEMMA AboveShrinks ==
  ASSUME ChainForm, Numbered, NEW S \in SUBSET log, NEW r \in S, NEW q \in S, A!Before(r, q)
  PROVE  Cardinality(Above(S, q)) < Cardinality(Above(S, r))
<1>1. Above(S, q) \in SUBSET Above(S, r)
  <2>1. ASSUME NEW s \in S, A!Before(q, s) PROVE A!Before(r, s)
    <3>1. r \in log /\ q \in log /\ s \in log
      OBVIOUS
    <3>2. QED BY <2>1, <3>1, LogNumbers DEF A!Before
  <2>2. QED BY <2>1 DEF Above
<1>2. q \in Above(S, r) /\ q \notin Above(S, q)
  <2>1. ~ A!Before(q, q)
    BY LogNumbers DEF A!Before
  <2>2. QED BY <2>1 DEF Above
<1>3. /\ IsFiniteSet(Above(S, r)) /\ Cardinality(Above(S, r)) \in Nat
      /\ Cardinality(Above(S, q)) \in Nat
  BY AboveCounts
<1>4. Cardinality(Above(S, q)) <= Cardinality(Above(S, r))
  BY <1>1, <1>3, FS_Subset
<1>5. Cardinality(Above(S, q)) # Cardinality(Above(S, r))
  BY <1>1, <1>2, <1>3, FS_Subset
<1>6. QED BY <1>3, <1>4, <1>5

LEMMA NumbersDescend == IsWellFoundedOn({d \in Nat \X Nat : d[1] < d[2]}, Nat)
  BY NatLessThanWellFounded DEF OpToRel

\* There is a newest row in any set of rows.
LEMMA TopExists ==
  ASSUME ChainForm, Numbered, NEW S \in SUBSET log, S # {}
  PROVE  \E q \in S : Top(S, q)
<1> DEFINE R == {d \in Nat \X Nat : d[1] < d[2]}
           N == {Cardinality(Above(S, r)) : r \in S}
<1>1. N \in SUBSET Nat /\ N # {}
  BY AboveCounts
<1>2. IsWellFoundedOn(R, Nat)
  BY NumbersDescend
<1>3. \E x \in N : \A y \in N : ~ (<<y, x>> \in R)
  <2> HIDE DEF R, N
  <2>1. QED BY <1>1, <1>2, WFMin
<1>4. PICK q \in S : \A r \in S : ~ (Cardinality(Above(S, r)) < Cardinality(Above(S, q)))
  <2>1. PICK x \in N : \A y \in N : ~ (<<y, x>> \in R)
    BY <1>3
  <2>2. PICK q \in S : x = Cardinality(Above(S, q))
    BY <2>1
  <2>3. \A r \in S : Cardinality(Above(S, r)) \in Nat
    BY AboveCounts
  <2>4. QED BY <2>1, <2>2, <2>3
<1>5. ASSUME NEW s \in S \ {q} PROVE A!Before(s, q)
  <2>1. CASE A!Before(q, s)
    BY <1>4, <2>1, AboveShrinks
  <2>2. CASE ~ A!Before(q, s)
    BY <2>2, OneByOne
  <2>3. QED BY <2>1, <2>2
<1>6. QED BY <1>5 DEF Top

\* A removed row that a later row in the window is linked to leaves a break there.
LEMMA RemovalBreaks ==
  ASSUME A!AuditChainAssumption, ChainInv, RowsPlaced PROVE A!RemovalShows
<1> SUFFICES ASSUME NEW t \in tampered, \A r \in log : r.id # t.id /\ r.hash # t.hash,
                    NEW r \in A!Walked, NEW s \in A!Walked, A!Before(r, t), A!Before(t, s),
                    s.prev = t.hash
             PROVE  s \in A!Breaks
  BY DEF A!RemovalShows
<1> DEFINE P == {q \in A!Walked : A!Before(q, s)}
<1>1. r \in log /\ s \in log /\ P \in SUBSET log
  BY DEF A!Walked
<1>2. r \in P
  <2>1. /\ r.id \in Nat /\ r.at \in Nat /\ s.id \in Nat /\ s.at \in Nat
        /\ t.id \in Nat /\ t.at \in Nat
    BY <1>1, LogNumbers DEF ChainInv, ChainForm, RowsPlaced
  <2>2. A!Before(r, s)
    BY <2>1 DEF A!Before
  <2>3. QED BY <2>2
<1>3. PICK q \in P : Top(P, q)
  <2> HIDE DEF P
  <2>1. QED BY <1>1, <1>2, TopExists DEF ChainInv
<1>4. A!Newest(P) = q
  <2>1. \A p \in P : p.id \in Nat /\ p.at \in Nat
    BY <1>1, LogNumbers DEF ChainInv
  <2> HIDE DEF P
  <2>2. QED BY <1>3, <2>1, NewestIsTop
<1>5. q.hash # t.hash
  BY <1>1
<1>6. ~ A!LinkOk(s)
  BY <1>2, <1>4, <1>5 DEF A!LinkOk
<1>7. QED BY <1>6 DEF A!Breaks

LEMMA PagingInit ==
  ASSUME A!AuditChainAssumption, A!Init PROVE AuditInv
<1>1. ChainInv
  BY AuditInit
<1>2. reader = A!NoWalk /\ tampered = {}
  BY DEF A!Init
<1>3. Paging
  BY <1>2 DEF Paging, A!NoWalk
<1>4. QED BY <1>1, <1>2, <1>3 DEF AuditInv, RowsPlaced

LEMMA PlacedStep ==
  ASSUME A!AuditChainAssumption, ChainInv, RowsPlaced, [A!Next]_(A!vars) PROVE RowsPlaced'
<1>1. ASSUME NEW r \in log, A!ChangedByHand(r) \/ A!RemovedByHand(r) PROVE RowsPlaced'
  <2>1. tampered' = {r}
    BY <1>1 DEF A!ChangedByHand, A!RemovedByHand
  <2>2. r.at \in Nat
    BY LogNumbers DEF ChainInv
  <2>3. QED BY <2>1, <2>2 DEF RowsPlaced
<1>2. ASSUME tampered' = tampered PROVE RowsPlaced'
  BY <1>2 DEF RowsPlaced
<1>3. ASSUME NEW w \in Writer, A!Begin(w) \/ A!Insert(w) \/ A!Commit(w) \/ A!WriteFails(w)
      PROVE  tampered' = tampered
  BY <1>3 DEF A!Begin, A!Insert, A!Commit, A!WriteFails
<1>4. CASE A!StartWalk \/ A!NextPage \/ A!PageFails \/ UNCHANGED A!vars
  BY <1>2, <1>4 DEF A!StartWalk, A!NextPage, A!PageFails, A!vars
<1>5. QED BY <1>1, <1>2, <1>3, <1>4 DEF A!Next

\* What writers and hands do to the log costs a reader nothing it is due.
LEMMA WalkIsLeft ==
  ASSUME Paging, reader' = reader, \A i : Noted(i) => Noted(i)', \A i : Touched(i) => Touched(i)'
  PROVE  Paging'
  BY DEF Paging

LEMMA WritersLeaveWalk ==
  ASSUME A!AuditChainAssumption, AuditInv,
         \/ \E w \in Writer : A!Begin(w) \/ A!Insert(w) \/ A!Commit(w) \/ A!WriteFails(w)
         \/ \E r \in log : A!ChangedByHand(r) \/ A!RemovedByHand(r)
         \/ UNCHANGED A!vars
  PROVE  Paging'
<1>1. ASSUME log' = log \/ (\E w \in Writer : log' = log \cup {draft[w]}),
             tampered' = tampered, reader' = reader
      PROVE  Paging'
  <2>1. \A i : (Touched(i) => Touched(i)') /\ (Noted(i) => Noted(i)')
    BY <1>1 DEF Noted, Touched
  <2>2. QED BY <1>1, <2>1, WalkIsLeft DEF AuditInv
<1>2. ASSUME NEW r \in log, A!ChangedByHand(r) \/ A!RemovedByHand(r) PROVE Paging'
  <2>1. /\ tampered = {} /\ tampered' = {r} /\ reader' = reader
        /\ \A s \in log \ {r} : s \in log'
    BY <1>2 DEF A!ChangedByHand, A!RemovedByHand
  <2>2. \A i : (Touched(i) => Touched(i)') /\ (Noted(i) => Noted(i)')
    BY <2>1 DEF Noted, Touched
  <2>3. QED BY <2>1, <2>2, WalkIsLeft DEF AuditInv
<1>3. ASSUME NEW w \in Writer, A!Begin(w) \/ A!Insert(w) \/ A!Commit(w) \/ A!WriteFails(w)
      PROVE  Paging'
  BY <1>1, <1>3 DEF A!Begin, A!Insert, A!Commit, A!WriteFails
<1>4. CASE UNCHANGED A!vars
  BY <1>1, <1>4 DEF A!vars
<1>5. QED BY <1>2, <1>3, <1>4

LEMMA StartsToWalk ==
  ASSUME A!AuditChainAssumption, AuditInv, A!StartWalk PROVE Paging'
<1>1. /\ UNCHANGED <<log, tampered>>
      /\ reader' = [A!NoWalk EXCEPT !.on = TRUE, !.due = {r.id : r \in log}]
  BY DEF A!StartWalk
<1>2. /\ reader' = [on |-> reader'.on, got |-> reader'.got, again |-> reader'.again,
                    due |-> reader'.due, cut |-> reader'.cut]
      /\ reader'.on = TRUE /\ reader'.due = {r.id : r \in log}
  BY <1>1 DEF A!NoWalk
<1>3. QED BY <1>1, <1>2 DEF Paging, Noted, Touched

LEMMA PageIsCut ==
  ASSUME A!AuditChainAssumption, AuditInv, A!PageFails PROVE Paging'
<1>1. /\ UNCHANGED <<log, tampered>>
      /\ reader' = [reader EXCEPT !.on = FALSE, !.cut = TRUE]
  BY DEF A!PageFails
<1>2. /\ reader' = [on |-> reader'.on, got |-> reader'.got, again |-> reader'.again,
                    due |-> reader'.due, cut |-> reader'.cut]
      /\ reader'.on = FALSE /\ reader'.cut = TRUE /\ reader'.due = reader.due
  BY <1>1 DEF AuditInv, Paging
<1>3. QED BY <1>1, <1>2 DEF AuditInv, Paging, Noted, Touched

\* A page without a next one holds the whole log.
LEMMA Turns ==
  ASSUME A!AuditChainAssumption, AuditInv, A!NextPage PROVE Paging'
<1> DEFINE page == {r.id : r \in A!Page(log, PageSize)}
<1>1. /\ UNCHANGED <<log, tampered>> /\ reader.on
      /\ reader' = [reader EXCEPT !.on = A!More(log), !.got = reader.got \cup page,
                                  !.again = reader.again \/ page \cap reader.got # {}]
  BY DEF A!NextPage
<1>2. /\ reader' = [on |-> reader'.on, got |-> reader'.got, again |-> reader'.again,
                    due |-> reader'.due, cut |-> reader'.cut]
      /\ reader'.on = A!More(log) /\ reader'.got = reader.got \cup page
      /\ reader'.due = reader.due
  <2> HIDE DEF page
  <2>1. QED BY <1>1 DEF AuditInv, Paging
<1>3. A!More(log) \in BOOLEAN
  BY DEF A!More
<1>4. ASSUME ~ A!More(log), NEW r \in log PROVE r.id \in page
  <2>1. Cardinality(log) \in Nat /\ Cardinality(log) <= PageSize
    <3>1. Cardinality(log) \in Nat
      BY FS_CardinalityType DEF AuditInv, ChainInv, ChainForm
    <3>2. QED BY <1>4, <3>1, AuditCounts DEF A!More, A!AuditChainAssumption
  <2>2. Cardinality(Above(log, r)) \in Nat /\ Cardinality(Above(log, r)) < Cardinality(log)
    BY AboveCounts DEF AuditInv, ChainInv
  <2>3. Cardinality(Above(log, r)) < PageSize
    BY <2>1, <2>2 DEF A!AuditChainAssumption
  <2>4. r \in A!Page(log, PageSize)
    BY <2>3, AuditCounts DEF A!Page, Above
  <2>5. QED BY <2>4
<1>5. ASSUME ~ reader'.on, NEW i \in reader'.due PROVE i \in reader'.got \/ Touched(i)'
  <2>1. Noted(i)
    BY <1>2 DEF AuditInv, Paging
  <2>2. CASE Touched(i)
    BY <1>1, <2>2 DEF Touched
  <2>3. CASE \E r \in log : r.id = i
    BY <1>2, <1>4, <1>5, <2>3
  <2>4. QED BY <2>1, <2>2, <2>3 DEF Noted
<1>6. \A i \in reader'.due : Noted(i)'
  BY <1>1, <1>2 DEF AuditInv, Paging, Noted, Touched
<1>7. QED BY <1>2, <1>3, <1>5, <1>6 DEF Paging

LEMMA PagingStep ==
  ASSUME A!AuditChainAssumption, NullIsNoHash, AuditInv, [A!Next]_(A!vars) PROVE AuditInv'
<1>1. ChainInv' /\ RowsPlaced'
  BY AuditStep, PlacedStep DEF AuditInv
<1>2. Paging'
  BY WritersLeaveWalk, StartsToWalk, Turns, PageIsCut DEF A!Next
<1>3. QED BY <1>1, <1>2 DEF AuditInv

LEMMA PagingInvariant ==
  ASSUME A!AuditChainAssumption, NullIsNoHash PROVE A!Spec => []AuditInv
<1>1. A!Init => AuditInv BY PagingInit
<1>2. AuditInv /\ [A!Next]_(A!vars) => AuditInv' BY PagingStep
<1>3. QED BY <1>1, <1>2, PTL DEF A!Spec

\* verify_chain: a row removed by hand is reported once a row in the window is
\* linked to it and an earlier one is left, unless its twin takes its place.
THEOREM RemovalsShow ==
  ASSUME A!AuditChainAssumption, NullIsNoHash PROVE A!Spec => []A!RemovalShows
<1>1. AuditInv => A!RemovalShows BY RemovalBreaks DEF AuditInv
<1>2. QED BY <1>1, PagingInvariant, PTL

\* list_paged: whatever is appended, changed or removed between two pages, a reader
\* told that there are no more rows was given every row that was there when it
\* began and that no hand touched.
THEOREM EndsAreTrue ==
  ASSUME A!AuditChainAssumption, NullIsNoHash PROVE A!Spec => []A!EndOfLogIsTrue
<1>1. AuditInv => A!EndOfLogIsTrue
  BY DEF AuditInv, Paging, Touched, A!EndOfLogIsTrue
<1>2. QED BY <1>1, PagingInvariant, PTL

-----------------------------------------------------------------------------
(* Data privacy: what an erasure leaves, and how often a job ends.              *)

Erases(w) == walk[w].job # NoJob /\ KindOf[walk[w].job] = "delete"
\* A table an erasure is done with.
Cleared(t) == t \in listed /\ \A r \in stored : TableOf[r] = t => D!Excused(r)

WalkKept(w) ==
    /\ walk[w].job \notin walk[w].todo
    /\ Erases(w) => \A i \in DOMAIN DeleteOrder : i < walk[w].k => Cleared(DeleteOrder[i])
    /\ walk[w].rows # {} =>
          /\ Erases(w) /\ walk[w].k \in DOMAIN DeleteOrder
          /\ DeleteOrder[walk[w].k] \in listed
          /\ \A r \in walk[w].rows : TableOf[r] = DeleteOrder[walk[w].k]
          /\ \A r \in stored : TableOf[r] = DeleteOrder[walk[w].k] =>
                r \in walk[w].rows \/ D!Excused(r)

Erased == \A t \in Table : Cleared(t)
Settled == {"completed", "failed", "cancelled"}
HandsKept ==
    /\ \A v, w \in Walker, j \in Job : D!HasJob(v, j) /\ D!HasJob(w, j) /\ v # w => j \in shared
    /\ \A w \in Walker, j \in Job : D!HasJob(w, j) => job[j] # "absent"
    /\ \A w \in Walker, j \in Job : D!HasJob(w, j) /\ job[j] \in Settled => j \in shared
    /\ \A j \in quiet : job[j] = "cancelled" /\ \A w \in Walker : ~ D!HasJob(w, j)

PrivacyInv ==
    /\ D!TypeOK /\ HandsKept
    /\ \A w \in Walker : WalkKept(w)
    /\ (\E j \in Job : KindOf[j] = "delete" /\ job[j] = "completed") => Erased

LEMMA PrivacyInit ==
  ASSUME D!DataPrivacyAssumption, D!Init PROVE PrivacyInv
<1>1. /\ \A w \in Walker : walk[w] = D!IdleWalk
      /\ \A j \in Job : job[j] = "absent"
      /\ quiet = {} /\ stored \subseteq Row
  BY DEF D!Init
<1>2. D!IdleWalk \in D!Walks
  BY DEF D!IdleWalk, D!Walks
<1>3. D!TypeOK
  <2>1. walk \in [Walker -> D!Walks]
    BY <1>2 DEF D!Init
  <2>2. job \in [Job -> D!DataJobStatus] /\ hold \in [Editor -> (Row \ unborn) \cup {Nothing}]
    BY DEF D!Init, D!DataJobStatus
  <2>3. /\ stored \subseteq Row /\ unborn \subseteq Row \ stored
        /\ elapsed \subseteq Job /\ shared \subseteq Job /\ quiet \subseteq Job
        /\ listed \subseteq Table /\ late \subseteq Row
    BY DEF D!Init
  <2>4. walks \in Nat /\ edits \in Nat
    BY DEF D!Init
  <2>5. QED BY <2>1, <2>2, <2>3, <2>4 DEF D!TypeOK
<1>4. \A w \in Walker : walk[w].job = NoJob /\ walk[w].todo = {} /\ walk[w].rows = {}
  BY <1>1 DEF D!IdleWalk
<1>5. \A w \in Walker, j \in Job : ~ D!HasJob(w, j)
  BY <1>4 DEF D!HasJob, D!DataPrivacyAssumption
<1>6. HandsKept
  BY <1>1, <1>5 DEF HandsKept
<1>7. \A w \in Walker : WalkKept(w)
  BY <1>4 DEF WalkKept, Erases
<1>8. QED BY <1>1, <1>3, <1>6, <1>7 DEF PrivacyInv

\* What each action does to the walk that takes it.
LEMMA WalkFields ==
  ASSUME D!DataPrivacyAssumption, D!TypeOK, NEW w \in Walker
  PROVE  /\ D!RunPending(w) => walk' = [walk EXCEPT ![w] =
               [on |-> TRUE, due |-> elapsed, todo |-> D!Pending, job |-> NoJob, k |-> 1, rows |-> {}]]
         /\ \A rest : rest \subseteq Row => D!Left(w, rest) = [walk EXCEPT ![w] =
               [on |-> walk[w].on, due |-> walk[w].due, todo |-> walk[w].todo, job |-> walk[w].job,
                k |-> IF rest = {} THEN walk[w].k + 1 ELSE walk[w].k, rows |-> rest]]
         /\ D!EndJob(w) => walk' = [walk EXCEPT ![w] =
               [on |-> walk[w].on, due |-> walk[w].due, todo |-> walk[w].todo, job |-> NoJob,
                k |-> 1, rows |-> walk[w].rows]]
         /\ \A j \in Job : D!TakeJob(w, j) => walk' = [walk EXCEPT ![w] =
               [on |-> walk[w].on, due |-> walk[w].due, todo |-> walk[w].todo \ {j},
                job |-> IF D!Allowed(w, j) THEN j ELSE walk[w].job,
                k |-> IF D!Allowed(w, j) THEN 1 ELSE walk[w].k, rows |-> walk[w].rows]]
<1>1. walk[w] \in D!Walks
  BY DEF D!TypeOK
<1>2. D!RunPending(w) => walk' = [walk EXCEPT ![w] =
        [on |-> TRUE, due |-> elapsed, todo |-> D!Pending, job |-> NoJob, k |-> 1, rows |-> {}]]
  BY DEF D!RunPending, D!IdleWalk
<1>3. ASSUME NEW rest \in SUBSET Row
      PROVE  D!Left(w, rest) = [walk EXCEPT ![w] =
               [on |-> walk[w].on, due |-> walk[w].due, todo |-> walk[w].todo, job |-> walk[w].job,
                k |-> IF rest = {} THEN walk[w].k + 1 ELSE walk[w].k, rows |-> rest]]
  <2>1. PICK mid : mid = [walk EXCEPT ![w] = [walk[w] EXCEPT !.rows = rest]]
    OBVIOUS
  <2>2. /\ mid \in [Walker -> D!Walks]
        /\ mid[w] = [on |-> walk[w].on, due |-> walk[w].due, todo |-> walk[w].todo,
                      job |-> walk[w].job, k |-> walk[w].k, rows |-> rest]
        /\ \A v \in Walker : v # w => mid[v] = walk[v]
    BY <1>1, <2>1 DEF D!TypeOK, D!Walks
  <2>3. D!Left(w, rest) = [mid EXCEPT ![w] =
           [mid[w] EXCEPT !.k = IF rest = {} THEN walk[w].k + 1 ELSE walk[w].k]]
    BY <2>1 DEF D!Left
  <2>4. D!Left(w, rest) = [mid EXCEPT ![w] =
           [on |-> walk[w].on, due |-> walk[w].due, todo |-> walk[w].todo, job |-> walk[w].job,
            k |-> IF rest = {} THEN walk[w].k + 1 ELSE walk[w].k, rows |-> rest]]
    <3>1. ASSUME NEW n
          PROVE  [mid[w] EXCEPT !.k = n] =
                 [on |-> walk[w].on, due |-> walk[w].due, todo |-> walk[w].todo,
                  job |-> walk[w].job, k |-> n, rows |-> rest]
      BY <2>2
    <3>2. QED BY <2>3, <3>1
  <2>5. mid \in [Walker -> D!Walks] /\ walk \in [Walker -> D!Walks]
    BY <2>2 DEF D!TypeOK
  <2>6. \A r : [mid EXCEPT ![w] = r] = [walk EXCEPT ![w] = r]
    <3>1. ASSUME NEW f, NEW g, NEW S, f \in [Walker -> S], g \in [Walker -> S],
                 \A v \in Walker : v # w => f[v] = g[v], NEW r
          PROVE  [f EXCEPT ![w] = r] = [g EXCEPT ![w] = r]
      BY <3>1
    <3>2. QED BY <2>2, <2>5, <3>1
  <2>7. QED BY <2>4, <2>6
<1>4. D!EndJob(w) => walk' = [walk EXCEPT ![w] =
        [on |-> walk[w].on, due |-> walk[w].due, todo |-> walk[w].todo, job |-> NoJob,
         k |-> 1, rows |-> walk[w].rows]]
  BY <1>1 DEF D!EndJob, D!Walks
<1>5. ASSUME NEW j \in Job, D!TakeJob(w, j)
      PROVE  walk' = [walk EXCEPT ![w] =
               [on |-> walk[w].on, due |-> walk[w].due, todo |-> walk[w].todo \ {j},
                job |-> IF D!Allowed(w, j) THEN j ELSE walk[w].job,
                k |-> IF D!Allowed(w, j) THEN 1 ELSE walk[w].k, rows |-> walk[w].rows]]
  <2>1. CASE D!Allowed(w, j)
    BY <1>1, <1>5, <2>1 DEF D!TakeJob, D!Walks
  <2>2. CASE ~ D!Allowed(w, j)
    BY <1>1, <1>5, <2>2 DEF D!TakeJob, D!Walks
  <2>3. QED BY <2>1, <2>2
<1>6. QED BY <1>2, <1>3, <1>4, <1>5

LEMMA PrivacyTyped ==
  ASSUME D!DataPrivacyAssumption, D!TypeOK, [D!Next]_(D!vars) PROVE D!TypeOK'
<1> USE DEF D!jobVars, D!rowVars, D!walkVars
<1>1. /\ stored \subseteq Row /\ unborn \subseteq Row \ stored
      /\ job \in [Job -> D!DataJobStatus] /\ elapsed \subseteq Job
      /\ walk \in [Walker -> D!Walks] /\ walks \in Nat /\ edits \in Nat
      /\ hold \in [Editor -> (Row \ unborn) \cup {Nothing}]
      /\ listed \subseteq Table /\ late \subseteq Row /\ shared \subseteq Job /\ quiet \subseteq Job
  BY DEF D!TypeOK
<1>2. \A w \in Walker : /\ walk[w].on \in BOOLEAN /\ walk[w].due \subseteq Job
                        /\ walk[w].todo \subseteq Job /\ walk[w].job \in Job \cup {NoJob}
                        /\ walk[w].k \in Nat \ {0} /\ walk[w].rows \subseteq Row
  BY <1>1 DEF D!Walks
<1>3. \A t \in SUBSET Row, w \in Walker : D!Left(w, t) \in [Walker -> D!Walks]
  BY <1>1, <1>2, WalkFields DEF D!Walks
<1>4. ASSUME NEW j \in Job, D!RequestJob(j) \/ D!GracePasses(j) \/ D!Cancel(j) PROVE D!TypeOK'
  <2>1. CASE D!RequestJob(j)
    BY <1>1, <2>1 DEF D!RequestJob, D!TypeOK, D!DataJobStatus
  <2>2. CASE D!GracePasses(j)
    BY <1>1, <2>2 DEF D!GracePasses, D!TypeOK
  <2>3. CASE D!Cancel(j)
    <3>1. job' \in [Job -> D!DataJobStatus]
      BY <1>1, <2>3 DEF D!Cancel, D!DataJobStatus
    <3>2. shared' \subseteq Job /\ quiet' \subseteq Job
      BY <1>1, <2>3 DEF D!Cancel
    <3>3. QED BY <1>1, <2>3, <3>1, <3>2 DEF D!Cancel, D!TypeOK
  <2>4. QED BY <1>4, <2>1, <2>2, <2>3
<1>5. ASSUME NEW w \in Walker, D!RunPending(w) PROVE D!TypeOK'
  <2>1. walk' \in [Walker -> D!Walks]
    <3>1. [on |-> TRUE, due |-> elapsed, todo |-> D!Pending, job |-> NoJob, k |-> 1, rows |-> {}]
            \in D!Walks
      BY <1>1 DEF D!Walks, D!Pending
    <3>2. QED BY <1>1, <1>5, <3>1, WalkFields
  <2>2. walks' \in Nat /\ shared' \subseteq Job
    BY <1>1, <1>5 DEF D!RunPending, D!Pending
  <2>3. QED BY <1>1, <1>5, <2>1, <2>2 DEF D!RunPending, D!TypeOK
<1>6. ASSUME NEW w \in Walker, NEW j \in Job, D!TakeJob(w, j) PROVE D!TypeOK'
  <2>1. walk' \in [Walker -> D!Walks]
    BY <1>1, <1>2, <1>6, WalkFields DEF D!Walks
  <2>2. job' \in [Job -> D!DataJobStatus]
    BY <1>1, <1>6 DEF D!TakeJob, D!DataJobStatus
  <2>3. QED BY <1>1, <1>6, <2>1, <2>2 DEF D!TakeJob, D!TypeOK
<1>7. ASSUME NEW w \in Walker, D!ListTable(w) PROVE D!TypeOK'
  <2>1. PICK rest \in SUBSET Row : walk' = D!Left(w, rest)
    BY <1>1, <1>7 DEF D!ListTable
  <2>2. listed' \subseteq Table
    <3>1. D!Order(walk[w].job) \in Seq(Table)
      BY DEF D!Order, D!DataPrivacyAssumption
    <3>2. D!Order(walk[w].job)[walk[w].k] \in Table
      BY <1>2, <1>7, <3>1 DEF D!ListTable
    <3>3. QED BY <1>1, <1>7, <3>2 DEF D!ListTable
  <2>3. QED BY <1>1, <1>3, <1>7, <2>1, <2>2 DEF D!ListTable, D!TypeOK
<1>8. ASSUME NEW w \in Walker, NEW r \in Row, D!DeleteRow(w, r) PROVE D!TypeOK'
  <2>1. walk' \in [Walker -> D!Walks]
    BY <1>2, <1>3, <1>8 DEF D!DeleteRow
  <2>2. stored' \subseteq stored /\ late' \subseteq Row
    BY <1>1, <1>8 DEF D!DeleteRow
  <2>3. QED BY <1>1, <1>8, <2>1, <2>2 DEF D!DeleteRow, D!TypeOK
<1>9. ASSUME NEW w \in Walker, D!EndJob(w) PROVE D!TypeOK'
  <2>1. walk' \in [Walker -> D!Walks]
    BY <1>1, <1>2, <1>9, WalkFields DEF D!Walks
  <2>2. job' \in [Job -> D!DataJobStatus]
    BY <1>1, <1>9 DEF D!EndJob, D!DataJobStatus
  <2>3. QED BY <1>1, <1>9, <2>1, <2>2 DEF D!EndJob, D!TypeOK
<1>10. ASSUME NEW w \in Walker, D!EndWalk(w) PROVE D!TypeOK'
  <2>1. walk' \in [Walker -> D!Walks]
    BY <1>1, <1>10 DEF D!EndWalk, D!IdleWalk, D!Walks
  <2>2. QED BY <1>1, <1>10, <2>1 DEF D!EndWalk, D!TypeOK
<1>11. ASSUME NEW r \in Row, D!Create(r) PROVE D!TypeOK'
  <2>1. stored' \subseteq Row /\ unborn' \subseteq Row \ stored' /\ late' \subseteq Row
    BY <1>1, <1>11 DEF D!Create, D!Written
  <2>2. QED BY <1>1, <1>11, <2>1 DEF D!Create, D!TypeOK
<1>12. ASSUME NEW e \in Editor, D!Save(e) PROVE D!TypeOK'
  <2>1. hold[e] \in Row /\ hold' \in [Editor -> (Row \ unborn) \cup {Nothing}]
    BY <1>1, <1>12 DEF D!Save
  <2>2. stored' \subseteq Row /\ late' \subseteq Row
    BY <1>1, <1>12, <2>1 DEF D!Save, D!Written
  <2>3. unborn' \subseteq Row \ stored'
    BY <1>1, <1>12, <2>1 DEF D!Save
  <2>4. QED BY <1>1, <1>12, <2>1, <2>2, <2>3 DEF D!Save, D!TypeOK
<1>13. ASSUME NEW e \in Editor, NEW r \in Row, D!Load(e, r) PROVE D!TypeOK'
  BY <1>1, <1>13 DEF D!Load, D!TypeOK
<1>14. CASE UNCHANGED D!vars
  BY <1>1, <1>14 DEF D!vars, D!TypeOK
<1>15. QED BY <1>4, <1>5, <1>6, <1>7, <1>8, <1>9, <1>10, <1>11, <1>12, <1>13, <1>14 DEF D!Next

\* No step takes back a listing or a mark, and what is written later is marked.
LEMMA RowsMove ==
  ASSUME D!DataPrivacyAssumption, D!TypeOK, [D!Next]_(D!vars)
  PROVE  /\ listed \subseteq listed' /\ late \subseteq late'
         /\ \A r \in stored' : r \in stored \/ (TableOf[r] \in listed => r \in late')
<1> USE DEF D!jobVars, D!rowVars, D!walkVars
<1>1. ASSUME UNCHANGED <<stored, late>>, listed \subseteq listed'
      PROVE  /\ listed \subseteq listed' /\ late \subseteq late'
             /\ \A r \in stored' : r \in stored \/ (TableOf[r] \in listed => r \in late')
  BY <1>1
<1>2. ASSUME NEW j \in Job, D!RequestJob(j) \/ D!GracePasses(j) \/ D!Cancel(j)
      PROVE  UNCHANGED <<stored, late, listed>>
  BY <1>2 DEF D!RequestJob, D!GracePasses, D!Cancel
<1>3. ASSUME NEW w \in Walker, D!RunPending(w) \/ D!EndJob(w) \/ D!EndWalk(w) \/ \E j \in Job : D!TakeJob(w, j)
      PROVE  UNCHANGED <<stored, late, listed>>
  BY <1>3 DEF D!RunPending, D!EndJob, D!EndWalk, D!TakeJob
<1>4. ASSUME NEW w \in Walker, D!ListTable(w) PROVE UNCHANGED <<stored, late>> /\ listed \subseteq listed'
  BY <1>4 DEF D!ListTable
<1>5. ASSUME NEW w \in Walker, NEW r \in Row, D!DeleteRow(w, r)
      PROVE  stored' \subseteq stored /\ late \subseteq late' /\ listed' = listed
  BY <1>5 DEF D!DeleteRow
<1>6. ASSUME NEW r \in Row, D!Create(r)
      PROVE  stored' = stored \cup {r} /\ late' = D!Written(r) /\ listed' = listed
  BY <1>6 DEF D!Create
<1>7. ASSUME NEW e \in Editor, D!Save(e)
      PROVE  /\ listed' = listed
             /\ \/ UNCHANGED <<stored, late>>
                \/ stored' = stored \cup {hold[e]} /\ late' = D!Written(hold[e])
  BY <1>7 DEF D!Save
<1>8. ASSUME NEW e \in Editor, NEW r \in Row, D!Load(e, r) PROVE UNCHANGED <<stored, late, listed>>
  BY <1>8 DEF D!Load
<1>9. \A r : late \subseteq D!Written(r) /\ (TableOf[r] \in listed => r \in D!Written(r))
  BY DEF D!Written
<1>10. CASE UNCHANGED D!vars
  BY <1>10 DEF D!vars
<1>11. ASSUME NEW r, stored' = stored \cup {r}, late' = D!Written(r), listed' = listed
       PROVE  /\ listed \subseteq listed' /\ late \subseteq late'
              /\ \A q \in stored' : q \in stored \/ (TableOf[q] \in listed => q \in late')
  BY <1>9, <1>11
<1>12. QED BY <1>1, <1>2, <1>3, <1>4, <1>5, <1>6, <1>7, <1>8, <1>10, <1>11 DEF D!Next

LEMMA Stays ==
  ASSUME D!DataPrivacyAssumption, D!TypeOK, [D!Next]_(D!vars)
  PROVE  /\ \A r : D!Excused(r) => D!Excused(r)'
         /\ \A t : Cleared(t) => Cleared(t)'
         /\ \A w \in Walker : WalkKept(w) /\ walk'[w] = walk[w] => WalkKept(w)'
<1>1. /\ listed \subseteq listed' /\ late \subseteq late'
      /\ \A r \in stored' : r \in stored \/ (TableOf[r] \in listed => r \in late')
  BY RowsMove
<1>2. \A r : D!Excused(r) => D!Excused(r)'
  BY <1>1 DEF D!Excused
<1>3. \A r : r \in late' => D!Excused(r)'
  BY DEF D!Excused
<1>4. ASSUME NEW t, Cleared(t) PROVE Cleared(t)'
  <2>1. t \in listed /\ \A r \in stored : TableOf[r] = t => D!Excused(r)
    BY <1>4 DEF Cleared
  <2>2. ASSUME NEW r \in stored', TableOf[r] = t PROVE D!Excused(r)'
    BY <1>1, <1>2, <1>3, <2>1, <2>2
  <2>3. QED BY <1>1, <2>1, <2>2 DEF Cleared
<1>5. ASSUME NEW w \in Walker, WalkKept(w), walk'[w] = walk[w] PROVE WalkKept(w)'
  <2>1. Erases(w)' = Erases(w)
    BY <1>5 DEF Erases
  <2>2. ASSUME Erases(w), NEW i \in DOMAIN DeleteOrder, i < walk[w].k PROVE Cleared(DeleteOrder[i])'
    BY <1>4, <1>5, <2>2 DEF WalkKept
  <2>3. ASSUME walk[w].rows # {}
        PROVE  /\ Erases(w) /\ walk[w].k \in DOMAIN DeleteOrder
               /\ DeleteOrder[walk[w].k] \in listed'
               /\ \A r \in walk[w].rows : TableOf[r] = DeleteOrder[walk[w].k]
               /\ \A r \in stored' : TableOf[r] = DeleteOrder[walk[w].k] =>
                     r \in walk[w].rows \/ D!Excused(r)'
    <3>1. /\ Erases(w) /\ walk[w].k \in DOMAIN DeleteOrder
          /\ DeleteOrder[walk[w].k] \in listed
          /\ \A r \in walk[w].rows : TableOf[r] = DeleteOrder[walk[w].k]
          /\ \A r \in stored : TableOf[r] = DeleteOrder[walk[w].k] =>
                r \in walk[w].rows \/ D!Excused(r)
      BY <1>5, <2>3 DEF WalkKept
    <3>2. ASSUME NEW r \in stored', TableOf[r] = DeleteOrder[walk[w].k]
          PROVE  r \in walk[w].rows \/ D!Excused(r)'
      BY <1>1, <1>2, <1>3, <3>1, <3>2
    <3>3. QED BY <1>1, <3>1, <3>2
  <2>4. walk[w].job \notin walk[w].todo
    BY <1>5 DEF WalkKept
  <2>5. QED BY <1>5, <2>1, <2>2, <2>3, <2>4 DEF WalkKept
<1>6. QED BY <1>2, <1>4, <1>5

LEMMA HandsFrame ==
  ASSUME D!TypeOK, HandsKept, UNCHANGED <<job, shared, quiet>>,
         \A w \in Walker, j \in Job : D!HasJob(w, j)' => D!HasJob(w, j)
  PROVE  HandsKept'
<1>1. job' = job /\ shared' = shared /\ quiet' = quiet
  OBVIOUS
<1>2. quiet \subseteq Job
  BY DEF D!TypeOK
<1>3. \A v, w \in Walker, j \in Job : D!HasJob(v, j)' /\ D!HasJob(w, j)' /\ v # w => j \in shared'
  BY <1>1 DEF HandsKept
<1>4. \A w \in Walker, j \in Job : D!HasJob(w, j)' => job'[j] # "absent"
  BY <1>1 DEF HandsKept
<1>5. \A w \in Walker, j \in Job : D!HasJob(w, j)' /\ job'[j] \in Settled => j \in shared'
  BY <1>1 DEF HandsKept
<1>6. \A j \in quiet' : job'[j] = "cancelled" /\ \A w \in Walker : ~ D!HasJob(w, j)'
  BY <1>1, <1>2 DEF HandsKept
<1>7. QED BY <1>3, <1>4, <1>5, <1>6 DEF HandsKept, Settled

LEMMA HandsStep ==
  ASSUME D!DataPrivacyAssumption, PrivacyInv, [D!Next]_(D!vars) PROVE HandsKept'
<1> USE DEF D!jobVars, D!rowVars, D!walkVars
<1>1. /\ D!TypeOK /\ HandsKept /\ job \in [Job -> D!DataJobStatus] /\ quiet \subseteq Job
      /\ walk \in [Walker -> D!Walks]
  BY DEF PrivacyInv, D!TypeOK
<1>2. /\ \A v, w \in Walker, j \in Job : D!HasJob(v, j) /\ D!HasJob(w, j) /\ v # w => j \in shared
      /\ \A w \in Walker, j \in Job : D!HasJob(w, j) => job[j] # "absent"
      /\ \A w \in Walker, j \in Job : D!HasJob(w, j) /\ job[j] \in Settled => j \in shared
      /\ \A j \in quiet : job[j] = "cancelled" /\ \A w \in Walker : ~ D!HasJob(w, j)
  BY <1>1 DEF HandsKept
<1>3. ASSUME UNCHANGED <<walk, job, shared, quiet>> PROVE HandsKept'
  <2>1. \A w \in Walker, j \in Job : D!HasJob(w, j)' => D!HasJob(w, j)
    BY <1>3 DEF D!HasJob
  <2>2. QED BY <1>1, <1>3, <2>1, HandsFrame
<1>4. CASE (\E r \in Row : D!Create(r)) \/ (\E e \in Editor : D!Save(e) \/ \E r \in Row : D!Load(e, r))
           \/ (\E j \in Job : D!GracePasses(j)) \/ UNCHANGED D!vars
  BY <1>3, <1>4 DEF D!Create, D!Save, D!Load, D!GracePasses, D!vars
<1>5. ASSUME NEW i \in Job, D!RequestJob(i) PROVE HandsKept'
  <2>1. /\ job[i] = "absent" /\ walk' = walk /\ shared' = shared /\ quiet' = quiet
        /\ \A j \in Job : job'[j] = IF j = i THEN "pending" ELSE job[j]
    BY <1>1, <1>5 DEF D!RequestJob
  <2>2. \A w \in Walker, j \in Job : D!HasJob(w, j)' = D!HasJob(w, j)
    BY <2>1 DEF D!HasJob
  <2>3. QED BY <1>1, <1>2, <2>1, <2>2 DEF HandsKept, Settled
<1>6. ASSUME NEW i \in Job, D!Cancel(i) PROVE HandsKept'
  <2>1. /\ job[i] \in {"pending", "running"} /\ walk' = walk
        /\ \A j \in Job : job'[j] = IF j = i THEN "cancelled" ELSE job[j]
        /\ IF \E w \in Walker : D!HasJob(w, i)
           THEN shared' = shared \cup {i} /\ quiet' = quiet
           ELSE quiet' = quiet \cup {i} /\ shared' = shared
    BY <1>1, <1>6 DEF D!Cancel
  <2>2. \A w \in Walker, j \in Job : D!HasJob(w, j)' = D!HasJob(w, j)
    BY <2>1 DEF D!HasJob
  <2>3. CASE \E w \in Walker : D!HasJob(w, i)
    BY <1>1, <1>2, <2>1, <2>2, <2>3 DEF HandsKept, Settled
  <2>4. CASE ~ \E w \in Walker : D!HasJob(w, i)
    BY <1>1, <1>2, <2>1, <2>2, <2>4 DEF HandsKept, Settled
  <2>5. QED BY <2>3, <2>4
<1>7. ASSUME NEW u \in Walker, D!RunPending(u) PROVE HandsKept'
  <2>1. /\ job' = job /\ quiet' = quiet
        /\ shared' = shared \cup {j \in D!Pending : \E v \in Walker : D!HasJob(v, j)}
        /\ walk'[u].job = NoJob /\ walk'[u].todo = D!Pending
        /\ \A v \in Walker : v # u => walk'[v] = walk[v]
    <3>1. walk' = [walk EXCEPT ![u] =
             [on |-> TRUE, due |-> elapsed, todo |-> D!Pending, job |-> NoJob, k |-> 1, rows |-> {}]]
      BY <1>1, <1>7, WalkFields
    <3>2. /\ walk'[u].job = NoJob /\ walk'[u].todo = D!Pending
          /\ \A v \in Walker : v # u => walk'[v] = walk[v]
      BY <1>1, <3>1
    <3>3. /\ job' = job /\ quiet' = quiet
          /\ shared' = shared \cup {j \in D!Pending : \E v \in Walker : D!HasJob(v, j)}
      BY <1>7 DEF D!RunPending
    <3>4. QED BY <3>2, <3>3
  <2>2. /\ \A j \in Job : D!HasJob(u, j)' = (j \in D!Pending)
        /\ \A v \in Walker, j \in Job : v # u => D!HasJob(v, j)' = D!HasJob(v, j)
    BY <2>1 DEF D!HasJob, D!DataPrivacyAssumption
  <2>3. \A j \in D!Pending : job[j] \in {"pending", "running"}
    BY DEF D!Pending
  <2>4. \A v, w \in Walker, j \in Job : D!HasJob(v, j)' /\ D!HasJob(w, j)' /\ v # w => j \in shared'
    <3>1. ASSUME NEW v \in Walker, NEW w \in Walker, NEW j \in Job, D!HasJob(v, j)', D!HasJob(w, j)',
                 v # w
          PROVE  j \in shared'
      <4>1. CASE v = u
        BY <2>1, <2>2, <3>1, <4>1
      <4>2. CASE w = u
        BY <2>1, <2>2, <3>1, <4>2
      <4>3. CASE v # u /\ w # u
        BY <1>2, <2>1, <2>2, <3>1, <4>3
      <4>4. QED BY <4>1, <4>2, <4>3
    <3>2. QED BY <3>1
  <2>5. /\ \A w \in Walker, j \in Job : D!HasJob(w, j)' => job'[j] # "absent"
        /\ \A w \in Walker, j \in Job : D!HasJob(w, j)' /\ job'[j] \in Settled => j \in shared'
        /\ \A j \in quiet' : job'[j] = "cancelled" /\ \A w \in Walker : ~ D!HasJob(w, j)'
    BY <1>1, <1>2, <2>1, <2>2, <2>3 DEF Settled
  <2>6. QED BY <2>4, <2>5 DEF HandsKept, Settled
<1>8. ASSUME NEW u \in Walker, NEW i \in Job, D!TakeJob(u, i) PROVE HandsKept'
  <2>1. /\ shared' = shared /\ quiet' = quiet /\ i \in walk[u].todo /\ walk[u].job = NoJob
        /\ \A j \in Job : job'[j] = job[j] \/ (j = i /\ job'[j] = "running")
        /\ walk'[u].todo = walk[u].todo \ {i}
        /\ walk'[u].job = IF D!Allowed(u, i) THEN i ELSE walk[u].job
        /\ \A v \in Walker : v # u => walk'[v] = walk[v]
    <3>1. walk' = [walk EXCEPT ![u] =
             [on |-> walk[u].on, due |-> walk[u].due, todo |-> walk[u].todo \ {i},
              job |-> IF D!Allowed(u, i) THEN i ELSE walk[u].job,
              k |-> IF D!Allowed(u, i) THEN 1 ELSE walk[u].k, rows |-> walk[u].rows]]
      BY <1>1, <1>8, WalkFields
    <3>2. /\ walk'[u].todo = walk[u].todo \ {i}
          /\ walk'[u].job = IF D!Allowed(u, i) THEN i ELSE walk[u].job
          /\ \A v \in Walker : v # u => walk'[v] = walk[v]
      BY <1>1, <3>1
    <3>3. \A j \in Job : job'[j] = job[j] \/ (j = i /\ job'[j] = "running")
      BY <1>1, <1>8 DEF D!TakeJob
    <3>4. QED BY <1>8, <3>2, <3>3 DEF D!TakeJob
  <2>2. /\ \A v \in Walker, j \in Job : D!HasJob(v, j)' => D!HasJob(v, j)
        /\ D!HasJob(u, i)
    BY <2>1 DEF D!HasJob
  <2>3. i \notin quiet
    BY <1>2, <2>2
  <2>4. /\ \A v, w \in Walker, j \in Job : D!HasJob(v, j)' /\ D!HasJob(w, j)' /\ v # w => j \in shared'
        /\ \A w \in Walker, j \in Job : D!HasJob(w, j)' => job'[j] # "absent"
        /\ \A w \in Walker, j \in Job : D!HasJob(w, j)' /\ job'[j] \in Settled => j \in shared'
    BY <1>2, <2>1, <2>2 DEF Settled
  <2>5. \A j \in quiet' : job'[j] = "cancelled" /\ \A w \in Walker : ~ D!HasJob(w, j)'
    BY <1>1, <1>2, <2>1, <2>2, <2>3
  <2>6. QED BY <2>4, <2>5 DEF HandsKept, Settled
<1>9. ASSUME NEW u \in Walker, D!ListTable(u) \/ \E r \in Row : D!DeleteRow(u, r) PROVE HandsKept'
  <2>1. PICK rest \in SUBSET Row : walk' = D!Left(u, rest)
    <3>1. walk[u].rows \subseteq Row /\ stored \subseteq Row
      BY <1>1 DEF D!Walks, D!TypeOK
    <3>2. QED BY <1>9, <3>1 DEF D!ListTable, D!DeleteRow
  <2>2. \A v \in Walker : walk'[v].job = walk[v].job /\ walk'[v].todo = walk[v].todo
    BY <1>1, <2>1, WalkFields
  <2>3. \A w \in Walker, j \in Job : D!HasJob(w, j)' => D!HasJob(w, j)
    BY <2>2 DEF D!HasJob
  <2>4. UNCHANGED <<job, shared, quiet>>
    BY <1>9 DEF D!ListTable, D!DeleteRow
  <2>5. QED BY <1>1, <2>3, <2>4, HandsFrame
<1>10. ASSUME NEW u \in Walker, D!EndJob(u) PROVE HandsKept'
  <2>1. PICK i \in Job : i = walk[u].job
    BY <1>1, <1>10 DEF D!EndJob, D!Walks
  <2>2. /\ shared' = shared /\ quiet' = quiet
        /\ \A j \in Job : j # i => job'[j] = job[j]
        /\ job'[i] \in {"completed", "failed"}
        /\ walk'[u].todo = walk[u].todo /\ walk'[u].job = NoJob
        /\ \A v \in Walker : v # u => walk'[v] = walk[v]
    <3>1. walk' = [walk EXCEPT ![u] =
             [on |-> walk[u].on, due |-> walk[u].due, todo |-> walk[u].todo, job |-> NoJob,
              k |-> 1, rows |-> walk[u].rows]]
      BY <1>1, <1>10, WalkFields
    <3>2. QED BY <1>1, <1>10, <2>1, <3>1 DEF D!EndJob
  <2>3. i \notin walk[u].todo
    BY <2>1 DEF PrivacyInv, WalkKept
  <2>4. /\ \A v \in Walker, j \in Job : D!HasJob(v, j)' => D!HasJob(v, j)
        /\ D!HasJob(u, i) /\ ~ D!HasJob(u, i)'
    BY <2>1, <2>2, <2>3 DEF D!HasJob, D!DataPrivacyAssumption
  <2>5. i \notin quiet
    BY <1>2, <2>4
  <2>6. \A v \in Walker : D!HasJob(v, i)' => i \in shared
    BY <1>2, <2>4
  <2>7. /\ \A v, w \in Walker, j \in Job : D!HasJob(v, j)' /\ D!HasJob(w, j)' /\ v # w => j \in shared'
        /\ \A w \in Walker, j \in Job : D!HasJob(w, j)' => job'[j] # "absent"
        /\ \A w \in Walker, j \in Job : D!HasJob(w, j)' /\ job'[j] \in Settled => j \in shared'
    BY <1>2, <2>2, <2>4, <2>6 DEF Settled
  <2>8. \A j \in quiet' : job'[j] = "cancelled" /\ \A w \in Walker : ~ D!HasJob(w, j)'
    BY <1>1, <1>2, <2>2, <2>4, <2>5
  <2>9. QED BY <2>7, <2>8 DEF HandsKept, Settled
<1>11. ASSUME NEW u \in Walker, D!EndWalk(u) PROVE HandsKept'
  <2>1. /\ walk'[u].job = NoJob /\ walk'[u].todo = {}
        /\ \A v \in Walker : v # u => walk'[v] = walk[v]
    BY <1>1, <1>11 DEF D!EndWalk, D!IdleWalk
  <2>2. \A w \in Walker, j \in Job : D!HasJob(w, j)' => D!HasJob(w, j)
    BY <2>1 DEF D!HasJob, D!DataPrivacyAssumption
  <2>3. UNCHANGED <<job, shared, quiet>>
    BY <1>11 DEF D!EndWalk
  <2>4. QED BY <1>1, <2>2, <2>3, HandsFrame
<1>12. QED BY <1>4, <1>5, <1>6, <1>7, <1>8, <1>9, <1>10, <1>11 DEF D!Next

\* Who forbids to delete a row of table k is in a table the erasure is done with.
LEMMA RefusedIsExcused ==
  ASSUME D!DataPrivacyAssumption, D!TypeOK, NEW w \in Walker, NEW r \in Row, r \in walk[w].rows,
         WalkKept(w), D!Refused(r)
  PROVE  D!Excused(r)
<1>1. PICK s \in stored : r \in KeptBy[s]
  BY DEF D!Refused
<1>2. s \in Row /\ TableOf[r] = DeleteOrder[walk[w].k] /\ walk[w].k \in DOMAIN DeleteOrder /\ Erases(w)
  BY DEF D!TypeOK, WalkKept
<1>3. PICK i \in 1 .. walk[w].k - 1 : DeleteOrder[i] = TableOf[s]
  BY <1>1, <1>2 DEF D!DataPrivacyAssumption
<1>4. i \in DOMAIN DeleteOrder /\ i < walk[w].k
  <2>1. DOMAIN DeleteOrder = 1 .. Len(DeleteOrder) /\ Len(DeleteOrder) \in Nat
    BY DEF D!DataPrivacyAssumption
  <2>2. QED BY <1>2, <2>1
<1>5. Cleared(DeleteOrder[i])
  BY <1>2, <1>4 DEF WalkKept
<1>6. D!Excused(s)
  BY <1>1, <1>3, <1>5 DEF Cleared
<1>7. s \in late
  BY <1>1, <1>2, <1>6 DEF D!Excused, D!DataPrivacyAssumption, D!TypeOK
<1>8. QED BY <1>1, <1>7 DEF D!Excused

\* A delete leaves the rows that are still to go, and excused ones.
LEMMA WalkDeletes ==
  ASSUME D!DataPrivacyAssumption, PrivacyInv, [D!Next]_(D!vars),
         NEW w \in Walker, NEW r \in Row, D!DeleteRow(w, r)
  PROVE  \A q \in stored' : TableOf[q] = DeleteOrder[walk[w].k] =>
            q \in walk[w].rows \ {r} \/ D!Excused(q)'
<1>1. D!TypeOK /\ WalkKept(w) /\ r \in walk[w].rows
  BY DEF PrivacyInv, D!DeleteRow
<1>2. \A q : D!Excused(q) => D!Excused(q)'
  BY <1>1, Stays
<1>3. \A q \in stored : TableOf[q] = DeleteOrder[walk[w].k] => q \in walk[w].rows \/ D!Excused(q)
  BY <1>1 DEF WalkKept
<1>4. stored' \subseteq stored
  BY DEF D!DeleteRow
<1>5. r \notin stored' \/ D!Excused(r)'
  <2>1. CASE UNCHANGED stored /\ late' = late \cup {r}
    BY <2>1 DEF D!Excused
  <2>2. CASE D!Refused(r)
    BY <1>1, <1>2, <2>2, RefusedIsExcused
  <2>3. CASE ~ D!Refused(r) /\ stored' = stored \ D!Taken(r)
    BY <2>3 DEF D!Taken
  <2>4. QED BY <2>1, <2>2, <2>3 DEF D!DeleteRow
<1>6. QED BY <1>2, <1>3, <1>4, <1>5

LEMMA WalkStep ==
  ASSUME D!DataPrivacyAssumption, PrivacyInv, [D!Next]_(D!vars), NEW v \in Walker PROVE WalkKept(v)'
<1> USE DEF D!jobVars, D!rowVars, D!walkVars
<1>1. D!TypeOK /\ walk \in [Walker -> D!Walks] /\ \A w \in Walker : WalkKept(w)
  BY DEF PrivacyInv, D!TypeOK
<1>2. \A t : Cleared(t) => Cleared(t)'
  BY <1>1, Stays
<1>3. CASE walk'[v] = walk[v]
  BY <1>1, <1>3, Stays
<1>4. ASSUME NEW w \in Walker, w # v,
             D!RunPending(w) \/ D!ListTable(w) \/ D!EndJob(w) \/ D!EndWalk(w)
             \/ (\E j \in Job : D!TakeJob(w, j)) \/ (\E r \in Row : D!DeleteRow(w, r))
      PROVE  walk'[v] = walk[v]
  <2>1. ASSUME NEW r, walk' = [walk EXCEPT ![w] = r] PROVE walk'[v] = walk[v]
    BY <1>1, <1>4, <2>1
  <2>2. CASE D!RunPending(w) \/ D!EndJob(w) \/ D!EndWalk(w) \/ \E j \in Job : D!TakeJob(w, j)
    BY <1>1, <2>1, <2>2, WalkFields DEF D!EndWalk
  <2>3. CASE D!ListTable(w) \/ \E r \in Row : D!DeleteRow(w, r)
    <3>1. PICK rest \in SUBSET Row : walk' = D!Left(w, rest)
      <4>1. walk[w].rows \subseteq Row /\ stored \subseteq Row
        BY <1>1 DEF D!Walks, D!TypeOK
      <4>2. QED BY <2>3, <4>1 DEF D!ListTable, D!DeleteRow
    <3>2. QED BY <1>1, <2>1, <3>1, WalkFields
  <2>4. QED BY <1>4, <2>2, <2>3
<1>6. CASE D!RunPending(v)
  <2>1. walk' = [walk EXCEPT ![v] =
           [on |-> TRUE, due |-> elapsed, todo |-> D!Pending, job |-> NoJob, k |-> 1, rows |-> {}]]
    BY <1>1, <1>6, WalkFields
  <2>2. walk'[v].rows = {} /\ walk'[v].job = NoJob /\ walk'[v].todo = D!Pending
    BY <1>1, <2>1
  <2>3. NoJob \notin D!Pending
    BY DEF D!Pending, D!DataPrivacyAssumption
  <2>4. QED BY <2>2, <2>3 DEF WalkKept, Erases
<1>7. ASSUME NEW j \in Job, D!TakeJob(v, j) PROVE WalkKept(v)'
  <2>1. walk' = [walk EXCEPT ![v] =
           [on |-> walk[v].on, due |-> walk[v].due, todo |-> walk[v].todo \ {j},
            job |-> IF D!Allowed(v, j) THEN j ELSE walk[v].job,
            k |-> IF D!Allowed(v, j) THEN 1 ELSE walk[v].k, rows |-> walk[v].rows]]
    BY <1>1, <1>7, WalkFields
  <2>2. /\ walk'[v].rows = walk[v].rows /\ walk'[v].todo = walk[v].todo \ {j}
        /\ IF D!Allowed(v, j) THEN walk'[v].job = j /\ walk'[v].k = 1
           ELSE walk'[v].job = NoJob /\ walk'[v].k = walk[v].k
    BY <1>1, <1>7, <2>1 DEF D!TakeJob
  <2>3. walk[v].rows = {} /\ walk[v].job = NoJob /\ walk[v].job \notin walk[v].todo
    BY <1>1, <1>7 DEF D!TakeJob, WalkKept, Erases
  <2>4. \A i \in DOMAIN DeleteOrder : ~ i < 1
    BY DEF D!DataPrivacyAssumption
  <2>5. CASE D!Allowed(v, j)
    BY <2>2, <2>3, <2>4, <2>5 DEF WalkKept, Erases
  <2>6. CASE ~ D!Allowed(v, j)
    BY <2>2, <2>3, <2>6 DEF WalkKept, Erases
  <2>7. QED BY <2>5, <2>6
<1>8. CASE D!ListTable(v)
  <2> DEFINE t == D!Order(walk[v].job)[walk[v].k]
             rest == IF KindOf[walk[v].job] = "delete" THEN {r \in stored : TableOf[r] = t} ELSE {}
  <2>1. /\ walk[v].job # NoJob /\ walk[v].rows = {} /\ walk[v].k <= Len(D!Order(walk[v].job))
        /\ walk' = D!Left(v, rest) /\ stored' = stored
        /\ KindOf[walk[v].job] = "delete" => listed' = listed \cup {t}
    BY <1>8 DEF D!ListTable
  <2>2. rest \subseteq Row
    BY <1>1 DEF D!TypeOK
  <2>3. /\ walk'[v].job = walk[v].job /\ walk'[v].todo = walk[v].todo /\ walk'[v].rows = rest
        /\ walk'[v].k = IF rest = {} THEN walk[v].k + 1 ELSE walk[v].k
    <3>1. PICK rs \in SUBSET Row : rs = rest
      BY <2>2
    <3>2. walk' = [walk EXCEPT ![v] =
             [on |-> walk[v].on, due |-> walk[v].due, todo |-> walk[v].todo, job |-> walk[v].job,
              k |-> IF rs = {} THEN walk[v].k + 1 ELSE walk[v].k, rows |-> rs]]
      BY <1>1, <2>1, <3>1, WalkFields
    <3>3. QED BY <1>1, <3>1, <3>2
  <2>4. CASE KindOf[walk[v].job] # "delete"
    <3>1. walk'[v].rows = {} /\ ~ Erases(v)'
      BY <2>3, <2>4 DEF Erases
    <3>2. walk'[v].job \notin walk'[v].todo
      BY <1>1, <2>3 DEF WalkKept
    <3>3. QED BY <3>1, <3>2 DEF WalkKept
  <2>5. CASE KindOf[walk[v].job] = "delete"
    <3>1. /\ D!Order(walk[v].job) = DeleteOrder /\ walk[v].k \in DOMAIN DeleteOrder
          /\ walk[v].k \in Nat /\ DOMAIN DeleteOrder \subseteq Nat
      BY <1>1, <2>1, <2>5 DEF D!Order, D!Walks, D!DataPrivacyAssumption
    <3>2. t = DeleteOrder[walk[v].k] /\ t \in listed' /\ rest = {r \in stored : TableOf[r] = t}
      BY <2>1, <2>5, <3>1
    <3>3. Erases(v) /\ Erases(v)' /\ walk'[v].job \notin walk'[v].todo
      BY <1>1, <2>1, <2>3, <2>5 DEF Erases, WalkKept
    <3>4. \A i \in DOMAIN DeleteOrder : i < walk[v].k => Cleared(DeleteOrder[i])'
      BY <1>1, <1>2, <3>3 DEF WalkKept
    <3> HIDE DEF t, rest
    <3>5. CASE rest = {}
      <4>1. PICK k \in Nat : k = walk[v].k
        BY <3>1
      <4>2. PICK table : table = DeleteOrder[k]
        OBVIOUS
      <4>3. Cleared(table)'
        BY <2>1, <3>2, <3>5, <4>1, <4>2 DEF Cleared
      <4>4. \A i \in DOMAIN DeleteOrder : i < k + 1 => i < k \/ i = k
        BY <3>1
      <4>5. \A i \in DOMAIN DeleteOrder : i < walk[v].k + 1 => Cleared(DeleteOrder[i])'
        BY <3>4, <4>1, <4>2, <4>3, <4>4
      <4>6. walk'[v].k = walk[v].k + 1 /\ walk'[v].rows = {}
        BY <2>3, <3>5
      <4>7. QED BY <3>3, <4>5, <4>6 DEF WalkKept
    <3>6. CASE rest # {}
      <4>1. walk'[v].k = walk[v].k /\ walk'[v].rows = rest
        BY <2>3, <3>6
      <4>2. (\A r \in rest : TableOf[r] = t) /\ (\A r \in stored' : TableOf[r] = t => r \in rest)
        BY <2>1, <3>2
      <4>3. QED BY <3>1, <3>2, <3>3, <3>4, <4>1, <4>2 DEF WalkKept
    <3>7. QED BY <3>5, <3>6
  <2>6. QED BY <2>4, <2>5
<1>9. ASSUME NEW r \in Row, D!DeleteRow(v, r) PROVE WalkKept(v)'
  <2>1. r \in walk[v].rows /\ walk' = D!Left(v, walk[v].rows \ {r}) /\ listed' = listed
    BY <1>9 DEF D!DeleteRow
  <2>2. PICK rest \in SUBSET Row : rest = walk[v].rows \ {r}
    BY <1>1 DEF D!Walks
  <2>3. /\ walk'[v].job = walk[v].job /\ walk'[v].todo = walk[v].todo /\ walk'[v].rows = rest
        /\ walk'[v].k = IF rest = {} THEN walk[v].k + 1 ELSE walk[v].k
    <3>1. walk' = [walk EXCEPT ![v] =
             [on |-> walk[v].on, due |-> walk[v].due, todo |-> walk[v].todo, job |-> walk[v].job,
              k |-> IF rest = {} THEN walk[v].k + 1 ELSE walk[v].k, rows |-> rest]]
      BY <1>1, <2>1, <2>2, WalkFields
    <3>2. QED BY <1>1, <3>1
  <2>4. /\ Erases(v) /\ walk[v].k \in DOMAIN DeleteOrder /\ DeleteOrder[walk[v].k] \in listed
        /\ \A q \in walk[v].rows : TableOf[q] = DeleteOrder[walk[v].k]
        /\ walk[v].job \notin walk[v].todo
        /\ \A i \in DOMAIN DeleteOrder : i < walk[v].k => Cleared(DeleteOrder[i])'
    BY <1>1, <1>2, <2>1 DEF WalkKept
  <2>5. walk[v].k \in Nat /\ DOMAIN DeleteOrder \subseteq Nat
    BY <1>1 DEF D!Walks, D!DataPrivacyAssumption
  <2>6. \A q \in stored' : TableOf[q] = DeleteOrder[walk[v].k] => q \in rest \/ D!Excused(q)'
    BY <1>9, <2>2, WalkDeletes
  <2>7. Erases(v)' /\ walk'[v].job \notin walk'[v].todo
    BY <2>3, <2>4 DEF Erases
  <2>8. CASE rest = {}
    <3>1. PICK k \in Nat : k = walk[v].k
      BY <2>5
    <3>2. PICK table : table = DeleteOrder[k]
      OBVIOUS
    <3>3. Cleared(table)'
      BY <2>1, <2>4, <2>6, <2>8, <3>1, <3>2 DEF Cleared
    <3>4. \A i \in DOMAIN DeleteOrder : i < k + 1 => i < k \/ i = k
      BY <2>5
    <3>5. \A i \in DOMAIN DeleteOrder : i < walk[v].k + 1 => Cleared(DeleteOrder[i])'
      BY <2>4, <3>1, <3>2, <3>3, <3>4
    <3>6. QED BY <2>3, <2>7, <2>8, <3>5 DEF WalkKept
  <2>9. CASE rest # {}
    <3>1. /\ walk'[v].k = walk[v].k /\ walk'[v].rows = rest
          /\ \A q \in rest : TableOf[q] = DeleteOrder[walk[v].k]
      BY <2>2, <2>3, <2>4, <2>9
    <3>2. QED BY <2>1, <2>4, <2>6, <2>7, <3>1 DEF WalkKept
  <2>10. QED BY <2>8, <2>9
<1>10. CASE D!EndJob(v)
  <2>1. walk' = [walk EXCEPT ![v] =
           [on |-> walk[v].on, due |-> walk[v].due, todo |-> walk[v].todo, job |-> NoJob,
            k |-> 1, rows |-> walk[v].rows]]
    BY <1>1, <1>10, WalkFields
  <2>2. walk'[v].job = NoJob /\ walk'[v].rows = {} /\ walk'[v].todo = walk[v].todo
    BY <1>1, <1>10, <2>1 DEF D!EndJob
  <2>3. NoJob \notin walk[v].todo
    BY <1>1 DEF D!Walks, D!DataPrivacyAssumption
  <2>4. QED BY <2>2, <2>3 DEF WalkKept, Erases
<1>11. CASE D!EndWalk(v)
  <2>1. walk'[v] = D!IdleWalk
    BY <1>1, <1>11 DEF D!EndWalk
  <2>2. QED BY <2>1 DEF WalkKept, Erases, D!IdleWalk
<1>12. CASE UNCHANGED walk
  BY <1>3, <1>12
<1>13. CASE (\E r \in Row : D!Create(r)) \/ (\E e \in Editor : D!Save(e) \/ \E r \in Row : D!Load(e, r))
            \/ (\E j \in Job : D!RequestJob(j) \/ D!GracePasses(j) \/ D!Cancel(j)) \/ UNCHANGED D!vars
  <2>1. UNCHANGED walk
    BY <1>13 DEF D!Create, D!Save, D!Load, D!RequestJob, D!GracePasses, D!Cancel, D!vars
  <2>2. QED BY <1>12, <2>1
<1>14. ASSUME NEW w \in Walker, D!RunPending(w) \/ D!ListTable(w) \/ D!EndJob(w) \/ D!EndWalk(w)
             \/ (\E j \in Job : D!TakeJob(w, j)) \/ (\E r \in Row : D!DeleteRow(w, r))
       PROVE  WalkKept(v)'
  <2>1. CASE w # v
    BY <1>3, <1>4, <1>14, <2>1
  <2>2. CASE w = v
    BY <1>6, <1>7, <1>8, <1>9, <1>10, <1>11, <1>14, <2>2
  <2>3. QED BY <2>1, <2>2
<1>15. QED BY <1>13, <1>14 DEF D!Next

LEMMA ErasureStep ==
  ASSUME D!DataPrivacyAssumption, PrivacyInv, [D!Next]_(D!vars),
         NEW i \in Job, KindOf[i] = "delete", job'[i] = "completed"
  PROVE  Erased'
<1> USE DEF D!jobVars, D!rowVars, D!walkVars
<1>1. D!TypeOK /\ job \in [Job -> D!DataJobStatus] /\ walk \in [Walker -> D!Walks]
  BY DEF PrivacyInv, D!TypeOK
<1>2. \A t : Cleared(t) => Cleared(t)'
  BY <1>1, Stays
<1>3. CASE job[i] = "completed"
  BY <1>2, <1>3 DEF PrivacyInv, Erased
<1>4. ASSUME job[i] # "completed"
      PROVE  \E w \in Walker : D!EndJob(w) /\ walk[w].job = i /\ walk[w].k > Len(DeleteOrder)
  <2>1. job' # job
    BY <1>4
  <2>2. ASSUME NEW j \in Job, D!RequestJob(j) \/ D!GracePasses(j) \/ D!Cancel(j) PROVE FALSE
    BY <1>1, <1>4, <2>2 DEF D!RequestJob, D!GracePasses, D!Cancel
  <2>3. ASSUME NEW w \in Walker, NEW j \in Job, D!TakeJob(w, j) PROVE FALSE
    BY <1>1, <1>4, <2>3 DEF D!TakeJob
  <2>4. ASSUME NEW w \in Walker, D!EndJob(w) PROVE walk[w].job = i /\ walk[w].k > Len(DeleteOrder)
    <3>1. /\ job' = [job EXCEPT ![walk[w].job] =
                       IF walk[w].k > Len(D!Order(walk[w].job)) THEN "completed" ELSE "failed"]
      BY <2>4 DEF D!EndJob
    <3>2. walk[w].job = i
      BY <1>1, <1>4, <3>1
    <3>3. QED BY <1>1, <3>1, <3>2 DEF D!Order
  <2>5. ASSUME NEW w \in Walker, D!RunPending(w) \/ D!ListTable(w) \/ D!EndWalk(w)
                                 \/ \E r \in Row : D!DeleteRow(w, r)
        PROVE  FALSE
    BY <2>1, <2>5 DEF D!RunPending, D!ListTable, D!EndWalk, D!DeleteRow
  <2>6. CASE (\E r \in Row : D!Create(r)) \/ (\E e \in Editor : D!Save(e) \/ \E r \in Row : D!Load(e, r))
             \/ UNCHANGED D!vars
    BY <2>1, <2>6 DEF D!Create, D!Save, D!Load, D!vars
  <2>7. QED BY <2>2, <2>3, <2>4, <2>5, <2>6 DEF D!Next
<1>5. ASSUME NEW w \in Walker, walk[w].job = i, walk[w].k > Len(DeleteOrder) PROVE Erased'
  <2>1. Erases(w) /\ WalkKept(w)
    BY <1>5 DEF Erases, PrivacyInv, D!DataPrivacyAssumption
  <2>2. \A k \in DOMAIN DeleteOrder : k < walk[w].k
    BY <1>1, <1>5 DEF D!Walks, D!DataPrivacyAssumption
  <2>3. \A k \in DOMAIN DeleteOrder : Cleared(DeleteOrder[k])
    BY <2>1, <2>2 DEF WalkKept
  <2>4. \A t \in Table : Cleared(t)
    BY <2>3 DEF D!DataPrivacyAssumption
  <2>5. QED BY <1>2, <2>4 DEF Erased
<1>6. QED BY <1>3, <1>4, <1>5

LEMMA PrivacyStep ==
  ASSUME D!DataPrivacyAssumption, PrivacyInv, [D!Next]_(D!vars) PROVE PrivacyInv'
<1>1. D!TypeOK' /\ HandsKept' /\ \A w \in Walker : WalkKept(w)'
  BY PrivacyTyped, HandsStep, WalkStep DEF PrivacyInv
<1>2. (\E j \in Job : KindOf[j] = "delete" /\ job'[j] = "completed") => Erased'
  BY ErasureStep
<1>3. QED BY <1>1, <1>2 DEF PrivacyInv

LEMMA PrivacyHolds ==
  ASSUME D!DataPrivacyAssumption, PrivacyInv PROVE D!ErasureIsComplete /\ D!CancelHolds
<1>1. D!CancelHolds
  BY DEF PrivacyInv, HandsKept, D!CancelHolds
<1>2. ASSUME NEW j \in Job, KindOf[j] = "delete", job[j] = "completed", NEW r \in stored
      PROVE  D!Excused(r)
  <2>1. Erased /\ TableOf[r] \in Table
    BY <1>2 DEF PrivacyInv, D!TypeOK, D!DataPrivacyAssumption
  <2>2. QED BY <2>1 DEF Erased, Cleared
<1>3. QED BY <1>1, <1>2 DEF D!ErasureIsComplete

\* A settled job changes only if two walks had it, or it was cancelled in hand.
LEMMA PrivacySettles ==
  ASSUME D!DataPrivacyAssumption, PrivacyInv, [D!Next]_(D!vars),
         NEW j \in Job, job[j] \in Settled, job'[j] # job[j]
  PROVE  j \in shared'
<1> USE DEF D!jobVars, D!rowVars, D!walkVars
<1>1. D!TypeOK /\ job \in [Job -> D!DataJobStatus] /\ walk \in [Walker -> D!Walks]
  BY DEF PrivacyInv, D!TypeOK
<1>2. \A w \in Walker : D!HasJob(w, j) => j \in shared
  BY DEF PrivacyInv, HandsKept
<1>3. job' # job /\ job[j] \notin {"absent", "pending", "running"}
  BY DEF Settled
<1>4. ASSUME NEW i \in Job, D!RequestJob(i) \/ D!GracePasses(i) \/ D!Cancel(i) PROVE FALSE
  BY <1>1, <1>3, <1>4 DEF D!RequestJob, D!GracePasses, D!Cancel
<1>5. ASSUME NEW w \in Walker, NEW i \in Job, D!TakeJob(w, i) PROVE j \in shared'
  <2>1. i = j /\ j \in walk[w].todo /\ shared' = shared
    BY <1>1, <1>5 DEF D!TakeJob
  <2>2. QED BY <1>2, <2>1 DEF D!HasJob
<1>6. ASSUME NEW w \in Walker, D!EndJob(w) PROVE j \in shared'
  <2>1. walk[w].job = j /\ shared' = shared
    BY <1>1, <1>6 DEF D!EndJob
  <2>2. QED BY <1>2, <2>1 DEF D!HasJob
<1>7. ASSUME NEW w \in Walker, D!RunPending(w) \/ D!ListTable(w) \/ D!EndWalk(w)
                               \/ \E r \in Row : D!DeleteRow(w, r)
      PROVE  FALSE
  BY <1>3, <1>7 DEF D!RunPending, D!ListTable, D!EndWalk, D!DeleteRow
<1>8. CASE (\E r \in Row : D!Create(r)) \/ (\E e \in Editor : D!Save(e) \/ \E r \in Row : D!Load(e, r))
           \/ UNCHANGED D!vars
  BY <1>3, <1>8 DEF D!Create, D!Save, D!Load, D!vars
<1>9. QED BY <1>4, <1>5, <1>6, <1>7, <1>8 DEF D!Next

LEMMA PrivacyInvariant ==
  ASSUME D!DataPrivacyAssumption PROVE D!Spec => []PrivacyInv
<1>1. D!Init => PrivacyInv BY PrivacyInit
<1>2. PrivacyInv /\ [D!Next]_(D!vars) => PrivacyInv' BY PrivacyStep
<1>3. QED BY <1>1, <1>2, PTL DEF D!Spec

\* Rows, jobs and walks keep their types.
THEOREM PrivacyTypes ==
  ASSUME D!DataPrivacyAssumption PROVE D!Spec => []D!TypeOK
<1>1. PrivacyInv => D!TypeOK BY DEF PrivacyInv
<1>2. QED BY <1>1, PrivacyInvariant, PTL

\* execute_delete: a completed erasure left only rows that were written behind its
\* back, whose delete failed, or that one of these refers to, for any tables
\* listed in an order in which what forbids a delete goes first.
THEOREM ErasuresAreComplete ==
  ASSUME D!DataPrivacyAssumption PROVE D!Spec => []D!ErasureIsComplete
<1>1. PrivacyInv => D!ErasureIsComplete BY PrivacyHolds
<1>2. QED BY <1>1, PrivacyInvariant, PTL

\* cancel: a job cancelled while no walk had it in hand is never begun.
THEOREM CancelledJobsRest ==
  ASSUME D!DataPrivacyAssumption PROVE D!Spec => []D!CancelHolds
<1>1. PrivacyInv => D!CancelHolds BY PrivacyHolds
<1>2. QED BY <1>1, PrivacyInvariant, PTL

\* run_pending: a job changes its last status only if two calls had it in hand
\* together, or it was cancelled while one had.
THEOREM JobsSettleOnce ==
  ASSUME D!DataPrivacyAssumption PROVE D!Spec => D!SettlesOnce
<1>1. ASSUME PrivacyInv, [D!Next]_(D!vars), NEW j \in Job,
             job[j] \in {"completed", "failed", "cancelled"}, job'[j] # job[j]
      PROVE  j \in shared'
  BY <1>1, PrivacySettles DEF Settled
<1>2. PrivacyInv /\ [D!Next]_(D!vars) =>
        [\A j \in Job : job[j] \in {"completed", "failed", "cancelled"} /\ job'[j] # job[j]
                         => j \in shared']_(D!vars)
  BY <1>1
<1>3. QED BY <1>2, PrivacyInvariant, PTL DEF D!Spec, D!SettlesOnce

-----------------------------------------------------------------------------
(* The circuit breaker.                                                    *)

\* Neither half is inductive alone: a failure reopens a half-open circuit because
\* its counter still stands at the threshold.
BreakerInv == B!TypeOK /\ B!OpensAndProbes /\ B!HalfOpenIsOnTrial

LEMMA BreakerInit ==
  ASSUME B!BreakerAssumption, B!Init PROVE BreakerInv
<1>1. B!TypeOK
  <2>1. fails \in 0 .. MaxFails /\ calls \in 0 .. MaxCalls
    BY DEF B!BreakerAssumption, B!Init
  <2>2. call \in [Call -> B!CallPcs]
    BY DEF B!Init, B!CallPcs
  <2>3. state \in {"closed", "open", "half_open"} /\ cooled \in {"none", "ahead", "passed"}
    BY DEF B!Init
  <2>4. stale \in BOOLEAN
    BY DEF B!Init
  <2>5. QED BY <2>1, <2>2, <2>3, <2>4 DEF B!TypeOK
<1>2. B!OpensAndProbes /\ B!HalfOpenIsOnTrial
  BY DEF B!BreakerAssumption, B!Init, B!OpensAndProbes, B!HalfOpenIsOnTrial
<1>3. QED BY <1>1, <1>2 DEF BreakerInv

LEMMA BreakerStep ==
  ASSUME B!BreakerAssumption, BreakerInv, [B!Next]_(B!vars) PROVE BreakerInv'
<1> USE DEF B!BreakerAssumption, BreakerInv, B!TypeOK, B!CallPcs
<1>1. ASSUME NEW c \in Call, B!Guard(c) PROVE BreakerInv'
  <2>1. call' \in [Call -> B!CallPcs] /\ calls' \in 0 .. MaxCalls
    BY <1>1 DEF B!Guard
  <2>2. QED BY <1>1, <2>1 DEF B!Guard, B!OpensAndProbes, B!HalfOpenIsOnTrial
\* A promotion that is not late keeps the count with which the circuit opened.
<1>2. ASSUME NEW c \in Call, B!Promote(c) PROVE BreakerInv'
  <2>1. B!TypeOK'
    BY <1>2 DEF B!Promote
  <2>2. B!OpensAndProbes'
    BY <1>2 DEF B!Promote, B!OpensAndProbes
  <2>3. ~ stale' => state = "open"
    BY <1>2 DEF B!Promote
  <2>4. B!HalfOpenIsOnTrial'
    BY <1>2, <2>3 DEF B!Promote, B!OpensAndProbes, B!HalfOpenIsOnTrial
  <2>5. QED BY <2>1, <2>2, <2>4
<1>3. ASSUME NEW c \in Call, B!Invoke(c) PROVE BreakerInv'
  BY <1>3 DEF B!Invoke, B!OpensAndProbes, B!HalfOpenIsOnTrial
<1>4. ASSUME NEW c \in Call, B!Answer(c) PROVE BreakerInv'
  BY <1>4 DEF B!Answer, B!OpensAndProbes, B!HalfOpenIsOnTrial
<1>5. ASSUME NEW c \in Call, B!RecordSuccess(c) PROVE BreakerInv'
  BY <1>5 DEF B!RecordSuccess, B!OpensAndProbes, B!HalfOpenIsOnTrial
\* A capped counter has passed the threshold, so the cap hides nothing.
<1>6. ASSUME NEW c \in Call, B!RecordFailure(c) PROVE BreakerInv'
  <2>1. B!TypeOK'
    BY <1>6 DEF B!RecordFailure
  <2>2. B!Trips(fails + 1) <=> fails' >= Threshold
    BY <1>6 DEF B!RecordFailure, B!Trips
  <2>3. B!OpensAndProbes'
    BY <1>6, <2>2 DEF B!RecordFailure, B!OpensAndProbes
  <2>4. fails' >= fails
    BY <1>6 DEF B!RecordFailure
  <2>5. B!HalfOpenIsOnTrial'
    BY <1>6, <2>4 DEF B!RecordFailure, B!HalfOpenIsOnTrial
  <2>6. QED BY <2>1, <2>3, <2>5
<1>7. CASE B!Cools
  BY <1>7 DEF B!Cools, B!OpensAndProbes, B!HalfOpenIsOnTrial
<1>8. CASE UNCHANGED B!vars
  BY <1>8 DEF B!vars, B!OpensAndProbes, B!HalfOpenIsOnTrial
<1>9. QED BY <1>1, <1>2, <1>3, <1>4, <1>5, <1>6, <1>7, <1>8 DEF B!Next

LEMMA BreakerInvariant ==
  ASSUME B!BreakerAssumption PROVE B!Spec => []BreakerInv
<1>1. B!Init => BreakerInv BY BreakerInit
<1>2. BreakerInv /\ [B!Next]_(B!vars) => BreakerInv' BY BreakerStep
<1>3. QED BY <1>1, <1>2, PTL DEF B!Spec

\* The row and the calls keep their types.
THEOREM BreakerTypes ==
  ASSUME B!BreakerAssumption PROVE B!Spec => []B!TypeOK
<1>1. BreakerInv => B!TypeOK BY DEF BreakerInv
<1>2. QED BY <1>1, BreakerInvariant, PTL

\* guard(): the circuit opens at the threshold however many calls report at once,
\* and an open circuit always has a time for its next probe.
THEOREM OpensInTime ==
  ASSUME B!BreakerAssumption PROVE B!Spec => []B!OpensAndProbes
<1>1. BreakerInv => B!OpensAndProbes BY DEF BreakerInv
<1>2. QED BY <1>1, BreakerInvariant, PTL

\* _set_half_open: a half-open circuit reopens at the first failure unless some
\* promotion was written over a row that had changed since it was read.
THEOREM TrialEndsAtFailure ==
  ASSUME B!BreakerAssumption PROVE B!Spec => []B!HalfOpenIsOnTrial
<1>1. BreakerInv => B!HalfOpenIsOnTrial BY DEF BreakerInv
<1>2. QED BY <1>1, BreakerInvariant, PTL

-----------------------------------------------------------------------------
(* The rate limits: tokens spent are tokens the bucket held or gained.          *)

\* What has been handed out was in the bucket at first or has accrued since.
TenantPaid == taken * Unit + tokens <= Capacity * Unit + stamp * L!Max(Rates)
GovernorPaid == (passed - slept) * Unit + purse <= Room * Unit + touched

BucketInv == L!TypeOK /\ TenantPaid /\ GovernorPaid

LEMMA HighestRate ==
  ASSUME L!BucketsAssumption
  PROVE  L!Max(Rates) \in Rates /\ L!Max(Rates) \in Nat /\ \A r \in Rates : r <= L!Max(Rates)
<1>1. \E m \in Rates : \A r \in Rates : m >= r
  BY DEF L!BucketsAssumption
<1>2. L!Max(Rates) \in Rates /\ \A r \in Rates : L!Max(Rates) >= r
  BY <1>1 DEF L!Max
<1>3. \A r \in Rates : r \in Nat
  BY DEF L!BucketsAssumption
<1>4. QED BY <1>2, <1>3

\* More factors, a larger product.
LEMMA Grows ==
  ASSUME NEW a \in Nat, NEW b \in Nat, NEW c \in Nat, a <= b
  PROVE  a * c \in Nat /\ b * c \in Nat /\ a * c <= b * c /\ c * a <= c * b
<1>1. PICK d \in Nat : b = a + d
  BY b - a \in Nat
<1>2. b * c = a * c + d * c /\ a * c \in Nat /\ d * c \in Nat
  BY <1>1
<1>3. QED BY <1>2

LEMMA BucketInit ==
  ASSUME L!BucketsAssumption, L!Init PROVE BucketInv
<1>1. Capacity * Unit \in Nat /\ Room * Unit \in Nat /\ 0 * L!Max(Rates) = 0
  BY HighestRate DEF L!BucketsAssumption
<1>2. L!TypeOK
  BY <1>1, HighestRate DEF L!BucketsAssumption, L!Init, L!TypeOK
<1>3. TenantPaid /\ GovernorPaid
  BY <1>1 DEF L!BucketsAssumption, L!Init, TenantPaid, GovernorPaid
<1>4. QED BY <1>2, <1>3 DEF BucketInv

LEMMA TenantTakes ==
  ASSUME L!BucketsAssumption, BucketInv, L!TryConsume
  PROVE  tokens' \in 0 .. Capacity * Unit /\ taken' \in 0 .. MaxTakes /\ TenantPaid'
<1> DEFINE gain == (clock - stamp) * rate
           full == Capacity * Unit
           top == L!Max(Rates)
<1>1. /\ clock \in Nat /\ stamp \in Nat /\ stamp <= clock /\ tokens \in Nat /\ rate \in Nat
      /\ taken \in Nat /\ Unit \in Nat /\ full \in Nat /\ top \in Nat /\ rate <= top
      /\ MaxTakes \in Nat /\ taken < MaxTakes /\ tokens <= full
  BY HighestRate DEF L!BucketsAssumption, BucketInv, L!TypeOK, L!TryConsume
<1>2. gain \in Nat /\ clock - stamp \in Nat
  BY <1>1
<1>3. gain <= (clock - stamp) * top
  BY <1>1, <1>2, Grows
<1>4. (clock - stamp) * top = clock * top - stamp * top /\ clock * top \in Nat /\ stamp * top \in Nat
  BY <1>1
<1>5. taken * Unit + tokens <= full + stamp * top /\ taken * Unit \in Nat
  BY <1>1 DEF BucketInv, TenantPaid
<1>6. PICK bag \in Nat : bag = L!Refilled
  BY <1>1, <1>2 DEF L!Refilled, L!Least
<1>7. bag <= full /\ bag <= tokens + gain
  BY <1>1, <1>2, <1>6 DEF L!Refilled, L!Least
<1>8. (taken + 1) * Unit = taken * Unit + Unit
  BY <1>1
<1>9. taken * Unit + bag <= full + clock * top
  BY <1>1, <1>2, <1>3, <1>4, <1>5, <1>7
<1> HIDE DEF full, top, gain
<1>10. /\ stamp' = clock
       /\ \/ bag >= Unit /\ tokens' = bag - Unit /\ taken' = taken + 1
          \/ ~ bag >= Unit /\ tokens' = bag /\ taken' = taken
  BY <1>6 DEF L!TryConsume
<1>11. tokens' \in 0 .. full /\ taken' \in 0 .. MaxTakes
  BY <1>1, <1>7, <1>10
<1>12. taken' * Unit + tokens' <= full + stamp' * top
  <2>1. CASE bag >= Unit /\ tokens' = bag - Unit /\ taken' = taken + 1
    <3>1. taken' * Unit + tokens' = taken * Unit + bag
      BY <1>1, <1>5, <1>8, <2>1
    <3>2. QED BY <1>9, <1>10, <3>1
  <2>2. CASE tokens' = bag /\ taken' = taken
    BY <1>9, <1>10, <2>2
  <2>3. QED BY <1>10, <2>1, <2>2
<1>13. QED BY <1>11, <1>12 DEF TenantPaid, full, top

LEMMA GovernorLets ==
  ASSUME L!BucketsAssumption, BucketInv, NEW p \in Publisher, L!Acquire(p)
  PROVE  /\ purse' \in 0 .. Room * Unit /\ passed' \in 0 .. MaxTakes /\ slept \in 0 .. passed'
         /\ wake' \in [Publisher -> 0 .. MaxTime + Unit] /\ touched' \in 0 .. clock
         /\ GovernorPaid'
<1> DEFINE full == Room * Unit
<1>1. /\ clock \in Nat /\ touched \in Nat /\ touched <= clock /\ purse \in Nat /\ purse <= full
      /\ clock <= MaxTime /\ MaxTime \in Nat /\ slept \in Nat /\ slept <= passed
      /\ passed \in Nat /\ Unit \in Nat \ {0} /\ full \in Nat /\ MaxTakes \in Nat /\ passed < MaxTakes
  BY DEF L!BucketsAssumption, BucketInv, L!TypeOK, L!Acquire
<1>2. (passed - slept) * Unit + purse <= full + touched /\ (passed - slept) * Unit \in Nat
  BY <1>1 DEF BucketInv, GovernorPaid
<1>3. PICK bag \in Nat : bag = L!Accrued
  BY <1>1 DEF L!Accrued, L!Least
<1>4. bag <= full /\ bag <= purse + (clock - touched)
  BY <1>1, <1>3 DEF L!Accrued, L!Least
<1>5. (passed + 1 - slept) * Unit = (passed - slept) * Unit + Unit
  BY <1>1
<1> HIDE DEF full
<1>6. /\ touched' = clock /\ slept' = slept
      /\ \/ bag >= Unit /\ purse' = bag - Unit /\ passed' = passed + 1 /\ wake' = wake
         \/ /\ ~ bag >= Unit /\ purse' = 0 /\ passed' = passed
            /\ wake' = [wake EXCEPT ![p] = clock + (Unit - bag)]
  BY <1>3 DEF L!Acquire
<1>7. wake' \in [Publisher -> 0 .. MaxTime + Unit]
  <2>1. wake \in [Publisher -> 0 .. MaxTime + Unit]
    BY DEF BucketInv, L!TypeOK
  <2>2. CASE wake' = wake
    BY <2>1, <2>2
  <2>3. CASE ~ bag >= Unit /\ wake' = [wake EXCEPT ![p] = clock + (Unit - bag)]
    <3>1. clock + (Unit - bag) \in 0 .. MaxTime + Unit
      BY <1>1, <2>3
    <3>2. QED BY <2>1, <2>3, <3>1
  <2>4. QED BY <1>6, <2>2, <2>3
<1>8. (passed' - slept') * Unit + purse' <= full + touched'
  <2>1. CASE bag >= Unit /\ purse' = bag - Unit /\ passed' = passed + 1
    <3>1. (passed' - slept') * Unit + purse' = (passed - slept) * Unit + bag
      BY <1>1, <1>2, <1>5, <1>6, <2>1
    <3>2. QED BY <1>1, <1>2, <1>4, <1>6, <3>1
  <2>2. CASE purse' = 0 /\ passed' = passed
    BY <1>1, <1>2, <1>6, <2>2
  <2>3. QED BY <1>6, <2>1, <2>2
<1>9. purse' \in 0 .. full /\ passed' \in 0 .. MaxTakes /\ slept \in 0 .. passed'
  BY <1>1, <1>4, <1>6
<1>10. QED BY <1>1, <1>6, <1>7, <1>8, <1>9 DEF GovernorPaid, full

LEMMA BucketStep ==
  ASSUME L!BucketsAssumption, BucketInv, [L!Next]_(L!vars) PROVE BucketInv'
<1>1. CASE L!Tick
  <2>1. clock \in Nat /\ clock' = clock + 1 /\ clock' \in 0 .. MaxTime
    BY <1>1 DEF L!Tick, L!BucketsAssumption, BucketInv, L!TypeOK
  <2>2. L!TypeOK'
    BY <1>1, <2>1 DEF L!Tick, L!tenant, L!governor, BucketInv, L!TypeOK
  <2>3. QED BY <1>1, <2>2 DEF L!Tick, L!tenant, L!governor, BucketInv, TenantPaid, GovernorPaid
<1>2. CASE L!TryConsume
  <2>1. L!TypeOK'
    <3>1. clock' = clock /\ rate' = rate /\ stamp' = clock /\ clock \in 0 .. clock
      BY <1>2 DEF L!TryConsume, BucketInv, L!TypeOK, L!BucketsAssumption
    <3>2. QED BY <1>2, <3>1, TenantTakes DEF L!TryConsume, L!governor, BucketInv, L!TypeOK
  <2>2. GovernorPaid'
    BY <1>2 DEF L!TryConsume, L!governor, BucketInv, GovernorPaid
  <2>3. QED BY <1>2, <2>1, <2>2, TenantTakes DEF BucketInv
<1>3. CASE L!Configure
  BY <1>3 DEF L!Configure, L!governor, BucketInv, L!TypeOK, TenantPaid, GovernorPaid
<1>4. ASSUME NEW p \in Publisher, L!Acquire(p) PROVE BucketInv'
  <2>1. clock' = clock /\ slept' = slept /\ UNCHANGED L!tenant
    BY <1>4 DEF L!Acquire
  <2>2. L!TypeOK'
    BY <1>4, <2>1, GovernorLets DEF L!tenant, BucketInv, L!TypeOK
  <2>3. TenantPaid'
    BY <2>1 DEF L!tenant, BucketInv, TenantPaid
  <2>4. QED BY <1>4, <2>2, <2>3, GovernorLets DEF BucketInv
\* Who wakes takes nothing, and is counted on both sides.
<1>5. ASSUME NEW p \in Publisher, L!Wakes(p) PROVE BucketInv'
  <2>1. /\ passed \in Nat /\ slept \in Nat /\ slept <= passed /\ passed < MaxTakes
        /\ MaxTakes \in Nat /\ MaxTime \in Nat /\ Unit \in Nat
    BY <1>5 DEF L!Wakes, L!BucketsAssumption, BucketInv, L!TypeOK
  <2>2. passed' - slept' = passed - slept /\ passed' \in 0 .. MaxTakes /\ slept' \in 0 .. passed'
    BY <1>5, <2>1 DEF L!Wakes
  <2>3. wake' \in [Publisher -> 0 .. MaxTime + Unit]
    BY <1>5, <2>1 DEF L!Wakes, BucketInv, L!TypeOK
  <2>4. L!TypeOK'
    BY <1>5, <2>2, <2>3 DEF L!Wakes, L!tenant, BucketInv, L!TypeOK
  <2>5. QED BY <1>5, <2>2, <2>4 DEF L!Wakes, L!tenant, BucketInv, TenantPaid, GovernorPaid
<1>6. CASE UNCHANGED L!vars
  BY <1>6 DEF L!vars, BucketInv, L!TypeOK, TenantPaid, GovernorPaid
<1>7. QED BY <1>1, <1>2, <1>3, <1>4, <1>5, <1>6 DEF L!Next

LEMMA BucketsHold ==
  ASSUME L!BucketsAssumption, BucketInv PROVE L!TenantIsHeld /\ L!GovernorIsHeld
<1>1. /\ clock \in Nat /\ stamp \in Nat /\ stamp <= clock /\ touched \in Nat /\ touched <= clock
      /\ tokens \in Nat /\ purse \in Nat /\ passed \in Nat /\ slept \in Nat /\ slept <= passed
      /\ Unit \in Nat /\ Capacity \in Nat /\ Room \in Nat /\ taken \in Nat
  BY DEF L!BucketsAssumption, BucketInv, L!TypeOK
<1>2. stamp * L!Max(Rates) <= clock * L!Max(Rates) /\ stamp * L!Max(Rates) \in Nat
      /\ clock * L!Max(Rates) \in Nat
  BY <1>1, HighestRate, Grows
<1>3. /\ taken * Unit \in Nat /\ Capacity * Unit \in Nat /\ Room * Unit \in Nat
      /\ (passed - slept) * Unit \in Nat
  BY <1>1
<1>4. L!TenantIsHeld
  BY <1>1, <1>2, <1>3 DEF BucketInv, TenantPaid, L!TenantIsHeld
<1>5. L!GovernorIsHeld
  BY <1>1, <1>3 DEF BucketInv, GovernorPaid, L!GovernorIsHeld
<1>6. QED BY <1>4, <1>5

LEMMA BucketInvariant ==
  ASSUME L!BucketsAssumption PROVE L!Spec => []BucketInv
<1>1. L!Init => BucketInv BY BucketInit
<1>2. BucketInv /\ [L!Next]_(L!vars) => BucketInv' BY BucketStep
<1>3. QED BY <1>1, <1>2, PTL DEF L!Spec

\* The buckets, the clock and the publishers keep their types.
THEOREM BucketTypes ==
  ASSUME L!BucketsAssumption PROVE L!Spec => []L!TypeOK
<1>1. BucketInv => L!TypeOK BY DEF BucketInv
<1>2. QED BY <1>1, BucketInvariant, PTL

\* TenantRateLimiter.try_acquire: since its bucket was made, a tenant has started no
\* more runs than a full bucket and the highest rate it ever had pay for.
THEOREM TenantsAreHeld ==
  ASSUME L!BucketsAssumption PROVE L!Spec => []L!TenantIsHeld
<1>1. BucketInv => L!TenantIsHeld BY BucketsHold
<1>2. QED BY <1>1, BucketInvariant, PTL

\* RateGovernor.acquire: the calls let through without having slept spend no more
\* than the bucket held and has gained.
THEOREM GovernorHolds ==
  ASSUME L!BucketsAssumption PROVE L!Spec => []L!GovernorIsHeld
<1>1. BucketInv => L!GovernorIsHeld BY BucketsHold
<1>2. QED BY <1>1, BucketInvariant, PTL

-----------------------------------------------------------------------------
(* The budget: rows of a month and completions not yet recorded.                *)

Open == {c \in Completion : pc[c] \in C!Unrecorded}
RowsOf(m) == {c \in Completion : billed[c] = m}

SpendingFinite == IsFiniteSet(Open) /\ \A m \in 1 .. MaxMonth : IsFiniteSet(RowsOf(m))
\* What is under way counts against the month before it has a row.
SpendingHeld ==
    budget > 0 /\ ~ opened =>
        /\ \A c \in Completion : seen[c] = budget
        /\ \A m \in 1 .. MaxMonth : Cardinality(RowsOf(m)) < budget + crowd
        /\ Cardinality(RowsOf(month)) + Cardinality(Open) < budget + crowd
SpendingBilled ==
    \A c \in Completion :
        /\ billed[c] <= month /\ begun[c] <= month
        /\ pc[c] # "done" => billed[c] = 0
        /\ pc[c] \in C!Unrecorded => begun[c] # 0
        /\ billed[c] # 0 => begun[c] # 0 /\ billed[c] >= begun[c]
SpendingInv ==
    /\ C!TypeOK /\ SpendingFinite /\ Cardinality(Open) <= crowd
    /\ SpendingHeld /\ SpendingBilled

LEMMA LaterMonth ==
  ASSUME NEW a \in Nat, NEW b \in Nat
  PROVE  C!Max({a, b}) \in Nat /\ C!Max({a, b}) >= a /\ C!Max({a, b}) >= b
<1>1. \E x \in {a, b} : \A y \in {a, b} : x >= y
  OBVIOUS
<1>2. C!Max({a, b}) \in {a, b} /\ \A y \in {a, b} : C!Max({a, b}) >= y
  BY <1>1 DEF C!Max
<1>3. QED BY <1>2

\* The sizes of sets are what they are in every module.
LEMMA SpendingCounts ==
  ASSUME NEW U PROVE C!Cardinality(U) = Cardinality(U)
  BY Zenon DEF C!Cardinality, Cardinality

LEMMA SpendingInit ==
  ASSUME C!SpendingAssumption, C!Init PROVE SpendingInv
<1>1. Open = {} /\ \A m \in 1 .. MaxMonth : RowsOf(m) = {}
  BY DEF C!Init, Open, RowsOf, C!Unrecorded
<1>2. month = 1 /\ 1 \in Nat /\ budget \in Nat /\ Budgets \subseteq Nat /\ MaxMonth \in Nat
  BY DEF C!Init, C!SpendingAssumption
<1>3. RowsOf(month) = {}
  BY <1>2 DEF C!Init, RowsOf
<1>4. IsFiniteSet({}) /\ Cardinality({}) = 0
  BY FS_EmptySet
<1>5. crowd = 0 /\ \A c \in Completion : seen[c] = budget
  BY DEF C!Init
<1>6. SpendingFinite /\ Cardinality(Open) <= crowd
  BY <1>1, <1>4, <1>5 DEF SpendingFinite
<1>7. SpendingHeld
  <2>1. \A m \in 1 .. MaxMonth : Cardinality(RowsOf(m)) = 0
    BY <1>1, <1>4
  <2>2. Cardinality(RowsOf(month)) = 0 /\ Cardinality(Open) = 0
    BY <1>1, <1>3, <1>4
  <2>3. QED BY <1>2, <1>5, <2>1, <2>2 DEF SpendingHeld
<1>8. SpendingBilled
  <2>1. \A c \in Completion : billed[c] = 0 /\ begun[c] = 0 /\ pc[c] = "idle"
    BY DEF C!Init
  <2>2. QED BY <1>2, <2>1 DEF SpendingBilled, C!Unrecorded
<1>9. C!TypeOK
  <2>1. 1 \in 1 .. MaxMonth /\ 0 \in 0 .. MaxMonth /\ 0 \in Nat
    BY DEF C!SpendingAssumption
  <2>2. pc \in [Completion -> {"idle", "checking", "admitted", "returned", "done", "refused"}]
    BY DEF C!Init
  <2>3. billed \in [Completion -> 0 .. MaxMonth] /\ begun \in [Completion -> 0 .. MaxMonth]
    BY <2>1 DEF C!Init
  <2>4. seen \in [Completion -> Budgets] /\ budget \in Budgets /\ month = 1 /\ crowd = 0
        /\ opened = FALSE
    BY DEF C!Init
  <2>5. QED BY <2>1, <2>2, <2>3, <2>4 DEF C!TypeOK
<1>10. QED BY <1>6, <1>7, <1>8, <1>9 DEF SpendingInv

\* One completion moves; the set of those under way grows by it at most.
LEMMA SpendingFrame ==
  ASSUME C!SpendingAssumption, SpendingInv
  PROVE  /\ Cardinality(Open) \in Nat /\ \A m \in 1 .. MaxMonth : Cardinality(RowsOf(m)) \in Nat
         /\ month \in Nat /\ MaxMonth \in Nat /\ month <= MaxMonth /\ month >= 1
         /\ budget \in Nat /\ crowd \in Nat
<1>1. /\ month \in Nat /\ MaxMonth \in Nat /\ month <= MaxMonth /\ month >= 1
      /\ budget \in Nat /\ crowd \in Nat
  BY DEF SpendingInv, C!TypeOK, C!SpendingAssumption
<1>2. IsFiniteSet(Open) /\ \A m \in 1 .. MaxMonth : IsFiniteSet(RowsOf(m))
  BY DEF SpendingInv, SpendingFinite
<1>3. QED BY <1>1, <1>2, FS_CardinalityType

LEMMA SpendingReads ==
  ASSUME C!SpendingAssumption, SpendingInv, NEW c \in Completion, C!ReadBudget(c) PROVE SpendingInv'
<1>1. /\ pc[c] = "idle" /\ pc' = [pc EXCEPT ![c] = "checking"]
      /\ seen' = [seen EXCEPT ![c] = budget]
      /\ month' = month /\ budget' = budget /\ billed' = billed /\ begun' = begun
      /\ crowd' = crowd /\ opened' = opened
  BY DEF C!ReadBudget
<1>2. C!TypeOK'
  BY <1>1 DEF SpendingInv, C!TypeOK
<1>3. /\ \A d \in Completion : (pc'[d] \in C!Unrecorded) = (pc[d] \in C!Unrecorded)
      /\ \A d \in Completion : (pc'[d] # "done") = (pc[d] # "done")
  BY <1>1 DEF SpendingInv, C!TypeOK, C!Unrecorded
<1>4. Open' = Open /\ \A m \in 1 .. MaxMonth : RowsOf(m)' = RowsOf(m)
  BY <1>1, <1>3 DEF Open, RowsOf
<1>5. RowsOf(month)' = RowsOf(month)
  BY <1>1 DEF RowsOf
<1>6. SpendingFinite' /\ Cardinality(Open)' <= crowd'
  BY <1>1, <1>4 DEF SpendingInv, SpendingFinite
<1>7. SpendingHeld'
  <2>1. ASSUME budget > 0, ~ opened PROVE \A d \in Completion : seen'[d] = budget
    BY <1>1, <2>1 DEF SpendingInv, C!TypeOK, SpendingHeld
  <2>2. QED BY <1>1, <1>4, <1>5, <2>1 DEF SpendingInv, SpendingHeld
<1>8. SpendingBilled'
  BY <1>1, <1>3 DEF SpendingInv, SpendingBilled
<1>9. QED BY <1>2, <1>6, <1>7, <1>8 DEF SpendingInv

LEMMA SpendingChecks ==
  ASSUME C!SpendingAssumption, SpendingInv, NEW c \in Completion, C!Check(c) PROVE SpendingInv'
<1>1. /\ pc[c] = "checking"
      /\ pc' = [pc EXCEPT ![c] = IF C!OverBudget(seen[c]) THEN "refused" ELSE "admitted"]
      /\ begun' = [begun EXCEPT ![c] = IF C!OverBudget(seen[c]) THEN 0 ELSE month]
      /\ crowd' = C!Max({crowd, Cardinality(Open')})
      /\ month' = month /\ budget' = budget /\ seen' = seen /\ billed' = billed /\ opened' = opened
  BY SpendingCounts DEF C!Check, Open
<1>2. \A m \in 1 .. MaxMonth : RowsOf(m)' = RowsOf(m)
  BY <1>1 DEF RowsOf
<1>3. /\ RowsOf(month)' = RowsOf(month) /\ month \in 1 .. MaxMonth
      /\ RowsOf(month) = {d \in Completion : billed[d] = month}
  BY <1>1 DEF RowsOf, SpendingInv, C!TypeOK
<1>4. IsFiniteSet(Open') /\ Cardinality(Open') \in Nat
  <2>1. Open' \subseteq Open \cup {c}
    BY <1>1 DEF Open, SpendingInv, C!TypeOK
  <2>2. IsFiniteSet(Open \cup {c})
    BY FS_AddElement DEF SpendingInv, SpendingFinite
  <2>3. QED BY <2>1, <2>2, FS_Subset, FS_CardinalityType
<1>5. /\ crowd \in Nat /\ crowd' \in Nat /\ crowd' >= crowd /\ crowd' >= Cardinality(Open')
      /\ month \in Nat /\ MaxMonth \in Nat /\ budget \in Nat
  BY <1>1, <1>4, LaterMonth, SpendingFrame
<1>6. C!TypeOK'
  <2>1. pc' \in [Completion -> {"idle", "checking", "admitted", "returned", "done", "refused"}]
    BY <1>1 DEF SpendingInv, C!TypeOK
  <2>2. begun' \in [Completion -> 0 .. MaxMonth]
    BY <1>1, SpendingFrame DEF SpendingInv, C!TypeOK
  <2>3. QED BY <1>1, <1>5, <2>1, <2>2 DEF SpendingInv, C!TypeOK
<1>7. SpendingFinite' /\ Cardinality(Open)' <= crowd'
  BY <1>1, <1>2, <1>4, <1>5 DEF SpendingInv, SpendingFinite
<1>8. ASSUME budget' > 0, ~ opened'
      PROVE  /\ \A d \in Completion : seen'[d] = budget'
             /\ \A m \in 1 .. MaxMonth : Cardinality(RowsOf(m)') < budget' + crowd'
             /\ Cardinality(RowsOf(month)') + Cardinality(Open') < budget' + crowd'
  <2>1. /\ \A d \in Completion : seen[d] = budget
        /\ \A m \in 1 .. MaxMonth : Cardinality(RowsOf(m)) < budget + crowd
        /\ Cardinality(RowsOf(month)) + Cardinality(Open) < budget + crowd
    BY <1>1, <1>8 DEF SpendingInv, SpendingHeld
  <2>2. \A m \in 1 .. MaxMonth : Cardinality(RowsOf(m)') < budget' + crowd'
    BY <1>1, <1>2, <1>5, <2>1, SpendingFrame
  <2>3. CASE C!OverBudget(seen[c])
    <3>1. Open' = Open
      BY <1>1, <2>3 DEF Open, C!Unrecorded, SpendingInv, C!TypeOK
    <3>2. Cardinality(RowsOf(month)') = Cardinality(RowsOf(month))
          /\ Cardinality(RowsOf(month)) \in Nat /\ Cardinality(Open) \in Nat
      BY <1>3, SpendingFrame
    <3>3. Cardinality(RowsOf(month)') + Cardinality(Open') < budget' + crowd'
      BY <1>1, <1>5, <2>1, <3>1, <3>2
    <3>4. QED BY <1>1, <2>1, <2>2, <3>3
  <2>4. CASE ~ C!OverBudget(seen[c])
    <3>1. Cardinality(RowsOf(month)) < budget
      BY <1>1, <1>3, <1>8, <2>1, <2>4, SpendingFrame, SpendingCounts DEF C!OverBudget, C!MtdSpend, RowsOf
    <3>2. Cardinality(RowsOf(month)') = Cardinality(RowsOf(month))
          /\ Cardinality(RowsOf(month)) \in Nat
      BY <1>3, SpendingFrame
    <3>3. Cardinality(RowsOf(month)') + Cardinality(Open') < budget' + crowd'
      BY <1>1, <1>4, <1>5, <3>1, <3>2
    <3>4. QED BY <1>1, <2>1, <2>2, <3>3
  <2>5. QED BY <2>3, <2>4
<1>9. SpendingHeld'
  BY <1>1, <1>8 DEF SpendingHeld
<1>10. SpendingBilled'
  <2>1. ASSUME NEW d \in Completion
        PROVE  /\ billed'[d] <= month' /\ begun'[d] <= month'
               /\ pc'[d] # "done" => billed'[d] = 0
               /\ pc'[d] \in C!Unrecorded => begun'[d] # 0
               /\ billed'[d] # 0 => begun'[d] # 0 /\ billed'[d] >= begun'[d]
    <3>1. CASE d # c
      BY <1>1, <3>1 DEF SpendingInv, C!TypeOK, SpendingBilled
    <3>2. CASE d = c
      <4>1. billed'[c] = 0 /\ billed[c] = 0
        BY <1>1 DEF SpendingInv, SpendingBilled
      <4>2. /\ begun'[c] = IF C!OverBudget(seen[c]) THEN 0 ELSE month
            /\ pc'[c] = IF C!OverBudget(seen[c]) THEN "refused" ELSE "admitted"
        BY <1>1 DEF SpendingInv, C!TypeOK
      <4>3. QED BY <1>1, <1>3, <3>2, <4>1, <4>2, SpendingFrame DEF C!Unrecorded
    <3>3. QED BY <3>1, <3>2
  <2>2. QED BY <2>1 DEF SpendingBilled
<1>11. QED BY <1>6, <1>7, <1>9, <1>10 DEF SpendingInv

LEMMA SpendingCompletes ==
  ASSUME C!SpendingAssumption, SpendingInv, NEW c \in Completion, C!Complete(c) PROVE SpendingInv'
<1>1. PICK to \in {"returned", "done"} :
        /\ pc[c] = "admitted" /\ pc' = [pc EXCEPT ![c] = to]
        /\ month' = month /\ budget' = budget /\ seen' = seen /\ billed' = billed
        /\ begun' = begun /\ crowd' = crowd /\ opened' = opened
  BY DEF C!Complete
<1>2. (\A m \in 1 .. MaxMonth : RowsOf(m)' = RowsOf(m)) /\ RowsOf(month)' = RowsOf(month)
  BY <1>1 DEF RowsOf
<1>3. Open' \subseteq Open
  BY <1>1 DEF Open, C!Unrecorded, SpendingInv, C!TypeOK
<1>4. IsFiniteSet(Open') /\ Cardinality(Open') \in Nat /\ Cardinality(Open') <= Cardinality(Open)
  BY <1>3, FS_Subset, FS_CardinalityType DEF SpendingInv, SpendingFinite
<1>5. C!TypeOK'
  BY <1>1 DEF SpendingInv, C!TypeOK
<1>6. SpendingFinite' /\ Cardinality(Open)' <= crowd'
  BY <1>1, <1>2, <1>4, SpendingFrame DEF SpendingInv, SpendingFinite
<1>7. SpendingHeld'
  <2>1. ASSUME budget > 0, ~ opened
        PROVE  Cardinality(RowsOf(month)) + Cardinality(Open') < budget + crowd
    BY <1>3, <1>4, <2>1, SpendingFrame DEF SpendingInv, SpendingHeld
  <2>2. QED BY <1>1, <1>2, <2>1 DEF SpendingInv, SpendingHeld
<1>8. SpendingBilled'
  BY <1>1 DEF SpendingInv, C!TypeOK, SpendingBilled, C!Unrecorded
<1>9. QED BY <1>5, <1>6, <1>7, <1>8 DEF SpendingInv

LEMMA SpendingRecords ==
  ASSUME C!SpendingAssumption, SpendingInv, NEW c \in Completion, C!Record(c) PROVE SpendingInv'
<1>1. PICK n \in {month, 0} :
        /\ pc[c] = "returned" /\ pc' = [pc EXCEPT ![c] = "done"]
        /\ billed' = [billed EXCEPT ![c] = n]
        /\ month' = month /\ budget' = budget /\ seen' = seen
        /\ begun' = begun /\ crowd' = crowd /\ opened' = opened
  BY DEF C!Record
<1>2. Open' = Open \ {c} /\ c \in Open
  BY <1>1 DEF Open, C!Unrecorded, SpendingInv, C!TypeOK
<1>3. IsFiniteSet(Open') /\ Cardinality(Open') = Cardinality(Open) - 1
  BY <1>2, FS_RemoveElement DEF SpendingInv, SpendingFinite
<1>4. billed[c] = 0 /\ month # 0 /\ month \in 1 .. MaxMonth
  BY <1>1, SpendingFrame DEF SpendingInv, SpendingBilled
<1>5. ASSUME NEW m \in 1 .. MaxMonth
      PROVE  RowsOf(m)' = IF m = n THEN RowsOf(m) \cup {c} ELSE RowsOf(m)
  BY <1>1, <1>4 DEF RowsOf, SpendingInv, C!TypeOK
<1>6. ASSUME NEW m \in 1 .. MaxMonth
      PROVE  /\ IsFiniteSet(RowsOf(m)') /\ Cardinality(RowsOf(m)') \in Nat
             /\ Cardinality(RowsOf(m)') <= Cardinality(RowsOf(m)) + 1
             /\ m # month => Cardinality(RowsOf(m)') = Cardinality(RowsOf(m))
  <2>1. IsFiniteSet(RowsOf(m)) /\ Cardinality(RowsOf(m)) \in Nat
    BY SpendingFrame DEF SpendingInv, SpendingFinite
  <2>2. IsFiniteSet(RowsOf(m) \cup {c}) /\ Cardinality(RowsOf(m) \cup {c}) \in Nat
        /\ Cardinality(RowsOf(m) \cup {c}) <= Cardinality(RowsOf(m)) + 1
    BY <2>1, FS_AddElement
  <2>3. RowsOf(m)' = IF m = n THEN RowsOf(m) \cup {c} ELSE RowsOf(m)
    BY <1>5
  <2>4. CASE m = n
    <3>1. RowsOf(m)' = RowsOf(m) \cup {c} /\ m = month
      BY <2>3, <2>4
    <3>2. QED BY <2>1, <2>2, <3>1
  <2>5. CASE m # n
    <3>1. RowsOf(m)' = RowsOf(m) /\ Cardinality(RowsOf(m)) <= Cardinality(RowsOf(m)) + 1
      BY <2>1, <2>3, <2>5
    <3>2. QED BY <2>1, <3>1
  <2>6. QED BY <2>4, <2>5
<1>7. Cardinality(Open) \in Nat /\ Cardinality(Open) >= 1 /\ Cardinality(Open') \in Nat
  <2>1. Cardinality(Open') \in Nat
    BY <1>3, FS_CardinalityType
  <2>2. QED BY <1>3, <2>1, SpendingFrame
<1>8. C!TypeOK'
  <2>1. n \in 0 .. MaxMonth
    BY <1>4, SpendingFrame
  <2>2. QED BY <1>1, <2>1 DEF SpendingInv, C!TypeOK
<1>9. SpendingFinite' /\ Cardinality(Open)' <= crowd'
  <2>1. Cardinality(Open') <= crowd'
    BY <1>1, <1>3, <1>7, SpendingFrame DEF SpendingInv
  <2>2. \A m \in 1 .. MaxMonth : IsFiniteSet(RowsOf(m)')
    BY <1>6
  <2>3. QED BY <1>3, <2>1, <2>2 DEF SpendingFinite
<1>10. SpendingHeld'
  <2>1. ASSUME budget > 0, ~ opened
        PROVE  /\ \A m \in 1 .. MaxMonth : Cardinality(RowsOf(m)') < budget + crowd
               /\ Cardinality(RowsOf(month)') + Cardinality(Open') < budget + crowd
    <3>1. /\ \A m \in 1 .. MaxMonth : Cardinality(RowsOf(m)) < budget + crowd
          /\ Cardinality(RowsOf(month)) + Cardinality(Open) < budget + crowd
      BY <2>1 DEF SpendingInv, SpendingHeld
    <3>2. Cardinality(RowsOf(month)') + Cardinality(Open') < budget + crowd
      <4>1. RowsOf(month)' = IF month = n THEN RowsOf(month) \cup {c} ELSE RowsOf(month)
        BY <1>1, <1>4 DEF RowsOf, SpendingInv, C!TypeOK
      <4>2. IsFiniteSet(RowsOf(month)) /\ Cardinality(RowsOf(month)) \in Nat
        BY <1>4, SpendingFrame DEF SpendingInv, SpendingFinite
      <4>3. Cardinality(RowsOf(month) \cup {c}) \in Nat
            /\ Cardinality(RowsOf(month) \cup {c}) <= Cardinality(RowsOf(month)) + 1
        <5>1. Cardinality(RowsOf(month) \cup {c})
                  = IF c \in RowsOf(month) THEN Cardinality(RowsOf(month))
                    ELSE Cardinality(RowsOf(month)) + 1
          BY <4>2, FS_AddElement
        <5>2. QED BY <4>2, <5>1
      <4>4. Cardinality(RowsOf(month)') <= Cardinality(RowsOf(month)) + 1
            /\ Cardinality(RowsOf(month)') \in Nat
        BY <4>1, <4>2, <4>3
      <4>5. budget \in Nat /\ crowd \in Nat /\ Cardinality(Open) \in Nat
        BY SpendingFrame
      <4>6. Cardinality(Open') = Cardinality(Open) - 1
        BY <1>3, SpendingFrame
      <4>7. QED BY <3>1, <4>2, <4>4, <4>5, <4>6
    <3>3. ASSUME NEW m \in 1 .. MaxMonth PROVE Cardinality(RowsOf(m)') < budget + crowd
      <4>1. CASE m = month
        <5>1. Cardinality(RowsOf(m)') <= Cardinality(RowsOf(m)) + 1
              /\ Cardinality(RowsOf(m)') \in Nat /\ Cardinality(RowsOf(m)) \in Nat
          BY <1>6, SpendingFrame
        <5>2. Cardinality(RowsOf(m)) + Cardinality(Open) < budget + crowd
          BY <3>1, <4>1
        <5>3. QED BY <1>7, <5>1, <5>2, SpendingFrame
      <4>2. CASE m # month
        <5>1. Cardinality(RowsOf(m)') = Cardinality(RowsOf(m))
          BY <1>6, <4>2
        <5>2. QED BY <3>1, <5>1
      <4>3. QED BY <4>1, <4>2
    <3>4. QED BY <3>2, <3>3
  <2>2. QED BY <1>1, <2>1 DEF SpendingInv, SpendingHeld
<1>11. SpendingBilled'
  <2>1. ASSUME NEW d \in Completion
        PROVE  /\ billed'[d] <= month' /\ begun'[d] <= month'
               /\ pc'[d] # "done" => billed'[d] = 0
               /\ pc'[d] \in C!Unrecorded => begun'[d] # 0
               /\ billed'[d] # 0 => begun'[d] # 0 /\ billed'[d] >= begun'[d]
    <3>1. CASE d # c
      BY <1>1, <3>1 DEF SpendingInv, C!TypeOK, SpendingBilled
    <3>2. CASE d = c
      <4>1. billed'[c] \in {month, 0} /\ begun'[c] = begun[c] /\ pc'[c] = "done"
        BY <1>1 DEF SpendingInv, C!TypeOK
      <4>2. begun[c] # 0 /\ begun[c] <= month /\ begun[c] \in Nat
        BY <1>1 DEF SpendingInv, SpendingBilled, C!Unrecorded, C!TypeOK
      <4>3. QED BY <1>1, <3>2, <4>1, <4>2, SpendingFrame DEF C!Unrecorded
    <3>3. QED BY <3>1, <3>2
  <2>2. QED BY <2>1 DEF SpendingBilled
<1>12. QED BY <1>8, <1>9, <1>10, <1>11 DEF SpendingInv

LEMMA SpendingStep ==
  ASSUME C!SpendingAssumption, SpendingInv, [C!Next]_(C!vars) PROVE SpendingInv'
<1>1. ASSUME NEW c \in Completion, C!ReadBudget(c) \/ C!Check(c) \/ C!Complete(c) \/ C!Record(c)
      PROVE  SpendingInv'
  BY <1>1, SpendingReads, SpendingChecks, SpendingCompletes, SpendingRecords
<1>2. CASE C!SetBudget
  BY <1>2 DEF C!SetBudget, SpendingInv, C!TypeOK, SpendingFinite, SpendingHeld, SpendingBilled,
              Open, RowsOf
<1>3. CASE C!MonthEnds
  <2>1. /\ month < MaxMonth /\ month' = month + 1 /\ budget' = budget /\ pc' = pc /\ seen' = seen
        /\ billed' = billed /\ begun' = begun /\ crowd' = crowd /\ opened' = opened
    BY <1>3 DEF C!MonthEnds
  <2>2. /\ Open' = Open /\ RowsOf(month)' = {}
        /\ \A m \in 1 .. MaxMonth : RowsOf(m)' = RowsOf(m)
    <3>1. \A c \in Completion : billed[c] <= month /\ billed[c] \in Nat /\ month \in Nat
      BY DEF SpendingInv, SpendingBilled, C!TypeOK
    <3>2. QED BY <2>1, <3>1 DEF Open, RowsOf
  <2>3. C!TypeOK'
    BY <2>1, SpendingFrame DEF SpendingInv, C!TypeOK
  <2>4. SpendingHeld'
    <3>1. Cardinality(RowsOf(month)') = 0
      BY <2>2, FS_EmptySet
    <3>2. Cardinality(Open) <= crowd
      BY DEF SpendingInv
    <3>3. QED BY <2>1, <2>2, <3>1, <3>2, SpendingFrame DEF SpendingInv, SpendingHeld
  <2>5. SpendingBilled'
    BY <2>1, SpendingFrame DEF SpendingInv, SpendingBilled, C!TypeOK
  <2>6. QED BY <2>1, <2>2, <2>3, <2>4, <2>5 DEF SpendingInv, SpendingFinite
<1>4. CASE UNCHANGED C!vars
  BY <1>4 DEF C!vars, SpendingInv, C!TypeOK, SpendingFinite, SpendingHeld, SpendingBilled, Open, RowsOf
<1>5. QED BY <1>1, <1>2, <1>3, <1>4 DEF C!Next

LEMMA SpendingHolds ==
  ASSUME C!SpendingAssumption, SpendingInv PROVE C!OvershootIsTheCrowd /\ C!BilledLate
BY SpendingCounts DEF SpendingInv, SpendingHeld, SpendingBilled, C!OvershootIsTheCrowd, C!BilledLate, RowsOf

LEMMA SpendingInvariant ==
  ASSUME C!SpendingAssumption PROVE C!Spec => []SpendingInv
<1>1. C!Init => SpendingInv BY SpendingInit
<1>2. SpendingInv /\ [C!Next]_(C!vars) => SpendingInv' BY SpendingStep
<1>3. QED BY <1>1, <1>2, PTL DEF C!Spec

\* The budget, the month and the completions keep their types.
THEOREM SpendingTypes ==
  ASSUME C!SpendingAssumption PROVE C!Spec => []C!TypeOK
<1>1. SpendingInv => C!TypeOK BY DEF SpendingInv
<1>2. QED BY <1>1, SpendingInvariant, PTL

\* check_budget: while the budget stands, a month exceeds it by less than the
\* number of completions that were under way together.
THEOREM OvershootIsBounded ==
  ASSUME C!SpendingAssumption PROVE C!Spec => []C!OvershootIsTheCrowd
<1>1. SpendingInv => C!OvershootIsTheCrowd BY SpendingHolds
<1>2. QED BY <1>1, SpendingInvariant, PTL

\* record_usage: a cost is booked in the month it was incurred or a later one.
THEOREM CostsAreBilledLate ==
  ASSUME C!SpendingAssumption PROVE C!Spec => []C!BilledLate
<1>1. SpendingInv => C!BilledLate BY SpendingHolds
<1>2. QED BY <1>1, SpendingInvariant, PTL

-----------------------------------------------------------------------------
(* The beat: one tick at a time unless the history says otherwise.              *)

\* The fires whose record is behind them: all but the one a tick has just sent.
Recorded == IF \E t \in Ticker : tick[t].pc = "sent" THEN Len(fires) - 1 ELSE Len(fires)
Stamp(n) == IF n = 0 THEN T!Never ELSE fires[n].at

Keyed ==
    /\ IsFiniteSet(started) /\ tasks <= Len(fires)
    /\ ~ excused => Cardinality(started) + tasks <= Len(fires)
OneAtATime == \A t, o \in Ticker : tick[t].pc # "idle" /\ tick[o].pc # "idle" => t = o
InOrder ==
    /\ \A i, j \in DOMAIN fires : i < j => fires[i].at <= fires[j].at
    /\ \A i \in DOMAIN fires : fires[i].at <= clock
    /\ \A t \in Ticker : tick[t].pc # "idle" =>
          tick[t].now <= clock /\ \A i \in DOMAIN fires : fires[i].at <= tick[t].now
SentIsLast ==
    \A t \in Ticker : tick[t].pc = "sent" =>
        /\ Len(fires) > 0 /\ fires[Len(fires)].at = tick[t].now
        /\ fires[Len(fires)].kind = tick[t].row.kind
Stamped ==
    /\ row.fired = Stamp(Recorded)
    /\ \A t \in Ticker : tick[t].pc # "idle" => tick[t].row.fired = Stamp(Recorded)
OnceIsOver ==
    (changes = 0 /\ \E i \in 1 .. Recorded : fires[i].kind = "once") =>
        /\ row.kind = "manual"
        /\ \A t \in Ticker : tick[t].pc # "idle" => tick[t].row.kind = "manual"

BeatInv ==
    /\ T!TypeOK /\ Keyed /\ T!FiresKeepTheSchedule
    /\ \A u \in User : edit[u].pc = "loaded" => changes > 0
    /\ ~ excused => OneAtATime /\ InOrder /\ SentIsLast /\ Stamped /\ OnceIsOver

BeatCalm == OneAtATime /\ InOrder /\ SentIsLast /\ Stamped /\ OnceIsOver
Loaded == \A u \in User : edit[u].pc = "loaded" => changes > 0
\* The part of the invariant about fires.
BeatOrder == Loaded /\ T!FiresKeepTheSchedule /\ (~ excused => BeatCalm)

\* The sizes of sets are what they are in every module.
LEMMA BeatCounts ==
  ASSUME NEW U PROVE T!Cardinality(U) = Cardinality(U)
  BY Zenon DEF T!Cardinality, Cardinality

LEMMA BeatNumbers ==
  ASSUME T!BeatTickAssumption, T!TypeOK
  PROVE  /\ clock \in Nat /\ MaxClock \in Nat /\ Len(fires) \in Nat /\ changes \in Nat /\ tasks \in Nat
         /\ DOMAIN fires = 1 .. Len(fires) /\ T!Never \in Nat /\ T!Never > MaxClock /\ clock <= MaxClock
         /\ \A i \in DOMAIN fires : /\ fires[i].at \in Nat /\ fires[i].at <= MaxClock
                                    /\ fires[i].kind \in Kinds
         /\ \A t \in Ticker : tick[t].now \in Nat /\ tick[t].now <= MaxClock
         /\ \A t \in Ticker : tick[t].pc \in {"idle", "listed", "sent"} /\ tick[t].row \in T!Rows
<1>1. /\ clock \in Nat /\ MaxClock \in Nat /\ changes \in Nat /\ tasks \in Nat
      /\ T!Never \in Nat /\ T!Never > MaxClock /\ clock <= MaxClock
  BY DEF T!BeatTickAssumption, T!TypeOK, T!Never
<1>2. /\ Len(fires) \in Nat /\ DOMAIN fires = 1 .. Len(fires)
      /\ \A i \in DOMAIN fires : fires[i] \in [at : 0 .. MaxClock, kind : Kinds]
  <2>1. fires \in Seq([at : 0 .. MaxClock, kind : Kinds])
    BY DEF T!TypeOK
  <2>2. ASSUME NEW S, fires \in Seq(S)
        PROVE  Len(fires) \in Nat /\ DOMAIN fires = 1 .. Len(fires)
               /\ \A i \in DOMAIN fires : fires[i] \in S
    BY <2>2
  <2>3. QED BY <2>1, <2>2
<1>3. \A i \in DOMAIN fires : /\ fires[i].at \in Nat /\ fires[i].at <= MaxClock
                              /\ fires[i].kind \in Kinds
  BY <1>1, <1>2
<1>4. \A t \in Ticker : tick[t] \in [pc : {"idle", "listed", "sent"}, now : 0 .. MaxClock, row : T!Rows]
  BY DEF T!TypeOK, T!Ticks
<1>5. /\ \A t \in Ticker : tick[t].now \in Nat /\ tick[t].now <= MaxClock
      /\ \A t \in Ticker : tick[t].pc \in {"idle", "listed", "sent"} /\ tick[t].row \in T!Rows
  BY <1>1, <1>4
<1>6. QED BY <1>1, <1>2, <1>3, <1>5

LEMMA BeatInit ==
  ASSUME T!BeatTickAssumption, T!Init PROVE BeatInv
<1>1. PICK k \in Kinds, r \in RunAts :
        row = [kind |-> k, runAt |-> r, active |-> TRUE, fired |-> T!Never, updated |-> 0]
  BY DEF T!Init
<1>2. row \in T!Rows /\ 0 \in 0 .. MaxClock
  BY <1>1 DEF T!Rows, T!Never, T!BeatTickAssumption
<1>3. /\ \A t \in Ticker : tick[t].pc = "idle"
      /\ \A u \in User : edit[u].pc = "idle"
      /\ fires = <<>> /\ started = {} /\ tasks = 0 /\ changes = 0 /\ clock = 0 /\ excused = FALSE
      /\ row.fired = T!Never
  BY <1>1 DEF T!Init
<1>4. T!TypeOK
  <2>1. tick \in [Ticker -> T!Ticks] /\ edit \in [User -> T!Edits]
    BY <1>2 DEF T!Init, T!Ticks, T!Edits
  <2>2. fires \in Seq([at : 0 .. MaxClock, kind : Kinds]) /\ Len(fires) <= MaxFires
        /\ 0 \in 0 .. MaxFires /\ 0 \in 0 .. MaxEdits
    BY <1>3 DEF T!BeatTickAssumption
  <2>3. QED BY <1>2, <1>3, <2>1, <2>2 DEF T!TypeOK
<1>5. Keyed
  BY <1>3, FS_EmptySet DEF Keyed
<1>6. Recorded = 0 /\ Len(fires) = 0 /\ DOMAIN fires = {}
  BY <1>3 DEF Recorded
<1>7. T!FiresKeepTheSchedule
  BY <1>6 DEF T!FiresKeepTheSchedule
<1>8. OneAtATime /\ InOrder /\ SentIsLast
  BY <1>3, <1>6 DEF OneAtATime, InOrder, SentIsLast
<1>9. Stamped /\ OnceIsOver
  BY <1>3, <1>6 DEF Stamped, OnceIsOver, Stamp
<1>10. QED BY <1>3, <1>4, <1>5, <1>7, <1>8, <1>9 DEF BeatInv

LEMMA BeatTyped ==
  ASSUME T!BeatTickAssumption, T!TypeOK, Keyed, [T!Next]_(T!vars) PROVE T!TypeOK'
<1>1. CASE T!MinutePasses
  BY <1>1 DEF T!MinutePasses, T!TypeOK, T!BeatTickAssumption
<1>2. CASE T!RunTask
  <2>1. tasks' \in 0 .. MaxFires
    BY <1>2 DEF T!RunTask, T!TypeOK, T!BeatTickAssumption
  <2>2. started' \subseteq 0 .. MaxClock /\ excused' \in BOOLEAN
    BY <1>2 DEF T!RunTask, T!TypeOK
  <2>3. QED BY <1>2, <2>1, <2>2 DEF T!RunTask, T!TypeOK
<1>3. ASSUME NEW t \in Ticker, T!List(t) PROVE T!TypeOK'
  <2>1. tick' \in [Ticker -> T!Ticks]
    BY <1>3 DEF T!List, T!TypeOK, T!Ticks
  <2>2. excused' \in BOOLEAN
    BY <1>3 DEF T!List, T!TypeOK
  <2>3. QED BY <1>3, <2>1, <2>2 DEF T!List, T!TypeOK
<1>4. ASSUME NEW t \in Ticker, T!Send(t) PROVE T!TypeOK'
  <2>1. tick' \in [Ticker -> T!Ticks]
    BY <1>4 DEF T!Send, T!TypeOK, T!Ticks
  <2>2. tick[t].row.kind \in Kinds
    <3>1. tick[t].row.kind \in {"once", "interval", "cron", "optimal", "adaptive"}
      BY <1>4 DEF T!Send, T!Due
    <3>2. tick[t].row.kind \in Kinds \cup {"manual"}
      BY BeatNumbers DEF T!Rows
    <3>3. QED BY <3>1, <3>2
  <2>3. [at |-> tick[t].now, kind |-> tick[t].row.kind] \in [at : 0 .. MaxClock, kind : Kinds]
    BY <2>2, BeatNumbers
  <2>4. /\ fires' \in Seq([at : 0 .. MaxClock, kind : Kinds]) /\ Len(fires') = Len(fires) + 1
    BY <1>4, <2>3 DEF T!Send, T!TypeOK
  <2>5. Len(fires') <= MaxFires
    BY <1>4, <2>4, BeatNumbers DEF T!Send, T!BeatTickAssumption
  <2>6. tasks' \in 0 .. MaxFires
    BY <1>4, <2>4, <2>5, BeatNumbers DEF T!Send, Keyed, T!BeatTickAssumption
  <2>7. QED BY <1>4, <2>1, <2>4, <2>5, <2>6 DEF T!Send, T!TypeOK
<1>5. ASSUME NEW t \in Ticker, T!Skip(t) PROVE T!TypeOK'
  BY <1>5 DEF T!Skip, T!TypeOK, T!Ticks
<1>6. ASSUME NEW t \in Ticker, T!Record(t) PROVE T!TypeOK'
  <2>1. tick' \in [Ticker -> T!Ticks]
    BY <1>6 DEF T!Record, T!TypeOK, T!Ticks
  <2>2. tick[t].row \in T!Rows /\ tick[t].now \in 0 .. T!Never
    BY BeatNumbers DEF T!Never
  <2>3. row' \in T!Rows
    BY <1>6, <2>2 DEF T!Record, T!TypeOK, T!Rows
  <2>4. excused' \in BOOLEAN
    BY <1>6 DEF T!Record, T!TypeOK
  <2>5. QED BY <1>6, <2>1, <2>3, <2>4 DEF T!Record, T!TypeOK
<1>7. ASSUME NEW u \in User, T!LoadEdit(u) PROVE T!TypeOK'
  <2>1. edit' \in [User -> T!Edits]
    BY <1>7 DEF T!LoadEdit, T!TypeOK, T!Edits
  <2>2. changes' \in 0 .. MaxEdits
    BY <1>7 DEF T!LoadEdit, T!TypeOK, T!BeatTickAssumption
  <2>3. QED BY <1>7, <2>1, <2>2 DEF T!LoadEdit, T!TypeOK
<1>8. ASSUME NEW u \in User, T!SaveEdit(u) PROVE T!TypeOK'
  <2>1. edit' \in [User -> T!Edits]
    BY <1>8 DEF T!SaveEdit, T!TypeOK, T!Edits
  <2>2. edit[u].row \in T!Rows
    BY DEF T!TypeOK, T!Edits
  <2>3. row' \in T!Rows
    BY <1>8, <2>2 DEF T!SaveEdit, T!TypeOK, T!Rows
  <2>4. excused' \in BOOLEAN
    BY <1>8 DEF T!SaveEdit, T!TypeOK
  <2>5. QED BY <1>8, <2>1, <2>3, <2>4 DEF T!SaveEdit, T!TypeOK
<1>9. CASE UNCHANGED T!vars
  BY <1>9 DEF T!vars, T!TypeOK
<1>10. QED BY <1>1, <1>2, <1>3, <1>4, <1>5, <1>6, <1>7, <1>8, <1>9 DEF T!Next

LEMMA BeatKeyed ==
  ASSUME T!BeatTickAssumption, T!TypeOK, Keyed, [T!Next]_(T!vars) PROVE Keyed'
<1>1. CASE T!RunTask
  <2>1. /\ started' = started \cup {clock} /\ fires' = fires /\ tasks > 0
        /\ \/ tasks' = tasks - 1 /\ excused' = excused
           \/ tasks' = tasks /\ excused' = TRUE
    BY <1>1 DEF T!RunTask
  <2>2. /\ IsFiniteSet(started') /\ Cardinality(started') \in Nat /\ Cardinality(started) \in Nat
        /\ Cardinality(started') <= Cardinality(started) + 1
    <3>1. IsFiniteSet(started)
      BY DEF Keyed
    <3>2. QED BY <2>1, <3>1, FS_AddElement, FS_CardinalityType
  <2> /\ tasks <= Len(fires) /\ tasks' <= Len(fires')
    BY <2>1, BeatNumbers DEF Keyed
  <2>3. CASE tasks' = tasks - 1 /\ excused' = excused
    <3>1. ~ excused => Cardinality(started') + tasks' <= Len(fires')
      BY <2>1, <2>2, <2>3, BeatNumbers DEF Keyed
    <3>2. QED BY <2>2, <2>3, <3>1 DEF Keyed
  <2>4. CASE excused' = TRUE
    BY <2>2, <2>4 DEF Keyed
  <2>5. QED BY <2>1, <2>3, <2>4
<1>2. ASSUME NEW t \in Ticker, T!Send(t) PROVE Keyed'
  <2>1. started' = started /\ tasks' = tasks + 1 /\ excused' = excused /\ Len(fires') = Len(fires) + 1
    <3>1. Len(Append(fires, [at |-> tick[t].now, kind |-> tick[t].row.kind])) = Len(fires) + 1
      BY DEF T!TypeOK
    <3>2. QED BY <1>2, <3>1 DEF T!Send
  <2>2. Cardinality(started) \in Nat /\ IsFiniteSet(started)
    BY FS_CardinalityType DEF Keyed
  <2>3. ~ excused => Cardinality(started) + (tasks + 1) <= Len(fires) + 1
    BY <2>2, BeatNumbers DEF Keyed
  <2>4. tasks' <= Len(fires')
    BY <2>1, BeatNumbers DEF Keyed
  <2>5. QED BY <2>1, <2>2, <2>3, <2>4 DEF Keyed
<1>3. CASE UNCHANGED <<started, tasks, fires>> /\ (excused => excused')
  BY <1>3 DEF Keyed
<1>4. CASE T!MinutePasses \/ (\E t \in Ticker : T!List(t) \/ T!Skip(t) \/ T!Record(t))
           \/ (\E u \in User : T!LoadEdit(u) \/ T!SaveEdit(u)) \/ UNCHANGED T!vars
  <2>1. CASE T!MinutePasses \/ UNCHANGED T!vars
    BY <1>3, <2>1 DEF T!MinutePasses, T!vars
  <2>2. ASSUME NEW t \in Ticker, T!List(t) \/ T!Skip(t) \/ T!Record(t) PROVE Keyed'
    BY <1>3, <2>2 DEF T!List, T!Skip, T!Record
  <2>3. ASSUME NEW u \in User, T!LoadEdit(u) \/ T!SaveEdit(u) PROVE Keyed'
    BY <1>3, <2>3 DEF T!LoadEdit, T!SaveEdit
  <2>4. QED BY <1>4, <2>1, <2>2, <2>3
<1>5. QED BY <1>1, <1>2, <1>4 DEF T!Next

\* The last conjuncts, step by step.
LEMMA BeatLists ==
  ASSUME T!BeatTickAssumption, T!TypeOK, BeatOrder, NEW t \in Ticker, T!List(t) PROVE BeatOrder'
<1>1. /\ tick[t].pc = "idle" /\ row' = row /\ fires' = fires /\ edit' = edit /\ changes' = changes
      /\ clock' = clock /\ excused' = (excused \/ \E o \in Ticker : tick[o].pc # "idle")
      /\ \A o \in Ticker : tick'[o] = IF o = t THEN [pc |-> "listed", now |-> clock, row |-> row]
                                    ELSE tick[o]
  BY DEF T!List, T!TypeOK
<1>2. Loaded' /\ T!FiresKeepTheSchedule'
  BY <1>1 DEF BeatOrder, Loaded, T!FiresKeepTheSchedule
<1>3. ASSUME ~ excused' PROVE BeatCalm'
  <2>1. ~ excused /\ \A o \in Ticker : tick[o].pc = "idle"
    BY <1>1, <1>3
  <2>2. /\ \A o \in Ticker : tick'[o].pc = IF o = t THEN "listed" ELSE "idle"
        /\ tick'[t].now = clock /\ tick'[t].row = row
    BY <1>1, <2>1
  <2>3. Recorded' = Len(fires) /\ Recorded = Len(fires)
    BY <1>1, <2>1, <2>2 DEF Recorded
  <2>4. Stamp(Recorded)' = Stamp(Recorded)
    BY <1>1, <2>3 DEF Stamp
  <2>5. OneAtATime' /\ SentIsLast'
    BY <2>2 DEF OneAtATime, SentIsLast
  <2>6. InOrder'
    BY <1>1, <2>1, <2>2, BeatNumbers DEF BeatOrder, BeatCalm, InOrder
  <2>7. Stamped' /\ OnceIsOver'
    BY <1>1, <2>1, <2>2, <2>3, <2>4 DEF BeatOrder, BeatCalm, Stamped, OnceIsOver
  <2>8. QED BY <2>5, <2>6, <2>7 DEF BeatCalm
<1>4. QED BY <1>2, <1>3 DEF BeatOrder

LEMMA BeatSends ==
  ASSUME T!BeatTickAssumption, T!TypeOK, BeatOrder, NEW t \in Ticker, T!Send(t) PROVE BeatOrder'
<1>1. PICK n \in Nat : n = Len(fires)
  BY BeatNumbers
<1>2. PICK w : w = tick[t].row
  OBVIOUS
<1>3. PICK now \in Nat : now = tick[t].now
  BY BeatNumbers
<1>4. /\ tick[t].pc = "listed" /\ T!Due(w, now) /\ row' = row /\ edit' = edit /\ changes' = changes
      /\ clock' = clock /\ excused' = excused
      /\ fires' = Append(fires, [at |-> now, kind |-> w.kind])
      /\ \A o \in Ticker : /\ tick'[o].pc = IF o = t THEN "sent" ELSE tick[o].pc
                         /\ tick'[o].now = tick[o].now /\ tick'[o].row = tick[o].row
  BY <1>2, <1>3 DEF T!Send, T!TypeOK, T!Ticks
<1>5. /\ Len(fires') = n + 1 /\ DOMAIN fires' = 1 .. n + 1 /\ DOMAIN fires = 1 .. n
      /\ \A i \in 1 .. n : fires'[i] = fires[i]
      /\ fires'[n + 1].at = now /\ fires'[n + 1].kind = w.kind
  <2>1. fires \in Seq([at : 0 .. MaxClock, kind : Kinds]) /\ DOMAIN fires = 1 .. n
    BY <1>1, BeatNumbers DEF T!TypeOK
  <2>2. ASSUME NEW S, fires \in Seq(S), NEW e
        PROVE  /\ Len(Append(fires, e)) = Len(fires) + 1
               /\ DOMAIN Append(fires, e) = 1 .. Len(fires) + 1
               /\ \A i \in 1 .. Len(fires) : Append(fires, e)[i] = fires[i]
               /\ Append(fires, e)[Len(fires) + 1] = e
    BY <2>2
  <2>3. QED BY <1>1, <1>4, <2>1, <2>2
<1>6. Loaded'
  BY <1>4 DEF BeatOrder, Loaded
<1>7. ASSUME ~ excused' PROVE BeatCalm' /\ T!FiresKeepTheSchedule'
  <2>1. ~ excused /\ BeatCalm /\ T!FiresKeepTheSchedule
    BY <1>4, <1>7 DEF BeatOrder
  <2>2. \A o \in Ticker : o # t => tick[o].pc = "idle"
    BY <1>4, <2>1 DEF BeatCalm, OneAtATime
  <2>3. Recorded = n /\ Recorded' = n
    <3>1. ~ \E o \in Ticker : tick[o].pc = "sent"
      BY <1>4, <2>2
    <3>2. \E o \in Ticker : tick'[o].pc = "sent"
      BY <1>4
    <3>3. QED BY <1>1, <1>5, <3>1, <3>2 DEF Recorded
  <2>4. Stamp(n)' = Stamp(n)
    BY <1>5 DEF Stamp
  <2>5. OneAtATime'
    BY <1>4, <2>1 DEF BeatCalm, OneAtATime
  <2>6. now <= clock /\ \A i \in 1 .. n : fires[i].at <= now /\ fires[i].at \in Nat
    BY <1>3, <1>4, <1>5, <2>1, BeatNumbers DEF BeatCalm, InOrder
  <2>7. /\ \A i, j \in 1 .. n : i < j => fires[i].at <= fires[j].at
        /\ \A i \in 1 .. n : fires[i].at <= clock
        /\ \A o \in Ticker : tick[o].pc # "idle" => tick[o].now <= clock
    BY <1>5, <2>1 DEF BeatCalm, InOrder
  <2>8. InOrder'
    <3>1. ASSUME NEW i \in 1 .. n + 1, NEW j \in 1 .. n + 1, i < j
          PROVE  fires'[i].at <= fires'[j].at
      <4>1. i \in 1 .. n
        BY <3>1
      <4>2. CASE j \in 1 .. n
        BY <1>5, <2>7, <3>1, <4>1, <4>2
      <4>3. CASE j = n + 1
        BY <1>5, <2>6, <4>1, <4>3
      <4>4. QED BY <4>2, <4>3
    <3>2. \A i \in 1 .. n + 1 : fires'[i].at <= clock /\ fires'[i].at <= now
      <4>1. ASSUME NEW i \in 1 .. n + 1 PROVE fires'[i].at <= clock /\ fires'[i].at <= now
        <5>1. CASE i \in 1 .. n
          BY <1>5, <2>6, <2>7, <5>1
        <5>2. CASE i = n + 1
          BY <1>5, <2>6, <5>2
        <5>3. QED BY <5>1, <5>2
      <4>2. QED BY <4>1
    <3>3. ASSUME NEW o \in Ticker, tick'[o].pc # "idle"
          PROVE  tick'[o].now <= clock /\ \A i \in 1 .. n + 1 : fires'[i].at <= tick'[o].now
      <4>1. o = t
        BY <1>4, <2>2, <3>3
      <4>2. QED BY <1>3, <1>4, <2>6, <3>2, <4>1
    <3>4. QED BY <1>4, <1>5, <3>1, <3>2, <3>3 DEF InOrder
  <2>9. SentIsLast'
    <3>1. ASSUME NEW o \in Ticker, tick'[o].pc = "sent"
          PROVE  /\ Len(fires') > 0 /\ fires'[Len(fires')].at = tick'[o].now
                 /\ fires'[Len(fires')].kind = tick'[o].row.kind
      <4>1. o = t
        BY <1>4, <2>2, <3>1
      <4>2. QED BY <1>2, <1>3, <1>4, <1>5, <4>1
    <3>2. QED BY <3>1 DEF SentIsLast
  <2>10. Stamped'
    <3>1. row.fired = Stamp(n) /\ \A o \in Ticker : tick[o].pc # "idle" => tick[o].row.fired = Stamp(n)
      BY <2>1, <2>3 DEF BeatCalm, Stamped
    <3>2. Stamp(Recorded)' = Stamp(n)
      BY <1>5, <2>3 DEF Stamp
    <3>3. QED BY <1>4, <3>1, <3>2 DEF Stamped
  <2>11. OnceIsOver'
    <3>1. (\E i \in 1 .. n : fires'[i].kind = "once") = (\E i \in 1 .. n : fires[i].kind = "once")
      BY <1>5
    <3>2. QED BY <1>4, <2>1, <2>3, <3>1 DEF BeatCalm, OnceIsOver
  <2>12. ASSUME NEW i \in 1 .. n
         PROVE  /\ w.kind = "interval" => now - fires[i].at >= Interval
                /\ w.kind = "once" => fires[i].at < now
                /\ w.kind = "once" /\ fires[i].kind = "once" => changes > 0
                /\ w.kind = "cron" => \E s \in CronTimes : fires[i].at < s /\ s <= now
    <3>1. w.fired = fires[n].at /\ n \in 1 .. n
      BY <1>2, <1>4, <2>1, <2>3 DEF BeatCalm, Stamped, Stamp
    <3>2. w.fired # T!Never /\ w.fired \in Nat /\ fires[i].at <= w.fired /\ fires[i].at \in Nat
      <4>1. fires[n].at \in Nat /\ fires[n].at <= MaxClock /\ fires[i].at \in Nat
        BY <1>5, <3>1, BeatNumbers
      <4>2. fires[i].at <= fires[n].at
        <5>1. CASE i < n
          BY <2>7, <3>1, <5>1
        <5>2. CASE i = n
          BY <4>1, <5>2
        <5>3. QED BY <5>1, <5>2
      <4>3. QED BY <3>1, <4>1, <4>2, BeatNumbers
    <3>3. T!Anchor(w) = w.fired
      BY <3>2 DEF T!Anchor
    <3>4. CASE w.kind = "interval"
      <4>1. now >= w.fired + Interval /\ Interval \in Nat
        BY <1>4, <3>3, <3>4 DEF T!Due, T!IntervalDue, T!BeatTickAssumption
      <4>2. QED BY <3>2, <3>4, <4>1
    <3>5. CASE w.kind = "once"
      <4>1. w.runAt <= now /\ ~ w.fired >= w.runAt
        BY <1>4, <3>2, <3>5 DEF T!Due, T!OnceDue
      <4>2. w.runAt \in Nat
        <5>1. w \in T!Rows
          BY <1>2, BeatNumbers
        <5>2. w.runAt \in RunAts
          BY <5>1 DEF T!Rows
        <5>3. \A r \in RunAts : r \in Nat
          BY DEF T!BeatTickAssumption
        <5>4. QED BY <5>2, <5>3
      <4>3. ASSUME fires[i].kind = "once" PROVE changes > 0
        <5>1. changes # 0
          BY <1>2, <1>4, <2>1, <2>3, <3>5, <4>3 DEF BeatCalm, OnceIsOver
        <5>2. QED BY <5>1, BeatNumbers
      <4>4. QED BY <3>2, <3>5, <4>1, <4>2, <4>3
    <3>6. CASE w.kind = "cron"
      <4>1. PICK s \in CronTimes : w.fired < s /\ s <= now
        BY <1>4, <3>3, <3>6 DEF T!Due, T!CronDue
      <4>2. s \in Nat
        BY DEF T!BeatTickAssumption
      <4>3. fires[i].at < s
        BY <3>2, <4>1, <4>2
      <4>4. QED BY <3>6, <4>1, <4>3
    <3>7. QED BY <3>4, <3>5, <3>6
  <2>13. T!FiresKeepTheSchedule'
    <3>1. ASSUME NEW i \in 1 .. n + 1, NEW j \in 1 .. n + 1, i < j
          PROVE  /\ fires'[i].kind = "interval" /\ fires'[j].kind = "interval"
                      => fires'[j].at - fires'[i].at >= Interval
                 /\ fires'[i].kind = "once" /\ fires'[j].kind = "once" =>
                      changes > 0 /\ fires'[i].at < fires'[j].at
                 /\ fires'[i].kind = "cron" /\ fires'[j].kind = "cron" =>
                      \E s \in CronTimes : fires'[i].at < s /\ s <= fires'[j].at
      <4>1. i \in 1 .. n /\ fires'[i] = fires[i]
        BY <1>5, <3>1
      <4>2. CASE j \in 1 .. n
        BY <1>5, <2>1, <3>1, <4>1, <4>2 DEF T!FiresKeepTheSchedule
      <4>3. CASE j = n + 1
        BY <1>5, <2>12, <4>1, <4>3
      <4>4. QED BY <4>2, <4>3
    <3>2. QED BY <1>4, <1>5, <3>1 DEF T!FiresKeepTheSchedule
  <2>14. QED BY <2>5, <2>8, <2>9, <2>10, <2>11, <2>13 DEF BeatCalm
<1>8. QED BY <1>4, <1>6, <1>7 DEF BeatOrder, T!FiresKeepTheSchedule

LEMMA BeatSkips ==
  ASSUME T!BeatTickAssumption, T!TypeOK, BeatOrder, NEW t \in Ticker, T!Skip(t) PROVE BeatOrder'
<1>1. /\ tick[t].pc = "listed" /\ row' = row /\ fires' = fires /\ edit' = edit /\ changes' = changes
      /\ clock' = clock /\ excused' = excused
      /\ \A o \in Ticker : /\ tick'[o].pc = IF o = t THEN "idle" ELSE tick[o].pc
                         /\ tick'[o].now = tick[o].now /\ tick'[o].row = tick[o].row
  BY DEF T!Skip, T!TypeOK, T!Ticks
<1>2. Loaded' /\ T!FiresKeepTheSchedule'
  BY <1>1 DEF BeatOrder, Loaded, T!FiresKeepTheSchedule
<1>3. ASSUME ~ excused' PROVE BeatCalm'
  <2>1. BeatCalm
    BY <1>1, <1>3 DEF BeatOrder
  <2>2. (\E o \in Ticker : tick'[o].pc = "sent") = (\E o \in Ticker : tick[o].pc = "sent")
    BY <1>1
  <2>3. Recorded' = Recorded
    BY <1>1, <2>2 DEF Recorded
  <2>4. Stamp(Recorded)' = Stamp(Recorded)
    BY <1>1, <2>3 DEF Stamp
  <2>5. OneAtATime' /\ SentIsLast'
    BY <1>1, <2>1 DEF BeatCalm, OneAtATime, SentIsLast
  <2>6. InOrder'
    BY <1>1, <2>1 DEF BeatCalm, InOrder
  <2>7. Stamped' /\ OnceIsOver'
    BY <1>1, <2>1, <2>3, <2>4 DEF BeatCalm, Stamped, OnceIsOver
  <2>8. QED BY <2>5, <2>6, <2>7 DEF BeatCalm
<1>4. QED BY <1>2, <1>3 DEF BeatOrder

LEMMA BeatRecords ==
  ASSUME T!BeatTickAssumption, T!TypeOK, BeatOrder, NEW t \in Ticker, T!Record(t) PROVE BeatOrder'
<1>1. /\ tick[t].pc = "sent" /\ fires' = fires /\ edit' = edit /\ changes' = changes /\ clock' = clock
      /\ \A o \in Ticker : /\ tick'[o].pc = IF o = t THEN "idle" ELSE tick[o].pc
                         /\ tick'[o].now = tick[o].now /\ tick'[o].row = tick[o].row
      /\ excused => excused'
  BY DEF T!Record, T!TypeOK, T!Ticks
<1>2. Loaded' /\ T!FiresKeepTheSchedule'
  BY <1>1 DEF BeatOrder, Loaded, T!FiresKeepTheSchedule
<1>3. ASSUME ~ excused' PROVE BeatCalm'
  <2>1. ~ excused /\ BeatCalm
    BY <1>1, <1>3 DEF BeatOrder
  <2>2. row'.fired = tick[t].now
        /\ row'.kind = IF tick[t].row.kind = "once" THEN "manual" ELSE tick[t].row.kind
    <3>1. tick[t].row \in T!Rows
      BY BeatNumbers
    <3>2. row' = [tick[t].row EXCEPT !.fired = tick[t].now,
                     !.kind = IF tick[t].row.kind = "once" THEN "manual" ELSE tick[t].row.kind]
      BY <1>3 DEF T!Record
    <3>3. QED BY <3>1, <3>2 DEF T!Rows
  <2>3. \A o \in Ticker : tick'[o].pc = "idle"
    BY <1>1, <2>1 DEF BeatCalm, OneAtATime
  <2>4. PICK n \in Nat : n = Len(fires)
    BY BeatNumbers
  <2>5. /\ n > 0 /\ fires[n].at = tick[t].now /\ fires[n].kind = tick[t].row.kind
    BY <1>1, <2>1, <2>4 DEF BeatCalm, SentIsLast
  <2>6. Recorded = n - 1 /\ Recorded' = n
    BY <1>1, <2>3, <2>4 DEF Recorded
  <2>7. Stamp(Recorded)' = tick[t].now
    BY <1>1, <2>5, <2>6 DEF Stamp
  <2>8. OneAtATime' /\ SentIsLast' /\ Stamped'
    BY <2>2, <2>3, <2>7 DEF OneAtATime, SentIsLast, Stamped
  <2>9. InOrder'
    BY <1>1, <2>1, <2>3 DEF BeatCalm, InOrder
  <2>10. OnceIsOver'
    <3>1. ASSUME changes = 0, NEW i \in 1 .. n, fires[i].kind = "once" PROVE row'.kind = "manual"
      <4>1. CASE i = n
        BY <2>2, <2>5, <3>1, <4>1
      <4>2. CASE i # n
        <5>1. i \in 1 .. n - 1
          BY <2>4, <4>2
        <5>2. tick[t].row.kind = "manual"
          BY <1>1, <2>1, <2>6, <3>1, <5>1 DEF BeatCalm, OnceIsOver
        <5>3. QED BY <2>2, <5>2
      <4>3. QED BY <4>1, <4>2
    <3>2. QED BY <1>1, <2>3, <2>6, <3>1 DEF OnceIsOver
  <2>11. QED BY <2>8, <2>9, <2>10 DEF BeatCalm
<1>4. QED BY <1>2, <1>3 DEF BeatOrder

LEMMA BeatSaves ==
  ASSUME T!BeatTickAssumption, T!TypeOK, BeatOrder, NEW u \in User, T!SaveEdit(u) PROVE BeatOrder'
<1>1. /\ edit[u].pc = "loaded" /\ fires' = fires /\ tick' = tick /\ changes' = changes /\ clock' = clock
      /\ edit' = [edit EXCEPT ![u].pc = "idle"]
      /\ excused' = (excused \/ row # edit[u].row)
      /\ row'.fired = edit[u].row.fired
  <2>1. edit[u].row \in T!Rows
    BY DEF T!TypeOK, T!Edits
  <2>2. row'.fired = edit[u].row.fired
    BY <2>1 DEF T!SaveEdit, T!Rows
  <2>3. QED BY <2>2 DEF T!SaveEdit
<1>2. changes # 0
  <2>1. changes > 0
    BY <1>1 DEF BeatOrder, Loaded
  <2>2. QED BY <2>1, BeatNumbers
<1>3. Loaded'
  BY <1>1 DEF BeatOrder, Loaded, T!TypeOK, T!Edits
<1>4. T!FiresKeepTheSchedule'
  BY <1>1 DEF BeatOrder, T!FiresKeepTheSchedule
<1>5. ASSUME ~ excused' PROVE BeatCalm'
  <2>1. ~ excused /\ row = edit[u].row /\ BeatCalm
    BY <1>1, <1>5 DEF BeatOrder
  <2>2. Recorded' = Recorded
    BY <1>1 DEF Recorded
  <2>3. Stamp(Recorded)' = Stamp(Recorded)
    BY <1>1, <2>2 DEF Stamp
  <2>4. OneAtATime' /\ InOrder' /\ SentIsLast'
    BY <1>1, <2>1 DEF BeatCalm, OneAtATime, InOrder, SentIsLast
  <2>5. Stamped'
    BY <1>1, <2>1, <2>3 DEF BeatCalm, Stamped
  <2>6. OnceIsOver'
    BY <1>1, <1>2 DEF OnceIsOver
  <2>7. QED BY <2>4, <2>5, <2>6 DEF BeatCalm
<1>6. QED BY <1>3, <1>4, <1>5 DEF BeatOrder

\* What leaves the row, the ticks and the fires alone.
LEMMA BeatWaits ==
  ASSUME T!BeatTickAssumption, T!TypeOK, BeatOrder, row' = row, tick' = tick, fires' = fires,
         clock' \in Nat, clock' >= clock, changes' \in Nat, changes' >= changes, excused => excused', Loaded'
  PROVE  BeatOrder'
<1>1. T!FiresKeepTheSchedule'
  BY BeatNumbers DEF BeatOrder, T!FiresKeepTheSchedule
<1>2. ASSUME ~ excused' PROVE BeatCalm'
  <2>1. BeatCalm
    BY <1>2 DEF BeatOrder
  <2>2. Recorded' = Recorded
    BY DEF Recorded
  <2>3. Stamp(Recorded)' = Stamp(Recorded)
    BY <2>2 DEF Stamp
  <2>4. OneAtATime' /\ SentIsLast' /\ Stamped'
    BY <2>1, <2>3 DEF BeatCalm, OneAtATime, SentIsLast, Stamped
  <2>5. InOrder'
    <3>1. \A i \in DOMAIN fires : fires[i].at <= clock'
      BY <2>1, BeatNumbers DEF BeatCalm, InOrder
    <3>2. \A t \in Ticker : tick[t].pc # "idle" => tick[t].now <= clock'
      BY <2>1, BeatNumbers DEF BeatCalm, InOrder
    <3>3. QED BY <2>1, <3>1, <3>2 DEF BeatCalm, InOrder
  <2>6. OnceIsOver'
    <3>1. changes' = 0 => changes = 0
      BY BeatNumbers
    <3>2. QED BY <2>1, <2>2, <3>1 DEF BeatCalm, OnceIsOver
  <2>7. QED BY <2>4, <2>5, <2>6 DEF BeatCalm
<1>3. QED BY <1>1, <1>2 DEF BeatOrder

LEMMA BeatStep ==
  ASSUME T!BeatTickAssumption, BeatInv, [T!Next]_(T!vars) PROVE BeatInv'
<1>1. T!TypeOK /\ Keyed /\ BeatOrder
  BY DEF BeatInv, BeatOrder, BeatCalm, Loaded
<1>2. T!TypeOK' /\ Keyed'
  BY <1>1, BeatTyped, BeatKeyed
<1>3. BeatOrder'
  <2>1. CASE T!MinutePasses \/ T!RunTask \/ UNCHANGED T!vars
    <3>1. /\ row' = row /\ tick' = tick /\ fires' = fires /\ changes' = changes /\ edit' = edit
          /\ clock' = clock \/ clock' = clock + 1
          /\ excused => excused'
      BY <2>1 DEF T!MinutePasses, T!RunTask, T!vars
    <3>2. Loaded'
      BY <1>1, <3>1 DEF BeatOrder, Loaded
    <3>3. QED BY <1>1, <3>1, <3>2, BeatNumbers, BeatWaits
  <2>2. ASSUME NEW t \in Ticker, T!List(t) \/ T!Send(t) \/ T!Skip(t) \/ T!Record(t) PROVE BeatOrder'
    BY <1>1, <2>2, BeatLists, BeatSends, BeatSkips, BeatRecords
  <2>3. ASSUME NEW u \in User, T!LoadEdit(u) PROVE BeatOrder'
    <3>1. /\ row' = row /\ tick' = tick /\ fires' = fires /\ changes' = changes + 1 /\ clock' = clock
          /\ excused' = excused
      BY <2>3 DEF T!LoadEdit
    <3>2. changes' > 0 /\ changes' \in Nat
      BY <1>1, <3>1, BeatNumbers
    <3>3. Loaded'
      BY <3>2 DEF Loaded
    <3>4. QED BY <1>1, <3>1, <3>2, <3>3, BeatNumbers, BeatWaits
  <2>4. ASSUME NEW u \in User, T!SaveEdit(u) PROVE BeatOrder'
    BY <1>1, <2>4, BeatSaves
  <2>5. QED BY <2>1, <2>2, <2>3, <2>4 DEF T!Next
<1>4. QED BY <1>2, <1>3 DEF BeatInv, BeatOrder, BeatCalm, Loaded

LEMMA BeatHolds ==
  ASSUME BeatInv PROVE T!StartsAreFires /\ T!FiresKeepTheSchedule
BY BeatCounts DEF BeatInv, Keyed, T!StartsAreFires

LEMMA BeatInvariant ==
  ASSUME T!BeatTickAssumption PROVE T!Spec => []BeatInv
<1>1. T!Init => BeatInv BY BeatInit
<1>2. BeatInv /\ [T!Next]_(T!vars) => BeatInv' BY BeatStep
<1>3. QED BY <1>1, <1>2, PTL DEF T!Spec

\* The schedule, the ticks and the edits keep their types.
THEOREM BeatTypes ==
  ASSUME T!BeatTickAssumption PROVE T!Spec => []T!TypeOK
<1>1. BeatInv => T!TypeOK BY DEF BeatInv
<1>2. QED BY <1>1, BeatInvariant, PTL

\* beat_tick and run_start: unless a task came twice, a schedule starts its workflow
\* at most once for each time it fired.
THEOREM StartsStandForFires ==
  ASSUME T!BeatTickAssumption PROVE T!Spec => []T!StartsAreFires
<1>1. BeatInv => T!StartsAreFires BY BeatHolds
<1>2. QED BY <1>1, BeatInvariant, PTL

\* _due: unless ticks or writes overlap, an untouched ONCE schedule fires once and
\* two fires of an interval lie at least the interval apart.
THEOREM SchedulesAreKept ==
  ASSUME T!BeatTickAssumption PROVE T!Spec => []T!FiresKeepTheSchedule
<1>1. BeatInv => T!FiresKeepTheSchedule BY BeatHolds
<1>2. QED BY <1>1, BeatInvariant, PTL

-----------------------------------------------------------------------------
(* The system scheduler: one process leads, and an organisation gets one   *)
(* job of a kind for a period however many lead.                           *)

\* Whoever is at work holds the lock, as long as no probe raised and no leader
\* lost its session.
LeaderHasLock == ~ unsure => \A p \in Process : sched[p].todo # {} => lock.proc = p

\* The keys of the jobs name periods that have begun.
PeriodsHaveBegun == \A j \in jobs : j.period \in 0 .. clock \div Period[j.kind]

SystemInv == Sys!TypeOK /\ LeaderHasLock /\ PeriodsHaveBegun

LEMMA SystemInit ==
  ASSUME Sys!SystemTicksAssumption, Sys!Init PROVE SystemInv
<1>1. sched \in [Process -> [todo : SUBSET Periodic, now : 0 .. MaxClock,
                             last : [Periodic -> 0 .. Sys!Never]]]
  BY DEF Sys!SystemTicksAssumption, Sys!Init, Sys!Idle, Sys!Never
<1>2. clock \in 0 .. MaxClock /\ lock \in Sys!Sessions \cup {Sys!NoSession}
      /\ closes \in 0 .. MaxCloses
  BY DEF Sys!SystemTicksAssumption, Sys!Init
<1>3. jobs = {} /\ refused \subseteq Periodic
  BY DEF Sys!Init
<1>4. unsure \in BOOLEAN
  BY DEF Sys!Init
<1>5. Sys!TypeOK
  BY <1>1, <1>2, <1>3, <1>4 DEF Sys!TypeOK
<1>6. \A p \in Process : sched[p].todo = {}
  BY DEF Sys!Init, Sys!Idle
<1>7. QED BY <1>3, <1>5, <1>6 DEF SystemInv, LeaderHasLock, PeriodsHaveBegun

\* A later clock is in no earlier period.
LEMMA PeriodsGrow ==
  ASSUME NEW m \in Nat, NEW n \in Nat, m <= n, NEW d \in Nat \ {0}
  PROVE  m \div d \in Nat /\ m \div d <= n \div d /\ m \div d <= m
PROOF OBVIOUS

\* The row of a scheduler that looks at a kind or begins a round.
LEMMA PeriodRows ==
  ASSUME Sys!SystemTicksAssumption, Sys!TypeOK, NEW p \in Process
  PROVE  /\ sched[p].todo \subseteq Periodic /\ sched[p].now \in 0 .. MaxClock
         /\ sched[p].last \in [Periodic -> 0 .. Sys!Never]
  BY DEF Sys!TypeOK

\* Taking the lead, or losing everything, touches one scheduler.
LEMMA LeadTypes ==
  ASSUME Sys!SystemTicksAssumption, Sys!TypeOK, NEW p \in Process, Sys!Lead(p)
  PROVE  /\ sched' \in [Process -> [todo : SUBSET Periodic, now : 0 .. MaxClock,
                                    last : [Periodic -> 0 .. Sys!Never]]]
         /\ \A q \in Process \ {p} : sched[q]'.todo = sched[q].todo
  BY PeriodRows DEF Sys!Lead, Sys!TypeOK

LEMMA SystemStep ==
  ASSUME Sys!SystemTicksAssumption, SystemInv, [Sys!Next]_(Sys!vars) PROVE SystemInv'
<1>1. CASE Sys!TimePasses
  <2>1. clock \in Nat /\ clock' = clock + 1 /\ clock' \in 0 .. MaxClock
    BY <1>1 DEF Sys!TimePasses, SystemInv, Sys!TypeOK, Sys!SystemTicksAssumption
  <2>2. Sys!TypeOK'
    BY <1>1, <2>1 DEF Sys!TimePasses, SystemInv, Sys!TypeOK
  <2>3. LeaderHasLock'
    BY <1>1 DEF Sys!TimePasses, SystemInv, LeaderHasLock
  <2>4. ASSUME NEW j \in jobs PROVE j.period \in 0 .. clock' \div Period[j.kind]
    <3>1. Period[j.kind] \in Nat \ {0}
      BY DEF SystemInv, Sys!TypeOK, Sys!SystemTicksAssumption
    <3>2. clock \div Period[j.kind] \in Nat
          /\ clock' \div Period[j.kind] \in Nat
          /\ clock \div Period[j.kind] <= clock' \div Period[j.kind]
      <4>1. clock' \in Nat /\ clock <= clock'
        BY <2>1
      <4>2. QED BY <2>1, <3>1, <4>1, PeriodsGrow
    <3>3. QED BY <3>2 DEF SystemInv, PeriodsHaveBegun
  <2>5. PeriodsHaveBegun'
    BY <1>1, <2>4 DEF Sys!TimePasses, PeriodsHaveBegun
  <2>6. QED BY <2>2, <2>3, <2>5 DEF SystemInv
\* The lock was free or one's own: nobody else was at work.
<1>2. ASSUME NEW p \in Process, NEW c \in Conn, Sys!Probe(p, c) PROVE SystemInv'
  <2>1. Sys!Lead(p) /\ lock' = [proc |-> p, conn |-> c]
        /\ lock \in {Sys!NoSession, [proc |-> p, conn |-> c]}
        /\ UNCHANGED <<clock, jobs, closes, unsure, refused>>
    BY <1>2 DEF Sys!Probe, Sys!GetsLock
  <2>2. /\ sched' \in [Process -> [todo : SUBSET Periodic, now : 0 .. MaxClock,
                                   last : [Periodic -> 0 .. Sys!Never]]]
        /\ \A q \in Process \ {p} : sched[q]'.todo = sched[q].todo
    BY <2>1, LeadTypes DEF SystemInv
  <2>3. Sys!TypeOK'
    BY <2>1, <2>2 DEF SystemInv, Sys!TypeOK, Sys!Sessions
  <2>4. LeaderHasLock'
    <3>1. ASSUME ~ unsure, NEW q \in Process \ {p} PROVE sched[q].todo = {}
      <4>1. lock.proc \in {"none", p}
        BY <2>1 DEF Sys!NoSession
      <4>2. lock.proc # q
        BY <4>1 DEF Sys!SystemTicksAssumption
      <4>3. QED BY <3>1, <4>2 DEF SystemInv, LeaderHasLock
    <3>2. QED BY <2>1, <2>2, <3>1 DEF LeaderHasLock
  <2>5. PeriodsHaveBegun'
    BY <2>1 DEF SystemInv, PeriodsHaveBegun
  <2>6. QED BY <2>3, <2>4, <2>5 DEF SystemInv
<1>3. ASSUME NEW p \in Process, Sys!ProbeRaises(p) PROVE SystemInv'
  <2>1. sched' \in [Process -> [todo : SUBSET Periodic, now : 0 .. MaxClock,
                                last : [Periodic -> 0 .. Sys!Never]]]
    BY <1>3, LeadTypes DEF Sys!ProbeRaises, SystemInv
  <2>2. unsure' = TRUE
    BY <1>3 DEF Sys!ProbeRaises
  <2>3. Sys!TypeOK'
    BY <1>3, <2>1, <2>2 DEF Sys!ProbeRaises, SystemInv, Sys!TypeOK
  <2>4. LeaderHasLock' /\ PeriodsHaveBegun'
    BY <1>3, <2>2 DEF Sys!ProbeRaises, SystemInv, LeaderHasLock, PeriodsHaveBegun
  <2>5. QED BY <2>3, <2>4 DEF SystemInv
\* What it enqueues is keyed by the period the clock is in.
<1>4. ASSUME NEW p \in Process, NEW k \in Periodic, Sys!RunKind(p, k) PROVE SystemInv'
  <2>1. UNCHANGED <<clock, lock, closes, unsure>>
    BY <1>4 DEF Sys!RunKind
  <2>2. /\ sched' \in [Process -> [todo : SUBSET Periodic, now : 0 .. MaxClock,
                                   last : [Periodic -> 0 .. Sys!Never]]]
        /\ \A q \in Process : sched[q]'.todo \subseteq sched[q].todo
    <3>1. sched[p].now \in 0 .. Sys!Never
      BY PeriodRows DEF SystemInv, Sys!TypeOK, Sys!Never, Sys!SystemTicksAssumption
    <3>2. CASE sched' = [sched EXCEPT ![p].todo = @ \ {k}]
      BY <3>2 DEF SystemInv, Sys!TypeOK
    <3>3. CASE sched' = [sched EXCEPT ![p].todo = @ \ {k}, ![p].last[k] = sched[p].now]
      BY <3>1, <3>3 DEF SystemInv, Sys!TypeOK
    <3>4. QED BY <1>4, <3>2, <3>3 DEF Sys!RunKind
  <2>3. Sys!Key(k) \in 0 .. MaxClock /\ Sys!Key(k) \in 0 .. clock \div Period[k]
    <3>1. clock \in Nat /\ Period[k] \in Nat \ {0} /\ clock <= MaxClock
      BY DEF SystemInv, Sys!TypeOK, Sys!SystemTicksAssumption
    <3>2. clock \div Period[k] \in Nat /\ clock \div Period[k] <= clock
      BY <3>1, PeriodsGrow
    <3>3. QED BY <3>1, <3>2 DEF Sys!Key, Sys!SystemTicksAssumption
  <2>4. jobs' \subseteq jobs \cup {[kind |-> k, org |-> o, period |-> Sys!Key(k)] : o \in Sys!Targets(k)}
    BY <1>4 DEF Sys!RunKind
  <2>5. Sys!Targets(k) \subseteq Tenant /\ refused' \subseteq Periodic
    BY <1>4 DEF Sys!RunKind, Sys!Targets, SystemInv, Sys!TypeOK
  <2>6. ASSUME NEW j \in jobs'
        PROVE  /\ j \in [kind : Periodic, org : Tenant, period : 0 .. MaxClock]
               /\ j.period \in 0 .. clock \div Period[j.kind]
    <3>1. CASE j \in jobs
      BY <3>1 DEF SystemInv, Sys!TypeOK, PeriodsHaveBegun
    <3>2. CASE \E o \in Tenant : j = [kind |-> k, org |-> o, period |-> Sys!Key(k)]
      BY <2>3, <3>2
    <3>3. QED BY <2>4, <2>5, <3>1, <3>2
  <2>7. Sys!TypeOK'
    <3>1. jobs' \subseteq [kind : Periodic, org : Tenant, period : 0 .. MaxClock]
      BY <2>6
    <3>2. QED BY <2>1, <2>2, <2>5, <3>1 DEF SystemInv, Sys!TypeOK
  <2>8. LeaderHasLock'
    BY <2>1, <2>2 DEF SystemInv, LeaderHasLock
  <2>9. PeriodsHaveBegun'
    BY <2>1, <2>6 DEF PeriodsHaveBegun
  <2>10. QED BY <2>7, <2>8, <2>9 DEF SystemInv
\* A lock goes only with the session of the process that had it.
<1>5. ASSUME NEW p \in Process, NEW c \in Conn, Sys!CloseConn(p, c) PROVE SystemInv'
  <2>1. /\ lock = [proc |-> p, conn |-> c] /\ lock' = Sys!NoSession
        /\ unsure' = (unsure \/ sched[p].todo # {})
        /\ closes' = closes + 1 /\ closes < MaxCloses
        /\ UNCHANGED <<clock, sched, jobs, refused>>
    BY <1>5 DEF Sys!CloseConn
  <2>2. closes' \in 0 .. MaxCloses
    BY <2>1 DEF SystemInv, Sys!TypeOK, Sys!SystemTicksAssumption
  <2>3. Sys!TypeOK'
    BY <2>1, <2>2 DEF SystemInv, Sys!TypeOK
  <2>4. LeaderHasLock'
    BY <2>1 DEF SystemInv, LeaderHasLock
  <2>5. PeriodsHaveBegun'
    BY <2>1 DEF SystemInv, PeriodsHaveBegun
  <2>6. QED BY <2>3, <2>4, <2>5 DEF SystemInv
<1>6. ASSUME NEW p \in Process, Sys!Restart(p) PROVE SystemInv'
  <2>1. /\ lock' = IF lock.proc = p THEN Sys!NoSession ELSE lock
        /\ sched' = [sched EXCEPT ![p] = Sys!Idle]
        /\ closes' = closes + 1 /\ closes < MaxCloses
        /\ UNCHANGED <<clock, jobs, unsure, refused>>
    BY <1>6 DEF Sys!Restart
  <2>2. closes' \in 0 .. MaxCloses
    BY <2>1 DEF SystemInv, Sys!TypeOK, Sys!SystemTicksAssumption
  <2>3. Sys!Idle \in [todo : SUBSET Periodic, now : 0 .. MaxClock, last : [Periodic -> 0 .. Sys!Never]]
    BY DEF Sys!Idle, Sys!Never, Sys!SystemTicksAssumption
  <2>4. sched' \in [Process -> [todo : SUBSET Periodic, now : 0 .. MaxClock,
                                last : [Periodic -> 0 .. Sys!Never]]]
    BY <2>1, <2>3 DEF SystemInv, Sys!TypeOK
  <2>5. Sys!TypeOK'
    BY <2>1, <2>2, <2>4 DEF SystemInv, Sys!TypeOK
  <2>6. sched[p]'.todo = {} /\ \A q \in Process \ {p} : sched[q]' = sched[q]
    BY <2>1 DEF Sys!Idle, SystemInv, Sys!TypeOK
  <2>7. LeaderHasLock'
    BY <2>1, <2>6 DEF SystemInv, LeaderHasLock
  <2>8. PeriodsHaveBegun'
    BY <2>1 DEF SystemInv, PeriodsHaveBegun
  <2>9. QED BY <2>5, <2>7, <2>8 DEF SystemInv
<1>7. CASE UNCHANGED Sys!vars
  BY <1>7 DEF Sys!vars, SystemInv, Sys!TypeOK, LeaderHasLock, PeriodsHaveBegun
<1>8. QED BY <1>1, <1>2, <1>3, <1>4, <1>5, <1>6, <1>7 DEF Sys!Next

LEMMA SystemInvariant ==
  ASSUME Sys!SystemTicksAssumption PROVE Sys!Spec => []SystemInv
<1>1. Sys!Init => SystemInv BY SystemInit
<1>2. SystemInv /\ [Sys!Next]_(Sys!vars) => SystemInv' BY SystemStep
<1>3. QED BY <1>1, <1>2, PTL DEF Sys!Spec

\* The lock, the schedulers and the jobs keep their types.
THEOREM SystemTypes ==
  ASSUME Sys!SystemTicksAssumption PROVE Sys!Spec => []Sys!TypeOK
<1>1. SystemInv => Sys!TypeOK BY DEF SystemInv
<1>2. QED BY <1>1, SystemInvariant, PTL

\* _is_leader: two processes enqueue periodic jobs together only after a probe
\* raised or a connection that held the advisory lock was closed under a leader.
THEOREM OneProcessLeads ==
  ASSUME Sys!SystemTicksAssumption PROVE Sys!Spec => []Sys!OneLeader
<1>1. SystemInv => Sys!OneLeader BY DEF SystemInv, LeaderHasLock, Sys!OneLeader
<1>2. QED BY <1>1, SystemInvariant, PTL

\* A set is counted alike in both modules.
LEMMA SameCount ==
  ASSUME NEW U PROVE Sys!Cardinality(U) = Cardinality(U)
  BY Zenon DEF Sys!Cardinality, Cardinality

\* The periods of an organisation's jobs of a kind are different numbers, none
\* beyond the period the clock is in.
LEMMA JobsFitPeriods ==
  ASSUME Sys!SystemTicksAssumption, SystemInv PROVE Sys!OnePerPeriod
<1> SUFFICES ASSUME NEW k \in Periodic, NEW o \in Tenant
             PROVE  Cardinality({j \in jobs : j.kind = k /\ j.org = o})
                    <= clock \div Period[k] + 1
  BY SameCount DEF Sys!OnePerPeriod
<1> DEFINE S == {j \in jobs : j.kind = k /\ j.org = o}
           n == clock \div Period[k]
           f == [j \in S |-> j.period]
<1>1. n \in Nat
  <2>1. clock \in Nat /\ Period[k] \in Nat \ {0}
    BY DEF SystemInv, Sys!TypeOK, Sys!SystemTicksAssumption
  <2>2. QED BY <2>1, PeriodsGrow
<1>2. \A j \in S : j.period \in 0 .. n
  BY DEF SystemInv, PeriodsHaveBegun
<1>3. \A i, j \in S : i.period = j.period => i = j
  <2>1. \A j \in S : j = [kind |-> k, org |-> o, period |-> j.period]
    BY DEF SystemInv, Sys!TypeOK
  <2>2. QED BY <2>1
<1>4. f \in Injection(S, 0 .. n)
  BY <1>2, <1>3 DEF Injection, IsInjective
<1>5. IsFiniteSet(0 .. n) /\ Cardinality(0 .. n) = n + 1
  BY <1>1, FS_Interval
<1>6. Cardinality(S) <= n + 1
  <2> HIDE DEF S, n, f
  <2>1. QED BY <1>4, <1>5, FS_Injection
<1>7. QED BY <1>6

\* _enqueue_kind: however many processes lead, and whatever restarts, an
\* organisation gets at most one job of a kind for each period.
THEOREM OneJobPerPeriod ==
  ASSUME Sys!SystemTicksAssumption PROVE Sys!Spec => []Sys!OnePerPeriod
<1>1. ASSUME Sys!SystemTicksAssumption, SystemInv PROVE Sys!OnePerPeriod
  BY <1>1, JobsFitPeriods
<1>2. SystemInv => Sys!OnePerPeriod BY <1>1
<1>3. QED BY <1>2, SystemInvariant, PTL

-----------------------------------------------------------------------------
(* The parts side by side: a behaviour is one of the part it is about.         *)

\* No step changes what a behaviour is about.
LEMMA PartStays ==
  ASSUME NEW p, part = p, [NextAll]_varsAll PROVE part' = p
BY DEF NextAll, Only, varsAll

LEMMA MembersPart ==
  SpecAll => Spec
<1>1. InitAll => Init
  BY DEF InitAll
<1>2. ASSUME [NextAll]_varsAll PROVE [Next]_vars
  <2>1. CASE UNCHANGED varsAll
    BY <2>1 DEF varsAll
  <2>2. CASE Only("members") /\ Next
    BY <2>2
  <2>3. ASSUME NEW p, p # "members", Only(p) PROVE UNCHANGED vars
    BY <2>3 DEF Only
  <2>4. QED BY <1>2, <2>1, <2>2, <2>3 DEF NextAll
<1>3. QED BY <1>1, <1>2, PTL DEF SpecAll, Spec

LEMMA AuditPart ==
  SpecAll => []~ (part = "audit") \/ (A!Spec /\ [](part = "audit"))
<1>1. InitAll /\ part = "audit" => A!Init
  BY DEF InitAll
<1>2. part = "audit" /\ [NextAll]_varsAll => [A!Next]_(A!vars)
  BY DEF NextAll, Only, varsAll, auditVars, A!vars
<1>3. part = "audit" /\ [NextAll]_varsAll => (part = "audit")'
  BY PartStays
<1>4. ~ (part = "audit") /\ [NextAll]_varsAll => (~ (part = "audit"))'
  BY PartStays
<1>5. QED BY <1>1, <1>2, <1>3, <1>4, PTL DEF SpecAll, A!Spec

LEMMA PrivacyPart ==
  SpecAll => []~ (part = "privacy") \/ (D!Spec /\ [](part = "privacy"))
<1>1. InitAll /\ part = "privacy" => D!Init
  BY DEF InitAll
<1>2. part = "privacy" /\ [NextAll]_varsAll => [D!Next]_(D!vars)
  BY DEF NextAll, Only, varsAll, privacyVars, D!vars
<1>3. part = "privacy" /\ [NextAll]_varsAll => (part = "privacy")'
  BY PartStays
<1>4. ~ (part = "privacy") /\ [NextAll]_varsAll => (~ (part = "privacy"))'
  BY PartStays
<1>5. QED BY <1>1, <1>2, <1>3, <1>4, PTL DEF SpecAll, D!Spec

LEMMA BreakerPart ==
  SpecAll => []~ (part = "breaker") \/ (B!Spec /\ [](part = "breaker"))
<1>1. InitAll /\ part = "breaker" => B!Init
  BY DEF InitAll
<1>2. part = "breaker" /\ [NextAll]_varsAll => [B!Next]_(B!vars)
  BY DEF NextAll, Only, varsAll, breakerVars, B!vars
<1>3. part = "breaker" /\ [NextAll]_varsAll => (part = "breaker")'
  BY PartStays
<1>4. ~ (part = "breaker") /\ [NextAll]_varsAll => (~ (part = "breaker"))'
  BY PartStays
<1>5. QED BY <1>1, <1>2, <1>3, <1>4, PTL DEF SpecAll, B!Spec

LEMMA BucketsPart ==
  SpecAll => []~ (part = "buckets") \/ (L!Spec /\ [](part = "buckets"))
<1>1. InitAll /\ part = "buckets" => L!Init
  BY DEF InitAll
<1>2. part = "buckets" /\ [NextAll]_varsAll => [L!Next]_(L!vars)
  BY DEF NextAll, Only, varsAll, bucketVars, L!vars
<1>3. part = "buckets" /\ [NextAll]_varsAll => (part = "buckets")'
  BY PartStays
<1>4. ~ (part = "buckets") /\ [NextAll]_varsAll => (~ (part = "buckets"))'
  BY PartStays
<1>5. QED BY <1>1, <1>2, <1>3, <1>4, PTL DEF SpecAll, L!Spec

LEMMA SpendingPart ==
  SpecAll => []~ (part = "spending") \/ (C!Spec /\ [](part = "spending"))
<1>1. InitAll /\ part = "spending" => C!Init
  BY DEF InitAll
<1>2. part = "spending" /\ [NextAll]_varsAll => [C!Next]_(C!vars)
  BY DEF NextAll, Only, varsAll, spendingVars, C!vars
<1>3. part = "spending" /\ [NextAll]_varsAll => (part = "spending")'
  BY PartStays
<1>4. ~ (part = "spending") /\ [NextAll]_varsAll => (~ (part = "spending"))'
  BY PartStays
<1>5. QED BY <1>1, <1>2, <1>3, <1>4, PTL DEF SpecAll, C!Spec

LEMMA SchedulesPart ==
  SpecAll => []~ (part = "schedules") \/ (T!Spec /\ [](part = "schedules"))
<1>1. InitAll /\ part = "schedules" => T!Init
  BY DEF InitAll
<1>2. part = "schedules" /\ [NextAll]_varsAll => [T!Next]_(T!vars)
  BY DEF NextAll, Only, varsAll, beatVars, T!vars
<1>3. part = "schedules" /\ [NextAll]_varsAll => (part = "schedules")'
  BY PartStays
<1>4. ~ (part = "schedules") /\ [NextAll]_varsAll => (~ (part = "schedules"))'
  BY PartStays
<1>5. QED BY <1>1, <1>2, <1>3, <1>4, PTL DEF SpecAll, T!Spec

LEMMA SystemPart ==
  SpecAll => []~ (part = "system") \/ (Sys!Spec /\ [](part = "system"))
<1>1. InitAll /\ part = "system" => Sys!Init
  BY DEF InitAll
<1>2. part = "system" /\ [NextAll]_varsAll => [Sys!Next]_(Sys!vars)
  BY DEF NextAll, Only, varsAll, systemVars, Sys!vars
<1>3. part = "system" /\ [NextAll]_varsAll => (part = "system")'
  BY PartStays
<1>4. ~ (part = "system") /\ [NextAll]_varsAll => (~ (part = "system"))'
  BY PartStays
<1>5. QED BY <1>1, <1>2, <1>3, <1>4, PTL DEF SpecAll, Sys!Spec

\* The parts have the types of the modules they come from.
THEOREM ServiceTypes ==
  ASSUME ServiceAssumption, NullIsNoHash PROVE SpecAll => []TypesHold
<1>1. SpecAll => [](part \in Parts)
  <2>1. InitAll => part \in Parts
    BY DEF InitAll
  <2>2. part \in Parts /\ [NextAll]_varsAll => (part \in Parts)'
    BY PartStays
  <2>3. QED BY <2>1, <2>2, PTL DEF SpecAll
<1>2. Spec => []TypeOK
  BY MembershipTypes DEF ServiceAssumption
<1>3. A!Spec => []A!TypeOK
  BY AuditTypes DEF ServiceAssumption
<1>4. D!Spec => []D!TypeOK
  BY PrivacyTypes DEF ServiceAssumption
<1>5. B!Spec => []B!TypeOK
  BY BreakerTypes DEF ServiceAssumption
<1>6. L!Spec => []L!TypeOK
  BY BucketTypes DEF ServiceAssumption
<1>7. C!Spec => []C!TypeOK
  BY SpendingTypes DEF ServiceAssumption
<1>8. T!Spec => []T!TypeOK
  BY BeatTypes DEF ServiceAssumption
<1>9. Sys!Spec => []Sys!TypeOK
  BY SystemTypes DEF ServiceAssumption
<1>10. /\ part \in Parts /\ TypeOK
       /\ ~ (part = "audit") \/ A!TypeOK
       /\ ~ (part = "privacy") \/ D!TypeOK
       /\ ~ (part = "breaker") \/ B!TypeOK
       /\ ~ (part = "buckets") \/ L!TypeOK
       /\ ~ (part = "spending") \/ C!TypeOK
       /\ ~ (part = "schedules") \/ T!TypeOK
       /\ ~ (part = "system") \/ Sys!TypeOK
       => TypesHold
  BY DEF ServiceAssumption, TypesHold
<1>11. QED
  BY <1>1, <1>2, <1>3, <1>4, <1>5, <1>6, <1>7, <1>8, <1>9, <1>10, MembersPart, AuditPart,
     PrivacyPart, BreakerPart, BucketsPart, SpendingPart, SchedulesPart, SystemPart, PTL

\* Teams stay whole in the joined specification too.
THEOREM ServiceTeamsStayWhole ==
  ASSUME ServiceAssumption PROVE SpecAll => []MembershipHolds
<1>1. Spec => []MembershipHolds
  BY TeamsStayWhole DEF ServiceAssumption
<1>2. QED BY <1>1, MembersPart, PTL

\* And nobody joins uninvited there.
THEOREM ServiceAdmitsByInvitation ==
  ASSUME ServiceAssumption PROVE SpecAll => JoinsByInvitation
<1>1. Spec => JoinsByInvitation
  BY NobodyJoinsUninvited DEF ServiceAssumption
<1>2. QED BY <1>1, MembersPart, PTL

\* record, verify_chain and list_paged: an untouched log verifies unless appends
\* overlapped, a changed or removed row shows, and who is told of the end saw all.
THEOREM LogsTellTheTruth ==
  ASSUME ServiceAssumption, NullIsNoHash PROVE SpecAll => []LogTellsTheTruth
<1>1. A!Spec => []A!UntouchedVerifies
  BY UntouchedLogVerifies DEF ServiceAssumption
<1>2. A!Spec => []A!ChangeShows
  BY ChangesShow DEF ServiceAssumption
<1>3. A!Spec => []A!RemovalShows
  BY RemovalsShow DEF ServiceAssumption
<1>4. A!Spec => []A!EndOfLogIsTrue
  BY EndsAreTrue DEF ServiceAssumption
<1>5. (~ (part = "audit")
        \/ (A!UntouchedVerifies /\ A!ChangeShows /\ A!RemovalShows /\ A!EndOfLogIsTrue))
       => LogTellsTheTruth
  BY DEF LogTellsTheTruth
<1>6. QED BY <1>1, <1>2, <1>3, <1>4, <1>5, AuditPart, PTL

\* execute_delete and cancel: a completed erasure left only what it could not know
\* of or could not delete, and a job cancelled in time is never begun.
THEOREM ErasuresHold ==
  ASSUME ServiceAssumption PROVE SpecAll => []ErasureHolds
<1>1. D!Spec => []D!ErasureIsComplete
  BY ErasuresAreComplete DEF ServiceAssumption
<1>2. D!Spec => []D!CancelHolds
  BY CancelledJobsRest DEF ServiceAssumption
<1>3. (~ (part = "privacy") \/ (D!ErasureIsComplete /\ D!CancelHolds)) => ErasureHolds
  BY DEF ErasureHolds
<1>4. QED BY <1>1, <1>2, <1>3, PrivacyPart, PTL

\* The gates in front of a call: the circuit opens in time and reopens at
\* the first failure of its trial, buckets hand out what they gained, and a budget is
\* passed only by the completions under way together.
THEOREM GatesAlwaysHold ==
  ASSUME ServiceAssumption PROVE SpecAll => []GatesHold
<1>1. B!Spec => []B!OpensAndProbes
  BY OpensInTime DEF ServiceAssumption
<1>2. B!Spec => []B!HalfOpenIsOnTrial
  BY TrialEndsAtFailure DEF ServiceAssumption
<1>3. L!Spec => []L!TenantIsHeld
  BY TenantsAreHeld DEF ServiceAssumption
<1>4. L!Spec => []L!GovernorIsHeld
  BY GovernorHolds DEF ServiceAssumption
<1>5. C!Spec => []C!OvershootIsTheCrowd
  BY OvershootIsBounded DEF ServiceAssumption
<1>6. C!Spec => []C!BilledLate
  BY CostsAreBilledLate DEF ServiceAssumption
<1>7. /\ ~ (part = "breaker") \/ (B!OpensAndProbes /\ B!HalfOpenIsOnTrial)
      /\ ~ (part = "buckets") \/ (L!TenantIsHeld /\ L!GovernorIsHeld)
      /\ ~ (part = "spending") \/ (C!OvershootIsTheCrowd /\ C!BilledLate)
      => GatesHold
  BY DEF GatesHold
<1>8. QED
  BY <1>1, <1>2, <1>3, <1>4, <1>5, <1>6, <1>7, BreakerPart, BucketsPart, SpendingPart, PTL

\* beat_tick and SystemScheduler: starts stand for fires and fires keep to the
\* schedule unless ticks or writes overlap; one process leads, and makes one job of
\* a kind for an organisation and a period.
THEOREM SchedulesHold ==
  ASSUME ServiceAssumption PROVE SpecAll => []ScheduleHolds
<1>1. T!Spec => []T!StartsAreFires
  BY StartsStandForFires DEF ServiceAssumption
<1>2. T!Spec => []T!FiresKeepTheSchedule
  BY SchedulesAreKept DEF ServiceAssumption
<1>3. Sys!Spec => []Sys!OneLeader
  BY OneProcessLeads DEF ServiceAssumption
<1>4. Sys!Spec => []Sys!OnePerPeriod
  BY OneJobPerPeriod DEF ServiceAssumption
<1>5. /\ ~ (part = "schedules") \/ (T!StartsAreFires /\ T!FiresKeepTheSchedule)
      /\ ~ (part = "system") \/ (Sys!OneLeader /\ Sys!OnePerPeriod)
      => ScheduleHolds
  BY DEF ScheduleHolds
<1>6. QED BY <1>1, <1>2, <1>3, <1>4, <1>5, SchedulesPart, SystemPart, PTL
=============================================================================
