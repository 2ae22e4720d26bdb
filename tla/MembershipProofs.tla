--------------------------- MODULE MembershipProofs ---------------------------
(***************************************************************************)
(* What holds of teams for any number of people, organisations, requests   *)
(* and invitations: nobody joins uninvited, and unless requests overlap in *)
(* an organisation it keeps an administrator, nobody is both a member and  *)
(* invited, and who was removed stays out.                                 *)
(***************************************************************************)
EXTENDS Membership, TLAPS

Requests == [pc : InFlight \cup {"idle"}, who : Person \cup {"none"}, org : Org \cup {"none"},
             role : Role \cup {"none"}, on : Person \cup {"none"}, with : Role \cup {"none"},
             id : Nat]

\* The phases in which a request has an organisation, and those in which it has
\* been let in.
Placed == {"claim", "act", "remove", "insert"}
Admitted == {"act", "remove", "insert"}

\* A request is idle or has somebody; organisations that are named exist; the
\* numbers of rows have been given out.
Places ==
    /\ req \in [Request -> Requests]
    /\ \A r \in Request : req[r].pc = "idle" => req[r] = Idle
    /\ \A p \in Person : member[p] # NoRow =>
          member[p].org \in orgs /\ 0 < member[p].id /\ member[p].id <= rows
    /\ \A i \in DOMAIN invites : invites[i].org \in orgs
    /\ \A r \in Request : req[r].pc \in Placed => req[r].org \in orgs

\* Between the check and the statement an administrator has somebody else in
\* mind; the number he has read is a row of his own organisation or nobody's.
Aims ==
    \A r \in Request :
       /\ req[r].pc \in {"remove", "insert"} => req[r].role = "admin" /\ req[r].on \in Person
       /\ req[r].pc = "insert" => req[r].with \in Role
       /\ req[r].pc = "remove" =>
             /\ req[r].on # req[r].who /\ 0 < req[r].id /\ req[r].id <= rows
             /\ member[req[r].on].id = req[r].id => member[req[r].on].org = req[r].org

\* An invitation about to be claimed is the claimant's; it is still pending unless
\* two requests met in its organisation.
Claims ==
    \A r \in Request : req[r].pc = "claim" =>
       /\ req[r].id \in DOMAIN invites
       /\ invites[req[r].id].who = req[r].who /\ invites[req[r].id].org = req[r].org
       /\ invites[req[r].id].state = "pending" \/ req[r].org \in raced

\* Who acts as an administrator is one, unless requests met there.
Ruled ==
    \A r \in Request :
       req[r].pc \in Admitted /\ req[r].role = "admin" /\ req[r].org \notin raced =>
          req[r].who \in Admins(req[r].org)

\* One pending invitation for a person and an organisation, and none about to be
\* inserted for a member unless requests met there.
Single ==
    \A i, j \in DOMAIN invites :
       (/\ invites[i].state = "pending" /\ invites[j].state = "pending"
        /\ invites[i].org = invites[j].org /\ invites[i].who = invites[j].who) => i = j
Outside ==
    \A r \in Request : req[r].pc = "insert" /\ req[r].org \notin raced =>
       member[req[r].on].org # req[r].org

\* Who was removed quietly has no invitation, and no request of theirs gets far.
Out ==
    /\ barred # {} => orgs # {}
    /\ \A p \in barred :
          /\ member[p] = NoRow /\ Offers(p) = {}
          /\ \A r \in Request : req[r].who = p => req[r].pc \in {"member", "invite", "count"}

IInv == /\ TypeOK /\ Places /\ Aims /\ Claims /\ Ruled /\ Single /\ Outside /\ Out
        /\ AdminsRemain /\ NoLeftoverInvites

-----------------------------------------------------------------------------
\* No row, no request and nobody are told apart from rows, requests and people.
LEMMA Nobody ==
  ASSUME MembershipAssumption
  PROVE  /\ "none" \notin Person /\ "none" \notin Org /\ "none" \notin Role /\ "admin" \in Role
         /\ Idle \in Requests /\ Idle.pc = "idle" /\ Idle.who = "none" /\ Idle.org = "none"
         /\ NoRow \notin Rows /\ NoRow.id = 0 /\ NoRow.org = "none" /\ NoRow.role = "none"
         /\ "idle" \notin InFlight
<1>1. /\ "none" \notin Person /\ "none" \notin Org /\ "none" \notin Role /\ "admin" \in Role
      /\ "idle" \notin InFlight
  BY DEF MembershipAssumption, InFlight
<1>2. Idle \in Requests /\ Idle.pc = "idle" /\ Idle.who = "none" /\ Idle.org = "none"
  BY DEF Idle, Requests
<1>3. NoRow.id = 0 /\ NoRow.org = "none" /\ NoRow.role = "none"
  BY DEF NoRow
<1>4. \A row \in Rows : row.org \in Org
  BY DEF Rows
<1>5. NoRow \notin Rows
  BY <1>1, <1>3, <1>4
<1>6. QED BY <1>1, <1>2, <1>3, <1>5

\* A row that is there, field by field.
LEMMA RowFields ==
  ASSUME MembershipAssumption, TypeOK, Places, NEW p \in Person
  PROVE  /\ member[p].id \in Nat
         /\ member[p] # NoRow <=> member[p] \in Rows
         /\ member[p] # NoRow => /\ member[p].org \in Org /\ member[p].org \in orgs
                                 /\ member[p].role \in Role /\ 0 < member[p].id
                                 /\ member[p].id <= rows
         /\ member[p] = NoRow => member[p].org = "none" /\ member[p].id = 0
<1>1. member[p] \in Rows \cup {NoRow} /\ NoRow \notin Rows
  BY Nobody DEF TypeOK
<1>2. CASE member[p] = NoRow
  BY <1>2, Nobody
<1>3. CASE member[p] \in Rows
  BY <1>3, <1>1, Nobody DEF Rows, Places
<1>4. QED BY <1>1, <1>2, <1>3

\* An invitation, field by field.
LEMMA InviteFields ==
  ASSUME TypeOK, NEW i \in DOMAIN invites
  PROVE  /\ invites[i] \in Invites /\ i \in Nat /\ i \in 1 .. Len(invites)
         /\ invites[i].org \in Org /\ invites[i].who \in Person /\ invites[i].role \in Role
         /\ invites[i].state \in {"pending", "claimed", "revoked"}
<1>1. invites \in Seq(Invites)
  BY DEF TypeOK
<1>2. invites[i] \in Invites /\ i \in Nat /\ i \in 1 .. Len(invites)
  BY <1>1
<1>3. QED BY <1>2 DEF Invites

\* A request, field by field.
LEMMA RequestFields ==
  ASSUME MembershipAssumption, TypeOK, Places, NEW r \in Request
  PROVE  /\ req[r] \in Requests
         /\ req[r].pc \in InFlight \cup {"idle"} /\ req[r].who \in Person \cup {"none"}
         /\ req[r].org \in Org \cup {"none"} /\ req[r].role \in Role \cup {"none"}
         /\ req[r].id \in Nat
         /\ req[r].pc # "idle" => req[r].who \in Person
         /\ req[r].pc \in Placed => req[r].org \in orgs /\ req[r].org \in Org
<1>1. req[r] \in Requests
  BY DEF Places
<1>2. req[r].pc # "idle" => req[r].who \in Person
  BY Nobody DEF TypeOK
<1>3. req[r].pc \in Placed => req[r].org \in orgs /\ req[r].org \in Org
  BY DEF Places, TypeOK
<1>4. QED BY <1>1, <1>2, <1>3 DEF Requests

-----------------------------------------------------------------------------
(* What each statement writes, field by field.                             *)

\* One request moves on, the others stay.
Moves(r) == /\ req' \in [Request -> Requests]
            /\ \A q \in Request \ {r} : req'[q] = req[q]

\* What a request is at after it has ended.
LEMMA Finished ==
  ASSUME MembershipAssumption, Places, NEW r \in Request, Finish(r)
  PROVE  Moves(r) /\ req'[r] = Idle
BY Nobody DEF Finish, Places, Moves

\* A request that goes on keeps its person.
LEMMA GoesOn ==
  ASSUME MembershipAssumption, TypeOK, Places, NEW r \in Request, NEW row,
         row.org \in Org, row.role \in Role, Resolved(r, row)
  PROVE  /\ Moves(r) /\ req'[r].pc = "act" /\ req'[r].who = req[r].who
         /\ req'[r].org = row.org /\ req'[r].role = row.role
<1>1. req[r] \in Requests
  BY RequestFields
<1>2. /\ req' = [req EXCEPT ![r] = [req[r] EXCEPT !.pc = "act", !.org = row.org,
                                                 !.role = row.role]]
      /\ [req[r] EXCEPT !.pc = "act", !.org = row.org, !.role = row.role] \in Requests
  BY <1>1 DEF Resolved, Places, Requests, InFlight
<1>3. QED BY <1>1, <1>2 DEF Moves, Places, Requests

\* The sign-in begins with nothing but a person.
LEMMA SignsIn ==
  ASSUME MembershipAssumption, Places, NEW r \in Request, NEW p \in Person, SignIn(r, p)
  PROVE  /\ Moves(r) /\ req[r] = Idle /\ req'[r].pc = "member" /\ req'[r].who = p
         /\ req'[r].org = "none"
         /\ UNCHANGED <<orgs, member, invites, rows, raced, barred>>
<1>1. [Idle EXCEPT !.pc = "member", !.who = p] \in Requests
  BY DEF Idle, Requests, InFlight
<1>2. QED BY <1>1 DEF SignIn, Moves, Places, Idle

\* A member goes on with the row, whose link is all that changes; whoever is none
\* goes on to the invitations.
LEMMA FindsMember ==
  ASSUME MembershipAssumption, TypeOK, Places, NEW r \in Request, FindMember(r)
  PROVE  /\ Moves(r) /\ req[r].pc = "member" /\ req[r].who \in Person
         /\ req'[r].who = req[r].who
         /\ UNCHANGED <<orgs, invites, rows, raced, barred>>
         /\ member' \in [Person -> Rows \cup {NoRow}]
         /\ \A p \in Person : /\ member'[p].org = member[p].org
                              /\ member'[p].role = member[p].role
                              /\ member'[p].id = member[p].id
                              /\ member'[p] = NoRow <=> member[p] = NoRow
         /\ \/ /\ req'[r].pc = "act" /\ member[req[r].who] # NoRow
               /\ req'[r].org = member[req[r].who].org
               /\ req'[r].role = member[req[r].who].role
            \/ req'[r].pc = "invite" /\ req'[r].org = req[r].org
<1> DEFINE p == req[r].who
<1>1. req[r] \in Requests /\ p \in Person /\ req[r].pc = "member"
      /\ UNCHANGED <<orgs, invites, rows, raced, barred>>
  BY RequestFields DEF FindMember
<1>2. CASE /\ member[p] # NoRow /\ Resolved(r, member[p])
           /\ member' = [member EXCEPT ![p] = [@ EXCEPT !.linked = TRUE]]
  <2>1. member[p] \in Rows /\ member[p].org \in Org /\ member[p].role \in Role
    BY <1>1, <1>2, RowFields
  <2>2. /\ Moves(r) /\ req'[r].pc = "act" /\ req'[r].who = p
        /\ req'[r].org = member[p].org /\ req'[r].role = member[p].role
    BY <1>2, <2>1, GoesOn
  <2>3. PICK row \in Rows : /\ row.org = member[p].org /\ row.role = member[p].role
                            /\ row.id = member[p].id /\ row = [member[p] EXCEPT !.linked = TRUE]
    BY <2>1 DEF Rows
  <2>4. member' = [member EXCEPT ![p] = row]
    BY <1>2, <2>3
  <2>5. row # NoRow
    BY <2>3, Nobody
  <2> HIDE DEF p
  <2>6. QED BY <1>1, <1>2, <2>2, <2>3, <2>4, <2>5 DEF TypeOK, p
<1>3. CASE /\ req' = [req EXCEPT ![r] = [@ EXCEPT !.pc = "invite"]]
           /\ UNCHANGED member
  <2>1. [req[r] EXCEPT !.pc = "invite"] \in Requests
    BY <1>1 DEF Requests, InFlight
  <2>2. Moves(r) /\ req'[r].pc = "invite" /\ req'[r].who = p /\ req'[r].org = req[r].org
    BY <1>1, <1>3, <2>1 DEF Moves, Places, Requests
  <2>3. QED BY <1>1, <1>3, <2>2 DEF TypeOK
<1>4. QED BY <1>2, <1>3 DEF FindMember

\* The oldest pending invitation, or none.
LEMMA FindsInvite ==
  ASSUME MembershipAssumption, TypeOK, Places, NEW r \in Request, FindInvite(r)
  PROVE  /\ Moves(r) /\ req[r].pc = "invite" /\ req[r].who \in Person
         /\ req'[r].who = req[r].who
         /\ UNCHANGED <<orgs, member, invites, rows, raced, barred>>
         /\ \/ req'[r].pc = "count" /\ req'[r].org = req[r].org
            \/ /\ req'[r].pc = "claim" /\ req'[r].id \in Offers(req[r].who)
               /\ req'[r].org = invites[req'[r].id].org
<1>1. req[r] \in Requests /\ req[r].who \in Person /\ req[r].pc = "invite"
      /\ UNCHANGED <<orgs, member, invites, rows, raced, barred>>
  BY RequestFields DEF FindInvite
<1>2. CASE req' = [req EXCEPT ![r] = [@ EXCEPT !.pc = "count"]]
  <2>1. [req[r] EXCEPT !.pc = "count"] \in Requests
    BY <1>1 DEF Requests, InFlight
  <2>2. QED BY <1>1, <1>2, <2>1 DEF Moves, Places, Requests
<1>3. ASSUME NEW i \in Offers(req[r].who),
             req' = [req EXCEPT ![r] = [@ EXCEPT !.pc = "claim", !.id = i,
                                                 !.org = invites[i].org]]
      PROVE  /\ Moves(r) /\ req'[r].who = req[r].who
             /\ req'[r].pc = "claim" /\ req'[r].id = i /\ req'[r].org = invites[i].org
  <2>1. i \in Nat /\ invites[i].org \in Org
    BY InviteFields DEF Offers
  <2>2. [req[r] EXCEPT !.pc = "claim", !.id = i, !.org = invites[i].org] \in Requests
    BY <1>1, <2>1 DEF Requests, InFlight
  <2>3. QED BY <1>1, <1>3, <2>2 DEF Moves, Places, Requests
<1>4. QED BY <1>1, <1>2, <1>3 DEF FindInvite

\* A new row has a number of its own.
LEMMA Joined ==
  ASSUME MembershipAssumption, TypeOK, NEW p \in Person, NEW o \in Org, NEW role \in Role,
         Joins(p, o, role)
  PROVE  /\ rows' = rows + 1 /\ member' \in [Person -> Rows \cup {NoRow}]
         /\ \A q \in Person \ {p} : member'[q] = member[q]
         /\ member'[p].org = o /\ member'[p].role = role /\ member'[p].id = rows + 1
         /\ member'[p] # NoRow
<1>1. [org |-> o, role |-> role, linked |-> TRUE, id |-> rows + 1] \in Rows
  BY DEF Rows, TypeOK
<1>2. [org |-> o, role |-> role, linked |-> TRUE, id |-> rows + 1] # NoRow
  BY <1>1, Nobody
<1>3. QED BY <1>1, <1>2 DEF Joins, TypeOK

\* A claim makes a member of the claimant, or ends at the unique column.
LEMMA Claimed ==
  ASSUME MembershipAssumption, TypeOK, Places, Claims, NEW r \in Request, Claim(r)
  PROVE  /\ Moves(r) /\ req[r].pc = "claim" /\ req[r].who \in Person
         /\ req[r].id \in DOMAIN invites /\ UNCHANGED <<orgs, barred>>
         /\ \/ req'[r] = Idle /\ UNCHANGED <<member, invites, rows, raced>>
            \/ /\ member[req[r].who] = NoRow
               /\ Joins(req[r].who, req[r].org, invites[req[r].id].role)
               /\ invites' = [invites EXCEPT ![req[r].id] = [@ EXCEPT !.state = "claimed"]]
               /\ raced' = raced \cup Races(r, req[r].org)
               /\ req'[r].pc = "act" /\ req'[r].who = req[r].who
               /\ req'[r].org = req[r].org /\ req'[r].role = invites[req[r].id].role
<1> DEFINE p == req[r].who  i == req[r].id
<1>1. req[r] \in Requests /\ p \in Person /\ req[r].pc = "claim" /\ i \in DOMAIN invites
      /\ invites[i].who = p /\ invites[i].org = req[r].org
      /\ UNCHANGED <<orgs, barred>>
  BY RequestFields DEF Claim, Claims
<1>2. CASE Finish(r) /\ UNCHANGED <<member, invites, rows, raced>>
  BY <1>1, <1>2, Finished
<1>3. CASE /\ member[p] = NoRow
           /\ Joins(p, invites[i].org, invites[i].role)
           /\ invites' = [invites EXCEPT ![i] = [@ EXCEPT !.state = "claimed"]]
           /\ raced' = raced \cup Races(r, invites[i].org)
           /\ Resolved(r, invites[i])
  <2>1. invites[i].org \in Org /\ invites[i].role \in Role
    BY <1>1, InviteFields
  <2>2. /\ Moves(r) /\ req'[r].pc = "act" /\ req'[r].who = p
        /\ req'[r].org = invites[i].org /\ req'[r].role = invites[i].role
    BY <1>3, <2>1, GoesOn
  <2>3. QED BY <1>1, <1>3, <2>2
<1>4. QED BY <1>2, <1>3 DEF Claim

\* Founding: the count, then the organisation with its first administrator.
LEMMA Founding ==
  ASSUME MembershipAssumption, TypeOK, Places, NEW r \in Request, CountOrgs(r) \/ Found(r)
  PROVE  /\ Moves(r) /\ req[r].pc \in {"count", "found"} /\ req[r].who \in Person
         /\ UNCHANGED <<invites, raced, barred>>
         /\ \/ /\ UNCHANGED <<orgs, member, rows>>
               /\ \/ req'[r] = Idle
                  \/ /\ req'[r].pc = "found" /\ req'[r].who = req[r].who
                     /\ req'[r].org = req[r].org /\ req[r].pc = "count" /\ orgs = {}
            \/ /\ member[req[r].who] = NoRow /\ req[r].pc = "found"
               /\ \E o \in Org \ orgs :
                    /\ orgs' = orgs \cup {o} /\ Joins(req[r].who, o, "admin")
                    /\ req'[r].pc = "act" /\ req'[r].who = req[r].who
                    /\ req'[r].org = o /\ req'[r].role = "admin"
<1>1. req[r] \in Requests /\ req[r].who \in Person /\ req[r].pc \in {"count", "found"}
      /\ UNCHANGED <<invites, raced, barred>>
  BY RequestFields DEF CountOrgs, Found
<1>2. CASE Finish(r) /\ UNCHANGED <<orgs, member, rows>>
  BY <1>1, <1>2, Finished
<1>3. CASE /\ req[r].pc = "count" /\ orgs = {} /\ UNCHANGED <<orgs, member, rows>>
           /\ req' = [req EXCEPT ![r] = [@ EXCEPT !.pc = "found"]]
  <2>1. [req[r] EXCEPT !.pc = "found"] \in Requests
    BY <1>1 DEF Requests, InFlight
  <2>2. QED BY <1>1, <1>3, <2>1 DEF Moves, Places, Requests
<1>4. ASSUME NEW o \in Org \ orgs, member[req[r].who] = NoRow, req[r].pc = "found",
             orgs' = orgs \cup {o}, Joins(req[r].who, o, "admin"),
             Resolved(r, [org |-> o, role |-> "admin"])
      PROVE  /\ Moves(r) /\ req'[r].pc = "act" /\ req'[r].who = req[r].who
             /\ req'[r].org = o /\ req'[r].role = "admin"
  BY <1>4, GoesOn, Nobody
<1>5. QED BY <1>1, <1>2, <1>3, <1>4 DEF CountOrgs, Found, Fresh

\* The checks of remove_member and create_invitation.
LEMMA Checked ==
  ASSUME MembershipAssumption, TypeOK, Places, NEW r \in Request, NEW p \in Person,
         NEW role \in Role, RemoveCheck(r, p) \/ InviteCheck(r, p, role)
  PROVE  /\ Moves(r) /\ req[r].pc = "act" /\ req[r].role = "admin" /\ req[r].org \in orgs
         /\ req'[r].who = req[r].who /\ req'[r].org = req[r].org /\ req'[r].role = "admin"
         /\ req'[r].on = p
         /\ UNCHANGED <<orgs, member, invites, rows, raced, barred>>
         /\ \/ /\ req'[r].pc = "remove" /\ req'[r].id = member[p].id
               /\ p # req[r].who /\ member[p].org = req[r].org
            \/ /\ req'[r].pc = "insert" /\ req'[r].with = role
               /\ member[p].org # req[r].org
<1>1. req[r] \in Requests /\ req[r].pc = "act" /\ req[r].role = "admin" /\ req[r].org \in orgs
      /\ UNCHANGED <<orgs, member, invites, rows, raced, barred>>
  BY RequestFields DEF RemoveCheck, InviteCheck, MayAdmin, Placed
<1>2. CASE RemoveCheck(r, p)
  <2>1. /\ req' = [req EXCEPT ![r] = [req[r] EXCEPT !.pc = "remove", !.on = p, !.id = member[p].id]]
        /\ p # req[r].who /\ member[p].org = req[r].org
    BY <1>2 DEF RemoveCheck, MayRemove, Members, Places
  <2>2. member[p].id \in Nat
    BY RowFields
  <2>3. [req[r] EXCEPT !.pc = "remove", !.on = p, !.id = member[p].id] \in Requests
    BY <1>1, <2>2 DEF Requests, InFlight
  <2>4. QED BY <1>1, <2>1, <2>3 DEF Moves, Places, Requests
<1>3. CASE InviteCheck(r, p, role)
  <2>1. /\ req' = [req EXCEPT ![r] = [req[r] EXCEPT !.pc = "insert", !.on = p, !.with = role]]
        /\ member[p].org # req[r].org
    BY <1>3 DEF InviteCheck, MayInvite, Members, Places
  <2>2. [req[r] EXCEPT !.pc = "insert", !.on = p, !.with = role] \in Requests
    BY <1>1 DEF Requests, InFlight
  <2>3. QED BY <1>1, <2>1, <2>2 DEF Moves, Places, Requests
<1>4. QED BY <1>2, <1>3

\* A role changes by an administrator's hand, and never his own to less.
LEMMA RoleChanged ==
  ASSUME MembershipAssumption, TypeOK, Places, NEW r \in Request, NEW p \in Person,
         NEW role \in Role, UpdateRole(r, p, role)
  PROVE  /\ Moves(r) /\ req'[r] = Idle /\ req[r].pc = "act" /\ req[r].role = "admin"
         /\ req[r].org \in orgs /\ member[p].org = req[r].org
         /\ p # req[r].who \/ role = "admin"
         /\ UNCHANGED <<orgs, invites, rows, barred>>
         /\ raced' = raced \cup Races(r, req[r].org)
         /\ member' \in [Person -> Rows \cup {NoRow}] /\ member[p] # NoRow
         /\ \A q \in Person \ {p} : member'[q] = member[q]
         /\ member'[p].org = member[p].org /\ member'[p].id = member[p].id
         /\ member'[p].role = role /\ member'[p] # NoRow
<1>1. /\ req[r].pc = "act" /\ req[r].role = "admin" /\ req[r].org \in orgs
      /\ req[r].org \in Org /\ member[p].org = req[r].org
      /\ p # req[r].who \/ role = "admin"
      /\ UNCHANGED <<orgs, invites, rows, barred>>
      /\ raced' = raced \cup Races(r, req[r].org)
  BY RequestFields DEF UpdateRole, MayAdmin, MayDemote, Members, Placed
<1>2. Moves(r) /\ req'[r] = Idle
  BY Finished DEF UpdateRole
<1>3. member[p] \in Rows /\ member[p] # NoRow
  BY <1>1, RowFields, Nobody
<1>4. PICK row \in Rows : /\ row.org = member[p].org /\ row.role = role /\ row.id = member[p].id
                          /\ row = [member[p] EXCEPT !.role = role]
  BY <1>3 DEF Rows
<1>5. member' = [member EXCEPT ![p] = row]
  BY <1>4 DEF UpdateRole
<1>6. row # NoRow
  BY <1>4, Nobody
<1>7. QED BY <1>1, <1>2, <1>3, <1>4, <1>5, <1>6 DEF TypeOK

\* A removal deletes the row that was read, if it is still there.
LEMMA Removed ==
  ASSUME MembershipAssumption, TypeOK, Places, Aims, NEW r \in Request, RemoveDelete(r)
  PROVE  /\ Moves(r) /\ req'[r] = Idle /\ req[r].pc = "remove" /\ req[r].role = "admin"
         /\ req[r].org \in orgs /\ req[r].on \in Person /\ req[r].on # req[r].who
         /\ UNCHANGED <<orgs, invites, rows>>
         /\ raced' = raced \cup Races(r, req[r].org)
         /\ member' \in [Person -> Rows \cup {NoRow}]
         /\ \A q \in Person \ {req[r].on} : member'[q] = member[q]
         /\ \/ member' = member /\ barred' = barred
            \/ /\ member'[req[r].on] = NoRow /\ member[req[r].on].org = req[r].org
               /\ \/ barred' = barred
                  \/ /\ barred' = barred \cup {req[r].on} /\ Offers(req[r].on) = {}
                     /\ \A q \in Request : req[q].who # req[r].on
<1> DEFINE p == req[r].on
<1>1. /\ req[r].pc = "remove" /\ req[r].role = "admin" /\ p \in Person /\ p # req[r].who
      /\ req[r].org \in orgs /\ UNCHANGED <<orgs, invites, rows>>
      /\ raced' = raced \cup Races(r, req[r].org)
      /\ member[p].id = req[r].id => member[p].org = req[r].org
  BY RequestFields DEF RemoveDelete, Aims, Placed
<1>2. Moves(r) /\ req'[r] = Idle
  BY Finished DEF RemoveDelete
<1>3. CASE member[p].id = req[r].id
  <2>1. member' = [member EXCEPT ![p] = NoRow]
    BY <1>3 DEF RemoveDelete
  <2>2. \/ barred' = barred
        \/ /\ barred' = barred \cup {p} /\ Offers(p) = {}
           /\ \A q \in Request : req[q].who # p
    BY <1>3 DEF RemoveDelete
  <2> HIDE DEF p
  <2>3. QED BY <1>1, <1>2, <1>3, <2>1, <2>2 DEF TypeOK, p
<1>4. CASE member[p].id # req[r].id
  <2>1. member' = member /\ barred' = barred
    BY <1>4 DEF RemoveDelete
  <2>2. QED BY <1>1, <1>2, <2>1 DEF TypeOK
<1>5. QED BY <1>3, <1>4

\* An invitation is inserted unless a pending one is there.
LEMMA Inserted ==
  ASSUME MembershipAssumption, TypeOK, Places, Aims, NEW r \in Request, InviteInsert(r)
  PROVE  /\ Moves(r) /\ req'[r] = Idle /\ req[r].pc = "insert" /\ req[r].role = "admin"
         /\ req[r].org \in orgs /\ req[r].on \in Person
         /\ UNCHANGED <<orgs, member, rows>>
         /\ \/ UNCHANGED <<invites, raced, barred>>
            \/ /\ \A i \in Offers(req[r].on) : invites[i].org # req[r].org
               /\ raced' = raced \cup Races(r, req[r].org)
               /\ barred' = barred \ {req[r].on}
               /\ \E v \in Invites :
                     /\ v.org = req[r].org /\ v.who = req[r].on /\ v.state = "pending"
                     /\ invites' = Append(invites, v)
<1>1. /\ req[r].pc = "insert" /\ req[r].role = "admin" /\ req[r].on \in Person
      /\ req[r].with \in Role /\ req[r].org \in orgs /\ req[r].org \in Org
      /\ UNCHANGED <<orgs, member, rows>>
  BY RequestFields DEF InviteInsert, Aims, Placed
<1>2. Moves(r) /\ req'[r] = Idle
  BY Finished DEF InviteInsert
<1> DEFINE v == [org |-> req[r].org, who |-> req[r].on, role |-> req[r].with, state |-> "pending"]
<1>3. v \in Invites /\ v.org = req[r].org /\ v.who = req[r].on /\ v.state = "pending"
  BY <1>1 DEF Invites
<1>4. \/ UNCHANGED <<invites, raced, barred>>
      \/ /\ \A i \in Offers(req[r].on) : invites[i].org # req[r].org
         /\ invites' = Append(invites, v)
         /\ raced' = raced \cup Races(r, req[r].org)
         /\ barred' = barred \ {req[r].on}
  BY DEF InviteInsert
<1> HIDE DEF v
<1>5. QED BY <1>1, <1>2, <1>3, <1>4

\* One invitation is revoked.
LEMMA Revoked ==
  ASSUME MembershipAssumption, TypeOK, Places, NEW r \in Request, NEW i, Revoke(r, i)
  PROVE  /\ Moves(r) /\ req'[r] = Idle /\ req[r].pc = "act"
         /\ i \in DOMAIN invites /\ invites[i].org = req[r].org
         /\ UNCHANGED <<orgs, member, rows, barred>>
         /\ raced' = raced \cup Races(r, req[r].org)
         /\ invites' = [invites EXCEPT ![i] = [@ EXCEPT !.state = "revoked"]]
BY Finished DEF Revoke, MayAdmin

\* An invitation whose state changes is otherwise the same.
LEMMA Restated ==
  ASSUME TypeOK, NEW i \in DOMAIN invites, NEW s \in {"claimed", "revoked"},
         invites' = [invites EXCEPT ![i] = [@ EXCEPT !.state = s]]
  PROVE  /\ invites' \in Seq(Invites) /\ DOMAIN invites' = DOMAIN invites
         /\ \A j \in DOMAIN invites : /\ invites'[j].org = invites[j].org
                                      /\ invites'[j].who = invites[j].who
                                      /\ j # i => invites'[j].state = invites[j].state
         /\ invites'[i].state = s
<1>1. invites[i] \in Invites /\ invites \in Seq(Invites)
  BY InviteFields DEF TypeOK
<1>2. PICK v \in Invites : /\ v = [invites[i] EXCEPT !.state = s] /\ v.state = s
                           /\ v.org = invites[i].org /\ v.who = invites[i].who
  BY <1>1 DEF Invites
<1>3. invites' = [invites EXCEPT ![i] = v]
  BY <1>2
<1>4. /\ DOMAIN invites' = DOMAIN invites /\ invites'[i] = v
      /\ \A j \in DOMAIN invites : j # i => invites'[j] = invites[j]
  BY <1>1, <1>3
<1>5. invites' \in Seq(Invites)
  BY <1>1, <1>2, <1>3
<1>6. QED BY <1>2, <1>4, <1>5

\* A new invitation comes last.
LEMMA Appended ==
  ASSUME TypeOK, NEW v \in Invites, invites' = Append(invites, v)
  PROVE  /\ invites' \in Seq(Invites) /\ DOMAIN invites \subseteq DOMAIN invites'
         /\ \A j \in DOMAIN invites : invites'[j] = invites[j]
         /\ \A j \in DOMAIN invites' : j \in DOMAIN invites \/ invites'[j] = v
         /\ \A j, k \in DOMAIN invites' : j \in DOMAIN invites \/ k \in DOMAIN invites \/ j = k
<1>1. invites \in Seq(Invites) /\ Len(invites) \in Nat
  BY DEF TypeOK
<1>2. /\ DOMAIN invites = 1 .. Len(invites) /\ DOMAIN invites' = 1 .. (Len(invites) + 1)
      /\ \A j \in 1 .. Len(invites) : invites'[j] = invites[j]
      /\ invites'[Len(invites) + 1] = v
      /\ invites' \in Seq(Invites)
  BY <1>1
<1>3. QED BY <1>1, <1>2

-----------------------------------------------------------------------------
(* Each part of the invariant, step by step.                               *)

\* A race is in the request's organisation, and only races are added.
LEMMA RaceOf ==
  ASSUME NEW r \in Request, NEW o
  PROVE  /\ Races(r, o) \subseteq {o}
         /\ \A q \in Request \ {r} : req[q].org = o => o \in Races(r, o)
BY DEF Races, Others

LEMMA PlacesStep ==
  ASSUME MembershipAssumption, TypeOK, Places, Aims, Claims, [Next]_vars
  PROVE  TypeOK' /\ Places'
<1>a. ASSUME NEW r \in Request, Moves(r),
             \/ req'[r] = Idle
             \/ /\ req'[r].pc \in InFlight /\ req'[r].who \in Person
                /\ req'[r].pc \in Placed => req'[r].org \in orgs',
             orgs \subseteq orgs', orgs' \subseteq Org, rows' \in Nat,
             member' \in [Person -> Rows \cup {NoRow}],
             \A p \in Person : member'[p] # NoRow =>
                member'[p].org \in orgs' /\ 0 < member'[p].id /\ member'[p].id <= rows',
             invites' \in Seq(Invites), \A i \in DOMAIN invites' : invites'[i].org \in orgs',
             requests' \in 0 .. MaxRequests, raced' \subseteq Org, barred' \subseteq Person
      PROVE  TypeOK' /\ Places'
  <2>1. \A q \in Request \ {r} : req'[q] = req[q]
    BY <1>a DEF Moves
  <2>2. \A q \in Request : req'[q] # Idle => req'[q].pc \in InFlight /\ req'[q].who \in Person
    BY <1>a, <2>1 DEF TypeOK
  <2>3. TypeOK'
    BY <1>a, <2>2 DEF TypeOK
  <2>4. Idle.pc = "idle" /\ "idle" \notin InFlight /\ "idle" \notin Placed
    BY Nobody DEF Placed
  <2>5. \A q \in Request : req'[q].pc = "idle" => req'[q] = Idle
    BY <2>2, <2>4
  <2>6. \A q \in Request : req'[q].pc \in Placed => req'[q].org \in orgs'
    BY <1>a, <2>1, <2>4 DEF Places
  <2>7. QED BY <1>a, <2>3, <2>5, <2>6 DEF Places, Moves
<1>b. \A p \in Person : member[p] # NoRow =>
         member[p].org \in orgs /\ 0 < member[p].id /\ member[p].id <= rows
  BY DEF Places
<1>c. /\ orgs \subseteq Org /\ rows \in Nat /\ member \in [Person -> Rows \cup {NoRow}]
      /\ invites \in Seq(Invites) /\ requests \in 0 .. MaxRequests
      /\ raced \subseteq Org /\ barred \subseteq Person
      /\ \A i \in DOMAIN invites : invites[i].org \in orgs
  BY DEF TypeOK, Places
<1>d. \A p \in Person : member[p].id \in Nat
  BY RowFields
<1>1. ASSUME NEW r \in Request, NEW p \in Person, SignIn(r, p) PROVE TypeOK' /\ Places'
  <2>1. requests' \in 0 .. MaxRequests
    BY <1>1, <1>c DEF SignIn, MembershipAssumption
  <2>2. Moves(r) /\ req'[r].pc = "member" /\ req'[r].who = p
        /\ UNCHANGED <<orgs, member, invites, rows, raced, barred>>
    BY <1>1, SignsIn
  <2>3. req'[r].pc \in InFlight /\ req'[r].pc \notin Placed
    BY <2>2 DEF InFlight, Placed
  <2>4. QED BY <1>a, <1>b, <1>c, <2>1, <2>2, <2>3
<1>2. ASSUME NEW r \in Request, FindMember(r) PROVE TypeOK' /\ Places'
  <2>1. /\ Moves(r) /\ req'[r].who \in Person
        /\ UNCHANGED <<orgs, invites, rows, raced, barred>>
        /\ member' \in [Person -> Rows \cup {NoRow}]
        /\ \A p \in Person : /\ member'[p].org = member[p].org
                             /\ member'[p].id = member[p].id
                             /\ member'[p] = NoRow <=> member[p] = NoRow
        /\ \/ req'[r].pc = "act" /\ \E p \in Person : member[p] # NoRow
                                                      /\ req'[r].org = member[p].org
           \/ req'[r].pc = "invite"
    BY <1>2, FindsMember
  <2>2. /\ req'[r].pc \in InFlight
        /\ req'[r].pc \in Placed => req'[r].org \in orgs
    BY <2>1, <1>b DEF InFlight, Placed
  <2>3. requests' = requests
    BY <1>2 DEF FindMember
  <2>4. \A p \in Person : member'[p] # NoRow =>
           member'[p].org \in orgs /\ 0 < member'[p].id /\ member'[p].id <= rows
    BY <1>b, <2>1
  <2>5. QED BY <1>a, <1>c, <2>1, <2>2, <2>3, <2>4
<1>3. ASSUME NEW r \in Request, FindInvite(r) PROVE TypeOK' /\ Places'
  <2>1. /\ Moves(r) /\ req'[r].who \in Person
        /\ UNCHANGED <<orgs, member, invites, rows, raced, barred>>
        /\ \/ req'[r].pc = "count"
           \/ req'[r].pc = "claim" /\ \E i \in DOMAIN invites : req'[r].org = invites[i].org
    BY <1>3, FindsInvite DEF Offers
  <2>2. /\ req'[r].pc \in InFlight
        /\ req'[r].pc \in Placed => req'[r].org \in orgs
    BY <2>1, <1>c DEF InFlight, Placed
  <2>3. requests' = requests
    BY <1>3 DEF FindInvite
  <2>4. QED BY <1>a, <1>b, <1>c, <2>1, <2>2, <2>3
<1>4. ASSUME NEW r \in Request, Claim(r) PROVE TypeOK' /\ Places'
  <2>1. /\ Moves(r) /\ req[r].who \in Person /\ req[r].pc = "claim"
        /\ req[r].id \in DOMAIN invites /\ UNCHANGED <<orgs, barred>>
    BY <1>4, Claimed
  <2>2. requests' = requests
    BY <1>4 DEF Claim
  <2>3. req[r].org \in orgs /\ req[r].org \in Org /\ invites[req[r].id].role \in Role
    BY <2>1, RequestFields, InviteFields DEF Placed
  <2>4. CASE req'[r] = Idle /\ UNCHANGED <<member, invites, rows, raced>>
    BY <1>a, <1>b, <1>c, <2>1, <2>2, <2>4
  <2>5. CASE /\ Joins(req[r].who, req[r].org, invites[req[r].id].role)
             /\ invites' = [invites EXCEPT ![req[r].id] = [@ EXCEPT !.state = "claimed"]]
             /\ raced' = raced \cup Races(r, req[r].org)
             /\ req'[r].pc = "act" /\ req'[r].who = req[r].who
             /\ req'[r].org = req[r].org
    <3>1. /\ rows' = rows + 1 /\ member' \in [Person -> Rows \cup {NoRow}]
          /\ \A q \in Person \ {req[r].who} : member'[q] = member[q]
          /\ member'[req[r].who].org = req[r].org /\ member'[req[r].who].id = rows + 1
      BY <2>1, <2>3, <2>5, Joined
    <3>2. /\ invites' \in Seq(Invites)
          /\ \A j \in DOMAIN invites' : j \in DOMAIN invites /\ invites'[j].org = invites[j].org
      BY <2>1, <2>5, Restated
    <3>3. \A p \in Person : member'[p] # NoRow =>
             member'[p].org \in orgs /\ 0 < member'[p].id /\ member'[p].id <= rows'
      BY <1>b, <1>c, <1>d, <2>3, <3>1
    <3>4. raced' \subseteq Org
      BY <1>c, <2>3, <2>5, RaceOf
    <3>5. req'[r].pc \in InFlight
      BY <2>5 DEF InFlight
    <3>6. rows' \in Nat /\ orgs' = orgs /\ barred' = barred
      BY <1>c, <2>1, <3>1
    <3>7. \A j \in DOMAIN invites' : invites'[j].org \in orgs
      BY <1>c, <3>2
    <3>8. QED BY <1>a, <1>c, <2>1, <2>2, <2>3, <2>5, <3>1, <3>2, <3>3, <3>4, <3>5, <3>6, <3>7
  <2>6. QED BY <1>4, <2>4, <2>5, Claimed
<1>5. ASSUME NEW r \in Request, CountOrgs(r) \/ Found(r) PROVE TypeOK' /\ Places'
  <2>1. /\ Moves(r) /\ req[r].who \in Person /\ UNCHANGED <<invites, raced, barred>>
    BY <1>5, Founding
  <2>2. requests' = requests
    BY <1>5 DEF CountOrgs, Found
  <2>3. CASE UNCHANGED <<orgs, member, rows>> /\
             (req'[r] = Idle \/ (req'[r].pc = "found" /\ req'[r].who = req[r].who))
    <3>1. req'[r] = Idle \/ (/\ req'[r].pc \in InFlight /\ req'[r].who \in Person
                             /\ req'[r].pc \notin Placed)
      BY <2>1, <2>3 DEF InFlight, Placed
    <3>2. QED BY <1>a, <1>b, <1>c, <2>1, <2>2, <2>3, <3>1
  <2>4. ASSUME NEW o \in Org \ orgs, orgs' = orgs \cup {o}, Joins(req[r].who, o, "admin"),
               req'[r].pc = "act", req'[r].who = req[r].who, req'[r].org = o
        PROVE  TypeOK' /\ Places'
    <3>1. /\ rows' = rows + 1 /\ member' \in [Person -> Rows \cup {NoRow}]
          /\ \A q \in Person \ {req[r].who} : member'[q] = member[q]
          /\ member'[req[r].who].org = o /\ member'[req[r].who].id = rows + 1
      BY <2>1, <2>4, Joined, Nobody
    <3>2. \A p \in Person : member'[p] # NoRow =>
             member'[p].org \in orgs' /\ 0 < member'[p].id /\ member'[p].id <= rows'
      BY <1>b, <1>c, <1>d, <2>4, <3>1
    <3>3. req'[r].pc \in InFlight /\ rows' \in Nat /\ orgs' \subseteq Org /\ orgs \subseteq orgs'
          /\ req'[r].org \in orgs'
      BY <1>c, <2>4, <3>1 DEF InFlight
    <3>4. \A i \in DOMAIN invites' : invites'[i].org \in orgs'
      BY <1>c, <2>1, <3>3
    <3>5. QED BY <1>a, <1>c, <2>1, <2>2, <2>4, <3>1, <3>2, <3>3, <3>4
  <2>5. QED BY <1>5, <2>3, <2>4, Founding
<1>6. ASSUME NEW r \in Request, Leave(r) PROVE TypeOK' /\ Places'
  <2>1. Moves(r) /\ req'[r] = Idle
        /\ UNCHANGED <<orgs, member, invites, requests, rows, raced, barred>>
    BY <1>6, Finished DEF Leave
  <2>2. QED BY <1>a, <1>b, <1>c, <2>1
<1>7. ASSUME NEW r \in Request, NEW p \in Person, NEW role \in Role,
             RemoveCheck(r, p) \/ InviteCheck(r, p, role)
      PROVE  TypeOK' /\ Places'
  <2>1. /\ Moves(r) /\ req'[r].who = req[r].who /\ req[r].pc = "act"
        /\ req'[r].org = req[r].org /\ req[r].org \in orgs
        /\ UNCHANGED <<orgs, member, invites, rows, raced, barred>>
        /\ req'[r].pc \in {"remove", "insert"}
    BY <1>7, Checked
  <2>2. req[r].who \in Person
    BY <2>1, RequestFields
  <2>3. req'[r].pc \in InFlight
    BY <2>1 DEF InFlight
  <2>4. requests' = requests
    BY <1>7 DEF RemoveCheck, InviteCheck
  <2>5. QED BY <1>a, <1>b, <1>c, <2>1, <2>2, <2>3, <2>4
<1>8. ASSUME NEW r \in Request, NEW p \in Person, NEW role \in Role, UpdateRole(r, p, role)
      PROVE  TypeOK' /\ Places'
  <2>1. /\ Moves(r) /\ req'[r] = Idle /\ req[r].pc = "act" /\ req[r].org \in orgs
        /\ UNCHANGED <<orgs, invites, rows, barred>>
        /\ raced' = raced \cup Races(r, req[r].org)
        /\ member' \in [Person -> Rows \cup {NoRow}] /\ member[p] # NoRow
        /\ \A q \in Person \ {p} : member'[q] = member[q]
        /\ member'[p].org = member[p].org /\ member'[p].id = member[p].id
    BY <1>8, RoleChanged
  <2>2. requests' = requests
    BY <1>8 DEF UpdateRole
  <2>3. raced' \subseteq Org
    BY <1>c, <2>1, RaceOf
  <2>4. \A q \in Person : member'[q] # NoRow =>
           member'[q].org \in orgs /\ 0 < member'[q].id /\ member'[q].id <= rows
    BY <1>b, <2>1
  <2>5. QED BY <1>a, <1>c, <2>1, <2>2, <2>3, <2>4
<1>9. ASSUME NEW r \in Request, RemoveDelete(r) PROVE TypeOK' /\ Places'
  <2>1. /\ Moves(r) /\ req'[r] = Idle /\ req[r].org \in orgs /\ req[r].on \in Person
        /\ UNCHANGED <<orgs, invites, rows>>
        /\ raced' = raced \cup Races(r, req[r].org)
        /\ member' \in [Person -> Rows \cup {NoRow}]
        /\ \A q \in Person \ {req[r].on} : member'[q] = member[q]
        /\ member' = member \/ member'[req[r].on] = NoRow
        /\ barred' \subseteq barred \cup {req[r].on}
    BY <1>9, Removed
  <2>2. requests' = requests
    BY <1>9 DEF RemoveDelete
  <2>3. raced' \subseteq Org /\ barred' \subseteq Person
    BY <1>c, <2>1, RaceOf
  <2>4. \A q \in Person : member'[q] # NoRow =>
           member'[q].org \in orgs /\ 0 < member'[q].id /\ member'[q].id <= rows
    BY <1>b, <2>1
  <2>5. QED BY <1>a, <1>c, <2>1, <2>2, <2>3, <2>4
<1>10. ASSUME NEW r \in Request, InviteInsert(r) PROVE TypeOK' /\ Places'
  <2>1. /\ Moves(r) /\ req'[r] = Idle /\ req[r].org \in orgs
        /\ UNCHANGED <<orgs, member, rows>>
        /\ \/ UNCHANGED <<invites, raced, barred>>
           \/ /\ raced' = raced \cup Races(r, req[r].org) /\ barred' \subseteq barred
              /\ \E v \in Invites : v.org = req[r].org /\ invites' = Append(invites, v)
    BY <1>10, Inserted
  <2>2. requests' = requests
    BY <1>10 DEF InviteInsert
  <2>3. raced' \subseteq Org /\ barred' \subseteq Person
    BY <1>c, <2>1, RaceOf
  <2>4. ASSUME NEW v \in Invites, v.org = req[r].org, invites' = Append(invites, v)
        PROVE  invites' \in Seq(Invites) /\ \A i \in DOMAIN invites' : invites'[i].org \in orgs
    BY <1>c, <2>1, <2>4, Appended
  <2>5. invites' \in Seq(Invites) /\ \A i \in DOMAIN invites' : invites'[i].org \in orgs
    BY <1>c, <2>1, <2>4
  <2>6. QED BY <1>a, <1>b, <1>c, <2>1, <2>2, <2>3, <2>5
<1>11. ASSUME NEW r \in Request, NEW i \in 1 .. MaxInvites, Revoke(r, i)
       PROVE  TypeOK' /\ Places'
  <2>1. /\ Moves(r) /\ req'[r] = Idle /\ req[r].pc = "act" /\ i \in DOMAIN invites
        /\ UNCHANGED <<orgs, member, rows, barred>>
        /\ raced' = raced \cup Races(r, req[r].org)
        /\ invites' = [invites EXCEPT ![i] = [@ EXCEPT !.state = "revoked"]]
    BY <1>11, Revoked
  <2>2. requests' = requests
    BY <1>11 DEF Revoke
  <2>3. req[r].org \in Org
    BY <2>1, RequestFields DEF Placed
  <2>4. raced' \subseteq Org
    BY <1>c, <2>1, <2>3, RaceOf
  <2>5. /\ invites' \in Seq(Invites)
        /\ \A j \in DOMAIN invites' : j \in DOMAIN invites /\ invites'[j].org = invites[j].org
    BY <2>1, Restated
  <2>6. \A j \in DOMAIN invites' : invites'[j].org \in orgs
    BY <1>c, <2>5
  <2>7. QED BY <1>a, <1>b, <1>c, <2>1, <2>2, <2>4, <2>5, <2>6
<1>12. CASE UNCHANGED vars
  BY <1>12 DEF vars, TypeOK, Places
<1>13. QED BY <1>1, <1>2, <1>3, <1>4, <1>5, <1>6, <1>7, <1>8, <1>9, <1>10, <1>11, <1>12,
              Nobody DEF Next

\* What a step does to the rows of members: a row stays in its organisation under
\* its number, or it is deleted, or it is new and has a new number.
LEMMA RowsStep ==
  ASSUME MembershipAssumption, TypeOK, Places, Aims, Claims, [Next]_vars
  PROVE  /\ rows' \in Nat /\ rows <= rows'
         /\ \A p \in Person : \/ member'[p].id = member[p].id /\ member'[p].org = member[p].org
                              \/ member'[p].id = 0
                              \/ member'[p].id > rows
<1> DEFINE Goal == /\ rows' \in Nat /\ rows <= rows'
                   /\ \A p \in Person :
                         \/ member'[p].id = member[p].id /\ member'[p].org = member[p].org
                         \/ member'[p].id = 0
                         \/ member'[p].id > rows
<1>1. rows \in Nat /\ \A p \in Person : member[p].id \in Nat
  BY RowFields DEF TypeOK
<1>2. ASSUME UNCHANGED <<member, rows>> PROVE Goal
  BY <1>1, <1>2
<1>3. ASSUME NEW r \in Request, FindMember(r) PROVE Goal
  BY <1>1, <1>3, FindsMember
<1>4. ASSUME NEW p \in Person, NEW o \in Org, NEW role \in Role, Joins(p, o, role) PROVE Goal
  <2>1. /\ rows' = rows + 1 /\ \A q \in Person \ {p} : member'[q] = member[q]
        /\ member'[p].id = rows + 1
    BY <1>4, Joined
  <2>2. QED BY <1>1, <2>1
<1>5. ASSUME NEW r \in Request, Claim(r) PROVE Goal
  <2>1. CASE UNCHANGED <<member, rows>>
    BY <1>2, <2>1
  <2>2. CASE Joins(req[r].who, req[r].org, invites[req[r].id].role)
    <3>1. req[r].pc = "claim" /\ req[r].who \in Person /\ req[r].id \in DOMAIN invites
      BY <1>5, Claimed
    <3>2. req[r].org \in Org /\ invites[req[r].id].role \in Role
      BY <3>1, RequestFields, InviteFields DEF Placed
    <3>3. QED BY <1>4, <2>2, <3>1, <3>2
  <2>3. QED BY <1>5, <2>1, <2>2, Claimed
<1>6. ASSUME NEW r \in Request, CountOrgs(r) \/ Found(r) PROVE Goal
  <2>1. req[r].who \in Person /\ "admin" \in Role
    BY <1>6, Founding, Nobody
  <2>2. UNCHANGED <<member, rows>> \/ \E o \in Org : Joins(req[r].who, o, "admin")
    BY <1>6, Founding
  <2>3. QED BY <1>2, <1>4, <2>1, <2>2
<1>7. ASSUME NEW r \in Request, NEW p \in Person, NEW role \in Role, UpdateRole(r, p, role)
      PROVE  Goal
  <2>1. /\ rows' = rows /\ \A q \in Person \ {p} : member'[q] = member[q]
        /\ member'[p].org = member[p].org /\ member'[p].id = member[p].id
    BY <1>7, RoleChanged
  <2>2. QED BY <1>1, <2>1
<1>8. ASSUME NEW r \in Request, RemoveDelete(r) PROVE Goal
  <2>1. /\ rows' = rows /\ \A q \in Person \ {req[r].on} : member'[q] = member[q]
        /\ member' = member \/ member'[req[r].on] = NoRow
    BY <1>8, Removed
  <2>2. \A q \in Person : member'[q] = member[q] \/ member'[q].id = 0
    BY <2>1, Nobody
  <2>3. QED BY <1>1, <2>1, <2>2
<1>9. QED BY <1>2, <1>3, <1>5, <1>6, <1>7, <1>8, Nobody
      DEF Next, vars, SignIn, FindInvite, Leave, RemoveCheck, InviteCheck, InviteInsert, Revoke

\* What somebody has in mind stays a row of the organisation or nobody's.
LEMMA AimsStep ==
  ASSUME MembershipAssumption, TypeOK, Places, Aims, Claims, [Next]_vars
  PROVE  Aims'
<1>r. /\ rows \in Nat /\ rows' \in Nat /\ rows <= rows'
      /\ \A p \in Person : \/ member'[p].id = member[p].id /\ member'[p].org = member[p].org
                           \/ member'[p].id = 0
                           \/ member'[p].id > rows
  BY RowsStep DEF TypeOK
\* Of those that do not move.
<1>q. ASSUME NEW q \in Request, req'[q] = req[q]
      PROVE  /\ req'[q].pc \in {"remove", "insert"} =>
                   req'[q].role = "admin" /\ req'[q].on \in Person
             /\ req'[q].pc = "insert" => req'[q].with \in Role
             /\ req'[q].pc = "remove" =>
                   /\ req'[q].on # req'[q].who /\ 0 < req'[q].id /\ req'[q].id <= rows'
                   /\ member'[req'[q].on].id = req'[q].id =>
                         member'[req'[q].on].org = req'[q].org
  <2>1. req[q].id \in Nat
    BY RequestFields
  <2>2. \A n \in Nat : n <= rows => n <= rows' /\ ~ (n > rows)
    BY <1>r
  <2>3. CASE req[q].pc = "remove"
    <3>1. /\ req[q].role = "admin" /\ req[q].on \in Person /\ req[q].on # req[q].who
          /\ 0 < req[q].id /\ req[q].id <= rows
          /\ member[req[q].on].id = req[q].id => member[req[q].on].org = req[q].org
      BY <2>3 DEF Aims
    <3>2. member'[req[q].on].id = req[q].id => member'[req[q].on].org = req[q].org
      BY <1>r, <2>1, <2>2, <3>1
    <3>3. QED BY <1>q, <2>1, <2>2, <2>3, <3>1, <3>2
  <2>4. CASE req[q].pc # "remove"
    BY <1>q, <2>4 DEF Aims
  <2>5. QED BY <2>3, <2>4
<1>a. ASSUME NEW r \in Request, Moves(r), req'[r].pc \notin {"remove", "insert"}
      PROVE  Aims'
  <2>1. \A q \in Request \ {r} : req'[q] = req[q]
    BY <1>a DEF Moves
  <2>2. QED BY <1>a, <1>q, <2>1 DEF Aims
<1>b. Idle.pc = "idle"
  BY Nobody
<1>1. ASSUME NEW r \in Request, NEW p \in Person, SignIn(r, p) PROVE Aims'
  BY <1>1, <1>a, SignsIn
<1>2. ASSUME NEW r \in Request, FindMember(r) PROVE Aims'
  BY <1>2, <1>a, FindsMember
<1>3. ASSUME NEW r \in Request, FindInvite(r) PROVE Aims'
  BY <1>3, <1>a, FindsInvite
<1>4. ASSUME NEW r \in Request, Claim(r) PROVE Aims'
  BY <1>4, <1>a, <1>b, Claimed
<1>5. ASSUME NEW r \in Request, CountOrgs(r) \/ Found(r) PROVE Aims'
  BY <1>5, <1>a, <1>b, Founding
<1>6. ASSUME NEW r \in Request, Leave(r) PROVE Aims'
  BY <1>6, <1>a, <1>b, Finished DEF Leave
<1>7. ASSUME NEW r \in Request, NEW p \in Person, NEW role \in Role,
             RemoveCheck(r, p) \/ InviteCheck(r, p, role)
      PROVE  Aims'
  <2>1. /\ \A q \in Request \ {r} : req'[q] = req[q]
        /\ req'[r].role = "admin" /\ req'[r].on = p /\ req'[r].who = req[r].who
        /\ req'[r].org = req[r].org /\ req[r].org \in orgs
        /\ UNCHANGED <<orgs, member, rows>>
        /\ \/ /\ req'[r].pc = "remove" /\ req'[r].id = member[p].id
              /\ p # req[r].who /\ member[p].org = req[r].org
           \/ req'[r].pc = "insert" /\ req'[r].with = role
    BY <1>7, Checked DEF Moves
  <2>2. orgs \subseteq Org
    BY DEF TypeOK
  <2>3. member[p].org = req[r].org => member[p] # NoRow
    BY <2>1, <2>2, Nobody
  <2>4. member[p].org = req[r].org => 0 < member[p].id /\ member[p].id <= rows
    BY <2>3, RowFields
  <2>5. QED BY <1>q, <2>1, <2>4 DEF Aims
<1>8. ASSUME NEW r \in Request, NEW p \in Person, NEW role \in Role, UpdateRole(r, p, role)
      PROVE  Aims'
  BY <1>8, <1>a, <1>b, RoleChanged
<1>9. ASSUME NEW r \in Request, RemoveDelete(r) PROVE Aims'
  BY <1>9, <1>a, <1>b, Removed
<1>10. ASSUME NEW r \in Request, InviteInsert(r) PROVE Aims'
  BY <1>10, <1>a, <1>b, Inserted
<1>11. ASSUME NEW r \in Request, NEW i \in 1 .. MaxInvites, Revoke(r, i) PROVE Aims'
  BY <1>11, <1>a, <1>b, Revoked
<1>12. CASE UNCHANGED vars
  BY <1>12, <1>q DEF vars, Aims
<1>13. QED BY <1>1, <1>2, <1>3, <1>4, <1>5, <1>6, <1>7, <1>8, <1>9, <1>10, <1>11, <1>12,
              Nobody DEF Next

\* An invitation changes under a claimant's hands only by a race.
LEMMA ClaimsStep ==
  ASSUME MembershipAssumption, TypeOK, Places, Aims, Claims, [Next]_vars
  PROVE  Claims'
<1>a. ASSUME NEW r \in Request, Moves(r), raced \subseteq raced',
             DOMAIN invites \subseteq DOMAIN invites',
             \A i \in DOMAIN invites :
                /\ invites'[i].org = invites[i].org /\ invites'[i].who = invites[i].who
                /\ \/ invites'[i].state = invites[i].state
                   \/ \A q \in Request \ {r} :
                         req[q].org = invites[i].org => req[q].org \in raced',
             \/ req'[r].pc # "claim"
             \/ invites' = invites /\ req'[r].id \in Offers(req'[r].who)
                /\ req'[r].org = invites[req'[r].id].org
      PROVE  Claims'
  <2>1. ASSUME NEW q \in Request \ {r}, req'[q].pc = "claim"
        PROVE  /\ req'[q].id \in DOMAIN invites'
               /\ invites'[req'[q].id].who = req'[q].who
               /\ invites'[req'[q].id].org = req'[q].org
               /\ invites'[req'[q].id].state = "pending" \/ req'[q].org \in raced'
    <3>1. req'[q] = req[q]
      BY <1>a DEF Moves
    <3>2. /\ req[q].id \in DOMAIN invites
          /\ invites[req[q].id].who = req[q].who /\ invites[req[q].id].org = req[q].org
          /\ invites[req[q].id].state = "pending" \/ req[q].org \in raced
      BY <2>1, <3>1 DEF Claims
    <3>3. QED BY <1>a, <3>1, <3>2
  <2>2. ASSUME req'[r].pc = "claim"
        PROVE  /\ req'[r].id \in DOMAIN invites'
               /\ invites'[req'[r].id].who = req'[r].who
               /\ invites'[req'[r].id].org = req'[r].org
               /\ invites'[req'[r].id].state = "pending"
    BY <1>a, <2>2 DEF Offers
  <2>3. QED BY <2>1, <2>2 DEF Claims
<1>b. ASSUME NEW r \in Request, Moves(r), raced \subseteq raced', invites' = invites,
             req'[r].pc # "claim"
      PROVE  Claims'
  BY <1>a, <1>b
<1>c. Idle.pc = "idle"
  BY Nobody
<1>1. ASSUME NEW r \in Request, NEW p \in Person, SignIn(r, p) PROVE Claims'
  BY <1>1, <1>b, SignsIn
<1>2. ASSUME NEW r \in Request, FindMember(r) PROVE Claims'
  BY <1>2, <1>b, FindsMember
<1>3. ASSUME NEW r \in Request, FindInvite(r) PROVE Claims'
  <2>1. /\ Moves(r) /\ req'[r].who = req[r].who /\ invites' = invites /\ raced' = raced
        /\ \/ req'[r].pc = "count"
           \/ req'[r].id \in Offers(req[r].who) /\ req'[r].org = invites[req'[r].id].org
    BY <1>3, FindsInvite
  <2>2. QED BY <1>a, <2>1
<1>4. ASSUME NEW r \in Request, Claim(r) PROVE Claims'
  <2>1. /\ Moves(r) /\ req[r].pc = "claim" /\ req[r].id \in DOMAIN invites
        /\ \/ req'[r] = Idle /\ UNCHANGED <<invites, raced>>
           \/ /\ invites' = [invites EXCEPT ![req[r].id] = [@ EXCEPT !.state = "claimed"]]
              /\ raced' = raced \cup Races(r, req[r].org) /\ req'[r].pc = "act"
    BY <1>4, Claimed
  <2>2. CASE req'[r] = Idle /\ UNCHANGED <<invites, raced>>
    BY <1>b, <1>c, <2>1, <2>2
  <2>3. CASE /\ invites' = [invites EXCEPT ![req[r].id] = [@ EXCEPT !.state = "claimed"]]
             /\ raced' = raced \cup Races(r, req[r].org) /\ req'[r].pc = "act"
    <3>1. /\ DOMAIN invites' = DOMAIN invites
          /\ \A j \in DOMAIN invites :
                /\ invites'[j].org = invites[j].org /\ invites'[j].who = invites[j].who
                /\ j # req[r].id => invites'[j].state = invites[j].state
      BY <2>1, <2>3, Restated
    <3>2. invites[req[r].id].org = req[r].org
      BY <2>1 DEF Claims
    <3>3. \A q \in Request \ {r} : req[q].org = req[r].org => req[q].org \in raced'
      BY <2>3, RaceOf
    <3>4. QED BY <1>a, <2>1, <2>3, <3>1, <3>2, <3>3
  <2>4. QED BY <2>1, <2>2, <2>3
<1>5. ASSUME NEW r \in Request, CountOrgs(r) \/ Found(r) PROVE Claims'
  BY <1>5, <1>b, <1>c, Founding
<1>6. ASSUME NEW r \in Request, Leave(r) PROVE Claims'
  BY <1>6, <1>b, <1>c, Finished DEF Leave
<1>7. ASSUME NEW r \in Request, NEW p \in Person, NEW role \in Role,
             RemoveCheck(r, p) \/ InviteCheck(r, p, role)
      PROVE  Claims'
  BY <1>7, <1>b, Checked
<1>8. ASSUME NEW r \in Request, NEW p \in Person, NEW role \in Role, UpdateRole(r, p, role)
      PROVE  Claims'
  BY <1>8, <1>b, <1>c, RoleChanged
<1>9. ASSUME NEW r \in Request, RemoveDelete(r) PROVE Claims'
  BY <1>9, <1>b, <1>c, Removed
<1>10. ASSUME NEW r \in Request, InviteInsert(r) PROVE Claims'
  <2>1. /\ Moves(r) /\ req'[r] = Idle
        /\ \/ UNCHANGED <<invites, raced>>
           \/ raced \subseteq raced' /\ \E v \in Invites : invites' = Append(invites, v)
    BY <1>10, Inserted
  <2>2. ASSUME NEW v \in Invites, invites' = Append(invites, v), raced \subseteq raced'
        PROVE  Claims'
    <3>1. /\ DOMAIN invites \subseteq DOMAIN invites'
          /\ \A j \in DOMAIN invites : invites'[j] = invites[j]
      BY <2>2, Appended
    <3>2. QED BY <1>a, <1>c, <2>1, <2>2, <3>1
  <2>3. QED BY <1>b, <1>c, <2>1, <2>2
<1>11. ASSUME NEW r \in Request, NEW i \in 1 .. MaxInvites, Revoke(r, i) PROVE Claims'
  <2>1. /\ Moves(r) /\ req'[r] = Idle /\ i \in DOMAIN invites /\ invites[i].org = req[r].org
        /\ raced' = raced \cup Races(r, req[r].org)
        /\ invites' = [invites EXCEPT ![i] = [@ EXCEPT !.state = "revoked"]]
    BY <1>11, Revoked
  <2>2. /\ DOMAIN invites' = DOMAIN invites
        /\ \A j \in DOMAIN invites :
              /\ invites'[j].org = invites[j].org /\ invites'[j].who = invites[j].who
              /\ j # i => invites'[j].state = invites[j].state
    BY <2>1, Restated
  <2>3. \A q \in Request \ {r} : req[q].org = req[r].org => req[q].org \in raced'
    BY <2>1, RaceOf
  <2>4. QED BY <1>a, <1>c, <2>1, <2>2, <2>3
<1>12. CASE UNCHANGED vars
  BY <1>12 DEF vars, Claims
<1>13. QED BY <1>1, <1>2, <1>3, <1>4, <1>5, <1>6, <1>7, <1>8, <1>9, <1>10, <1>11, <1>12,
              Nobody DEF Next

\* Who acts as an administrator loses that only by a race; and so the last one of
\* an organisation stays, since nobody removes or demotes himself.
LEMMA RuledStep ==
  ASSUME MembershipAssumption, TypeOK, Places, Aims, Claims, Ruled, AdminsRemain, [Next]_vars
  PROVE  Ruled' /\ AdminsRemain'
<1>f. /\ \A p \in Person : /\ member[p] = NoRow => member[p].role = "none" /\ member[p].org = "none"
                           /\ member[p].org \in Org => member[p] # NoRow
      /\ Idle.pc \notin Admitted /\ "none" \notin Org
      /\ orgs \subseteq Org
  BY RowFields, Nobody DEF Admitted, TypeOK
<1>w. \A q \in Request : req[q].pc \in Admitted => req[q].who \in Person /\ req[q].org \in Org
  BY RequestFields DEF Admitted, Placed
<1>a. ASSUME NEW r \in Request, Moves(r), raced \subseteq raced',
             \A p \in Person : \/ member'[p].org = member[p].org /\ member'[p].role = member[p].role
                               \/ member[p].role # "admin" \/ member[p].org \notin Org
                               \/ \A q \in Request \ {r} :
                                     req[q].org = member[p].org => req[q].org \in raced',
             \/ req'[r].pc \notin Admitted \/ req'[r].role # "admin" \/ req'[r].org \in raced'
             \/ /\ req'[r].who \in Person /\ member'[req'[r].who].org = req'[r].org
                /\ member'[req'[r].who].role = "admin"
      PROVE  Ruled'
  <2>1. ASSUME NEW q \in Request \ {r}, req'[q].pc \in Admitted, req'[q].role = "admin",
               req'[q].org \notin raced'
        PROVE  /\ req'[q].who \in Person /\ member'[req'[q].who].org = req'[q].org
               /\ member'[req'[q].who].role = "admin"
    <3>1. req'[q] = req[q]
      BY <1>a DEF Moves
    <3>2. /\ req[q].who \in Person /\ req[q].org \in Org /\ member[req[q].who].org = req[q].org
          /\ member[req[q].who].role = "admin"
      BY <1>a, <1>w, <2>1, <3>1 DEF Ruled, Admins, Members
    <3>3. QED BY <1>a, <2>1, <3>1, <3>2
  <2>2. QED BY <1>a, <2>1 DEF Ruled, Admins, Members
<1>b. ASSUME raced \subseteq raced', orgs' = orgs,
             \A o \in orgs \ raced' : \A p \in Person :
                member[p].org = o /\ member[p].role = "admin" =>
                   \E x \in Person : member'[x].org = o /\ member'[x].role = "admin"
      PROVE  AdminsRemain'
  <2>1. \A o \in orgs \ raced' : \E p \in Person : member[p].org = o /\ member[p].role = "admin"
    BY <1>b DEF AdminsRemain, Admins, Members
  <2>2. \A o \in orgs \ raced' : \E x \in Person : member'[x].org = o /\ member'[x].role = "admin"
    BY <1>b, <2>1
  <2>3. QED BY <1>b, <2>2 DEF AdminsRemain, Admins, Members
\* Steps that leave the members their organisations and roles.
<1>c. ASSUME NEW r \in Request, Moves(r), raced \subseteq raced', orgs' = orgs,
             \A p \in Person : member'[p].org = member[p].org /\ member'[p].role = member[p].role,
             \/ req'[r].pc \notin Admitted \/ req'[r].role # "admin" \/ req'[r].org \in raced'
             \/ /\ req'[r].who \in Person /\ member'[req'[r].who].org = req'[r].org
                /\ member'[req'[r].who].role = "admin"
      PROVE  Ruled' /\ AdminsRemain'
  BY <1>a, <1>b, <1>c
\* Somebody joins.
<1>d. ASSUME NEW r \in Request, Moves(r), raced \subseteq raced', req[r].who \in Person,
             member[req[r].who] = NoRow, NEW o \in Org, NEW role \in Role,
             Joins(req[r].who, o, role), req'[r].who = req[r].who, req'[r].org = o,
             req'[r].role = role
      PROVE  /\ Ruled'
             /\ orgs' = orgs => AdminsRemain'
             /\ orgs' = orgs \cup {o} /\ role = "admin" => AdminsRemain'
  <2>1. /\ \A q \in Person \ {req[r].who} : member'[q] = member[q]
        /\ member'[req[r].who].org = o /\ member'[req[r].who].role = role
    BY <1>d, Joined
  <2>2. member[req[r].who].role # "admin" /\ member[req[r].who].org \notin Org
    BY <1>d, <1>f
  <2>3. Ruled'
    BY <1>a, <1>d, <2>1, <2>2
  <2>4. \A p \in Person : \A x \in orgs : member[p].org = x /\ member[p].role = "admin" =>
                             member'[p].org = x /\ member'[p].role = "admin"
    BY <2>1, <2>2
  <2>5. orgs' = orgs => AdminsRemain'
    BY <1>b, <1>d, <2>4
  <2>6. ASSUME orgs' = orgs \cup {o}, role = "admin" PROVE AdminsRemain'
    <3>1. \A x \in orgs \ raced' : \E p \in Person : member[p].org = x /\ member[p].role = "admin"
      BY <1>d DEF AdminsRemain, Admins, Members
    <3>2. \A x \in orgs \ raced' : \E p \in Person : member'[p].org = x /\ member'[p].role = "admin"
      BY <2>4, <3>1
    <3>3. \E p \in Person : member'[p].org = o /\ member'[p].role = "admin"
      BY <1>d, <2>1, <2>6
    <3>4. QED BY <2>6, <3>2, <3>3 DEF AdminsRemain, Admins, Members
  <2>7. QED BY <2>3, <2>5, <2>6
\* An administrator demotes or removes somebody else of the organisation.
<1>e. ASSUME NEW r \in Request, Moves(r), req'[r] = Idle, req[r].pc \in Admitted,
             req[r].role = "admin", raced' = raced \cup Races(r, req[r].org), orgs' = orgs,
             NEW p \in Person, p # req[r].who, member[p].org = req[r].org,
             \A q \in Person \ {p} : member'[q] = member[q]
      PROVE  Ruled' /\ AdminsRemain'
  <2>1. \A q \in Request \ {r} : req[q].org = member[p].org => req[q].org \in raced'
    BY <1>e, RaceOf
  <2>2. Ruled'
    BY <1>a, <1>e, <1>f, <2>1
  <2>3. req[r].who \in Person
    BY <1>e, <1>w
  <2>4. req[r].org \notin raced' =>
           member'[req[r].who].org = req[r].org /\ member'[req[r].who].role = "admin"
    BY <1>e, <2>3 DEF Ruled, Admins, Members
  <2>5. AdminsRemain'
    BY <1>b, <1>e, <2>3, <2>4
  <2>6. QED BY <2>2, <2>5
<1>1. ASSUME NEW r \in Request, NEW p \in Person, SignIn(r, p) PROVE Ruled' /\ AdminsRemain'
  <2>1. Moves(r) /\ req'[r].pc = "member" /\ UNCHANGED <<orgs, member, raced>>
    BY <1>1, SignsIn
  <2>2. QED BY <1>c, <2>1 DEF Admitted
<1>2. ASSUME NEW r \in Request, FindMember(r) PROVE Ruled' /\ AdminsRemain'
  <2>1. /\ Moves(r) /\ req[r].who \in Person /\ req'[r].who = req[r].who
        /\ UNCHANGED <<orgs, raced>>
        /\ \A p \in Person : member'[p].org = member[p].org /\ member'[p].role = member[p].role
        /\ \/ /\ req'[r].pc = "act" /\ req'[r].org = member[req[r].who].org
              /\ req'[r].role = member[req[r].who].role
           \/ req'[r].pc = "invite"
    BY <1>2, FindsMember
  <2>2. QED BY <1>c, <2>1 DEF Admitted
<1>3. ASSUME NEW r \in Request, FindInvite(r) PROVE Ruled' /\ AdminsRemain'
  <2>1. Moves(r) /\ req'[r].pc \in {"count", "claim"} /\ UNCHANGED <<orgs, member, raced>>
    BY <1>3, FindsInvite
  <2>2. QED BY <1>c, <2>1 DEF Admitted
<1>4. ASSUME NEW r \in Request, Claim(r) PROVE Ruled' /\ AdminsRemain'
  <2>1. Moves(r) /\ req[r].pc = "claim" /\ req[r].who \in Person /\ req[r].id \in DOMAIN invites
        /\ orgs' = orgs
    BY <1>4, Claimed
  <2>2. CASE req'[r] = Idle /\ UNCHANGED <<member, raced>>
    BY <1>c, <1>f, <2>1, <2>2
  <2>3. CASE /\ member[req[r].who] = NoRow
             /\ Joins(req[r].who, req[r].org, invites[req[r].id].role)
             /\ raced' = raced \cup Races(r, req[r].org)
             /\ req'[r].who = req[r].who
             /\ req'[r].org = req[r].org /\ req'[r].role = invites[req[r].id].role
    <3>1. req[r].org \in Org /\ invites[req[r].id].role \in Role
      BY <2>1, RequestFields, InviteFields DEF Placed
    <3>2. QED BY <1>d, <2>1, <2>3, <3>1
  <2>4. QED BY <1>4, <2>2, <2>3, Claimed
<1>5. ASSUME NEW r \in Request, CountOrgs(r) \/ Found(r) PROVE Ruled' /\ AdminsRemain'
  <2>1. Moves(r) /\ req[r].who \in Person /\ raced' = raced /\ "admin" \in Role
    BY <1>5, Founding, Nobody
  <2>2. CASE UNCHANGED <<orgs, member>> /\ (req'[r] = Idle \/ req'[r].pc = "found")
    <3>1. req'[r].pc \notin Admitted
      BY <1>f, <2>2 DEF Admitted
    <3>2. QED BY <1>c, <2>1, <2>2, <3>1
  <2>3. ASSUME member[req[r].who] = NoRow, NEW o \in Org \ orgs, orgs' = orgs \cup {o},
               Joins(req[r].who, o, "admin"), req'[r].who = req[r].who, req'[r].org = o,
               req'[r].role = "admin"
        PROVE  Ruled' /\ AdminsRemain'
    BY <1>d, <2>1, <2>3
  <2>4. QED BY <1>5, <2>2, <2>3, Founding
<1>6. ASSUME NEW r \in Request, Leave(r) PROVE Ruled' /\ AdminsRemain'
  <2>1. Moves(r) /\ req'[r] = Idle /\ UNCHANGED <<orgs, member, raced>>
    BY <1>6, Finished DEF Leave
  <2>2. QED BY <1>c, <1>f, <2>1
<1>7. ASSUME NEW r \in Request, NEW p \in Person, NEW role \in Role,
             RemoveCheck(r, p) \/ InviteCheck(r, p, role)
      PROVE  Ruled' /\ AdminsRemain'
  <2>1. /\ Moves(r) /\ req[r].pc = "act" /\ req[r].role = "admin"
        /\ req'[r].who = req[r].who /\ req'[r].org = req[r].org
        /\ UNCHANGED <<orgs, member, raced>>
    BY <1>7, Checked
  <2>2. \/ req'[r].org \in raced'
        \/ /\ req'[r].who \in Person /\ member'[req'[r].who].org = req'[r].org
           /\ member'[req'[r].who].role = "admin"
    BY <1>w, <2>1 DEF Ruled, Admins, Members, Admitted
  <2>3. QED BY <1>c, <2>1, <2>2
<1>8. ASSUME NEW r \in Request, NEW p \in Person, NEW role \in Role, UpdateRole(r, p, role)
      PROVE  Ruled' /\ AdminsRemain'
  <2>1. /\ Moves(r) /\ req'[r] = Idle /\ req[r].pc = "act" /\ req[r].role = "admin"
        /\ member[p].org = req[r].org
        /\ p # req[r].who \/ role = "admin"
        /\ orgs' = orgs /\ raced' = raced \cup Races(r, req[r].org)
        /\ \A q \in Person \ {p} : member'[q] = member[q]
        /\ member'[p].org = member[p].org /\ member'[p].role = role
    BY <1>8, RoleChanged
  <2>2. CASE p # req[r].who
    BY <1>e, <2>1, <2>2 DEF Admitted
  <2>3. CASE role = "admin"
    <3>1. Ruled'
      <4>1. \A x \in Person : \/ member'[x].org = member[x].org /\ member'[x].role = member[x].role
                              \/ member[x].role # "admin"
        BY <2>1, <2>3
      <4>2. QED BY <1>a, <1>f, <2>1, <4>1
    <3>2. AdminsRemain'
      BY <1>b, <2>1, <2>3
    <3>3. QED BY <3>1, <3>2
  <2>4. QED BY <2>1, <2>2, <2>3
<1>9. ASSUME NEW r \in Request, RemoveDelete(r) PROVE Ruled' /\ AdminsRemain'
  <2>1. /\ Moves(r) /\ req'[r] = Idle /\ req[r].pc = "remove" /\ req[r].role = "admin"
        /\ req[r].on \in Person /\ req[r].on # req[r].who
        /\ orgs' = orgs /\ raced' = raced \cup Races(r, req[r].org)
        /\ \A q \in Person \ {req[r].on} : member'[q] = member[q]
        /\ member' = member \/ member[req[r].on].org = req[r].org
    BY <1>9, Removed
  <2>2. CASE member' = member
    BY <1>c, <1>f, <2>1, <2>2
  <2>3. CASE member[req[r].on].org = req[r].org
    BY <1>e, <2>1, <2>3 DEF Admitted
  <2>4. QED BY <2>1, <2>2, <2>3
<1>10. ASSUME NEW r \in Request, InviteInsert(r) PROVE Ruled' /\ AdminsRemain'
  <2>1. Moves(r) /\ req'[r] = Idle /\ UNCHANGED <<orgs, member>> /\ raced \subseteq raced'
    BY <1>10, Inserted
  <2>2. QED BY <1>c, <1>f, <2>1
<1>11. ASSUME NEW r \in Request, NEW i \in 1 .. MaxInvites, Revoke(r, i)
       PROVE  Ruled' /\ AdminsRemain'
  <2>1. Moves(r) /\ req'[r] = Idle /\ UNCHANGED <<orgs, member>> /\ raced \subseteq raced'
    BY <1>11, Revoked
  <2>2. QED BY <1>c, <1>f, <2>1
<1>12. CASE UNCHANGED vars
  BY <1>12 DEF vars, Ruled, AdminsRemain, Admins, Members
<1>13. QED BY <1>1, <1>2, <1>3, <1>4, <1>5, <1>6, <1>7, <1>8, <1>9, <1>10, <1>11, <1>12,
              Nobody DEF Next

\* Invitations keep their organisation and person; they are pending from the insert
\* on and never again; a new one duplicates no pending one.
LEMMA InvitesStep ==
  ASSUME MembershipAssumption, TypeOK, Places, Aims, Claims, [Next]_vars
  PROVE  \/ invites' = invites
         \/ \E i \in DOMAIN invites, s \in {"claimed", "revoked"} :
               invites' = [invites EXCEPT ![i] = [@ EXCEPT !.state = s]]
         \/ \E r \in Request, v \in Invites :
               /\ req[r].pc = "insert" /\ req[r].on \in Person
               /\ v.org = req[r].org /\ v.who = req[r].on /\ v.state = "pending"
               /\ \A i \in Offers(req[r].on) : invites[i].org # req[r].org
               /\ raced \subseteq raced' /\ UNCHANGED <<member, orgs>>
               /\ invites' = Append(invites, v)
<1>1. ASSUME NEW r \in Request, Claim(r)
      PROVE  \/ invites' = invites
             \/ \E i \in DOMAIN invites :
                   invites' = [invites EXCEPT ![i] = [@ EXCEPT !.state = "claimed"]]
  BY <1>1, Claimed
<1>2. ASSUME NEW r \in Request, InviteInsert(r)
      PROVE  \/ invites' = invites
             \/ \E v \in Invites :
                   /\ req[r].pc = "insert" /\ req[r].on \in Person
                   /\ v.org = req[r].org /\ v.who = req[r].on /\ v.state = "pending"
                   /\ \A i \in Offers(req[r].on) : invites[i].org # req[r].org
                   /\ raced \subseteq raced' /\ UNCHANGED <<member, orgs>>
                   /\ invites' = Append(invites, v)
  BY <1>2, Inserted
<1>3. ASSUME NEW r \in Request, NEW i, Revoke(r, i)
      PROVE  /\ i \in DOMAIN invites
             /\ invites' = [invites EXCEPT ![i] = [@ EXCEPT !.state = "revoked"]]
  BY <1>3, Revoked
<1>4. ASSUME NEW r \in Request, CountOrgs(r) \/ Found(r) PROVE invites' = invites
  BY <1>4, Founding
<1>5. QED BY <1>1, <1>2, <1>3, <1>4
      DEF Next, vars, SignIn, FindMember, FindInvite, Leave, RemoveCheck, InviteCheck,
          UpdateRole, RemoveDelete

\* The unique index keeps the pending invitations apart.
LEMMA SingleStep ==
  ASSUME MembershipAssumption, TypeOK, Places, Aims, Claims, Single, [Next]_vars
  PROVE  Single'
<1>1. CASE invites' = invites
  BY <1>1 DEF Single
<1>2. ASSUME NEW i \in DOMAIN invites, NEW s \in {"claimed", "revoked"},
             invites' = [invites EXCEPT ![i] = [@ EXCEPT !.state = s]]
      PROVE  Single'
  <2>1. /\ DOMAIN invites' = DOMAIN invites
        /\ \A j \in DOMAIN invites : /\ invites'[j].org = invites[j].org
                                     /\ invites'[j].who = invites[j].who
                                     /\ invites'[j].state = "pending" =>
                                           invites[j].state = "pending"
    BY <1>2, Restated
  <2>2. ASSUME NEW j \in DOMAIN invites, NEW k \in DOMAIN invites,
               invites'[j].state = "pending", invites'[k].state = "pending",
               invites'[j].org = invites'[k].org, invites'[j].who = invites'[k].who
        PROVE  j = k
    <3>1. /\ invites[j].state = "pending" /\ invites[k].state = "pending"
          /\ invites[j].org = invites[k].org /\ invites[j].who = invites[k].who
      BY <2>1, <2>2
    <3>2. QED BY <3>1 DEF Single
  <2>3. QED BY <2>1, <2>2 DEF Single
<1>3. ASSUME NEW r \in Request, NEW v \in Invites, v.org = req[r].org, v.who = req[r].on,
             \A i \in Offers(req[r].on) : invites[i].org # req[r].org,
             invites' = Append(invites, v)
      PROVE  Single'
  <2>1. /\ \A j \in DOMAIN invites : invites'[j] = invites[j]
        /\ \A j \in DOMAIN invites' : j \in DOMAIN invites \/ invites'[j] = v
        /\ \A j, k \in DOMAIN invites' : j \in DOMAIN invites \/ k \in DOMAIN invites \/ j = k
    BY <1>3, Appended
  <2>2. \A j \in DOMAIN invites : ~ (/\ invites[j].state = "pending" /\ invites[j].org = v.org
                                     /\ invites[j].who = v.who)
    BY <1>3 DEF Offers
  <2>3. ASSUME NEW j \in DOMAIN invites', NEW k \in DOMAIN invites',
               invites'[j].state = "pending", invites'[k].state = "pending",
               invites'[j].org = invites'[k].org, invites'[j].who = invites'[k].who
        PROVE  j = k
    <3>1. CASE j \in DOMAIN invites /\ k \in DOMAIN invites
      <4>1. /\ invites[j].state = "pending" /\ invites[k].state = "pending"
            /\ invites[j].org = invites[k].org /\ invites[j].who = invites[k].who
        BY <2>1, <2>3, <3>1
      <4>2. QED BY <3>1, <4>1 DEF Single
    <3>2. CASE j \in DOMAIN invites /\ k \notin DOMAIN invites
      BY <2>1, <2>2, <2>3, <3>2
    <3>3. CASE j \notin DOMAIN invites /\ k \in DOMAIN invites
      BY <2>1, <2>2, <2>3, <3>3
    <3>4. CASE j \notin DOMAIN invites /\ k \notin DOMAIN invites
      BY <2>1, <3>4
    <3>5. QED BY <3>1, <3>2, <3>3, <3>4
  <2>4. QED BY <2>3 DEF Single
<1>4. QED BY <1>1, <1>2, <1>3, InvitesStep

\* Whoever comes into an organisation that somebody is about to invite him to
\* makes a race.
LEMMA OutsideStep ==
  ASSUME MembershipAssumption, TypeOK, Places, Aims, Claims, Outside, [Next]_vars
  PROVE  Outside'
<1>w. \A q \in Request : req[q].pc = "insert" => /\ req[q].on \in Person /\ req[q].org \in Org
                                                 /\ req[q].org \in orgs
  BY RequestFields DEF Aims, Placed
<1>f. Idle.pc = "idle" /\ NoRow.org \notin Org
  BY Nobody
<1>a. ASSUME NEW r \in Request, Moves(r), raced \subseteq raced',
             \A p \in Person : \/ member'[p].org = member[p].org \/ member'[p].org \notin Org
                               \/ \A q \in Request \ {r} :
                                     req[q].pc = "insert" /\ req[q].org = member'[p].org =>
                                        req[q].org \in raced',
             \/ req'[r].pc # "insert"
             \/ member'[req'[r].on].org # req'[r].org
      PROVE  Outside'
  <2>1. ASSUME NEW q \in Request \ {r}, req'[q].pc = "insert", req'[q].org \notin raced'
        PROVE  member'[req'[q].on].org # req'[q].org
    <3>1. req'[q] = req[q]
      BY <1>a DEF Moves
    <3>2. /\ req[q].on \in Person /\ req[q].org \in Org
          /\ member[req[q].on].org # req[q].org
      BY <1>a, <1>w, <2>1, <3>1 DEF Outside
    <3>3. QED BY <1>a, <2>1, <3>1, <3>2
  <2>2. QED BY <1>a, <2>1 DEF Outside
<1>d. ASSUME NEW r \in Request, Moves(r), raced \subseteq raced', req[r].who \in Person,
             NEW o \in Org, NEW role \in Role, Joins(req[r].who, o, role),
             req'[r].pc # "insert",
             \A q \in Request \ {r} : req[q].pc = "insert" /\ req[q].org = o => o \in raced'
      PROVE  Outside'
  <2>1. /\ \A q \in Person \ {req[r].who} : member'[q] = member[q]
        /\ member'[req[r].who].org = o
    BY <1>d, Joined
  <2>2. QED BY <1>a, <1>d, <2>1
<1>1. ASSUME NEW r \in Request, NEW p \in Person, SignIn(r, p) PROVE Outside'
  BY <1>1, <1>a, SignsIn
<1>2. ASSUME NEW r \in Request, FindMember(r) PROVE Outside'
  BY <1>2, <1>a, FindsMember
<1>3. ASSUME NEW r \in Request, FindInvite(r) PROVE Outside'
  BY <1>3, <1>a, FindsInvite
<1>4. ASSUME NEW r \in Request, Claim(r) PROVE Outside'
  <2>1. Moves(r) /\ req[r].pc = "claim" /\ req[r].who \in Person /\ req[r].id \in DOMAIN invites
    BY <1>4, Claimed
  <2>2. CASE req'[r] = Idle /\ UNCHANGED <<member, raced>>
    BY <1>a, <1>f, <2>1, <2>2
  <2>3. CASE /\ Joins(req[r].who, req[r].org, invites[req[r].id].role)
             /\ raced' = raced \cup Races(r, req[r].org) /\ req'[r].pc = "act"
    <3>1. req[r].org \in Org /\ invites[req[r].id].role \in Role
      BY <2>1, RequestFields, InviteFields DEF Placed
    <3>2. \A q \in Request \ {r} : req[q].org = req[r].org => req[r].org \in raced'
      BY <2>3, RaceOf
    <3>3. QED BY <1>d, <2>1, <2>3, <3>1, <3>2
  <2>4. QED BY <1>4, <2>2, <2>3, Claimed
<1>5. ASSUME NEW r \in Request, CountOrgs(r) \/ Found(r) PROVE Outside'
  <2>1. Moves(r) /\ req[r].who \in Person /\ raced' = raced /\ "admin" \in Role
    BY <1>5, Founding, Nobody
  <2>2. CASE UNCHANGED <<orgs, member>> /\ (req'[r] = Idle \/ req'[r].pc = "found")
    BY <1>a, <1>f, <2>1, <2>2
  <2>3. ASSUME NEW o \in Org \ orgs, Joins(req[r].who, o, "admin"), req'[r].pc = "act"
        PROVE  Outside'
    BY <1>d, <1>w, <2>1, <2>3
  <2>4. QED BY <1>5, <2>2, <2>3, Founding
<1>6. ASSUME NEW r \in Request, Leave(r) PROVE Outside'
  BY <1>6, <1>a, <1>f, Finished DEF Leave
<1>7. ASSUME NEW r \in Request, NEW p \in Person, NEW role \in Role,
             RemoveCheck(r, p) \/ InviteCheck(r, p, role)
      PROVE  Outside'
  <2>1. /\ Moves(r) /\ UNCHANGED <<member, raced>>
        /\ req'[r].pc # "insert" \/ member'[req'[r].on].org # req'[r].org
    BY <1>7, Checked
  <2>2. QED BY <1>a, <2>1
<1>8. ASSUME NEW r \in Request, NEW p \in Person, NEW role \in Role, UpdateRole(r, p, role)
      PROVE  Outside'
  <2>1. /\ Moves(r) /\ req'[r] = Idle /\ raced \subseteq raced'
        /\ \A q \in Person : member'[q].org = member[q].org
    BY <1>8, RoleChanged
  <2>2. QED BY <1>a, <1>f, <2>1
<1>9. ASSUME NEW r \in Request, RemoveDelete(r) PROVE Outside'
  <2>1. /\ Moves(r) /\ req'[r] = Idle /\ raced \subseteq raced'
        /\ \A q \in Person : member'[q] = member[q] \/ member'[q] = NoRow
    BY <1>9, Removed
  <2>2. QED BY <1>a, <1>f, <2>1
<1>10. ASSUME NEW r \in Request, InviteInsert(r) PROVE Outside'
  <2>1. Moves(r) /\ req'[r] = Idle /\ member' = member /\ raced \subseteq raced'
    BY <1>10, Inserted
  <2>2. QED BY <1>a, <1>f, <2>1
<1>11. ASSUME NEW r \in Request, NEW i \in 1 .. MaxInvites, Revoke(r, i) PROVE Outside'
  <2>1. Moves(r) /\ req'[r] = Idle /\ member' = member /\ raced \subseteq raced'
    BY <1>11, Revoked
  <2>2. QED BY <1>a, <1>f, <2>1
<1>12. CASE UNCHANGED vars
  BY <1>12 DEF vars, Outside
<1>13. QED BY <1>1, <1>2, <1>3, <1>4, <1>5, <1>6, <1>7, <1>8, <1>9, <1>10, <1>11, <1>12,
              Nobody DEF Next

\* Whoever joins by an invitation uses up the only one he has there.
LEMMA NoLeftoverStep ==
  ASSUME MembershipAssumption, TypeOK, Places, Aims, Claims, Single, Outside,
         NoLeftoverInvites, [Next]_vars
  PROVE  NoLeftoverInvites'
<1>f. NoRow.org = "none" /\ "none" \notin Org /\ orgs \subseteq Org
  BY Nobody DEF TypeOK
<1>o. \A i \in DOMAIN invites : /\ invites[i].org \in orgs /\ invites[i].org \in Org
                                /\ invites[i].who \in Person
  BY InviteFields DEF Places
<1>g. \A i \in DOMAIN invites :
         invites[i].state = "pending" /\ invites[i].org \notin raced =>
            member[invites[i].who].org # invites[i].org
  BY <1>o DEF NoLeftoverInvites, Members
\* Nobody comes in, and nothing becomes pending.
<1>a. ASSUME raced \subseteq raced',
             \A p \in Person : member'[p].org = member[p].org \/ member'[p].org \notin Org,
             \/ invites' = invites
             \/ \E i \in DOMAIN invites, s \in {"claimed", "revoked"} :
                   invites' = [invites EXCEPT ![i] = [@ EXCEPT !.state = s]]
      PROVE  NoLeftoverInvites'
  <2>1. /\ DOMAIN invites' = DOMAIN invites
        /\ \A j \in DOMAIN invites : /\ invites'[j].org = invites[j].org
                                     /\ invites'[j].who = invites[j].who
                                     /\ invites'[j].state = "pending" =>
                                           invites[j].state = "pending"
    <3>1. CASE invites' = invites
      BY <3>1
    <3>2. ASSUME NEW i \in DOMAIN invites, NEW s \in {"claimed", "revoked"},
                 invites' = [invites EXCEPT ![i] = [@ EXCEPT !.state = s]]
          PROVE  <2>1
      BY <3>2, Restated
    <3>3. QED BY <1>a, <3>1, <3>2
  <2>2. \A i \in DOMAIN invites' :
           invites'[i].state = "pending" /\ invites'[i].org \notin raced' =>
              member'[invites'[i].who].org # invites'[i].org
    BY <1>a, <1>g, <1>o, <2>1
  <2>3. QED BY <2>2 DEF NoLeftoverInvites, Members
<1>4. ASSUME NEW r \in Request, Claim(r) PROVE NoLeftoverInvites'
  <2>1. Moves(r) /\ req[r].pc = "claim" /\ req[r].who \in Person /\ req[r].id \in DOMAIN invites
    BY <1>4, Claimed
  <2>2. CASE UNCHANGED <<member, invites, raced>>
    BY <1>a, <2>2
  <2>3. CASE /\ Joins(req[r].who, req[r].org, invites[req[r].id].role)
             /\ invites' = [invites EXCEPT ![req[r].id] = [@ EXCEPT !.state = "claimed"]]
             /\ raced' = raced \cup Races(r, req[r].org)
    <3>1. req[r].org \in Org /\ invites[req[r].id].role \in Role
      BY <2>1, RequestFields, InviteFields DEF Placed
    <3>2. /\ \A q \in Person \ {req[r].who} : member'[q] = member[q]
          /\ member'[req[r].who].org = req[r].org
      BY <2>1, <2>3, <3>1, Joined
    <3>3. /\ DOMAIN invites' = DOMAIN invites
          /\ \A j \in DOMAIN invites :
                /\ invites'[j].org = invites[j].org /\ invites'[j].who = invites[j].who
                /\ j # req[r].id => invites'[j].state = invites[j].state
          /\ invites'[req[r].id].state = "claimed"
      BY <2>1, <2>3, Restated
    <3>4. /\ invites[req[r].id].who = req[r].who /\ invites[req[r].id].org = req[r].org
          /\ invites[req[r].id].state = "pending" \/ req[r].org \in raced
      BY <2>1 DEF Claims
    <3>5. ASSUME NEW j \in DOMAIN invites, invites'[j].state = "pending",
                 invites[j].org \notin raced'
          PROVE  member'[invites[j].who].org # invites[j].org
      <4>1. j # req[r].id /\ invites[j].state = "pending" /\ invites[j].org \notin raced
        BY <2>3, <3>3, <3>5
      <4>2. CASE invites[j].who = req[r].who
        <5>1. invites[j].org = req[r].org => req[r].org \in raced
          BY <2>1, <3>4, <4>1, <4>2 DEF Single
        <5>2. QED BY <3>2, <4>1, <4>2, <5>1
      <4>3. CASE invites[j].who # req[r].who
        BY <1>g, <1>o, <3>2, <4>1, <4>3
      <4>4. QED BY <4>2, <4>3
    <3>6. QED BY <3>3, <3>5 DEF NoLeftoverInvites, Members
  <2>4. QED BY <1>4, <2>2, <2>3, Claimed
<1>5. ASSUME NEW r \in Request, CountOrgs(r) \/ Found(r) PROVE NoLeftoverInvites'
  <2>1. req[r].who \in Person /\ UNCHANGED <<invites, raced>> /\ "admin" \in Role
    BY <1>5, Founding, Nobody
  <2>2. CASE member' = member
    BY <1>a, <2>1, <2>2
  <2>3. ASSUME NEW o \in Org \ orgs, Joins(req[r].who, o, "admin") PROVE NoLeftoverInvites'
    <3>1. /\ \A q \in Person \ {req[r].who} : member'[q] = member[q]
          /\ member'[req[r].who].org = o
      BY <2>1, <2>3, Joined
    <3>2. \A i \in DOMAIN invites' :
             invites'[i].state = "pending" /\ invites'[i].org \notin raced' =>
                member'[invites'[i].who].org # invites'[i].org
      BY <1>g, <1>o, <2>1, <2>3, <3>1
    <3>3. QED BY <3>2 DEF NoLeftoverInvites, Members
  <2>4. QED BY <1>5, <2>2, <2>3, Founding
<1>8. ASSUME NEW r \in Request, NEW p \in Person, NEW role \in Role, UpdateRole(r, p, role)
      PROVE  NoLeftoverInvites'
  <2>1. /\ raced \subseteq raced' /\ invites' = invites
        /\ \A q \in Person : member'[q].org = member[q].org
    BY <1>8, RoleChanged
  <2>2. QED BY <1>a, <2>1
<1>9. ASSUME NEW r \in Request, RemoveDelete(r) PROVE NoLeftoverInvites'
  <2>1. /\ raced \subseteq raced' /\ invites' = invites
        /\ \A q \in Person : member'[q] = member[q] \/ member'[q] = NoRow
    BY <1>9, Removed
  <2>2. QED BY <1>a, <1>f, <2>1
<1>10. ASSUME NEW r \in Request, InviteInsert(r) PROVE NoLeftoverInvites'
  <2>1. /\ req[r].pc = "insert" /\ req[r].on \in Person /\ member' = member
        /\ \/ UNCHANGED <<invites, raced>>
           \/ /\ raced \subseteq raced'
              /\ \E v \in Invites :
                    v.org = req[r].org /\ v.who = req[r].on /\ invites' = Append(invites, v)
    BY <1>10, Inserted
  <2>2. CASE UNCHANGED <<invites, raced>>
    BY <1>a, <2>1, <2>2
  <2>3. ASSUME NEW v \in Invites, v.org = req[r].org, v.who = req[r].on,
               invites' = Append(invites, v), raced \subseteq raced'
        PROVE  NoLeftoverInvites'
    <3>1. /\ \A j \in DOMAIN invites : invites'[j] = invites[j]
          /\ \A j \in DOMAIN invites' : j \in DOMAIN invites \/ invites'[j] = v
      BY <2>3, Appended
    <3>2. v.org \notin raced => member[v.who].org # v.org
      BY <2>1, <2>3 DEF Outside
    <3>3. \A i \in DOMAIN invites' :
             invites'[i].state = "pending" /\ invites'[i].org \notin raced' =>
                member'[invites'[i].who].org # invites'[i].org
      BY <1>g, <2>1, <2>3, <3>1, <3>2
    <3>4. QED BY <3>3 DEF NoLeftoverInvites, Members
  <2>4. QED BY <2>1, <2>2, <2>3
<1>11. ASSUME NEW r \in Request, NEW i \in 1 .. MaxInvites, Revoke(r, i)
       PROVE  NoLeftoverInvites'
  <2>1. /\ member' = member /\ raced \subseteq raced' /\ i \in DOMAIN invites
        /\ invites' = [invites EXCEPT ![i] = [@ EXCEPT !.state = "revoked"]]
    BY <1>11, Revoked
  <2>2. QED BY <1>a, <2>1
<1>12. ASSUME NEW r \in Request, FindMember(r) PROVE NoLeftoverInvites'
  BY <1>12, <1>a, FindsMember
<1>13. ASSUME UNCHANGED <<member, invites, raced>> PROVE NoLeftoverInvites'
  BY <1>13, <1>a
<1>14. QED BY <1>4, <1>5, <1>8, <1>9, <1>10, <1>11, <1>12, <1>13, Nobody
       DEF Next, vars, SignIn, FindInvite, Leave, RemoveCheck, InviteCheck

\* Who was removed quietly is nowhere to be let in from.
LEMMA OutStep ==
  ASSUME MembershipAssumption, TypeOK, Places, Aims, Claims, Out, [Next]_vars
  PROVE  Out'
<1>f. /\ Idle.who = "none" /\ "none" \notin Person /\ barred \subseteq Person
      /\ orgs \subseteq Org /\ NoRow.org = "none" /\ "none" \notin Org
      /\ \A p \in barred : member[p].org \notin Org
  BY Nobody DEF TypeOK, Out
<1>a. ASSUME NEW r \in Request, Moves(r), orgs \subseteq orgs',
             \A p \in barred' : /\ p \in barred /\ member'[p] = NoRow /\ Offers(p)' = {}
                                /\ req'[r].who = p => req'[r].pc \in {"member", "invite", "count"}
      PROVE  Out'
  <2>1. \A p \in barred' : \A q \in Request \ {r} :
           req'[q].who = p => req'[q].pc \in {"member", "invite", "count"}
    BY <1>a DEF Out, Moves
  <2>2. barred' # {} => orgs' # {}
    BY <1>a DEF Out
  <2>3. QED BY <1>a, <2>1, <2>2 DEF Out
\* Steps that leave the members and the invitations.
<1>b. ASSUME NEW r \in Request, Moves(r), UNCHANGED <<orgs, member, invites, barred>>,
             \A p \in barred : req'[r].who = p => req'[r].pc \in {"member", "invite", "count"}
      PROVE  Out'
  <2>1. \A p \in barred' : p \in barred /\ member'[p] = NoRow
    BY <1>b DEF Out
  <2>2. \A p \in barred' : Offers(p)' = {}
    BY <1>b DEF Out, Offers
  <2>3. QED BY <1>a, <1>b, <2>1, <2>2
\* A change of an invitation's state takes offers away.
<1>c. ASSUME NEW i \in DOMAIN invites, NEW s \in {"claimed", "revoked"},
             invites' = [invites EXCEPT ![i] = [@ EXCEPT !.state = s]]
      PROVE  \A p \in barred : Offers(p)' = {}
  <2>1. /\ DOMAIN invites' = DOMAIN invites
        /\ \A j \in DOMAIN invites : /\ invites'[j].who = invites[j].who
                                     /\ invites'[j].state = "pending" =>
                                           invites[j].state = "pending"
    BY <1>c, Restated
  <2>2. QED BY <2>1 DEF Offers, Out
<1>1. ASSUME NEW r \in Request, NEW p \in Person, SignIn(r, p) PROVE Out'
  BY <1>1, <1>b, SignsIn
<1>2. ASSUME NEW r \in Request, FindMember(r) PROVE Out'
  <2>1. /\ Moves(r) /\ req[r].who \in Person /\ req'[r].who = req[r].who
        /\ UNCHANGED <<orgs, invites, barred>>
        /\ \A p \in Person : member'[p] = NoRow <=> member[p] = NoRow
        /\ req'[r].pc = "invite" \/ member[req[r].who] # NoRow
    BY <1>2, FindsMember
  <2>2. \A p \in barred : member[p] = NoRow /\ Offers(p) = {}
    BY DEF Out
  <2>3. \A p \in barred : Offers(p)' = {}
    BY <2>1, <2>2 DEF Offers
  <2>4. QED BY <1>a, <1>f, <2>1, <2>2, <2>3
<1>3. ASSUME NEW r \in Request, FindInvite(r) PROVE Out'
  <2>1. /\ Moves(r) /\ req'[r].who = req[r].who
        /\ UNCHANGED <<orgs, member, invites, barred>>
        /\ req'[r].pc = "count" \/ req'[r].id \in Offers(req[r].who)
    BY <1>3, FindsInvite
  <2>2. \A p \in barred : Offers(p) = {}
    BY DEF Out
  <2>3. QED BY <1>b, <2>1, <2>2
<1>4. ASSUME NEW r \in Request, Claim(r) PROVE Out'
  <2>1. /\ Moves(r) /\ req[r].pc = "claim" /\ req[r].who \in Person
        /\ req[r].id \in DOMAIN invites /\ UNCHANGED <<orgs, barred>>
    BY <1>4, Claimed
  <2>2. req[r].who \notin barred
    BY <2>1 DEF Out
  <2>3. CASE req'[r] = Idle /\ UNCHANGED <<member, invites>>
    BY <1>b, <1>f, <2>1, <2>3
  <2>4. CASE /\ Joins(req[r].who, req[r].org, invites[req[r].id].role)
             /\ invites' = [invites EXCEPT ![req[r].id] = [@ EXCEPT !.state = "claimed"]]
             /\ req'[r].who = req[r].who
    <3>1. req[r].org \in Org /\ invites[req[r].id].role \in Role
      BY <2>1, RequestFields, InviteFields DEF Placed
    <3>2. \A q \in Person \ {req[r].who} : member'[q] = member[q]
      BY <2>1, <2>4, <3>1, Joined
    <3>3. \A p \in barred : Offers(p)' = {}
      BY <1>c, <2>1, <2>4
    <3>4. \A p \in barred : member'[p] = NoRow /\ p # req[r].who
      BY <1>f, <2>2, <3>2 DEF Out
    <3>5. QED BY <1>a, <2>1, <2>4, <3>3, <3>4
  <2>5. QED BY <1>4, <2>3, <2>4, Claimed
<1>5. ASSUME NEW r \in Request, CountOrgs(r) \/ Found(r) PROVE Out'
  <2>1. /\ Moves(r) /\ req[r].who \in Person /\ req[r].pc \in {"count", "found"}
        /\ UNCHANGED <<invites, barred>> /\ "admin" \in Role
    BY <1>5, Founding, Nobody
  <2>2. CASE req'[r] = Idle /\ UNCHANGED <<orgs, member>>
    BY <1>b, <1>f, <2>1, <2>2
  <2>3. CASE orgs = {} /\ UNCHANGED <<orgs, member>>
    BY <1>b, <2>1, <2>3 DEF Out
  <2>4. ASSUME req[r].pc = "found", NEW o \in Org \ orgs, orgs' = orgs \cup {o},
               Joins(req[r].who, o, "admin"), req'[r].who = req[r].who
        PROVE  Out'
    <3>1. req[r].who \notin barred
      BY <2>1, <2>4 DEF Out
    <3>2. \A q \in Person \ {req[r].who} : member'[q] = member[q]
      BY <2>1, <2>4, Joined
    <3>3. \A p \in barred : member'[p] = NoRow /\ p # req[r].who /\ Offers(p) = {}
      BY <1>f, <3>1, <3>2 DEF Out
    <3>4. \A p \in barred : Offers(p)' = {}
      BY <2>1, <3>3 DEF Offers
    <3>5. QED BY <1>a, <2>1, <2>4, <3>3, <3>4
  <2>5. QED BY <1>5, <2>2, <2>3, <2>4, Founding
<1>6. ASSUME NEW r \in Request, Leave(r) PROVE Out'
  <2>1. Moves(r) /\ req'[r] = Idle /\ UNCHANGED <<orgs, member, invites, barred>>
    BY <1>6, Finished DEF Leave
  <2>2. QED BY <1>b, <1>f, <2>1
<1>7. ASSUME NEW r \in Request, NEW p \in Person, NEW role \in Role,
             RemoveCheck(r, p) \/ InviteCheck(r, p, role)
      PROVE  Out'
  <2>1. /\ Moves(r) /\ req[r].pc = "act" /\ req'[r].who = req[r].who
        /\ UNCHANGED <<orgs, member, invites, barred>>
    BY <1>7, Checked
  <2>2. req[r].who \notin barred
    BY <2>1 DEF Out
  <2>3. QED BY <1>b, <2>1, <2>2
<1>8. ASSUME NEW r \in Request, NEW p \in Person, NEW role \in Role, UpdateRole(r, p, role)
      PROVE  Out'
  <2>1. /\ Moves(r) /\ req'[r] = Idle /\ UNCHANGED <<orgs, invites, barred>>
        /\ member[p] # NoRow /\ \A q \in Person \ {p} : member'[q] = member[q]
    BY <1>8, RoleChanged
  <2>2. \A q \in barred : member'[q] = NoRow /\ Offers(q) = {}
    BY <1>f, <2>1 DEF Out
  <2>3. \A q \in barred : Offers(q)' = {}
    BY <2>1, <2>2 DEF Offers
  <2>4. QED BY <1>a, <1>f, <2>1, <2>2, <2>3
<1>9. ASSUME NEW r \in Request, RemoveDelete(r) PROVE Out'
  <2>1. /\ Moves(r) /\ req'[r] = Idle /\ req[r].org \in orgs /\ req[r].on \in Person
        /\ UNCHANGED <<orgs, invites>>
        /\ \A q \in Person \ {req[r].on} : member'[q] = member[q]
        /\ \/ member' = member /\ barred' = barred
           \/ /\ member'[req[r].on] = NoRow
              /\ \/ barred' = barred
                 \/ /\ barred' = barred \cup {req[r].on} /\ Offers(req[r].on) = {}
                    /\ \A q \in Request : req[q].who # req[r].on
    BY <1>9, Removed
  <2>2. \A p \in barred' : /\ member'[p] = NoRow /\ Offers(p) = {} /\ p \in Person
    BY <1>f, <2>1 DEF Out
  <2>3. \A p \in barred' : Offers(p)' = {}
    BY <2>1, <2>2 DEF Offers
  <2>4. \A p \in barred' : \A q \in Request :
           req'[q].who = p => req'[q].pc \in {"member", "invite", "count"}
    <3>1. SUFFICES ASSUME NEW p \in barred', NEW q \in Request, req'[q].who = p
                   PROVE  req'[q].pc \in {"member", "invite", "count"}
      OBVIOUS
    <3>2. q # r /\ req'[q] = req[q]
      BY <1>f, <2>1, <2>2, <3>1 DEF Moves
    <3>3. p \in barred
      BY <2>1, <3>1, <3>2
    <3>4. QED BY <3>1, <3>2, <3>3 DEF Out
  <2>5. QED BY <2>1, <2>2, <2>3, <2>4 DEF Out
<1>10. ASSUME NEW r \in Request, InviteInsert(r) PROVE Out'
  <2>1. /\ Moves(r) /\ req'[r] = Idle /\ UNCHANGED <<orgs, member>>
        /\ \/ UNCHANGED <<invites, barred>>
           \/ /\ barred' = barred \ {req[r].on}
              /\ \E v \in Invites : v.who = req[r].on /\ invites' = Append(invites, v)
    BY <1>10, Inserted
  <2>2. CASE UNCHANGED <<invites, barred>>
    BY <1>b, <1>f, <2>1, <2>2
  <2>3. ASSUME NEW v \in Invites, v.who = req[r].on, invites' = Append(invites, v),
               barred' = barred \ {req[r].on}
        PROVE  Out'
    <3>1. /\ \A j \in DOMAIN invites : invites'[j] = invites[j]
          /\ \A j \in DOMAIN invites' : j \in DOMAIN invites \/ invites'[j] = v
      BY <2>3, Appended
    <3>2. \A p \in barred' : p \in barred /\ Offers(p) = {} /\ member'[p] = NoRow /\ p # v.who
      BY <2>1, <2>3 DEF Out
    <3>3. \A p \in barred' : Offers(p)' = {}
      BY <3>1, <3>2 DEF Offers
    <3>4. QED BY <1>a, <1>f, <2>1, <3>2, <3>3
  <2>4. QED BY <2>1, <2>2, <2>3
<1>11. ASSUME NEW r \in Request, NEW i \in 1 .. MaxInvites, Revoke(r, i) PROVE Out'
  <2>1. /\ Moves(r) /\ req'[r] = Idle /\ i \in DOMAIN invites
        /\ UNCHANGED <<orgs, member, barred>>
        /\ invites' = [invites EXCEPT ![i] = [@ EXCEPT !.state = "revoked"]]
    BY <1>11, Revoked
  <2>2. \A p \in barred : Offers(p)' = {} /\ member'[p] = NoRow
    BY <1>c, <2>1 DEF Out
  <2>3. QED BY <1>a, <1>f, <2>1, <2>2
<1>12. CASE UNCHANGED vars
  BY <1>12 DEF vars, Out, Offers
<1>13. QED BY <1>1, <1>2, <1>3, <1>4, <1>5, <1>6, <1>7, <1>8, <1>9, <1>10, <1>11, <1>12,
              Nobody DEF Next

-----------------------------------------------------------------------------
\* The inductive invariant holds of every behaviour.
LEMMA Inductive ==
  ASSUME MembershipAssumption PROVE Spec => []IInv
<1>1. Init => IInv
  <2> SUFFICES ASSUME Init PROVE IInv
    OBVIOUS
  <2>n. /\ "none" \notin Person /\ "none" \notin Org /\ "admin" \in Role
        /\ Idle \in Requests /\ Idle.pc = "idle" /\ Idle.who = "none" /\ NoRow.org = "none"
    BY Nobody
  <2>1. /\ invites = <<>> /\ requests = 0 /\ raced = {} /\ barred = {}
        /\ req = [r \in Request |-> Idle]
    BY DEF Init
  <2>2. /\ orgs \subseteq Org /\ rows \in Nat /\ member \in [Person -> Rows \cup {NoRow}]
        /\ \A p \in Person : member[p] # NoRow =>
              member[p].org \in orgs /\ 0 < member[p].id /\ member[p].id <= rows
        /\ \A o \in orgs : \E p \in Person : member[p].org = o /\ member[p].role = "admin"
    <3>1. CASE orgs = {} /\ member = [p \in Person |-> NoRow] /\ rows = 0
      BY <3>1
    <3>2. ASSUME NEW o \in Org, NEW p \in Person, orgs = {o}, rows = 1,
                 member = [q \in Person |-> IF q = p
                             THEN [org |-> o, role |-> "admin", linked |-> FALSE, id |-> 1]
                             ELSE NoRow]
          PROVE  <2>2
      <4>1. [org |-> o, role |-> "admin", linked |-> FALSE, id |-> 1] \in Rows
        BY <2>n DEF Rows
      <4>2. QED BY <3>2, <4>1
    <3>3. QED BY <3>1, <3>2 DEF Init
  <2>3. \A r \in Request : req[r] = Idle
    BY <2>1
  <2>4. TypeOK
    BY <2>1, <2>2, <2>3 DEF TypeOK, MembershipAssumption
  <2>5. Places /\ Aims /\ Claims /\ Ruled
    BY <2>n, <2>1, <2>2, <2>3 DEF Places, Aims, Claims, Ruled, Placed, Admitted
  <2>6. Single /\ Outside /\ Out /\ NoLeftoverInvites
    BY <2>n, <2>1, <2>3 DEF Single, Outside, Out, NoLeftoverInvites
  <2>7. AdminsRemain
    BY <2>2 DEF AdminsRemain, Admins, Members
  <2>8. QED BY <2>4, <2>5, <2>6, <2>7 DEF IInv
<1>2. IInv /\ [Next]_vars => IInv'
  BY PlacesStep, AimsStep, ClaimsStep, RuledStep, SingleStep, OutsideStep, NoLeftoverStep,
     OutStep DEF IInv
<1>3. QED BY <1>1, <1>2, PTL DEF Spec

\* Members, invitations and requests keep their types.
THEOREM MembershipTypes ==
  ASSUME MembershipAssumption PROVE Spec => []TypeOK
<1>1. IInv => TypeOK
  BY DEF IInv
<1>2. QED BY <1>1, Inductive, PTL

\* In every organisation that two requests never changed or read together an
\* administrator remains, nobody is a member and invited, and, anywhere, who was
\* removed with no request and no invitation of theirs left stays out.
THEOREM TeamsStayWhole ==
  ASSUME MembershipAssumption PROVE Spec => []MembershipHolds
<1>1. IInv => MembershipHolds
  BY DEF IInv, Out, RemovedStaysOut, MembershipHolds
<1>2. QED BY <1>1, Inductive, PTL

\* A new row of a member founds an organisation or follows an invitation that is
\* the member's own, for that organisation and that role, and that was pending
\* unless two requests met there.
THEOREM NobodyJoinsUninvited ==
  ASSUME MembershipAssumption PROVE Spec => JoinsByInvitation
<1>1. ASSUME IInv, [Next]_vars PROVE [AdmittedRightly]_vars
  <2>1. \A p \in Person : member[p].id \in Nat
    BY <1>1, RowFields DEF IInv
  <2>2. ASSUME \A p \in Person : member'[p].id = member[p].id \/ member'[p].id = 0
        PROVE  AdmittedRightly
    BY <2>1, <2>2 DEF AdmittedRightly
  <2>3. ASSUME NEW r \in Request, Claim(r) PROVE AdmittedRightly
    <3>1. req[r].pc = "claim" /\ req[r].who \in Person /\ req[r].id \in DOMAIN invites
      BY <1>1, <2>3, Claimed DEF IInv
    <3>2. CASE member' = member
      BY <2>2, <3>2
    <3>3. CASE /\ Joins(req[r].who, req[r].org, invites[req[r].id].role)
               /\ raced' = raced \cup Races(r, req[r].org)
      <4>1. req[r].org \in Org /\ invites[req[r].id].role \in Role
        BY <1>1, <3>1, RequestFields, InviteFields DEF IInv, Placed
      <4>2. /\ \A q \in Person \ {req[r].who} : member'[q] = member[q]
            /\ member'[req[r].who].org = req[r].org
            /\ member'[req[r].who].role = invites[req[r].id].role
        BY <1>1, <3>1, <3>3, <4>1, Joined DEF IInv
      <4>3. /\ invites[req[r].id].who = req[r].who /\ invites[req[r].id].org = req[r].org
            /\ invites[req[r].id].state = "pending" \/ req[r].org \in raced
        BY <1>1, <3>1 DEF IInv, Claims
      <4>4. ASSUME NEW p \in Person, member'[p].id > member[p].id
            PROVE  \E i \in DOMAIN invites, q \in Request :
                      /\ invites[i].who = p /\ invites[i].org = member'[p].org
                      /\ invites[i].role = member'[p].role
                      /\ req[q].pc = "claim" /\ req[q].id = i
                      /\ (invites[i].state = "pending" \/ invites[i].org \in raced')
        <5>1. p = req[r].who
          BY <2>1, <4>2, <4>4
        <5>2. QED BY <3>1, <3>3, <4>2, <4>3, <5>1
      <4>5. QED BY <4>4 DEF AdmittedRightly
    <3>4. QED BY <1>1, <2>3, <3>2, <3>3, Claimed DEF IInv
  <2>4. ASSUME NEW r \in Request, CountOrgs(r) \/ Found(r) PROVE AdmittedRightly
    <3>1. req[r].who \in Person /\ "admin" \in Role
      BY <1>1, <2>4, Founding, Nobody DEF IInv
    <3>2. CASE member' = member
      BY <2>2, <3>2
    <3>3. ASSUME NEW o \in Org \ orgs, Joins(req[r].who, o, "admin") PROVE AdmittedRightly
      <4>1. /\ \A q \in Person \ {req[r].who} : member'[q] = member[q]
            /\ member'[req[r].who].org = o
        BY <1>1, <3>1, <3>3, Joined DEF IInv
      <4>2. \A p \in Person : member'[p].id > member[p].id => member'[p].org \notin orgs
        BY <2>1, <3>3, <4>1
      <4>3. QED BY <4>2 DEF AdmittedRightly
    <3>4. QED BY <1>1, <2>4, <3>2, <3>3, Founding DEF IInv
  <2>5. ASSUME NEW r \in Request, FindMember(r) PROVE AdmittedRightly
    BY <1>1, <2>2, <2>5, FindsMember DEF IInv
  <2>6. ASSUME NEW r \in Request, NEW p \in Person, NEW role \in Role, UpdateRole(r, p, role)
        PROVE  AdmittedRightly
    BY <1>1, <2>2, <2>6, RoleChanged DEF IInv
  <2>7. ASSUME NEW r \in Request, RemoveDelete(r) PROVE AdmittedRightly
    <3>1. \A q \in Person : member'[q] = member[q] \/ member'[q] = NoRow
      BY <1>1, <2>7, Removed DEF IInv
    <3>2. QED BY <2>2, <3>1, Nobody
  <2>8. ASSUME member' = member PROVE AdmittedRightly
    BY <2>2, <2>8
  <2>9. QED BY <1>1, <2>3, <2>4, <2>5, <2>6, <2>7, <2>8
        DEF Next, vars, SignIn, FindInvite, Leave, RemoveCheck, InviteCheck, InviteInsert, Revoke
<1>2. QED BY <1>1, Inductive, PTL DEF Spec, JoinsByInvitation
=============================================================================
