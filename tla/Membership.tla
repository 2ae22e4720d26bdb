----------------------------- MODULE Membership -----------------------------
(***************************************************************************)
(* Who belongs to which organisation (services/team.py, api/v1/team.py,    *)
(* core/security.py).  Every request first resolves its principal: a row   *)
(* of smms.users, else a pending invitation that is claimed on the spot,   *)
(* else the founding of the first organisation.  Administrators then change *)
(* roles, remove members, invite and revoke.  Each SQL statement reads what *)
(* is committed (READ COMMITTED); requests interleave between statements.  *)
(***************************************************************************)
EXTENDS Naturals, Sequences

CONSTANTS
    Person,       \* verified Supabase identities, each with an e-mail of its own
    Org,          \* organisations that may come to exist
    Role,         \* roles given out by hand: a subset of viewer, editor, admin
    Request,      \* requests that may be in flight together
    MaxRequests,  \* bound on the number of requests
    MaxInvites    \* bound on the number of invitations

MembershipAssumption ==
    /\ "admin" \in Role /\ Role \subseteq {"viewer", "editor", "admin"}
    /\ "none" \notin Person /\ "none" \notin Org
    /\ MaxRequests \in Nat /\ MaxInvites \in Nat

VARIABLES
    orgs,      \* smms.organizations
    member,    \* smms.users by identity (supabase_uid is unique)
    invites,   \* smms.org_invitations, oldest first
    req,       \* what each request is at
    requests, rows,
    raced,     \* history: organisations two requests changed or read together
    barred     \* history: removed with no request of theirs in flight, not invited since

vars == <<orgs, member, invites, req, requests, rows, raced, barred>>

NoRow == [org |-> "none", role |-> "none", linked |-> FALSE, id |-> 0]
Rows == [org : Org, role : Role, linked : BOOLEAN, id : Nat]
Invites == [org : Org, who : Person, role : Role,
            state : {"pending", "claimed", "revoked"}]
Idle == [pc |-> "idle", who |-> "none", org |-> "none", role |-> "none",
         on |-> "none", with |-> "none", id |-> 0]
InFlight == {"member", "invite", "claim", "count", "found", "act", "remove", "insert"}

TypeOK ==
    /\ orgs \subseteq Org
    /\ member \in [Person -> Rows \cup {NoRow}]
    /\ invites \in Seq(Invites)
    /\ \A r \in Request : req[r] # Idle => req[r].pc \in InFlight /\ req[r].who \in Person
    /\ requests \in 0 .. MaxRequests /\ rows \in Nat
    /\ raced \subseteq Org /\ barred \subseteq Person

\* A fresh deployment, or one with a first organisation whose administrator was
\* entered by hand and has not signed in.
Init ==
    /\ invites = <<>>
    /\ req = [r \in Request |-> Idle]
    /\ requests = 0 /\ raced = {} /\ barred = {}
    /\ \/ orgs = {} /\ member = [p \in Person |-> NoRow] /\ rows = 0
       \/ \E o \in Org, p \in Person :
             /\ orgs = {o} /\ rows = 1
             /\ member = [q \in Person |-> IF q = p
                             THEN [org |-> o, role |-> "admin", linked |-> FALSE, id |-> 1]
                             ELSE NoRow]

Members(o) == {p \in Person : member[p].org = o}
Admins(o) == {p \in Members(o) : member[p].role = "admin"}
\* Mutant of Offers: invitations that were revoked count as pending.
OffersEver(p) == {i \in DOMAIN invites : invites[i].who = p /\ invites[i].state # "claimed"}
Offers(p) == {i \in DOMAIN invites : invites[i].who = p /\ invites[i].state = "pending"}

\* The other requests that have to do with organisation o right now.
Others(r, o) == {q \in Request \ {r} : req[q].org = o}
\* What a request that changes organisation o adds to the history.
Races(r, o) == IF Others(r, o) = {} THEN {} ELSE {o}

Finish(r) == req' = [req EXCEPT ![r] = Idle]

SignIn(r, p) ==
    /\ req[r] = Idle /\ requests < MaxRequests
    /\ requests' = requests + 1
    /\ req' = [req EXCEPT ![r] = [Idle EXCEPT !.pc = "member", !.who = p]]
    /\ UNCHANGED <<orgs, member, invites, rows, raced, barred>>

\* The request goes on with the organisation and the role it has read.
Resolved(r, row) ==
    req' = [req EXCEPT ![r] = [@ EXCEPT !.pc = "act", !.org = row.org, !.role = row.role]]

\* By identity, else by e-mail, which links the row.
FindMember(r) ==
    /\ req[r].pc = "member"
    /\ LET p == req[r].who IN
       IF member[p] # NoRow
       THEN /\ Resolved(r, member[p])
            /\ member' = [member EXCEPT ![p] = [@ EXCEPT !.linked = TRUE]]
       ELSE /\ req' = [req EXCEPT ![r] = [@ EXCEPT !.pc = "invite"]]
            /\ UNCHANGED member
    /\ UNCHANGED <<orgs, invites, requests, rows, raced, barred>>

FindInvite(r) ==
    /\ req[r].pc = "invite"
    /\ LET offers == Offers(req[r].who) IN
       IF offers = {} THEN req' = [req EXCEPT ![r] = [@ EXCEPT !.pc = "count"]]
       ELSE \E i \in offers :
              /\ \A j \in offers : i <= j
              /\ req' = [req EXCEPT ![r] = [@ EXCEPT !.pc = "claim", !.id = i,
                                                     !.org = invites[i].org]]
    /\ UNCHANGED <<orgs, member, invites, requests, rows, raced, barred>>

\* Mutant of Joins: the row is inserted with a role the column does not know.
JoinsAsOwner(p, o, role) ==
    /\ rows' = rows + 1
    /\ member' = [member EXCEPT ![p] =
                     [org |-> o, role |-> "owner", linked |-> TRUE, id |-> rows + 1]]
Joins(p, o, role) ==
    /\ rows' = rows + 1
    /\ member' = [member EXCEPT ![p] =
                     [org |-> o, role |-> role, linked |-> TRUE, id |-> rows + 1]]

\* Insert of the member and update of the invitation, whatever has become of it
\* meanwhile; a second row for the same identity is refused by the unique column.
Claim(r) ==
    /\ req[r].pc = "claim"
    /\ LET p == req[r].who  i == req[r].id IN
       IF member[p] # NoRow
       THEN Finish(r) /\ UNCHANGED <<member, invites, rows, raced>>
       ELSE /\ Joins(p, invites[i].org, invites[i].role)
            /\ invites' = [invites EXCEPT ![i] = [@ EXCEPT !.state = "claimed"]]
            /\ raced' = raced \cup Races(r, invites[i].org)
            /\ Resolved(r, invites[i])
    /\ UNCHANGED <<orgs, requests, barred>>

\* Mutant of Fresh: whoever has no membership founds an organisation.
FreshAlways == Org # {}
Fresh == orgs = {}

\* The first user founds an organisation; anyone after is turned away.
CountOrgs(r) ==
    /\ req[r].pc = "count"
    /\ IF Fresh THEN req' = [req EXCEPT ![r] = [@ EXCEPT !.pc = "found"]]
                    ELSE Finish(r)
    /\ UNCHANGED <<orgs, member, invites, requests, rows, raced, barred>>

Found(r) ==
    /\ req[r].pc = "found"
    /\ \/ /\ member[req[r].who] # NoRow
          /\ Finish(r) /\ UNCHANGED <<orgs, member, rows>>
       \/ /\ member[req[r].who] = NoRow
          /\ \E o \in Org \ orgs :
               /\ orgs' = orgs \cup {o}
               /\ Joins(req[r].who, o, "admin")
               /\ Resolved(r, [org |-> o, role |-> "admin"])
    /\ UNCHANGED <<invites, requests, raced, barred>>

\* Any other endpoint, and the 403 of a caller who is not an administrator.
Leave(r) ==
    /\ req[r].pc = "act" /\ Finish(r)
    /\ UNCHANGED <<orgs, member, invites, requests, rows, raced, barred>>

\* The role the request was resolved with decides, not the one of now.
MayAdmin(r) == req[r].pc = "act" /\ req[r].role = "admin"

\* Mutant of MayDemote: the self-check is left out.
MayDemoteAnyone(r, p, role) == TRUE
MayDemote(r, p, role) == p # req[r].who \/ role = "admin"

UpdateRole(r, p, role) ==
    /\ MayAdmin(r) /\ MayDemote(r, p, role)
    /\ p \in Members(req[r].org)
    /\ member' = [member EXCEPT ![p] = [@ EXCEPT !.role = role]]
    /\ raced' = raced \cup Races(r, req[r].org)
    /\ Finish(r)
    /\ UNCHANGED <<orgs, invites, requests, rows, barred>>

\* Not oneself, and not the last administrator.
MayRemove(r, p) ==
    /\ p \in Members(req[r].org) \ {req[r].who}
    /\ ~ (p \in Admins(req[r].org) /\ \A q \in Admins(req[r].org) : q = p)

RemoveCheck(r, p) ==
    /\ MayAdmin(r) /\ MayRemove(r, p)
    /\ req' = [req EXCEPT ![r] = [@ EXCEPT !.pc = "remove", !.on = p, !.id = member[p].id]]
    /\ UNCHANGED <<orgs, member, invites, requests, rows, raced, barred>>

\* The deletion is by id, and does not look at the administrators again.
RemoveDelete(r) ==
    /\ req[r].pc = "remove"
    /\ LET p == req[r].on  hit == member[p].id = req[r].id IN
       /\ member' = IF hit THEN [member EXCEPT ![p] = NoRow] ELSE member
       /\ barred' = IF hit /\ Offers(p) = {} /\ \A q \in Request : req[q].who # p
                    THEN barred \cup {p} ELSE barred
    /\ raced' = raced \cup Races(r, req[r].org)
    /\ Finish(r)
    /\ UNCHANGED <<orgs, invites, requests, rows>>

\* Mutant of MayInvite: members are invited too.
MayInviteAnyone(r, p) == TRUE
MayInvite(r, p) == p \notin Members(req[r].org)

InviteCheck(r, p, role) ==
    /\ MayAdmin(r) /\ MayInvite(r, p) /\ Len(invites) < MaxInvites
    /\ req' = [req EXCEPT ![r] = [@ EXCEPT !.pc = "insert", !.on = p, !.with = role]]
    /\ UNCHANGED <<orgs, member, invites, requests, rows, raced, barred>>

\* One pending invitation per organisation and e-mail (unique index).
InviteInsert(r) ==
    /\ req[r].pc = "insert"
    /\ LET p == req[r].on  o == req[r].org IN
       IF (\E i \in Offers(p) : invites[i].org = o) \/ Len(invites) = MaxInvites
       THEN UNCHANGED <<invites, raced, barred>>
       ELSE /\ invites' = Append(invites, [org |-> o, who |-> p, role |-> req[r].with,
                                           state |-> "pending"])
            /\ raced' = raced \cup Races(r, o)
            /\ barred' = barred \ {p}
    /\ Finish(r)
    /\ UNCHANGED <<orgs, member, requests, rows>>

Revoke(r, i) ==
    /\ MayAdmin(r) /\ i \in DOMAIN invites
    /\ invites[i].org = req[r].org /\ invites[i].state = "pending"
    /\ invites' = [invites EXCEPT ![i] = [@ EXCEPT !.state = "revoked"]]
    /\ raced' = raced \cup Races(r, req[r].org)
    /\ Finish(r)
    /\ UNCHANGED <<orgs, member, requests, rows, barred>>

Next ==
    \E r \in Request :
        \/ \E p \in Person : SignIn(r, p) \/ RemoveCheck(r, p)
        \/ FindMember(r) \/ FindInvite(r) \/ Claim(r) \/ CountOrgs(r) \/ Found(r)
        \/ Leave(r) \/ RemoveDelete(r) \/ InviteInsert(r)
        \/ \E p \in Person, role \in Role : UpdateRole(r, p, role) \/ InviteCheck(r, p, role)
        \/ \E i \in 1 .. MaxInvites : Revoke(r, i)

Spec == Init /\ [][Next]_vars
-----------------------------------------------------------------------------
\* An organisation always has an administrator, unless two requests were busy
\* with it together (each of two administrators may then remove or demote the
\* other: the check of remove_member and its delete are two statements, and
\* update_role has no check).
AdminsRemain == \A o \in orgs \ raced : Admins(o) # {}

\* Nobody is a member and invited to the same organisation, unless requests
\* overlapped there: an invitation left over would let a removed member back in.
NoLeftoverInvites ==
    \A i \in DOMAIN invites :
        invites[i].state = "pending" /\ invites[i].org \notin raced
        => invites[i].who \notin Members(invites[i].org)

\* A member removed while no request of theirs was in flight, and with no
\* invitation pending, stays out until invited again.
RemovedStaysOut == \A p \in barred : member[p] = NoRow

\* What holds of teams as long as requests do not overlap in an organisation.
MembershipHolds == AdminsRemain /\ NoLeftoverInvites /\ RemovedStaysOut

\* What a new membership takes: an invitation to the organisation, made for him, or
\* founding it; a revoked one admits only a sign-in that read it before.
AdmittedRightly ==
    \A p \in Person : member'[p].id > member[p].id =>
        \/ member'[p].org \notin orgs
        \/ \E i \in DOMAIN invites, r \in Request :
             /\ invites[i].who = p /\ invites[i].org = member'[p].org
             /\ invites[i].role = member'[p].role
             /\ req[r].pc = "claim" /\ req[r].id = i
             /\ (invites[i].state = "pending" \/ invites[i].org \in raced')

\* Nobody joins an organisation but by an invitation to it or by founding it.
JoinsByInvitation == [][AdmittedRightly]_vars
=============================================================================
