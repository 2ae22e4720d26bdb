------------------------------ MODULE Approval ------------------------------
(***************************************************************************)
(* Approval ladders (services/approval_policy_service.py and               *)
(* domain/entities/approval_policy.py): a request walks through the steps  *)
(* of its policy, looked up anew at each decision.  Policies and requests  *)
(* are in-memory objects in every deployment and no handler suspends, so   *)
(* each operation is one action.  Who decides is a field of the request's  *)
(* body, not the caller.                                                   *)
(***************************************************************************)
EXTENDS Integers, Sequences, FiniteSets, FiniteSetsExt

CONSTANTS
    Person, Policy, Request,
    Step, MayDecide, Needs,  \* the approvers and delegates of a step, its required_approvals
    Optional,                \* the optional steps
    Ladders,                 \* the step lists that policies are created or updated with
    Flow, Platform,          \* workflows and platforms
    MaxDecisions             \* bound on decisions of one request

VARIABLES
    policies,  \* the policies, in the order of their creation
    requests,  \* the requests opened so far
    edited     \* history: requests whose policy changed while they were open

vars == <<policies, requests, edited>>

ApprovalAssumption ==
    /\ MayDecide \in [Step -> SUBSET Person] /\ Needs \in [Step -> Int]
    /\ Optional \subseteq Step /\ Ladders \subseteq Seq(Step) \ {<<>>}

PolicyRows == [id : Policy, steps : Ladders, enabled : BOOLEAN,
               flows : SUBSET Flow, platforms : SUBSET Platform]
Decisions == [step : Step, by : Person, approved : BOOLEAN]
OpenStatus == {"pending", "in_progress"}
RequestStatus == OpenStatus \cup {"approved", "rejected", "cancelled"}
RequestRows == [policy : Policy, ladder : Ladders, index : Nat,
                decisions : Seq(Decisions), status : RequestStatus]
Opened == DOMAIN requests

TypeOK ==
    /\ policies \in Seq(PolicyRows)
    /\ Opened \subseteq Request /\ edited \subseteq Opened
    /\ requests \in [Opened -> RequestRows]
    /\ \A r \in Opened : \E l \in Ladders : requests[r].index <= Len(l)

Init == policies = <<>> /\ requests = <<>> /\ edited = {}

Known(p) == \E k \in DOMAIN policies : policies[k].id = p
PolicyOf(p) == policies[CHOOSE k \in DOMAIN policies : policies[k].id = p]
OpenOn(p) == {r \in Opened : requests[r].policy = p /\ requests[r].status \in OpenStatus}

CreatePolicy(p) ==
    /\ ~ Known(p)
    /\ \E l \in Ladders, fs \in SUBSET Flow, ps \in SUBSET Platform :
          policies' = Append(policies, [id |-> p, steps |-> l, enabled |-> TRUE,
                                        flows |-> fs, platforms |-> ps])
    /\ UNCHANGED <<requests, edited>>

UpdatePolicy(p) ==
    /\ Known(p)
    /\ \E l \in Ladders, on \in BOOLEAN :
          /\ policies' = [k \in DOMAIN policies |-> IF policies[k].id # p THEN policies[k]
                            ELSE [policies[k] EXCEPT !.steps = l, !.enabled = on]]
          /\ edited' = IF l = PolicyOf(p).steps THEN edited ELSE edited \cup OpenOn(p)
    /\ UNCHANGED requests

DeletePolicy(p) ==
    /\ \E k \in DOMAIN policies :
          /\ policies[k].id = p
          /\ policies' = SubSeq(policies, 1, k - 1) \o SubSeq(policies, k + 1, Len(policies))
    /\ edited' = edited \cup OpenOn(p)
    /\ UNCHANGED requests

\* covers: an empty list is every workflow or platform.
Covers(row, f, pl) ==
    /\ row.enabled
    /\ row.flows = {} \/ f \in row.flows
    /\ row.platforms = {} \/ pl \in row.platforms
Specificity(row, f, pl) ==
    (IF f \in row.flows THEN 2 ELSE 0) + (IF pl \in row.platforms THEN 1 ELSE 0)

\* resolve_for: the first of the most specific policies; a stable sort.
Resolved(f, pl) ==
    {k \in DOMAIN policies : Covers(policies[k], f, pl)
        /\ \A j \in DOMAIN policies : Covers(policies[j], f, pl) =>
              \/ Specificity(policies[j], f, pl) < Specificity(policies[k], f, pl)
              \/ Specificity(policies[j], f, pl) = Specificity(policies[k], f, pl) /\ k <= j}

OpenRequest(r, f, pl) ==
    /\ r \notin Opened
    /\ \E k \in Resolved(f, pl) :
          requests' = [x \in Opened \cup {r} |-> IF x \in Opened THEN requests[x]
             ELSE [policy |-> policies[k].id, ladder |-> policies[k].steps, index |-> 0,
                   decisions |-> <<>>, status |-> "pending"]]
    /\ UNCHANGED <<policies, edited>>

On(ds, s) == {k \in DOMAIN ds : ds[k].step = s}
Rejected(ds, s) == \E k \in On(ds, s) : ~ ds[k].approved
\* Mutant of Complete: the first approval completes a step.
CompleteByOne(ds, s) == \E k \in On(ds, s) : ds[k].approved
Complete(ds, s) == Cardinality({k \in On(ds, s) : ds[k].approved}) >= Needs[s]
Passed(ds, s) == ~ Rejected(ds, s) /\ (Complete(ds, s) \/ s \in Optional)

\* advance: past every step that has passed, up to one that has not; indices
\* count from zero.
Advanced(r, ladder) ==
    LET stops == {i \in r.index .. Len(ladder) - 1 : ~ Passed(r.decisions, ladder[i + 1])}
        to == IF stops = {} THEN Max({r.index, Len(ladder)}) ELSE Min(stops)
    IN  [r EXCEPT !.index = to,
            !.status = IF stops = {} THEN "approved"
                       ELSE IF Rejected(r.decisions, ladder[to + 1]) THEN "rejected" ELSE @]

\* Mutant of Decidable: a closed request may be decided upon.
DecidableEver(r) == TRUE
Decidable(r) == requests[r].status \in OpenStatus

\* record_decision: the policy and its step at the index are looked up now; a
\* missing policy, or an index past a shortened ladder, is an error.
Decide(r, who, approved) ==
    /\ r \in Opened /\ Decidable(r) /\ Known(requests[r].policy)
    /\ Len(requests[r].decisions) < MaxDecisions
    /\ LET row == requests[r]
           ladder == PolicyOf(row.policy).steps
           at == row.index + 1
           decision == [step |-> ladder[at], by |-> who, approved |-> approved]
       IN  /\ at \in DOMAIN ladder /\ who \in MayDecide[ladder[at]]
           /\ requests' = [requests EXCEPT ![r] = Advanced(
                [row EXCEPT !.decisions = Append(row.decisions, decision),
                            !.status = "in_progress"], ladder)]
    /\ UNCHANGED <<policies, edited>>

\* cancel_request looks at no status.
CancelRequest(r) ==
    /\ r \in Opened
    /\ requests' = [requests EXCEPT ![r].status = "cancelled"]
    /\ UNCHANGED <<policies, edited>>

Next ==
    \/ \E p \in Policy : CreatePolicy(p) \/ UpdatePolicy(p) \/ DeletePolicy(p)
    \/ \E r \in Request, f \in Flow, pl \in Platform : OpenRequest(r, f, pl)
    \/ \E r \in Request, w \in Person, ok \in BOOLEAN : Decide(r, w, ok)
    \/ \E r \in Request : CancelRequest(r)

Spec == Init /\ [][Next]_vars
-----------------------------------------------------------------------------
Elements(s) == {s[k] : k \in DOMAIN s}
Approvals(r, s) == {k \in On(requests[r].decisions, s) : requests[r].decisions[k].approved}

\* Unless its policy was edited meanwhile, a request that is approved has the
\* required approvals for every step but the optional ones and no rejection,
\* and each decision is by somebody the step names.
ApprovedIsEarned ==
    \A r \in Opened \ edited : requests[r].status = "approved" =>
        /\ \A s \in Elements(requests[r].ladder) \ Optional :
              Cardinality(Approvals(r, s)) >= Needs[s]
        /\ \A k \in DOMAIN requests[r].decisions :
              /\ requests[r].decisions[k].approved
              /\ requests[r].decisions[k].by \in MayDecide[requests[r].decisions[k].step]

\* One rejection ends a request: nothing is decided after it.
RejectionIsLast ==
    \A r \in Opened : \A k \in DOMAIN requests[r].decisions :
        ~ requests[r].decisions[k].approved =>
            /\ k = Len(requests[r].decisions)
            /\ requests[r].status \in {"rejected", "cancelled"}

\* An open request whose policy stands waits at a step that asks for more, or
\* at the first one, which advance() has not looked at: if that step is optional
\* and names nobody, it is not skipped and nobody can decide.
WaitsForSomebody ==
    \A r \in Opened \ edited : requests[r].status \in OpenStatus =>
        LET at == requests[r].ladder[requests[r].index + 1] IN
        \/ at \notin Optional /\ Cardinality(Approvals(r, at)) < Needs[at]
        \/ requests[r].index = 0 /\ requests[r].decisions = <<>>

\* The n of an n-of-m sign-off are n different people. The code counts
\* decisions: one approver can decide n times.
QuorumIsPeople ==
    \A r \in Opened \ edited : requests[r].status = "approved" =>
        \A s \in Elements(requests[r].ladder) \ Optional :
            Cardinality({requests[r].decisions[k].by : k \in Approvals(r, s)}) >= Needs[s]
=============================================================================
