----------------------------- MODULE MCService -----------------------------
(* Small instances of the parts of Service. *)
EXTENDS Service, TLC

CONSTANTS ada, bob, cyd, acme, beta, r1, r2,      \* Membership
          w1, w2,                                 \* AuditChain, DataPrivacy
          post, flow, channel, export, erasure, e1

\* A post names its platform and goes with its workflow.
MCTableOf == post :> "posts" @@ flow :> "workflows" @@ channel :> "platforms"
MCCascadesWith == post :> {flow} @@ flow :> {} @@ channel :> {}
MCKeptBy == post :> {channel} @@ flow :> {} @@ channel :> {}
MCDeleteOrder == <<"posts", "workflows", "platforms">>
MCExportOrder == <<"platforms", "workflows", "posts">>
MCKindOf == export :> "export" @@ erasure :> "delete"
MCPeriod == [k \in Periodic |-> IF k = "jobs.cleanup" THEN 3 ELSE 2]

ASSUME ServiceAssumption

Sym == Permutations(Person) \cup Permutations(Writer)
=============================================================================
