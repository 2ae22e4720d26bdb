----------------------------- MODULE MCJobQueue -----------------------------
(* Small instances of JobQueue: two jobs, the second of lower priority.    *)
EXTENDS JobQueue

CONSTANTS j1, j2, w1, w2, w3, p1, p2

MCPriority == [j \in Jobs |-> IF j = j1 THEN 100 ELSE 200]
TwoPools == [w \in Workers |-> IF w = w1 THEN p1 ELSE p2]
=============================================================================
