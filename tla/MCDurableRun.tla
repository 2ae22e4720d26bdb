---------------------------- MODULE MCDurableRun ----------------------------
(* Small instances of DurableRun: drafts that repeat a platform, accounts   *)
(* that lack one of them or that a lookup may miss.                        *)
EXTENDS DurableRun, TLC

CONSTANTS a, b, e1, e2

OneDraft == <<a>>
TwoOfOne == <<a, a>>
ThreeDrafts == <<a, b, a>>

OneAccount == <<a>>
TwoAccounts == <<b, a>>

\* The consumers are interchangeable.
ConsumersAlike == Permutations(Executors)
=============================================================================
