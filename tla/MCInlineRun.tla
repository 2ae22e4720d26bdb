----------------------------- MODULE MCInlineRun -----------------------------
(* Small instances of InlineRun.                                           *)
EXTENDS InlineRun, TLC

CONSTANTS a1, a2, q1, q2, x, y, t1

\* Requests, reviewers and accounts are interchangeable.
Alike == Permutations(Requests) \cup Permutations(Actors) \cup Permutations(Platforms)
=============================================================================
