---------------------------- MODULE MCItemLedger ----------------------------
(* Small instances of ItemLedger.                                          *)
EXTENDS ItemLedger, TLC

CONSTANTS i1, i2, r1, r2, x, y, d1

\* Runs, items and accounts are interchangeable.
Alike == Permutations(Runs) \cup Permutations(Items) \cup Permutations(Accounts)
=============================================================================
