---------------------------- MODULE MCAccountAccess ----------------------------
(* Small instances of AccountAccess for TLC.                               *)
EXTENDS AccountAccess, TLC

CONSTANTS r1, r2, v1, v2, v3, g1

Symmetry == Permutations(Requests)
=============================================================================
