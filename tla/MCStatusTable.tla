---------------------------- MODULE MCStatusTable ----------------------------
(* Instances of StatusTable for TLC.                                       *)
EXTENDS StatusTable, TLC

CONSTANTS w1, w2, k1, k2

Symmetry == Permutations({w1, w2}) \cup Permutations({k1, k2})
=============================================================================
