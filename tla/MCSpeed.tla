------------------------------- MODULE MCSpeed -------------------------------
(* An instance of Speed for TLC.                                           *)
EXTENDS Speed, TLC

CONSTANTS w1, w2

Symmetry == Permutations(Workers)
=============================================================================
