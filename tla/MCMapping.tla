------------------------------ MODULE MCMapping ------------------------------
(* A TLC instance of Mapping: two workers that may get an update, two that *)
(* may get data, and one that may get an initial map.                      *)
EXTENDS Mapping, TLC
CONSTANTS w1, w2, w3, s1, s2
=============================================================================
