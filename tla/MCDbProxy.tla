------------------------------ MODULE MCDbProxy ------------------------------
(* A TLC instance of DbProxy with unequal retry budgets, one of them such  *)
(* that errors of different kinds can follow each other.                   *)
EXTENDS DbProxy

Budgets == [d \in Databases |-> IF d = "common" THEN 2 ELSE 1]
=============================================================================
