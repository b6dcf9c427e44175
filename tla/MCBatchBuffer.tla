---------------------------- MODULE MCBatchBuffer ----------------------------
(* TLC instances of BatchBuffer. The thresholds cover the three cases: a   *)
(* batch of several rows, a batch of one, and 0 as a missing parameter     *)
(* leaves it (the ssd table with the datapool.conf of the repository).     *)
EXTENDS BatchBuffer

CONSTANTS batch, single, unset

ThreeTables ==
    [t \in {batch, single, unset} |->
        CASE t = batch -> 2 [] t = single -> 1 [] t = unset -> 0]
=============================================================================
