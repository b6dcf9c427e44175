------------------------------ MODULE MCShutdown ------------------------------
(* A TLC instance of Shutdown.                                             *)
EXTENDS Shutdown
=============================================================================
