----------------------------- MODULE MCTaskQueue -----------------------------
(* The TLC instance of TaskQueue: as many workers, messages and addresses  *)
(* as it takes for the allocator to reuse an address and for one worker to *)
(* work while another sleeps and a third is woken for nothing.             *)
EXTENDS TaskQueue
=============================================================================
