------------------------------- MODULE Shutdown -------------------------------
(***************************************************************************)
(* SIGINT while the pool is running: sig_handler (AsyncDataListener.cc)    *)
(* runs on whichever thread the system delivers the signal to, in the      *)
(* middle of whatever that thread was doing, and walks the task list       *)
(* without taking the mutex. The other threads keep running until exit(0). *)
(***************************************************************************)
EXTENDS TaskQueue

CONSTANT Bystander   \* a thread that does not use the list: calcSpeed

VARIABLES host,      \* the thread sig_handler runs on, or NULL
          hpc,       \* where sig_handler is
          htmp,      \* its local tmp
          released   \* the messages it has deleted

hvars == <<host, hpc, htmp, released>>

SInit == Init /\ host = NULL /\ hpc = "off" /\ htmp = NULL /\ released = {}

Interrupt(t) ==
    /\ hpc = "off"
    /\ host' = t /\ hpc' = "test"
    /\ UNCHANGED <<vars, htmp, released>>

(* The loop test, and the deletion of the message the head carries.        *)
DeleteMessage ==
    /\ hpc = "test"
    /\ readhead # NULL
    /\ htmp' = readhead
    /\ released' = released \cup {data[readhead]}
    /\ hpc' = "pop"
    /\ UNCHANGED <<vars, host>>

(* Head and head->next are read again after the deletion.                  *)
DeleteTask ==
    /\ hpc = "pop"
    /\ IF readhead = NULL
       THEN hpc' = "crash" /\ UNCHANGED <<readhead, order, live>>
       ELSE /\ hpc' = "test"
            /\ readhead' = next[readhead]
            /\ order' = Tail(order)
            /\ live' = live \ {htmp}
    /\ UNCHANGED <<mutex, readtail, cnt, next, data, pc, locals, new, arrived, done>>
    /\ UNCHANGED <<host, htmp, released>>

(* releaseResource and exit(0).                                            *)
Exit ==
    /\ hpc = "test"
    /\ readhead = NULL
    /\ hpc' = "exit"
    /\ UNCHANGED <<vars, host, htmp, released>>

Running == hpc \notin {"exit", "crash"}

SNext ==
    \/ /\ Running
       /\ \/ host # Listener /\ ListenerStep
          \/ \E w \in Workers \ {host} : WorkerStep(w) \/ SpuriousWake(w)
       /\ UNCHANGED hvars
    \/ \E t \in Threads \cup {Bystander} : Interrupt(t)
    \/ DeleteMessage \/ DeleteTask \/ Exit

SSpec == SInit /\ [][SNext]_<<vars, hvars>>
-----------------------------------------------------------------------------
(* AsyncDataListener.cc:216 says that the handler will "release the        *)
(* task_queue": it releases what is in the queue, not a message that a     *)
(* worker has already taken out of it.                                     *)
ReleasesQueueOnly ==
    \A w \in Workers : pc[w] \in {"unlock", "work"} => msg[w] \notin released
=============================================================================
