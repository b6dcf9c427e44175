-------------------------------- MODULE Fifo --------------------------------
(***************************************************************************)
(* What the task queue of AsyncDataListener.cc promises, without memory,   *)
(* locks or condition variables: a message is put once at the back, taken  *)
(* once from the front by some worker, and handled by that worker.         *)
(***************************************************************************)
EXTENDS Naturals, Sequences

CONSTANTS Workers,   \* the threads that take messages
          Messages,  \* the messages that may ever be put
          NULL       \* not a message: what a worker without a message holds

NullIsNoMessage == NULL \notin Messages

VARIABLES accepted,  \* the messages put so far
          queue,     \* the messages put and not yet taken, oldest first
          held,      \* held[w]: the message w has taken and not finished
          done       \* the messages some worker has finished

vars == <<accepted, queue, held, done>>

Init ==
    /\ accepted = {}
    /\ queue = <<>>
    /\ held = [w \in Workers |-> NULL]
    /\ done = {}

Put(m) ==
    /\ m \notin accepted
    /\ accepted' = accepted \cup {m}
    /\ queue' = Append(queue, m)
    /\ UNCHANGED <<held, done>>

Take(w) ==
    /\ held[w] = NULL
    /\ queue # <<>>
    /\ held' = [held EXCEPT ![w] = Head(queue)]
    /\ queue' = Tail(queue)
    /\ UNCHANGED <<accepted, done>>

Finish(w) ==
    /\ held[w] # NULL
    /\ done' = done \cup {held[w]}
    /\ held' = [held EXCEPT ![w] = NULL]
    /\ UNCHANGED <<accepted, queue>>

Next ==
    \/ \E m \in Messages : Put(m)
    \/ \E w \in Workers : Take(w) \/ Finish(w)

Spec == Init /\ [][Next]_vars
-----------------------------------------------------------------------------
TypeOK ==
    /\ accepted \in SUBSET Messages
    /\ queue \in Seq(Messages)
    /\ held \in [Workers -> Messages \cup {NULL}]
    /\ done \in SUBSET Messages

Queued == {queue[i] : i \in 1..Len(queue)}
Taken == {held[w] : w \in Workers} \ {NULL}

(* Every accepted message is in exactly one place: still queued, in the    *)
(* hands of exactly one worker, or finished; none is lost or duplicated.   *)
ExactlyOnce ==
    /\ accepted = Queued \cup Taken \cup done
    /\ \A i, j \in 1..Len(queue) : queue[i] = queue[j] => i = j
    /\ \A v, w \in Workers : held[v] = held[w] /\ held[v] # NULL => v = w
    /\ Queued \cap Taken = {}
    /\ Queued \cap done = {}
    /\ Taken \cap done = {}
=============================================================================
