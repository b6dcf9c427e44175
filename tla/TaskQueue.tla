------------------------------ MODULE TaskQueue ------------------------------
(***************************************************************************)
(* The hand-over of messages from the epoll thread to the pool of worker   *)
(* threads (src/bin/AsyncDataListener.cc): a singly linked list of heap    *)
(* allocated tasks between readhead and readtail, one mutex, one condition *)
(* variable, the listener linking tasks in read_message and every worker   *)
(* unlinking them in handle_message.                                       *)
(*                                                                         *)
(* A step is the code between two points at which another thread may see   *)
(* or change the shared state; the body of the dispatch (what a message    *)
(* does to the database or to the sensor map) is one step here.            *)
(***************************************************************************)
EXTENDS Naturals, Sequences

CONSTANTS Workers,   \* the threads running handle_message
          Listener,  \* the thread running the epoll loop
          Messages,  \* decoded messages: CollectData, SNMPData, Action
          Nodes,     \* the addresses `new task()` may return
          NULL

ASSUME TaskQueueAssumption ==
    /\ Listener \notin Workers
    /\ NULL \notin Messages \cup Nodes \cup Workers \cup {Listener}

Threads == Workers \cup {Listener}

VARIABLES mutex,     \* the thread that owns `mutex`, or NULL
          readhead, readtail,
          next, data,\* the fields of each task
          live,      \* the allocated tasks
          cnt,
          pc,        \* where each thread is
          tmp,       \* handle_message's local tmp, per worker
          msg,       \* handle_message's local msg_data, per worker
          new,       \* read_message's local new_task
          arrived,   \* the messages the listener has read so far
          done,      \* the messages some worker has finished with
          order      \* history only: the linked tasks, oldest first

memory == <<next, data, live>>
list   == <<readhead, readtail, cnt, order>>
locals == <<tmp, msg>>
vars == <<mutex, list, memory, pc, locals, new, arrived, done>>

Init ==
    /\ mutex = NULL
    /\ readhead = NULL /\ readtail = NULL /\ cnt = 0 /\ order = <<>>
    /\ next = [n \in Nodes |-> NULL]
    /\ data = [n \in Nodes |-> NULL]
    /\ live = {}
    /\ pc = [t \in Threads |-> IF t = Listener THEN "read" ELSE "lock"]
    /\ tmp = [w \in Workers |-> NULL]
    /\ msg = [w \in Workers |-> NULL]
    /\ new = NULL
    /\ arrived = {}
    /\ done = {}

Goto(t, label) == pc' = [pc EXCEPT ![t] = label]
-----------------------------------------------------------------------------
(* An operator whose name ends in _M is a fault of the operator below it,  *)
(* seeded to show that a property can tell the two apart; no behaviour     *)
(* uses it.                                                                *)
NoBroadcast_M(label) == label

(* pthread_cond_broadcast: every thread waiting on cond1 goes on to take   *)
(* the mutex again.                                                        *)
Broadcast(label) == [t \in Threads |-> IF label[t] = "wait" THEN "lock"
                                                           ELSE label[t]]

(* read_message has decoded m and allocates its task.                      *)
ReadMessage(m) ==
    /\ pc[Listener] = "read"
    /\ m \notin arrived
    /\ arrived' = arrived \cup {m}
    /\ \E n \in Nodes \ live :
          /\ new' = n
          /\ live' = live \cup {n}
          /\ next' = [next EXCEPT ![n] = NULL]
          /\ data' = [data EXCEPT ![n] = m]
    /\ Goto(Listener, "acquire")
    /\ UNCHANGED <<mutex, list, locals, done>>

ListenerLock ==
    /\ pc[Listener] = "acquire"
    /\ mutex = NULL
    /\ mutex' = Listener
    /\ Goto(Listener, "link")
    /\ UNCHANGED <<list, memory, locals, new, arrived, done>>

(* What linking a task does besides setting the pointers.                  *)
Linking ==
    /\ pc[Listener] = "link"
    /\ order' = Append(order, new)
    /\ new' = NULL
    /\ pc' = [Broadcast(pc) EXCEPT ![Listener] = "release"]
    /\ UNCHANGED <<mutex, data, live, locals, arrived, done>>

AtTail ==
    \/ /\ readhead = NULL
       /\ readhead' = new
       /\ next' = next
    \/ /\ readhead # NULL
       /\ next' = [next EXCEPT ![readtail] = new]
       /\ readhead' = readhead

Uncounted_M == Linking /\ AtTail /\ readtail' = new /\ cnt' = cnt
InFront_M ==
    /\ pc[Listener] = "link"
    /\ order' = <<new>> \o order /\ cnt' = cnt + 1
    /\ readhead' = new
    /\ readtail' = IF readhead = NULL THEN new ELSE readtail
    /\ next' = [next EXCEPT ![new] = readhead]
    /\ new' = NULL
    /\ pc' = [Broadcast(pc) EXCEPT ![Listener] = "release"]
    /\ UNCHANGED <<mutex, data, live, locals, arrived, done>>

Link == Linking /\ AtTail /\ readtail' = new /\ cnt' = cnt + 1

ListenerUnlock ==
    /\ pc[Listener] = "release"
    /\ mutex' = NULL
    /\ Goto(Listener, "read")
    /\ UNCHANGED <<list, memory, locals, new, arrived, done>>
-----------------------------------------------------------------------------
Unlocked_M(w) ==
    /\ pc[w] = "lock"
    /\ mutex' = w
    /\ Goto(w, "test")
    /\ UNCHANGED <<list, memory, locals, new, arrived, done>>

(* Taking the mutex, on entry to the loop and again inside                 *)
(* pthread_cond_wait once woken.                                           *)
WorkerLock(w) ==
    /\ pc[w] = "lock"
    /\ mutex = NULL
    /\ mutex' = w
    /\ Goto(w, "test")
    /\ UNCHANGED <<list, memory, locals, new, arrived, done>>

(* The list is empty: pthread_cond_wait gives the mutex up and sleeps.     *)
Wait(w) ==
    /\ pc[w] = "test"
    /\ readhead = NULL
    /\ mutex' = NULL
    /\ Goto(w, "wait")
    /\ UNCHANGED <<list, memory, locals, new, arrived, done>>

(* POSIX lets pthread_cond_wait return without a signal.                   *)
SpuriousWake(w) ==
    /\ pc[w] = "wait"
    /\ Goto(w, "lock")
    /\ UNCHANGED <<mutex, list, memory, locals, new, arrived, done>>

TailPeeked_M(w) ==
    /\ pc[w] = "test"
    /\ readhead # NULL
    /\ tmp' = [tmp EXCEPT ![w] = readhead]
    /\ msg' = [msg EXCEPT ![w] = data[readtail]]
    /\ Goto(w, "pop")
    /\ UNCHANGED <<mutex, list, memory, new, arrived, done>>

Peek(w) ==
    /\ pc[w] = "test"
    /\ readhead # NULL
    /\ tmp' = [tmp EXCEPT ![w] = readhead]
    /\ msg' = [msg EXCEPT ![w] = data[readhead]]
    /\ Goto(w, "pop")
    /\ UNCHANGED <<mutex, list, memory, new, arrived, done>>

Pop(w) ==
    /\ pc[w] = "pop"
    /\ readhead' = next[readhead]
    /\ order' = Tail(order)
    /\ live' = live \ {tmp[w]}
    /\ tmp' = [tmp EXCEPT ![w] = NULL]
    /\ cnt' = cnt - 1
    /\ Goto(w, "unlock")
    /\ UNCHANGED <<mutex, readtail, next, data, msg, new, arrived, done>>

WorkerUnlock(w) ==
    /\ pc[w] = "unlock"
    /\ mutex' = NULL
    /\ Goto(w, "work")
    /\ UNCHANGED <<list, memory, locals, new, arrived, done>>

(* The dispatch on the message type, which ends by deleting the message.   *)
Handle(w) ==
    /\ pc[w] = "work"
    /\ done' = done \cup {msg[w]}
    /\ msg' = [msg EXCEPT ![w] = NULL]
    /\ Goto(w, "lock")
    /\ UNCHANGED <<mutex, list, memory, tmp, new, arrived>>
-----------------------------------------------------------------------------
ListenerStep ==
    \/ \E m \in Messages : ReadMessage(m)
    \/ ListenerLock \/ Link \/ ListenerUnlock

(* What worker w does without the help of the operating system.            *)
WorkerStep(w) ==
    WorkerLock(w) \/ Wait(w) \/ Peek(w) \/ Pop(w) \/ WorkerUnlock(w) \/ Handle(w)

Next == ListenerStep \/ \E w \in Workers : WorkerStep(w) \/ SpuriousWake(w)

Spec == Init /\ [][Next]_vars

(* A thread that can run eventually runs; the handlers return. Nothing is  *)
(* assumed of the order in which the mutex is granted, and a spurious wake *)
(* need never happen.                                                      *)
FairSpec == Spec /\ WF_vars(ListenerStep)
                 /\ \A w \in Workers : WF_vars(WorkerStep(w))
-----------------------------------------------------------------------------
(* Every variable ranges over what its C++ type and the program allow.     *)
TypeOK ==
    /\ mutex \in Threads \cup {NULL}
    /\ readhead \in Nodes \cup {NULL}
    /\ readtail \in Nodes \cup {NULL}
    /\ next \in [Nodes -> Nodes \cup {NULL}]
    /\ data \in [Nodes -> Messages \cup {NULL}]
    /\ live \in SUBSET Nodes
    /\ cnt \in Nat
    /\ pc \in [Threads -> {"lock", "test", "wait", "pop", "unlock", "work",
                           "read", "acquire", "link", "release"}]
    /\ pc[Listener] \in {"read", "acquire", "link", "release"}
    /\ \A w \in Workers : pc[w] \notin {"read", "acquire", "link", "release"}
    /\ tmp \in [Workers -> Nodes \cup {NULL}]
    /\ msg \in [Workers -> Messages \cup {NULL}]
    /\ new \in Nodes \cup {NULL}
    /\ arrived \in SUBSET Messages
    /\ done \in SUBSET Messages
    /\ order \in Seq(Nodes)

Holding(t) == pc[t] \in {"test", "pop", "unlock", "link", "release"}

(* No two threads are between lock and unlock.                             *)
Mutual == \A t \in Threads : Holding(t) <=> mutex = t

Linked == {order[i] : i \in 1..Len(order)}

(* readhead, readtail, the next pointers and cnt describe one and the same *)
(* list, which has no cycle and contains every task in the order it was    *)
(* linked; readtail is only meaningful while readhead is not NULL.         *)
ListShape ==
    /\ cnt = Len(order)
    /\ readhead = IF order = <<>> THEN NULL ELSE order[1]
    /\ order # <<>> => readtail = order[Len(order)]
    /\ \A i \in 1..Len(order) :
          next[order[i]] = IF i = Len(order) THEN NULL ELSE order[i + 1]
    /\ \A i, j \in 1..Len(order) : order[i] = order[j] => i = j

(* Tasks are freed exactly when they leave the list: whatever the threads  *)
(* are about to dereference or delete is allocated, and nothing but the    *)
(* linked tasks and the one in the listener's hands is.                    *)
NoDanglingAccess ==
    /\ live = Linked \cup ({new} \ {NULL})
    /\ new \notin Linked /\ (new # NULL => next[new] = NULL)
    /\ pc[Listener] \in {"acquire", "link"} <=> new # NULL
    /\ pc[Listener] = "link" /\ readhead # NULL => readtail \in live
    /\ \A w \in Workers : pc[w] = "pop" => tmp[w] \in live /\ readhead = tmp[w]

(* A worker sleeps only while there is nothing to do: no wakeup is lost    *)
(* between testing readhead and going to sleep.                            *)
NoSleeperWhileWork ==
    (\E w \in Workers : pc[w] = "wait") => readhead = NULL

(* The task a worker has peeked at stays the head until it pops it.        *)
PeekedIsHead ==
    \A w \in Workers : pc[w] = "pop" => order # <<>> /\ msg[w] = data[order[1]]

(* Allocated tasks, and workers past the peek, carry a message.            *)
CarriesMessage ==
    /\ \A n \in live : data[n] \in Messages
    /\ \A w \in Workers : pc[w] \in {"pop", "unlock", "work"} => msg[w] \in Messages

(* The message in the listener's hands is one it has read.                 *)
ReadAlready == new # NULL => data[new] \in arrived

(* The inductive invariant.                                                *)
IInv == /\ TypeOK
        /\ Mutual
        /\ ListShape
        /\ NoDanglingAccess
        /\ NoSleeperWhileWork
        /\ PeekedIsHead
        /\ CarriesMessage
        /\ ReadAlready

InHand == IF new = NULL THEN {} ELSE {data[new]}

(* The list as the abstract queue sees it.                                 *)
AbsAccepted == arrived \ InHand
AbsQueue == [i \in 1..Len(order) |-> data[order[i]]]
AbsHeld == [w \in Workers |-> IF pc[w] \in {"unlock", "work"} THEN msg[w] ELSE NULL]

F == INSTANCE Fifo WITH accepted <- AbsAccepted, queue <- AbsQueue, held <- AbsHeld

(* Every message that was linked is in exactly one place until it is       *)
(* handled, and is handled once.                                           *)
ExactlyOnce == F!ExactlyOnce

(* The linked list under its mutex implements the FIFO queue.              *)
ImplementsFifo == F!Spec

(* Every message that was linked is handled, whichever threads win the     *)
(* mutex and however often they wake for nothing.                          *)
EveryMessageHandled ==
    \A m \in Messages : (m \in arrived \ InHand) ~> (m \in done)
=============================================================================
