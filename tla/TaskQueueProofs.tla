--------------------------- MODULE TaskQueueProofs ---------------------------
(* Proofs about the task queue, for any pool of workers, any messages and  *)
(* any set of addresses.                                                   *)
EXTENDS TaskQueue, SequenceTheorems, TLAPS

(* What Append and Tail do, in the form the steps below use.               *)
LEMMA AppendFacts ==
    ASSUME NEW S, NEW s \in Seq(S), NEW x \in S
    PROVE  /\ Append(s, x) \in Seq(S)
           /\ Append(s, x) # <<>>
           /\ Len(Append(s, x)) = Len(s) + 1
           /\ \A i \in 1..Len(s) : Append(s, x)[i] = s[i]
           /\ Append(s, x)[Len(s) + 1] = x
  OBVIOUS

(* What is left of a sequence whose first element is taken.                *)
LEMMA TailFacts ==
    ASSUME NEW S, NEW s \in Seq(S), s # <<>>
    PROVE  /\ Len(s) \in Nat \ {0}
           /\ Tail(s) \in Seq(S)
           /\ Len(Tail(s)) = Len(s) - 1
           /\ \A i \in 1..Len(s) - 1 : Tail(s)[i] = s[i + 1]
           /\ Tail(s) = <<>> <=> Len(s) = 1
           /\ s[1] \in S
<1>1. /\ Len(s) \in Nat \ {0}
      /\ Tail(s) \in Seq(S)
      /\ Len(Tail(s)) = Len(s) - 1
      /\ \A i \in 1..Len(s) - 1 : Tail(s)[i] = s[i + 1]
      /\ s[1] \in S
  OBVIOUS
<1>2. Tail(s) = <<>> <=> Len(Tail(s)) = 0
  BY <1>1, EmptySeq
<1>3. QED
  BY <1>1, <1>2
-----------------------------------------------------------------------------
(* The steps that move a thread and the mutex only.                        *)
LEMMA MoveStep ==
    ASSUME IInv, NEW t \in Threads, NEW a, NEW b, pc[t] = a, pc' = [pc EXCEPT ![t] = b],
           UNCHANGED <<list, memory, locals, new, arrived, done>>,
           \/ t = Listener /\ a = "acquire" /\ b = "link" /\ mutex = NULL /\ mutex' = t
           \/ t = Listener /\ a = "release" /\ b = "read" /\ mutex' = NULL
           \/ t # Listener /\ a = "lock" /\ b = "test" /\ mutex = NULL /\ mutex' = t
           \/ t # Listener /\ a = "test" /\ b = "wait" /\ readhead = NULL /\ mutex' = NULL
           \/ t # Listener /\ a = "wait" /\ b = "lock" /\ mutex' = mutex
           \/ t # Listener /\ a = "unlock" /\ b = "work" /\ mutex' = NULL
    PROVE  IInv'
<1> USE TaskQueueAssumption DEF IInv, Threads, list, memory, locals
<1>1. TypeOK'
  BY DEF TypeOK
<1>2. Mutual'
  BY DEF TypeOK, Mutual, Holding
<1>3. ListShape'
  BY DEF ListShape
<1>4. NoDanglingAccess'
  <2>1. UNCHANGED <<readhead, readtail, live, order, new, tmp>>
    OBVIOUS
  <2>2. Linked' = Linked
    BY <2>1 DEF Linked
  <2>3. (pc[Listener] \in {"acquire", "link"})' <=> pc[Listener] \in {"acquire", "link"}
    BY DEF TypeOK
  <2>4. \A w \in Workers : pc'[w] = "pop" => pc[w] = "pop"
    BY DEF TypeOK
  <2>5. (pc[Listener] = "link" /\ readhead # NULL => readtail \in live)'
    BY <2>1 DEF TypeOK, NoDanglingAccess, ListShape, Linked
  <2>6. QED
    BY <2>1, <2>2, <2>3, <2>4, <2>5 DEF NoDanglingAccess
<1>5. NoSleeperWhileWork'
  BY DEF TypeOK, NoSleeperWhileWork
<1>6. PeekedIsHead'
  BY DEF TypeOK, PeekedIsHead
<1>7. CarriesMessage'
  BY DEF TypeOK, CarriesMessage
<1>8. ReadAlready'
  BY DEF ReadAlready
<1>9. QED
  BY <1>1, <1>2, <1>3, <1>4, <1>5, <1>6, <1>7, <1>8

(* new task() returns an address that is not allocated, so not linked.     *)
LEMMA ReadMessageStep ==
    ASSUME IInv, NEW m \in Messages, ReadMessage(m)
    PROVE  IInv'
<1> USE TaskQueueAssumption DEF IInv, Threads, list, memory, locals
<1>1. PICK n \in Nodes \ live :
         /\ new' = n
         /\ live' = live \cup {n}
         /\ next' = [next EXCEPT ![n] = NULL]
         /\ data' = [data EXCEPT ![n] = m]
  BY DEF ReadMessage
<1>2. /\ pc[Listener] = "read" /\ new = NULL
      /\ pc' = [pc EXCEPT ![Listener] = "acquire"]
      /\ UNCHANGED <<mutex, list, locals, done>>
  BY DEF ReadMessage, Goto, NoDanglingAccess
<1>3. n \notin Linked /\ live = Linked
  BY <1>1, <1>2 DEF NoDanglingAccess
<1>4. \A i \in 1..Len(order) : order[i] # n
  BY <1>3 DEF Linked
<1>5. TypeOK'
  BY <1>1, <1>2 DEF TypeOK, ReadMessage
<1>6. Mutual'
  BY <1>2 DEF TypeOK, Mutual, Holding
<1>7. ListShape'
  BY <1>1, <1>2, <1>4 DEF TypeOK, ListShape
<1>8. NoDanglingAccess'
  BY <1>1, <1>2, <1>3 DEF TypeOK, NoDanglingAccess, Linked
<1>9. NoSleeperWhileWork'
  BY <1>2 DEF TypeOK, NoSleeperWhileWork
<1>10. PeekedIsHead'
  BY <1>1, <1>2, <1>4 DEF TypeOK, PeekedIsHead
<1>11. CarriesMessage'
  BY <1>1, <1>2 DEF TypeOK, CarriesMessage
<1>12. ReadAlready'
  BY <1>1, <1>2 DEF ReadAlready, ReadMessage, TypeOK
<1>13. QED
  BY <1>5, <1>6, <1>7, <1>8, <1>9, <1>10, <1>11, <1>12

(* Linking a task, on the empty list and on a list with a tail.            *)
LEMMA LinkStep ==
    ASSUME IInv, Link
    PROVE  IInv'
<1> USE TaskQueueAssumption DEF IInv, Threads, list, memory, locals
<1> DEFINE k == Len(order)
<1>1. /\ pc[Listener] = "link" /\ mutex = Listener
      /\ new \in live /\ new \in Nodes /\ new # NULL /\ new \notin Linked
      /\ order \in Seq(Nodes) /\ k \in Nat
  BY DEF Link, Linking, AtTail, TypeOK, NoDanglingAccess, Mutual, Holding
<1>2. /\ order' = Append(order, new) /\ new' = NULL /\ readtail' = new
      /\ cnt' = cnt + 1
      /\ UNCHANGED <<mutex, data, live, locals, arrived, done>>
  BY DEF Link, Linking, AtTail
<1>3. /\ pc'[Listener] = "release"
      /\ \A w \in Workers : pc'[w] = IF pc[w] = "wait" THEN "lock" ELSE pc[w]
      /\ pc' \in [Threads -> {"lock", "test", "wait", "pop", "unlock", "work",
                           "read", "acquire", "link", "release"}]
  BY DEF Link, Linking, AtTail, Broadcast, TypeOK
<1>4. /\ order' \in Seq(Nodes) /\ order' # <<>> /\ Len(order') = k + 1
      /\ \A i \in 1..k : order'[i] = order[i]
      /\ order'[k + 1] = new
  BY <1>1, <1>2, AppendFacts
<1>5. \A i \in 1..k : order[i] \in Nodes /\ order[i] # new /\ order[i] \in Linked
  BY <1>1 DEF Linked
<1>6. next[new] = NULL
  BY <1>1 DEF NoDanglingAccess
<1>7. TypeOK'
  <2>1. readtail' \in Nodes /\ next' \in [Nodes -> Nodes \cup {NULL}]
        /\ readhead' \in Nodes \cup {NULL}
    BY <1>1, <1>2 DEF Link, Linking, AtTail, TypeOK
  <2>2. QED
    BY <2>1, <1>1, <1>2, <1>3, <1>4 DEF TypeOK
<1>8. Mutual'
  <2>1. mutex' = mutex /\ \A t \in Threads : Holding(t)' <=> Holding(t)
    BY <1>1, <1>2, <1>3 DEF Holding, TypeOK
  <2>2. QED
    BY <2>1 DEF Mutual
<1>9. ListShape'
  <2>1. CASE order = <<>>
    <3>1. k = 0 /\ readhead' = new /\ next' = next
      BY <2>1, <1>1 DEF ListShape, Link, Linking, AtTail
    <3>2. QED
      BY <3>1, <1>2, <1>4, <1>6 DEF ListShape
  <2>2. CASE order # <<>>
    <3>1. k \in Nat \ {0} /\ readhead = order[1] /\ readtail = order[k]
      BY <2>2, <1>1, EmptySeq DEF ListShape
    <3>2. readhead' = readhead /\ next' = [next EXCEPT ![order[k]] = new]
      BY <3>1, <1>5 DEF Link, Linking, AtTail
    <3>3. \A i \in 1..k : order[i] = order[k] => i = k
      BY <3>1 DEF ListShape
    <3>4. \A i \in 1..k + 1 : next'[order'[i]] =
                              IF i = k + 1 THEN NULL ELSE order'[i + 1]
      <4>1. ASSUME NEW i \in 1..k + 1, i # k, i # k + 1
            PROVE  next'[order'[i]] = order'[i + 1]
        <5>1. i \in 1..k /\ i + 1 \in 1..k /\ order[i] # order[k]
          BY <4>1, <3>3, <1>1
        <5>2. next[order[i]] = order[i + 1]
          BY <5>1, <4>1 DEF ListShape
        <5>3. QED
          BY <5>1, <5>2, <3>2, <1>4, <1>5 DEF TypeOK
      <4>2. next'[order'[k]] = order'[k + 1]
        BY <3>1, <3>2, <1>4, <1>5 DEF TypeOK
      <4>3. next'[order'[k + 1]] = NULL
        BY <3>1, <3>2, <1>1, <1>4, <1>5, <1>6 DEF TypeOK
      <4>4. QED
        BY <4>1, <4>2, <4>3, <1>1
    <3>5. \A i, j \in 1..k + 1 : order'[i] = order'[j] => i = j
      BY <1>1, <1>4, <1>5 DEF ListShape
    <3>6. order'[1] = order[1]
      BY <3>1, <1>4
    <3>7. QED
      BY <3>1, <3>2, <3>4, <3>5, <3>6, <1>2, <1>4 DEF ListShape
  <2>3. QED
    BY <2>1, <2>2
<1>10. NoDanglingAccess'
  <2>1. Linked' = Linked \cup {new}
    BY <1>1, <1>4, <1>5 DEF Linked
  <2>2. NULL \notin Linked'
    BY <2>1, <1>1, <1>5 DEF Linked
  <2>3. \A w \in Workers : pc'[w] # "pop"
    BY <1>1, <1>3 DEF Mutual, Holding
  <2>4. QED
    BY <2>1, <2>2, <2>3, <1>1, <1>2, <1>3 DEF NoDanglingAccess
<1>11. NoSleeperWhileWork'
  BY <1>3 DEF NoSleeperWhileWork
<1>12. PeekedIsHead'
  BY <1>1, <1>3 DEF Mutual, Holding, PeekedIsHead
<1>13. CarriesMessage'
  BY <1>2, <1>3 DEF TypeOK, CarriesMessage
<1>14. ReadAlready'
  BY <1>2 DEF ReadAlready
<1>15. QED
  BY <1>7, <1>8, <1>9, <1>10, <1>11, <1>12, <1>13, <1>14

(* Reading the head under the mutex.                                       *)
LEMMA PeekStep ==
    ASSUME IInv, NEW w \in Workers, Peek(w)
    PROVE  IInv'
<1> USE TaskQueueAssumption DEF IInv, Threads, list, memory, locals
<1>1. /\ pc[w] = "test" /\ mutex = w /\ readhead # NULL
      /\ pc' = [pc EXCEPT ![w] = "pop"]
      /\ tmp' = [tmp EXCEPT ![w] = readhead]
      /\ msg' = [msg EXCEPT ![w] = data[readhead]]
      /\ UNCHANGED <<mutex, list, memory, new, arrived, done>>
  BY DEF Peek, Goto, Mutual, Holding
<1>2. order # <<>> /\ readhead = order[1] /\ order[1] \in Linked /\ order[1] \in Nodes
  <2>1. order # <<>> /\ readhead = order[1]
    BY <1>1 DEF ListShape
  <2>2. Len(order) \in Nat \ {0}
    BY <2>1, EmptySeq DEF TypeOK
  <2>3. QED
    BY <2>1, <2>2 DEF Linked, TypeOK
<1>3. readhead \in live /\ data[readhead] \in Messages
  BY <1>2 DEF NoDanglingAccess, CarriesMessage
<1>4. TypeOK'
  BY <1>1, <1>2, <1>3 DEF TypeOK
<1>5. Mutual'
  BY <1>1 DEF TypeOK, Mutual, Holding
<1>6. ListShape'
  BY <1>1 DEF ListShape
<1>7. NoDanglingAccess'
  <2>1. \A u \in Workers \ {w} : pc'[u] # "pop"
    BY <1>1 DEF TypeOK, Mutual, Holding
  <2>2. pc'[Listener] = pc[Listener] /\ Linked' = Linked
    BY <1>1 DEF TypeOK, Linked
  <2>3. tmp'[w] \in live' /\ readhead' = tmp'[w]
    BY <1>1, <1>3 DEF TypeOK
  <2>4. QED
    BY <1>1, <2>1, <2>2, <2>3 DEF NoDanglingAccess
<1>8. NoSleeperWhileWork'
  BY <1>1 DEF TypeOK, NoSleeperWhileWork
<1>9. PeekedIsHead'
  <2>1. \A u \in Workers \ {w} : pc'[u] # "pop"
    BY <1>1 DEF TypeOK, Mutual, Holding
  <2>2. msg'[w] = data'[order'[1]] /\ order' # <<>>
    BY <1>1, <1>2 DEF TypeOK
  <2>3. QED
    BY <2>1, <2>2 DEF PeekedIsHead
<1>10. CarriesMessage'
  BY <1>1, <1>3 DEF TypeOK, CarriesMessage
<1>11. ReadAlready'
  BY <1>1 DEF ReadAlready
<1>12. QED
  BY <1>4, <1>5, <1>6, <1>7, <1>8, <1>9, <1>10, <1>11

(* Unlinking the head and deleting its task.                               *)
LEMMA PopStep ==
    ASSUME IInv, NEW w \in Workers, Pop(w)
    PROVE  IInv'
<1> USE TaskQueueAssumption DEF IInv, Threads, list, memory, locals
<1> DEFINE k == Len(order)
<1>1. /\ pc[w] = "pop" /\ mutex = w
      /\ pc' = [pc EXCEPT ![w] = "unlock"]
      /\ UNCHANGED <<mutex, readtail, next, data, msg, new, arrived, done>>
      /\ tmp' = [tmp EXCEPT ![w] = NULL]
      /\ cnt' = cnt - 1 /\ order' = Tail(order)
  BY DEF Pop, Goto, Mutual, Holding
<1>2. /\ order # <<>> /\ order \in Seq(Nodes) /\ msg[w] = data[order[1]]
      /\ readhead = order[1] /\ tmp[w] = order[1]
  BY <1>1 DEF PeekedIsHead, ListShape, TypeOK, NoDanglingAccess
<1>3. /\ k \in Nat \ {0} /\ order' \in Seq(Nodes) /\ Len(order') = k - 1
      /\ \A i \in 1..k - 1 : order'[i] = order[i + 1]
      /\ order' = <<>> <=> k = 1
      /\ order[1] \in Nodes
  BY <1>1, <1>2, TailFacts
<1>4. /\ readhead' = IF k = 1 THEN NULL ELSE order[2]
      /\ live' = live \ {order[1]}
  BY <1>2, <1>3 DEF Pop, ListShape
<1>5. TypeOK'
  <2>1. readhead' \in Nodes \cup {NULL}
    BY <1>2, <1>3 DEF Pop, TypeOK
  <2>2. cnt' \in Nat
    BY <1>1, <1>3 DEF ListShape
  <2>3. QED
    BY <1>1, <1>3, <1>4, <2>1, <2>2 DEF TypeOK
<1>6. Mutual'
  BY <1>1 DEF TypeOK, Mutual, Holding
<1>7. ListShape'
  <2>1. cnt' = Len(order')
    BY <1>1, <1>3 DEF ListShape
  <2>2. readhead' = IF order' = <<>> THEN NULL ELSE order'[1]
    BY <1>3, <1>4
  <2>3. order' # <<>> => readtail' = order'[Len(order')]
    <3>1. readtail' = order[k]
      BY <1>1, <1>2 DEF ListShape
    <3>2. k # 1 => k - 1 \in 1..k - 1 /\ (k - 1) + 1 = k
      BY <1>3
    <3>3. QED
      BY <3>1, <3>2, <1>3
  <2>4. ASSUME NEW i \in 1..Len(order')
        PROVE  next'[order'[i]] = IF i = Len(order') THEN NULL ELSE order'[i + 1]
    <3>1. i + 1 \in 1..k /\ order'[i] = order[i + 1]
      BY <1>3
    <3>2. next[order[i + 1]] = IF i + 1 = k THEN NULL ELSE order[(i + 1) + 1]
      BY <3>1 DEF ListShape
    <3>3. i # k - 1 => order'[i + 1] = order[(i + 1) + 1]
      BY <3>1, <1>3
    <3>4. next'[order'[i]] = next[order[i + 1]]
      BY <1>1, <3>1
    <3>5. CASE i = k - 1
      BY <1>3, <3>2, <3>4, <3>5
    <3>6. CASE i # k - 1
      BY <1>3, <3>1, <3>2, <3>3, <3>4, <3>6
    <3>7. QED
      BY <3>5, <3>6
  <2>5. ASSUME NEW i \in 1..Len(order'), NEW j \in 1..Len(order'), order'[i] = order'[j]
        PROVE  i = j
    <3>1. i + 1 \in 1..k /\ j + 1 \in 1..k /\ order[i + 1] = order[j + 1]
      BY <1>3, <2>5
    <3>2. i + 1 = j + 1
      BY <3>1 DEF ListShape
    <3>3. QED
      BY <3>2
  <2>6. QED
    BY <2>1, <2>2, <2>3, <2>4, <2>5 DEF ListShape
<1>8. NoDanglingAccess'
  <2>1. Linked' = Linked \ {order[1]}
    <3>1. ASSUME NEW i \in 1..k, order[i] # order[1] PROVE order[i] \in Linked'
      <4>1. i - 1 \in 1..k - 1 /\ order'[i - 1] = order[i]
        BY <3>1, <1>3
      <4>2. QED
        BY <4>1, <1>3 DEF Linked
    <3>2. ASSUME NEW i \in 1..k - 1 PROVE order'[i] \in Linked /\ order'[i] # order[1]
      <4>1. i + 1 \in 1..k /\ 1 \in 1..k /\ i + 1 # 1 /\ order'[i] = order[i + 1]
        BY <1>3
      <4>2. QED
        BY <4>1 DEF Linked, ListShape
    <3>3. Linked \ {order[1]} \subseteq Linked'
      BY <3>1 DEF Linked
    <3>4. Linked' \subseteq Linked \ {order[1]}
      <4>1. SUFFICES ASSUME NEW i \in 1..Len(order')
                     PROVE  order'[i] \in Linked \ {order[1]}
        BY DEF Linked
      <4>2. QED
        BY <3>2, <1>3
    <3>5. QED
      BY <3>3, <3>4
  <2>2. order[1] \in Linked
    BY <1>3 DEF Linked
  <2>3. \A t \in Workers : pc'[t] # "pop"
    BY <1>1 DEF TypeOK, Mutual, Holding
  <2>4. pc'[Listener] = pc[Listener] /\ pc[Listener] # "link"
    BY <1>1 DEF TypeOK, Mutual, Holding
  <2>5. live' = Linked' \cup ({new'} \ {NULL}) /\ new' \notin Linked'
    BY <1>1, <1>4, <2>1, <2>2 DEF NoDanglingAccess
  <2>6. QED
    BY <1>1, <2>3, <2>4, <2>5 DEF NoDanglingAccess
<1>9. NoSleeperWhileWork'
  <2>1. \A t \in Workers : pc'[t] = "wait" => pc[t] = "wait"
    BY <1>1 DEF TypeOK
  <2>2. readhead # NULL
    BY <1>2, <1>3
  <2>3. QED
    BY <2>1, <2>2 DEF NoSleeperWhileWork
<1>10. PeekedIsHead'
  BY <1>1 DEF TypeOK, Mutual, Holding, PeekedIsHead
<1>11. CarriesMessage'
  BY <1>1, <1>4 DEF TypeOK, CarriesMessage
<1>12. ReadAlready'
  BY <1>1 DEF ReadAlready
<1>13. QED
  BY <1>5, <1>6, <1>7, <1>8, <1>9, <1>10, <1>11, <1>12

(* The handler of a message touches neither the list nor the mutex.        *)
LEMMA HandleStep ==
    ASSUME IInv, NEW w \in Workers, Handle(w)
    PROVE  IInv'
<1> USE TaskQueueAssumption DEF IInv, Threads, list, memory, locals
<1>1. /\ pc[w] = "work" /\ msg[w] \in Messages
      /\ pc' = [pc EXCEPT ![w] = "lock"]
      /\ msg' = [msg EXCEPT ![w] = NULL]
      /\ done' = done \cup {msg[w]}
      /\ UNCHANGED <<mutex, list, memory, tmp, new, arrived>>
  BY DEF Handle, Goto, CarriesMessage
<1>2. TypeOK'
  BY <1>1 DEF TypeOK
<1>3. Mutual'
  BY <1>1 DEF TypeOK, Mutual, Holding
<1>4. ListShape'
  BY <1>1 DEF ListShape
<1>5. NoDanglingAccess'
  <2>1. pc'[Listener] = pc[Listener] /\ Linked' = Linked
    BY <1>1 DEF TypeOK, Linked
  <2>2. \A t \in Workers : pc'[t] = "pop" => pc[t] = "pop"
    BY <1>1 DEF TypeOK
  <2>3. QED
    BY <1>1, <2>1, <2>2 DEF NoDanglingAccess
<1>6. NoSleeperWhileWork'
  BY <1>1 DEF TypeOK, NoSleeperWhileWork
<1>7. PeekedIsHead'
  BY <1>1 DEF TypeOK, PeekedIsHead
<1>8. CarriesMessage'
  BY <1>1 DEF TypeOK, CarriesMessage
<1>9. ReadAlready'
  BY <1>1 DEF ReadAlready
<1>10. QED
  BY <1>2, <1>3, <1>4, <1>5, <1>6, <1>7, <1>8, <1>9
-----------------------------------------------------------------------------
(* Before the first connection the list is empty and nobody waits.         *)
LEMMA InitInv == Init => IInv
<1> SUFFICES ASSUME Init PROVE IInv
  OBVIOUS
<1> USE TaskQueueAssumption DEF Init, Threads
<1>1. TypeOK
  BY DEF TypeOK
<1>2. Mutual
  BY DEF Mutual, Holding
<1>3. ListShape
  BY DEF ListShape
<1>4. NoDanglingAccess /\ NoSleeperWhileWork /\ PeekedIsHead /\ CarriesMessage /\ ReadAlready
  BY DEF ReadAlready, NoDanglingAccess, NoSleeperWhileWork, PeekedIsHead, CarriesMessage, Linked
<1>5. QED
  BY <1>1, <1>2, <1>3, <1>4 DEF IInv

(* One case per action of a thread.                                        *)
LEMMA NextInv == IInv /\ [Next]_vars => IInv'
<1> SUFFICES ASSUME IInv, [Next]_vars PROVE IInv'
  OBVIOUS
<1> USE DEF Threads, list, memory, locals
<1>1. ASSUME NEW m \in Messages, ReadMessage(m) PROVE IInv'
  BY <1>1, ReadMessageStep
<1>2. CASE ListenerLock
  BY <1>2, MoveStep DEF ListenerLock, Goto
<1>3. CASE Link
  BY <1>3, LinkStep
<1>4. CASE ListenerUnlock
  BY <1>4, MoveStep DEF ListenerUnlock, Goto
<1>5. ASSUME NEW w \in Workers, WorkerStep(w) \/ SpuriousWake(w) PROVE IInv'
  <2> w # Listener
    BY TaskQueueAssumption
  <2>1. CASE WorkerLock(w)
    BY <2>1, MoveStep DEF WorkerLock, Goto
  <2>2. CASE Wait(w)
    BY <2>2, MoveStep DEF Wait, Goto
  <2>3. CASE SpuriousWake(w)
    BY <2>3, MoveStep DEF SpuriousWake, Goto
  <2>4. CASE Peek(w)
    BY <2>4, PeekStep
  <2>5. CASE Pop(w)
    BY <2>5, PopStep
  <2>6. CASE WorkerUnlock(w)
    BY <2>6, MoveStep DEF WorkerUnlock, Goto
  <2>7. CASE Handle(w)
    BY <2>7, HandleStep
  <2>8. QED
    BY <1>5, <2>1, <2>2, <2>3, <2>4, <2>5, <2>6, <2>7 DEF WorkerStep
<1>6. CASE UNCHANGED vars
  BY <1>6 DEF vars, IInv, TypeOK, Mutual, Holding, ListShape, NoDanglingAccess,
              NoSleeperWhileWork, PeekedIsHead, CarriesMessage, ReadAlready, Linked
<1>7. QED
  BY <1>1, <1>2, <1>3, <1>4, <1>5, <1>6 DEF Next, ListenerStep

(* Everything the safety run checks of the list, the mutex and the         *)
(* sleepers holds of every pool and every stream of messages.              *)
THEOREM Invariance == Spec => []IInv
  BY InitInv, NextInv, PTL DEF Spec

(* Every variable keeps its type, pc included: no thread leaves its own    *)
(* routine, and cnt never goes below zero.                                 *)
THEOREM TypeCorrect == Spec => []TypeOK
<1>1. IInv => TypeOK
  BY DEF IInv
<1>2. QED
  BY <1>1, Invariance, PTL

(* read_message and handle_message keep the links, the two end pointers    *)
(* and cnt in agreement.                                                   *)
THEOREM ListWellFormed == Spec => []ListShape
<1>1. IInv => ListShape
  BY DEF IInv
<1>2. QED
  BY <1>1, Invariance, PTL

(* No worker dereferences or deletes a task that another has deleted, and  *)
(* the listener never links behind a deleted one, although handle_message  *)
(* leaves readtail pointing at it.                                         *)
THEOREM NoUseAfterDelete == Spec => []NoDanglingAccess
<1>1. IInv => NoDanglingAccess
  BY DEF IInv
<1>2. QED
  BY <1>1, Invariance, PTL

(* No wakeup is lost, although the condition is tested by every worker and *)
(* the broadcast comes before the listener's unlock.                       *)
THEOREM NoLostWakeup == Spec => []NoSleeperWhileWork
<1>1. IInv => NoSleeperWhileWork
  BY DEF IInv
<1>2. QED
  BY <1>1, Invariance, PTL
-----------------------------------------------------------------------------
(* The refinement. Only Link, Pop and Handle move the abstract queue; every *)
(* other step of a thread is a stutter.                                     *)
(* A step that changes none of these variables is a stutter of the queue.  *)
LEMMA StutterStep ==
    ASSUME IInv, UNCHANGED <<order, arrived, done, new, data, msg>>,
           \A w \in Workers : pc'[w] \in {"unlock", "work"} <=> pc[w] \in {"unlock", "work"}
    PROVE  UNCHANGED F!vars
<1>1. AbsAccepted' = AbsAccepted /\ AbsQueue' = AbsQueue
  BY DEF AbsAccepted, AbsQueue, InHand
<1>2. AbsHeld' = AbsHeld
  BY DEF AbsHeld
<1>3. QED
  BY <1>1, <1>2 DEF F!vars, AbsAccepted, AbsQueue, AbsHeld

(* The definitions above are the values substituted in F.                  *)
LEMMA SameAbstract ==
    ASSUME AbsAccepted' = AbsAccepted, AbsQueue' = AbsQueue, AbsHeld' = AbsHeld, done' = done
    PROVE  UNCHANGED F!vars
  BY DEF F!vars, AbsAccepted, AbsQueue, AbsHeld

(* A message that is read but not linked is not accepted yet.              *)
LEMMA ReadIsStutter ==
    ASSUME IInv, NEW m \in Messages, ReadMessage(m)
    PROVE  UNCHANGED F!vars
<1> USE TaskQueueAssumption DEF IInv, Threads, list, locals
<1>1. PICK n \in Nodes \ live : new' = n /\ data' = [data EXCEPT ![n] = m]
  BY DEF ReadMessage
<1>2. /\ new = NULL /\ live = Linked
      /\ pc' = [pc EXCEPT ![Listener] = "acquire"]
      /\ arrived' = arrived \cup {m} /\ m \notin arrived
      /\ UNCHANGED <<order, done, msg>>
  BY DEF ReadMessage, Goto, NoDanglingAccess
<1>3. AbsAccepted' = AbsAccepted
  <2>1. InHand = {} /\ InHand' = {m}
    BY <1>1, <1>2 DEF InHand, TypeOK
  <2>2. QED
    BY <2>1, <1>2 DEF AbsAccepted
<1>4. AbsQueue' = AbsQueue
  <2>1. \A i \in 1..Len(order) : order[i] # n /\ order[i] \in Nodes
    BY <1>1, <1>2 DEF Linked, TypeOK
  <2>2. \A i \in 1..Len(order) : data'[order[i]] = data[order[i]]
    BY <2>1, <1>1 DEF TypeOK
  <2>3. QED
    BY <2>2, <1>2 DEF AbsQueue
<1>5. AbsHeld' = AbsHeld
  BY <1>2 DEF AbsHeld, TypeOK
<1>6. QED
  BY <1>2, <1>3, <1>4, <1>5 DEF F!vars, AbsAccepted, AbsQueue, AbsHeld

(* Linking the task of m puts m.                                           *)
LEMMA LinkIsPut ==
    ASSUME IInv, Link, NEW m \in Messages, m = data[new]
    PROVE  F!Put(m)
<1> USE TaskQueueAssumption DEF IInv, Threads, locals
<1> DEFINE k == Len(order)
<1>1. /\ new \in live /\ new \in Nodes /\ new # NULL /\ data[new] \in Messages
      /\ order \in Seq(Nodes) /\ k \in Nat
  BY DEF Link, Linking, AtTail, TypeOK, NoDanglingAccess, CarriesMessage
<1>2. /\ order' = Append(order, new) /\ new' = NULL
      /\ UNCHANGED <<data, msg, arrived, done>>
      /\ \A w \in Workers : pc'[w] \in {"unlock", "work"} <=> pc[w] \in {"unlock", "work"}
  BY DEF Link, Linking, AtTail, Broadcast, TypeOK
<1>3. data[new] \in arrived
  BY <1>1 DEF ReadAlready
<1>4. data[new] \notin AbsAccepted /\ AbsAccepted' = AbsAccepted \cup {data[new]}
  BY <1>1, <1>2, <1>3 DEF AbsAccepted, InHand
<1>5. AbsQueue' = Append(AbsQueue, data[new])
  <2>1. /\ Len(order') = k + 1 /\ order' \in Seq(Nodes)
        /\ \A i \in 1..k : order'[i] = order[i]
        /\ order'[k + 1] = new
    BY <1>1, <1>2, AppendFacts
  <2>2. AbsQueue \in Seq(Messages \cup {NULL}) /\ Len(AbsQueue) = k
    BY <1>1 DEF AbsQueue, TypeOK
  <2>3. AbsQueue' \in Seq(Messages \cup {NULL}) /\ Len(AbsQueue') = k + 1
    BY <1>1, <1>2, <2>1 DEF AbsQueue, TypeOK
  <2>4. ASSUME NEW i \in 1..k + 1 PROVE AbsQueue'[i] = Append(AbsQueue, data[new])[i]
    BY <1>1, <1>2, <2>1, <2>2 DEF AbsQueue
  <2>5. /\ Append(AbsQueue, data[new]) \in Seq(Messages \cup {NULL})
        /\ Len(Append(AbsQueue, data[new])) = k + 1
    BY <1>1, <2>2, AppendFacts
  <2>6. QED
    BY <2>3, <2>4, <2>5, SeqEqual
<1>6. AbsHeld' = AbsHeld /\ done' = done
  BY <1>2 DEF AbsHeld
<1>7. QED
  BY <1>4, <1>5, <1>6 DEF F!Put, AbsAccepted, AbsQueue, AbsHeld

(* Unlinking the head hands its message to the worker that peeked at it.   *)
LEMMA PopIsTake ==
    ASSUME IInv, NEW w \in Workers, Pop(w)
    PROVE  F!Take(w)
<1> USE TaskQueueAssumption DEF IInv, Threads
<1> DEFINE k == Len(order)
<1>1. /\ order # <<>> /\ order \in Seq(Nodes) /\ msg[w] = data[order[1]] /\ pc[w] = "pop"
      /\ order' = Tail(order)
      /\ pc' = [pc EXCEPT ![w] = "unlock"]
      /\ UNCHANGED <<data, msg, arrived, done, new>>
  BY DEF Pop, Goto, PeekedIsHead, TypeOK
<1>2. /\ k \in Nat \ {0} /\ order' \in Seq(Nodes) /\ Len(order') = k - 1
      /\ \A i \in 1..k - 1 : order'[i] = order[i + 1]
  BY <1>1, TailFacts
<1>3. AbsQueue \in Seq(Messages \cup {NULL}) /\ Len(AbsQueue) = k /\ AbsQueue # <<>>
  BY <1>1, <1>2 DEF AbsQueue, TypeOK
<1>4. Head(AbsQueue) = msg[w]
  BY <1>1, <1>2, <1>3 DEF AbsQueue
<1>5. AbsQueue' = Tail(AbsQueue)
  <2>1. AbsQueue' \in Seq(Messages \cup {NULL}) /\ Len(AbsQueue') = k - 1
    BY <1>1, <1>2 DEF AbsQueue, TypeOK
  <2>2. /\ Tail(AbsQueue) \in Seq(Messages \cup {NULL})
        /\ Len(Tail(AbsQueue)) = k - 1
        /\ \A i \in 1..k - 1 : Tail(AbsQueue)[i] = AbsQueue[i + 1]
    BY <1>3, TailFacts
  <2>3. ASSUME NEW i \in 1..k - 1 PROVE AbsQueue'[i] = Tail(AbsQueue)[i]
    <3>1. i + 1 \in 1..k
      BY <1>2
    <3>2. AbsQueue[i + 1] = data[order[i + 1]]
      BY <3>1 DEF AbsQueue
    <3>3. AbsQueue'[i] = data[order'[i]]
      BY <1>1, <1>2 DEF AbsQueue
    <3>4. QED
      BY <3>2, <3>3, <2>2, <1>2
  <2>4. QED
    BY <2>1, <2>2, <2>3, SeqEqual
<1>6. AbsHeld' = [AbsHeld EXCEPT ![w] = msg[w]] /\ AbsHeld[w] = NULL
  BY <1>1 DEF AbsHeld, TypeOK
<1>7. AbsAccepted' = AbsAccepted /\ done' = done
  BY <1>1 DEF AbsAccepted, InHand
<1>8. QED
  BY <1>3, <1>4, <1>5, <1>6, <1>7 DEF F!Take, AbsAccepted, AbsQueue, AbsHeld

(* The end of the handler finishes the message.                            *)
LEMMA HandleIsFinish ==
    ASSUME IInv, NEW w \in Workers, Handle(w)
    PROVE  F!Finish(w)
<1> USE TaskQueueAssumption DEF IInv, Threads, list, memory
<1>1. /\ pc[w] = "work" /\ msg[w] \in Messages
      /\ pc' = [pc EXCEPT ![w] = "lock"] /\ msg' = [msg EXCEPT ![w] = NULL]
      /\ done' = done \cup {msg[w]}
      /\ UNCHANGED <<order, data, arrived, new>>
  BY DEF Handle, Goto, CarriesMessage
<1>2. AbsHeld[w] = msg[w] /\ AbsHeld[w] # NULL /\ AbsHeld' = [AbsHeld EXCEPT ![w] = NULL]
  BY <1>1 DEF AbsHeld, TypeOK
<1>3. AbsAccepted' = AbsAccepted /\ AbsQueue' = AbsQueue
  BY <1>1 DEF AbsAccepted, AbsQueue, InHand
<1>4. QED
  BY <1>1, <1>2, <1>3 DEF F!Finish, AbsAccepted, AbsQueue, AbsHeld

(* Every step of the threads maps to a step of the queue or to a stutter.  *)
LEMMA StepSimulates == IInv /\ [Next]_vars => [F!Next]_(F!vars)
<1> SUFFICES ASSUME IInv, [Next]_vars PROVE F!Next \/ UNCHANGED F!vars
  OBVIOUS
<1> USE TaskQueueAssumption DEF IInv, TypeOK, Threads, list, memory, locals
<1>1. ASSUME NEW m \in Messages, ReadMessage(m) PROVE UNCHANGED F!vars
  BY <1>1, ReadIsStutter
<1>2. CASE ListenerLock
  BY <1>2, StutterStep DEF ListenerLock, Goto
<1>3. CASE Link
  <2>1. PICK m \in Messages : m = data[new]
    BY <1>3 DEF Link, Linking, AtTail, NoDanglingAccess, CarriesMessage
  <2>2. F!Put(m)
    BY <1>3, <2>1, LinkIsPut
  <2>3. QED
    BY <2>2 DEF F!Next
<1>4. CASE ListenerUnlock
  BY <1>4, StutterStep DEF ListenerUnlock, Goto
<1>5. ASSUME NEW w \in Workers, WorkerStep(w) \/ SpuriousWake(w)
      PROVE  F!Next \/ UNCHANGED F!vars
  <2>1. CASE WorkerLock(w)
    BY <2>1, StutterStep DEF WorkerLock, Goto
  <2>2. CASE Wait(w)
    BY <2>2, StutterStep DEF Wait, Goto
  <2>3. CASE SpuriousWake(w)
    BY <2>3, StutterStep DEF SpuriousWake, Goto
  <2>4. CASE Peek(w)
    <3>1. AbsHeld' = AbsHeld
      BY <2>4 DEF Peek, Goto, AbsHeld
    <3>2. AbsAccepted' = AbsAccepted /\ AbsQueue' = AbsQueue /\ done' = done
      BY <2>4 DEF Peek, AbsAccepted, AbsQueue, InHand
    <3>3. QED
      BY <3>1, <3>2, SameAbstract
  <2>5. CASE Pop(w)
    BY <2>5, PopIsTake DEF F!Next
  <2>6. CASE WorkerUnlock(w)
    BY <2>6, StutterStep DEF WorkerUnlock, Goto
  <2>7. CASE Handle(w)
    BY <2>7, HandleIsFinish DEF F!Next
  <2>8. QED
    BY <1>5, <2>1, <2>2, <2>3, <2>4, <2>5, <2>6, <2>7 DEF WorkerStep
<1>6. CASE UNCHANGED vars
  BY <1>6 DEF vars, F!vars, AbsAccepted, AbsQueue, AbsHeld, InHand
<1>7. QED
  BY <1>1, <1>2, <1>3, <1>4, <1>5, <1>6 DEF Next, ListenerStep

(* Every step of the list is a step of the abstract queue or leaves it     *)
(* alone: the pthread code hands messages over in the order the listener   *)
(* linked them, each to one worker.                                        *)
THEOREM Refinement == Spec => ImplementsFifo
<1>1. Init => F!Init
  BY TaskQueueAssumption DEF Init, F!Init, AbsAccepted, AbsQueue, AbsHeld, InHand, Threads
<1>2. QED
  BY <1>1, StepSimulates, Invariance, PTL DEF Spec, F!Spec, ImplementsFifo

-----------------------------------------------------------------------------
(* The abstract queue itself. AbsAccepted, AbsQueue and AbsHeld are not    *)
(* expanded here: what follows is true of any queue.                       *)
LEMMA FifoTypes == F!Spec => []F!TypeOK
<1>1. F!Init => F!TypeOK
  BY DEF F!Init, F!TypeOK
<1>2. F!TypeOK /\ [F!Next]_(F!vars) => F!TypeOK'
  <2> SUFFICES ASSUME F!TypeOK, [F!Next]_(F!vars) PROVE F!TypeOK'
    OBVIOUS
  <2> USE DEF F!TypeOK
  <2>1. CASE \E m \in Messages : F!Put(m)
    BY <2>1 DEF F!Put
  <2>2. CASE \E w \in Workers : F!Take(w)
    BY <2>2 DEF F!Take
  <2>3. CASE \E w \in Workers : F!Finish(w)
    BY <2>3 DEF F!Finish
  <2>4. CASE UNCHANGED F!vars
    BY <2>4 DEF F!vars
  <2>5. QED
    BY <2>1, <2>2, <2>3, <2>4 DEF F!Next
<1>3. QED
  BY <1>1, <1>2, PTL DEF F!Spec

(* Put adds a message that is nowhere yet, Take and Finish move one.       *)
LEMMA StepKeepsOneOwner ==
    ASSUME F!NullIsNoMessage, F!TypeOK, F!ExactlyOnce, [F!Next]_(F!vars)
    PROVE  F!ExactlyOnce'
<1> USE DEF F!TypeOK, F!NullIsNoMessage
<1>1. ASSUME NEW m \in Messages, F!Put(m) PROVE F!ExactlyOnce'
  <2> USE <1>1 DEF F!Put
  <2>1. /\ Len(AbsQueue') = Len(AbsQueue) + 1
        /\ \A i \in 1..Len(AbsQueue) : AbsQueue'[i] = AbsQueue[i]
        /\ AbsQueue'[Len(AbsQueue) + 1] = m
    OBVIOUS
  <2>2. F!Queued' = F!Queued \cup {m}
    BY <2>1 DEF F!Queued
  <2>3. m \notin F!Queued /\ m \notin F!Taken /\ m \notin done
    BY DEF F!ExactlyOnce
  <2>4. F!Taken' = F!Taken
    BY DEF F!Taken
  <2>5. (\A i, j \in 1..Len(AbsQueue) : AbsQueue[i] = AbsQueue[j] => i = j)'
    BY <2>1, <2>3 DEF F!Queued, F!ExactlyOnce
  <2>6. (\A v, u \in Workers : AbsHeld[v] = AbsHeld[u] /\ AbsHeld[v] # NULL => v = u)'
    BY DEF F!ExactlyOnce
  <2>7. QED
    BY <2>2, <2>3, <2>4, <2>5, <2>6 DEF F!ExactlyOnce
<1>2. ASSUME NEW w \in Workers, F!Take(w) PROVE F!ExactlyOnce'
  <2> DEFINE m == AbsQueue[1]
  <2>1. /\ Len(AbsQueue) > 0
        /\ Len(AbsQueue') = Len(AbsQueue) - 1
        /\ \A i \in 1..Len(AbsQueue') : AbsQueue'[i] = AbsQueue[i + 1]
        /\ AbsHeld' = [AbsHeld EXCEPT ![w] = m]
        /\ AbsHeld[w] = NULL
        /\ m \in Messages
    BY <1>2 DEF F!Take
  <2>2. m \in F!Queued /\ m \notin F!Taken /\ m \notin done
    BY <2>1 DEF F!Queued, F!ExactlyOnce
  <2>3. F!Queued' = F!Queued \ {m}
    <3>1. ASSUME NEW i \in 1..Len(AbsQueue), AbsQueue[i] # m PROVE AbsQueue[i] \in F!Queued'
      <4>1. i - 1 \in 1..Len(AbsQueue') /\ AbsQueue'[i - 1] = AbsQueue[i]
        BY <2>1, <3>1
      <4>2. QED
        BY <4>1 DEF F!Queued
    <3>2. ASSUME NEW i \in 1..Len(AbsQueue')
          PROVE  AbsQueue'[i] \in F!Queued /\ AbsQueue'[i] # m
      <4>1. i + 1 \in 1..Len(AbsQueue) /\ 1 \in 1..Len(AbsQueue) /\ i + 1 # 1
        BY <2>1
      <4>2. QED
        BY <4>1, <2>1 DEF F!Queued, F!ExactlyOnce
    <3>3. QED
      BY <3>1, <3>2 DEF F!Queued
  <2>4. F!Taken' = F!Taken \cup {m}
    <3>1. AbsHeld'[w] = m /\ m # NULL /\ \A u \in Workers \ {w} : AbsHeld'[u] = AbsHeld[u]
      BY <2>1
    <3>2. QED
      BY <3>1, <2>1 DEF F!Taken
  <2>5. (\A i, j \in 1..Len(AbsQueue) : AbsQueue[i] = AbsQueue[j] => i = j)'
    <3>1. ASSUME NEW i \in 1..Len(AbsQueue'), NEW j \in 1..Len(AbsQueue'),
                 AbsQueue'[i] = AbsQueue'[j]
          PROVE  i = j
      <4>1. i + 1 \in 1..Len(AbsQueue) /\ j + 1 \in 1..Len(AbsQueue)
        BY <2>1
      <4>2. AbsQueue[i + 1] = AbsQueue[j + 1]
        BY <2>1, <3>1
      <4>3. i + 1 = j + 1
        BY <4>1, <4>2 DEF F!ExactlyOnce
      <4>4. QED
        BY <4>3
    <3>2. QED
      BY <3>1
  <2>6. (\A v, u \in Workers : AbsHeld[v] = AbsHeld[u] /\ AbsHeld[v] # NULL => v = u)'
    BY <2>1, <2>2 DEF F!Taken, F!ExactlyOnce
  <2>7. AbsAccepted' = AbsAccepted /\ done' = done
    BY <1>2 DEF F!Take
  <2>8. AbsAccepted = F!Queued \cup F!Taken \cup done
        /\ F!Queued \cap F!Taken = {} /\ F!Queued \cap done = {} /\ F!Taken \cap done = {}
    BY DEF F!ExactlyOnce
  <2>9. AbsAccepted' = F!Queued' \cup F!Taken' \cup done'
        /\ F!Queued' \cap F!Taken' = {} /\ F!Queued' \cap done' = {} /\ F!Taken' \cap done' = {}
    BY <2>2, <2>3, <2>4, <2>7, <2>8
  <2>10. QED
    BY <2>5, <2>6, <2>9 DEF F!ExactlyOnce
<1>3. ASSUME NEW w \in Workers, F!Finish(w) PROVE F!ExactlyOnce'
  <2> USE <1>3 DEF F!Finish
  <2>1. F!Taken' = F!Taken \ {AbsHeld[w]}
    BY DEF F!Taken, F!ExactlyOnce
  <2>2. F!Queued' = F!Queued /\ done' = done \cup {AbsHeld[w]} /\ AbsHeld[w] \in F!Taken
    BY DEF F!Taken, F!Queued
  <2>3. (\A v, u \in Workers : AbsHeld[v] = AbsHeld[u] /\ AbsHeld[v] # NULL => v = u)'
    BY DEF F!ExactlyOnce
  <2>4. QED
    BY <2>1, <2>2, <2>3 DEF F!ExactlyOnce
<1>4. CASE UNCHANGED F!vars
  <2>1. AbsAccepted' = AbsAccepted /\ AbsQueue' = AbsQueue /\ AbsHeld' = AbsHeld /\ done' = done
    BY <1>4 DEF F!vars
  <2>2. F!Queued' = F!Queued /\ F!Taken' = F!Taken
    BY <2>1 DEF F!Queued, F!Taken
  <2>3. QED
    BY <2>1, <2>2 DEF F!ExactlyOnce
<1>5. QED
  BY <1>1, <1>2, <1>3, <1>4 DEF F!Next

(* Each message the queue accepts is always in exactly one place: waiting, *)
(* with one worker, or finished.                                           *)
THEOREM FifoKeepsOneOwner == F!Spec => []F!ExactlyOnce
<1>1. F!Init => F!ExactlyOnce
  BY DEF F!Init, F!ExactlyOnce, F!Queued, F!Taken
<1>2. F!TypeOK /\ F!ExactlyOnce /\ [F!Next]_(F!vars) => F!ExactlyOnce'
  <2>1. F!NullIsNoMessage
    BY TaskQueueAssumption DEF F!NullIsNoMessage
  <2>2. QED
    BY <2>1, StepKeepsOneOwner
<1>3. QED
  BY <1>1, <1>2, FifoTypes, PTL DEF F!Spec

(* Hence no linked message is lost, none is handled by two workers, none   *)
(* is handled again.                                                       *)
THEOREM OneOwner == Spec => []ExactlyOnce
BY Refinement, FifoKeepsOneOwner, PTL DEF ImplementsFifo, ExactlyOnce
=============================================================================
