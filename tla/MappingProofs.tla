---------------------------- MODULE MappingProofs ----------------------------
(* Proofs about the sensor map and the messages that fill it, for any pool *)
(* of workers, sets of sensors and number of faults. First the steps of the*)
(* lock, in a state in which at most one worker is at an update; this is   *)
(* used after that for a pool in which every worker may get an update, as  *)
(* long as no two updates have met in the running process.                 *)
EXTENDS Mapping, FiniteSetTheorems, TLAPS

(* At most one worker is inside expandMap.                                 *)
Alone ==
    \A u, v \in Workers :
        /\ pc[u] \in {"update", "update_wait", "update_test", "writing"}
        /\ pc[v] \in {"update", "update_wait", "update_test", "writing"}
        => u = v

(* The workers at one place can be counted.                                *)
LEMMA AtFinite == ASSUME NEW label PROVE IsFiniteSet(At(label)) /\ Cardinality(At(label)) \in Nat
<1>1. At(label) \subseteq Workers
  BY DEF At
<1>2. QED
  BY <1>1, SensorMapAssumption, FS_Subset, FS_CardinalityType

(* A reader is inside exactly when the counter is not zero.                *)
LEMMA CounterMeaning ==
    ASSUME ReadersCounted
    PROVE  /\ d_nreading \in Nat
           /\ d_nreading = 0 <=> \A r \in Workers : pc[r] # "reading"
<1>1. IsFiniteSet(At("reading"))
  BY AtFinite
<1>2. Cardinality(At("reading")) = 0 <=> At("reading") = {}
  BY <1>1, FS_EmptySet
<1>3. QED
  BY <1>2, AtFinite DEF ReadersCounted, At

(* No worker is inside getMap or expandMap at first.                       *)
LEMMA InitInv == Init => IInv
<1> SUFFICES ASSUME Init PROVE IInv
  OBVIOUS
<1>1. TypeOK
  BY DEF Init, TypeOK, Labels
<1>2. At("reading") = {} /\ At("read_wait") = {} /\ At("update_wait") = {}
  BY DEF Init, At
<1>3. ReadersCounted
  BY <1>2, FS_EmptySet DEF Init, ReadersCounted
<1>4. ReadersExcludeWriter /\ RequestStands /\ NoSleeperWithoutReason
  BY <1>2 DEF Init, ReadersExcludeWriter, RequestStands, NoSleeperWithoutReason
<1>5. QED
  BY <1>1, <1>3, <1>4 DEF IInv
-----------------------------------------------------------------------------
(* Steps that neither enter nor leave a section nor change the request.    *)
LEMMA QuietStep ==
    ASSUME IInv, NEW w \in Workers, NEW b \in Labels, pc' = [pc EXCEPT ![w] = b],
           UNCHANGED <<d_write_request, d_nreading>>,
           published' \in BOOLEAN, crashed' \in BOOLEAN,
           \/ pc[w] \in {"idle", "initialize", "filling"} /\ b \in {"idle", "read", "initialize", "filling"}
           \/ pc[w] \in {"idle"} /\ b = "update" /\ w \in Updaters
           \/ pc[w] = "read_wait" /\ b = "read"
           \/ pc[w] = "read" /\ b = "read_wait" /\ d_write_request
           \/ pc[w] = "update_wait" /\ b = "update_test"
           \/ pc[w] = "update_test" /\ b = "update_wait" /\ d_nreading # 0
           \/ pc[w] = "update_test" /\ b = "writing" /\ d_nreading = 0
    PROVE  IInv'
<1> USE DEF IInv
<1>1. TypeOK'
  BY DEF TypeOK
<1>2. At("reading")' = At("reading")
  BY DEF At, TypeOK
<1>3. ReadersCounted'
  BY <1>2 DEF ReadersCounted
<1>4. ReadersExcludeWriter'
  BY CounterMeaning DEF ReadersExcludeWriter, TypeOK
<1>5. RequestStands'
  BY DEF RequestStands, TypeOK
<1>6. NoSleeperWithoutReason'
  BY DEF NoSleeperWithoutReason, At, TypeOK
<1>7. QED
  BY <1>1, <1>3, <1>4, <1>5, <1>6

(* A reader gets in only while no request stands, so nobody writes.        *)
LEMMA EnterReadStep ==
    ASSUME IInv, NEW w \in Workers, EnterRead(w)
    PROVE  IInv'
<1> USE DEF IInv
<1>1. CASE d_write_request
  BY <1>1, QuietStep DEF EnterRead, In, Goto, Labels, TypeOK
<1>2. CASE ~d_write_request
  <2>1. /\ pc[w] = "read" /\ pc' = [pc EXCEPT ![w] = "reading"]
        /\ d_nreading' = d_nreading + 1
        /\ UNCHANGED <<d_write_request, published, crashed>>
    BY <1>2 DEF EnterRead, In, Goto
  <2>2. \A u \in Workers : pc[u] \notin {"update_wait", "update_test", "writing"}
    BY <1>2 DEF RequestStands
  <2>3. TypeOK'
    BY <2>1 DEF TypeOK, Labels
  <2>4. ReadersCounted'
    <3>1. At("reading")' = At("reading") \cup {w} /\ w \notin At("reading")
      BY <2>1 DEF At, TypeOK
    <3>2. Cardinality(At("reading")') = Cardinality(At("reading")) + 1
      BY <3>1, AtFinite, FS_AddElement
    <3>3. QED
      BY <2>1, <3>2 DEF ReadersCounted
  <2>5. ReadersExcludeWriter'
    BY <2>1, <2>2 DEF ReadersExcludeWriter, TypeOK
  <2>6. RequestStands'
    BY <2>1, <2>2 DEF RequestStands, TypeOK
  <2>7. NoSleeperWithoutReason'
    BY <2>1, <2>2 DEF NoSleeperWithoutReason, At, TypeOK
  <2>8. QED
    BY <2>3, <2>4, <2>5, <2>6, <2>7
<1>3. QED
  BY <1>1, <1>2 DEF TypeOK

(* The last reader wakes the one updater that may be waiting.              *)
LEMMA LeaveReadStep ==
    ASSUME Alone, IInv, NEW w \in Workers, LeaveRead(w)
    PROVE  IInv'
<1> USE DEF IInv
<1>1. /\ pc[w] = "reading" /\ d_nreading' = d_nreading - 1
      /\ UNCHANGED <<d_write_request, published, crashed>>
  BY DEF LeaveRead, In
<1>2. /\ pc'[w] = "idle"
      /\ \A v \in Workers \ {w} :
            \/ pc'[v] = pc[v]
            \/ pc[v] = "update_wait" /\ pc'[v] = "update_test"
      /\ pc' \in [Workers -> Labels]
  BY DEF LeaveRead, In, Goto, At, TypeOK, Labels
<1>3. d_nreading \in Nat \ {0}
  BY <1>1, CounterMeaning
<1>4. TypeOK'
  BY <1>1, <1>2, <1>3 DEF TypeOK
<1>5. ReadersCounted'
  <2>1. At("reading")' = At("reading") \ {w} /\ w \in At("reading")
    BY <1>1, <1>2 DEF At
  <2>2. Cardinality(At("reading")') = Cardinality(At("reading")) - 1
    BY <2>1, AtFinite, FS_RemoveElement
  <2>3. QED
    BY <1>1, <2>2 DEF ReadersCounted
<1>6. ReadersExcludeWriter'
  BY <1>1, <1>2 DEF ReadersExcludeWriter
<1>7. RequestStands'
  BY <1>1, <1>2 DEF RequestStands
<1>8. NoSleeperWithoutReason'
  <2>1. At("read_wait")' \subseteq At("read_wait")
    BY <1>1, <1>2 DEF At
  <2>2. ASSUME d_nreading' = 0, NEW u \in At("update_wait")' PROVE FALSE
    <3>1. pc[u] = "update_wait" /\ u \in Workers
      BY <1>1, <1>2, <2>2 DEF At
    <3>2. PICK v \in At("update_wait") : pc' = [pc EXCEPT ![w] = "idle", ![v] = "update_test"]
      BY <2>2, <3>1 DEF LeaveRead, In, At
    <3>3. u = v
      BY <3>1, <3>2 DEF Alone, At
    <3>4. QED
      BY <2>2, <3>2, <3>3 DEF At, TypeOK
  <2>3. QED
    BY <1>1, <2>1, <2>2 DEF NoSleeperWithoutReason
<1>9. QED
  BY <1>4, <1>5, <1>6, <1>7, <1>8

(* The updater writes at once if nobody reads; otherwise it sleeps.        *)
LEMMA RequestStep ==
    ASSUME IInv, NEW w \in Workers, Request(w)
    PROVE  IInv'
<1> USE DEF IInv
<1>1. /\ pc[w] = "update" /\ w \in Updaters /\ d_write_request' = TRUE
      /\ pc' = [pc EXCEPT ![w] = IF d_nreading # 0 THEN "update_wait" ELSE "writing"]
      /\ UNCHANGED <<d_nreading, published, crashed>>
  BY DEF Request, In, AwaitReaders, Goto, TypeOK
<1>2. TypeOK'
  BY <1>1 DEF TypeOK, Labels
<1>3. At("reading")' = At("reading")
  BY <1>1 DEF At, TypeOK
<1>4. ReadersCounted'
  BY <1>1, <1>3 DEF ReadersCounted
<1>5. ReadersExcludeWriter'
  BY <1>1, CounterMeaning DEF ReadersExcludeWriter, TypeOK
<1>6. RequestStands'
  BY <1>1 DEF RequestStands, TypeOK
<1>7. NoSleeperWithoutReason'
  BY <1>1 DEF NoSleeperWithoutReason, At, TypeOK
<1>8. QED
  BY <1>2, <1>4, <1>5, <1>6, <1>7

(* The end of the write: with a second updater waiting, its request would  *)
(* be withdrawn here too.                                                  *)
LEMMA FinishWriteStep ==
    ASSUME Alone, IInv, NEW w \in Workers, FinishWrite(w)
    PROVE  IInv'
<1> USE DEF IInv
<1>1. /\ pc[w] = "writing" /\ d_write_request' = FALSE
      /\ UNCHANGED <<d_nreading, published, crashed>>
      /\ pc' = [v \in Workers |-> IF v = w THEN "idle"
                                  ELSE IF pc[v] = "read_wait" THEN "read" ELSE pc[v]]
  BY DEF FinishWrite, In
<1>2. \A u \in Workers \ {w} : pc[u] \notin {"update", "update_wait", "update_test", "writing"}
  BY <1>1 DEF Alone
<1>3. TypeOK'
  BY <1>1 DEF TypeOK, Labels
<1>4. At("reading")' = At("reading")
  BY <1>1 DEF At
<1>5. ReadersCounted'
  BY <1>1, <1>4 DEF ReadersCounted
<1>6. ReadersExcludeWriter'
  BY <1>1, <1>2 DEF ReadersExcludeWriter
<1>7. RequestStands'
  BY <1>1, <1>2 DEF RequestStands
<1>8. NoSleeperWithoutReason'
  BY <1>1, <1>2 DEF NoSleeperWithoutReason, At
<1>9. QED
  BY <1>3, <1>5, <1>6, <1>7, <1>8
-----------------------------------------------------------------------------
(* One case per action; the quiet ones move a worker outside the lock.     *)
LEMMA NextInv ==
    ASSUME Alone, IInv, [Next]_vars
    PROVE  IInv'
<1>1. ASSUME NEW w \in Workers, Start(w) \/ SpuriousWake(w) \/ TestAgain(w)
                                \/ Publish(w) \/ Filled(w)
      PROVE  IInv'
  BY <1>1, QuietStep DEF Start, In, SpuriousWake, TestAgain, AwaitReaders, Publish, Filled, Goto,
                         Labels, IInv, TypeOK
<1>2. ASSUME NEW w \in Workers, WriteWithoutMap(w) PROVE IInv'
  BY <1>2 DEF WriteWithoutMap, In, IInv, TypeOK, ReadersCounted, ReadersExcludeWriter,
              RequestStands, NoSleeperWithoutReason, At
<1>3. CASE UNCHANGED vars
  BY <1>3 DEF vars, IInv, TypeOK, ReadersCounted, ReadersExcludeWriter,
              RequestStands, NoSleeperWithoutReason, At
<1>4. QED
  BY <1>1, <1>2, <1>3, EnterReadStep, LeaveReadStep, RequestStep, FinishWriteStep
     DEF Next, Advance
-----------------------------------------------------------------------------
(* The lock's types do not depend on how many update.                      *)
LEMMA LockTypes ==
    ASSUME TypeOK, ReadersCounted, [Next]_vars
    PROVE  TypeOK' /\ ReadersCounted'
<1>1. ASSUME NEW w \in Workers, pc[w] = "reading", pc'[w] # "reading",
             \A v \in Workers \ {w} : pc'[v] = "reading" <=> pc[v] = "reading",
             d_nreading' = d_nreading - 1
      PROVE  ReadersCounted' /\ d_nreading' \in Nat
  <2>1. At("reading")' = At("reading") \ {w} /\ w \in At("reading")
    BY <1>1 DEF At
  <2>2. Cardinality(At("reading")') = Cardinality(At("reading")) - 1
    BY <2>1, AtFinite, FS_RemoveElement
  <2>3. d_nreading # 0
    BY <1>1, CounterMeaning
  <2>4. QED
    BY <1>1, <2>2, <2>3 DEF ReadersCounted, TypeOK
<1>2. ASSUME NEW w \in Workers, LeaveRead(w) PROVE TypeOK' /\ ReadersCounted'
  <2>1. /\ pc[w] = "reading" /\ pc'[w] = "idle" /\ d_nreading' = d_nreading - 1
        /\ pc' \in [Workers -> Labels]
        /\ \A v \in Workers \ {w} : \/ pc'[v] = pc[v]
                                    \/ pc[v] = "update_wait" /\ pc'[v] = "update_test"
        /\ UNCHANGED <<d_write_request, published, crashed>>
    BY <1>2 DEF LeaveRead, In, Goto, At, TypeOK, Labels
  <2>2. ReadersCounted' /\ d_nreading' \in Nat
    BY <1>1, <2>1
  <2>3. QED
    BY <2>1, <2>2 DEF TypeOK
<1>3. ASSUME NEW w \in Workers, EnterRead(w) PROVE TypeOK' /\ ReadersCounted'
  <2>1. CASE ~d_write_request
    <3>1. /\ pc[w] = "read" /\ pc' = [pc EXCEPT ![w] = "reading"]
          /\ d_nreading' = d_nreading + 1
          /\ UNCHANGED <<d_write_request, published, crashed>>
      BY <1>3, <2>1 DEF EnterRead, In, Goto
    <3>2. At("reading")' = At("reading") \cup {w} /\ w \notin At("reading")
      BY <3>1 DEF At, TypeOK
    <3>3. Cardinality(At("reading")') = Cardinality(At("reading")) + 1
      BY <3>2, AtFinite, FS_AddElement
    <3>4. QED
      BY <3>1, <3>3 DEF ReadersCounted, TypeOK, Labels
  <2>2. CASE d_write_request
    <3>1. At("reading")' = At("reading")
      BY <1>3, <2>2 DEF EnterRead, In, Goto, At, TypeOK
    <3>2. QED
      BY <1>3, <2>2, <3>1 DEF EnterRead, In, Goto, ReadersCounted, TypeOK, Labels
  <2>3. QED
    BY <2>1, <2>2 DEF TypeOK
<1>4. ASSUME NEW w \in Workers,
             Start(w) \/ Request(w) \/ TestAgain(w) \/ FinishWrite(w) \/ WriteWithoutMap(w)
                \/ Publish(w) \/ Filled(w) \/ SpuriousWake(w)
      PROVE  TypeOK' /\ ReadersCounted'
  <2>1. At("reading")' = At("reading") /\ UNCHANGED d_nreading
    BY <1>4 DEF Start, Request, TestAgain, AwaitReaders, FinishWrite, WriteWithoutMap, Publish,
                Filled, SpuriousWake, In, Goto, At, TypeOK
  <2>2. TypeOK'
    BY <1>4, <2>1 DEF Start, Request, TestAgain, AwaitReaders, FinishWrite, WriteWithoutMap,
                      Publish, Filled, SpuriousWake, In, Goto, TypeOK, Labels
  <2>3. QED
    BY <2>1, <2>2 DEF ReadersCounted
<1>5. CASE UNCHANGED vars
  BY <1>5 DEF vars, TypeOK, ReadersCounted, At
<1>6. QED
  BY <1>2, <1>3, <1>4, <1>5 DEF Next, Advance
-----------------------------------------------------------------------------
(* Inductive: until two updates meet, at most one worker is inside         *)
(* expandMap, and then the lock works.                                     *)
LockInv == ~overlapped => Alone /\ IInv

LEMMA LockInitially == MInit => LockInv
<1>1. ASSUME MInit PROVE Alone
  BY <1>1 DEF MInit, Init, Alone
<1>2. QED
  BY <1>1, InitInv DEF MInit, LockInv

(* A step of the lock after which no more workers are inside expandMap.    *)
LEMMA LockStep ==
    ASSUME Alone, IInv, [Next]_vars,
           \A v \in Workers : pc'[v] \in {"update", "update_wait", "update_test", "writing"}
               => pc[v] \in {"update", "update_wait", "update_test", "writing"}
    PROVE  Alone' /\ IInv'
BY NextInv DEF Alone

(* A worker inside getMap, initialize or expandMap.                        *)
LEMMA AdvanceStep ==
    ASSUME Alone, IInv, NEW w \in Workers, Advance(w) \/ SpuriousWake(w)
    PROVE  Alone' /\ IInv'
<1>1. [Next]_vars
  BY DEF Next
<1>2. \A v \in Workers : pc'[v] \in {"update", "update_wait", "update_test", "writing"}
               => pc[v] \in {"update", "update_wait", "update_test", "writing"}
  BY DEF Advance, SpuriousWake, In, Goto, At, EnterRead, LeaveRead, Request, TestAgain,
         AwaitReaders, FinishWrite, WriteWithoutMap, Publish, Filled, IInv, TypeOK
<1>3. QED
  BY <1>1, <1>2, LockStep

(* Data brings a worker to getMap.                                         *)
LEMMA TakeDataStep ==
    ASSUME Alone, IInv, NEW w \in Workers, TakeData(w)
    PROVE  Alone' /\ IInv'
<1>1. [Next]_vars
  BY DEF TakeData, Next
<1>2. \A v \in Workers : pc'[v] \in {"update", "update_wait", "update_test", "writing"}
               => pc[v] \in {"update", "update_wait", "update_test", "writing"}
  BY DEF TakeData, Start, In, Goto, IInv, TypeOK
<1>3. QED
  BY <1>1, <1>2, LockStep

LEMMA KindsOfAnswers ==
    \A m \in Answers : m.kind \in {"initial", "update"}
BY DEF Answers, Snapshot, Extend

(* An update that meets no other is the only one.                          *)
LEMMA TakeAnswerStep ==
    ASSUME Alone, IInv, answers \subseteq Answers, NEW w \in Workers, NEW m \in answers, TakeAnswer(w, m), ~overlapped'
    PROVE  Alone' /\ IInv'
<1>1. Start(w) /\ [Next]_vars
  BY DEF TakeAnswer, Next
<1>2. IInv'
  BY <1>1, NextInv
<1>3. CASE m.kind # "update"
  <2>1. \A v \in Workers : pc'[v] \in {"update", "update_wait", "update_test", "writing"}
               => pc[v] \in {"update", "update_wait", "update_test", "writing"}
    BY <1>1, <1>3, KindsOfAnswers DEF TakeAnswer, Start, In, Goto, IInv, TypeOK
  <2>2. QED
    BY <1>1, <2>1, LockStep
<1>4. CASE m.kind = "update"
  <2>1. \A v \in Workers : pc[v] \notin {"update", "update_wait", "update_test", "writing"}
    BY <1>4 DEF TakeAnswer, Updating, At
  <2>2. \A v \in Workers \ {w} : pc'[v] = pc[v]
    BY <1>1 DEF Start, In, Goto, IInv, TypeOK
  <2>3. QED
    BY <1>2, <2>1, <2>2 DEF Alone
<1>5. QED
  BY <1>3, <1>4
-----------------------------------------------------------------------------
(* Inductive: the types, and that a map that is being filled is there.     *)
Supplied == {"update", "update_wait", "update_test", "writing", "initialize", "filling"}

TypeInv ==
    /\ MapTypeOK
    /\ ReadersCounted
    /\ hand \in [Workers -> SUBSET Sensors]
    /\ \A w \in Workers : pc[w] = "filling" => published

(* What a step has to show apart from the lock's types.                    *)
LEMMA TypeInvFrom ==
    ASSUME TypeInv, [Next]_vars,
           map' \subseteq master', master' \subseteq Sensors, published' \/ map' = {},
           requests' \subseteq Requests, answers' \subseteq Answers,
           \A m \in answers' : m.sensors \subseteq master',
           hand' \in [Workers -> SUBSET Sensors],
           \A w \in Workers :
               /\ pc'[w] \in Supplied => hand'[w] \subseteq master'
               /\ pc'[w] = "filling" => published'
    PROVE  TypeInv'
<1>1. TypeOK' /\ ReadersCounted'
  BY LockTypes DEF TypeInv, MapTypeOK
<1>2. MapTypeOK'
  BY <1>1 DEF MapTypeOK, Supplied
<1>3. QED
  BY <1>1, <1>2 DEF TypeInv

LEMMA TypesInitially == MInit => TypeInv
<1>1. ASSUME MInit PROVE TypeInv
  <2>1. TypeOK /\ ReadersCounted
    BY <1>1, InitInv DEF MInit, IInv
  <2>2. \A w \in Workers : pc[w] = "idle"
    BY <1>1 DEF MInit, Init
  <2>3. QED
    BY <1>1, <2>1, <2>2 DEF MInit, TypeInv, MapTypeOK
<1>2. QED
  BY <1>1

(* What is asked for is one of the requests.                               *)
LEMMA AskedIsRequest ==
    ASSUME NEW sensors \in SUBSET Sensors, NEW seen
    PROVE  Asked(sensors, seen) \subseteq Requests
<1>1. sensors \ seen \in SUBSET Sensors
  OBVIOUS
<1>2. QED
  BY <1>1 DEF Asked, Requests

LEMMA MessageTypes ==
    /\ \A m \in Answers : m.sensors \subseteq Sensors
    /\ \A r \in Requests : r.sensors \subseteq Sensors /\ (r # Get => r = Extend(r.sensors))
BY DEF Answers, Requests, Snapshot, Extend, Get

LEMMA TakeTypes ==
    ASSUME TypeInv, NEW w \in Workers,
           TakeData(w) \/ \E m \in answers : TakeAnswer(w, m)
    PROVE  TypeInv'
<1>1. [Next]_vars /\ Start(w)
  BY DEF TakeData, TakeAnswer, Next
<1>2. /\ UNCHANGED <<published, map, master, requests>>
      /\ \A v \in Workers \ {w} : pc'[v] = pc[v]
  BY <1>1 DEF Start, In, Goto, TakeData, TakeAnswer, TypeInv, MapTypeOK, TypeOK
<1>3. PICK d \in SUBSET Sensors : Hold(w, d) /\ (pc'[w] = "read" \/ d \subseteq master)
                                /\ pc'[w] # "filling" /\ answers' \subseteq answers
  <2>1. CASE TakeData(w)
    BY <2>1, MappingAssumption DEF TakeData
  <2>2. ASSUME NEW m \in answers, TakeAnswer(w, m)
        PROVE  /\ m.sensors \in SUBSET Sensors /\ m.sensors \subseteq master
               /\ Hold(w, m.sensors) /\ pc'[w] # "filling" /\ answers' \subseteq answers
    BY <2>2, MessageTypes DEF TakeAnswer, TypeInv, MapTypeOK
  <2>3. QED
    BY <2>1, <2>2
<1>4. /\ hand' \in [Workers -> SUBSET Sensors]
      /\ hand'[w] = d /\ \A v \in Workers \ {w} : hand'[v] = hand[v]
  BY <1>3 DEF Hold, TypeInv
<1>5. \A v \in Workers :
         /\ pc'[v] \in Supplied => hand'[v] \subseteq master
         /\ pc'[v] = "filling" => published
  BY <1>2, <1>3, <1>4 DEF Supplied, TypeInv, MapTypeOK
<1>6. QED
  BY <1>1, <1>2, <1>3, <1>4, <1>5, TypeInvFrom DEF TypeInv, MapTypeOK

(* Inside getMap, expandMap and initialize.                                *)
LEMMA WorkTypes ==
    ASSUME TypeInv, NEW w \in Workers, Work(w) \/ Wake(w)
    PROVE  TypeInv'
<1>1. [Next]_vars
  BY DEF Work, Wake, CopyMap, Expand, Replace, Fill, Lock, NullWrite, Next, Advance
<1>2. UNCHANGED <<master, answers>>
  BY DEF Work, Wake, CopyMap, Expand, Replace, Fill, Lock, NullWrite, contents
<1>3. /\ hand' \in [Workers -> SUBSET Sensors]
      /\ \A v \in Workers \ {w} : hand'[v] = hand[v]
      /\ hand'[w] \in {hand[w], {}}
  BY DEF Work, Wake, CopyMap, Expand, Replace, Fill, Lock, NullWrite, contents, Hold, TypeInv
<1>4. \A v \in Workers : pc'[v] \in Supplied => pc[v] \in Supplied
  BY DEF Work, Wake, CopyMap, Expand, Replace, Fill, Lock, NullWrite, Supplied, TypeInv, MapTypeOK,
         TypeOK, In, Goto, At, EnterRead, LeaveRead, Request, TestAgain, AwaitReaders, FinishWrite,
         WriteWithoutMap, Publish, Filled, SpuriousWake
<1>5. published' \in BOOLEAN /\ (published => published')
      /\ \A v \in Workers : pc'[v] = "filling" => published'
  BY DEF Work, Wake, CopyMap, Expand, Replace, Fill, Lock, NullWrite, TypeInv, MapTypeOK,
         TypeOK, In, Goto, At, EnterRead, LeaveRead, Request, TestAgain, AwaitReaders, FinishWrite,
         WriteWithoutMap, Publish, Filled, SpuriousWake
<1>6. requests' \subseteq Requests
  <2>1. CASE CopyMap(w)
    <3>1. PICK seen : requests' = requests \cup Asked(hand[w], seen)
      BY <2>1 DEF CopyMap
    <3>2. QED
      BY <3>1, AskedIsRequest DEF TypeInv, MapTypeOK
  <2>2. CASE ~CopyMap(w)
    BY <2>2 DEF Work, Wake, Expand, Replace, Fill, Lock, NullWrite, contents, TypeInv, MapTypeOK
  <2>3. QED
    BY <2>1, <2>2
<1>7. map' \subseteq master /\ (published' \/ map' = {})
  <2>1. CASE Expand(w)
    BY <2>1 DEF Expand, Expanded, FinishWrite, In, TypeInv, MapTypeOK
  <2>2. CASE Fill(w)
    BY <2>2 DEF Fill, Filled, In, TypeInv, MapTypeOK
  <2>3. CASE ~Expand(w) /\ ~Fill(w)
    <3>1. map' \in {map, {}}
      BY <2>3 DEF Work, Wake, CopyMap, Replace, Lock, NullWrite, contents
    <3>2. QED
      BY <1>5, <3>1 DEF TypeInv, MapTypeOK
  <2>4. QED
    BY <2>1, <2>2, <2>3
<1>8. \A v \in Workers : pc'[v] \in Supplied => hand'[v] \subseteq master
  BY <1>3, <1>4 DEF TypeInv, MapTypeOK, Supplied
<1>9. QED
  BY <1>1, <1>2, <1>3, <1>5, <1>6, <1>7, <1>8, TypeInvFrom DEF TypeInv, MapTypeOK

(* The master, lost messages, and the end and start of the process.        *)
LEMMA OutsideTypes ==
    ASSUME TypeInv, (\E r \in requests : Serve(r)) \/ Lose \/ Race \/ Kill \/ Restart
    PROVE  TypeInv'
<1>1. CASE \E r \in requests : Serve(r)
  <2>1. PICK r \in requests : Serve(r)
    BY <1>1
  <2>2. r.sensors \subseteq Sensors /\ (r # Get => r = Extend(r.sensors))
    <3>1. r \in Requests
      BY DEF TypeInv, MapTypeOK
    <3>2. QED
      BY <3>1, MessageTypes
  <2>3. PICK m \in Answers : answers' = answers \cup {m} /\ m.sensors \subseteq master'
    <3>1. CASE r = Get
      <4>1. Snapshot(master) \in Answers /\ Snapshot(master).sensors = master
        BY DEF Answers, Snapshot, TypeInv, MapTypeOK
      <4>2. QED
        BY <2>1, <3>1, <4>1 DEF Serve
    <3>2. CASE r # Get
      <4>1. r \in Answers
        BY <2>2, <3>2 DEF Answers
      <4>2. answers' = answers \cup {r} /\ r.sensors \subseteq master'
        BY <2>1, <3>2 DEF Serve
      <4>3. QED
        BY <4>1, <4>2
    <3>3. QED
      BY <3>1, <3>2
  <2>4. /\ UNCHANGED <<vars, map, hand>> /\ requests' \subseteq requests
        /\ master \subseteq master' /\ master' \subseteq Sensors
    BY <2>1, <2>2 DEF Serve, TypeInv, MapTypeOK
  <2>5. QED
    BY <2>3, <2>4, TypeInvFrom DEF vars, TypeInv, MapTypeOK, Supplied
<1>2. CASE Lose
  <2>1. /\ UNCHANGED <<vars, map, hand, master>>
        /\ requests' \subseteq requests /\ answers' \subseteq answers
    BY <1>2 DEF Lose
  <2>2. QED
    BY <2>1, TypeInvFrom DEF vars, TypeInv, MapTypeOK, Supplied
<1>3. CASE Race \/ Kill
  BY <1>3 DEF Race, Kill, contents, TypeInv, MapTypeOK, TypeOK, ReadersCounted, At
<1>4. CASE Restart
  <2>1. \A w \in Workers : pc'[w] = "idle"
    BY <1>4 DEF Restart
  <2>2. TypeOK' /\ ReadersCounted'
    <3>1. At("reading")' = {}
      BY <2>1 DEF At
    <3>2. QED
      BY <1>4, <3>1, FS_EmptySet DEF Restart, TypeOK, ReadersCounted, Labels
  <2>3. QED
    BY <1>4, <2>1, <2>2 DEF Restart, TypeInv, MapTypeOK
<1>5. QED
  BY <1>1, <1>2, <1>3, <1>4

LEMMA TypesPreserved == TypeInv /\ [MNext]_mvars => TypeInv'
<1>1. ASSUME TypeInv, UNCHANGED mvars PROVE TypeInv'
  BY <1>1 DEF mvars, vars, contents, TypeInv, MapTypeOK, TypeOK, ReadersCounted, At
<1>2. ASSUME TypeInv, MNext PROVE TypeInv'
  BY <1>2, TakeTypes, WorkTypes, OutsideTypes DEF MNext
<1>3. QED
  BY <1>1, <1>2

(* The map, the messages and what the workers hold are about sensors that  *)
(* the master has given a column, whatever is lost, killed or late.        *)
THEOREM MapTyped == MSpec => []MapTypeOK
<1>1. TypeInv => MapTypeOK
  BY DEF TypeInv
<1>2. QED
  BY <1>1, TypesInitially, TypesPreserved, PTL DEF MSpec
-----------------------------------------------------------------------------
(* Every step keeps the lock's invariant: it is one of the lock's steps    *)
(* taken while at most one worker updates, or changes nothing of it, or    *)
(* starts the process afresh.                                              *)
LEMMA LockPreserved ==
    ASSUME TypeInv, LockInv, [MNext]_mvars
    PROVE  LockInv'
<1> SUFFICES ASSUME ~overlapped' PROVE Alone' /\ IInv'
  BY DEF LockInv
<1>1. CASE Restart
  <2>1. \A w \in Workers : pc'[w] = "idle"
    BY <1>1 DEF Restart
  <2>2. Alone'
    BY <2>1 DEF Alone
  <2>3. TypeOK' /\ ReadersCounted'
    BY <1>1, OutsideTypes DEF TypeInv, MapTypeOK
  <2>4. ReadersExcludeWriter' /\ RequestStands' /\ NoSleeperWithoutReason'
    BY <1>1, <2>1 DEF Restart, ReadersExcludeWriter, RequestStands, NoSleeperWithoutReason, At
  <2>5. QED
    BY <2>2, <2>3, <2>4 DEF IInv
<1>2. CASE ~Restart
  <2>1. ~overlapped
    BY <1>2 DEF MNext, mvars, history, TakeData, TakeAnswer, Work, Wake, CopyMap, Expand, Replace,
                Fill, Lock, NullWrite, Serve, Lose, Race, Kill
  <2>2. Alone /\ IInv
    BY <2>1 DEF LockInv
  <2>3. ASSUME UNCHANGED <<d_write_request, d_nreading, published, pc>>, crashed' \in BOOLEAN
        PROVE  Alone' /\ IInv'
    BY <2>2, <2>3 DEF Alone, IInv, TypeOK, ReadersCounted, ReadersExcludeWriter, RequestStands,
                      NoSleeperWithoutReason, At
  <2>4. ASSUME UNCHANGED vars PROVE Alone' /\ IInv'
    BY <2>2, <2>3, <2>4 DEF vars, IInv, TypeOK
  <2>5. CASE \E r \in requests : Serve(r)
    BY <2>4, <2>5 DEF Serve
  <2>6. CASE Lose \/ UNCHANGED mvars
    BY <2>4, <2>6 DEF Lose, mvars
  <2>7. CASE Race \/ Kill
    BY <2>3, <2>7 DEF Race, Kill
  <2>8. ASSUME NEW w \in Workers, Work(w) \/ Wake(w) PROVE Alone' /\ IInv'
    BY <2>2, <2>8, AdvanceStep
       DEF Work, Wake, CopyMap, Expand, Replace, Fill, Lock, NullWrite, Advance
  <2>9. ASSUME NEW w \in Workers, TakeData(w) PROVE Alone' /\ IInv'
    BY <2>2, <2>9, TakeDataStep
  <2>10. ASSUME NEW w \in Workers, NEW m \in answers, TakeAnswer(w, m) PROVE Alone' /\ IInv'
    BY <2>2, <2>10, TakeAnswerStep DEF TypeInv, MapTypeOK
  <2>11. QED
    BY <1>2, <2>5, <2>6, <2>7, <2>8, <2>9, <2>10 DEF MNext
<1>3. QED
  BY <1>1, <1>2

(* Until two updates meet in the running process, no reader copies the map *)
(* while it is extended and nobody sleeps without a reason, however many   *)
(* workers may get an update, and through crashes and restarts.            *)
THEOREM LockHolds == MSpec => []LockHoldsAlone
<1>1. MInit => TypeInv /\ LockInv
  BY TypesInitially, LockInitially
<1>2. TypeInv /\ LockInv /\ [MNext]_mvars => (TypeInv /\ LockInv)'
  BY TypesPreserved, LockPreserved
<1>3. LockInv => LockHoldsAlone
  BY DEF LockInv, IInv, LockHoldsAlone
<1>4. QED
  BY <1>1, <1>2, <1>3, PTL DEF MSpec
-----------------------------------------------------------------------------
(* Inductive: in the first process an update is on its way only after the  *)
(* map has been seen, and a map stays.                                     *)
FirstInv ==
    ~restarted =>
        /\ cause # "null"
        /\ (\E r \in requests : r # Get) => published
        /\ (\E m \in answers : m.kind = "update") => published
        /\ (\E w \in Workers : pc[w] \in {"update", "update_wait", "update_test", "writing"})
               => published

LEMMA FirstInitially == MInit => FirstInv
BY DEF MInit, Init, FirstInv

LEMMA FirstPreserved ==
    ASSUME TypeInv, FirstInv, [MNext]_mvars
    PROVE  FirstInv'
<1> SUFFICES ASSUME ~restarted' PROVE FirstInv'
  BY DEF FirstInv
<1> USE DEF FirstInv
<1>1. ~restarted
  BY DEF MNext, mvars, history, TakeData, TakeAnswer, Work, Wake, CopyMap, Expand, Replace,
         Fill, Lock, NullWrite, Serve, Lose, Race, Kill, Restart
<1>2. CASE UNCHANGED mvars
  BY <1>1, <1>2 DEF mvars, vars, contents, history
<1>3. ASSUME NEW w \in Workers, TakeData(w) PROVE FirstInv'
  BY <1>1, <1>3 DEF TakeData, Start, In, Goto, history, TypeInv, MapTypeOK, TypeOK
<1>4. ASSUME NEW w \in Workers, NEW m \in answers, TakeAnswer(w, m) PROVE FirstInv'
  <2>1. m.kind = "update" => published
    BY <1>1
  <2>2. m.kind \in {"initial", "update"}
    BY KindsOfAnswers DEF TypeInv, MapTypeOK
  <2>3. \A v \in Workers \ {w} : pc'[v] = pc[v]
    BY <1>4 DEF TakeAnswer, Start, In, Goto, TypeInv, MapTypeOK, TypeOK
  <2>4. /\ answers' \subseteq answers
        /\ UNCHANGED <<published, requests, cause>>
        /\ pc'[w] = (IF m.kind = "initial" THEN "initialize" ELSE "update")
    BY <1>4 DEF TakeAnswer, Start
  <2>5. QED
    BY <1>1, <2>1, <2>2, <2>3, <2>4
<1>5. ASSUME NEW w \in Workers, Work(w) \/ Wake(w) PROVE FirstInv'
  <2>1. ~NullWrite(w)
    BY <1>1 DEF NullWrite, WriteWithoutMap, In
  <2>2. published => published'
    BY <1>5 DEF Work, Wake, CopyMap, Expand, Replace, Fill, Lock, NullWrite, LeaveRead, FinishWrite,
                Publish, Filled, EnterRead, Request, TestAgain, AwaitReaders, WriteWithoutMap,
                SpuriousWake
  <2>3. UNCHANGED <<answers, cause>>
    BY <1>5, <2>1 DEF Work, Wake, CopyMap, Expand, Replace, Fill, Lock, contents, history
  <2>4. (\E r \in requests' : r # Get) => published'
    <3>1. CASE CopyMap(w)
      <4>1. PICK seen : requests' = requests \cup Asked(hand[w], seen)
        BY <3>1 DEF CopyMap
      <4>2. (\E r \in Asked(hand[w], seen) : r # Get) => published
        BY DEF Asked
      <4>3. QED
        BY <1>1, <2>2, <4>1, <4>2
    <3>2. CASE ~CopyMap(w)
      BY <1>1, <1>5, <2>1, <2>2, <3>2 DEF Work, Wake, Expand, Replace, Fill, Lock, contents
    <3>3. QED
      BY <3>1, <3>2
  <2>5. \A v \in Workers : pc'[v] \in {"update", "update_wait", "update_test", "writing"}
               => pc[v] \in {"update", "update_wait", "update_test", "writing"}
    BY <1>5, <2>1
       DEF Work, Wake, CopyMap, Expand, Replace, Fill, Lock, TypeInv, MapTypeOK, TypeOK, In, Goto,
           At, EnterRead, LeaveRead, Request, TestAgain, AwaitReaders, FinishWrite, Publish,
           Filled, SpuriousWake
  <2>6. QED
    BY <1>1, <2>2, <2>3, <2>4, <2>5
<1>6. CASE \E r \in requests : Serve(r)
  <2>1. PICK r \in requests : Serve(r)
    BY <1>6
  <2>2. \A m \in answers' : m.kind = "update" => m \in answers \/ r # Get
    BY <2>1 DEF Serve, Snapshot
  <2>3. requests' \subseteq requests /\ UNCHANGED <<published, pc, cause>>
    BY <2>1 DEF Serve, vars, history
  <2>4. QED
    BY <1>1, <2>2, <2>3
<1>7. CASE Lose \/ Race \/ Kill
  <2>1. /\ requests' \subseteq requests /\ answers' \subseteq answers
        /\ UNCHANGED <<published, pc>> /\ (cause' = cause \/ cause' \in {"race", "killed"})
    BY <1>7 DEF Lose, Race, Kill, vars, contents
  <2>2. QED
    BY <1>1, <2>1
<1>8. CASE Restart
  BY <1>8 DEF Restart
<1>9. QED
  BY <1>2, <1>3, <1>4, <1>5, <1>6, <1>7, <1>8 DEF MNext

(* expandMap dereferences a null map only in a process that was restarted: *)
(* an update asked for by its predecessor came to it.                      *)
THEOREM NullNeedsRestart == MSpec => []NullWriteNeedsRestart
<1>1. MInit => TypeInv /\ FirstInv
  BY TypesInitially, FirstInitially
<1>2. TypeInv /\ FirstInv /\ [MNext]_mvars => (TypeInv /\ FirstInv)'
  BY TypesPreserved, FirstPreserved
<1>3. FirstInv => NullWriteNeedsRestart
  BY DEF FirstInv, NullWriteNeedsRestart
<1>4. QED
  BY <1>1, <1>2, <1>3, PTL DEF MSpec
=============================================================================
