-------------------------- MODULE StatusTableProofs --------------------------
(* Proofs about the status tables, for any finite pool of workers, any set *)
(* of keys and any number of messages and troubles.                        *)
EXTENDS StatusTable, FiniteSetTheorems, TLAPS

(* A statement that is accounted for went the normal way or is a trouble.  *)
LEMMA Accounted ==
    ASSUME TypeOK, NEW o \in Outcomes, Account(o)
    PROVE  /\ troubles' \in Nat
           /\ troubles' >= troubles
           /\ o.db \in Databases \cup {"none"}
           /\ o.answered \in BOOLEAN
           /\ o.db # "common" \/ o.answered = FALSE => troubles' = troubles + 1
           /\ o.answered => o.db \in Databases
<1>1. /\ o.db \in Databases \cup {"none"} /\ o.answered \in BOOLEAN
      /\ o.answered => o.db \in Databases
  BY DEF Outcomes
<1>2. o.db # "common" \/ o.answered = FALSE => o # Normal
  BY DEF Normal
<1>3. troubles \in Nat
  BY DEF TypeOK
<1>4. /\ troubles' \in Nat /\ troubles' >= troubles
      /\ o # Normal => troubles' = troubles + 1
  BY <1>3 DEF Account
<1>5. QED
  BY <1>1, <1>2, <1>4

(* The rows of a key and the workers about to insert can be counted.       *)
LEMMA Counts ==
    ASSUME TypeOK, NEW k \in Keys, NEW d \in Databases
    PROVE  /\ IsFiniteSet(RowsOf(d, k)) /\ Cardinality(RowsOf(d, k)) \in Nat
           /\ IsFiniteSet(Inserting(k)) /\ Cardinality(Inserting(k)) \in Nat
           /\ Cardinality(Inserting(k)) <= Cardinality(Workers)
           /\ Cardinality(Workers) \in Nat
<1>1. RowsOf(d, k) \subseteq rows[d] /\ IsFiniteSet(rows[d])
  BY DEF TypeOK, RowsOf
<1>2. Inserting(k) \subseteq Workers /\ IsFiniteSet(Workers)
  BY StatusAssumption DEF Inserting
<1>3. QED
  BY <1>1, <1>2, FS_Subset, FS_CardinalityType

(* The tables are empty at first.                                          *)
LEMMA InitInv == Init => IInv
<1> SUFFICES ASSUME Init PROVE IInv
  OBVIOUS
<1>1. TypeOK
  BY StatusAssumption, FS_EmptySet DEF Init, TypeOK, Databases, Row
<1>2. \A k \in Keys : \A d \in Databases : RowsOf(d, k) = {} /\ Inserting(k) = {}
  BY DEF Init, RowsOf, Inserting, Databases
<1>3. PendingBounded
  <2> SUFFICES ASSUME NEW k \in Keys
      PROVE  /\ Cardinality(RowsOf("common", k)) + Cardinality(Inserting(k))
                    <= Cardinality(Workers) + troubles
             /\ Cardinality(RowsOf("backup", k)) <= troubles
    BY DEF PendingBounded
  <2>1. Cardinality(Workers) \in Nat
    BY StatusAssumption, FS_CardinalityType
  <2>2. RowsOf("common", k) = {} /\ RowsOf("backup", k) = {} /\ Inserting(k) = {}
    BY <1>2 DEF Databases
  <2>3. /\ Cardinality(RowsOf("common", k)) = 0 /\ Cardinality(RowsOf("backup", k)) = 0
        /\ Cardinality(Inserting(k)) = 0
    BY <2>2, FS_EmptySet
  <2>4. QED
    BY <2>1, <2>3 DEF Init
<1>4. IdsUnique /\ BackupUsed /\ FoundIsOwn /\ ForeignNeedsTwoTroubles
  BY DEF Init, IdsUnique, BackupUsed, FoundIsOwn, ForeignNeedsTwoTroubles, Databases
<1>5. QED
  BY <1>1, <1>3, <1>4 DEF IInv
-----------------------------------------------------------------------------
(* A step that leaves the rows alone and makes nobody insert.              *)
LEMMA NobodyInserts ==
    ASSUME TypeOK, TypeOK', PendingBounded, UNCHANGED rows, troubles' >= troubles,
           \A k \in Keys : Inserting(k)' \subseteq Inserting(k)
    PROVE  PendingBounded'
<1> SUFFICES ASSUME NEW k \in Keys
    PROVE  /\ Cardinality(RowsOf("common", k)') + Cardinality(Inserting(k)')
                  <= Cardinality(Workers) + troubles'
           /\ Cardinality(RowsOf("backup", k)') <= troubles'
  BY DEF PendingBounded
<1>1. RowsOf("common", k)' = RowsOf("common", k) /\ RowsOf("backup", k)' = RowsOf("backup", k)
  BY DEF RowsOf
<1>2. IsFiniteSet(Inserting(k)) /\ Inserting(k)' \in SUBSET Inserting(k)
  BY Counts DEF Databases
<1>3. Cardinality(Inserting(k)') <= Cardinality(Inserting(k))
         /\ Cardinality(Inserting(k)') \in Nat
  BY <1>2, FS_Subset, FS_CardinalityType
<1>4. /\ Cardinality(RowsOf("common", k)) \in Nat /\ Cardinality(RowsOf("backup", k)) \in Nat
      /\ Cardinality(Inserting(k)) \in Nat /\ Cardinality(Workers) \in Nat
  BY Counts DEF Databases
<1>5. troubles \in Nat /\ troubles' \in Nat
  BY DEF TypeOK
<1>6. QED
  BY <1>1, <1>3, <1>4, <1>5 DEF PendingBounded

(* What the other conjuncts need when the tables stay as they are.         *)
LEMMA TablesKept ==
    ASSUME IInv, TypeOK', UNCHANGED tables, troubles' >= troubles
    PROVE  IdsUnique' /\ BackupUsed' /\ ForeignNeedsTwoTroubles'
<1>1. IdsUnique'
  BY DEF IInv, IdsUnique, tables
<1>2. troubles \in Nat /\ troubles' \in Nat
  BY DEF IInv, TypeOK
<1>3. BackupUsed' /\ ForeignNeedsTwoTroubles'
  BY <1>2 DEF IInv, BackupUsed, ForeignNeedsTwoTroubles, tables
<1>4. QED
  BY <1>1, <1>3

(* Taking a message, or dropping one for want of its history.              *)
LEMMA TakeStep == ASSUME IInv, NEW w \in Workers, Take(w) PROVE IInv'
<1> USE DEF IInv
<1>1. TypeOK'
  BY StatusAssumption DEF TypeOK, Take, Goto, Carried, Due, tables
<1>2. PendingBounded'
  <2>1. \A k \in Keys : Inserting(k)' \subseteq Inserting(k)
    BY DEF TypeOK, Take, Goto, Inserting
  <2>2. QED
    BY <1>1, <2>1, NobodyInserts DEF TypeOK, Take, tables
<1>3. FoundIsOwn'
  BY DEF TypeOK, Take, Goto, tables, FoundIsOwn
<1>4. QED
  BY <1>1, <1>2, <1>3, TablesKept DEF TypeOK, Take

LEMMA AbandonStep == ASSUME IInv, NEW w \in Workers, Abandon(w) PROVE IInv'
<1> USE DEF IInv
<1>1. TypeOK'
  BY DEF TypeOK, Abandon, Goto, tables, history
<1>2. troubles' >= troubles
  BY DEF TypeOK, Abandon
<1>3. PendingBounded'
  <2>1. \A k \in Keys : Inserting(k)' \subseteq Inserting(k)
    BY DEF TypeOK, Abandon, Goto, Inserting
  <2>2. QED
    BY <1>1, <1>2, <2>1, NobodyInserts DEF Abandon, tables
<1>4. FoundIsOwn'
  BY DEF TypeOK, Abandon, Goto, tables, FoundIsOwn
<1>5. QED
  BY <1>1, <1>2, <1>3, <1>4, TablesKept DEF Abandon
-----------------------------------------------------------------------------
(* A worker that joins those about to insert is one more of them.          *)
LEMMA OneMoreInserts ==
    ASSUME TypeOK, NEW w \in Workers, pc[w] = "find",
           pc' = [pc EXCEPT ![w] = "insert"], UNCHANGED msg, NEW k \in Keys
    PROVE  /\ k # msg[w].key => Inserting(k)' = Inserting(k)
           /\ k = msg[w].key => Cardinality(Inserting(k)') = Cardinality(Inserting(k)) + 1
           /\ Cardinality(Inserting(k)') <= Cardinality(Workers)
           /\ Cardinality(Inserting(k)') \in Nat
<1>1. Inserting(k)' = Inserting(k) \cup (IF k = msg[w].key THEN {w} ELSE {})
  BY DEF TypeOK, Inserting
<1>2. w \notin Inserting(k)
  BY DEF Inserting
<1>3. IsFiniteSet(Inserting(k))
  BY Counts DEF Databases
<1>4. k = msg[w].key => Cardinality(Inserting(k)') = Cardinality(Inserting(k)) + 1
  BY <1>1, <1>2, <1>3, FS_AddElement
<1>5. Inserting(k)' \in SUBSET Workers /\ IsFiniteSet(Workers)
  BY StatusAssumption DEF Inserting
<1>6. QED
  BY <1>1, <1>4, <1>5, FS_Subset, FS_CardinalityType

(* The lookup: no answer, no row, or some row.                             *)
LEMMA FindStep == ASSUME IInv, NEW w \in Workers, Find(w) PROVE IInv'
<1> USE DEF IInv
<1>1. PICK o \in Outcomes :
        /\ Account(o)
        /\ \/ ~o.answered /\ NoAnswer(w) /\ UNCHANGED found
           \/ /\ o.answered /\ Hits(o.db, w) = {}
              /\ Goto(w, "insert") /\ UNCHANGED found
           \/ /\ o.answered
              /\ \E r \in Hits(o.db, w) :
                    /\ Goto(w, IF Outdated(w, r) THEN "update" ELSE "idle")
                    /\ found' = [found EXCEPT ![w] = r.id]
  BY DEF Find
<1>2. UNCHANGED <<tables, taken, msg, history>> /\ pc[w] = "find"
  BY DEF Find
<1>3. /\ troubles \in Nat /\ troubles' \in Nat /\ troubles' >= troubles
      /\ o.db \in Databases \cup {"none"} /\ o.answered \in BOOLEAN
      /\ o.db # "common" \/ o.answered = FALSE => troubles' = troubles + 1
      /\ o.answered => o.db \in Databases
  BY <1>1, Accounted DEF TypeOK
<1>4. \A d \in Databases : \A r \in Hits(d, w) : r \in rows[d] /\ r.id \in Nat /\ r.key = msg[w].key
  BY DEF Hits, RowsOf, TypeOK, Row
<1>5. TypeOK'
  <2>1. pc' \in [Workers -> {"idle", "find", "insert", "ask", "update"}]
    BY <1>1 DEF TypeOK, Goto, NoAnswer, Crash
  <2>2. found' \in [Workers -> Nat]
    BY <1>1, <1>3, <1>4 DEF TypeOK
  <2>3. QED
    BY <1>2, <1>3, <2>1, <2>2 DEF TypeOK, tables, history
<1>6. CASE pc' = [pc EXCEPT ![w] = "insert"] /\ UNCHANGED found
  <2>1. \/ troubles' = troubles + 1
        \/ o.db = "common" /\ o.answered /\ RowsOf("common", msg[w].key) = {}
    <3>1. CASE ~o.answered
      BY <3>1, <1>3
    <3>2. CASE o.answered /\ Hits(o.db, w) = {}
      BY <3>2, <1>3 DEF Hits
    <3>3. CASE o.answered /\ pc' = [pc EXCEPT ![w] = "update"]
      BY <3>3, <1>6 DEF TypeOK
    <3>4. CASE o.answered /\ pc' = [pc EXCEPT ![w] = "idle"]
      BY <3>4, <1>6 DEF TypeOK
    <3>5. QED
      BY <1>1, <3>1, <3>2, <3>3, <3>4 DEF Goto
  <2>2. PendingBounded'
    <3> SUFFICES ASSUME NEW k \in Keys
        PROVE  /\ Cardinality(RowsOf("common", k)') + Cardinality(Inserting(k)')
                      <= Cardinality(Workers) + troubles'
               /\ Cardinality(RowsOf("backup", k)') <= troubles'
      BY DEF PendingBounded
    <3>1. RowsOf("common", k)' = RowsOf("common", k) /\ RowsOf("backup", k)' = RowsOf("backup", k)
      BY <1>2 DEF RowsOf, tables
    <3>2. /\ Cardinality(RowsOf("common", k)) \in Nat /\ Cardinality(RowsOf("backup", k)) \in Nat
          /\ Cardinality(Inserting(k)) \in Nat /\ Cardinality(Workers) \in Nat
      BY Counts DEF Databases
    <3>3. /\ Cardinality(RowsOf("common", k)) + Cardinality(Inserting(k))
                 <= Cardinality(Workers) + troubles
          /\ Cardinality(RowsOf("backup", k)) <= troubles
      BY DEF PendingBounded
    <3>4. /\ k # msg[w].key => Inserting(k)' = Inserting(k)
          /\ k = msg[w].key => Cardinality(Inserting(k)') = Cardinality(Inserting(k)) + 1
          /\ Cardinality(Inserting(k)') <= Cardinality(Workers)
          /\ Cardinality(Inserting(k)') \in Nat
      BY <1>2, <1>6, OneMoreInserts
    <3>5. k = msg[w].key /\ RowsOf("common", msg[w].key) = {} => Cardinality(RowsOf("common", k)) = 0
      BY FS_EmptySet
    <3>6. CASE troubles' = troubles + 1
      BY <3>1, <3>2, <3>3, <3>4, <3>6, <1>3
    <3>7. CASE k # msg[w].key
      BY <3>1, <3>2, <3>3, <3>4, <3>7, <1>3
    <3>8. CASE k = msg[w].key /\ RowsOf("common", msg[w].key) = {}
      BY <3>1, <3>2, <3>3, <3>4, <3>5, <3>8, <1>3
    <3>9. QED
      BY <2>1, <3>6, <3>7, <3>8
  <2>3. FoundIsOwn'
    BY <1>2, <1>3, <1>6 DEF FoundIsOwn, TypeOK, tables
  <2>4. QED
    BY <1>2, <1>3, <1>5, <2>2, <2>3, TablesKept
<1>7. ASSUME UNCHANGED found,
             pc' = [pc EXCEPT ![w] = "idle"] \/ pc' = [v \in Workers |-> "idle"]
      PROVE  IInv'
  <2>1. \A k \in Keys : Inserting(k)' \subseteq Inserting(k)
    BY <1>2, <1>7 DEF Inserting, TypeOK
  <2>2. PendingBounded'
    BY <1>2, <1>3, <1>5, <2>1, NobodyInserts DEF tables
  <2>3. FoundIsOwn'
    BY <1>2, <1>3, <1>7 DEF FoundIsOwn, TypeOK, tables
  <2>4. QED
    BY <1>2, <1>3, <1>5, <2>2, <2>3, TablesKept
<1>8. CASE o.answered /\ \E r \in Hits(o.db, w) :
              /\ Goto(w, IF Outdated(w, r) THEN "update" ELSE "idle")
              /\ found' = [found EXCEPT ![w] = r.id]
  <2>1. PICK r \in Hits(o.db, w) :
          /\ Goto(w, IF Outdated(w, r) THEN "update" ELSE "idle")
          /\ found' = [found EXCEPT ![w] = r.id]
    BY <1>8
  <2>2. \A k \in Keys : Inserting(k)' \subseteq Inserting(k)
    BY <1>2, <2>1 DEF Inserting, TypeOK, Goto
  <2>3. PendingBounded'
    BY <1>2, <1>3, <1>5, <2>2, NobodyInserts DEF tables
  <2>4. r \in rows[o.db] /\ r.key = msg[w].key /\ o.db \in Databases
    BY <1>3, <1>4, <1>8
  <2>5. FoundIsOwn'
    <3>1. CASE o.db = "backup"
      <4>1. troubles >= 1
        BY <3>1, <2>4 DEF BackupUsed
      <4>2. troubles' >= 2
        BY <3>1, <4>1, <1>3
      <4>3. QED
        BY <4>2, <1>3 DEF FoundIsOwn
    <3>2. CASE o.db = "common"
      <4>1. /\ r.id <= lastId["common"]
            /\ \A s \in rows["common"] : s.id = r.id => s.key = msg[w].key
        BY <3>2, <2>4 DEF IdsUnique
      <4>2. \A v \in Workers : v # w => pc'[v] = pc[v] /\ found'[v] = found[v]
        BY <2>1 DEF TypeOK, Goto
      <4>3. found'[w] = r.id
        BY <2>1 DEF TypeOK
      <4>4. QED
        BY <4>1, <4>2, <4>3, <1>2, <1>3 DEF FoundIsOwn, tables
    <3>3. QED
      BY <2>4, <3>1, <3>2 DEF Databases
  <2>6. QED
    BY <1>2, <1>3, <1>5, <2>3, <2>5, TablesKept
<1>9. QED
  BY <1>1, <1>6, <1>7, <1>8 DEF NoAnswer, Crash, Goto
-----------------------------------------------------------------------------
(* The new row: the worker stops being about to insert, and the row has an *)
(* id that nobody holds.                                                   *)
LEMMA InsertStep == ASSUME IInv, NEW w \in Workers, Insert(w) PROVE IInv'
<1> USE DEF IInv
<1> DEFINE new(d) == [id |-> NextId(d), key |-> msg[w].key,
                      value |-> msg[w].value, usage |-> msg[w].value,
                      owner |-> msg[w].key]
<1>1. PICK o \in Outcomes :
        /\ Account(o)
        /\ rows' = [d \in Databases |-> IF d = o.db THEN rows[d] \cup {new(d)} ELSE rows[d]]
        /\ lastId' = [d \in Databases |-> IF d = o.db THEN NextId(d) ELSE lastId[d]]
        /\ Goto(w, IF kind \in Snmp /\ o.answered THEN "ask" ELSE "idle")
  BY DEF Insert
<1>2. UNCHANGED <<kind, taken, msg, found, history>> /\ pc[w] = "insert"
  BY DEF Insert
<1>3. /\ troubles \in Nat /\ troubles' \in Nat /\ troubles' >= troubles
      /\ o.db # "common" => troubles' = troubles + 1
  BY <1>1, Accounted DEF TypeOK
<1>4. \A d \in Databases : /\ new(d) \in Row
                           /\ new(d).id = lastId[d] + 1 /\ lastId[d] \in Nat
                           /\ new(d).key = msg[w].key /\ new(d).owner = msg[w].key
  BY DEF NextId, TypeOK, Row
<1> HIDE DEF new
<1>5. \A d \in Databases :
        \/ rows'[d] = rows[d] /\ lastId'[d] = lastId[d]
        \/ d = o.db /\ rows'[d] = rows[d] \cup {new(d)} /\ lastId'[d] = lastId[d] + 1
  BY <1>1 DEF NextId
<1>6. TypeOK'
  <2>1. \A d \in Databases : rows[d] \in SUBSET Row /\ IsFiniteSet(rows[d])
    BY DEF TypeOK
  <2>2. \A d \in Databases : rows'[d] \in SUBSET Row
    BY <1>4, <1>5, <2>1
  <2>3. \A d \in Databases : IsFiniteSet(rows'[d])
    <3>1. \A d \in Databases : IsFiniteSet(rows[d] \cup {new(d)})
      BY <2>1, FS_AddElement
    <3>2. QED
      BY <1>5, <2>1, <3>1
  <2>4. rows' \in [Databases -> SUBSET Row]
    BY <1>1, <2>2
  <2>5. lastId' \in [Databases -> Nat]
    BY <1>1, <1>4 DEF NextId
  <2>6. pc' \in [Workers -> {"idle", "find", "insert", "ask", "update"}]
    BY <1>1 DEF TypeOK, Goto
  <2>7. QED
    BY <1>2, <1>3, <2>3, <2>4, <2>5, <2>6 DEF TypeOK, history
<1>7. PendingBounded'
  <2> SUFFICES ASSUME NEW k \in Keys
      PROVE  /\ Cardinality(RowsOf("common", k)') + Cardinality(Inserting(k)')
                    <= Cardinality(Workers) + troubles'
             /\ Cardinality(RowsOf("backup", k)') <= troubles'
    BY DEF PendingBounded
  <2>1. Inserting(k)' = Inserting(k) \ (IF k = msg[w].key THEN {w} ELSE {})
    BY <1>1, <1>2 DEF Inserting, TypeOK, Goto
  <2>2. k = msg[w].key => w \in Inserting(k)
    BY <1>2 DEF Inserting
  <2>3. \A d \in Databases : /\ IsFiniteSet(RowsOf(d, k)) /\ Cardinality(RowsOf(d, k)) \in Nat
                             /\ IsFiniteSet(Inserting(k)) /\ Cardinality(Inserting(k)) \in Nat
                             /\ Cardinality(Workers) \in Nat
    BY Counts
  <2>4. /\ k = msg[w].key => Cardinality(Inserting(k)') = Cardinality(Inserting(k)) - 1
        /\ k # msg[w].key => Cardinality(Inserting(k)') = Cardinality(Inserting(k))
    BY <2>1, <2>2, <2>3, FS_RemoveElement DEF Databases
  <2>5. \A d \in Databases :
          \/ RowsOf(d, k)' = RowsOf(d, k)
          \/ d = o.db /\ k = msg[w].key /\ RowsOf(d, k)' = RowsOf(d, k) \cup {new(d)}
    BY <1>4, <1>5 DEF RowsOf
  <2>6. \A d \in Databases :
          \/ Cardinality(RowsOf(d, k)') = Cardinality(RowsOf(d, k))
          \/ /\ d = o.db /\ k = msg[w].key
             /\ \/ Cardinality(RowsOf(d, k)') = Cardinality(RowsOf(d, k))
                \/ Cardinality(RowsOf(d, k)') = Cardinality(RowsOf(d, k)) + 1
    BY <2>3, <2>5, FS_AddElement
  <2>7. /\ Cardinality(RowsOf("common", k)) + Cardinality(Inserting(k))
               <= Cardinality(Workers) + troubles
        /\ Cardinality(RowsOf("backup", k)) <= troubles
    BY DEF PendingBounded
  <2>8. Cardinality(RowsOf("common", k)') + Cardinality(Inserting(k)')
               <= Cardinality(Workers) + troubles'
    BY <1>3, <2>3, <2>4, <2>6, <2>7 DEF Databases
  <2>9. Cardinality(RowsOf("backup", k)') <= troubles'
    BY <1>3, <2>3, <2>6, <2>7 DEF Databases
  <2>10. QED
    BY <2>8, <2>9
<1>8. IdsUnique'
  <2> SUFFICES ASSUME NEW d \in Databases
      PROVE  /\ \A r \in rows'[d] : r.id <= lastId'[d]
             /\ \A r, s \in rows'[d] : r.id = s.id => r = s
    BY DEF IdsUnique
  <2>1. /\ \A r \in rows[d] : r.id \in Nat /\ r.id <= lastId[d]
        /\ \A r, s \in rows[d] : r.id = s.id => r = s
    BY DEF IdsUnique, TypeOK, Row
  <2>2. QED
    BY <1>4, <1>5, <2>1
<1>9. BackupUsed'
  BY <1>3, <1>5 DEF BackupUsed, Databases
<1>10. FoundIsOwn'
  <2> SUFFICES ASSUME troubles' < 2, NEW v \in Workers, pc'[v] = "update"
      PROVE  /\ found'[v] <= lastId'["common"]
             /\ \A r \in rows'["common"] : r.id = found'[v] => r.key = msg'[v].key
    BY DEF FoundIsOwn
  <2>1. pc[v] = "update" /\ found'[v] = found[v] /\ msg'[v] = msg[v] /\ found[v] \in Nat
    BY <1>1, <1>2 DEF TypeOK, Goto
  <2>2. /\ found[v] <= lastId["common"]
        /\ \A r \in rows["common"] : r.id = found[v] => r.key = msg[v].key
    BY <1>3, <2>1 DEF FoundIsOwn
  <2>3. QED
    BY <1>4, <1>5, <2>1, <2>2 DEF Databases
<1>11. ForeignNeedsTwoTroubles'
  BY <1>3, <1>4, <1>5 DEF ForeignNeedsTwoTroubles
<1>12. QED
  BY <1>6, <1>7, <1>8, <1>9, <1>10, <1>11

(* Asking for the id changes nothing, or ends the process.                 *)
LEMMA AskStep == ASSUME IInv, NEW w \in Workers, AskId(w) PROVE IInv'
<1> USE DEF IInv
<1>1. PICK o \in Outcomes : Account(o) /\ (Goto(w, "idle") \/ Crash)
  BY DEF AskId
<1>2. UNCHANGED <<tables, taken, msg, found, history>> /\ pc[w] = "ask"
  BY DEF AskId
<1>3. troubles \in Nat /\ troubles' \in Nat /\ troubles' >= troubles
  BY <1>1, Accounted DEF TypeOK
<1>4. TypeOK'
  BY <1>1, <1>2, <1>3 DEF TypeOK, Goto, Crash, tables, history
<1>5. PendingBounded'
  <2>1. \A k \in Keys : Inserting(k)' \subseteq Inserting(k)
    BY <1>1, <1>2 DEF Inserting, TypeOK, Goto, Crash
  <2>2. QED
    BY <1>2, <1>3, <1>4, <2>1, NobodyInserts DEF tables
<1>6. FoundIsOwn'
  BY <1>1, <1>2, <1>3 DEF FoundIsOwn, TypeOK, Goto, Crash, tables
<1>7. QED
  BY <1>2, <1>3, <1>4, <1>5, <1>6, TablesKept
-----------------------------------------------------------------------------
(* Rewriting rows in place makes their number no larger.                   *)
LEMMA WrittenCount ==
    ASSUME NEW w, NEW S, IsFiniteSet(S)
    PROVE  /\ IsFiniteSet({Written(w, r) : r \in S})
           /\ Cardinality({Written(w, r) : r \in S}) <= Cardinality(S)
<1> DEFINE T == {Written(w, r) : r \in S}
           f == [r \in S |-> Written(w, r)]
<1>1. f \in Surjection(S, T)
  BY DEF Surjection
<1>2. QED
  BY <1>1, FS_Surjection

(* The update: same rows, same keys, one of them with new values.          *)
LEMMA UpdateStep == ASSUME IInv, NEW w \in Workers, Update(w) PROVE IInv'
<1> USE DEF IInv
<1>1. PICK o \in Outcomes :
        /\ Account(o)
        /\ rows' = [d \in Databases |->
                      IF d = o.db THEN {Written(w, r) : r \in rows[d]} ELSE rows[d]]
  BY DEF Update
<1>2. UNCHANGED <<kind, lastId, taken, msg, found, history>> /\ pc[w] = "update" /\ Goto(w, "idle")
  BY DEF Update
<1>3. /\ troubles \in Nat /\ troubles' \in Nat /\ troubles' >= troubles
      /\ o.db # "common" => troubles' = troubles + 1
  BY <1>1, Accounted DEF TypeOK
<1>4. \A d \in Databases :
        \/ rows'[d] = rows[d]
        \/ d = o.db /\ rows'[d] = {Written(w, r) : r \in rows[d]}
  BY <1>1
<1>5. \A d \in Databases : \A r \in rows[d] :
        /\ r \in Row /\ Written(w, r) \in Row
        /\ Written(w, r).id = r.id /\ Written(w, r).key = r.key
        /\ r.id # found[w] => Written(w, r) = r
        /\ r.id = found[w] => Written(w, r).owner = msg[w].key
  <2> SUFFICES ASSUME NEW r \in Row
      PROVE  /\ Written(w, r) \in Row
             /\ Written(w, r).id = r.id /\ Written(w, r).key = r.key
             /\ r.id # found[w] => Written(w, r) = r
             /\ r.id = found[w] => Written(w, r).owner = msg[w].key
    BY DEF TypeOK
  <2>1. msg[w].key \in Keys /\ msg[w].value \in Nat
    BY DEF TypeOK
  <2>2. CASE r.id # found[w]
    BY <2>2 DEF Written
  <2>3. CASE r.id = found[w]
    <3>1. Written(w, r) = [r EXCEPT !.value = msg[w].value, !.owner = msg[w].key,
                           !.usage = IF kind = "perform" THEN r.usage ELSE msg[w].value]
      BY <2>3 DEF Written
    <3>2. QED
      BY <2>1, <2>3, <3>1 DEF Row
  <2>4. QED
    BY <2>2, <2>3
<1>6. TypeOK'
  <2>1. \A d \in Databases : rows[d] \in SUBSET Row /\ IsFiniteSet(rows[d])
    BY DEF TypeOK
  <2>2. \A d \in Databases : rows'[d] \in SUBSET Row
    BY <1>4, <1>5, <2>1
  <2>3. \A d \in Databases : IsFiniteSet(rows'[d])
    <3>1. \A d \in Databases : IsFiniteSet({Written(w, r) : r \in rows[d]})
      BY <2>1, WrittenCount
    <3>2. QED
      BY <1>4, <2>1, <3>1
  <2>4. rows' \in [Databases -> SUBSET Row]
    BY <1>1, <2>2
  <2>5. pc' \in [Workers -> {"idle", "find", "insert", "ask", "update"}]
    BY <1>2 DEF TypeOK, Goto
  <2>6. QED
    BY <1>2, <1>3, <2>3, <2>4, <2>5 DEF TypeOK, history
<1>7. PendingBounded'
  <2> SUFFICES ASSUME NEW k \in Keys
      PROVE  /\ Cardinality(RowsOf("common", k)') + Cardinality(Inserting(k)')
                    <= Cardinality(Workers) + troubles'
             /\ Cardinality(RowsOf("backup", k)') <= troubles'
    BY DEF PendingBounded
  <2>1. Inserting(k)' = Inserting(k)
    BY <1>2 DEF Inserting, TypeOK, Goto
  <2>2. \A d \in Databases : /\ IsFiniteSet(RowsOf(d, k)) /\ Cardinality(RowsOf(d, k)) \in Nat
                             /\ Cardinality(Inserting(k)) \in Nat /\ Cardinality(Workers) \in Nat
    BY Counts
  <2>3. \A d \in Databases : \/ RowsOf(d, k)' = RowsOf(d, k)
                             \/ RowsOf(d, k)' = {Written(w, r) : r \in RowsOf(d, k)}
    BY <1>4, <1>5 DEF RowsOf
  <2>4. \A d \in Databases :
          /\ IsFiniteSet({Written(w, r) : r \in RowsOf(d, k)})
          /\ Cardinality({Written(w, r) : r \in RowsOf(d, k)}) <= Cardinality(RowsOf(d, k))
    BY <2>2, WrittenCount
  <2>5. \A d \in Databases : /\ Cardinality(RowsOf(d, k)') <= Cardinality(RowsOf(d, k))
                             /\ Cardinality(RowsOf(d, k)') \in Nat
    BY <2>2, <2>3, <2>4, FS_CardinalityType
  <2>6. /\ Cardinality(RowsOf("common", k)) + Cardinality(Inserting(k))
               <= Cardinality(Workers) + troubles
        /\ Cardinality(RowsOf("backup", k)) <= troubles
    BY DEF PendingBounded
  <2>7. QED
    BY <1>3, <2>1, <2>2, <2>5, <2>6 DEF Databases
<1>8. IdsUnique'
  <2> SUFFICES ASSUME NEW d \in Databases
      PROVE  /\ \A r \in rows'[d] : r.id <= lastId'[d]
             /\ \A r, s \in rows'[d] : r.id = s.id => r = s
    BY DEF IdsUnique
  <2>1. /\ \A r \in rows[d] : r.id <= lastId[d]
        /\ \A r, s \in rows[d] : r.id = s.id => r = s
    BY DEF IdsUnique
  <2>2. QED
    BY <1>2, <1>4, <1>5, <2>1
<1>9. BackupUsed'
  BY <1>3, <1>4 DEF BackupUsed, Databases
<1>10. FoundIsOwn'
  <2> SUFFICES ASSUME troubles' < 2, NEW v \in Workers, pc'[v] = "update"
      PROVE  /\ found'[v] <= lastId'["common"]
             /\ \A r \in rows'["common"] : r.id = found'[v] => r.key = msg'[v].key
    BY DEF FoundIsOwn
  <2>1. pc[v] = "update" /\ found'[v] = found[v] /\ msg'[v] = msg[v]
    BY <1>2 DEF TypeOK, Goto
  <2>2. /\ found[v] <= lastId["common"]
        /\ \A r \in rows["common"] : r.id = found[v] => r.key = msg[v].key
    BY <1>3, <2>1 DEF FoundIsOwn
  <2>3. QED
    BY <1>2, <1>4, <1>5, <2>1, <2>2 DEF Databases
<1>11. ForeignNeedsTwoTroubles'
  <2> SUFFICES ASSUME troubles' < 2, NEW d \in Databases, NEW r \in rows'[d]
      PROVE  r.owner = r.key
    BY <1>3 DEF ForeignNeedsTwoTroubles
  <2>1. \A s \in rows[d] : s.owner = s.key
    BY <1>3 DEF ForeignNeedsTwoTroubles
  <2>2. \/ rows'[d] = rows[d]
        \/ d = o.db /\ rows'[d] = {Written(w, s) : s \in rows[d]}
    BY <1>4
  <2>3. CASE rows'[d] = rows[d]
    BY <2>1, <2>3
  <2>4. CASE d = "backup" /\ rows[d] # {} /\ d = o.db
    BY <2>4, <1>3 DEF BackupUsed
  <2>5. CASE d = "common" /\ rows'[d] = {Written(w, s) : s \in rows[d]}
    <3>1. \A s \in rows["common"] : s.id = found[w] => s.key = msg[w].key
      BY <1>2, <1>3 DEF FoundIsOwn
    <3>2. QED
      BY <1>5, <2>1, <2>5, <3>1
  <2>6. QED
    BY <2>2, <2>3, <2>4, <2>5 DEF Databases
<1>12. QED
  BY <1>6, <1>7, <1>8, <1>9, <1>10, <1>11
-----------------------------------------------------------------------------
(* Every step, and stuttering, preserves the inductive invariant.          *)
LEMMA StepInv == IInv /\ [Next]_vars => IInv'
<1> SUFFICES ASSUME IInv, [Next]_vars PROVE IInv'
  OBVIOUS
<1>1. ASSUME NEW w \in Workers, Take(w) PROVE IInv'
  BY <1>1, TakeStep
<1>2. ASSUME NEW w \in Workers, Abandon(w) PROVE IInv'
  BY <1>2, AbandonStep
<1>3. ASSUME NEW w \in Workers, Find(w) PROVE IInv'
  BY <1>3, FindStep
<1>4. ASSUME NEW w \in Workers, Insert(w) PROVE IInv'
  BY <1>4, InsertStep
<1>5. ASSUME NEW w \in Workers, AskId(w) PROVE IInv'
  BY <1>5, AskStep
<1>6. ASSUME NEW w \in Workers, Update(w) PROVE IInv'
  BY <1>6, UpdateStep
<1>7. CASE UNCHANGED vars
  <2>1. UNCHANGED tables /\ UNCHANGED <<kind, rows, lastId, taken, pc, msg, found, troubles, newest, overlapped>>
    BY <1>7 DEF vars, tables, inhand, history
  <2>2. TypeOK'
    BY <2>1 DEF IInv, TypeOK
  <2>3. \A k \in Keys : Inserting(k)' \subseteq Inserting(k)
    BY <2>1 DEF Inserting
  <2>4. troubles' >= troubles
    BY <2>1 DEF IInv, TypeOK
  <2>5. PendingBounded'
    BY <2>1, <2>2, <2>3, <2>4, NobodyInserts DEF IInv
  <2>6. FoundIsOwn'
    BY <2>1 DEF IInv, FoundIsOwn
  <2>7. QED
    BY <2>1, <2>2, <2>4, <2>5, <2>6, TablesKept DEF IInv
<1>8. QED
  BY <1>1, <1>2, <1>3, <1>4, <1>5, <1>6, <1>7 DEF Next

(* The inductive invariant holds in every reachable state.                 *)
THEOREM Invariance == Spec => []IInv
BY InitInv, StepInv, PTL DEF Spec

(* Every variable ranges over what the code can put into it.               *)
THEOREM TypeCorrect == Spec => []TypeOK
BY Invariance, PTL DEF IInv

(* The rows of one key never outnumber the workers, but for one more for   *)
(* every statement that failed or ran on the backup.                       *)
THEOREM DuplicatesAreBounded == Spec => []DuplicatesBounded
<1>1. IInv => DuplicatesBounded
  <2> SUFFICES ASSUME IInv, NEW k \in Keys
      PROVE  /\ Cardinality(RowsOf("common", k)) <= Cardinality(Workers) + troubles
             /\ Cardinality(RowsOf("backup", k)) <= troubles
    BY DEF DuplicatesBounded
  <2>1. /\ Cardinality(RowsOf("common", k)) \in Nat /\ Cardinality(Inserting(k)) \in Nat
        /\ Cardinality(Workers) \in Nat /\ troubles \in Nat
    BY Counts DEF IInv, TypeOK, Databases
  <2>2. QED
    BY <2>1 DEF IInv, PendingBounded
<1>2. QED
  BY <1>1, Invariance, PTL

(* No single failover writes one server's values into another's row.       *)
THEOREM ForeignTakesTwo == Spec => []ForeignNeedsTwoTroubles
BY Invariance, PTL DEF IInv
-----------------------------------------------------------------------------
(* As long as there is no trouble, statements go the normal way.           *)
LEMMA NoTrouble ==
    ASSUME TypeOK, NEW o \in Outcomes, Account(o), troubles' = 0
    PROVE  troubles = 0 /\ o.db = "common" /\ o.answered = TRUE
<1>1. o = Normal /\ troubles' = troubles
  BY DEF TypeOK, Account
<1>2. QED
  BY <1>1 DEF Normal

(* A worker who is at another key, before and after, is none of its        *)
(* business.                                                               *)
LEMMA OtherKey ==
    ASSUME NEW k \in Keys, Serial(k), NEW w \in Workers, UNCHANGED kind,
           RowsOf("common", k)' = RowsOf("common", k), newest'[k] = newest[k],
           \A v \in Workers \ {w} : pc'[v] = pc[v] /\ msg'[v] = msg[v] /\ found'[v] = found[v],
           w \notin Handling(k), w \notin Handling(k)'
    PROVE  Serial(k)'
<1>1. Handling(k)' = Handling(k)
  BY DEF Handling
<1>2. \A v \in Handling(k) : /\ v \in Workers \ {w} /\ msg[v].key = k
                             /\ pc'[v] = pc[v] /\ msg'[v] = msg[v] /\ found'[v] = found[v]
  BY DEF Handling
<1>3. \A v \in Handling(k) : RowAsExpected(v) => RowAsExpected(v)'
  <2> SUFFICES ASSUME NEW v \in Handling(k), RowAsExpected(v) PROVE RowAsExpected(v)'
    OBVIOUS
  <2>1. RowsOf("common", msg[v].key)' = RowsOf("common", k)
    BY <1>2 DEF RowsOf
  <2>2. \A r : Over(v, r)' = Over(v, r)
    BY <1>2 DEF Over
  <2>3. QED
    BY <1>2, <2>1, <2>2 DEF RowAsExpected
<1>4. QED
  BY <1>1, <1>3 DEF Serial

(* A message is taken for a key that nobody handles: the row, if any, has  *)
(* the newest value before it.                                             *)
LEMMA SerialTake ==
    ASSUME IInv, NEW w \in Workers, Take(w), NEW k \in Keys, k \notin overlapped', Serial(k)
    PROVE  Serial(k)'
<1>1. PICK j \in Keys, v \in Carried(taken + 1) :
        /\ msg' = [msg EXCEPT ![w] = [key |-> j, value |-> v]]
        /\ newest' = [newest EXCEPT ![j] = Due(j, v)]
        /\ overlapped' = overlapped \cup (IF Handling(j) = {} THEN {} ELSE {j})
  BY DEF Take
<1>2. /\ UNCHANGED <<kind, rows, found>> /\ pc[w] = "idle"
      /\ pc' = [pc EXCEPT ![w] = "find"]
  BY DEF Take, Goto, tables
<1>3. v \in Nat
  BY StatusAssumption DEF Carried, IInv, TypeOK
<1>4. RowsOf("common", k)' = RowsOf("common", k)
  BY <1>2 DEF RowsOf
<1>5. /\ \A u \in Workers \ {w} : pc'[u] = pc[u] /\ msg'[u] = msg[u] /\ found'[u] = found[u]
      /\ pc'[w] = "find" /\ msg'[w] = [key |-> j, value |-> v] /\ w \notin Handling(k)
  BY <1>1, <1>2 DEF IInv, TypeOK, Handling
<1>6. CASE k # j
  <2>1. w \notin Handling(k)' /\ newest'[k] = newest[k]
    BY <1>1, <1>5, <1>6 DEF Handling, IInv, TypeOK
  <2>2. QED
    BY <1>2, <1>4, <1>5, <2>1, OtherKey
<1>7. CASE k = j
  <2>1. Handling(k) = {}
    BY <1>1, <1>7
  <2>2. Handling(k)' = {w}
    BY <1>5, <1>7, <2>1 DEF Handling
  <2>3. newest'[k] = IF kind = "log" /\ v < newest[k] THEN newest[k] ELSE v
    BY <1>1, <1>7 DEF Due, IInv, TypeOK
  <2>4. RowsOf("common", k) = {} => newest'[k] = v
    BY <1>3, <2>1, <2>3 DEF Serial
  <2>5. \A r \in RowsOf("common", k) : r.value = newest[k]
    BY <2>1 DEF Serial
  <2>6. \A r \in RowsOf("common", k) : newest'[k] = Over(w, r)'
    BY <1>2, <1>5, <2>3, <2>5 DEF Over
  <2>7. RowAsExpected(w)'
    <3>1. RowsOf("common", msg[w].key)' = RowsOf("common", k)
      BY <1>4, <1>5, <1>7 DEF RowsOf
    <3>2. QED
      BY <1>5, <1>7, <2>4, <2>6, <3>1 DEF RowAsExpected
  <2>8. QED
    BY <1>4, <2>2, <2>7 DEF Serial
<1>8. QED
  BY <1>6, <1>7

(* Whoever handles a key is the only one to do so.                         *)
LEMMA OnlyHandler ==
    ASSUME NEW w \in Workers, pc[w] # "idle", Serial(msg[w].key)
    PROVE  Handling(msg[w].key) = {w} /\ RowAsExpected(w)
<1>1. w \in Handling(msg[w].key)
  BY DEF Handling
<1>2. QED
  BY <1>1 DEF Serial

(* The lookup sees the row, if there is one.                               *)
LEMMA SerialFind ==
    ASSUME IInv, NEW w \in Workers, Find(w), troubles' = 0, NEW k \in Keys, Serial(k)
    PROVE  Serial(k)'
<1>1. PICK o \in Outcomes :
        /\ Account(o)
        /\ \/ ~o.answered /\ NoAnswer(w) /\ UNCHANGED found
           \/ /\ o.answered /\ Hits(o.db, w) = {}
              /\ Goto(w, "insert") /\ UNCHANGED found
           \/ /\ o.answered
              /\ \E r \in Hits(o.db, w) :
                    /\ Goto(w, IF Outdated(w, r) THEN "update" ELSE "idle")
                    /\ found' = [found EXCEPT ![w] = r.id]
  BY DEF Find
<1>2. UNCHANGED <<kind, rows, msg, newest>> /\ pc[w] = "find"
  BY DEF Find, tables, history
<1>3. o.answered = TRUE /\ o.db = "common"
  BY <1>1, NoTrouble DEF IInv
<1> DEFINE own == RowsOf("common", msg[w].key)
<1>4. \/ own = {} /\ Goto(w, "insert") /\ UNCHANGED found
      \/ \E r \in own : /\ Goto(w, IF Outdated(w, r) THEN "update" ELSE "idle")
                        /\ found' = [found EXCEPT ![w] = r.id]
  BY <1>1, <1>3 DEF Hits
<1>5. \A u \in Workers \ {w} : pc'[u] = pc[u] /\ msg'[u] = msg[u] /\ found'[u] = found[u]
  BY <1>2, <1>4 DEF Goto, IInv, TypeOK
<1>6. /\ \A j \in Keys : RowsOf("common", j)' = RowsOf("common", j)
      /\ own' = own
  BY <1>2 DEF RowsOf
<1>7. CASE k # msg[w].key
  <2>1. w \notin Handling(k) /\ w \notin Handling(k)'
    BY <1>2, <1>7 DEF Handling
  <2>2. QED
    BY <1>2, <1>5, <1>6, <2>1, OtherKey
<1>8. CASE k = msg[w].key
  <2>1. Handling(k) = {w} /\ RowAsExpected(w)
    BY <1>2, <1>8, OnlyHandler
  <2>2. /\ own = {} => newest[k] = msg[w].value
        /\ \A r \in own : newest[k] = Over(w, r)
        /\ \A r, s \in own : r = s
    BY <1>2, <1>8, <2>1 DEF RowAsExpected, Serial
  <2>3. /\ msg[w].value \in Nat /\ pc'[w] \in {"insert", "update", "idle"}
        /\ \A r \in own : r.value \in Nat
    BY <1>2, <1>4 DEF IInv, TypeOK, Goto, RowsOf, Row, Databases
  <2>4. Handling(k)' = IF pc'[w] = "idle" THEN {} ELSE {w}
    BY <1>2, <1>5, <1>8, <2>1 DEF Handling
  <2>5. CASE own = {} /\ Goto(w, "insert") /\ UNCHANGED found
    <3>1. pc'[w] = "insert"
      BY <2>5 DEF Goto, IInv, TypeOK
    <3>2. RowAsExpected(w)'
      BY <1>2, <1>6, <1>8, <2>2, <2>5, <3>1 DEF RowAsExpected
    <3>3. QED
      BY <1>6, <1>8, <2>2, <2>4, <3>1, <3>2 DEF Serial
  <2>6. ASSUME NEW r \in own, Goto(w, IF Outdated(w, r) THEN "update" ELSE "idle"),
               found' = [found EXCEPT ![w] = r.id]
        PROVE  Serial(k)'
    <3>1. found'[w] = r.id /\ pc'[w] = IF Outdated(w, r) THEN "update" ELSE "idle"
      BY <2>6 DEF Goto, IInv, TypeOK
    <3>2. CASE Outdated(w, r)
      <4>1. newest[k] = msg[w].value
        BY <2>2, <2>3, <3>2 DEF Outdated, Over
      <4>2. RowAsExpected(w)'
        BY <1>2, <1>6, <1>8, <3>1, <3>2, <4>1 DEF RowAsExpected
      <4>3. QED
        BY <1>6, <1>8, <2>2, <2>4, <3>1, <3>2, <4>2 DEF Serial
    <3>3. CASE ~Outdated(w, r)
      <4>1. newest[k] = r.value
        BY <2>2, <2>3, <3>3 DEF Outdated, Over
      <4>2. QED
        BY <1>2, <1>6, <1>8, <2>2, <2>4, <3>1, <3>3, <4>1 DEF Serial
    <3>4. QED
      BY <3>2, <3>3
  <2>7. QED
    BY <1>4, <2>5, <2>6
<1>9. QED
  BY <1>7, <1>8

(* There was no row, and now there is one, with the newest value.          *)
LEMMA SerialInsert ==
    ASSUME IInv, NEW w \in Workers, Insert(w), troubles' = 0, NEW k \in Keys, Serial(k)
    PROVE  Serial(k)'
<1> DEFINE row == [id |-> NextId("common"), key |-> msg[w].key,
                   value |-> msg[w].value, usage |-> msg[w].value,
                   owner |-> msg[w].key]
<1>1. /\ rows'["common"] = rows["common"] \cup {row}
      /\ Goto(w, IF kind \in Snmp THEN "ask" ELSE "idle")
  <2>1. PICK o \in Outcomes :
          /\ Account(o)
          /\ rows' = [d \in Databases |->
                        IF d = o.db
                        THEN rows[d] \cup {[id |-> NextId(d), key |-> msg[w].key,
                                            value |-> msg[w].value, usage |-> msg[w].value,
                                            owner |-> msg[w].key]}
                        ELSE rows[d]]
          /\ Goto(w, IF kind \in Snmp /\ o.answered THEN "ask" ELSE "idle")
    BY DEF Insert
  <2>2. o.db = "common" /\ o.answered = TRUE
    BY <2>1, NoTrouble DEF IInv
  <2>3. QED
    BY <2>1, <2>2 DEF Databases
<1>2. UNCHANGED <<kind, msg, found, newest>> /\ pc[w] = "insert"
  BY DEF Insert, history
<1>3. row.key = msg[w].key /\ row.value = msg[w].value
  OBVIOUS
<1> HIDE DEF row
<1>4. \A u \in Workers \ {w} : pc'[u] = pc[u] /\ msg'[u] = msg[u] /\ found'[u] = found[u]
  BY <1>1, <1>2 DEF Goto, IInv, TypeOK
<1>5. CASE k # msg[w].key
  <2>1. w \notin Handling(k) /\ w \notin Handling(k)'
    BY <1>2, <1>5 DEF Handling
  <2>2. RowsOf("common", k)' = RowsOf("common", k)
    BY <1>1, <1>3, <1>5 DEF RowsOf
  <2>3. QED
    BY <1>2, <1>4, <2>1, <2>2, OtherKey
<1>6. CASE k = msg[w].key
  <2>1. Handling(k) = {w} /\ RowsOf("common", k) = {} /\ newest[k] = msg[w].value
    BY <1>2, <1>6, OnlyHandler DEF RowAsExpected
  <2>2. RowsOf("common", k)' = {row}
    BY <1>1, <1>3, <1>6, <2>1 DEF RowsOf
  <2>3. pc'[w] \in {"ask", "idle"}
    BY <1>1 DEF Goto, IInv, TypeOK
  <2>4. Handling(k)' = IF pc'[w] = "idle" THEN {} ELSE {w}
    BY <1>2, <1>4, <1>6, <2>1 DEF Handling
  <2>5. \A r \in RowsOf("common", k)' : r.value = newest'[k]
    BY <1>2, <1>3, <2>1, <2>2
  <2>6. pc'[w] = "ask" => RowAsExpected(w)'
    <3>1. RowsOf("common", msg[w].key)' = RowsOf("common", k)'
      BY <1>2, <1>6 DEF RowsOf
    <3>2. QED
      BY <1>2, <1>6, <2>2, <2>5, <3>1 DEF RowAsExpected
  <2>7. QED
    BY <2>2, <2>3, <2>4, <2>5, <2>6 DEF Serial
<1>7. QED
  BY <1>5, <1>6

(* Then its id is asked for.                                               *)
LEMMA SerialAsk ==
    ASSUME IInv, NEW w \in Workers, AskId(w), troubles' = 0, NEW k \in Keys, Serial(k)
    PROVE  Serial(k)'
<1>1. Goto(w, "idle")
  BY NoTrouble DEF AskId, IInv
<1>2. UNCHANGED <<kind, rows, msg, found, newest>> /\ pc[w] = "ask"
  BY DEF AskId, tables, history
<1>3. \A u \in Workers \ {w} : pc'[u] = pc[u] /\ msg'[u] = msg[u] /\ found'[u] = found[u]
  BY <1>1, <1>2 DEF Goto, IInv, TypeOK
<1>4. pc'[w] = "idle" /\ RowsOf("common", k)' = RowsOf("common", k)
  BY <1>1, <1>2 DEF Goto, IInv, TypeOK, RowsOf
<1>5. CASE k # msg[w].key
  <2>1. w \notin Handling(k) /\ w \notin Handling(k)'
    BY <1>2, <1>5 DEF Handling
  <2>2. QED
    BY <1>2, <1>3, <1>4, <2>1, OtherKey
<1>6. CASE k = msg[w].key
  <2>1. /\ Handling(k) = {w} /\ RowsOf("common", k) # {}
        /\ \A r \in RowsOf("common", k) : r.value = newest[k]
    BY <1>2, <1>6, OnlyHandler DEF RowAsExpected
  <2>2. Handling(k)' = {}
    BY <1>2, <1>3, <1>4, <1>6, <2>1 DEF Handling
  <2>3. QED
    BY <1>2, <1>4, <2>1, <2>2 DEF Serial
<1>7. QED
  BY <1>5, <1>6

(* The update writes the newest value into the row, and into no other: the *)
(* id in hand is of a row of the right key.                                *)
LEMMA SerialUpdate ==
    ASSUME IInv, NEW w \in Workers, Update(w), troubles' = 0, troubles = 0,
           NEW k \in Keys, Serial(k)
    PROVE  Serial(k)'
<1>1. rows'["common"] = {Written(w, r) : r \in rows["common"]}
  <2>1. PICK o \in Outcomes :
          /\ Account(o)
          /\ rows' = [d \in Databases |->
                        IF d = o.db THEN {Written(w, r) : r \in rows[d]} ELSE rows[d]]
    BY DEF Update
  <2>2. o.db = "common"
    BY <2>1, NoTrouble DEF IInv
  <2>3. QED
    BY <2>1, <2>2 DEF Databases
<1>2. UNCHANGED <<kind, msg, found, newest>> /\ pc[w] = "update" /\ Goto(w, "idle")
  BY DEF Update, history
<1>3. /\ \A u \in Workers \ {w} : pc'[u] = pc[u] /\ msg'[u] = msg[u] /\ found'[u] = found[u]
      /\ pc'[w] = "idle"
  BY <1>2 DEF Goto, IInv, TypeOK
<1>4. \A r \in rows["common"] :
        /\ Written(w, r).key = r.key
        /\ r.id # found[w] => Written(w, r) = r
        /\ r.id = found[w] => Written(w, r).value = msg[w].value
  BY DEF IInv, TypeOK, Written, Row, Databases
<1>5. RowsOf("common", k)' = {Written(w, r) : r \in RowsOf("common", k)}
  BY <1>1, <1>4 DEF RowsOf
<1>6. CASE k # msg[w].key
  <2>1. w \notin Handling(k) /\ w \notin Handling(k)'
    BY <1>2, <1>6 DEF Handling
  <2>2. \A r \in RowsOf("common", k) : r.id # found[w]
    BY <1>2, <1>6 DEF IInv, FoundIsOwn, RowsOf
  <2>3. \A r \in RowsOf("common", k) : Written(w, r) = r
    BY <1>4, <2>2 DEF RowsOf
  <2>4. RowsOf("common", k)' = RowsOf("common", k)
    BY <1>5, <2>3
  <2>5. QED
    BY <1>2, <1>3, <2>1, <2>4, OtherKey
<1>7. CASE k = msg[w].key
  <2>1. /\ Handling(k) = {w} /\ newest[k] = msg[w].value
        /\ \E r \in RowsOf("common", k) : r.id = found[w]
        /\ \A r, s \in RowsOf("common", k) : r = s
    BY <1>2, <1>7, OnlyHandler DEF RowAsExpected, Serial
  <2>2. PICK r \in RowsOf("common", k) : r.id = found[w]
    BY <2>1
  <2>3. RowsOf("common", k)' = {Written(w, r)}
    BY <1>5, <2>1, <2>2
  <2>4. Written(w, r).value = newest'[k]
    BY <1>2, <1>4, <2>1, <2>2 DEF RowsOf
  <2>5. Handling(k)' = {}
    BY <1>2, <1>3, <1>7, <2>1 DEF Handling
  <2>6. QED
    BY <2>3, <2>4, <2>5 DEF Serial
<1>8. QED
  BY <1>6, <1>7

(* One worker at a key and no trouble: nothing is lost.                    *)
LEMMA SerialStep == IInv /\ SerialKept /\ [Next]_vars => SerialKept'
<1> SUFFICES ASSUME IInv, SerialKept, [Next]_vars,
                    troubles' = 0, NEW k \in Keys, k \notin overlapped'
             PROVE  Serial(k)'
  BY DEF SerialKept
<1>1. ASSUME NEW w \in Workers, Take(w) PROVE Serial(k)'
  <2>1. troubles = 0 /\ k \notin overlapped
    BY <1>1 DEF Take
  <2>2. QED
    BY <1>1, <2>1, SerialTake DEF SerialKept
<1>2. ASSUME NEW w \in Workers, Abandon(w) PROVE FALSE
  BY <1>2 DEF Abandon, IInv, TypeOK
<1>3. ASSUME NEW w \in Workers, Find(w) \/ Insert(w) \/ AskId(w) \/ Update(w)
      PROVE  Serial(k)'
  <2>1. troubles = 0
    BY <1>3, NoTrouble DEF Find, Insert, AskId, Update, IInv
  <2>2. overlapped' = overlapped
    BY <1>3 DEF Find, Insert, AskId, Update, history
  <2>3. Serial(k)
    BY <2>1, <2>2 DEF SerialKept
  <2>4. QED
    BY <1>3, <2>1, <2>3, SerialFind, SerialInsert, SerialAsk, SerialUpdate
<1>4. CASE UNCHANGED vars
  <2>1. UNCHANGED <<kind, rows, pc, msg, found, troubles, newest, overlapped>>
    BY <1>4 DEF vars, tables, inhand, history
  <2>2. Serial(k)
    BY <2>1 DEF SerialKept
  <2>3. RowsOf("common", k)' = RowsOf("common", k) /\ Handling(k)' = Handling(k)
    BY <2>1 DEF RowsOf, Handling
  <2>4. \A w \in Workers : RowAsExpected(w)' = RowAsExpected(w)
    BY <2>1 DEF RowAsExpected, RowsOf, Over
  <2>5. Handling(k) \subseteq Workers
    BY DEF Handling
  <2>6. QED
    BY <2>1, <2>2, <2>3, <2>4, <2>5 DEF Serial
<1>5. QED
  BY <1>1, <1>2, <1>3, <1>4 DEF Next

(* If nothing goes wrong and no two workers have a message of one server   *)
(* at once, the server has one row, with its newest value.                 *)
THEOREM SerialHandlingIsExact == Spec => []SerialIsExact
<1>1. Init => SerialKept
  BY DEF Init, SerialKept, Serial, RowsOf, Handling, Databases
<1>2. Spec => []SerialKept
  BY <1>1, SerialStep, Invariance, PTL DEF Spec
<1>3. IInv /\ SerialKept => SerialIsExact
  <2> SUFFICES ASSUME IInv, SerialKept, troubles = 0, NEW k \in Keys \ overlapped
      PROVE  /\ Cardinality(RowsOf("common", k)) <= 1
             /\ Handling(k) = {} /\ newest[k] # 0 =>
                   \E r \in RowsOf("common", k) : r.value = newest[k]
    BY DEF SerialIsExact
  <2>1. Serial(k)
    BY DEF SerialKept
  <2>2. CASE RowsOf("common", k) = {}
    BY <2>1, <2>2, FS_EmptySet DEF Serial
  <2>3. ASSUME NEW r \in RowsOf("common", k) PROVE RowsOf("common", k) = {r}
    BY <2>1 DEF Serial
  <2>4. CASE RowsOf("common", k) # {}
    <3>1. PICK r \in RowsOf("common", k) : TRUE
      BY <2>4
    <3>2. RowsOf("common", k) = {r}
      BY <2>3
    <3>3. Cardinality(RowsOf("common", k)) = 1
      BY <3>2, FS_Singleton
    <3>4. QED
      BY <2>1, <3>1, <3>3 DEF Serial
  <2>5. QED
    BY <2>2, <2>4
<1>4. QED
  BY <1>2, <1>3, Invariance, PTL
=============================================================================
