-------------------------- MODULE BatchBufferProofs --------------------------
(* Proofs about the batch buffers, for any finite pool of workers, any     *)
(* tables and thresholds, and any stream of rows.                          *)
EXTENDS BatchBuffer, FiniteSetTheorems, TLAPS

(* How the set of workers at some labels changes when one worker moves.    *)
LEMMA AtFinite ==
    ASSUME NEW labels, NEW t
    PROVE  IsFiniteSet(At(labels, t)) /\ Cardinality(At(labels, t)) \in Nat
<1>1. At(labels, t) \subseteq Workers
  BY DEF At
<1>2. QED
  BY <1>1, BatchAssumption, FS_Subset, FS_CardinalityType

(* What a counter may be left with is a number, for a threshold of 0 too.  *)
LEMMA SlackType == ASSUME NEW t \in Tables PROVE Slack(t) \in Nat
  BY BatchAssumption DEF Slack

(* The steps after Push move one worker from one label to the next.        *)
LEMMA InsideFrame ==
    ASSUME TypeOK, NEW w \in Workers, Inside(w)
    PROVE  /\ UNCHANGED <<table, given, dropped, exposed>>
           /\ pc[w] # "idle" /\ table[w] \in Tables
           /\ \E a \in {"check", "reset", "parse", "clear", "insert", "backup", "idle"} :
                 pc' = [pc EXCEPT ![w] = a]
  BY DEF TypeOK, Inside, Check, Reset, Parse, Clear, InsertCommon, FailOver, InsertBackup,
         Finish, Goto, shared, outcome

(* Every section of db_insert and bufferValues keeps the types.            *)
LEMMA TypeStep ==
    ASSUME TypeOK, [Next]_vars
    PROVE  TypeOK'
<1> USE BatchAssumption DEF TypeOK, shared, outcome, Goto
<1>1. ASSUME NEW w \in Workers, NEW r \in Rows, PushUnknown(w, r) PROVE TypeOK'
  BY <1>1 DEF PushUnknown
<1>2. ASSUME NEW w \in Workers, NEW r \in Rows, NEW t \in Tables, Push(w, t, r) PROVE TypeOK'
  <2>1. \A u \in Tables : IsFiniteSet(values_buffer'[u])
    BY <1>2, FS_AddElement DEF Push
  <2>2. /\ cur_count' \in [Tables -> Nat]
        /\ values_buffer' \in [Tables -> SUBSET Rows]
        /\ given' \in SUBSET Rows /\ exposed' \in SUBSET Rows
    BY <1>2 DEF Push
  <2>3. /\ pc' = [pc EXCEPT ![w] = "check"] /\ table' = [table EXCEPT ![w] = t]
        /\ UNCHANGED <<sql, outcome, dropped, doubled>>
    BY <1>2 DEF Push
  <2>4. QED
    BY <2>1, <2>2, <2>3
<1>3. ASSUME NEW w \in Workers, Check(w) PROVE TypeOK'
  BY <1>3 DEF Check
<1>4. ASSUME NEW w \in Workers, Reset(w) PROVE TypeOK'
  BY <1>4 DEF Reset
<1>5. ASSUME NEW w \in Workers, Parse(w) PROVE TypeOK'
  BY <1>5 DEF Parse
<1>6. ASSUME NEW w \in Workers, Clear(w) PROVE TypeOK'
  BY <1>6, FS_EmptySet DEF Clear
<1>7. ASSUME NEW w \in Workers, InsertCommon(w) \/ InsertBackup(w) PROVE TypeOK'
  BY <1>7 DEF InsertCommon, InsertBackup, Finish
<1>8. ASSUME NEW w \in Workers, FailOver(w) PROVE TypeOK'
  BY <1>8 DEF FailOver
<1>9. CASE UNCHANGED vars
  BY <1>9 DEF vars
<1>10. QED
  BY <1>1, <1>2, <1>3, <1>4, <1>5, <1>6, <1>7, <1>8, <1>9 DEF Next, Inside

(* Empty buffers satisfy the invariant.                                    *)
LEMMA InitInv == Init => IInv
<1> SUFFICES ASSUME Init PROVE IInv
  OBVIOUS
<1> USE BatchAssumption DEF Init
<1>1. TypeOK
  BY FS_EmptySet DEF TypeOK
<1>2. CountBound
  BY AtFinite, SlackType DEF CountBound
<1>3. Counted
  BY FS_EmptySet DEF Counted
<1>4. Buffered = {}
  BY DEF Buffered
<1>5. LossOnlyBySnapshotRace /\ SnapshotComplete /\ ResentOnlyBySnapshotRace /\ SentHasLeft /\ BufferedGiven
      /\ OwnBuffer
  BY <1>4 DEF OwnBuffer, LossOnlyBySnapshotRace, SnapshotComplete, ResentOnlyBySnapshotRace,
              NoWorkerResends, SharedIsDoubled, InFlightOf, SentHasLeft, BufferedGiven
<1>6. QED
  BY <1>1, <1>2, <1>3, <1>5 DEF IInv
-----------------------------------------------------------------------------
(* The counter. A push adds one to it and one worker to those who have     *)
(* still to compare it; a comparison that fails finds it within the slack. *)
LEMMA CountBoundStep ==
    ASSUME TypeOK, CountBound, [Next]_vars
    PROVE  CountBound'
<1> USE BatchAssumption DEF TypeOK, shared, outcome, Goto
<1> DEFINE Owing(t) == At({"check", "reset"}, t)
<1>1. ASSUME NEW u \in Tables, Owing(u)' = Owing(u), cur_count'[u] <= cur_count[u],
             cur_count'[u] \in Nat
      PROVE  cur_count'[u] <= Slack(u) + Cardinality(Owing(u)')
  BY <1>1, AtFinite, SlackType DEF CountBound
<1>2. ASSUME NEW w \in Workers, NEW r \in Rows, NEW t \in Tables, Push(w, t, r)
      PROVE  CountBound'
  <2>1. /\ cur_count' = [cur_count EXCEPT ![t] = @ + 1]
        /\ pc[w] = "idle" /\ pc' = [pc EXCEPT ![w] = "check"]
        /\ table' = [table EXCEPT ![w] = t]
    BY <1>2 DEF Push
  <2>2. w \notin Owing(t) /\ Owing(t)' = Owing(t) \cup {w}
    BY <2>1 DEF At
  <2>3. Cardinality(Owing(t)') = Cardinality(Owing(t)) + 1
    BY <2>2, AtFinite, FS_AddElement
  <2>4. \A u \in Tables \ {t} : Owing(u)' = Owing(u) /\ cur_count'[u] = cur_count[u]
    BY <2>1 DEF At
  <2>5. cur_count'[t] <= Slack(t) + Cardinality(Owing(t)')
    BY <2>1, <2>3, AtFinite, SlackType DEF CountBound
  <2>6. QED
    BY <2>4, <2>5, <1>1 DEF CountBound
<1>3. ASSUME NEW w \in Workers, NEW t \in Tables, table[w] = t, Check(w) \/ Reset(w)
      PROVE  CountBound'
  <2>1. /\ UNCHANGED table
        /\ \E a \in {"reset", "idle", "parse"} : pc' = [pc EXCEPT ![w] = a]
    BY <1>3 DEF Check, Reset
  <2>2. \A u \in Tables \ {t} : Owing(u)' = Owing(u)
    BY <2>1, <1>3 DEF At
  <2>3. \A u \in Tables \ {t} : cur_count'[u] = cur_count[u]
    BY <1>3 DEF Check, Reset
  <2>4. \/ cur_count'[t] <= Slack(t)
        \/ Owing(t)' = Owing(t) /\ cur_count'[t] = cur_count[t]
    <3>1. CASE Check(w) /\ cur_count[t] >= Threshold[t]
      BY <3>1, <1>3 DEF Check, At
    <3>2. CASE Check(w) /\ ~(cur_count[t] >= Threshold[t])
      BY <3>2, <1>3 DEF Check, Slack
    <3>3. CASE Reset(w)
      BY <3>3, <1>3, SlackType DEF Reset
    <3>4. QED
      BY <1>3, <3>1, <3>2, <3>3
  <2>5. cur_count'[t] \in Nat
    BY <1>3 DEF Check, Reset
  <2>6. cur_count'[t] <= Slack(t) + Cardinality(Owing(t)')
    <3>1. Cardinality(Owing(t)') \in Nat
      <4>1. Owing(t)' \subseteq Workers
        BY DEF At
      <4>2. QED
        BY <4>1, FS_Subset, FS_CardinalityType
    <3>2. QED
      BY <2>4, <2>5, <3>1, <1>1, SlackType
  <2>7. QED
    BY <2>2, <2>3, <2>6, <1>1 DEF CountBound
<1>4. ASSUME NEW w \in Workers, Parse(w) \/ Clear(w) \/ InsertCommon(w) \/ FailOver(w)
                                \/ InsertBackup(w)
      PROVE  CountBound'
  <2>1. \A u \in Tables : Owing(u)' = Owing(u)
    BY <1>4 DEF Parse, Clear, InsertCommon, FailOver, InsertBackup, Finish, At
  <2>2. cur_count' = cur_count
    BY <1>4 DEF Parse, Clear, InsertCommon, FailOver, InsertBackup, Finish
  <2>3. QED
    BY <2>1, <2>2, <1>1 DEF CountBound
<1>5. ASSUME NEW w \in Workers, NEW r \in Rows, PushUnknown(w, r) PROVE CountBound'
  BY <1>5 DEF PushUnknown, CountBound, At
<1>6. CASE UNCHANGED vars
  BY <1>6 DEF vars, CountBound, At
<1>7. ASSUME NEW w \in Workers, Inside(w) PROVE CountBound'
  BY <1>3, <1>4, <1>7, InsideFrame DEF Inside
<1>8. QED
  BY <1>2, <1>5, <1>6, <1>7 DEF Next
-----------------------------------------------------------------------------
(* A buffer grows with its counter, and loses its rows only in Clear. The  *)
(* counter alone goes back in Reset, but then the worker who reset it is   *)
(* itself about to clear the buffer.                                       *)
LEMMA CountedStep ==
    ASSUME TypeOK, Counted, [Next]_vars
    PROVE  Counted'
<1> USE BatchAssumption DEF TypeOK, shared, outcome, Goto
<1> DEFINE Flushing(t) == At({"parse", "clear"}, t)
           Bound(t) == Flushing(t) = {} => Cardinality(values_buffer[t]) <= cur_count[t]
<1>1. ASSUME NEW u \in Tables, cur_count'[u] = cur_count[u],
             values_buffer'[u] = values_buffer[u], Flushing(u) \subseteq Flushing(u)'
      PROVE  Bound(u)'
  BY <1>1 DEF Counted
<1>2. ASSUME NEW w \in Workers, NEW r \in Rows, NEW t \in Tables, Push(w, t, r)
      PROVE  Counted'
  <2>1. \A u \in Tables : Flushing(u)' = Flushing(u)
    BY <1>2 DEF Push, At
  <2>2. \A u \in Tables \ {t} : cur_count'[u] = cur_count[u] /\ values_buffer'[u] = values_buffer[u]
    BY <1>2 DEF Push
  <2>3. cur_count'[t] = cur_count[t] + 1 /\ values_buffer'[t] = values_buffer[t] \cup {r}
    BY <1>2 DEF Push
  <2>4. /\ Cardinality(values_buffer[t]) \in Nat
        /\ Cardinality(values_buffer'[t]) <= Cardinality(values_buffer[t]) + 1
    <3>1. IsFiniteSet(values_buffer[t])
      OBVIOUS
    <3>2. Cardinality(values_buffer[t]) \in Nat
      BY <3>1, FS_CardinalityType
    <3>3. Cardinality(values_buffer[t] \cup {r}) = IF r \in values_buffer[t]
                                                   THEN Cardinality(values_buffer[t])
                                                   ELSE Cardinality(values_buffer[t]) + 1
      BY <3>1, FS_AddElement
    <3>4. QED
      BY <2>3, <3>2, <3>3
  <2>5. Bound(t)'
    <3>1. SUFFICES ASSUME Flushing(t)' = {} PROVE Cardinality(values_buffer'[t]) <= cur_count'[t]
      OBVIOUS
    <3>2. Flushing(t) = {}
      BY <2>1, <3>1
    <3>3. Cardinality(values_buffer[t]) <= cur_count[t]
      BY <3>2 DEF Counted
    <3>4. Cardinality(values_buffer'[t]) \in Nat
      BY <2>3, FS_AddElement, FS_CardinalityType
    <3>5. QED
      BY <2>3, <2>4, <3>3, <3>4
  <2>6. \A u \in Tables \ {t} : Bound(u)'
    BY <2>1, <2>2, <1>1
  <2>7. \A u \in Tables : Bound(u)'
    BY <2>5, <2>6
  <2>8. QED
    BY <2>7 DEF Counted
<1>3. ASSUME NEW w \in Workers, NEW t \in Tables, t = table[w], Reset(w) PROVE Counted'
  <2>1. w \in Flushing(t)'
    BY <1>3 DEF Reset, At
  <2>2. \A u \in Tables \ {t} : Bound(u)'
    BY <1>3, <1>1 DEF Reset, At
  <2>3. \A u \in Tables : Bound(u)'
    BY <2>1, <2>2
  <2>4. QED
    BY <2>3 DEF Counted
<1>4. ASSUME NEW w \in Workers, NEW t \in Tables, t = table[w], Clear(w) PROVE Counted'
  <2>1. values_buffer'[t] = {} /\ cur_count'[t] \in Nat
    BY <1>4 DEF Clear
  <2>2. Cardinality(values_buffer'[t]) <= cur_count'[t]
    BY <2>1, FS_EmptySet
  <2>3. \A u \in Tables \ {t} : Bound(u)'
    BY <1>4, <1>1 DEF Clear, At
  <2>4. \A u \in Tables : Bound(u)'
    BY <2>2, <2>3
  <2>5. QED
    BY <2>4 DEF Counted
<1>5. ASSUME NEW w \in Workers, Check(w) \/ Parse(w) \/ InsertCommon(w) \/ FailOver(w)
                                \/ InsertBackup(w)
      PROVE  Counted'
  <2>1. \A u \in Tables : Flushing(u) \subseteq Flushing(u)'
    BY <1>5 DEF Check, Parse, InsertCommon, FailOver, InsertBackup, Finish, At
  <2>2. UNCHANGED shared
    BY <1>5 DEF Check, Parse, InsertCommon, FailOver, InsertBackup, Finish
  <2>3. QED
    BY <2>1, <2>2, <1>1 DEF Counted
<1>6. ASSUME NEW w \in Workers, NEW r \in Rows, PushUnknown(w, r) PROVE Counted'
  BY <1>6 DEF PushUnknown, Counted, At
<1>7. CASE UNCHANGED vars
  BY <1>7 DEF vars, Counted, At
<1>8. QED
  BY <1>2, <1>3, <1>4, <1>5, <1>6, <1>7, InsideFrame DEF Next, Inside
-----------------------------------------------------------------------------
(* Where a row can be. The worker that clears a buffer holds its rows in   *)
(* its statement, unless they were exposed.                                *)
Rowwise == /\ LossOnlyBySnapshotRace
           /\ SnapshotComplete
           /\ ResentOnlyBySnapshotRace
           /\ SentHasLeft
           /\ BufferedGiven
           /\ OwnBuffer

(* Nothing is sent, nor read from a buffer.                                *)
LEMMA SameHeld ==
    ASSUME ResentOnlyBySnapshotRace, UNCHANGED <<sent, doubled>>,
           \A v \in Workers : InFlightOf(v)' = InFlightOf(v)
    PROVE  ResentOnlyBySnapshotRace'
BY DEF ResentOnlyBySnapshotRace, NoWorkerResends, SharedIsDoubled

(* A new row goes to the buffer of its table, and is exposed if some worker *)
(* has read that buffer and not cleared it.                                *)
LEMMA PushRowwise ==
    ASSUME TypeOK, Rowwise, NEW w \in Workers, NEW r \in Rows, NEW t \in Tables, Push(w, t, r)
    PROVE  Rowwise'
<1> USE DEF TypeOK, Rowwise, shared, outcome, Goto
<1>1. /\ pc[w] = "idle" /\ r \notin given /\ given' = given \cup {r}
      /\ values_buffer' = [values_buffer EXCEPT ![t] = @ \cup {r}]
      /\ exposed' = IF At({"clear"}, t) = {} THEN exposed ELSE exposed \cup {r}
      /\ table' = [table EXCEPT ![w] = t]
      /\ pc' = [pc EXCEPT ![w] = "check"]
      /\ UNCHANGED <<sql, stored, failed, sent, dropped, doubled>>
  BY DEF Push
<1>2. Buffered' = Buffered \cup {r}
  BY <1>1 DEF Buffered
<1>3. InFlight' = InFlight
  BY <1>1 DEF InFlight, InFlightOf
<1>4. LossOnlyBySnapshotRace'
  BY <1>1, <1>2, <1>3 DEF LossOnlyBySnapshotRace
<1>5. SnapshotComplete'
  <2>1. ASSUME NEW v \in Workers, pc'[v] = "clear"
        PROVE  values_buffer'[table'[v]] \subseteq sql'[v] \cup exposed'
    <3>1. v # w /\ pc[v] = "clear" /\ table'[v] = table[v] /\ table[v] \in Tables
      BY <1>1, <2>1
    <3>2. values_buffer[table[v]] \subseteq sql[v] \cup exposed
      BY <3>1 DEF SnapshotComplete
    <3>3. CASE table[v] = t
      BY <1>1, <3>1, <3>2, <3>3 DEF At
    <3>4. CASE table[v] # t
      BY <1>1, <3>1, <3>2, <3>4
    <3>5. QED
      BY <3>3, <3>4
  <2>2. QED
    BY <2>1 DEF SnapshotComplete
<1>6. ResentOnlyBySnapshotRace'
  BY <1>1, SameHeld DEF InFlightOf
<1>7. SentHasLeft'
  BY <1>1, <1>2 DEF SentHasLeft
<1>8. BufferedGiven'
  BY <1>1, <1>2 DEF BufferedGiven
<1>9. OwnBuffer'
  <2>1. \A u \in Tables : r \notin values_buffer[u]
    BY <1>1 DEF BufferedGiven, Buffered
  <2>2. \A v \in Workers : r \notin sql[v]
    BY <1>1 DEF SentHasLeft
  <2>3. \A u, v \in Tables : u # v => values_buffer'[u] \cap values_buffer'[v] = {}
    BY <1>1, <2>1 DEF OwnBuffer
  <2>4. ASSUME NEW v \in Workers, pc'[v] = "clear", NEW u \in Tables \ {table'[v]}
        PROVE  sql'[v] \cap values_buffer'[u] = {}
    BY <1>1, <2>2, <2>4 DEF OwnBuffer
  <2>5. QED
    BY <2>3, <2>4 DEF OwnBuffer
<1>10. QED
  BY <1>4, <1>5, <1>6, <1>7, <1>8, <1>9

(* The statement built is the buffer, whose rows this worker never sent.   *)
LEMMA ParseRowwise ==
    ASSUME TypeOK, Rowwise, NEW w \in Workers, Parse(w)
    PROVE  Rowwise'
<1> USE DEF TypeOK, Rowwise, shared, outcome, Goto
<1>1. /\ pc[w] = "parse" /\ pc' = [pc EXCEPT ![w] = "clear"]
      /\ sql' = [sql EXCEPT ![w] = values_buffer[table[w]]]
      /\ doubled' = doubled \cup {r \in values_buffer[table[w]] :
                                     \E v \in At({"clear"}, table[w]) : r \in sql[v]}
      /\ UNCHANGED <<shared, table, given, outcome, dropped, exposed>>
      /\ table[w] \in Tables
  BY DEF Parse
<1>2. Buffered' = Buffered /\ values_buffer[table[w]] \subseteq Buffered
  BY <1>1 DEF Buffered
<1>3. InFlight \subseteq InFlight'
  <2>1. \A v \in Workers : InFlightOf(v) \subseteq InFlightOf(v)'
    BY <1>1 DEF InFlightOf
  <2>2. QED
    BY <2>1 DEF InFlight
<1>4. LossOnlyBySnapshotRace'
  BY <1>1, <1>2, <1>3 DEF LossOnlyBySnapshotRace
<1>5. SnapshotComplete'
  BY <1>1 DEF SnapshotComplete
<1>6. ResentOnlyBySnapshotRace'
  <2> DEFINE Held(v) == sent[v] \cup InFlightOf(v)
  <2>1. /\ InFlightOf(w)' = values_buffer[table[w]]
        /\ \A v \in Workers \ {w} : InFlightOf(v)' = InFlightOf(v)
    BY <1>1 DEF InFlightOf
  <2>2. NoWorkerResends'
    BY <1>1, <1>2, <2>1 DEF ResentOnlyBySnapshotRace, NoWorkerResends, SentHasLeft
  <2>3. ASSUME NEW v \in Workers \ {w}, NEW r \in values_buffer[table[w]], r \in Held(v)
        PROVE  r \in doubled'
    <3>1. r \notin sent[v] /\ pc[v] \notin {"insert", "backup"}
      BY <1>2, <2>3 DEF SentHasLeft, InFlightOf
    <3>2. pc[v] = "clear" /\ r \in sql[v]
      BY <2>3, <3>1 DEF InFlightOf
    <3>3. table[v] = table[w]
      BY <1>1, <3>2 DEF OwnBuffer
    <3>4. QED
      BY <1>1, <3>2, <3>3 DEF At
  <2>4. \A u, v \in Workers \ {w} : u # v => (Held(u) \cap Held(v))' \subseteq doubled'
    BY <1>1, <2>1 DEF ResentOnlyBySnapshotRace, SharedIsDoubled
  <2>5. \A v \in Workers \ {w} : (Held(v) \cap Held(w))' \subseteq doubled'
    <3>1. \A v \in Workers \ {w} : sent[w] \cap Held(v) \subseteq doubled
      BY DEF ResentOnlyBySnapshotRace, SharedIsDoubled
    <3>2. \A v \in Workers \ {w} : Held(v)' = Held(v)
      BY <1>1, <2>1
    <3>3. Held(w)' = sent[w] \cup values_buffer[table[w]] /\ doubled \subseteq doubled'
      BY <1>1, <2>1
    <3> HIDE DEF Held
    <3>4. QED
      BY <2>3, <3>1, <3>2, <3>3
  <2>6. SharedIsDoubled'
    BY <2>4, <2>5 DEF SharedIsDoubled
  <2>7. QED
    BY <2>2, <2>6 DEF ResentOnlyBySnapshotRace
<1>7. SentHasLeft'
  BY <1>1, <1>2 DEF SentHasLeft, BufferedGiven
<1>8. BufferedGiven'
  BY <1>1, <1>2 DEF BufferedGiven
<1>9. OwnBuffer'
  BY <1>1 DEF OwnBuffer
<1>10. QED
  BY <1>4, <1>5, <1>6, <1>7, <1>8, <1>9

(* What the clearing throws away is in the statement, or exposed.          *)
LEMMA ClearRowwise ==
    ASSUME TypeOK, Rowwise, NEW w \in Workers, Clear(w)
    PROVE  Rowwise'
<1> USE DEF TypeOK, Rowwise, shared, outcome, Goto
<1>1. /\ pc[w] = "clear" /\ pc' = [pc EXCEPT ![w] = "insert"]
      /\ values_buffer' = [values_buffer EXCEPT ![table[w]] = {}]
      /\ UNCHANGED <<table, sql, given, outcome, dropped, exposed, doubled>>
      /\ table[w] \in Tables
  BY DEF Clear
<1>2. Buffered' \subseteq Buffered /\ Buffered \subseteq Buffered' \cup values_buffer[table[w]]
  BY <1>1 DEF Buffered
<1>3. InFlight' = InFlight /\ sql[w] \subseteq InFlight
  <2>1. \A v \in Workers : InFlightOf(v)' = InFlightOf(v)
    BY <1>1 DEF InFlightOf
  <2>2. InFlightOf(w) = sql[w]
    BY <1>1 DEF InFlightOf
  <2>3. QED
    BY <2>1, <2>2 DEF InFlight
<1>4. values_buffer[table[w]] \subseteq sql[w] \cup exposed
  BY <1>1 DEF SnapshotComplete
<1>5. LossOnlyBySnapshotRace'
  BY <1>1, <1>2, <1>3, <1>4 DEF LossOnlyBySnapshotRace
<1>6. SnapshotComplete'
  BY <1>1 DEF SnapshotComplete
<1>7. ResentOnlyBySnapshotRace'
  BY <1>1, SameHeld DEF InFlightOf
<1>8. sql[w] \cap Buffered' = {}
  BY <1>1 DEF OwnBuffer, Buffered
<1>9. SentHasLeft'
  BY <1>1, <1>2, <1>8 DEF SentHasLeft
<1>10. BufferedGiven'
  BY <1>1, <1>2 DEF BufferedGiven
<1>11. OwnBuffer'
  BY <1>1 DEF OwnBuffer
<1>12. QED
  BY <1>5, <1>6, <1>7, <1>9, <1>10, <1>11

(* The database has answered: the rows of the statement are stored or      *)
(* failed, and the worker is through with them.                            *)
LEMMA FinishRowwise ==
    ASSUME TypeOK, Rowwise, NEW w \in Workers, InsertCommon(w) \/ InsertBackup(w)
    PROVE  Rowwise'
<1> USE DEF TypeOK, Rowwise, shared, outcome, Goto
<1>1. /\ pc[w] \in {"insert", "backup"} /\ pc' = [pc EXCEPT ![w] = "idle"]
      /\ sent' = [sent EXCEPT ![w] = @ \cup sql[w]]
      /\ stored' \cup failed' = stored \cup failed \cup sql[w]
      /\ UNCHANGED <<shared, table, sql, given, dropped, exposed, doubled>>
  BY DEF InsertCommon, InsertBackup, Finish
<1>2. Buffered' = Buffered
  BY <1>1 DEF Buffered
<1>3. InFlight \subseteq InFlight' \cup sql[w]
  <2>1. \A v \in Workers : InFlightOf(v) \subseteq InFlightOf(v)' \cup sql[w]
    BY <1>1 DEF InFlightOf
  <2>2. QED
    BY <2>1 DEF InFlight
<1>4. LossOnlyBySnapshotRace'
  BY <1>1, <1>2, <1>3 DEF LossOnlyBySnapshotRace
<1>5. SnapshotComplete'
  BY <1>1 DEF SnapshotComplete
<1>6. ResentOnlyBySnapshotRace'
  <2>1. \A v \in Workers : (sent[v] \cup InFlightOf(v))' = sent[v] \cup InFlightOf(v)
    BY <1>1 DEF InFlightOf
  <2>2. \A v \in Workers : (InFlightOf(v) \cap sent[v])' \subseteq InFlightOf(v) \cap sent[v]
    BY <1>1 DEF InFlightOf
  <2>3. QED
    BY <1>1, <2>1, <2>2 DEF ResentOnlyBySnapshotRace, NoWorkerResends, SharedIsDoubled
<1>7. SentHasLeft'
  BY <1>1, <1>2 DEF SentHasLeft
<1>8. BufferedGiven'
  BY <1>1, <1>2 DEF BufferedGiven
<1>9. OwnBuffer'
  BY <1>1 DEF OwnBuffer
<1>10. QED
  BY <1>4, <1>5, <1>6, <1>7, <1>8, <1>9

(* Steps that touch neither a buffer nor a statement.                      *)
LEMMA QuietRowwise ==
    ASSUME TypeOK, Rowwise,
           \/ \E w \in Workers : Check(w) \/ Reset(w) \/ FailOver(w)
           \/ \E w \in Workers, r \in Rows : PushUnknown(w, r)
           \/ UNCHANGED vars
    PROVE  Rowwise'
<1> USE DEF TypeOK, Rowwise, shared, outcome, Goto
<1>1. /\ UNCHANGED <<values_buffer, table, sql, stored, failed, sent, exposed, doubled>>
      /\ given \subseteq given' /\ given' \ dropped' \subseteq given \ dropped
  BY DEF Check, Reset, FailOver, PushUnknown, vars
<1>2. \A v \in Workers : /\ pc'[v] = "clear" <=> pc[v] = "clear"
                         /\ pc'[v] \in {"insert", "backup"} <=> pc[v] \in {"insert", "backup"}
  BY DEF Check, Reset, FailOver, PushUnknown, vars
<1>3. Buffered' = Buffered
  BY <1>1 DEF Buffered
<1>4. InFlight' = InFlight
  <2>1. \A v \in Workers : InFlightOf(v)' = InFlightOf(v)
    BY <1>1, <1>2 DEF InFlightOf
  <2>2. QED
    BY <2>1 DEF InFlight
<1>5. LossOnlyBySnapshotRace'
  BY <1>1, <1>3, <1>4 DEF LossOnlyBySnapshotRace
<1>6. SnapshotComplete'
  BY <1>1, <1>2 DEF SnapshotComplete
<1>7. ResentOnlyBySnapshotRace'
  BY <1>1, <1>2, SameHeld DEF InFlightOf
<1>8. SentHasLeft' /\ BufferedGiven'
  BY <1>1, <1>2, <1>3 DEF SentHasLeft, BufferedGiven
<1>9. OwnBuffer'
  BY <1>1, <1>2 DEF OwnBuffer
<1>10. QED
  BY <1>5, <1>6, <1>7, <1>8, <1>9
-----------------------------------------------------------------------------
(* The counters, the buffers and the statements of all workers together    *)
(* satisfy the invariant for any number of workers, tables and rows.       *)
THEOREM Invariance == Spec => []IInv
<1>1. IInv /\ [Next]_vars => IInv'
  <2> SUFFICES ASSUME IInv, [Next]_vars PROVE IInv'
    OBVIOUS
  <2>1. TypeOK /\ CountBound /\ Counted /\ Rowwise
    BY DEF IInv, Rowwise
  <2>2. TypeOK' /\ CountBound' /\ Counted'
    BY <2>1, TypeStep, CountBoundStep, CountedStep
  <2>3. Rowwise'
    BY <2>1, PushRowwise, ParseRowwise, ClearRowwise, FinishRowwise, QuietRowwise
       DEF Next, Inside
  <2>4. QED
    BY <2>2, <2>3 DEF IInv, Rowwise
<1>2. QED
  BY InitInv, <1>1, PTL DEF Spec

(* Counters stay natural numbers and buffers finite sets of rows.          *)
THEOREM TypeCorrect == Spec => []TypeOK
<1>1. IInv => TypeOK
  BY DEF IInv
<1>2. QED
  BY <1>1, Invariance, PTL

(* The counter of a table exceeds its threshold by no more than the number *)
(* of workers between their push and their reset.                          *)
THEOREM CounterBounded == Spec => []CountBound
<1>1. IInv => CountBound
  BY DEF IInv
<1>2. QED
  BY <1>1, Invariance, PTL

(* A buffer that no worker is busy with holds less than a full batch: the  *)
(* reset that precedes the clearing loses no count that matters.           *)
THEOREM NoBatchForgotten == Spec => []NoForgottenFlush
<1>1. IInv => NoForgottenFlush
  <2> SUFFICES ASSUME IInv, NEW t \in Tables,
                      At({"check", "reset", "parse", "clear"}, t) = {}
               PROVE  Cardinality(values_buffer[t]) <= Slack(t)
    BY DEF NoForgottenFlush
  <2>1. At({"parse", "clear"}, t) = {} /\ At({"check", "reset"}, t) = {}
    BY DEF At
  <2>2. cur_count[t] <= Slack(t)
    <3>1. cur_count[t] <= Slack(t) + Cardinality(At({"check", "reset"}, t))
      BY DEF IInv, CountBound
    <3>2. Cardinality(At({"check", "reset"}, t)) = 0
      BY <2>1, FS_EmptySet
    <3>3. QED
      BY <3>1, <3>2, SlackType DEF IInv, TypeOK
  <2>3. Cardinality(values_buffer[t]) <= cur_count[t]
    BY <2>1 DEF IInv, Counted
  <2>4. Cardinality(values_buffer[t]) \in Nat /\ cur_count[t] \in Nat
    BY FS_CardinalityType DEF IInv, TypeOK
  <2>5. QED
    BY <2>2, <2>3, <2>4, SlackType
<1>2. QED
  BY <1>1, Invariance, PTL

(* The batching itself loses a row only in the window between reading the  *)
(* buffer and clearing it.                                                 *)
THEOREM RowsAccountedFor == Spec => []LossOnlyBySnapshotRace
<1>1. IInv => LossOnlyBySnapshotRace
  BY DEF IInv
<1>2. QED
  BY <1>1, Invariance, PTL

(* A row is in the finished statements of one worker at most once, and in  *)
(* those of two workers only if one read it before the other had cleared   *)
(* it away.                                                                *)
THEOREM SentOnceButForTheRace == Spec => []ResentOnlyBySnapshotRace
<1>1. IInv => ResentOnlyBySnapshotRace
  BY DEF IInv
<1>2. QED
  BY <1>1, Invariance, PTL
=============================================================================
