----------------------------- MODULE BatchBuffer -----------------------------
(***************************************************************************)
(* The batch buffers that all workers share (src/bin/DataBaseContainer.cc):*)
(* every history row goes through db_insert(query, table), which appends it*)
(* to the buffer of its table and, once the counter of the table has       *)
(* reached its threshold, sends the whole buffer as one statement.         *)
(*                                                                         *)
(* A step is one section under the table's rwlock, the unlocked comparison *)
(* of the counter with the threshold, or one call of the database: the     *)
(* sections under wrlock exclude each other, and the one under rdlock only *)
(* reads. A batch is the set of its rows.                                  *)
(***************************************************************************)
EXTENDS Naturals, FiniteSets

CONSTANTS Workers,
          Tables,     \* the keys of table_id, each with its buffer
          Rows,       \* the rows the workers have to insert, all different
          Threshold,  \* thresholds[table], from datapool.conf
          NoSchema,   \* tables for which getTableSchema has no column list
          NULL

ASSUME BatchAssumption ==
    /\ IsFiniteSet(Workers)
    /\ Threshold \in [Tables -> Nat]
    /\ NoSchema \subseteq Tables
    /\ NULL \notin Tables

VARIABLES cur_count, values_buffer,
          pc,       \* where each worker is in db_insert
          table,    \* the table it inserts into
          sql,      \* the rows of the statement it has built
          given,    \* the rows passed to db_insert so far
          stored,   \* the rows some database has executed an insert of
          failed,   \* the rows some statement failed with, for good
          sent,     \* sent[w]: the rows of the statements w is through with
          dropped,  \* the rows given with an unknown table
          exposed,  \* history only: rows appended between another worker's
                    \* reading of the buffer and its clearing of it
          doubled   \* history only: rows read between the same two

shared  == <<cur_count, values_buffer>>
outcome == <<stored, failed, sent>>
vars == <<shared, pc, table, sql, given, outcome, dropped, exposed, doubled>>

Init ==
    /\ cur_count = [t \in Tables |-> 0]
    /\ values_buffer = [t \in Tables |-> {}]
    /\ pc = [w \in Workers |-> "idle"]
    /\ table = [w \in Workers |-> NULL]
    /\ sql = [w \in Workers |-> {}]
    /\ given = {} /\ stored = {} /\ failed = {}
    /\ sent = [w \in Workers |-> {}]
    /\ dropped = {} /\ exposed = {} /\ doubled = {}

Goto(w, label) == pc' = [pc EXCEPT ![w] = label]

At(labels, t) == {w \in Workers : pc[w] \in labels /\ table[w] = t}
-----------------------------------------------------------------------------
(* bufferValues appends the row under the write lock.                      *)
Push(w, t, r) ==
    /\ pc[w] = "idle"
    /\ r \notin given
    /\ given' = given \cup {r}
    /\ cur_count' = [cur_count EXCEPT ![t] = @ + 1]
    /\ values_buffer' = [values_buffer EXCEPT ![t] = @ \cup {r}]
    /\ exposed' = IF At({"clear"}, t) = {} THEN exposed ELSE exposed \cup {r}
    /\ table' = [table EXCEPT ![w] = t]
    /\ Goto(w, "check")
    /\ UNCHANGED <<sql, outcome, dropped, doubled>>

(* bufferValues does not know the table (the RAID tables of a controller   *)
(* whose MIB gave no raid_token): db_insert reports success all the same.  *)
PushUnknown(w, r) ==
    /\ pc[w] = "idle"
    /\ r \notin given
    /\ given' = given \cup {r}
    /\ dropped' = dropped \cup {r}
    /\ UNCHANGED <<shared, pc, table, sql, outcome, exposed, doubled>>

(* An operator whose name ends in _M is a fault of the operator below it,  *)
(* seeded to show that a property can tell the two apart; no behaviour     *)
(* uses it.                                                                *)
Strictly_M(w) ==
    /\ pc[w] = "check"
    /\ Goto(w, IF cur_count[table[w]] > Threshold[table[w]] THEN "reset" ELSE "idle")
    /\ UNCHANGED <<shared, table, sql, given, outcome, dropped, exposed, doubled>>

(* The counter is read without the lock.                                   *)
Check(w) ==
    /\ pc[w] = "check"
    /\ Goto(w, IF cur_count[table[w]] >= Threshold[table[w]] THEN "reset" ELSE "idle")
    /\ UNCHANGED <<shared, table, sql, given, outcome, dropped, exposed, doubled>>

ClearedToo_M(w) ==
    /\ pc[w] = "reset"
    /\ cur_count' = [cur_count EXCEPT ![table[w]] = 0]
    /\ values_buffer' = [values_buffer EXCEPT ![table[w]] = {}]
    /\ Goto(w, "parse")
    /\ UNCHANGED <<table, sql, given, outcome, dropped, exposed, doubled>>

Subtracted_M(w) ==
    /\ pc[w] = "reset"
    /\ cur_count' = [cur_count EXCEPT ![table[w]] = @ - Threshold[table[w]]]
    /\ Goto(w, "parse")
    /\ UNCHANGED <<values_buffer, table, sql, given, outcome, dropped, exposed, doubled>>

Reset(w) ==
    /\ pc[w] = "reset"
    /\ cur_count' = [cur_count EXCEPT ![table[w]] = 0]
    /\ Goto(w, "parse")
    /\ UNCHANGED <<values_buffer, table, sql, given, outcome, dropped, exposed, doubled>>

(* parseVectorToSQL under the read lock.                                   *)
Parse(w) ==
    /\ pc[w] = "parse"
    /\ sql' = [sql EXCEPT ![w] = values_buffer[table[w]]]
    /\ doubled' = doubled \cup {r \in values_buffer[table[w]] :
                                   \E v \in At({"clear"}, table[w]) : r \in sql[v]}
    /\ Goto(w, "clear")
    /\ UNCHANGED <<shared, table, given, outcome, dropped, exposed>>

NotCleared_M(w) ==
    /\ pc[w] = "clear"
    /\ Goto(w, "insert")
    /\ UNCHANGED <<shared, table, sql, given, outcome, dropped, exposed, doubled>>

Clear(w) ==
    /\ pc[w] = "clear"
    /\ values_buffer' = [values_buffer EXCEPT ![table[w]] = {}]
    /\ Goto(w, "insert")
    /\ UNCHANGED <<cur_count, table, sql, given, outcome, dropped, exposed, doubled>>
-----------------------------------------------------------------------------
(* A statement without rows, or without a column list, is no SQL.          *)
WellFormed(w) == sql[w] # {} /\ table[w] \notin NoSchema

Finish(w) ==
    /\ Goto(w, "idle")
    /\ sent' = [sent EXCEPT ![w] = @ \cup sql[w]]
    /\ \/ WellFormed(w) /\ stored' = stored \cup sql[w] /\ UNCHANGED failed
       \/ failed' = failed \cup sql[w] /\ UNCHANGED stored
    /\ UNCHANGED <<shared, table, sql, given, dropped, exposed, doubled>>

(* The common database executes the statement or rejects it.               *)
InsertCommon(w) == pc[w] = "insert" /\ Finish(w)

(* It cannot be reached or the table stays locked: errors 1205, 2003, 2006 *)
(* after the proxy's retries.                                              *)
FailOver(w) ==
    /\ pc[w] = "insert"
    /\ Goto(w, "backup")
    /\ UNCHANGED <<shared, table, sql, given, outcome, dropped, exposed, doubled>>

InsertBackup(w) == pc[w] = "backup" /\ Finish(w)
-----------------------------------------------------------------------------
(* What the worker does once it is inside db_insert.                       *)
Inside(w) ==
    \/ Check(w) \/ Reset(w) \/ Parse(w) \/ Clear(w)
    \/ InsertCommon(w) \/ FailOver(w) \/ InsertBackup(w)

Next ==
    \E w \in Workers :
        \/ \E r \in Rows : PushUnknown(w, r) \/ \E t \in Tables : Push(w, t, r)
        \/ Inside(w)

Spec == Init /\ [][Next]_vars

(* A worker inside db_insert goes on; no row need ever arrive. The locked  *)
(* sections are short and never nested, and the database calls return.     *)
FairSpec == Spec /\ \A w \in Workers : WF_vars(Inside(w))
-----------------------------------------------------------------------------
(* Every variable ranges over what the code can put into it.               *)
TypeOK ==
    /\ cur_count \in [Tables -> Nat]
    /\ values_buffer \in [Tables -> SUBSET Rows]
    /\ \A t \in Tables : IsFiniteSet(values_buffer[t])
    /\ pc \in [Workers -> {"idle", "check", "reset", "parse", "clear", "insert", "backup"}]
    /\ table \in [Workers -> Tables \cup {NULL}]
    /\ \A w \in Workers : pc[w] # "idle" => table[w] \in Tables
    /\ sql \in [Workers -> SUBSET Rows]
    /\ sent \in [Workers -> SUBSET Rows]
    /\ given \in SUBSET Rows
    /\ stored \in SUBSET Rows /\ failed \in SUBSET Rows
    /\ dropped \in SUBSET Rows /\ exposed \in SUBSET Rows
    /\ doubled \in SUBSET Rows

(* The count a table may be left with: one less than its threshold.        *)
Slack(t) == IF Threshold[t] = 0 THEN 0 ELSE Threshold[t] - 1

(* Although the counter is compared and reset in separate sections, it     *)
(* never runs away: what exceeds the threshold is owed to workers that     *)
(* have still to compare it or to reset it.                                *)
CountBound ==
    \A t \in Tables : cur_count[t] <= Slack(t) + Cardinality(At({"check", "reset"}, t))

(* Resetting the counter before the buffer is read never leaves rows       *)
(* behind uncounted: once nobody is about to clear the buffer, the counter *)
(* has counted every row in it,                                            *)
Counted ==
    \A t \in Tables : At({"parse", "clear"}, t) = {} =>
                         Cardinality(values_buffer[t]) <= cur_count[t]

(* so that a buffer nobody is working on holds less than a full batch.     *)
NoForgottenFlush ==
    \A t \in Tables : At({"check", "reset", "parse", "clear"}, t) = {} =>
                         Cardinality(values_buffer[t]) <= Slack(t)

(* The rows of the statement a worker has built and is not through with.   *)
InFlightOf(w) == IF pc[w] \in {"clear", "insert", "backup"} THEN sql[w] ELSE {}

InFlight == UNION {InFlightOf(w) : w \in Workers}

Buffered == UNION {values_buffer[t] : t \in Tables}

(* A row given for a known table is never lost inside the buffer, but for  *)
(* those appended while another worker is between reading the buffer and   *)
(* clearing it: it is buffered, on its way, or its statement was answered. *)
LossOnlyBySnapshotRace ==
    given \ (dropped \cup exposed) \subseteq Buffered \cup InFlight \cup stored \cup failed

(* A worker about to clear a table has all its rows, but the exposed ones. *)
SnapshotComplete ==
    \A w \in Workers : pc[w] = "clear" => values_buffer[table[w]] \subseteq sql[w] \cup exposed

NoWorkerResends ==
    \A w \in Workers : InFlightOf(w) \cap sent[w] = {}

SharedIsDoubled ==
    \A v, w \in Workers :
        v # w => (sent[v] \cup InFlightOf(v)) \cap (sent[w] \cup InFlightOf(w)) \subseteq doubled

(* No worker sends a row again that it has sent before, and no two workers *)
(* send the same row, but for those one of them read while another was     *)
(* between its reading of that buffer and its clearing of it: both had     *)
(* compared the counter before either reset it, which the comment at       *)
(* DataBaseContainer.cc:179 ("prevent another thread step in") is about.   *)
ResentOnlyBySnapshotRace == NoWorkerResends /\ SharedIsDoubled

(* What a worker has sent, or has taken to send and cleared, has left the  *)
(* buffers.                                                                *)
SentHasLeft ==
    \A w \in Workers :
        /\ sent[w] \cap Buffered = {}
        /\ pc[w] \in {"insert", "backup"} => sql[w] \cap Buffered = {}
        /\ sent[w] \cup sql[w] \subseteq given

BufferedGiven == Buffered \subseteq given

(* A row is in the buffer of its own table only.                           *)
OwnBuffer ==
    /\ \A t, u \in Tables : t # u => values_buffer[t] \cap values_buffer[u] = {}
    /\ \A w \in Workers : pc[w] = "clear" =>
          \A u \in Tables \ {table[w]} : sql[w] \cap values_buffer[u] = {}

(* The inductive invariant.                                                *)
IInv == /\ TypeOK
        /\ CountBound
        /\ Counted
        /\ LossOnlyBySnapshotRace
        /\ SnapshotComplete
        /\ ResentOnlyBySnapshotRace
        /\ SentHasLeft
        /\ BufferedGiven
        /\ OwnBuffer

(* A buffer that holds a full batch is emptied.                            *)
FullBufferIsSent ==
    \A t \in Tables :
        (Cardinality(values_buffer[t]) > Slack(t)) ~> (values_buffer[t] = {})
=============================================================================
