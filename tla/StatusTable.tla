----------------------------- MODULE StatusTable -----------------------------
(***************************************************************************)
(* The *_status tables hold one row per server (or per disk, controller):  *)
(* its newest values. A worker looks for the row, then inserts one or      *)
(* updates the one it found by id, each in a statement of its own and      *)
(* without a transaction: src/bin/SNMPDataDB.cc (server_perform_status,    *)
(* disk_io_status, *_controller_status), src/bin/Sel.cc (log_status),      *)
(* src/bin/IPMIRaw.cc (fru_status, ipmi_raw_status). Each statement may    *)
(* run on the backup database instead, where the same id is another row.   *)
(* The tables whose updates rewrite the columns they are found by are not  *)
(* of this kind (module ServerReport).                                     *)
(***************************************************************************)
EXTENDS Naturals, FiniteSets

CONSTANTS Workers, Keys,
          Kinds,        \* the kinds of table to consider
          Values,       \* the log ids and FRU contents a message may carry
          MaxMessages,  \* bound: messages taken from the queue
          MaxTroubles   \* bound: statements that do not go the normal way

ASSUME StatusAssumption ==
    /\ IsFiniteSet(Workers)
    /\ Kinds \subseteq {"perform", "snmp", "log", "fru", "raw"}
    /\ Values \subseteq Nat
    /\ MaxMessages \in Nat /\ MaxTroubles \in Nat

VARIABLES kind,        \* of the table
          rows,        \* rows[d]: the rows in database d
          lastId,      \* lastId[d]: the last automatic id given in database d
          taken,       \* messages taken from the queue so far
          pc, msg, found,
          troubles,    \* statements that failed or ran on the backup
          newest,      \* history only: the value the row of a key should have
          overlapped   \* history only: keys that two workers handled at once

tables  == <<kind, rows, lastId>>
inhand  == <<pc, msg, found>>
history == <<newest, overlapped>>
vars == <<tables, taken, inhand, troubles, history>>

Databases == {"common", "backup"}

(* perform: server_perform_status; snmp: the other tables of SNMPDataDB.   *)
Snmp == {"perform", "snmp"}

(* owner is the key whose message last wrote the row, usage the value that *)
(* column cpu_usage is from (in the other tables it is as new as the rest).*)
Row == [id : Nat, key : Keys, value : Nat, usage : Nat, owner : Keys]

RowsOf(d, k) == {r \in rows[d] : r.key = k}
Handling(k) == {w \in Workers : pc[w] # "idle" /\ msg[w].key = k}

Init ==
    /\ kind \in Kinds
    /\ rows = [d \in Databases |-> {}]
    /\ lastId = [d \in Databases |-> 0]
    /\ taken = 0
    /\ pc = [w \in Workers |-> "idle"]
    /\ msg \in [Workers -> [key : Keys, value : {0}]]
    /\ found = [w \in Workers |-> 0]
    /\ troubles = 0
    /\ newest = [k \in Keys |-> 0]
    /\ overlapped = {}

Goto(w, label) == pc' = [pc EXCEPT ![w] = label]

(* mysql_fetch_row(NULL): the process dies and superwise.dp starts it anew;*)
(* the messages in hand are gone.                                          *)
Crash == pc' = [w \in Workers |-> "idle"]
-----------------------------------------------------------------------------
(* What becomes of a statement (module DbProxy): it runs on the common     *)
(* database, on the backup, or on neither, and its answer may be lost.     *)
Outcomes == [db : Databases, answered : BOOLEAN]
                \cup [db : {"none"}, answered : {FALSE}]
Normal == [db |-> "common", answered |-> TRUE]

Account(o) ==
    \/ o = Normal /\ UNCHANGED troubles
    \/ o # Normal /\ troubles < MaxTroubles /\ troubles' = troubles + 1

(* An SNMP or raw IPMI message carries its collection time, which grows    *)
(* along the queue; a log message its highest log id, which may not.       *)
Carried(n) == IF kind \in {"log", "fru"} THEN Values ELSE {n}

Due(k, v) == IF kind = "log" /\ v < newest[k] THEN newest[k] ELSE v

(* A worker takes the next message.                                        *)
Take(w) ==
    /\ pc[w] = "idle" /\ taken < MaxMessages
    /\ taken' = taken + 1
    /\ Goto(w, "find")
    /\ \E k \in Keys : \E v \in Carried(taken + 1) :
          /\ msg' = [msg EXCEPT ![w] = [key |-> k, value |-> v]]
          /\ newest' = [newest EXCEPT ![k] = Due(k, v)]
          /\ overlapped' = overlapped \cup (IF Handling(k) = {} THEN {} ELSE {k})
    /\ UNCHANGED <<tables, found, troubles>>

(* Sel::insert leaves the status alone if storing the history failed.      *)
Abandon(w) ==
    /\ kind = "log" /\ pc[w] = "find"
    /\ troubles < MaxTroubles /\ troubles' = troubles + 1
    /\ Goto(w, "idle")
    /\ UNCHANGED <<tables, taken, msg, found, history>>
-----------------------------------------------------------------------------
(* An operator whose name ends in _M is a fault of the operator below it,  *)
(* seeded to show that a property can tell the two apart; no behaviour     *)
(* uses it.                                                                *)
FromZero_M(d) == lastId[d] - 1

(* The automatic id of the next row.                                       *)
NextId(d) == lastId[d] + 1

WithTime_M(d, w) == {r \in rows[d] : r.key = msg[w].key /\ r.value = msg[w].value}

(* The rows a find matches.                                                *)
Hits(d, w) == RowsOf(d, msg[w].key)

Swapped_M(w, r) == kind = "log" => msg[w].value < r.value

(* Whether the row found has to be updated.                                *)
Outdated(w, r) ==
    CASE kind = "log" -> msg[w].value > r.value
      [] kind = "fru" -> msg[w].value # r.value
      [] OTHER        -> TRUE

StaleId_M(w) ==
    \/ kind \in Snmp /\ Goto(w, "update")
    \/ kind = "log" /\ Goto(w, "insert")
    \/ kind \in {"fru", "raw"} /\ Goto(w, "idle")

(* The query yields NULL: most callers read it all the same, Sel takes it  *)
(* for an empty table, IPMIRaw gives up.                                   *)
NoAnswer(w) ==
    \/ kind \in Snmp /\ Crash
    \/ kind = "log" /\ Goto(w, "insert")
    \/ kind \in {"fru", "raw"} /\ Goto(w, "idle")

(* find*Status: any one of the rows that match, in no order. (An empty     *)
(* statement, which Sel sends when its row is up to date, does nothing.)   *)
Find(w) ==
    /\ pc[w] = "find"
    /\ \E o \in Outcomes :
          /\ Account(o)
          /\ \/ ~o.answered /\ NoAnswer(w) /\ UNCHANGED found
             \/ /\ o.answered /\ Hits(o.db, w) = {}
                /\ Goto(w, "insert") /\ UNCHANGED found
             \/ /\ o.answered
                /\ \E r \in Hits(o.db, w) :
                      /\ Goto(w, IF Outdated(w, r) THEN "update" ELSE "idle")
                      /\ found' = [found EXCEPT ![w] = r.id]
    /\ UNCHANGED <<tables, taken, msg, history>>

(* The new row; the SNMP handlers then ask for LAST_INSERT_ID.             *)
Insert(w) ==
    /\ pc[w] = "insert"
    /\ \E o \in Outcomes :
          /\ Account(o)
          /\ rows' = [d \in Databases |->
                        IF d = o.db
                        THEN rows[d] \cup {[id |-> NextId(d), key |-> msg[w].key,
                                            value |-> msg[w].value, usage |-> msg[w].value,
                                            owner |-> msg[w].key]}
                        ELSE rows[d]]
          /\ lastId' = [d \in Databases |-> IF d = o.db THEN NextId(d) ELSE lastId[d]]
          /\ Goto(w, IF kind \in Snmp /\ o.answered THEN "ask" ELSE "idle")
    /\ UNCHANGED <<kind, taken, msg, found, history>>

AskId(w) ==
    /\ pc[w] = "ask"
    /\ \E o \in Outcomes :
          /\ Account(o)
          /\ \/ o.answered /\ Goto(w, "idle")
             \/ ~o.answered /\ Crash
    /\ UNCHANGED <<tables, taken, msg, found, history>>

(* update ... where id = the one found, on whichever database. That of     *)
(* server_perform_status does not name cpu_usage.                          *)
Written(w, r) ==
    IF r.id = found[w]
    THEN [r EXCEPT !.value = msg[w].value, !.owner = msg[w].key,
                   !.usage = IF kind = "perform" THEN r.usage ELSE msg[w].value]
    ELSE r

Update(w) ==
    /\ pc[w] = "update"
    /\ \E o \in Outcomes :
          /\ Account(o)
          /\ rows' = [d \in Databases |->
                        IF d = o.db THEN {Written(w, r) : r \in rows[d]} ELSE rows[d]]
    /\ Goto(w, "idle")
    /\ UNCHANGED <<kind, lastId, taken, msg, found, history>>
-----------------------------------------------------------------------------
Next == \E w \in Workers :
            \/ Take(w) \/ Abandon(w)
            \/ Find(w) \/ Insert(w) \/ AskId(w) \/ Update(w)

Spec == Init /\ [][Next]_vars
-----------------------------------------------------------------------------
(* Every variable ranges over what the code can put into it.               *)
TypeOK ==
    /\ kind \in Kinds
    /\ rows \in [Databases -> SUBSET Row]
    /\ \A d \in Databases : IsFiniteSet(rows[d])
    /\ lastId \in [Databases -> Nat]
    /\ taken \in Nat
    /\ pc \in [Workers -> {"idle", "find", "insert", "ask", "update"}]
    /\ msg \in [Workers -> [key : Keys, value : Nat]]
    /\ found \in [Workers -> Nat]
    /\ troubles \in Nat
    /\ newest \in [Keys -> Nat]
    /\ overlapped \subseteq Keys

Inserting(k) == {w \in Workers : pc[w] = "insert" /\ msg[w].key = k}

(* Nothing but the find before it keeps an insert from doubling a row: the *)
(* workers can double it once each, and every statement that fails or goes *)
(* to the backup once more, but the rows of a key grow no further however  *)
(* long the program runs.                                                  *)
DuplicatesBounded ==
    \A k \in Keys :
        /\ Cardinality(RowsOf("common", k)) <= Cardinality(Workers) + troubles
        /\ Cardinality(RowsOf("backup", k)) <= troubles

(* As long as every statement is answered by the common database and no    *)
(* two workers handle the same server at once, there is one row, and it    *)
(* holds the newest value (for the log, the highest id) once nobody is at  *)
(* work on it.                                                             *)
SerialIsExact ==
    troubles = 0 =>
        \A k \in Keys \ overlapped :
            /\ Cardinality(RowsOf("common", k)) <= 1
            /\ Handling(k) = {} /\ newest[k] # 0 =>
                  \E r \in RowsOf("common", k) : r.value = newest[k]

(* An id found in one database and used in the other writes one server's   *)
(* values into the row of another. It takes more than one detour: a row on *)
(* the backup, and then an update or a find on it.                         *)
ForeignNeedsTwoTroubles ==
    (\E d \in Databases : \E r \in rows[d] : r.owner # r.key) => troubles >= 2

(* Who is about to insert counts as a row already.                         *)
PendingBounded ==
    \A k \in Keys :
        /\ Cardinality(RowsOf("common", k)) + Cardinality(Inserting(k))
               <= Cardinality(Workers) + troubles
        /\ Cardinality(RowsOf("backup", k)) <= troubles

(* An id names one row of its database, and the backup is empty until some *)
(* statement went there.                                                   *)
IdsUnique ==
    \A d \in Databases :
        /\ \A r \in rows[d] : r.id <= lastId[d]
        /\ \A r, s \in rows[d] : r.id = s.id => r = s
BackupUsed == rows["backup"] # {} => troubles >= 1

(* Before the second detour, the id in hand is of a row on the common      *)
(* database, and of the right one.                                         *)
FoundIsOwn ==
    troubles < 2 =>
        \A w \in Workers : pc[w] = "update" =>
            /\ found[w] <= lastId["common"]
            /\ \A r \in rows["common"] : r.id = found[w] => r.key = msg[w].key

(* The inductive invariant.                                                *)
IInv == /\ TypeOK
        /\ PendingBounded
        /\ IdsUnique
        /\ BackupUsed
        /\ FoundIsOwn
        /\ ForeignNeedsTwoTroubles

(* The newest value of the key once the message in hand is stored over the *)
(* row r: in the log the higher id stays.                                  *)
Over(w, r) == IF kind = "log" /\ msg[w].value < r.value THEN r.value ELSE msg[w].value

(* What the only worker at a key knows of its only row, at each label.     *)
RowAsExpected(w) ==
    LET k == msg[w].key
        own == RowsOf("common", k)
    IN  /\ pc[w] = "find" => /\ own = {} => newest[k] = msg[w].value
                             /\ \A r \in own : newest[k] = Over(w, r)
        /\ pc[w] = "insert" => own = {} /\ newest[k] = msg[w].value
        /\ pc[w] = "ask" => own # {} /\ \A r \in own : r.value = newest[k]
        /\ pc[w] = "update" => /\ newest[k] = msg[w].value
                               /\ \E r \in own : r.id = found[w]

(* SerialIsExact at every point of the handling, not only at its end.      *)
Serial(k) ==
    /\ \A r, s \in RowsOf("common", k) : r = s
    /\ \A v, w \in Handling(k) : v = w
    /\ \A w \in Handling(k) : RowAsExpected(w)
    /\ Handling(k) = {} =>
          /\ RowsOf("common", k) = {} => newest[k] = 0
          /\ \A r \in RowsOf("common", k) : r.value = newest[k]

SerialKept == troubles = 0 => \A k \in Keys \ overlapped : Serial(k)

(* SNMPDataDB.cc:79 on updatePerformStatus: "更新 server_perform 最新值"   *)
(* (update to the newest value). All messages are handled and every        *)
(* statement went well.                                                    *)
AllStored == kind = "perform" /\ troubles = 0 /\ \A w \in Workers : pc[w] = "idle"

(* Then column cpu_usage is that of the newest message, if they were       *)
(* handled one by one (two workers may change the order of two messages).  *)
UsageNewest ==
    AllStored =>
        \A k \in Keys \ overlapped : \A r \in RowsOf("common", k) : r.usage = newest[k]
=============================================================================
