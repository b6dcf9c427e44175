------------------------------ MODULE ValueMap ------------------------------
(***************************************************************************)
(* From the key/value pairs of a message to SQL (src/bin/MagicMap.cc, with *)
(* its callers in SNMPDataDB.cc). A map starts with every name its kind of *)
(* data may have, set to a default that stands for NULL, and is overwritten*)
(* by what the message has. From it SNMPDataDB makes the status row (insert*)
(* the first time, then update), by column name; and then, without the     *)
(* names of a filter, a row for a history table, by position: the schema is*)
(* added when a batch is full (module BatchBuffer), and a batch with a row *)
(* of another length is refused as a whole.                                *)
(*                                                                         *)
(* One table and one row of its status table; only what becomes of values  *)
(* is modelled here (failures of statements: StatusTable, ServerReport).   *)
(* A name that occurs twice in a message counts as its first occurrence.   *)
(***************************************************************************)
EXTENDS Columns, Naturals

CONSTANTS MaxMessages,  \* bound: messages stored
          Threshold     \* of the batch

ASSUME ValueMapAssumption == MaxMessages \in Nat /\ Threshold \in Nat \ {0}

VARIABLES table,    \* name of the table
          status,   \* the status row, or NoRow
          batch,    \* the rows of the history buffer
          flushed,  \* the batch sent last
          n,        \* messages so far
          given     \* history only: per number, the last message that had it

valueVars == <<table, status, batch, flushed, n, given>>

(* A value is the name it was sent under and the message it came with; NULL*)
(* stands for INT_DEFAULT and the string "NULL", Empty for the string "".  *)
NULL == [of |-> "", at |-> 0]
Empty == [of |-> "", at |-> 1]
Value(x) == [of |-> x, at |-> n + 1]
NoRow == <<>>

Kind == Tables[table]
Known == Kind.ints \cup Kind.strings
StatusColumns == Known \cup Kind.filter

ValuesInit ==
    /\ table \in DOMAIN Tables
    /\ status = NoRow /\ batch = <<>> /\ flushed = <<>> /\ n = 0
    /\ given = [x \in Kind.ints |-> 0]
-----------------------------------------------------------------------------
(* What a message may have (bound): all names, all but one, one, or more   *)
(* than all; and one of its strings may be "NULL" or "".                   *)
NameSets == {Known, Known \cup Kind.filter, Known \cup {Foreign}}
                \cup {Known \ {x} : x \in Known} \cup {{x} : x \in Known}

Messages ==
    {[x \in names |-> Value(x)] : names \in NameSets}
        \cup {[x \in Known |-> IF x = s THEN v ELSE Value(x)] :
                  s \in Kind.strings, v \in {NULL, Empty}}

(* buildMap.                                                               *)
Built(m) ==
    [x \in Known \cup DOMAIN m |-> IF x \in DOMAIN m THEN m[x] ELSE NULL]

(* The names that have a value.                                            *)
Present(map) == {x \in DOMAIN map : map[x] # NULL}

(* SNMPDataDB::insert passes over data that cannot be told apart, and over *)
(* a disk without counters.                                                *)
Storable(map) ==
    /\ Kind.needs \subseteq Present(map)
    /\ table = "disk_io" => Kind.ints \cap Present(map) # {}

(* An operator whose name ends in _M is a fault of the operator below it,  *)
(* seeded to show that a property can tell the two apart; no behaviour     *)
(* uses it.                                                                *)
NullToo_M(map) == [x \in StatusColumns |-> IF x \in DOMAIN map THEN map[x] ELSE status[x]]

(* parseUpdateString: a string that is NULL is written, an int is not.     *)
Updated(map) ==
    [x \in StatusColumns |->
        IF \/ x \notin DOMAIN map
           \/ x \notin Kind.strings /\ map[x] = NULL
           \/ map[x] = Empty
        THEN status[x] ELSE map[x]]

Inserted(map) ==
    [x \in StatusColumns |-> IF x \in DOMAIN map THEN map[x] ELSE NULL]

(* update*Status, in a table that has the columns of its kind: a statement *)
(* that names another one fails. Empty strings alone are worth an insert,  *)
(* but not an update.                                                      *)
Status(map) ==
    IF \/ Foreign \in DOMAIN map
       \/ Present(map) = {}
       \/ status # NoRow /\ \A x \in Present(map) : map[x] = Empty
    THEN status
    ELSE IF status = NoRow THEN Inserted(map) ELSE Updated(map)
-----------------------------------------------------------------------------
(* setFilterKey.                                                           *)
Filtered(map) == [x \in DOMAIN map \ Kind.filter |-> map[x]]

(* Names from the first to the last, as std::map goes through its keys.    *)
Sorted(names) ==
    LET at == [x \in names |-> Cardinality({y \in names : Place[y] <= Place[x]})]
    IN [i \in 1..Cardinality(names) |-> CHOOSE x \in names : at[x] = i]

StringsFirst_M(names) == Sorted(names \cap Kind.strings) \o Sorted(names \ Kind.strings)

(* The two maps, one after the other, each in its own order.               *)
Order(names) == Sorted(names \ Kind.strings) \o Sorted(names \cap Kind.strings)

GivenOnly_M(map) ==
    LET order == Order(Present(map)) IN [i \in DOMAIN order |-> map[order[i]]]

(* parseInsertString: the values of a row.                                 *)
Row(map) ==
    LET order == Order(DOMAIN map) IN [i \in DOMAIN order |-> map[order[i]]]

(* insert*Data; a row without a value is not stored. (foreign: history.)   *)
Push(map) ==
    IF Present(map) = {}
    THEN UNCHANGED <<batch, flushed>>
    ELSE LET full == Append(batch, [values |-> Row(map), foreign |-> Foreign \in DOMAIN map])
         IN  IF Len(full) < Threshold
             THEN batch' = full /\ UNCHANGED flushed
             ELSE batch' = <<>> /\ flushed' = full

(* One message: the status row, then the history.                          *)
StoreValues(m) ==
    LET map == Built(m) IN
    /\ n < MaxMessages /\ n' = n + 1
    /\ IF Storable(map)
       THEN status' = Status(map) /\ Push(Filtered(map))
       ELSE UNCHANGED <<status, batch, flushed>>
    /\ given' = [x \in Kind.ints |->
                    IF Storable(map) /\ Foreign \notin DOMAIN m /\ x \in DOMAIN m
                    THEN n + 1 ELSE given[x]]
    /\ UNCHANGED table

ValuesNext == \E m \in Messages : StoreValues(m)

ValuesSpec == ValuesInit /\ [][ValuesNext]_valueVars
-----------------------------------------------------------------------------
(* MySQL: every row must have a value for every column.                    *)
Refused == \E i \in DOMAIN flushed : Len(flushed[i].values) # Len(Kind.columns)

(* The rows of several servers are sent in one statement, without their    *)
(* column names. All of them are refused if, and only if, one of them has a*)
(* name that its table does not know; names that are missing do no harm.   *)
RefusedForForeignName ==
    Refused <=> \E i \in DOMAIN flushed : flushed[i].foreign

Misplaced(column) ==
    \E i \in DOMAIN flushed, j \in DOMAIN Kind.columns :
        /\ Kind.columns[j] = column
        /\ flushed[i].values[j] \notin {NULL, Empty}
        /\ flushed[i].values[j].of # column

(* The values follow the maps, the columns follow getTableSchema: in every *)
(* table but ir_pd each value that is stored gets under its own name.      *)
OnlyIrPdMisplaced ==
    ~Refused => \A j \in DOMAIN Kind.columns :
        Misplaced(Kind.columns[j]) =>
            table = "ir_pd" /\ Kind.columns[j] \in {"mediatype", "mediaErrCount"}

(* DataBaseContainer.cc:221 has the column list "`mediatype`,              *)
(* `mediaErrCount`" for the values of ir_pd: every value stored is one for *)
(* its column.                                                             *)
ColumnsInPlace ==
    ~Refused => \A j \in DOMAIN Kind.columns : ~Misplaced(Kind.columns[j])

(* A status row is a mixture of messages: a number that is missing in a    *)
(* message keeps the value of the last one that had it, though the row's   *)
(* time is renewed (which is how module Speed comes by its gaps).          *)
RemembersNumbers ==
    status # NoRow => \A x \in Kind.ints : status[x].at = given[x]
-----------------------------------------------------------------------------
(* Why RemembersNumbers holds. The names of a table's numbers are neither  *)
(* among its strings nor empty, and no table knows the foreign name.       *)
Distinguishes(t) ==
    /\ Tables[t].ints \cap Tables[t].strings = {}
    /\ Foreign \notin Tables[t].ints \cup Tables[t].strings
    /\ "" \notin Tables[t].ints

(* A row has all the columns of its kind, and before there is one no number*)
(* has come.                                                               *)
GivenKept ==
    /\ table \in DOMAIN Tables /\ n \in Nat
    /\ given \in [Kind.ints -> Nat]
    /\ status = NoRow => \A x \in Kind.ints : given[x] = 0
    /\ status # NoRow => DOMAIN status = StatusColumns
    /\ RemembersNumbers

(* Why the batches are refused and misplaced as they are. The row of a      *)
(* message without the foreign name has a value for each column, each one   *)
(* of the name that stands there in the order of the maps; the foreign name *)
(* makes it longer.                                                         *)
Written(t) ==
    IF t = "ir_pd" THEN [ir_pd EXCEPT ![3] = "mediaErrCount", ![4] = "mediatype"]
    ELSE Tables[t].columns

RightRow(row) ==
    IF row.foreign
    THEN Len(row.values) = Len(Kind.columns) + 1
    ELSE /\ Len(row.values) = Len(Kind.columns)
         /\ \A j \in DOMAIN Kind.columns :
                row.values[j] \in {NULL, Empty} \/ row.values[j].of = Written(table)[j]

RowsKept ==
    /\ table \in DOMAIN Tables
    /\ \A sent \in {batch, flushed} :
          sent \in Seq(Range(sent)) /\ \A row \in Range(sent) : RightRow(row)
=============================================================================
