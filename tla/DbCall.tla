-------------------------------- MODULE DbCall --------------------------------
(***************************************************************************)
(* What db_insert and db_query of DataBaseContainer promise a caller,      *)
(* without sessions, errors or retries: the statement is given to the      *)
(* common database, and perhaps after that, once, to the backup. A database*)
(* that passes an insert on has not executed it; the one that ends the call*)
(* has, if the caller gets an answer, and may have otherwise.              *)
(***************************************************************************)
EXTENDS Naturals

VARIABLES under_way,  \* the call has not returned
          kind,       \* "insert" or "select"
          db,         \* the database that has the statement
          answer,     \* the call has returned TRUE, or a result set
          executed    \* executed[d]: how often d has executed the statement

vars == <<under_way, kind, db, answer, executed>>

Kinds == {"insert", "select"}
NoEffect == [d \in {"common", "backup"} |-> 0]

Init ==
    /\ under_way = FALSE /\ kind \in Kinds /\ db = "common"
    /\ answer = FALSE /\ executed = NoEffect

Begin(k) ==
    /\ ~under_way
    /\ under_way' = TRUE /\ kind' = k /\ db' = "common"
    /\ answer' = FALSE /\ executed' = NoEffect

Executed == executed' = [executed EXCEPT ![db] = @ + 1]

(* A select may be executed without a result set and passed on.            *)
FailOver ==
    /\ under_way /\ db = "common" /\ db' = "backup"
    /\ UNCHANGED executed \/ (kind = "select" /\ Executed)
    /\ UNCHANGED <<under_way, kind, answer>>

Answer ==
    /\ under_way /\ Executed
    /\ under_way' = FALSE /\ answer' = TRUE
    /\ UNCHANGED <<kind, db>>

(* The caller does not know whether the statement took effect.             *)
Fail ==
    /\ under_way
    /\ UNCHANGED executed \/ Executed
    /\ under_way' = FALSE
    /\ UNCHANGED <<kind, db, answer>>

Next == (\E k \in Kinds : Begin(k)) \/ FailOver \/ Answer \/ Fail

Spec == Init /\ [][Next]_vars
-----------------------------------------------------------------------------
(* An insert takes effect at most once, and before it is answered.         *)
OnceAtMost ==
    kind = "insert" =>
        /\ under_way => executed = NoEffect
        /\ executed["common"] + executed["backup"] <= 1
        /\ answer => executed["common"] + executed["backup"] = 1
=============================================================================
