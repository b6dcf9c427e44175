------------------------------- MODULE DbProxy -------------------------------
(***************************************************************************)
(* One statement on its way to MySQL: DataBaseContainer::db_insert and     *)
(* db_query try the common database and, on some errors, the backup        *)
(* (src/bin/DataBaseContainer.cc); DataBaseProxy retries lock errors and   *)
(* reconnects a lost session up to error_max_count times                   *)
(* (src/bin/DataBaseProxy.cc). A worker owns its container, so the only    *)
(* other party is the servers, which may drop a session at any moment,     *)
(* refuse a connection or answer any error; they are external code.        *)
(***************************************************************************)
EXTENDS Naturals

CONSTANTS MaxErrors,  \* error_max_count of each database
          MaxTries    \* attempts of one connect(): 5 in the code

Databases == {"common", "backup"}

ASSUME ProxyAssumption ==
    /\ MaxErrors \in [Databases -> Nat]
    /\ MaxTries \in Nat \ {0}

(* The errors the code tells apart: 1205 lock wait timeout, 1213 deadlock, *)
(* 2006 server has gone away; 2013 (session lost while waiting for the     *)
(* answer) is one of the others but leaves the outcome open.               *)
Locked   == 1205
Deadlock == 1213
GoneAway == 2006
Lost     == 2013
Other    == 1064
Errors == {0, Locked, Deadlock, GoneAway, Lost, Other}

VARIABLES session,     \* session[d]: "up" if the server will take a statement;
                       \* "lost" if it will not, which the client does not know
                       \* yet; "closed" if it does know
          at,          \* "idle", in a proxy ("query", "connect", "count"), "done"
          kind,        \* "insert" or "select"
          db,          \* the database being tried
          error_count, \* of the proxy being used
          tries,       \* of the connect() under way
          error,       \* errorno
          result,      \* TRUE, or a result set
          executed,    \* executed[d]: how often d executed the statement
          attempts,    \* history only: calls of mysql_query on each database
          reached      \* history only: databases that took a statement of this call

proxy == <<db, error_count, tries, error>>
call  == <<kind, result>>
effect == <<executed, attempts, reached>>
vars == <<session, at, proxy, call, effect>>

Zero == [d \in Databases |-> 0]

(* DataBaseContainer::connect ignores whether either connection came up.   *)
Init ==
    /\ session \in [Databases -> {"up", "closed"}]
    /\ at = "idle"
    /\ kind \in {"insert", "select"}
    /\ db = "common"
    /\ error_count = 0 /\ tries = 0 /\ error = 0
    /\ result = FALSE
    /\ executed = Zero /\ attempts = Zero /\ reached = {}

(* The server closes an idle session, restarts, or vanishes with its host. *)
ServerDrops(d) ==
    /\ session[d] = "up"
    /\ session' = [session EXCEPT ![d] = "lost"]
    /\ UNCHANGED <<at, proxy, call, effect>>

Call(k) ==
    /\ at \in {"idle", "done"}
    /\ at' = "query" /\ kind' = k
    /\ db' = "common" /\ error_count' = 0 /\ error' = 0
    /\ result' = FALSE
    /\ executed' = Zero /\ attempts' = Zero /\ reached' = {}
    /\ UNCHANGED <<session, tries>>
-----------------------------------------------------------------------------
(* An operator whose name ends in _M is a fault of the operator below it,  *)
(* seeded to show that a property can tell the two apart; no behaviour     *)
(* uses it.                                                                *)
LostToo_M == {Locked, GoneAway, Lost}
LockedOnly_M == {Locked}

FailoverErrors == {Locked, GoneAway}

(* The proxy gives up with error e: the container goes on to the backup or *)
(* reports failure. (The third error it tests for, 2003, is an error of    *)
(* mysql_real_connect, never of mysql_query.)                              *)
GiveUp(e) ==
    \/ /\ db = "common" /\ e \in FailoverErrors
       /\ db' = "backup" /\ error_count' = 0 /\ error' = 0 /\ at' = "query"
    \/ /\ ~(db = "common" /\ e \in FailoverErrors)
       /\ at' = "done" /\ error' = e /\ UNCHANGED <<db, error_count>>

Attempted == attempts' = [attempts EXCEPT ![db] = @ + 1]
Reached == reached' = reached \cup {db}

(* mysql_query succeeds. A select may still yield no result set; then the  *)
(* container looks at errorno, which the success has not reset.            *)
Succeed ==
    /\ at = "query" /\ session[db] = "up"
    /\ Attempted /\ Reached
    /\ executed' = [executed EXCEPT ![db] = @ + 1]
    /\ \/ /\ result' = TRUE /\ at' = "done"
          /\ UNCHANGED <<db, error_count, error>>
       \/ /\ kind = "select" /\ result' = FALSE
          /\ GiveUp(error)
    /\ UNCHANGED <<session, tries, kind>>

(* Lock wait timeout or deadlock: the server has rolled the statement back *)
(* and the proxy tries again.                                              *)
LockError(e) ==
    /\ at = "query" /\ session[db] = "up"
    /\ Attempted /\ Reached
    /\ \/ /\ error_count + 1 > MaxErrors[db] /\ GiveUp(e)
       \/ /\ error_count + 1 <= MaxErrors[db]
          /\ error_count' = error_count + 1 /\ error' = e
          /\ UNCHANGED <<at, db>>
    /\ UNCHANGED <<session, tries, kind, result, executed>>

(* Any other error, not retried.                                           *)
Reject ==
    /\ at = "query" /\ session[db] = "up"
    /\ Attempted /\ Reached
    /\ GiveUp(Other)
    /\ UNCHANGED <<session, tries, call, executed>>

(* The session breaks before the answer: the server may have executed it.  *)
LoseAnswer ==
    /\ at = "query" /\ session[db] = "up"
    /\ Attempted /\ Reached
    /\ session' = [session EXCEPT ![db] = "closed"]
    /\ executed' \in {executed, [executed EXCEPT ![db] = @ + 1]}
    /\ GiveUp(Lost)
    /\ UNCHANGED <<tries, call>>

(* The session was lost before: the statement is written to a socket whose *)
(* other end is gone, and no answer comes. It has not been executed, but   *)
(* the error is the one of LoseAnswer.                                     *)
FindLost ==
    /\ at = "query" /\ session[db] = "lost"
    /\ Attempted
    /\ session' = [session EXCEPT ![db] = "closed"]
    /\ GiveUp(Lost)
    /\ UNCHANGED <<tries, call, executed, reached>>

(* Or mysql_query finds no session to write to: the proxy closes its handle*)
(* and connects.                                                           *)
FindGone ==
    /\ at = "query" /\ session[db] # "up"
    /\ Attempted
    /\ session' = [session EXCEPT ![db] = "closed"]
    /\ error' = GoneAway
    /\ at' = "connect" /\ tries' = MaxTries
    /\ UNCHANGED <<db, error_count, call, executed, reached>>

Persistent_M ==
    /\ at = "connect"
    /\ \/ /\ session' = [session EXCEPT ![db] = "up"] /\ tries' = 0 /\ at' = "count"
       \/ /\ tries' = (IF tries > 1 THEN tries - 1 ELSE MaxTries) /\ UNCHANGED <<session, at>>
    /\ UNCHANGED <<db, error_count, error, call, effect>>

(* One mysql_real_connect: it succeeds, fails for now, or fails in a way   *)
(* that ends the loop (1045, 1049, 2005).                                  *)
Connect ==
    /\ at = "connect" /\ tries > 0
    /\ \/ /\ session' = [session EXCEPT ![db] = "up"] /\ tries' = 0
       \/ /\ tries' \in {tries - 1, 0} /\ UNCHANGED session
    /\ at' = IF tries' = 0 THEN "count" ELSE "connect"
    /\ UNCHANGED <<db, error_count, error, call, effect>>

(* Whatever connect() returned, the attempt is counted and the statement   *)
(* sent again.                                                             *)
Count ==
    /\ at = "count"
    /\ \/ /\ error_count + 1 > MaxErrors[db] /\ GiveUp(GoneAway)
       \/ /\ error_count + 1 <= MaxErrors[db]
          /\ error_count' = error_count + 1 /\ at' = "query"
          /\ UNCHANGED <<db, error>>
    /\ UNCHANGED <<session, tries, call, effect>>
-----------------------------------------------------------------------------
Step ==
    \/ Succeed \/ LockError(Locked) \/ LockError(Deadlock)
    \/ Reject \/ LoseAnswer \/ FindLost \/ FindGone \/ Connect \/ Count

Next ==
    \/ \E k \in {"insert", "select"} : Call(k)
    \/ Step
    \/ \E d \in Databases : ServerDrops(d)

Spec == Init /\ [][Next]_vars

(* A call under way goes on: mysql_query and mysql_real_connect return.    *)
FairSpec == Spec /\ WF_vars(Step)
-----------------------------------------------------------------------------
(* Every variable ranges over what the code can put into it.               *)
TypeOK ==
    /\ session \in [Databases -> {"up", "lost", "closed"}]
    /\ at \in {"idle", "query", "connect", "count", "done"}
    /\ kind \in {"insert", "select"}
    /\ db \in Databases
    /\ error_count \in Nat /\ tries \in 0..MaxTries /\ error \in Errors
    /\ result \in BOOLEAN
    /\ executed \in [Databases -> Nat]
    /\ attempts \in [Databases -> Nat]
    /\ reached \subseteq Databases

(* Across retries, reconnections and the failover, an insert takes effect  *)
(* at most once; and once the caller has heard TRUE, exactly once.         *)
InsertedAtMostOnce ==
    kind = "insert" =>
        /\ executed["common"] + executed["backup"] <= 1
        /\ at = "done" /\ result => executed["common"] + executed["backup"] = 1

(* Lock errors and lost sessions count against one budget per database,    *)
(* however they alternate.                                                 *)
AttemptsBounded == \A d \in Databases : attempts[d] <= MaxErrors[d] + 1

(* A failure is final on the common database only if that database took    *)
(* the statement: while it cannot be reached, the backup is asked. The one *)
(* exception is error 2013, which does not tell a session lost long ago    *)
(* from one lost with the answer.                                          *)
UnreachableFailsOver ==
    at = "done" /\ ~result /\ db = "common" => "common" \in reached \/ error = Lost

(* Once the backup is asked, the common database has not executed the      *)
(* statement and has used up its budget. Only a select may have been       *)
(* executed, by an attempt without a result set, and then an earlier one of*)
(* the same call met the error that is still in errorno.                   *)
BackupIsLastResort ==
    db = "backup" =>
        \/ executed["common"] = 0 /\ attempts["common"] = MaxErrors["common"] + 1
        \/ kind = "select" /\ executed["common"] = 1 /\ attempts["common"] > 1

(* db_insert and db_query of the container: the backup is asked when, and, *)
(* but for the stale errorno, only when, the common database could not take*)
(* the statement.                                                          *)
FailoverWhenDue == UnreachableFailsOver /\ BackupIsLastResort

Pending == at \in {"query", "connect", "count"}

(* What is left of the budget is what has not been attempted yet.          *)
BudgetKept ==
    Pending => /\ error_count <= MaxErrors[db]
               /\ attempts[db] = error_count + (IF at = "query" THEN 0 ELSE 1)

(* The backup is left alone until the common database has failed, and no   *)
(* proxy goes on after the statement was executed.                         *)
BackupUntouched == db = "common" => attempts["backup"] = 0 /\ executed["backup"] = 0
NotYetExecuted == Pending => executed[db] = 0
TrueOnlyAtEnd == result => at = "done"

(* An error left in errorno was met, and counted, on this database.        *)
ErrorIsOwn == at = "query" /\ error # 0 => error_count > 0

(* The inductive invariant.                                                *)
IInv == /\ TypeOK
        /\ InsertedAtMostOnce
        /\ AttemptsBounded
        /\ UnreachableFailsOver
        /\ BackupIsLastResort
        /\ BudgetKept
        /\ BackupUntouched
        /\ NotYetExecuted
        /\ TrueOnlyAtEnd
        /\ ErrorIsOwn

(* What a call has still to do at most. A round is one statement and, if   *)
(* there is no session, the attempts of one connect() and the counting of  *)
(* it; a database has as many rounds as are left of its budget, and one.   *)
RoundsLeft ==
    (MaxErrors[db] - error_count) + (IF db = "common" THEN MaxErrors["backup"] + 1 ELSE 0)

RoundLength == MaxTries + 3

LeftOfRound ==
    IF at = "query" THEN MaxTries + 2 ELSE IF at = "connect" THEN tries + 1 ELSE 1

StepsLeft == IF Pending THEN RoundLength * RoundsLeft + LeftOfRound ELSE 0

(* Whatever the servers answer, every step of a call brings it nearer to   *)
(* its end: lock errors, reconnections and the failover cannot feed each   *)
(* other.                                                                  *)
NearerToEnd == [][Step => StepsLeft' < StepsLeft]_vars

(* Every call returns.                                                     *)
CallReturns == (at = "query") ~> (at = "done")

C == INSTANCE DbCall WITH under_way <- Pending, answer <- result

(* However often the proxy tries and reconnects, its caller sees a single  *)
(* attempt on the common database and perhaps one on the backup.           *)
ImplementsDbCall == C!Spec
=============================================================================
