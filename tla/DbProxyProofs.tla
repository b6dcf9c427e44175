---------------------------- MODULE DbProxyProofs ----------------------------
(* Proofs about one call of the database layer, for every retry budget,    *)
(* every number of connection attempts and every behaviour of the servers. *)
EXTENDS DbProxy, TLAPS

(* At the end of the budget the proxy gives up: the container either       *)
(* starts on an untouched backup, or the call is over.                     *)
LEMMA GiveUpFacts ==
    ASSUME NEW e \in Errors, TypeOK, GiveUp(e)
    PROVE  /\ \/ /\ db = "common" /\ e \in {Locked, GoneAway}
                 /\ db' = "backup" /\ error_count' = 0 /\ error' = 0 /\ at' = "query"
              \/ /\ db = "backup" \/ e \notin {Locked, GoneAway}
                 /\ at' = "done" /\ error' = e /\ db' = db /\ error_count' = error_count
           /\ db' \in Databases /\ error' \in Errors /\ error_count' \in Nat
           /\ at' \in {"query", "done"}
  BY DEF GiveUp, FailoverErrors, Databases, TypeOK, Errors

(* The numbers are among those the code tells apart.                       *)
LEMMA ErrorNumbers == {0, Locked, Deadlock, GoneAway, Lost, Other} \subseteq Errors
  BY DEF Errors

(* Every step of the call keeps the types.                                 *)
LEMMA TypeStep == ASSUME TypeOK, [Next]_vars PROVE TypeOK'
<1> USE DEF TypeOK, proxy, call, effect, Databases
<1>1. ASSUME NEW k \in {"insert", "select"}, Call(k) PROVE TypeOK'
  BY <1>1 DEF Call, Errors, Zero
<1>2. CASE Succeed
  <2>1. error \in Errors /\ error_count' \in Nat /\ error' \in Errors
        /\ db' \in Databases /\ at' \in {"query", "done"}
    BY <1>2, GiveUpFacts DEF Succeed
  <2>2. result' \in BOOLEAN
    BY <1>2 DEF Succeed
  <2>3. /\ executed' = [executed EXCEPT ![db] = @ + 1]
        /\ attempts' = [attempts EXCEPT ![db] = @ + 1]
        /\ reached' = reached \cup {db}
        /\ session' = session /\ tries' = tries /\ kind' = kind
    BY <1>2 DEF Succeed, Attempted, Reached
  <2>4. QED
    BY <2>1, <2>2, <2>3
<1>3. ASSUME NEW e \in {Locked, Deadlock}, LockError(e) PROVE TypeOK'
  <2>1. error_count' \in Nat /\ error' \in Errors /\ db' \in Databases
        /\ at' \in {"query", "done"}
    BY <1>3, GiveUpFacts, ErrorNumbers DEF LockError
  <2>2. QED
    BY <1>3, <2>1 DEF LockError, Attempted, Reached
<1>4. CASE Reject
  <2>1. error_count' \in Nat /\ error' \in Errors /\ db' \in Databases
        /\ at' \in {"query", "done"}
    BY <1>4, GiveUpFacts, ErrorNumbers DEF Reject
  <2>2. QED
    BY <1>4, <2>1 DEF Reject, Attempted, Reached
<1>5. CASE LoseAnswer
  <2>1. error_count' \in Nat /\ error' \in Errors /\ db' \in Databases
        /\ at' \in {"query", "done"}
    BY <1>5, GiveUpFacts, ErrorNumbers DEF LoseAnswer
  <2>2. QED
    BY <1>5, <2>1 DEF LoseAnswer, Attempted, Reached
<1>6. CASE FindGone \/ FindLost
  <2>1. CASE FindGone
    BY <2>1, ProxyAssumption DEF FindGone, Attempted, Errors
  <2>2. CASE FindLost
    <3>1. error_count' \in Nat /\ error' \in Errors /\ db' \in Databases
          /\ at' \in {"query", "done"}
      BY <2>2, GiveUpFacts, ErrorNumbers DEF FindLost
    <3>2. QED
      BY <2>2, <3>1 DEF FindLost, Attempted
  <2>3. QED
    BY <1>6, <2>1, <2>2
<1>7. CASE Connect
  BY <1>7, ProxyAssumption DEF Connect
<1>8. CASE Count
  <2>1. error_count' \in Nat /\ error' \in Errors /\ db' \in Databases
        /\ at' \in {"query", "done"}
    <3>1. CASE GiveUp(GoneAway)
      BY <3>1, GiveUpFacts, ErrorNumbers
    <3>2. CASE ~GiveUp(GoneAway)
      BY <1>8, <3>2 DEF Count
    <3>3. QED
      BY <3>1, <3>2
  <2>2. QED
    BY <1>8, <2>1 DEF Count
<1>9. ASSUME NEW d \in Databases, ServerDrops(d) PROVE TypeOK'
  BY <1>9 DEF ServerDrops
<1>10. CASE UNCHANGED vars
  BY <1>10 DEF vars
<1>11. QED
  BY <1>1, <1>2, <1>3, <1>4, <1>5, <1>6, <1>7, <1>8, <1>9, <1>10 DEF Next, Step
-----------------------------------------------------------------------------
(* Everything the run checks, and what is left of the retry budgets.       *)
Accounts == /\ InsertedAtMostOnce
            /\ AttemptsBounded
            /\ UnreachableFailsOver
            /\ BackupIsLastResort
            /\ BudgetKept
            /\ BackupUntouched
            /\ NotYetExecuted
            /\ TrueOnlyAtEnd
            /\ ErrorIsOwn

(* Nothing has been attempted when a call begins.                          *)
LEMMA CallAccounts ==
    ASSUME TypeOK, NEW k \in {"insert", "select"}, Call(k)
    PROVE  Accounts'
<1>1. /\ at' = "query" /\ db' = "common" /\ error_count' = 0 /\ result' = FALSE
      /\ executed' = [d \in Databases |-> 0] /\ attempts' = [d \in Databases |-> 0]
      /\ error' = 0
  BY DEF Call, Zero
<1>2. MaxErrors["common"] \in Nat /\ MaxErrors["backup"] \in Nat
  BY ProxyAssumption DEF Databases
<1>3. QED
  BY <1>1, <1>2 DEF Accounts, InsertedAtMostOnce, AttemptsBounded, UnreachableFailsOver,
     BackupIsLastResort, BudgetKept, BackupUntouched, NotYetExecuted, TrueOnlyAtEnd,
     ErrorIsOwn, Pending, Databases

(* An attempt that the proxy does not end with, or that neither executes   *)
(* the statement nor ends the call, is paid from the budget of db.         *)
LEMMA SendAccounts ==
    ASSUME TypeOK, Accounts, at = "query", Attempted, UNCHANGED <<kind, result, executed>>,
           reached \subseteq reached',
           \/ /\ at' = "connect" /\ UNCHANGED <<db, error_count>>
           \/ /\ at' = "query" /\ error_count + 1 <= MaxErrors[db]
              /\ error_count' = error_count + 1 /\ db' = db
           \/ /\ at' = "done" /\ UNCHANGED <<db, error_count>> /\ (Reached \/ error' = Lost)
           \/ /\ db = "common" /\ db' = "backup" /\ error_count' = 0 /\ at' = "query"
              /\ error_count + 1 > MaxErrors[db] /\ error' = 0
    PROVE  Accounts'
<1>1. MaxErrors["common"] \in Nat /\ MaxErrors["backup"] \in Nat
  BY ProxyAssumption DEF Databases
<1>2. /\ executed["common"] \in Nat /\ executed["backup"] \in Nat
      /\ attempts["common"] \in Nat /\ attempts["backup"] \in Nat
      /\ db \in {"common", "backup"} /\ error_count \in Nat /\ kind \in {"insert", "select"}
  BY DEF TypeOK, Databases
<1>3. /\ error_count <= MaxErrors[db] /\ attempts[db] = error_count
      /\ attempts' = [attempts EXCEPT ![db] = error_count + 1]
  <2>1. BudgetKept /\ Pending
    BY DEF Accounts, Pending
  <2>2. error_count <= MaxErrors[db] /\ attempts[db] = error_count + 0
    BY <2>1 DEF BudgetKept
  <2>3. QED
    BY <1>2, <2>2 DEF Attempted
<1>4. /\ db = "common" => attempts'["backup"] = 0 /\ attempts'["common"] = error_count + 1
      /\ db = "backup" => attempts'["common"] = attempts["common"]
                          /\ attempts'["backup"] = error_count + 1
  BY <1>2, <1>3 DEF TypeOK, Databases, Accounts, BackupUntouched
<1>0. ~result
  BY DEF Accounts, TrueOnlyAtEnd
<1>5. InsertedAtMostOnce' /\ TrueOnlyAtEnd'
  BY <1>0 DEF Accounts, InsertedAtMostOnce, TrueOnlyAtEnd
<1>6. AttemptsBounded'
  BY <1>1, <1>2, <1>3, <1>4 DEF Accounts, AttemptsBounded, Databases
<1>7. UnreachableFailsOver'
  BY <1>2, <1>3 DEF UnreachableFailsOver, Reached
<1>8. BackupIsLastResort'
  BY <1>1, <1>2, <1>3, <1>4 DEF Accounts, BackupIsLastResort, NotYetExecuted, Pending
<1>9. BudgetKept'
  BY <1>1, <1>2, <1>3, <1>4 DEF BudgetKept, Pending
<1>10. BackupUntouched' /\ NotYetExecuted'
  BY <1>2, <1>4 DEF Accounts, BackupUntouched, NotYetExecuted, BackupIsLastResort, Pending
<1>11. ErrorIsOwn'
  BY <1>2 DEF ErrorIsOwn
<1>12. QED
  BY <1>5, <1>6, <1>7, <1>8, <1>9, <1>10, <1>11 DEF Accounts

(* Each way a call can move keeps the accounts. First the steps that send  *)
(* the statement and get an error for it.                                  *)
LEMMA ErrorAccounts ==
    ASSUME TypeOK, Accounts,
           \/ \E e \in {Locked, Deadlock} : LockError(e)
           \/ Reject \/ FindLost \/ FindGone
    PROVE  Accounts'
<1>1. at = "query" /\ Attempted /\ UNCHANGED <<kind, result, executed>>
      /\ reached \subseteq reached'
  BY DEF LockError, Reject, FindLost, FindGone, Reached, call
<1>2. ASSUME NEW e \in {Locked, Deadlock}, LockError(e) PROVE Accounts'
  <2>1. CASE error_count + 1 <= MaxErrors[db] /\ at' = at /\ db' = db
             /\ error_count' = error_count + 1
    BY <1>1, <2>1, SendAccounts
  <2>2. CASE error_count + 1 > MaxErrors[db] /\ GiveUp(e)
    <3>1. Reached
      BY <1>2 DEF LockError
    <3>2. QED
      BY <1>1, <2>2, <3>1, GiveUpFacts, ErrorNumbers, SendAccounts
  <2>3. QED
    BY <1>2, <2>1, <2>2 DEF LockError
<1>3. CASE Reject
  <2>1. at' = "done" /\ UNCHANGED <<db, error_count>> /\ Reached
    BY <1>3, GiveUpFacts, ErrorNumbers DEF Reject, Other, Locked, GoneAway
  <2>2. QED
    BY <1>1, <2>1, SendAccounts
<1>4. CASE FindGone
  BY <1>1, <1>4, SendAccounts DEF FindGone
<1>5. CASE FindLost
  <2>1. at' = "done" /\ UNCHANGED <<db, error_count>> /\ error' = Lost
    BY <1>5, GiveUpFacts, ErrorNumbers DEF FindLost, Lost, Locked, GoneAway
  <2>2. QED
    BY <1>1, <2>1, SendAccounts
<1>6. QED
  BY <1>2, <1>3, <1>4, <1>5

(* Then the two in which the server may have executed it: the call is over,*)
(* unless it was a select, passed on for an error it has met before.       *)
LEMMA AnsweredAccounts ==
    ASSUME TypeOK, Accounts, at = "query", Attempted, Reached, kind' = kind,
           executed' \in {executed, [executed EXCEPT ![db] = @ + 1]},
           \/ /\ at' = "done" /\ UNCHANGED <<db, error_count>>
              /\ result' => executed' = [executed EXCEPT ![db] = @ + 1]
           \/ /\ kind = "select" /\ ~result'
              /\ db = "common" /\ db' = "backup" /\ error_count' = 0 /\ at' = "query"
              /\ error_count > 0 /\ error' = 0
              /\ executed' = [executed EXCEPT ![db] = @ + 1]
    PROVE  Accounts'
<1>1. MaxErrors["common"] \in Nat /\ MaxErrors["backup"] \in Nat
  BY ProxyAssumption DEF Databases
<1>2. /\ executed["common"] \in Nat /\ executed["backup"] \in Nat
      /\ attempts["common"] \in Nat /\ attempts["backup"] \in Nat
      /\ db \in {"common", "backup"} /\ error_count \in Nat /\ kind \in {"insert", "select"}
      /\ executed \in [{"common", "backup"} -> Nat] /\ attempts \in [{"common", "backup"} -> Nat]
  BY DEF TypeOK, Databases
<1>3. error_count <= MaxErrors[db] /\ attempts[db] = error_count
  <2>1. BudgetKept /\ Pending
    BY DEF Accounts, Pending
  <2>2. error_count <= MaxErrors[db] /\ attempts[db] = error_count + 0
    BY <2>1 DEF BudgetKept
  <2>3. QED
    BY <1>2, <2>2
<1>4. attempts' = [attempts EXCEPT ![db] = error_count + 1]
  BY <1>3 DEF Attempted
<1>0. executed[db] = 0 /\ (db = "common" => executed["backup"] = 0)
  BY DEF Accounts, NotYetExecuted, Pending, BackupUntouched
<1>5. kind = "insert" => executed["common"] = 0 /\ executed["backup"] = 0
  BY <1>0, <1>2 DEF Accounts, BackupIsLastResort
<1>6. InsertedAtMostOnce'
  BY <1>2, <1>5 DEF InsertedAtMostOnce
<1>7. AttemptsBounded'
  BY <1>1, <1>2, <1>3, <1>4 DEF Accounts, AttemptsBounded, Databases
<1>8. UnreachableFailsOver'
  BY <1>2 DEF UnreachableFailsOver, Reached
<1>9. BackupIsLastResort'
  BY <1>0, <1>2, <1>4 DEF Accounts, BackupIsLastResort
<1>10. BackupUntouched'
  BY <1>2, <1>4 DEF Accounts, BackupUntouched
<1>11. BudgetKept'
  BY <1>1, <1>2, <1>4 DEF Accounts, BudgetKept, Pending, BackupUntouched
<1>12. NotYetExecuted' /\ TrueOnlyAtEnd' /\ ErrorIsOwn'
  BY <1>0, <1>2 DEF NotYetExecuted, TrueOnlyAtEnd, ErrorIsOwn, Pending
<1>13. QED
  BY <1>6, <1>7, <1>8, <1>9, <1>10, <1>11, <1>12 DEF Accounts

(* A select without a result set is the one success that is not the end.   *)
LEMMA SucceedAccounts == ASSUME TypeOK, Accounts, Succeed PROVE Accounts'
<1>1. /\ at = "query" /\ Attempted /\ Reached /\ kind' = kind
      /\ executed' = [executed EXCEPT ![db] = @ + 1]
  BY DEF Succeed
<1>2. CASE at' = "done" /\ UNCHANGED <<db, error_count>>
  BY <1>1, <1>2, AnsweredAccounts
<1>3. CASE kind = "select" /\ result' = FALSE /\ GiveUp(error)
  <2>1. error \in {Locked, GoneAway} => error_count > 0
    BY <1>1 DEF Accounts, ErrorIsOwn, Locked, GoneAway
  <2>2. QED
    BY <1>1, <1>3, <2>1, GiveUpFacts, AnsweredAccounts DEF TypeOK
<1>4. QED
  BY <1>2, <1>3 DEF Succeed

(* Error 2013 is not among those that are tried again.                     *)
LEMMA LoseAnswerAccounts == ASSUME TypeOK, Accounts, LoseAnswer PROVE Accounts'
<1>1. /\ at = "query" /\ Attempted /\ Reached /\ kind' = kind /\ result' = result
      /\ executed' \in {executed, [executed EXCEPT ![db] = @ + 1]}
  BY DEF LoseAnswer, call
<1>2. ~result'
  BY <1>1 DEF Accounts, TrueOnlyAtEnd
<1>3. at' = "done" /\ UNCHANGED <<db, error_count>>
  BY GiveUpFacts, ErrorNumbers DEF LoseAnswer, Lost, Locked, GoneAway
<1>4. QED
  BY <1>1, <1>2, <1>3, AnsweredAccounts

(* After the reconnection the attempt is counted; the last one on the      *)
(* common database is the first moment the backup is asked.                *)
LEMMA CountAccounts == ASSUME TypeOK, Accounts, Count PROVE Accounts'
<1>1. MaxErrors["common"] \in Nat /\ MaxErrors["backup"] \in Nat
  BY ProxyAssumption DEF Databases
<1>2. /\ attempts["common"] \in Nat /\ attempts["backup"] \in Nat
      /\ db \in {"common", "backup"} /\ error_count \in Nat
  BY DEF TypeOK, Databases
<1>3. /\ at = "count"
      /\ kind' = kind /\ result' = result /\ executed' = executed
      /\ attempts' = attempts /\ reached' = reached
  BY DEF Count, call, effect
<1>4. \/ /\ error_count + 1 <= MaxErrors[db]
         /\ error_count' = error_count + 1 /\ at' = "query" /\ db' = db
      \/ /\ error_count + 1 > MaxErrors[db]
         /\ \/ /\ db = "common" /\ db' = "backup" /\ error_count' = 0 /\ at' = "query"
               /\ error' = 0
            \/ db = "backup" /\ db' = db /\ at' = "done"
  BY GiveUpFacts, ErrorNumbers DEF Count
<1>5. error_count <= MaxErrors[db] /\ attempts[db] = error_count + 1
  <2>1. BudgetKept /\ Pending /\ at # "query"
    BY <1>3 DEF Accounts, Pending
  <2>2. QED
    BY <2>1 DEF BudgetKept
<1>6. ~result
  BY <1>3 DEF Accounts, TrueOnlyAtEnd
<1>7. InsertedAtMostOnce' /\ TrueOnlyAtEnd' /\ AttemptsBounded'
  BY <1>3, <1>6 DEF Accounts, InsertedAtMostOnce, TrueOnlyAtEnd, AttemptsBounded
<1>8. UnreachableFailsOver'
  BY <1>4 DEF UnreachableFailsOver
<1>9. BackupIsLastResort' /\ BackupUntouched' /\ NotYetExecuted'
  BY <1>1, <1>2, <1>3, <1>4, <1>5 DEF Accounts, BackupIsLastResort, BackupUntouched,
     NotYetExecuted, Pending
<1>10. BudgetKept'
  BY <1>1, <1>2, <1>3, <1>4, <1>5 DEF Accounts, BudgetKept, BackupUntouched, Pending
<1>11. ErrorIsOwn'
  BY <1>2, <1>4 DEF ErrorIsOwn
<1>12. QED
  BY <1>7, <1>8, <1>9, <1>10, <1>11 DEF Accounts
-----------------------------------------------------------------------------
(* No call has been made; the servers may be up or down.                   *)
LEMMA InitInv == Init => IInv
<1> SUFFICES ASSUME Init PROVE IInv
  OBVIOUS
<1>1. TypeOK
  <2>1. result \in BOOLEAN
    BY DEF Init
  <2>2. executed \in [Databases -> Nat] /\ attempts \in [Databases -> Nat]
    BY DEF Init, Zero
  <2>3. session \in [Databases -> {"up", "lost", "closed"}] /\ at = "idle" /\ db = "common"
        /\ kind \in {"insert", "select"} /\ reached = {}
        /\ error_count = 0 /\ tries = 0 /\ error = 0
    BY DEF Init
  <2>4. QED
    BY <2>1, <2>2, <2>3, ProxyAssumption, ErrorNumbers DEF TypeOK, Databases
<1>2. Accounts
  BY ProxyAssumption DEF Init, Accounts, InsertedAtMostOnce, AttemptsBounded,
     UnreachableFailsOver, BackupIsLastResort, BudgetKept, BackupUntouched, NotYetExecuted,
     TrueOnlyAtEnd, ErrorIsOwn, Pending, Databases, Zero
<1>3. QED
  BY <1>1, <1>2 DEF IInv, Accounts

(* One case per action.                                                    *)
LEMMA AccountsStep == ASSUME TypeOK, Accounts, [Next]_vars PROVE Accounts'
<1>1. CASE Connect
  BY <1>1 DEF Connect, Accounts, InsertedAtMostOnce, AttemptsBounded, UnreachableFailsOver,
     BackupIsLastResort, BudgetKept, BackupUntouched, NotYetExecuted, TrueOnlyAtEnd,
     ErrorIsOwn, Pending, call, effect
<1>2. CASE (\E d \in Databases : ServerDrops(d)) \/ UNCHANGED vars
  BY <1>2 DEF ServerDrops, vars, Accounts, InsertedAtMostOnce, AttemptsBounded,
     UnreachableFailsOver, BackupIsLastResort, BudgetKept, BackupUntouched, NotYetExecuted,
     TrueOnlyAtEnd, ErrorIsOwn, Pending, proxy, call, effect
<1>3. QED
  BY <1>1, <1>2, CallAccounts, ErrorAccounts, SucceedAccounts, LoseAnswerAccounts,
     CountAccounts DEF Next, Step

(* The accounts hold of every call, whatever the servers answer.           *)
THEOREM Invariance == Spec => []IInv
<1>1. IInv /\ [Next]_vars => IInv'
  BY TypeStep, AccountsStep DEF IInv, Accounts
<1>2. QED
  BY InitInv, <1>1, PTL DEF Spec

(* db_insert and db_query only ever use the error numbers and databases    *)
(* they know.                                                              *)
THEOREM TypeCorrect == Spec => []TypeOK
<1>1. IInv => TypeOK
  BY DEF IInv
<1>2. QED
  BY <1>1, Invariance, PTL

(* No retry, reconnection or failover executes an insert a second time,    *)
(* and TRUE is never answered for one that was not executed.               *)
THEOREM NoDoubleInsert == Spec => []InsertedAtMostOnce
<1>1. IInv => InsertedAtMostOnce
  BY DEF IInv
<1>2. QED
  BY <1>1, Invariance, PTL

(* Each database is sent the statement at most error_max_count + 1 times,  *)
(* lock errors and lost sessions taken together.                           *)
THEOREM RetriesBounded == Spec => []AttemptsBounded
<1>1. IInv => AttemptsBounded
  BY DEF IInv
<1>2. QED
  BY <1>1, Invariance, PTL

(* The container does not give up on a common database that it knows to be *)
(* unreachable without asking the backup, and the backup gets a statement  *)
(* only after the whole budget of the common database is spent on it in    *)
(* vain, or a select whose errorno is left over from an attempt before.    *)
THEOREM FailoverRight == Spec => []FailoverWhenDue
<1>1. IInv => FailoverWhenDue
  BY DEF IInv, FailoverWhenDue
<1>2. QED
  BY <1>1, Invariance, PTL
-----------------------------------------------------------------------------
(* The refinement. Tries, reconnections and their counts are stutters of   *)
(* the call; what a proxy gives up with moves it.                          *)
LEMMA Stutters ==
    ASSUME at \in {"query", "connect", "count"} <=> at' \in {"query", "connect", "count"},
           UNCHANGED <<db, kind, result, executed>>
    PROVE  UNCHANGED C!vars
<1>1. Pending' = Pending
  BY DEF Pending
<1>2. QED
  BY <1>1 DEF C!vars

(* A statement that was not executed, or that was a select, may be passed  *)
(* on to the backup; the end of a proxy's work without result is a failure.*)
LEMMA GiveUpIsAllowed ==
    ASSUME TypeOK, NEW e \in Errors, GiveUp(e), Pending, UNCHANGED <<kind, result>>,
           executed' \in {executed, [executed EXCEPT ![db] = @ + 1]},
           executed' = executed \/ kind = "select" \/ e \notin {Locked, GoneAway}
    PROVE  C!FailOver \/ C!Fail
<1>1. CASE db = "common" /\ e \in {Locked, GoneAway}
  <2>1. db' = "backup" /\ at' = "query"
    BY <1>1, GiveUpFacts
  <2>2. Pending' = Pending
    BY <2>1 DEF Pending
  <2>3. QED
    BY <1>1, <2>1, <2>2 DEF C!FailOver, C!Executed
<1>2. CASE ~(db = "common" /\ e \in {Locked, GoneAway})
  <2>1. db' = db /\ at' = "done"
    BY <1>2, GiveUpFacts
  <2>2. Pending' = FALSE
    BY <2>1 DEF Pending
  <2>3. QED
    BY <2>1, <2>2 DEF C!Fail, C!Executed
<1>3. QED
  BY <1>1, <1>2

LEMMA StepSimulates == IInv /\ [Next]_vars => [C!Next]_(C!vars)
<1> SUFFICES ASSUME IInv, [Next]_vars PROVE C!Next \/ UNCHANGED C!vars
  OBVIOUS
<1>0. TypeOK /\ (Pending => ~result)
  BY DEF IInv, TrueOnlyAtEnd, Pending
<1>1. ASSUME NEW k \in {"insert", "select"}, Call(k) PROVE C!Next
  <2>1. /\ ~Pending /\ Pending' = TRUE
        /\ kind' = k /\ db' = "common" /\ result' = FALSE /\ executed' = C!NoEffect
    BY <1>1 DEF Call, Pending, Zero, C!NoEffect, Databases
  <2>2. C!Begin(k)
    BY <2>1 DEF C!Begin
  <2>3. QED
    BY <2>2 DEF C!Next, C!Kinds
<1>2. CASE Succeed
  <2>1. /\ Pending /\ kind' = kind /\ executed' = [executed EXCEPT ![db] = @ + 1]
    BY <1>2 DEF Succeed, Pending
  <2>2. CASE result' = TRUE /\ at' = "done" /\ db' = db
    <3>1. Pending' = FALSE
      BY <2>2 DEF Pending
    <3>2. C!Answer
      BY <2>1, <2>2, <3>1 DEF C!Answer, C!Executed
    <3>3. QED
      BY <3>2 DEF C!Next
  <2>3. CASE kind = "select" /\ result' = FALSE /\ GiveUp(error)
    <3>1. result' = result /\ error \in Errors
      BY <1>0, <2>1, <2>3 DEF TypeOK
    <3>2. QED
      BY <1>0, <2>1, <2>3, <3>1, GiveUpIsAllowed DEF C!Next
  <2>4. QED
    BY <1>2, <2>2, <2>3 DEF Succeed
<1>3. ASSUME NEW e \in {Locked, Deadlock}, LockError(e) PROVE C!Next \/ UNCHANGED C!vars
  <2>1. Pending /\ at = "query" /\ UNCHANGED <<kind, result, executed>>
    BY <1>3 DEF LockError, Pending
  <2>2. CASE GiveUp(e)
    BY <1>0, <2>1, <2>2, GiveUpIsAllowed, ErrorNumbers DEF C!Next
  <2>3. CASE at' = at /\ db' = db
    BY <2>1, <2>3, Stutters
  <2>4. QED
    BY <1>3, <2>2, <2>3 DEF LockError
<1>4. CASE Reject
  BY <1>0, <1>4, GiveUpIsAllowed, ErrorNumbers DEF Reject, Pending, call, C!Next
<1>5. CASE LoseAnswer \/ FindLost
  <2>1. Lost \notin {Locked, GoneAway}
    BY DEF Lost, Locked, GoneAway
  <2>2. QED
    BY <1>0, <1>5, <2>1, GiveUpIsAllowed, ErrorNumbers
       DEF LoseAnswer, FindLost, Pending, call, C!Next
<1>6. CASE FindGone \/ Connect
  BY <1>6, Stutters DEF FindGone, Connect, call, effect
<1>7. CASE Count
  <2>1. Pending /\ at = "count" /\ UNCHANGED <<kind, result, executed>>
    BY <1>7 DEF Count, Pending, call, effect
  <2>2. CASE GiveUp(GoneAway)
    BY <1>0, <2>1, <2>2, GiveUpIsAllowed, ErrorNumbers DEF C!Next
  <2>3. CASE at' = "query" /\ db' = db
    BY <2>1, <2>3, Stutters
  <2>4. QED
    BY <1>7, <2>2, <2>3 DEF Count
<1>8. CASE (\E d \in Databases : ServerDrops(d)) \/ UNCHANGED vars
  BY <1>8, Stutters DEF ServerDrops, vars, proxy, call, effect
<1>9. QED
  BY <1>1, <1>2, <1>3, <1>4, <1>5, <1>6, <1>7, <1>8 DEF Next, Step

(* What a caller of db_insert or db_query sees is one attempt on the common*)
(* database and at most one on the backup, whatever the proxies go through *)
(* in between.                                                             *)
THEOREM Refinement == Spec => ImplementsDbCall
<1>1. Init => C!Init
  <2> SUFFICES ASSUME Init PROVE C!Init
    OBVIOUS
  <2>1. Pending = FALSE
    BY DEF Init, Pending
  <2>2. executed = C!NoEffect
    BY DEF Init, Zero, Databases, C!NoEffect
  <2>3. QED
    BY <2>1, <2>2 DEF Init, C!Init, C!Kinds
<1>2. QED
  BY <1>1, StepSimulates, Invariance, PTL DEF Spec, C!Spec, ImplementsDbCall

(* Of that abstract call alone, with no error numbers and no budgets:      *)
(* passing on what was not executed is enough for an insert never to take  *)
(* effect twice.                                                           *)
THEOREM CallInsertsOnce == C!Spec => [](executed \in [Databases -> Nat] /\ C!OnceAtMost)
<1> DEFINE I == executed \in [Databases -> Nat] /\ db \in Databases /\ C!OnceAtMost
<1> USE DEF Databases
<1>1. C!Init => I
  BY DEF C!Init, C!NoEffect, C!OnceAtMost
<1>2. I /\ [C!Next]_(C!vars) => I'
  <2> SUFFICES ASSUME I, [C!Next]_(C!vars) PROVE I'
    OBVIOUS
  <2>1. ASSUME NEW k \in C!Kinds, C!Begin(k) PROVE I'
    BY <2>1 DEF C!Begin, C!NoEffect, C!OnceAtMost
  <2>2. CASE C!FailOver
    BY <2>2 DEF C!FailOver, C!Executed, C!OnceAtMost
  <2>3. CASE C!Answer
    BY <2>3 DEF C!Answer, C!Executed, C!NoEffect, C!OnceAtMost
  <2>4. CASE C!Fail
    BY <2>4 DEF C!Fail, C!Executed, C!NoEffect, C!OnceAtMost
  <2>5. CASE UNCHANGED C!vars
    BY <2>5 DEF C!vars, C!OnceAtMost
  <2>6. QED
    BY <2>1, <2>2, <2>3, <2>4, <2>5 DEF C!Next
<1>3. QED
  BY <1>1, <1>2, PTL DEF C!Spec
-----------------------------------------------------------------------------
(* The end of a call. A round less outweighs all that a round may take.    *)
LEMMA RoundLess ==
    ASSUME NEW w \in Nat, NEW more \in Nat, NEW less \in Nat, less < more,
           NEW a \in Nat, NEW b \in 0..(w - 1)
    PROVE  w * less + b < w * more + a
<1>1. PICK d \in Nat : more = less + 1 + d
  <2>1. more - less - 1 \in Nat /\ more = less + 1 + (more - less - 1)
    OBVIOUS
  <2>2. QED
    BY <2>1
<1>2. w * more = w * less + w + w * d
  BY <1>1
<1>3. w * d \in Nat /\ w * less \in Nat
  OBVIOUS
<1>4. QED
  BY <1>2, <1>3

LEMMA SumLess ==
    ASSUME NEW r \in Nat, NEW a \in Nat, NEW b \in Nat, b < a
    PROVE  r + b < r + a
OBVIOUS

(* What is left is a number, of rounds and of steps in a round.            *)
WorkTyped ==
    /\ RoundLength \in Nat /\ LeftOfRound \in 1..(RoundLength - 1)
    /\ Pending => RoundsLeft \in Nat

LEMMA WorkLeft == IInv => WorkTyped
<1> SUFFICES ASSUME IInv PROVE WorkTyped
  OBVIOUS
<1>1. /\ MaxErrors["common"] \in Nat /\ MaxErrors["backup"] \in Nat /\ MaxTries \in Nat \ {0}
      /\ db \in {"common", "backup"} /\ error_count \in Nat /\ tries \in 0..MaxTries
  BY ProxyAssumption DEF IInv, TypeOK, Databases
<1>2. Pending => error_count <= MaxErrors[db]
  BY DEF IInv, BudgetKept
<1>3. RoundLength \in Nat /\ LeftOfRound \in 1..(RoundLength - 1)
  BY <1>1 DEF RoundLength, LeftOfRound
<1>4. Pending => RoundsLeft \in Nat
  BY <1>1, <1>2 DEF RoundsLeft
<1>5. QED
  BY <1>3, <1>4 DEF WorkTyped

LEMMA WorkLeftNext == IInv' => WorkTyped'
BY WorkLeft, PTL

(* A step that ends the call, one that ends a round, and one within it.    *)
LEMMA Nearer ==
    ASSUME IInv, IInv', Pending,
           \/ ~Pending'
           \/ Pending' /\ RoundsLeft' < RoundsLeft
           \/ Pending' /\ RoundsLeft' = RoundsLeft /\ LeftOfRound' < LeftOfRound
    PROVE  StepsLeft' < StepsLeft
<1>1. /\ RoundLength \in Nat /\ LeftOfRound \in 1..(RoundLength - 1) /\ RoundsLeft \in Nat
      /\ StepsLeft = RoundLength * RoundsLeft + LeftOfRound
  BY WorkLeft DEF WorkTyped, StepsLeft
<1>2. RoundLength * RoundsLeft \in Nat
  BY <1>1
<1>3. CASE ~Pending'
  BY <1>1, <1>2, <1>3 DEF StepsLeft
<1>4. CASE Pending'
  <2>1. /\ LeftOfRound' \in 1..(RoundLength - 1) /\ RoundsLeft' \in Nat
        /\ StepsLeft' = RoundLength * RoundsLeft' + LeftOfRound'
    <3>1. RoundLength' = RoundLength
      BY DEF RoundLength
    <3>2. LeftOfRound' \in 1..(RoundLength' - 1) /\ (Pending' => RoundsLeft' \in Nat)
      BY WorkLeftNext DEF WorkTyped
    <3>3. QED
      BY <1>4, <3>1, <3>2 DEF StepsLeft
  <2>2. CASE RoundsLeft' < RoundsLeft
    <3>1. LeftOfRound \in Nat /\ LeftOfRound' \in 0..(RoundLength - 1)
      BY <1>1, <2>1
    <3>2. QED
      BY <1>1, <2>1, <2>2, <3>1, RoundLess
  <2>3. CASE RoundsLeft' = RoundsLeft /\ LeftOfRound' < LeftOfRound
    <3>1. PICK r \in Nat : r = RoundLength * RoundsLeft
      BY <1>2
    <3>2. RoundLength * RoundsLeft' = r
      BY <2>3, <3>1
    <3>3. StepsLeft = r + LeftOfRound
      BY <1>1, <3>1
    <3>4. StepsLeft' = r + LeftOfRound'
      BY <2>1, <3>2
    <3>5. LeftOfRound \in Nat /\ LeftOfRound' \in Nat /\ LeftOfRound' < LeftOfRound
      BY <1>1, <2>1, <2>3
    <3>6. r + LeftOfRound' < r + LeftOfRound
      BY <3>5, SumLess
    <3>7. QED
      BY <3>3, <3>4, <3>6
  <2>4. QED
    BY <1>4, <2>2, <2>3
<1>5. QED
  BY <1>3, <1>4

(* Giving up ends the rounds of a database.                                *)
LEMMA GiveUpIsNearer ==
    ASSUME IInv, Pending, NEW e \in Errors, GiveUp(e)
    PROVE  ~Pending' \/ (Pending' /\ RoundsLeft' < RoundsLeft)
<1>1. MaxErrors["common"] \in Nat /\ MaxErrors["backup"] \in Nat
  BY ProxyAssumption DEF Databases
<1>2. error_count \in Nat /\ error_count <= MaxErrors[db]
  BY DEF IInv, TypeOK, BudgetKept
<1>3. CASE db = "common" /\ db' = "backup" /\ error_count' = 0 /\ at' = "query"
  BY <1>1, <1>2, <1>3 DEF RoundsLeft, Pending
<1>4. CASE at' = "done"
  BY <1>4 DEF Pending
<1>5. QED
  BY <1>3, <1>4, GiveUpFacts DEF IInv

(* A retry is a round less.                                                *)
LEMMA RetryIsNearer ==
    ASSUME IInv, Pending, db' = db, error_count' = error_count + 1
    PROVE  RoundsLeft' < RoundsLeft
<1>1. MaxErrors["common"] \in Nat /\ MaxErrors["backup"] \in Nat /\ db \in {"common", "backup"}
      /\ error_count \in Nat
  BY ProxyAssumption DEF Databases, IInv, TypeOK
<1>2. QED
  BY <1>1 DEF RoundsLeft

LEMMA StepIsNearer == ASSUME IInv, IInv', Step PROVE StepsLeft' < StepsLeft
<1>1. error \in Errors /\ MaxTries \in Nat \ {0} /\ tries \in 0..MaxTries
  BY ProxyAssumption DEF IInv, TypeOK
<1>2. Pending
  BY DEF Step, Pending, Succeed, LockError, Reject, LoseAnswer, FindLost,
         FindGone, Connect, Count
<1>3. CASE \/ at' = "done" \/ (\E e \in Errors : GiveUp(e))
  BY <1>2, <1>3, GiveUpIsNearer, Nearer DEF Pending
<1>4. CASE at' = "query" /\ db' = db /\ error_count' = error_count + 1
  BY <1>2, <1>4, RetryIsNearer, Nearer DEF Pending
<1>5. CASE FindGone
  <2>1. Pending' /\ RoundsLeft' = RoundsLeft
    BY <1>5 DEF FindGone, Pending, RoundsLeft
  <2>2. LeftOfRound' < LeftOfRound
    BY <1>1, <1>5 DEF FindGone, LeftOfRound
  <2>3. QED
    BY <1>2, <2>1, <2>2, Nearer
<1>6. CASE Connect
  <2>1. Pending' /\ RoundsLeft' = RoundsLeft
    BY <1>6 DEF Connect, Pending, RoundsLeft
  <2>2. LeftOfRound' < LeftOfRound
    BY <1>1, <1>6 DEF Connect, LeftOfRound
  <2>3. QED
    BY <1>2, <2>1, <2>2, Nearer
<1>7. CASE \/ Succeed \/ Reject \/ LoseAnswer \/ FindLost \/ Count
           \/ LockError(Locked) \/ LockError(Deadlock)
  BY <1>1, <1>3, <1>4, <1>7, ErrorNumbers
     DEF Succeed, Reject, LoseAnswer, FindLost, Count, LockError
<1>8. QED
  BY <1>5, <1>6, <1>7 DEF Step

(* The retry loops end: whatever the servers do between the steps of a     *)
(* call, it returns after at most StepsLeft of them, which the budgets and *)
(* the attempts of connect() bound.                                        *)
THEOREM CallEnds == Spec => NearerToEnd
<1>1. ASSUME IInv, IInv', [Next]_vars PROVE [Step => StepsLeft' < StepsLeft]_vars
  BY <1>1, StepIsNearer
<1>2. QED
  BY <1>1, Invariance, PTL DEF Spec, NearerToEnd
=============================================================================
