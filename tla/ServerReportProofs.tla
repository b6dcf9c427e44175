-------------------------- MODULE ServerReportProofs --------------------------
(* Proofs about the tables of SNMPDataDB::insert, for any reports about    *)
(* any partitions and finitely many disks, in any order and with a fault   *)
(* at any statement.                                                       *)
EXTENDS ServerReport, FiniteSetTheorems, TLAPS

(* What has been achieved for a list, and for a report, that is stored     *)
(* without fault.                                                          *)
ListDone(l) ==
    /\ report.named[l] \subseteq Rows(l)
    /\ clean >= 1 \/ inserted = "online" => report.named[l] \subseteq Online(l)
    /\ clean >= 1 => FewGhosts(l)

Complete ==
    /\ PartitionsStored
    /\ report.raid => \A l \in Lists : ListDone(l)

(* A report says how many disks there are.                                 *)
LEMMA ReportTypes ==
    ASSUME TypeOK, NEW l \in Lists
    PROVE  /\ report \in ReportType
           /\ report.named[l] \subseteq Disks /\ IsFiniteSet(report.named[l])
           /\ report.unnamed[l] \in Nat
           /\ Cardinality(report.named[l]) \in Nat
           /\ Size(l) = Cardinality(report.named[l]) + report.unnamed[l]
           /\ Size(l) \in Nat
<1>1. report \in ReportType
  BY ReportAssumption DEF TypeOK
<1>2. report.named[l] \in SUBSET Disks /\ report.unnamed[l] \in Nat
  BY <1>1 DEF ReportType
<1>3. IsFiniteSet(report.named[l]) /\ Cardinality(report.named[l]) \in Nat
  BY <1>2, ReportAssumption, FS_Subset, FS_CardinalityType
<1>4. QED
  BY <1>1, <1>2, <1>3 DEF Size

(* An empty list has no disks to store.                                    *)
LEMMA EmptyListDone ==
    ASSUME TypeOK, NEW l \in Lists, Size(l) = 0
    PROVE  ListDone(l)
<1>1. Cardinality(report.named[l]) = 0 /\ IsFiniteSet(report.named[l])
  BY ReportTypes
<1>2. report.named[l] = {}
  BY <1>1, FS_EmptySet
<1>3. QED
  BY <1>2 DEF ListDone, FewGhosts

(* Same rows, same report.                                                 *)
LEMMA SameRows ==
    ASSUME status' = status, report' = report, NEW l \in Lists
    PROVE  /\ Rows(l)' = Rows(l) /\ Online(l)' = Online(l)
           /\ Size(l)' = Size(l) /\ FewGhosts(l)' = FewGhosts(l)
BY DEF Rows, Online, Size, FewGhosts

(* After a crash nothing is claimed.                                       *)
LEMMA CrashKeeps ==
    ASSUME Crash
    PROVE  PartitionsKept' /\ RowsKept' /\ OnlineKept' /\ GhostsKept'
BY DEF Crash, PartitionsKept, RowsKept, OnlineKept, GhostsKept

(* insert returns from a report that is complete, or had a fault.          *)
LEMMA FinishKeeps ==
    ASSUME TypeOK, TypeOK', Finish, UNCHANGED <<storage, status, inserted>>,
           ~faulty' => Complete
    PROVE  PartitionsKept' /\ RowsKept' /\ OnlineKept' /\ GhostsKept'
<1>1. /\ at' = "idle" /\ report' = report
      /\ clean' = IF faulty' THEN 0 ELSE IF clean = 0 THEN 1 ELSE 2
  BY DEF Finish
<1>2. clean' >= 1 => ~faulty'
  BY <1>1
<1>3. clean \in 0..2 /\ (clean' = 2 => clean >= 1)
  BY <1>1 DEF TypeOK
<1>4. PartitionsStored' = PartitionsStored
  BY <1>1 DEF PartitionsStored
<1>5. PartitionsKept'
  BY <1>1, <1>2, <1>4 DEF PartitionsKept, Complete
<1>6. \A l \in Lists : SoFar(l)' = {} /\ ~Behind(l)'
  BY <1>1 DEF SoFar, Behind
<1>7. RowsKept'
  BY <1>1, <1>2, <1>6, SameRows DEF RowsKept, Complete, ListDone
<1>8. OnlineKept'
  <2>1. clean' \in {0, 1, 2} /\ inserted' = inserted
    BY <1>1
  <2>2. ASSUME report'.raid, clean' >= (IF inserted' = "online" THEN 1 ELSE 2)
        PROVE  \A l \in Lists : (report.named[l] \subseteq Online(l))'
    <3>1. ~faulty' /\ report.raid
      BY <1>1, <1>2, <2>1, <2>2
    <3>2. clean >= 1 \/ inserted = "online"
      BY <1>3, <2>1, <2>2
    <3>3. QED
      BY <1>1, <3>1, <3>2, SameRows DEF Complete, ListDone
  <2>3. QED
    BY <1>6, <2>2 DEF OnlineKept
<1>9. GhostsKept'
  BY <1>1, <1>2, <1>3, <1>6, SameRows DEF GhostsKept, Complete, ListDone
<1>10. QED
  BY <1>5, <1>7, <1>8, <1>9

(* Going on to the virtual disks once the physical ones are done.          *)
LEMMA EnterVdKeeps ==
    ASSUME IInv, TypeOK', EnterVd, UNCHANGED <<storage, status, inserted>>,
           report.raid, ~faulty' => PartitionsStored /\ ListDone("pd")
    PROVE  PartitionsKept' /\ RowsKept' /\ OnlineKept' /\ GhostsKept'
<1>1. CASE Size("vd") > 0 /\ Goto("count", "vd", {})
  <2>1. /\ at' = "count" /\ list' = "vd" /\ todo' = {}
        /\ report' = report /\ clean' = clean
    BY <1>1 DEF Goto
  <2>2. PartitionsStored' = PartitionsStored
    BY <2>1 DEF PartitionsStored
  <2>3. PartitionsKept'
    BY <2>1, <2>2 DEF PartitionsKept
  <2>4. \A l \in Lists : /\ Behind(l)' <=> l = "pd"
                         /\ SoFar(l)' = IF l = "pd" THEN report.named[l] ELSE {}
    BY <2>1 DEF SoFar, Behind
  <2>5. RowsKept'
    BY <2>1, <2>4, SameRows DEF IInv, RowsKept, ListDone
  <2>6. OnlineKept'
    BY <2>1, <2>4, SameRows DEF IInv, OnlineKept, ListDone
  <2>7. GhostsKept'
    BY <2>1, <2>4, SameRows DEF IInv, GhostsKept, ListDone
  <2>8. QED
    BY <2>3, <2>5, <2>6, <2>7
<1>2. CASE Size("vd") = 0 /\ Finish
  <2>1. ListDone("vd")
    BY <1>2, EmptyListDone DEF IInv, Lists
  <2>2. ~faulty' => Complete
    BY <2>1 DEF Complete, Lists
  <2>3. QED
    BY <1>2, <2>2, FinishKeeps DEF IInv
<1>3. QED
  BY <1>1, <1>2 DEF EnterVd
-----------------------------------------------------------------------------
LEMMA InitInv == Init => IInv
<1> SUFFICES ASSUME Init PROVE IInv
  OBVIOUS
<1>1. TypeOK
  <2>1. status \in [Lists -> [Disks -> {"absent", "offline", "online"}]]
    BY DEF Init
  <2>2. faulty \in BOOLEAN /\ ssd_avai \in BOOLEAN
    BY DEF Init
  <2>3. clean \in 0..2 /\ list \in Lists
    BY DEF Init, Lists
  <2>4. QED
    BY <2>1, <2>2, <2>3 DEF Init, TypeOK
<1>2. PartitionsKept /\ RowsKept /\ OnlineKept /\ GhostsKept
  BY DEF Init, PartitionsKept, RowsKept, OnlineKept, GhostsKept, SoFar, Behind
<1>3. QED
  BY <1>1, <1>2 DEF IInv
-----------------------------------------------------------------------------
(* What is accounted for is a Boolean, and a fault is remembered.          *)
LEMMA Accounted ==
    ASSUME TypeOK, NEW o \in Outcomes, Account(o)
    PROVE  /\ faulty' \in BOOLEAN
           /\ ~faulty' => ~faulty /\ o = "ok"
BY DEF TypeOK, Account

(* Types, once the rows are known to be right.                             *)
LEMMA TypesKept ==
    ASSUME TypeOK, faulty' \in BOOLEAN, storage' \subseteq Partitions,
           status' \in [Lists -> [Disks -> {"absent", "offline", "online"}]],
           ssd_avai' \in BOOLEAN, UNCHANGED <<inserted, report>>,
           \/ Crash
           \/ Finish
           \/ report.raid /\ (EnterPd \/ EnterVd)
    PROVE  TypeOK'
<1>1. /\ report \in Reports /\ report' = report /\ clean \in 0..2
      /\ inserted' \in {"offline", "online"}
  BY DEF TypeOK
<1>2. CASE Crash
  BY <1>1, <1>2 DEF Crash, TypeOK, Lists
<1>3. CASE Finish
  <2>1. at' = "idle" /\ list' \in Lists /\ clean' \in 0..2
    BY <1>3 DEF Finish, Lists
  <2>2. QED
    BY <1>1, <2>1 DEF TypeOK
<1>4. CASE report.raid /\ (EnterPd \/ EnterVd)
  <2>1. CASE \E l \in Lists : Goto("count", l, {})
    <3>1. at' = "count" /\ list' \in Lists /\ clean' \in 0..2 /\ report'.raid
      BY <1>1, <1>4, <2>1 DEF Goto
    <3>2. QED
      BY <1>1, <3>1 DEF TypeOK
  <2>2. QED
    BY <1>3, <1>4, <2>1 DEF EnterPd, EnterVd, Lists
<1>5. QED
  BY <1>2, <1>3, <1>4

(* A new report claims nothing of the rows yet; one that equals the last   *)
(* finds what that one has left.                                           *)
LEMMA BeginStep == ASSUME IInv, NEW r \in Reports, Begin(r) PROVE IInv'
<1> USE DEF IInv
<1>1. /\ at = "idle" /\ at' \in {"perform", "raid"} /\ list' = "pd" /\ todo' = {}
      /\ report' = r /\ clean' = (IF r = report THEN clean ELSE 0) /\ faulty' = FALSE
      /\ UNCHANGED <<storage, status, ssd_avai, inserted>>
      /\ (at' = "raid" => ~r.proc)
  BY DEF Begin, db
<1>2. TypeOK'
  <2>1. faulty' \in BOOLEAN
    BY <1>1
  <2>2. clean' \in 0..2 /\ list' \in Lists
    BY <1>1 DEF TypeOK, Lists
  <2>3. QED
    BY <1>1, <2>1, <2>2 DEF TypeOK
<1>3. PartitionsKept'
  BY <1>1 DEF PartitionsKept, PartitionsStored
<1>4. \A l \in Lists : SoFar(l)' = {} /\ ~Behind(l)'
  BY <1>1 DEF SoFar, Behind
<1>5. RowsKept'
  <2>1. ASSUME clean' >= 1 PROVE report' = report /\ clean' = clean
    BY <1>1, <2>1
  <2>2. QED
    BY <1>1, <1>4, <2>1, SameRows DEF RowsKept
<1>6. OnlineKept' /\ GhostsKept'
  BY <1>1, <1>4 DEF OnlineKept, GhostsKept
<1>7. QED
  BY <1>2, <1>3, <1>5, <1>6

(* The partitions before the disks: no row of a disk changes.              *)
LEMMA BeforeDisks ==
    ASSUME IInv, UNCHANGED <<status, inserted, report, clean>>,
           at' \in {"perform", "partitions", "raid"}
    PROVE  RowsKept' /\ OnlineKept' /\ GhostsKept'
<1>1. \A l \in Lists : SoFar(l)' = {} /\ ~Behind(l)'
  BY DEF SoFar, Behind
<1>2. RowsKept'
  BY <1>1, SameRows DEF IInv, RowsKept
<1>3. OnlineKept' /\ GhostsKept'
  BY <1>1 DEF OnlineKept, GhostsKept
<1>4. QED
  BY <1>2, <1>3

LEMMA PerformStep == ASSUME IInv, Perform PROVE IInv'
<1> USE DEF IInv
<1>1. UNCHANGED <<storage, status, ssd_avai, inserted>>
  BY DEF Perform, db
<1>2. CASE Crash
  BY <1>1, <1>2, CrashKeeps, TypesKept DEF Crash, TypeOK
<1>3. CASE Goto("partitions", "pd", report.partitions) /\ \E o \in Outcomes : Account(o)
  <2>1. faulty' \in BOOLEAN
    BY <1>3, Accounted
  <2>2. /\ at' = "partitions" /\ list' = "pd" /\ todo' = report.partitions
        /\ UNCHANGED <<report, clean>>
    BY <1>3 DEF Goto
  <2>3. TypeOK'
    BY <1>1, <2>1, <2>2 DEF TypeOK, Lists
  <2>4. PartitionsKept'
    BY <2>2 DEF PartitionsKept
  <2>5. QED
    BY <1>1, <2>2, <2>3, <2>4, BeforeDisks
<1>4. QED
  BY <1>2, <1>3 DEF Perform

LEMMA PartitionStep == ASSUME IInv, NEW p \in Partitions, Partition(p) PROVE IInv'
<1> USE DEF IInv
<1>1. /\ at = "partitions" /\ p \in todo /\ UNCHANGED <<status, ssd_avai, inserted>>
      /\ storage' \subseteq Partitions
  BY DEF Partition, TypeOK
<1>2. CASE Crash
  BY <1>1, <1>2, CrashKeeps, TypesKept DEF Crash, TypeOK
<1>3. ASSUME NEW o \in Outcomes, Account(o), Goto(at, list, todo \ {p}),
             storage' = IF o = "failed" THEN storage ELSE storage \cup {p}
      PROVE  IInv'
  <2>1. faulty' \in BOOLEAN /\ (~faulty' => ~faulty /\ o = "ok")
    BY <1>3, Accounted
  <2>2. /\ at' = "partitions" /\ list' = list /\ todo' = todo \ {p}
        /\ UNCHANGED <<report, clean>>
    BY <1>1, <1>3 DEF Goto
  <2>3. TypeOK'
    BY <1>1, <2>1, <2>2 DEF TypeOK
  <2>4. PartitionsKept'
    <3>1. ~faulty => report.partitions \ todo \subseteq storage
      BY <1>1 DEF PartitionsKept
    <3>2. ASSUME ~faulty' PROVE report.partitions \ (todo \ {p}) \subseteq storage'
      BY <1>3, <2>1, <3>1, <3>2
    <3>3. QED
      BY <2>2, <3>2 DEF PartitionsKept
  <2>5. QED
    BY <1>1, <2>2, <2>3, <2>4, BeforeDisks
<1>4. QED
  BY <1>2, <1>3 DEF Partition

(* Once all partitions are there, those that were not reported go.         *)
LEMMA PruneStep == ASSUME IInv, Prune PROVE IInv'
<1> USE DEF IInv
<1>1. /\ at = "partitions" /\ todo = {} /\ UNCHANGED <<status, ssd_avai, inserted>>
      /\ at' = "raid" /\ list' = "pd" /\ todo' = {} /\ UNCHANGED <<report, clean>>
  BY DEF Prune, Goto
<1>2. ~faulty => report.partitions \subseteq storage
  BY <1>1 DEF PartitionsKept
<1>3. /\ faulty' \in BOOLEAN /\ storage' \subseteq Partitions
      /\ ~faulty' => PartitionsStored'
  <2>1. CASE /\ ~report.ragged /\ report.partitions # {}
             /\ \E o \in Outcomes :
                   /\ Account(o)
                   /\ storage' = IF o = "failed" THEN storage ELSE Pruned
    <3>1. PICK o \in Outcomes : /\ Account(o)
                                /\ storage' = IF o = "failed" THEN storage ELSE Pruned
      BY <2>1
    <3>2. faulty' \in BOOLEAN /\ (~faulty' => ~faulty /\ o = "ok")
      BY <3>1, Accounted
    <3>3. storage' \subseteq Partitions
      BY <3>1 DEF TypeOK, Pruned
    <3>4. ~faulty' => storage' = report.partitions
      BY <1>2, <3>1, <3>2 DEF Pruned
    <3>5. QED
      BY <1>1, <3>2, <3>3, <3>4 DEF PartitionsStored
  <2>2. CASE /\ report.ragged \/ report.partitions = {}
             /\ UNCHANGED <<storage, faulty>>
    BY <1>1, <1>2, <2>2 DEF TypeOK, PartitionsStored
  <2>3. QED
    BY <2>1, <2>2 DEF Prune
<1>4. TypeOK'
  BY <1>1, <1>3 DEF TypeOK, Lists
<1>5. PartitionsKept'
  BY <1>1, <1>3 DEF PartitionsKept
<1>6. QED
  BY <1>1, <1>4, <1>5, BeforeDisks
-----------------------------------------------------------------------------
(* The step from the partitions to the first disk list.                    *)
LEMMA RaidStep == ASSUME IInv, Raid PROVE IInv'
<1> USE DEF IInv
<1>1. at = "raid" /\ UNCHANGED <<storage, status, ssd_avai, inserted>>
  BY DEF Raid, db
<1>2. ~faulty => PartitionsStored
  BY <1>1 DEF PartitionsKept
<1>3. CASE ~report.raid /\ UNCHANGED faulty /\ Finish
  <2>1. ~faulty' => Complete
    BY <1>2, <1>3 DEF Complete
  <2>2. TypeOK'
    BY <1>1, <1>3, TypesKept DEF TypeOK, Finish
  <2>3. QED
    BY <1>1, <1>3, <2>1, <2>2, FinishKeeps
<1>4. CASE report.raid /\ (\E o \in Outcomes : Account(o)) /\ EnterPd
  <2>1. faulty' \in BOOLEAN /\ (~faulty' => ~faulty)
    BY <1>4, Accounted
  <2>2. UNCHANGED report
    BY <1>4 DEF EnterPd, EnterVd, Goto, Finish
  <2>3. TypeOK'
    BY <1>1, <1>4, <2>1, <2>2, TypesKept DEF TypeOK
  <2>4. CASE Size("pd") = 0 /\ EnterVd
    <3>1. ListDone("pd")
      BY <2>4, EmptyListDone DEF Lists
    <3>2. QED
      BY <1>1, <1>2, <1>4, <2>1, <2>3, <2>4, <3>1, EnterVdKeeps
  <2>5. CASE Size("pd") > 0 /\ Goto("count", "pd", {})
    <3>1. /\ at' = "count" /\ list' = "pd" /\ todo' = {}
          /\ report' = report /\ clean' = clean
      BY <2>5 DEF Goto
    <3>2. PartitionsKept'
      BY <1>1, <1>2, <2>1, <3>1 DEF PartitionsKept, PartitionsStored
    <3>3. \A l \in Lists : SoFar(l)' = {} /\ ~Behind(l)'
      BY <3>1 DEF SoFar, Behind
    <3>4. RowsKept'
      BY <1>1, <3>1, <3>3, SameRows DEF RowsKept
    <3>5. OnlineKept' /\ GhostsKept'
      BY <3>1, <3>3 DEF OnlineKept, GhostsKept
    <3>6. QED
      BY <2>3, <3>2, <3>4, <3>5
  <2>6. QED
    BY <1>4, <2>4, <2>5 DEF EnterPd
<1>5. CASE report.raid /\ Crash
  BY <1>1, <1>5, CrashKeeps, TypesKept DEF Crash, TypeOK
<1>6. QED
  BY <1>3, <1>4, <1>5 DEF Raid
-----------------------------------------------------------------------------
(* If the table has no more rows than there are disks, and one for each    *)
(* with a name, the rows in excess are no more than the disks without.     *)
LEMMA ExcessIsUnnamed ==
    ASSUME TypeOK, NEW l \in Lists, report.named[l] \subseteq Rows(l),
           Cardinality(Rows(l)) <= Size(l)
    PROVE  FewGhosts(l)
<1> DEFINE named == report.named[l]
           excess == Rows(l) \ named
<1>1. IsFiniteSet(Rows(l)) /\ Cardinality(Rows(l)) \in Nat
  <2>1. Rows(l) \in SUBSET Disks
    BY DEF Rows
  <2>2. QED
    BY <2>1, ReportAssumption, FS_Subset, FS_CardinalityType
<1>2. Rows(l) \cap named = named
  OBVIOUS
<1>3. IsFiniteSet(excess) /\ Cardinality(excess) = Cardinality(Rows(l)) - Cardinality(named)
  BY <1>1, <1>2, FS_Difference
<1>4. Cardinality(excess) <= report.unnamed[l] /\ Cardinality(excess) \in Nat
  BY <1>1, <1>3, ReportTypes, FS_CardinalityType
<1>5. Online(l) \ named \in SUBSET excess
  BY DEF Online, Rows
<1>6. Cardinality(Online(l) \ named) <= Cardinality(excess)
         /\ Cardinality(Online(l) \ named) \in Nat
  BY <1>3, <1>5, FS_Subset, FS_CardinalityType
<1>7. report.unnamed[l] \in Nat
  BY ReportTypes
<1>8. QED
  BY <1>4, <1>6, <1>7 DEF FewGhosts

LEMMA CountRowsStep == ASSUME IInv, CountRows PROVE IInv'
<1> USE DEF IInv
<1>1. at = "count" /\ list \in Lists /\ report.raid /\ UNCHANGED <<storage, status, ssd_avai, inserted>>
  BY DEF CountRows, db, TypeOK
<1>2. CASE faulty' = TRUE /\ Finish
  <2>1. faulty' \in BOOLEAN
    BY <1>2
  <2>2. TypeOK'
    BY <1>1, <1>2, <2>1, TypesKept DEF TypeOK, Finish
  <2>3. QED
    BY <1>1, <1>2, <2>2, FinishKeeps
<1>3. CASE /\ UNCHANGED faulty
           /\ Goto(IF Fewer(Cardinality(Rows(list))) THEN "mark" ELSE "disks", list, ToStore)
  <2>1. /\ at' = IF Fewer(Cardinality(Rows(list))) THEN "mark" ELSE "disks"
        /\ list' = list /\ todo' = ToStore
        /\ report' = report /\ clean' = clean /\ faulty' = faulty
    BY <1>3 DEF Goto
  <2>2. ToStore' = ToStore
    BY <2>1 DEF ToStore
  <2>3. TypeOK'
    BY <1>1, <2>1, <2>2 DEF TypeOK
  <2>4. PartitionsKept'
    BY <1>1, <2>1 DEF PartitionsKept, PartitionsStored
  <2>5. \A l \in Lists : SoFar(l)' = SoFar(l) /\ (Behind(l)' <=> Behind(l))
    BY <1>1, <2>1, <2>2 DEF SoFar, Behind
  <2>6. RowsKept'
    BY <1>1, <2>1, <2>5, SameRows DEF RowsKept
  <2>7. OnlineKept'
    BY <1>1, <2>1, <2>5, SameRows DEF OnlineKept
  <2>8. GhostsKept'
    <3>1. ASSUME ~faulty, clean >= 1, at' = "disks" PROVE FewGhosts(list)
      <4>1. report.named[list] \subseteq Rows(list)
        BY <1>1, <3>1 DEF RowsKept
      <4>2. IsFiniteSet(Rows(list)) /\ Cardinality(Rows(list)) \in Nat
        <5>1. Rows(list) \in SUBSET Disks
          BY DEF Rows
        <5>2. QED
          BY <5>1, ReportAssumption, FS_Subset, FS_CardinalityType
      <4>3. Cardinality(Rows(list)) <= Size(list)
        BY <1>1, <2>1, <3>1, <4>2, ReportTypes DEF Fewer
      <4>4. QED
        BY <1>1, <4>1, <4>3, ExcessIsUnnamed
    <3>2. FewGhosts(list)' <=> FewGhosts(list)
      BY <1>1, <2>1 DEF FewGhosts, Size, Online
    <3>3. QED
      BY <1>1, <2>1, <2>5, <3>1, <3>2, SameRows DEF GhostsKept
  <2>9. QED
    BY <2>3, <2>4, <2>6, <2>7, <2>8
<1>4. QED
  BY <1>2, <1>3 DEF CountRows

(* Whoever had a row has one, and nobody of the list is online.            *)
LEMMA MarkOfflineStep == ASSUME IInv, MarkOffline PROVE IInv'
<1> USE DEF IInv
<1>1. /\ at = "mark" /\ list \in Lists /\ todo = ToStore
      /\ UNCHANGED <<storage, ssd_avai, inserted>>
      /\ at' = "disks" /\ list' = list /\ todo' = todo /\ UNCHANGED <<report, clean>>
  BY DEF MarkOffline, Goto, TypeOK
<1>2. PICK o \in Outcomes :
        /\ Account(o)
        /\ status' = IF o = "failed" THEN status
                     ELSE [status EXCEPT ![list] =
                             [i \in Disks |-> IF i \in Rows(list) THEN "offline" ELSE "absent"]]
  BY DEF MarkOffline
<1>3. faulty' \in BOOLEAN /\ (~faulty' => ~faulty /\ o = "ok")
  BY <1>2, Accounted
<1>4. status' \in [Lists -> [Disks -> {"absent", "offline", "online"}]]
  BY <1>1, <1>2 DEF TypeOK
<1>5. ToStore' = ToStore
  BY <1>1 DEF ToStore
<1>6. TypeOK'
  BY <1>1, <1>3, <1>4, <1>5 DEF TypeOK
<1>7. PartitionsKept'
  BY <1>1, <1>3 DEF PartitionsKept, PartitionsStored
<1>8. \A l \in Lists : SoFar(l)' = SoFar(l) /\ (Behind(l)' <=> Behind(l))
  BY <1>1, <1>5 DEF SoFar, Behind
<1>9. \A l \in Lists : l # list => status'[l] = status[l]
  BY <1>2 DEF TypeOK
<1>10. \A l \in Lists : Rows(l)' = Rows(l)
  BY <1>1, <1>2 DEF TypeOK, Rows
<1>11. \A l \in Lists : l # list => Online(l)' = Online(l) /\ FewGhosts(l)' = FewGhosts(l)
  BY <1>1, <1>9 DEF Online, FewGhosts, Size
<1>12. \A l \in Lists : l = list => SoFar(l) = {} /\ ~Behind(l)
  BY <1>1 DEF SoFar, Behind
<1>13. RowsKept'
  BY <1>1, <1>3, <1>8, <1>10 DEF RowsKept
<1>14. OnlineKept'
  BY <1>1, <1>3, <1>8, <1>11, <1>12 DEF OnlineKept
<1>15. GhostsKept'
  <2>1. ASSUME ~faulty' PROVE FewGhosts(list)'
    <3>1. Online(list)' = {}
      BY <1>1, <1>2, <1>3, <2>1 DEF TypeOK, Online
    <3>2. (Cardinality(Online(list) \ report.named[list]) = 0)'
      <4>1. Online(list)' \ report'.named[list'] = {}
        BY <1>1, <3>1
      <4>2. QED
        BY <4>1, FS_EmptySet
    <3>3. report'.unnamed[list'] \in Nat
      BY <1>1, ReportTypes
    <3>4. QED
      BY <3>2, <3>3 DEF FewGhosts
  <2>2. QED
    BY <1>1, <1>3, <1>8, <1>11, <1>12, <2>1 DEF GhostsKept
<1>16. QED
  BY <1>6, <1>7, <1>13, <1>14, <1>15

(* Storing one disk of the list under way.                                 *)
LEMMA DiskStored ==
    ASSUME IInv, NEW i \in todo, at = "disks", list \in Lists, i \in Disks,
           UNCHANGED <<inserted, report, list>>,
           status' = [status EXCEPT ![list][i] = Stored(i)]
    PROVE  /\ status' \in [Lists -> [Disks -> {"absent", "offline", "online"}]]
           /\ \A l \in Lists : Rows(l) \subseteq Rows(l)' /\ Online(l) \subseteq Online(l)'
           /\ \A l \in Lists : l # list => Rows(l)' = Rows(l) /\ Online(l)' = Online(l)
           /\ i \in Rows(list)'
           /\ clean >= 1 \/ inserted = "online" => i \in Online(list)'
           /\ (Online(list) \ report.named[list])' = Online(list) \ report.named[list]
<1> USE DEF IInv
<1>1. status \in [Lists -> [Disks -> {"absent", "offline", "online"}]]
         /\ inserted \in {"offline", "online"} /\ i \in report.named[list]
  BY DEF TypeOK, ToStore
<1>2. Stored(i) = IF status[list][i] = "absent" THEN inserted ELSE "online"
  BY DEF Stored
<1>3. /\ \A l \in Lists : l # list => status'[l] = status[l]
      /\ \A j \in Disks : status'[list][j] = IF j = i THEN Stored(i) ELSE status[list][j]
      /\ status' \in [Lists -> [Disks -> {"absent", "offline", "online"}]]
  BY <1>1, <1>2
<1>4. i \in Rows(list)'
  BY <1>1, <1>2, <1>3 DEF Rows
<1>5. \A l \in Lists : l # list => Rows(l)' = Rows(l) /\ Online(l)' = Online(l)
  BY <1>3 DEF Rows, Online
<1>6. Rows(list) \subseteq Rows(list)' /\ Online(list) \subseteq Online(list)'
  BY <1>1, <1>2, <1>3 DEF Rows, Online
<1>7. clean >= 1 \/ inserted = "online" => i \in Online(list)'
  <2>1. clean >= 1 => i \in Rows(list)
    BY <1>1 DEF TypeOK, RowsKept
  <2>2. i \in Rows(list) \/ inserted = "online" => Stored(i) = "online"
    BY <1>2 DEF Rows
  <2>3. QED
    BY <1>3, <2>1, <2>2 DEF Online
<1>8. Online(list)' \ {i} = Online(list) \ {i}
  BY <1>3 DEF Online
<1>9. (Online(list) \ report.named[list])' = Online(list) \ report.named[list]
  <2>1. \A S, T : S \ {i} = T \ {i} => S \ report.named[list] = T \ report.named[list]
    BY <1>1
  <2>2. list' = list
    OBVIOUS
  <2>3. QED
    BY <1>8, <2>1, <2>2
<1>10. QED
  BY <1>3, <1>4, <1>5, <1>6, <1>7, <1>9

LEMMA DiskStep == ASSUME IInv, NEW i \in Disks, Disk(i) PROVE IInv'
<1> USE DEF IInv
<1>1. /\ at = "disks" /\ i \in todo /\ list \in Lists /\ report.raid
      /\ UNCHANGED <<storage, ssd_avai, inserted>>
  BY DEF Disk, TypeOK
<1>2. CASE Crash
  <2>1. /\ faulty' \in BOOLEAN /\ report' = report
        /\ at' = "idle" /\ list' \in Lists /\ clean' \in 0..2
    BY <1>2 DEF Crash, Lists
  <2>2. status' = status \/ status' = [status EXCEPT ![list][i] = Stored(i)]
    BY <1>2 DEF Disk, Crash, Goto
  <2>3. Stored(i) \in {"absent", "offline", "online"}
    BY <1>1 DEF Stored, TypeOK
  <2>4. status' \in [Lists -> [Disks -> {"absent", "offline", "online"}]]
    BY <1>1, <2>2, <2>3 DEF TypeOK
  <2>5. TypeOK'
    BY <1>1, <2>1, <2>4 DEF TypeOK
  <2>6. QED
    BY <1>2, <2>5, CrashKeeps
<1>3. ASSUME NEW o \in Outcomes, Account(o), Goto(at, list, todo \ {i}),
             status' = IF o = "failed" THEN status
                       ELSE [status EXCEPT ![list][i] = Stored(i)]
      PROVE  IInv'
  <2>1. faulty' \in BOOLEAN /\ (~faulty' => ~faulty /\ o = "ok")
    BY <1>3, Accounted
  <2>2. /\ at' = "disks" /\ list' = list /\ todo' = todo \ {i}
        /\ report' = report /\ clean' = clean
    BY <1>1, <1>3 DEF Goto
  <2>3. ToStore' = ToStore
    BY <2>2 DEF ToStore
  <2>4. status' \in [Lists -> [Disks -> {"absent", "offline", "online"}]]
    BY <1>1, <1>3, <2>2, DiskStored DEF TypeOK
  <2>5. TypeOK'
    BY <1>1, <2>1, <2>2, <2>3, <2>4 DEF TypeOK
  <2>6. PartitionsKept'
    BY <1>1, <2>1, <2>2 DEF PartitionsKept, PartitionsStored
  <2>7. \A l \in Lists : /\ Behind(l)' <=> Behind(l)
                         /\ Behind(l) => l # list
                         /\ SoFar(l)' \subseteq SoFar(l) \cup (IF l = list THEN {i} ELSE {})
    BY <1>1, <2>2, <2>3 DEF SoFar, Behind
  <2>8. \A l \in Lists : Rows(l) \subseteq Rows(l)'
    BY <1>1, <1>3, <2>2, DiskStored, SameRows
  <2>9. RowsKept'
    <3>1. ASSUME ~faulty', NEW l \in Lists PROVE SoFar(l)' \subseteq Rows(l)'
      <4>1. SoFar(l) \subseteq Rows(l)
        BY <2>1, <3>1 DEF RowsKept
      <4>2. i \in Rows(list)'
        BY <1>1, <1>3, <2>1, <2>2, <3>1, DiskStored
      <4>3. l = list => i \in Rows(l)'
        BY <2>2, <4>2 DEF Rows
      <4>4. QED
        BY <2>7, <2>8, <4>1, <4>3
    <3>2. QED
      BY <2>2, <2>8, <3>1 DEF RowsKept
  <2>10. OnlineKept'
    <3>1. ASSUME ~faulty', clean >= 1 \/ inserted = "online", NEW l \in Lists
          PROVE  SoFar(l)' \subseteq Online(l)'
      <4>1. SoFar(l) \subseteq Online(l)
        BY <2>1, <3>1 DEF OnlineKept
      <4>2. i \in Online(list)' /\ Online(l) \subseteq Online(l)'
        BY <1>1, <1>3, <2>1, <2>2, <3>1, DiskStored
      <4>3. l = list => i \in Online(l)'
        BY <2>2, <4>2 DEF Online
      <4>4. QED
        BY <2>7, <4>1, <4>2, <4>3
    <3>2. QED
      BY <1>1, <2>2, <3>1 DEF OnlineKept
  <2>11. GhostsKept'
    <3>1. ASSUME ~faulty' PROVE \A l \in Lists : FewGhosts(l) => FewGhosts(l)'
      <4>1. \A l \in Lists : (Online(l) \ report.named[l])' = Online(l) \ report.named[l]
        BY <1>1, <1>3, <2>1, <2>2, <3>1, DiskStored
      <4>2. QED
        BY <2>2, <4>1 DEF FewGhosts, Size
    <3>2. QED
      BY <1>1, <2>1, <2>2, <2>7, <3>1 DEF GhostsKept
  <2>12. QED
    BY <2>5, <2>6, <2>9, <2>10, <2>11
<1>4. QED
  BY <1>2, <1>3 DEF Disk

(* All disks of the list are stored.                                       *)
LEMMA DisksDoneStep == ASSUME IInv, DisksDone PROVE IInv'
<1> USE DEF IInv
<1>1. /\ at = "disks" /\ todo = {} /\ list \in Lists /\ report.raid
      /\ UNCHANGED <<storage, status, inserted>>
  BY DEF DisksDone, TypeOK
<1>2. ~faulty => /\ PartitionsStored
                 /\ ListDone(list)
                 /\ list = "vd" => ListDone("pd")
  <2>1. SoFar(list) = report.named[list] /\ (list = "vd" => SoFar("pd") = report.named["pd"])
    BY <1>1 DEF SoFar, Behind, ToStore, Lists
  <2>2. list = "vd" => Behind("pd")
    BY <1>1 DEF Behind
  <2>3. "pd" \in Lists
    BY DEF Lists
  <2>4. QED
    BY <1>1, <2>1, <2>2, <2>3 DEF PartitionsKept, RowsKept, OnlineKept, GhostsKept, ListDone
<1>3. CASE list = "vd" /\ UNCHANGED <<ssd_avai, faulty>> /\ Finish
  <2>1. ~faulty' => Complete
    BY <1>2, <1>3 DEF Complete, Lists
  <2>2. TypeOK'
    BY <1>1, <1>3, TypesKept DEF TypeOK, Finish
  <2>3. QED
    BY <1>1, <1>3, <2>1, <2>2, FinishKeeps
<1>4. ASSUME list = "pd", EnterVd, faulty' \in BOOLEAN, ssd_avai' \in BOOLEAN, ~faulty' => ~faulty
      PROVE  IInv'
  <2>1. UNCHANGED report
    BY <1>4 DEF EnterVd, Goto, Finish
  <2>2. TypeOK'
    BY <1>1, <1>4, <2>1, TypesKept DEF TypeOK
  <2>3. QED
    BY <1>1, <1>2, <1>4, <2>2, EnterVdKeeps
<1>5. CASE /\ list = "pd" /\ EnterVd
           /\ \E o \in Outcomes : /\ Account(o)
                                  /\ ssd_avai' = (ssd_avai \/ o # "failed")
  <2>1. faulty' \in BOOLEAN /\ (~faulty' => ~faulty)
    BY <1>5, Accounted
  <2>2. ssd_avai' \in BOOLEAN
    BY <1>5
  <2>3. QED
    BY <1>4, <1>5, <2>1, <2>2
<1>6. CASE list = "pd" /\ UNCHANGED <<ssd_avai, faulty>> /\ EnterVd
  <2>1. faulty' \in BOOLEAN /\ ssd_avai' \in BOOLEAN
    BY <1>6 DEF TypeOK
  <2>2. QED
    BY <1>4, <1>6, <2>1
<1>7. QED
  BY <1>3, <1>5, <1>6 DEF DisksDone
-----------------------------------------------------------------------------
(* Every step, and stuttering, preserves the inductive invariant.          *)
LEMMA StepInv == IInv /\ [Next]_vars => IInv'
<1> SUFFICES ASSUME IInv, [Next]_vars PROVE IInv'
  OBVIOUS
<1>1. ASSUME NEW r \in Reports, Begin(r) PROVE IInv'
  BY <1>1, BeginStep
<1>2. CASE Perform
  BY <1>2, PerformStep
<1>3. ASSUME NEW p \in Partitions, Partition(p) PROVE IInv'
  BY <1>3, PartitionStep
<1>4. CASE Prune
  BY <1>4, PruneStep
<1>5. CASE Raid
  BY <1>5, RaidStep
<1>6. CASE CountRows
  BY <1>6, CountRowsStep
<1>7. CASE MarkOffline
  BY <1>7, MarkOfflineStep
<1>8. ASSUME NEW i \in Disks, Disk(i) PROVE IInv'
  BY <1>8, DiskStep
<1>9. CASE DisksDone
  BY <1>9, DisksDoneStep
<1>10. CASE UNCHANGED vars
  <2> USE <1>10 DEF vars, db, work
  <2>1. TypeOK' /\ PartitionsKept'
    BY DEF IInv, TypeOK, ToStore, PartitionsKept, PartitionsStored
  <2>2. \A l \in Lists : SoFar(l)' = SoFar(l) /\ (Behind(l)' <=> Behind(l))
    BY DEF SoFar, Behind, ToStore
  <2>3. RowsKept'
    BY <2>2, SameRows DEF IInv, RowsKept
  <2>4. OnlineKept'
    BY <2>2, SameRows DEF IInv, OnlineKept
  <2>5. GhostsKept'
    <3>1. FewGhosts(list)' = FewGhosts(list)
      BY DEF FewGhosts, Size, Online
    <3>2. QED
      BY <2>2, <3>1, SameRows DEF IInv, GhostsKept
  <2>6. QED
    BY <2>1, <2>3, <2>4, <2>5 DEF IInv
<1>11. QED
  BY <1>1, <1>2, <1>3, <1>4, <1>5, <1>6, <1>7, <1>8, <1>9, <1>10 DEF Next

(* The inductive invariant holds in every reachable state.                 *)
THEOREM Invariance == Spec => []IInv
BY InitInv, StepInv, PTL DEF Spec

(* Every variable ranges over what the code can put into it, and only the  *)
(* reported disks and partitions are left to store.                        *)
THEOREM TypeCorrect == Spec => []TypeOK
BY Invariance, PTL DEF IInv

(* A report stored without fault leaves exactly its partitions, whatever   *)
(* partitions there were and whatever failed before.                       *)
THEOREM PartitionsAreExact == Spec => []PartitionsExact
<1>1. IInv => PartitionsExact
  BY DEF IInv, PartitionsKept, PartitionsExact, Settled
<1>2. QED
  BY <1>1, Invariance, PTL

(* A disk that is reported again is online again after one report without  *)
(* fault, if that is what the schema says of a new row.                    *)
THEOREM DisksComeBack == Spec => []BackOnline
<1>1. IInv => BackOnline
  BY DEF IInv, TypeOK, OnlineKept, BackOnline, Settled
<1>2. QED
  BY <1>1, Invariance, PTL

(* After two equal reports without fault the disks shown online are those  *)
(* reported, and at most as many others as there were without a name.      *)
THEOREM GhostsAreBounded == Spec => []GhostsBounded
<1>1. IInv => GhostsBounded
  <2> SUFFICES ASSUME IInv, Settled(2), report.raid, NEW l \in Lists
      PROVE  /\ report.named[l] \subseteq Online(l)
             /\ Size(l) > 0 =>
                   Cardinality(Online(l) \ report.named[l]) <= report.unnamed[l]
    BY DEF GhostsBounded
  <2>1. at = "idle" /\ clean = 2
    BY DEF Settled, IInv, TypeOK
  <2>2. QED
    BY <2>1 DEF IInv, OnlineKept, GhostsKept, FewGhosts
<1>2. QED
  BY <1>1, Invariance, PTL
=============================================================================
