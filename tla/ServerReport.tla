----------------------------- MODULE ServerReport -----------------------------
(***************************************************************************)
(* SNMPDataDB::insert (src/bin/SNMPDataDB.cc): one worker stores the SNMP  *)
(* reports of one server, statement by statement: partitions, which are    *)
(* pruned to those reported, then physical and virtual disks, which are    *)
(* marked offline together when the table holds more than were reported,   *)
(* and back online one by one. Each statement may fail or lose its answer; *)
(* where the code reads a result that is not there the process dies and is *)
(* started again by superwise.dp.                                          *)
(*                                                                         *)
(* The database is the common one: a failover, and several workers at one  *)
(* server, are the subject of module StatusTable, as are the tables that   *)
(* Perform and Controllers write.                                          *)
(***************************************************************************)
EXTENDS Naturals, FiniteSets

CONSTANTS Partitions, Disks,
          Reports       \* the reports the server may send

Lists == {"pd", "vd"}

(* A report. named[l] are the disks of list l that are stored, those with  *)
(* a slot and a serial number (a virtual disk: with a disk list);          *)
(* unnamed[l] counts the others. ragged: the first partition of the        *)
(* message has no name. proc: there is system data;                        *)
(* raid: the server has a RAID controller (mib_type 1 or 2). ssd: some     *)
(* disk is solid state; ssd_data: there is a smartctl report.              *)
ReportType == [proc : BOOLEAN, partitions : SUBSET Partitions, ragged : BOOLEAN,
               raid : BOOLEAN, named : [Lists -> SUBSET Disks],
               unnamed : [Lists -> Nat], ssd : BOOLEAN, ssd_data : BOOLEAN]

ASSUME ReportAssumption ==
    /\ IsFiniteSet(Disks)
    /\ Reports \subseteq ReportType

VARIABLES storage,    \* partitions in hrStorage_status
          status,     \* status[l]: the rows of the disk tables
          ssd_avai,   \* column of table server
          inserted,   \* the online_status an insert leaves to the schema
          report, at, list, todo,
          faulty,     \* history only: a statement for this report failed
          clean       \* history only: reports like this in a row without fault, up to 2

db   == <<storage, status, ssd_avai, inserted>>
work == <<report, at, list, todo>>
vars == <<db, work, faulty, clean>>

Init ==
    /\ storage = {}
    /\ status = [l \in Lists |-> [i \in Disks |-> "absent"]]
    /\ ssd_avai = FALSE
    /\ inserted \in {"offline", "online"}
    /\ report \in Reports
    /\ at = "idle" /\ list = "pd" /\ todo = {}
    /\ faulty = FALSE /\ clean = 0

(* A statement runs and is answered, runs and is not, or does not run.     *)
Outcomes == {"ok", "lost", "failed"}
Account(o) == faulty' = (faulty \/ o # "ok")

Goto(label, l, items) ==
    at' = label /\ list' = l /\ todo' = items /\ UNCHANGED <<report, clean>>

(* The process dies, and the report with it.                               *)
Crash ==
    /\ at' = "idle" /\ list' = "pd" /\ todo' = {} /\ UNCHANGED report
    /\ faulty' = TRUE /\ clean' = 0

(* insert returns.                                                         *)
Finish ==
    /\ at' = "idle" /\ list' = "pd" /\ todo' = {} /\ UNCHANGED report
    /\ clean' = IF faulty' THEN 0 ELSE IF clean = 0 THEN 1 ELSE 2

Size(l) == Cardinality(report.named[l]) + report.unnamed[l]
Rows(l) == {i \in Disks : status[l][i] # "absent"}
Online(l) == {i \in Disks : status[l][i] = "online"}

(* The disk lists follow each other; an empty one is passed over.          *)
EnterVd == \/ Size("vd") > 0 /\ Goto("count", "vd", {})
           \/ Size("vd") = 0 /\ Finish
EnterPd == \/ Size("pd") > 0 /\ Goto("count", "pd", {})
           \/ Size("pd") = 0 /\ EnterVd

(* The next report is taken up.                                            *)
Begin(r) ==
    /\ at = "idle"
    /\ at' = (IF r.proc THEN "perform" ELSE "raid") /\ list' = "pd" /\ todo' = {}
    /\ report' = r
    /\ clean' = IF r = report THEN clean ELSE 0
    /\ faulty' = FALSE
    /\ UNCHANGED db
-----------------------------------------------------------------------------
(* The tables of module StatusTable: a lookup without answer ends it all.  *)
Perform ==
    /\ at = "perform"
    /\ \/ Goto("partitions", "pd", report.partitions) /\ \E o \in Outcomes : Account(o)
       \/ Crash
    /\ UNCHANGED db

(* updateStorageStatus: find, then insert or update; a new row's id is     *)
(* asked for. Either query may end it all.                                 *)
Partition(p) ==
    /\ at = "partitions" /\ p \in todo
    /\ \/ \E o \in Outcomes :
             /\ Account(o) /\ Goto(at, list, todo \ {p})
             /\ storage' = IF o = "failed" THEN storage ELSE storage \cup {p}
       \/ Crash /\ UNCHANGED storage
       \/ p \notin storage /\ Crash /\ storage' = storage \cup {p}
    /\ UNCHANGED <<status, ssd_avai, inserted>>

(* An operator whose name ends in _M is a fault of the operator below it,  *)
(* seeded to show that a property can tell the two apart; no behaviour     *)
(* uses it.                                                                *)
Inverted_M == storage \ report.partitions

(* What is left after the delete of the partitions that were not reported. *)
Pruned == storage \cap report.partitions

(* The list of the delete is left open if the partition handled last has   *)
(* no name; then the statement is malformed.                               *)
Prune ==
    /\ at = "partitions" /\ todo = {}
    /\ Goto("raid", "pd", {})
    /\ \/ /\ ~report.ragged /\ report.partitions # {}
          /\ \E o \in Outcomes :
                /\ Account(o)
                /\ storage' = IF o = "failed" THEN storage ELSE Pruned
       \/ /\ report.ragged \/ report.partitions = {}
          /\ UNCHANGED <<storage, faulty>>
    /\ UNCHANGED <<status, ssd_avai, inserted>>
-----------------------------------------------------------------------------
(* Without a controller insert returns here; the controllers' table is one *)
(* of module StatusTable.                                                  *)
Raid ==
    /\ at = "raid"
    /\ \/ ~report.raid /\ UNCHANGED faulty /\ Finish
       \/ report.raid /\ (\E o \in Outcomes : Account(o)) /\ EnterPd
       \/ report.raid /\ Crash
    /\ UNCHANGED db

OffByOne_M(n) == n > Size(list) + 1

(* A disk has gone if the table holds more than were reported.             *)
Fewer(n) == n > Size(list)

(* The disks to store next.                                                *)
ToStore == report.named[list]

(* select count of the list's rows; without answer insert returns.         *)
CountRows ==
    /\ at = "count"
    /\ \/ /\ UNCHANGED faulty
          /\ Goto(IF Fewer(Cardinality(Rows(list))) THEN "mark" ELSE "disks",
                  list, ToStore)
       \/ faulty' = TRUE /\ Finish
    /\ UNCHANGED db

(* update ... set online_status=0 for every disk of the server.            *)
MarkOffline ==
    /\ at = "mark"
    /\ Goto("disks", list, todo)
    /\ \E o \in Outcomes :
          /\ Account(o)
          /\ status' = IF o = "failed" THEN status
                       ELSE [status EXCEPT ![list] =
                               [i \in Disks |-> IF i \in Rows(list) THEN "offline" ELSE "absent"]]
    /\ UNCHANGED <<storage, ssd_avai, inserted>>

Sticky_M(i) == IF status[list][i] = "absent" THEN inserted ELSE status[list][i]

(* online_status of a disk once it is inserted or updated.                 *)
Stored(i) == IF status[list][i] = "absent" THEN inserted ELSE "online"

(* updatePDStatus, updateVDStatus: as for partitions.                      *)
Disk(i) ==
    /\ at = "disks" /\ i \in todo
    /\ \/ \E o \in Outcomes :
             /\ Account(o) /\ Goto(at, list, todo \ {i})
             /\ status' = IF o = "failed" THEN status
                          ELSE [status EXCEPT ![list][i] = Stored(i)]
       \/ Crash /\ UNCHANGED status
       \/ /\ i \notin Rows(list) /\ Crash
          /\ status' = [status EXCEPT ![list][i] = Stored(i)]
    /\ UNCHANGED <<storage, ssd_avai, inserted>>

(* updateServerSSD after the physical disks, unless there is a smartctl    *)
(* report; then the virtual disks, then the end.                           *)
DisksDone ==
    /\ at = "disks" /\ todo = {}
    /\ \/ /\ list = "pd" /\ report.ssd /\ ~report.ssd_data
          /\ \E o \in Outcomes : /\ Account(o)
                                 /\ ssd_avai' = (ssd_avai \/ o # "failed")
          /\ EnterVd
       \/ /\ list = "pd" /\ ~(report.ssd /\ ~report.ssd_data)
          /\ UNCHANGED <<ssd_avai, faulty>> /\ EnterVd
       \/ list = "vd" /\ UNCHANGED <<ssd_avai, faulty>> /\ Finish
    /\ UNCHANGED <<storage, status, inserted>>
-----------------------------------------------------------------------------
Next ==
    \/ \E r \in Reports : Begin(r)
    \/ Perform \/ Prune \/ Raid \/ CountRows \/ MarkOffline \/ DisksDone
    \/ \E p \in Partitions : Partition(p)
    \/ \E i \in Disks : Disk(i)

Spec == Init /\ [][Next]_vars
-----------------------------------------------------------------------------
Settled(n) == at = "idle" /\ clean >= n

(* SNMPDataDB.cc:416: "如果数据库中pd记录数比此次采集更多，说明有pd下线"   *)
(* (more records than disks collected: some disk went offline). After two  *)
(* equal reports stored without fault, whatever went wrong before, every   *)
(* reported disk is shown online, and of those not reported at most as     *)
(* many as there were disks without a serial number, which count but are   *)
(* not stored.                                                             *)
GhostsBounded ==
    Settled(2) /\ report.raid =>
        \A l \in Lists :
            /\ report.named[l] \subseteq Online(l)
            /\ Size(l) > 0 =>
                  Cardinality(Online(l) \ report.named[l]) <= report.unnamed[l]

PartitionsStored ==
    report.proc =>
        /\ report.partitions \subseteq storage
        /\ ~report.ragged /\ report.partitions # {} => storage = report.partitions

(* One report stored without fault leaves exactly its partitions, if the   *)
(* statement that prunes them is well-formed, and at least them otherwise. *)
PartitionsExact == Settled(1) => PartitionsStored

(* A disk that was shown offline and is reported again is shown online as  *)
(* soon as a single report is stored without fault, also if the process    *)
(* died between marking and storing.                                       *)
BackOnline ==
    Settled(1) /\ report.raid /\ inserted = "online" =>
        \A l \in Lists : report.named[l] \subseteq Online(l)

(* Every variable ranges over what the code can put into it; what is left  *)
(* to store belongs to the report, and all of it is left when the disks are*)
(* marked.                                                                 *)
TypeOK ==
    /\ storage \subseteq Partitions
    /\ status \in [Lists -> [Disks -> {"absent", "offline", "online"}]]
    /\ ssd_avai \in BOOLEAN /\ inserted \in {"offline", "online"}
    /\ report \in Reports
    /\ at \in {"idle", "perform", "partitions", "raid", "count", "mark", "disks"}
    /\ list \in Lists
    /\ at = "partitions" => todo \subseteq report.partitions
    /\ at = "mark" => todo = ToStore
    /\ at = "disks" => todo \subseteq ToStore
    /\ at \in {"count", "mark", "disks"} => report.raid
    /\ faulty \in BOOLEAN /\ clean \in 0..2

(* How far the table of partitions is, for a report without fault so far,  *)
(* and for the last one.                                                   *)
PartitionsKept ==
    /\ at = "partitions" /\ ~faulty => report.partitions \ todo \subseteq storage
    /\ at \in {"raid", "count", "mark", "disks"} /\ ~faulty => PartitionsStored
    /\ at = "idle" /\ clean >= 1 => PartitionsStored

(* The list l has been stored for this report, or passed over.             *)
Behind(l) == at \in {"count", "mark", "disks"} /\ list = "vd" /\ l = "pd"

(* The disks of l that are stored by now.                                  *)
SoFar(l) ==
    IF Behind(l) THEN report.named[l]
    ELSE IF at = "disks" /\ l = list THEN ToStore \ todo
    ELSE {}

(* The first report without fault leaves a row for each of its disks,      *)
RowsKept ==
    /\ ~faulty => \A l \in Lists : SoFar(l) \subseteq Rows(l)
    /\ clean >= 1 /\ report.raid => \A l \in Lists : report.named[l] \subseteq Rows(l)

(* so that the second, if not the first, has them shown online,            *)
OnlineKept ==
    /\ ~faulty /\ (clean >= 1 \/ inserted = "online") =>
          \A l \in Lists : SoFar(l) \subseteq Online(l)
    /\ at = "idle" /\ report.raid /\ clean >= (IF inserted = "online" THEN 1 ELSE 2) =>
          \A l \in Lists : report.named[l] \subseteq Online(l)

FewGhosts(l) ==
    Size(l) > 0 => Cardinality(Online(l) \ report.named[l]) <= report.unnamed[l]

(* and the rows it counts include its own disks, so that those in excess,  *)
(* if it leaves them online, are no more than the disks without a name.    *)
GhostsKept ==
    /\ ~faulty /\ clean >= 1 =>
          /\ \A l \in Lists : Behind(l) => FewGhosts(l)
          /\ at = "disks" => FewGhosts(list)
    /\ at = "idle" /\ report.raid /\ clean = 2 => \A l \in Lists : FewGhosts(l)

(* The inductive invariant.                                                *)
IInv == /\ TypeOK
        /\ PartitionsKept
        /\ RowsKept
        /\ OnlineKept
        /\ GhostsKept
=============================================================================
