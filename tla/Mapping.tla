------------------------------- MODULE Mapping -------------------------------
(***************************************************************************)
(* How the sensor map gets its contents (IPMIRaw::insert, sendGet,         *)
(* extendMapping, SensorMap, AsyncDataSender). A worker whose IPMI data    *)
(* cannot be stored, because there is no map or because it lacks a sensor, *)
(* sends a request to the master and drops the data. The master assigns    *)
(* columns for good and answers with a message of its own, "initial" (all  *)
(* it knows) or "update" (the sensors asked for), which some worker takes  *)
(* from the queue like any other. A request or an answer is sent once, on  *)
(* a connection of its own: it may be lost, and overtake others.           *)
(*                                                                         *)
(* The lock is that of module SensorMap, whose actions are used here. The  *)
(* contents are those of one server_type: the set of sensors that have a   *)
(* column; the column of a sensor is the one the master has given it. Data *)
(* without sensors or server_type never gets to the map.                   *)
(***************************************************************************)
EXTENDS SensorMap

CONSTANTS Sensors,
          Data,         \* the sets of sensors a data message may have
          Collectors,   \* workers that may get such a message
          MaxFaults     \* bound: kills, losses and races that do harm

ASSUME MappingAssumption ==
    /\ Collectors \subseteq Workers
    /\ Data \subseteq (SUBSET Sensors) \ {{}}
    /\ MaxFaults \in Nat

VARIABLES map,        \* the sensors in *data
          hand,       \* per worker: sensors of the message it handles
          requests,   \* on their way to the master
          answers,    \* on their way back, or in the queue
          master,     \* the sensors the master has columns for
          cause,      \* history only: what crashed the process
          restarted,  \* history only: this is not the first process
          overlapped, \* history only: two updates met in this process
          faults      \* history only, up to MaxFaults

contents == <<map, hand, requests, answers, master>>
history == <<cause, restarted, overlapped, faults>>
mvars == <<vars, contents, history>>

Get == [kind |-> "get", sensors |-> {}]
Extend(sensors) == [kind |-> "update", sensors |-> sensors]
Snapshot(sensors) == [kind |-> "initial", sensors |-> sensors]

Requests == {Get} \cup {Extend(s) : s \in SUBSET Sensors}
Answers == {Snapshot(s) : s \in SUBSET Sensors} \cup {Extend(s) : s \in SUBSET Sensors}

MInit ==
    /\ Init /\ ~published
    /\ map = {} /\ hand = [w \in Workers |-> {}]
    /\ requests = {} /\ answers = {}
    /\ master \in SUBSET Sensors
    /\ cause = "none" /\ restarted = FALSE /\ overlapped = FALSE /\ faults = 0

Hold(w, sensors) == hand' = [hand EXCEPT ![w] = sensors]
-----------------------------------------------------------------------------
(* A worker takes data, or an answer that has come.                        *)
TakeData(w) ==
    /\ w \in Collectors
    /\ Start(w) /\ pc'[w] = "read"
    /\ \E d \in Data : Hold(w, d)
    /\ UNCHANGED <<map, requests, answers, master, history>>

Updating == At("update") \cup At("update_wait") \cup At("update_test") \cup At("writing")

TakeAnswer(w, m) ==
    /\ m \in answers
    /\ Start(w) /\ pc'[w] = (IF m.kind = "initial" THEN "initialize" ELSE "update")
    /\ Hold(w, m.sensors)
    /\ answers' = answers \ {m}
    /\ overlapped' = (overlapped \/ (m.kind = "update" /\ Updating # {}))
    /\ UNCHANGED <<map, requests, master, cause, restarted, faults>>

(* An operator whose name ends in _M is a fault of the operator below it,  *)
(* seeded to show that a property can tell the two apart; no behaviour     *)
(* uses it.                                                                *)
NoGet_M(sensors, seen) == {Extend(sensors \ seen)}

Forgotten_M(sensors, seen) == IF ~published THEN {Get} ELSE {}

(* IPMIRaw::insert: what is asked for when these sensors were to be stored *)
(* and the copy of the map had those; nothing if they can be stored.       *)
Asked(sensors, seen) ==
    IF ~published THEN {Get}
    ELSE IF sensors \subseteq seen THEN {} ELSE {Extend(sensors \ seen)}

Filling == At("filling") # {}

(* getMap ends. A map that is being filled, or was replaced meanwhile, is  *)
(* read without lock: the copy may have any part of it.                    *)
CopyMap(w) ==
    /\ LeaveRead(w)
    /\ \E seen \in (IF Filling THEN SUBSET (map \cup UNION {hand[v] : v \in At("filling")})
                    ELSE {map}) :
          requests' = requests \cup Asked(hand[w], seen)
    /\ Hold(w, {})
    /\ UNCHANGED <<map, answers, master, history>>

(* expandMap adds its entries to the map there is.                         *)
Expanded(w) == map \cup hand[w]

Expand(w) ==
    /\ FinishWrite(w)
    /\ map' = Expanded(w)
    /\ Hold(w, {})
    /\ UNCHANGED <<requests, answers, master, history>>

(* initialize: a new map, then its entries.                                *)
Replace(w) ==
    /\ Publish(w)
    /\ map' = {}
    /\ UNCHANGED <<hand, requests, answers, master, history>>

Fill(w) ==
    /\ Filled(w)
    /\ map' = map \cup hand[w]
    /\ Hold(w, {})
    /\ UNCHANGED <<requests, answers, master, history>>

Lock(w) ==
    /\ EnterRead(w) \/ Request(w) \/ TestAgain(w)
    /\ UNCHANGED <<contents, history>>

Wake(w) == SpuriousWake(w) /\ UNCHANGED <<contents, history>>
-----------------------------------------------------------------------------
(* expandMap when there is no map.                                         *)
NullWrite(w) ==
    /\ WriteWithoutMap(w)
    /\ cause' = "null"
    /\ UNCHANGED <<contents, restarted, overlapped, faults>>

Fault == faults < MaxFaults /\ faults' = faults + 1

(* Two threads at one map while it is being filled: undefined behaviour,   *)
(* that may end the process.                                               *)
Race ==
    /\ ~crashed /\ Filling
    /\ At("reading") \cup At("writing") # {}
    /\ Fault
    /\ crashed' = TRUE /\ cause' = "race"
    /\ UNCHANGED <<d_write_request, d_nreading, published, pc, contents, restarted, overlapped>>

Kill ==
    /\ ~crashed
    /\ Fault
    /\ crashed' = TRUE /\ cause' = "killed"
    /\ UNCHANGED <<d_write_request, d_nreading, published, pc, contents, restarted, overlapped>>

(* superwise.dp starts the process again: no map, no messages in work.     *)
(* Answers to the old process still come.                                  *)
Restart ==
    /\ crashed
    /\ d_write_request' = FALSE /\ d_nreading' = 0
    /\ published' = FALSE /\ crashed' = FALSE
    /\ pc' = [w \in Workers |-> "idle"]
    /\ map' = {} /\ hand' = [w \in Workers |-> {}]
    /\ cause' = "none" /\ restarted' = TRUE /\ overlapped' = FALSE
    /\ UNCHANGED <<requests, answers, master, faults>>

(* The master.                                                             *)
Serve(r) ==
    /\ r \in requests
    /\ requests' = requests \ {r}
    /\ master' = master \cup r.sensors
    /\ answers' = answers \cup {IF r = Get THEN Snapshot(master) ELSE r}
    /\ UNCHANGED <<vars, map, hand, history>>

Lose ==
    /\ Fault
    /\ \/ \E r \in requests : requests' = requests \ {r} /\ UNCHANGED answers
       \/ \E m \in answers : answers' = answers \ {m} /\ UNCHANGED requests
    /\ UNCHANGED <<vars, map, hand, master, cause, restarted, overlapped>>
-----------------------------------------------------------------------------
Work(w) == CopyMap(w) \/ Expand(w) \/ Replace(w) \/ Fill(w) \/ Lock(w) \/ NullWrite(w)

MNext ==
    \/ \E w \in Workers : TakeData(w) \/ Work(w) \/ Wake(w)
    \/ \E w \in Workers, m \in answers : TakeAnswer(w, m)
    \/ \E r \in requests : Serve(r)
    \/ Race \/ Kill \/ Restart \/ Lose

MSpec == MInit /\ [][MNext]_mvars

(* Workers go on, the master answers, the supervisor restarts, and what is *)
(* in the queue is taken in its turn. Data keeps coming.                   *)
MFairSpec ==
    /\ MSpec
    /\ \A w \in Workers : WF_mvars(Work(w))
    /\ \A r \in Requests : WF_mvars(Serve(r))
    /\ \A m \in Answers : SF_mvars(\E w \in Workers : TakeAnswer(w, m))
    /\ SF_mvars(\E w \in Workers : TakeData(w))
    /\ WF_mvars(Restart)
-----------------------------------------------------------------------------
(* The lock's types, and sensors in the map and in answers are ones that   *)
(* the master has a column for.                                            *)
MapTypeOK ==
    /\ TypeOK
    /\ map \subseteq master /\ master \subseteq Sensors
    /\ published \/ map = {}
    /\ requests \subseteq Requests
    /\ answers \subseteq Answers
    /\ \A m \in answers : m.sensors \subseteq master
    /\ \A w \in Workers : pc[w] \in {"update", "update_wait", "update_test", "writing",
                                     "initialize", "filling"} => hand[w] \subseteq master

(* SensorMap::expandMap does not ask whether there is a map. An update is  *)
(* only asked for by a process that has one: the first process never meets *)
(* the case, one that was restarted may.                                   *)
NullWriteNeedsRestart == cause = "null" => restarted

(* Whatever requests and answers get lost, however old the snapshots that  *)
(* replace the map and the updates that come late, once that is over the   *)
(* map has every sensor of the data that keeps coming.                     *)
MapSettles == <>[](published /\ \A d \in Data : d \subseteq map)

(* As long as no update is handled while another is, the lock keeps       *)
(* readers and the writer apart, and whoever sleeps has a reason that      *)
(* someone awake will remove. (Two that meet can let readers in during the *)
(* write, and leave the second updater asleep for good.)                   *)
LockHoldsAlone ==
    ~overlapped => ReadersExcludeWriter /\ NoSleeperWithoutReason

(* A writer is not overtaken for ever by readers, and every reader gets in *)
(* once updates cease, unless two updates meet.                            *)
EveryoneGetsIn ==
    []~overlapped => WriterGetsIn /\ ReaderGetsIn
=============================================================================
