------------------------------ MODULE SensorMap ------------------------------
(***************************************************************************)
(* The map from sensors to columns that all workers share                  *)
(* (src/bin/SensorMap.cc). Workers handling IPMI data read it in getMap,   *)
(* workers handling an "update" from the master extend it in expandMap; the*)
(* two are kept apart by a hand-made readers/writer lock: a counter of     *)
(* readers, a request flag, and two condition variables. An "initial" from *)
(* the master installs a new map in initialize, which takes no lock.       *)
(*                                                                         *)
(* d_write_request and d_nreading are only touched under d_mutex, so a     *)
(* section between its lock and its unlock or wait is one step.            *)
(***************************************************************************)
EXTENDS Naturals, FiniteSets

CONSTANTS Workers,
          Updaters,      \* workers that may get an "update" message
          Initializers   \* workers that may get an "initial" message

ASSUME SensorMapAssumption ==
    /\ IsFiniteSet(Workers)
    /\ Updaters \subseteq Workers
    /\ Initializers \subseteq Workers

VARIABLES d_write_request, d_nreading,
          published,   \* data # NULL
          crashed,     \* the process has dereferenced a null pointer
          pc

vars == <<d_write_request, d_nreading, published, crashed, pc>>

(* read: about to enter; read_wait: asleep on d_write_request_false;       *)
(* reading: between the two locked sections of getMap;                     *)
(* update: about to request; update_wait: asleep on d_nreading_zero;       *)
(* update_test: woken; writing: between the two locked sections of         *)
(* expandMap; initialize, filling: in initialize before and after the new  *)
(* map is stored in data.                                                  *)
Labels == {"idle", "read", "read_wait", "reading", "update", "update_wait",
           "update_test", "writing", "initialize", "filling"}

At(label) == {w \in Workers : pc[w] = label}

Init ==
    /\ d_write_request = FALSE
    /\ d_nreading = 0
    /\ published \in BOOLEAN
    /\ crashed = FALSE
    /\ pc = [w \in Workers |-> "idle"]

(* A worker of the running process, at a place.                            *)
In(w, label) == ~crashed /\ pc[w] = label

Goto(w, label) == pc' = [pc EXCEPT ![w] = label]

(* A worker takes a message that needs the map.                            *)
Start(w) ==
    /\ In(w, "idle")
    /\ \/ Goto(w, "read")
       \/ w \in Updaters /\ Goto(w, "update")
       \/ w \in Initializers /\ Goto(w, "initialize")
    /\ UNCHANGED <<d_write_request, d_nreading, published, crashed>>
-----------------------------------------------------------------------------
(* An operator whose name ends in _M is a fault of the operator below it,  *)
(* seeded to show that a property can tell the two apart; no behaviour     *)
(* uses it.                                                                *)
Uncounted_M(w) ==
    /\ In(w, "read")
    /\ Goto(w, IF d_write_request THEN "read_wait" ELSE "reading")
    /\ UNCHANGED <<d_write_request, d_nreading, published, crashed>>

(* getMap, up to the first unlock.                                         *)
EnterRead(w) ==
    /\ In(w, "read")
    /\ \/ /\ d_write_request
          /\ Goto(w, "read_wait")
          /\ UNCHANGED d_nreading
       \/ /\ ~d_write_request
          /\ Goto(w, "reading")
          /\ d_nreading' = d_nreading + 1
    /\ UNCHANGED <<d_write_request, published, crashed>>

(* getMap after the copy: the last reader signals d_nreading_zero, which   *)
(* wakes one of the threads that wait for it, if any.                      *)
LeaveRead(w) ==
    /\ In(w, "reading")
    /\ d_nreading' = d_nreading - 1
    /\ \/ /\ d_nreading' # 0 \/ At("update_wait") = {}
          /\ Goto(w, "idle")
       \/ /\ d_nreading' = 0
          /\ \E u \in At("update_wait") :
                pc' = [pc EXCEPT ![w] = "idle", ![u] = "update_test"]
    /\ UNCHANGED <<d_write_request, published, crashed>>
-----------------------------------------------------------------------------
(* The test of expandMap, again after each wakeup. The request is made     *)
(* once, before the first test.                                            *)
AwaitReaders(w) ==
    /\ Goto(w, IF d_nreading # 0 THEN "update_wait" ELSE "writing")
    /\ UNCHANGED <<d_nreading, published, crashed>>

RequestLate_M(w) ==
    /\ In(w, "update")
    /\ AwaitReaders(w)
    /\ d_write_request' = (d_nreading # 0)

Request(w) ==
    /\ In(w, "update")
    /\ AwaitReaders(w)
    /\ d_write_request' = TRUE

TestAgain(w) ==
    /\ In(w, "update_test")
    /\ AwaitReaders(w)
    /\ UNCHANGED d_write_request

OneWoken_M(w) ==
    /\ In(w, "writing")
    /\ published
    /\ d_write_request' = FALSE
    /\ \/ /\ At("read_wait") = {} /\ Goto(w, "idle")
       \/ \E r \in At("read_wait") : pc' = [pc EXCEPT ![w] = "idle", ![r] = "read"]
    /\ UNCHANGED <<d_nreading, published, crashed>>

(* The entries are added and the request is withdrawn; without a map the   *)
(* first entry dereferences NULL.                                          *)
FinishWrite(w) ==
    /\ In(w, "writing")
    /\ published
    /\ d_write_request' = FALSE
    /\ pc' = [v \in Workers |-> IF v = w THEN "idle"
                                ELSE IF pc[v] = "read_wait" THEN "read" ELSE pc[v]]
    /\ UNCHANGED <<d_nreading, published, crashed>>

WriteWithoutMap(w) ==
    /\ In(w, "writing")
    /\ ~published
    /\ crashed' = TRUE
    /\ UNCHANGED <<d_write_request, d_nreading, published, pc>>

(* initialize: the new map is visible before it is filled.                 *)
Publish(w) ==
    /\ In(w, "initialize")
    /\ published' = TRUE
    /\ Goto(w, "filling")
    /\ UNCHANGED <<d_write_request, d_nreading, crashed>>

Filled(w) ==
    /\ In(w, "filling")
    /\ Goto(w, "idle")
    /\ UNCHANGED <<d_write_request, d_nreading, published, crashed>>

(* pthread_cond_wait may return without a signal.                          *)
SpuriousWake(w) ==
    /\ \/ In(w, "read_wait") /\ Goto(w, "read")
       \/ In(w, "update_wait") /\ Goto(w, "update_test")
    /\ UNCHANGED <<d_write_request, d_nreading, published, crashed>>
-----------------------------------------------------------------------------
Advance(w) ==
    \/ EnterRead(w) \/ LeaveRead(w)
    \/ Request(w) \/ TestAgain(w) \/ FinishWrite(w) \/ WriteWithoutMap(w)
    \/ Publish(w) \/ Filled(w)

Next == \E w \in Workers : Start(w) \/ Advance(w) \/ SpuriousWake(w)

Spec == Init /\ [][Next]_vars
-----------------------------------------------------------------------------
(* The types, and that only an updater is ever inside expandMap.           *)
TypeOK ==
    /\ d_write_request \in BOOLEAN
    /\ d_nreading \in Nat
    /\ published \in BOOLEAN
    /\ crashed \in BOOLEAN
    /\ pc \in [Workers -> Labels]
    /\ \A w \in Workers : pc[w] \in {"update", "update_wait", "update_test", "writing"}
                             => w \in Updaters

(* The counter is the number of threads inside the read section.           *)
ReadersCounted == d_nreading = Cardinality(At("reading"))

(* No worker extends the map while another copies it.                      *)
ReadersExcludeWriter ==
    \A u, r \in Workers : ~(pc[u] = "writing" /\ pc[r] = "reading")

(* A request stands from its making to the end of the write.               *)
RequestStands ==
    (\E u \in Workers : pc[u] \in {"update_wait", "update_test", "writing"})
        <=> d_write_request

(* Whoever is asleep has a reason that some other thread will remove: a    *)
(* reader waits for a write under way, a writer for a reader inside.       *)
NoSleeperWithoutReason ==
    /\ At("read_wait") # {} => d_write_request
    /\ At("update_wait") # {} => d_nreading # 0

(* The inductive invariant, while at most one worker is at an update.      *)
IInv == /\ TypeOK
        /\ ReadersCounted
        /\ ReadersExcludeWriter
        /\ RequestStands
        /\ NoSleeperWithoutReason

(* A writer is not overtaken for ever by readers.                          *)
WriterGetsIn ==
    \A u \in Updaters : (pc[u] = "update") ~> (pc[u] = "writing" \/ crashed)

(* If updates cease, every reader gets in.                                 *)
ReaderGetsIn ==
    <>[](~d_write_request) =>
        \A r \in Workers : [](pc[r] \in {"read", "read_wait"} => <>(pc[r] = "reading" \/ crashed))
=============================================================================
