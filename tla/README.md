# A verification development for datapool

datapool is a multi-threaded C++ server (`src/bin`). Collectors on other machines connect to it
and send it measurements as protobuf messages: IPMI data, SNMP data, and answers of a *master*
about which column of a table belongs to which sensor. A single thread accepts the connections
and reads the messages; a pool of workers turns each message into SQL for a MySQL database and,
if need be, a backup. Everything interesting happens between the threads, and between the
process and the parties that may fail under it: these modules are about that.

The repository has no documentation of its own (its README is empty); every definition below is
read off the code.

## 1. Inventory

| Component | Code | State | Operations | Talks to |
|---|---|---|---|---|
| Listener | `AsyncDataListener.cc` `start`, `read_message`, `SocketHandler`, `readBody` | edge-triggered events, the accept queue, the connection being read: size, cells counted, buffer | accept one, look at the size, read one message, parse, close | task queue (link), alert module (copy of every message) |
| Task queue | `AsyncDataListener.cc` 10-19, 370-479 | `readhead`, `readtail`, `cnt`, `mutex`, `cond1` | link, wait, unlink | listener and all workers |
| Workers | `run`, `handle_message` | one DB session pair each | dispatch on the type | everything below |
| Shutdown | `sig_handler` | - | drain the queue, release the buffers, exit | task queue, buffers, from whatever thread got SIGINT |
| Batch buffers | `DataBaseContainer.cc` | per table: counter, rows, threshold, rwlock; shared by all workers | push, compare, reset, read, clear, send | DB session |
| DB session | `DataBaseProxy.cc`, `DataBaseContainer.cc` 91-129 | handle, error budget | insert, query, connect, retry, fail over | MySQL common and backup |
| Sensor map | `SensorMap.cc` | map sensor -> column, `d_write_request`, `d_nreading`, two condition variables; shared by all workers | `getMap`, `expandMap`, `initialize` | workers |
| IPMI handler | `IPMIRaw.cc`, `AsyncDataSender.cc` | - | build rows, ask the master for columns | sensor map, DB, master (best effort) |
| SNMP, SSD, SEL handlers | `SNMPDataDB.cc`, `SSDData.cc`, `Sel.cc` | - | find-then-insert-or-update of status rows, history rows, speeds | DB, batch buffers |
| Messages | `*.pb.h`, `*.pb.cc` | fields, has bits | parse, serialize | peers, handlers, master |
| Value maps | `MagicMap.cc`, `MagicMap.h`, `getTableSchema` | columns of one record, in two `std::map`s | build, filter, print for insert and update | handlers, batch buffers |
| Configuration | `config.c`, `datapool_main.cc` | parameters | parse | start-up |
| Supervision | `superwise.dp`, `load.sh` | - | restart the process when it is gone | process |

What is hard in each, and what makes it correct:

- *Task queue*: the workers test the list and sleep while the listener links and broadcasts
  (lost wakeup); `readtail` is left dangling when the list empties (use after delete); tasks are
  heap cells freed by another thread than the one that allocated them. Correct: every message
  goes to one worker, in the order it was linked, and is handled.
- *Shutdown*: `sig_handler` runs on any thread, in the middle of anything, without the mutex.
- *Batch buffers*: the counter is compared outside the lock and four locked sections follow one
  another; between any two of them any other worker may run. Correct: no full buffer is
  forgotten, no row is lost or sent twice. The code does not achieve all of this, and the
  modules say exactly what it does achieve.
- *DB session*: lock errors, lost sessions, refused connections and unanswered statements,
  alternating, on two databases. Correct: an insert happens at most once, the retries are
  bounded, the backup is asked when and only when the common database cannot take the statement.
- *Sensor map*: a readers/writer lock made of a counter, a flag and two condition variables.
  Correct: nobody writes while another reads, no wakeup is lost, nobody starves.
- *Status tables*: check-then-act on a shared database, statement by statement and without a
  transaction, by several workers, with a failover between any two statements and a crash at every
  result that is read without being there. Correct: one row per server, with its newest values; the
  partitions and the online marks of the disks are those of the last report.
- *Listener*: messages come in pieces, connections in bursts, and peers pause or leave at any point;
  one thread reads them all. Correct: a message is queued as it was sent or not at all, what is
  stored of it is attributed to the right server, and no connection waits for good.
- *Speeds*: differences of counters that wrap, restart, are missing and arrive out of order. Correct:
  never more than the traffic there was.
- *Mapping protocol*: messages between two programs without acknowledgements, answered in any order or
  not at all, to a process that may have been restarted. Correct: the map comes to hold every
  sensor that is measured.
- *Value maps*: the values of a history row come in the order of a `std::map`, its columns from a literal
  in another file. Correct: every value is stored under its name, and one server's data does not
  keep another's from being stored.
- *SSD reports, FRU entries, configuration*: hand-made parsers that keep state from one item to the next.
  Correct: every item is read as what it says.

`PROJECT.json` lists every component with its status, and every hazard at its line.

## 2. Modules

| Module | Models | State and actions in the code |
|---|---|---|
| `Fifo` | what the task queue promises: put at the back, take at the front, finish | abstract |
| `TaskQueue` | the list, the mutex, the condition variable, one listener, any number of workers | `ReadMessage`, `ListenerLock`, `Link`, `ListenerUnlock` = `read_message` 438-479; `WorkerLock`, `Wait`, `SpuriousWake`, `Peek`, `Pop`, `WorkerUnlock`, `Handle` = `handle_message` 370-437 |
| `Shutdown` | `TaskQueue` extended by `sig_handler` | `Interrupt` picks the thread it runs on (it stops there); `DeleteMessage`, `DeleteTask`, `Exit` |
| `BatchBuffer` | `db_insert(query, table)`, `bufferValues` | one action per locked section: `Push`, `Check` (no lock), `Reset`, `Parse`, `Clear`; then `InsertCommon`, `FailOver`, `InsertBackup` |
| `DbCall` | what `db_insert` and `db_query` promise: the common database, perhaps then the backup; at most one of them has executed an insert | abstract |
| `DbProxy` | one statement through container and proxy | `Succeed`, `LockError`, `Reject`, `LoseAnswer`, `FindLost`, `FindGone`, `Connect`, `Count`, with `GiveUp` the container's reaction; `ServerDrops` is the server's |
| `SensorMap` | the readers/writer lock and the publication of the map | `EnterRead`, `LeaveRead` = `getMap`; `Request`, `TestAgain`, `FinishWrite`, `WriteWithoutMap` = `expandMap`; `Publish`, `Filled` = `initialize` |
| `StatusTable` | a table of newest values: find, then insert, or update by id | `Take` = `handle_message` 384-409; `Find`, `NoAnswer` = the `find...Status` functions; `Insert`, `AskId`, `Update` = the `update...Status` functions of `SNMPDataDB.cc`, `Sel::updateStatus`, `insertFRU`, the end of `IPMIRaw::insert`; `Abandon` = `Sel::insert` 47-51 |
| `ServerReport` | `SNMPDataDB::insert` from top to bottom for one server | `Begin`, `Perform`, `Partition`, `Prune` = 40-328; `Raid` = 330-381; `CountRows`, `MarkOffline`, `Disk` = 383-462 and 468-525; `DisksDone` = 463-467 |
| `Speed` | `in_speed`, `out_speed`, disk speeds | `Look` = `findPreviousIFIO`, `findPreviousDISKIO`; `InSpeed`, `OutSpeed`, `DiskSpeed` = 108-142, 205-234; `Store` = `updateIfStatus`; `Tick`, `Reboot`, `Collect` are the monitored server's |
| `Messages` | the classes generated from the `.proto` files | per class: labels of the fields, order of the fields on the wire; `Serialized`, `Has`, `IsInitialized`, `Invented` (a value that was cut off reads as a default) |
| `Listener` | the listener thread and its peers | `Wait`, `Accept` = `start` 321-363; `Peek` = `SocketHandler`, `readHdr`; `Read`, `Retry`, `Overrun`, `Forward` = `readBody`; `Close` = `read_message` 443-479; `Connect`, `Send`, `Leave` are the peers' |
| `Mapping` | `SensorMap` extended by the map's contents, the requests and answers, the master, kills and restarts | `TakeData`, `CopyMap` = `IPMIRaw::insert` 24-124 around `getMap`; `TakeAnswer` = `handle_message` 410-429; `Expand`, `NullWrite` = `expandMap`; `Replace`, `Fill` = `initialize`; `Lose` = `AsyncDataSender::send`; `Kill`, `Restart` = `superwise.dp` |
| `Columns`, `ValueMap` | column names of ten tables; what becomes of a message's key/value pairs | `Columns`: the arrays of `MagicMap.h` and `getTableSchema`, name by name; `ValueMap`: `Built` = `buildMap`, `Updated` = `parseUpdateString`, `Row` = `parseInsertString`, `Filtered` = `setFilterKey`, `StoreValues` = `SNMPDataDB::insert` for one record |
| `FruMap` | `MagicMap::buildMap(const CollectData *)` | `TakeEntry` is one turn of its loop |
| `SsdReport` | `SSDData::insert` as a reader of words | `ReadWord` is one turn of its loop: `OpenDisk`, `PassWord`, or `EndRow` = 58-111 |
| `Config` | `parse_cfg_file`, `str2uint64` | `ParseLine` is one turn of the loop, `Fails` its error returns |
| `MC...` | TLC instances | values of the constants, symmetry |
| `...Proofs` | theorems with their TLAPS proofs | |

How they compose. `TaskQueue` implements `Fifo`; `Shutdown` extends `TaskQueue`. `BatchBuffer`
uses a database call as one step with three outcomes (`InsertCommon`, `FailOver`,
`InsertBackup`), which is what `DbProxy` refines: there the call is taken apart and the calls of
other workers are left out, because a worker owns its sessions. `DbProxy` implements `DbCall`, the
call without sessions, errors and retries. `Handle` in `TaskQueue` stands
for a handler, whose insides are `BatchBuffer`, `DbProxy`, `SensorMap` with `Mapping`, `StatusTable`,
`ServerReport`, `Speed`, `ValueMap`, `FruMap` and `SsdReport`. `ReadMessage` in `TaskQueue` stands for what
`Listener` takes apart, and what `Listener` says a message may look like after it was cut or damaged
is what the handlers get. `Mapping` uses the actions of `SensorMap` as they are and adds the
contents to each. The rows that `ValueMap` batches are those of `BatchBuffer`, where only their number
matters; the old counter under a new time, which `ValueMap` shows to arise, is the gap of `Speed`. A statement of `StatusTable` is a call of `DbProxy` taken as one step
whose outcome is the database it ran on, if any, and whether it was answered. `ServerReport` has one
worker and the common database only, because it follows a whole report; what several workers and
two databases do to one row is in `StatusTable`.

Grain. A step is the code between two points where another thread can see or change shared
state. Sections that exclude each other (under one mutex, or one table's write lock) are one
step; in `TaskQueue` the sections are taken apart further, because `Shutdown` interrupts them.
The comparison in `bufferValues` (line 176) is a data race on an `int`: it reads the counter as it
is at that moment.

Operators whose name ends in `_M` are seeded faults: each is a plausible mistake in the operator
below it, and each property is violated when its fault is put in (`PROJECT.json`, "mutants").

## 3. Runs

| Run | Instance | Shows |
|---|---|---|
| `queue` | 3 workers, 3 messages, 3 task addresses | `NoDanglingAccess`; `NoSleeperWhileWork`; `ExactlyOnce`; `ImplementsFifo` (refinement of `Fifo!Spec`); `EveryMessageHandled` |
| `shutdown_release` | 2 workers, 2 messages | *violated*: `ReleasesQueueOnly` |
| `listener` | 2 peers, one with two kinds of message in up to 3 pieces, one with an unknown message in one piece; header of 2 cells | `BacklogExplained`, `DamageNeedsAPause`, `CutMessageIsAttributed`, `EveryConnectionCloses` |
| `buffers` | 3 workers, 3 rows; thresholds 2, 1 and 0, one table without schema | `NoForgottenFlush`, `LossOnlyBySnapshotRace`, `ResentOnlyBySnapshotRace`, `FullBufferIsSent` |
| `db_call` | budgets 2 (common) and 1 (backup), 5 connection attempts as in the code | `InsertedAtMostOnce`, `FailoverWhenDue`; `ImplementsDbCall` (refinement of `DbCall!Spec`); `CallReturns` |
| `mapping` | 3 workers: two may get updates, one an initial map, two data; 1 sensor, 1 harmful fault | `LockHoldsAlone`, `NullWriteNeedsRestart`, `EveryoneGetsIn`, `MapSettles` |
| `status_tables` | 2 workers, 2 servers, 4 messages, 2 statements that go astray, all five kinds of table | `DuplicatesBounded`, `SerialIsExact`, `ForeignNeedsTwoTroubles` |
| `status_usage` | 1 worker, 1 server, 3 messages, all statements go well | *violated*: `UsageNewest` |
| `server_report` | 2 partitions, 3 disks, 6 kinds of report, any number of reports and faults | `GhostsBounded`, `PartitionsExact`, `BackOnline` |
| `speeds` | 2 workers, 3 samples, times up to 4, counters modulo 3, arithmetic modulo 8 | `OutOverstatedOnlyAfterGap`, `InOverstatedOnlyBackwards`, `DiskOverstatedOnlyFirst` |
| `texts` | the ten tables with all their columns, 2 messages, batches of 2; SSD reports of up to 3 attributes, FRU lists of up to 4 entries, files of up to 2 lines | `RefusedForForeignName`, `OnlyIrPdMisplaced`, `RemembersNumbers`; `SsdRowsRight`, `FruUnderItsName`, `SettingsAsTold` |
| `columns` | as `texts` | *violated*: `ColumnsInPlace` |

`queue`, `buffers`, `mapping` and `status_tables` also check the type invariant of their module; those of
the other modules with proofs are proved (section 5). A behaviour of `texts` stores messages or reads one
small text, item by item: a report, the FRU entries of a message or a file.

Why the bounds suffice. *Queue*: three task addresses and three messages make the allocator hand
out an address again while another task is linked, empty the list and fill it again (so that
`readtail` dangles), and let one worker sleep, one work and one be woken for nothing. *Buffers*:
three workers allow two that race for one batch and a third that pushes in between; the thresholds
2 and 1 give batches of several rows and of one, and the threshold 0 is what a parameter missing
from the configuration leaves (`SSD_THRSH` in `datapool.conf` is such a parameter: the program
reads `SSD_THRESH`). *Database*: a budget of 2 lets lock errors and lost sessions alternate in all
ways; the unequal budget of the backup shows that the counters are not shared. *Mapping*: with two
updaters, an initializer and two readers among three workers, every pair of sections meets,
two updates meet, and a reader sleeps while another is inside; one sensor is enough for a map that
has it, lacks it, or has not got it yet; one kill, loss or race can hit any step, and after it
the protocol must recover alone. *Listener*: two peers make one burst, and a batch of two events
in which a slow reader holds up the other; three pieces put a cut in the size, in the body, near its
end, or two of them, which are the cases `DamageNeedsAPause` tells apart; the header is 2 cells, both
of the size, instead of 12 bytes, 4 of them looked at; the SNMP message has two pairs of name and
value, of which a cut may hit either, and the IPMI message its error code last. *Status tables*:
two workers race for one row, and with two detours a row can be found in one database and
updated in the other; the second server owns the row that is hit by mistake; four messages let a
row be inserted, updated, inserted twice and updated again. *Report*: the reports shrink, exchange
and empty each list; three disks are enough for one to be replaced while another leaves; nothing
is bounded but the data. *Speeds*: a counter of three values wraps within one tick of at most two
units, arithmetic that is wider than the counter is what a 32-bit counter in 64-bit variables is,
and three samples make a row, an older and a newer one, any of which may lack the counter.
*Texts*: the names are the real ones, so order and number of columns are those of the program; two
messages fill a batch and let a row be updated once. The widths of `Config` are scaled so that each
unit has a number that fits, one that is cut to an int and one that overflows. The state of the SSD
reader is a disk, a row and a rest of a line: three lines after each other reach every pair of them.

All invariants of the passing runs, and the two refinements, are also proved for every value of the
constants (section 5).

Deadlock is checked where the system must not stop (`queue`, `db_call`, `server_report`). It is
not in `buffers`, `status_*`, `speeds`, `texts` and `columns` (all rows, messages or samples are
given), `mapping` (two updates that met may leave a worker asleep), `listener` (peers need not
come) and `shutdown_release` (the process has exited).

### What the violated runs show

- `shutdown_release`. SIGINT arrives while a worker is between `readhead->data` (378) and
  `readhead = readhead->next` (380). The handler, which takes no lock, deletes the message at the
  head; the worker then processes and deletes it again. The comment at line 216 promises to
  "release the task_queue".
- `status_usage`. `cpu_usage` is in the insert (685) and in the history, but not in the update (705):
  the row of a server shows for ever what its first message said, against the comment at line 79,
  which promises "the newest value".
- `columns`. `getTableSchema` lists `mediatype` before `mediaErrCount` for `ir_pd` (`DataBaseContainer.cc` 221);
  the values come out of a `std::map`, where `mediaErrCount` is first, as in `no_ir_pd` (230). Both are
  numbers, so MySQL accepts every row.

### What the passing runs say that may surprise

- `ResentOnlyBySnapshotRace`: two workers may flush one buffer at once, because both compare the
  counter (176) before either resets it (181), although the comment at line 179 says the reset is
  there to "prevent another thread step in". The rows sent twice are those one of them reads (185)
  between the other's reading and clearing (190), and no others; `doubled` keeps them.
- `LockHoldsAlone` and `EveryoneGetsIn` stop where two updates meet. Then the last reader's
  `pthread_cond_signal` (81) wakes one updater, whose broadcast (114) is to readers only: the other
  may sleep for good, and the worker with it. The first one's `d_write_request = false` (113) also
  lets readers in while the second writes.
- `MapSettles` holds in spite of that, of lost requests and of late answers, because a sensor that is
  missing is asked for again with every measurement, and the master never takes a column back.
- `NullWriteNeedsRestart`: an "update" that was asked for before a restart and comes before the
  "initial" dereferences the null `data` (100). Without a restart it cannot happen.
- `SerialIsExact`: two workers that hold two messages of one server may write them in the other
  order, and the row keeps the older values; the code compares no times.
- `BacklogExplained`: a connection that arrived together with another is accepted only when a third
  comes; the lag grows with every burst and never shrinks.
- `DamageNeedsAPause`: the reading loop ends when as many bytes have come as the body has, without the
  header, so a pause near the end of a message leaves its last bytes to chance. After `EAGAIN` the
  second read is not counted, so the next bytes are put over it.
- `CutMessageIsAttributed`: nobody looks at the result of `ParseFromCodedStream`. It is the order of the
  fields on the wire that saves the code: whose data it is, and from when, comes first. An error code
  comes last, though: of a failed collection that is cut, the values are stored.
- `EveryConnectionCloses` excludes one case, and only one: a peer that in the middle of a message
  neither goes on nor leaves (`HeldBy`) keeps the listener in the loop of `readBody`, and every other
  peer waiting. So does one that has sent all, if the last bytes came with the read that is not
  counted and it waits for the server to close first.
- The last conjunct of `DamageNeedsAPause`: what is read goes over the end of the buffer only if the
  peer paused within the size field. Then the size is too small, and `read` (97, 100) is told the size
  of the whole buffer at every turn, wherever in it the bytes go. What is behind the buffer belongs to
  something else; the server goes on, or ends by it (`Overrun`) and is started anew.
- `RefusedForForeignName`: one message with one name that its table does not know makes MySQL refuse the
  whole batch, with the rows of all servers in it, each time.
- `RemembersNumbers`: the test `int_it->second != -1` (`MagicMap.cc` 271) leaves a missing number out, so
  the `NULL` that the comment at line 276 speaks of is never written, and a status row may mix the
  numbers of several messages under the time of the last.
- `FruUnderItsName`: an entry of another name is stored under the column of the entry handled before
  it, that is the one after it in the message.
- `SsdRowsRight`: after an attribute that smartctl does not know, with a raw value of several words, the
  next line is read in the wrong columns; the line after it is right again.
- `SettingsAsTold`: the first wrong line ends the reading, and `main` goes on with zeros and null
  pointers for the rest; `PARM_MAND` is never looked at.
- `LossOnlyBySnapshotRace`: batching *does* lose rows, those pushed between another worker's
  reading (185) and clearing (190) of the buffer, and the property says that this is the only way.
  Rows of a table without a buffer (`PushUnknown`, reached when `raid_token` is empty) are
  dropped too, and reported as success. Rows still buffered at shutdown are lost as well
  (`releaseResource` frees the buffers unsent); shutdown is not part of `BatchBuffer`.
- `InsertedAtMostOnce` depends on error 2013 (session lost while waiting for the answer) *not*
  being among the errors that fail over, and on 2006 meaning that the statement was not sent.
- `FailoverWhenDue` has an exception for the same reason: a host that vanished may show as 2013 just
  as well as 2006 (`FindLost`), and then the statement fails without being given to the backup,
  although it was never executed. And a select without a result set leaves `errorno` as an earlier
  attempt set it (`DataBaseProxy.cc` 169): the container takes that for the reason and asks the backup.
- `DuplicatesBounded`: a server may have several rows, but no more than one per worker and one per
  statement that failed or ran on the backup. Once there is a row, every later `find` sees one.
- `SerialIsExact`: in the absence of faults, only two workers at the same server at once can do harm.
- `GhostsBounded`: a disk that was exchanged for another is shown offline after two equal reports,
  not after one, because the first still fits the number of rows; and a disk without a serial
  number, which is counted but not stored, can hide one that is gone for good.
- `BackOnline` assumes that the schema's default for `online_status` is online: `insert` does not
  set the column. `GhostsBounded` does not assume it, because the second report sets it.
- `PartitionsExact`: if the partition with index 0 has no name, nothing is pruned.
- `InOverstatedOnlyBackwards`: `in_speed` alone compares unsigned differences with zero, so a counter
  that wrapped, a restarted server or an old sample yields a speed of up to 2^64 octets; its two
  siblings compare the operands, and claim more than there was only after a sample without the
  counter (`OutOverstatedOnlyAfterGap`): the update leaves the old counter and renews the time
  (`SNMPDataDB.cc` 748). A disk without a row is another exception: its whole counter is divided by
  the seconds since 1970.
- `MYSQL_OPT_RECONNECT` is an enumerator, not a macro, so the `#ifdef` in `connect` is false and
  the client library does not reconnect behind the proxy's back; `DbProxy` has no such step.

## 4. Fairness

- `TaskQueue`: weak fairness of the listener and of each worker: the scheduler runs a runnable
  thread, and handlers return. The order in which the mutex is granted is left open, and spurious
  wakeups are possible but never needed.
- `BatchBuffer`: weak fairness of each worker once it is inside `db_insert`: the locked sections
  are short and never nested, and the database calls return (`CallReturns`). No row need arrive.
- `DbProxy`: weak fairness of the call: `mysql_query` and `mysql_real_connect` return. The servers
  are under no obligation.
- `Mapping`: weak fairness of each worker inside `getMap`, `expandMap` or `initialize`: `d_mutex` is held
  for a few statements only, so a section under it is a step that a waiting thread eventually
  takes. Weak fairness of the master for each request that reaches it, and of the supervisor's
  loop. Strong fairness of taking each answer, and of taking data: the queue is first in, first out,
  so what is in it is reached whenever workers come back to it, though not by a given worker.
  `ReaderGetsIn` assumes that updates cease, because the code gives updaters precedence.
- `Listener`: weak fairness of the thread as a whole, which includes that the alert module takes its
  copy (the `send` blocks). The peers are under no obligation; what that costs is the premise of
  `EveryConnectionCloses`.

## 5. Proofs

All theorems are proved by TLAPS for every value of the constants, from the assumptions stated in
the component's module:

- `TaskQueueAssumption`: the listener is no worker, NULL is none of the others;
- `BatchAssumption`: finitely many workers, thresholds are natural numbers;
- `ProxyAssumption`: budgets are natural numbers, at least one connection attempt;
- `SensorMapAssumption`, `StatusAssumption`: finitely many workers;
- `MappingAssumption`: data messages have at least one sensor;
- `ReportAssumption`: finitely many disks; a report is a record of the fields the handler reads;
- `SpeedAssumption`: the arithmetic is wider than the counter and the clock (64 bits against 32);
- `ListenerAssumption`: finitely many peers, each with messages in finitely many pieces; every
  message has a body, because every class has a required field; and a body has its required fields, in
  the order in which the generated `SerializeWithCachedSizes` write them, the order of their numbers
  (`AsWritten`);
- `ValueMapAssumption`: the threshold is at least one. The names, tables and columns are no parameters;
- `SsdAssumption`: a report consists of lines of words in the order in which the script on the monitored
  server prints them, with no more than ten words to a raw value, and smartctl's keywords only where they
  belong;
- `FruMapAssumption`: the names without a column are not those with one;
- `ConfigAssumption`: the int parameters have a maximum, as all of them do in `datapool_main.cc`, and an
  int is no wider than the 64 bits of the conversion. `Kibibyte`, `Size64` and `SizeInt` may be the real
  ones.

The arguments:

- `TaskQueueProofs`. `IInv` adds to the checked invariants `Mutual` (who is between lock and
  unlock owns the mutex), `PeekedIsHead` (what a worker peeked at is still the head),
  `CarriesMessage` and `ReadAlready`. It is needed because `ListShape` alone is not preserved by
  `Link` or `Pop`: that takes mutual exclusion and the knowledge of which addresses are free.
  There is one lemma per action that touches the list. `Refinement` proves that every
  step is a step of `Fifo` or a stutter; `FifoKeepsOneOwner` proves `ExactlyOnce` of `Fifo`, and
  `OneOwner` transfers it to the threads.
- `BatchBufferProofs`. `CountBound` is inductive by counting the workers at `check` and `reset`;
  `Counted` (with no worker at `parse` or `clear`, the counter has counted every buffered row)
  gives `NoForgottenFlush`; `LossOnlyBySnapshotRace` needs `SnapshotComplete`, and
  `ResentOnlyBySnapshotRace` needs `SentHasLeft`, `BufferedGiven` and `OwnBuffer`: a row in a buffer can
  only be in the hands of a worker about to clear that same buffer.
- `DbProxyProofs`. `BudgetKept` relates the attempts made to the counter at every point of the
  loop; with it, giving up means that the budget is exhausted, which gives `FailoverRight`: the call
  neither ends on an unreachable common database without asking the backup, nor asks it earlier.
  `ErrorIsOwn` says that an error left in `errorno` was met on this database in this call, which bounds
  what a select that cannot store its result may hand over.
  `Refinement` maps each step to one of `DbCall` or to a stutter: lock errors, lost sessions and
  connection attempts change nothing a caller can see, because none of them leaves an insert
  executed. `CallInsertsOnce` is the same promise, proved of `DbCall` alone. `CallEnds` is what can be
  proved of `CallReturns`: `StepsLeft` is a number that each step of a call lowers (`NearerToEnd`): a retry
  or a failover leaves a round less, any other step that does not end the call shortens the round. So
  no pattern of lock errors, lost sessions and refused connections keeps a call going for ever; that
  the steps are taken is the fairness of the run.
- `MappingProofs`. The lemmas of its first part say of each step of the lock that it keeps the invariant
  if at most one worker is at an update before it (`Alone`), because `RequestStands` (the flag is up
  exactly while an updater is inside) is false with two. They are used for the steps of `SensorMap`
  inside `Mapping`, where any worker may get an update: as long as no two updates have met in this life of the process (`overlapped`), the lock's
  invariant holds, and a restart establishes it anew (`LockHolds`). `MapTyped` needs that answers,
  and what workers have in hand of them, are within what the master has assigned, which only grows.
  `NullNeedsRestart`: in the first process an update exists only after its map does, so `published` is
  implied by any request or answer of that kind, until the first restart.
- `StatusTableProofs`. `DuplicatesBounded` is not inductive: a worker that has found nothing will add
  a row. `PendingBounded` counts it already, and a `find` that comes back empty shows there was no
  row, so that the workers about to insert are all there is to count. For `ForeignNeedsTwoTroubles`,
  `FoundIsOwn` says that before the second detour the id in hand is one of the common database and
  of the right server; `IdsUnique` and `BackupUsed` carry it through inserts. `SerialHandlingIsExact`
  follows one worker through its message: `SerialKept` says for each of its stations what the row
  of its server is meanwhile, which no other worker touches as long as it is not in `overlapped`.
- `ServerReportProofs`. A report is followed list by list. `PartitionsKept` says that the partitions done so
  far are in the table, and exactly the report's once the others are pruned. `RowsKept` says that every
  disk handled has a row; with it `OnlineKept` (the disks handled are online, all of them after one
  good report, or after two if the schema does not insert rows as online) and `GhostsKept` (between the
  marking and the end of a list, no more than the unnamed disks can hide a ghost) are inductive. The
  last needs cardinalities: as many rows as were counted, of which the named ones are all there.
  A crash anywhere sets `faulty`, and nothing is claimed until the next reports.
- `ValuesProofs`, speeds. The invariant is `SamplesOfThePast`: between any two samples, in flight or stored, that
  are in order, the counter grew by at most the traffic of the ticks between: a server that restarted or
  a counter that wrapped only makes it lower. Wherever the operands are compared first, the difference
  is therefore never more than the traffic; `SpeedsKept` carries this
  through `Look`, the three divisions and `Store`, in which a sample without the counter leaves the old
  one under a new time. That this is what status rows do is `RowRemembers`, about `ValueMap`: of every
  number a row has the last value sent, whatever names come and go. Its lemma `TablesDistinguish` is about
  the names themselves, table by table.
- `ValuesProofs`, rows. `RowsKept` says that a row without the foreign name has a value for each column,
  each of the name that stands there in the order of the maps, and that the foreign name makes a row one
  longer. It is inductive because of two facts about names: the order of the maps is that of the columns,
  except for `ir_pd` (`Fits`, shown table by table from the places of the columns among all names), and no
  table knows the foreign name. `RefusedForForeignName` and `OnlyIrPdMisplaced` follow.
- `ValuesProofs`, texts. The three parsers are followed item by item, so what a loop computes for an input
  of any length becomes an invariant of its turns. `KeyKept` (FRU) says that the column in hand is that of the
  last entry taken that has one. `ConfigInv` says that no line that fails has been passed and that nothing
  assigned is out of range. `ReadingRight` (SSD) says where the reader of words stands in its line: outside a
  table; in step with the line (`InStep`); in the rest of a line whose attribute is unknown (`InRest`), with
  as many words in hand as it is past the tenth; or, on the line after that, with more words in hand than
  the line has had (`Spoiled`), until the tenth ends that row and throws the rest of the line away.
- `ListenerProofs`. For the accept queue, `InPlace` says where each connection is: not yet arrived, in
  the queue once, in the batch, or being read; the bound on the queue then follows by counting the edges
  and the arrivals that made none. For the buffer, `MessagesKept` and `ReadingKept` say how many
  cells were taken and where the next go. As long as the peer has not paused early or twice, the
  buffer is `Straight` (every cell in its place, up to what was taken) or, once the read after an `EAGAIN`
  was not counted, `Skewed`, and then nothing can be queued before a second pause. `PausedEarly` and
  `PausedTwice` are disjuncts of `DamageNeedsAPause`; the one left, a pause near the end, is where a
  straight buffer is forwarded before its last cells have come. `SizeKept` says that, unless the peer
  has paused early, the size is right and no more is counted than has come, so that it fits into the
  buffer. `CutMessageIsAttributed` needs
  `ReceivedKept`: a queued message has the first fields of a body that some peer sends. As the body is
  `AsWritten`, a field that was parsed has with it every field the class writes before it; and among
  the prefixes of a body there is a longest with a given property (`Greatest`, from the
  well-foundedness of `<`).

Only model-checked:

- everything under fairness (`EveryMessageHandled`, `FullBufferIsSent`, `CallReturns`, `EveryoneGetsIn`,
  `MapSettles`, `EveryConnectionCloses`), which is outside the prover's reach; of `CallReturns`,
  `CallEnds` proves that the steps of a call are bounded;
- the violated properties, which no theorem can state; `ColumnsInPlace` fails for the one table that
  `OnlyIrPdMisplaced` leaves out.

The invariants of the proofs were checked by TLC on the instances above before they were proved.

## 6. Plan

1. `DbProxy` implements the database call of `BatchBuffer`, whose outcomes are also those of a statement
   of `StatusTable`: both follow from `DbCall` once its steps are taken as one.
2. `Shutdown` composed with `BatchBuffer`: the buffers are freed while workers may be inside.
3. Action properties of the mapping protocol, as theorems.

## 7. Not modelled

- Logging, whose only effect is output (`cur_bytes`, a racy counter, ends there too).
- The text of SQL statements, except for which names and values they have; quoting; lengths.
- The hp tables (`mib_type` 3): they have no entry in `getTableSchema`, so nothing is sent to their
  history, and the keys of their status rows depend on a schema that is not in the repository.
- The bytes of a message: varints, tags, unknown fields, merging of repeated messages, a string cut in
  the middle. `Messages` and `Listener` treat a field as one cell.
- What else may follow when a read goes over the end of its buffer (`Overrun` lets the server end or go
  on as if nothing had happened, not go on with other variables overwritten), and what memory holds
  behind the end of the parameters' table (`datapool_main.cc` 114: it has no entry that ends it, as
  `parse_cfg_file` expects).
- The set-up of the listening socket, each step of which succeeds or ends the process; a peer that sends
  more than one message on a connection, which the server closes after the first.
- The master and the alert module beyond what they send and take; `src/bin/protobuf`, a copy of
  the generated classes; the sample client.
