-------------------------------- MODULE Speed --------------------------------
(***************************************************************************)
(* Speeds of network interfaces and disks (src/bin/SNMPDataDB.cc): the     *)
(* octet counter of a sample minus that of the status row, over the time   *)
(* between them, in unsigned arithmetic. The counter wraps and restarts at *)
(* zero with the server; samples may be stored in another order than they  *)
(* were collected, as several workers store them; and a sample may lack the*)
(* counter, when the collector timed out on it: the update then leaves the *)
(* old counter in the row but renews its time (module ValueMap). in_speed, *)
(* out_speed and the two speeds of a disk are computed from the same kind  *)
(* of counter by three different guards.                                   *)
(***************************************************************************)
EXTENDS Integers, FiniteSets

CONSTANTS Workers,
          CounterSize,  \* the counter counts modulo this
          ArithSize,    \* unsigned long long int counts modulo this
          MaxClock,     \* bound: the time of the last sample
          MaxBurst,     \* bound: traffic per tick
          MaxSamples    \* bound: samples collected

ASSUME SpeedAssumption ==
    /\ CounterSize \in Nat \ {0}
    /\ ArithSize \in Nat /\ ArithSize > CounterSize /\ ArithSize > MaxClock
    /\ MaxClock \in Nat /\ MaxBurst \in Nat /\ MaxSamples \in Nat

VARIABLES clock, count,  \* of the monitored server
          total,         \* history only: traffic since the beginning
          collected,     \* number of samples so far
          wire,          \* samples not yet taken by a worker
          row,           \* the last sample stored, or None
          hand, prev,    \* per worker: its sample, and the row it has read
          result,        \* per worker: findPrevious* had an answer
          speeds         \* history only: the speeds stored last

server == <<clock, count, total, collected>>
vars == <<server, wire, row, hand, prev, result, speeds>>

(* measured is the time at which the counter was read (history only): that *)
(* of the sample, but in a row perhaps that of an earlier one.             *)
NoCount == -1
Sample == [time : Nat, count : {NoCount} \cup 0..(CounterSize - 1),
           total : Nat, measured : Nat]
None == [time |-> 0, count |-> NoCount, total |-> -1, measured |-> 0]

(* A speed, as octets over seconds.                                        *)
Zero == [octets |-> 0, seconds |-> 1]

Init ==
    /\ clock = 1 /\ count \in 0..(CounterSize - 1) /\ total = 0 /\ collected = 0
    /\ wire = {} /\ row = None
    /\ hand = [w \in Workers |-> None]
    /\ prev = [w \in Workers |-> None]
    /\ result = [w \in Workers |-> FALSE]
    /\ speeds = [cur |-> None, old |-> None, in |-> Zero, out |-> Zero, disk |-> Zero]

(* Time passes on the server, with traffic.                                *)
Tick(n) ==
    /\ clock < MaxClock
    /\ clock' = clock + 1
    /\ count' = (count + n) % CounterSize
    /\ total' = total + n
    /\ UNCHANGED <<collected, wire, row, hand, prev, result, speeds>>

Reboot ==
    /\ count' = 0
    /\ UNCHANGED <<clock, total, collected, wire, row, hand, prev, result, speeds>>

Now(c) == [time |-> clock, count |-> c, total |-> total, measured |-> clock]

Collect ==
    /\ collected < MaxSamples /\ collected' = collected + 1
    /\ \E c \in {count, NoCount} : wire' = wire \cup {Now(c)}
    /\ UNCHANGED <<clock, count, total, row, hand, prev, result, speeds>>
-----------------------------------------------------------------------------
(* findPreviousIFIO, findPreviousDISKIO: the row, if any and if the query  *)
(* has an answer.                                                          *)
Look(w) ==
    /\ hand[w] = None
    /\ \E s \in wire :
          /\ hand' = [hand EXCEPT ![w] = s]
          /\ wire' = wire \ {s}
    /\ \E r \in BOOLEAN :
          /\ result' = [result EXCEPT ![w] = r]
          /\ prev' = [prev EXCEPT ![w] = IF r THEN row ELSE None]
    /\ UNCHANGED <<server, row, speeds>>

(* a - b of unsigned numbers.                                              *)
Minus(a, b) == (a - b) % ArithSize

Over(s, p) == [octets |-> Minus(s.count, p.count), seconds |-> Minus(s.time, p.time)]

(* The guards of all three; a counter that is NULL in the row is not in the*)
(* maps.                                                                   *)
Comparable(s, p) == s.count # NoCount /\ p.count # NoCount

(* An operator whose name ends in _M is a fault of the operator below it,  *)
(* seeded to show that a property can tell the two apart; no behaviour     *)
(* uses it.                                                                *)
Unseen_M(s, p) ==
    IF Minus(s.time, p.time) > 0 /\ Minus(s.count, p.count) > 0 THEN Over(s, p) ELSE Zero

(* Differences are greater than zero whenever they are not zero.           *)
InSpeed(s, p) ==
    IF /\ Comparable(s, p)
       /\ Minus(s.time, p.time) > 0 /\ Minus(s.count, p.count) > 0
    THEN Over(s, p) ELSE Zero

LikeIn_M(s, p) == InSpeed(s, p)

(* Compared before they are subtracted.                                    *)
OutSpeed(s, p) ==
    IF Comparable(s, p) /\ s.time > p.time /\ s.count > p.count
    THEN Over(s, p) ELSE Zero

(* An index that is not in the maps of findPreviousDISKIO reads as 0.      *)
FromZero(p) == IF p.count = NoCount THEN [p EXCEPT !.count = 0] ELSE p

DiskLikeIn_M(s, p, r) == IF r THEN InSpeed(s, FromZero(p)) ELSE Zero

DiskSpeed(s, p, r) == IF r THEN OutSpeed(s, FromZero(p)) ELSE Zero

(* updateIfStatus, updateDiskStatus: the row becomes the sample, but for a *)
(* counter that the sample lacks.                                          *)
Merged(s) ==
    IF s.count = NoCount /\ row # None
    THEN [row EXCEPT !.time = s.time]
    ELSE s

Store(w) ==
    /\ hand[w] # None
    /\ row' = Merged(hand[w])
    /\ speeds' = [cur |-> hand[w], old |-> prev[w],
                  in |-> InSpeed(hand[w], prev[w]),
                  out |-> OutSpeed(hand[w], prev[w]),
                  disk |-> DiskSpeed(hand[w], prev[w], result[w])]
    /\ hand' = [hand EXCEPT ![w] = None]
    /\ prev' = [prev EXCEPT ![w] = None]
    /\ result' = [result EXCEPT ![w] = FALSE]
    /\ UNCHANGED <<server, wire>>
-----------------------------------------------------------------------------
Next ==
    \/ \E n \in 0..MaxBurst : Tick(n)
    \/ Reboot \/ Collect
    \/ \E w \in Workers : Look(w) \/ Store(w)

Spec == Init /\ [][Next]_vars
-----------------------------------------------------------------------------
Distance(a, b) == IF a > b THEN a - b ELSE b - a

(* A speed is greater than the traffic between the two readings was.       *)
Overstated(s) ==
    s.octets * Distance(speeds.cur.time, speeds.old.measured)
        > s.seconds * Distance(speeds.cur.total, speeds.old.total)

(* The counter of the row is older than the row.                           *)
Gap == speeds.old.measured # speeds.old.time

(* Whatever the wrap-arounds, reboots and reorderings, out_speed is more   *)
(* than what really went out between the two samples only if the one before*)
(* lacked the counter: the traffic of both intervals is then divided by the*)
(* length of the second.                                                   *)
OutOverstatedOnlyAfterGap ==
    speeds.old # None /\ Overstated(speeds.out) => Gap

(* in_speed is also when the counter is lower than the stored one (it      *)
(* wrapped, or the server restarted) or the sample is older than the row.  *)
InOverstatedOnlyBackwards ==
    /\ speeds.old = None => speeds.in = Zero
    /\ speeds.old # None /\ Overstated(speeds.in) =>
          Gap \/ speeds.cur.count < speeds.old.count \/ speeds.cur.time < speeds.old.time

(* A disk's speed is more than the traffic between two samples only after  *)
(* a gap too, or if the row has no counter. It is then the whole counter   *)
(* over the time since the row's, and for a disk without a row since 1970. *)
DiskOverstatedOnlyFirst ==
    IF speeds.old.count = NoCount
    THEN speeds.disk \in {Zero, [octets |-> speeds.cur.count,
                                seconds |-> speeds.cur.time - speeds.old.time]}
    ELSE Overstated(speeds.disk) => Gap
-----------------------------------------------------------------------------
(* Why these hold: what is known of the samples at any time.               *)
TypeOK ==
    /\ clock \in 1..(ArithSize - 1) /\ count \in 0..(CounterSize - 1)
    /\ total \in Nat /\ collected \in Nat
    /\ wire \subseteq Sample
    /\ row \in Sample \cup {None}
    /\ hand \in [Workers -> Sample \cup {None}]
    /\ prev \in [Workers -> Sample \cup {None}]
    /\ result \in [Workers -> BOOLEAN]

(* Only in a row may the time and the counter be of different samples.     *)
Fresh == wire \cup {hand[w] : w \in Workers}

Samples == (Fresh \cup {row} \cup {prev[w] : w \in Workers}) \ {None}

FreshAsMeasured == \A s \in Fresh : s.time = s.measured

(* The counter has grown since a reading by no more than the traffic.      *)
Past(s) ==
    /\ s.time <= clock /\ s.measured <= clock /\ s.total <= total
    /\ s.measured = clock => s.total = total
    /\ s.count # NoCount => count <= s.count + (total - s.total)

(* So it has between any two readings at different times.                  *)
InOrder(s, t) ==
    s.measured < t.measured =>
        /\ s.total <= t.total
        /\ s.count # NoCount /\ t.count # NoCount =>
              t.count <= s.count + (t.total - s.total)

SamplesOfThePast ==
    /\ \A s \in Samples : Past(s)
    /\ \A s, t \in Samples : InOrder(s, t)

SpeedsKept ==
    OutOverstatedOnlyAfterGap /\ InOverstatedOnlyBackwards /\ DiskOverstatedOnlyFirst

IInv == TypeOK /\ FreshAsMeasured /\ SamplesOfThePast /\ SpeedsKept
=============================================================================
