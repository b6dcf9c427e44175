---------------------------- MODULE ListenerProofs ----------------------------
(* Proofs about the listener thread, for any number of peers, any messages *)
(* and any number of pieces they come in.                                  *)
EXTENDS Listener, FiniteSetTheorems, SequenceTheorems, WellFoundedInduction, TLAPS

LEMMA Sizes ==
    ASSUME TypeOK, MessagesKept, NEW c \in Conns
    PROVE  /\ Header \in Nat /\ SizeCells \in 1..Header
           /\ Size(c) \in Nat /\ Total(c) = Header + Size(c)
           /\ conn[c] # "none" => Size(c) > 0
           /\ arrived[c] \in 0..Total(c)
           /\ cuts[c] \subseteq 1..(Total(c) - 1)
           /\ Pauses(c) \subseteq 0..(Total(c) - 1)
<1>1. Header \in Nat /\ SizeCells \in 1..Header
  BY ListenerAssumption
<1>2. Size(c) \in Nat /\ (conn[c] # "none" => Size(c) > 0)
  <2>1. CASE conn[c] # "none"
    BY <2>1, ListenerAssumption DEF MessagesKept, Size, Body
  <2>2. CASE conn[c] = "none"
    BY <2>2 DEF MessagesKept, Size, Body, NoForm
  <2>3. QED
    BY <2>1, <2>2
<1>3. Total(c) = Header + Size(c)
  BY DEF Total
<1>4. arrived[c] \in 0..Total(c) /\ cuts[c] \subseteq 1..(Total(c) - 1)
  BY <1>1, <1>2, <1>3 DEF MessagesKept, TypeOK
<1>5. Pauses(c) \subseteq 0..(Total(c) - 1)
  BY <1>1, <1>2, <1>3, <1>4 DEF Pauses
<1>6. QED
  BY <1>1, <1>2, <1>3, <1>4, <1>5

(* Only the end of a reading comes to anything.                            *)
LEMMA NoDamage ==
    ASSUME QueuedAsSent, ReceivedKept, received' \in {received, Nothing, Lost}
    PROVE  QueuedAsSent' /\ ReceivedKept'
BY DEF QueuedAsSent, ReceivedKept, Nothing, Lost

(* While nothing comes from the peer that is read from, and the thread does*)
(* not move.                                                               *)
LEMMA ReadingStays ==
    ASSUME ReadingKept, SizeKept, UNCHANGED <<pc, reading>>,
           pc # "wait" => /\ arrived'[at] = arrived[at] /\ cuts'[at] = cuts[at]
                          /\ form'[at] = form[at]
    PROVE  ReadingKept' /\ SizeKept'
<1>1. CASE pc = "wait"
  BY <1>1 DEF ReadingKept, SizeKept
<1>2. CASE pc # "wait"
  <2>1. Size(at)' = Size(at) /\ Total(at)' = Total(at) /\ Pauses(at)' = Pauses(at)
    BY <1>2 DEF Size, Body, Total, Pauses, reading
  <2>2. ReadingKept'
    BY <1>2, <2>1 DEF ReadingKept, PausedEarly, PausedTwice, Straight, Skewed, reading
  <2>3. SizeKept'
    BY <1>2, <2>1 DEF SizeKept, PausedEarly, reading
  <2>4. QED
    BY <2>2, <2>3
<1>3. QED
  BY <1>1, <1>2
-----------------------------------------------------------------------------
(* The queue cannot hold more connections than there are.                  *)
LEMMA BacklogFits ==
    ASSUME NEW s \in Seq(Conns), \A i, j \in 1..Len(s) : s[i] = s[j] => i = j
    PROVE  Len(s) <= Cardinality(Conns)
<1>1. Len(s) \in Nat /\ s \in [1..Len(s) -> Conns]
  OBVIOUS
<1>2. s \in Injection(1..Len(s), Conns)
  BY <1>1 DEF Injection, IsInjective
<1>3. Cardinality(1..Len(s)) <= Cardinality(Conns)
  BY <1>2, FS_Injection, ListenerAssumption
<1>4. QED
  BY <1>1, <1>3, FS_Interval

LEMMA InitInv == Init => IInv
<1> SUFFICES ASSUME Init PROVE IInv
  OBVIOUS
<1> USE DEF Init
<1>1. Cardinality(Conns) \in Nat /\ Header \in Nat /\ Header > 0
  BY FS_CardinalityType, ListenerAssumption
<1>2. TypeOK
  <2>1. form \in [Conns -> (UNION {Forms[c] : c \in Conns}) \cup {NoForm}]
    OBVIOUS
  <2>2. cuts \in [Conns -> SUBSET Nat] /\ backlog \in Seq(Conns)
    OBVIOUS
  <2>3. /\ bursts \in 0..Cardinality(Conns) /\ at \in Conns \cup {NoConn}
        /\ batch \subseteq Conns \cup {Listening} /\ pc \in {"wait", "read", "retry", "forward"}
    BY <1>1
  <2>4. /\ conn \in [Conns -> {"none", "backlog", "open"}] /\ arrived \in [Conns -> Nat]
        /\ gone \in [Conns -> BOOLEAN] /\ event \in BOOLEAN
        /\ siz \in Nat /\ cur \in Nat /\ taken \in Nat
    OBVIOUS
  <2>5. QED
    BY <2>1, <2>2, <2>3, <2>4 DEF TypeOK
<1>3. InPlace
  BY DEF InPlace
<1>4. \A c \in Conns : Size(c) = 0 /\ Total(c) = Header
  BY <1>1 DEF Total, Size, Body, NoForm
<1>5. MessagesKept
  BY <1>1, <1>4 DEF MessagesKept
<1>6. ReadingKept /\ SizeKept
  BY DEF ReadingKept, SizeKept
<1>7. BacklogExplained /\ QueuedAsSent /\ ReceivedKept
  BY DEF BacklogExplained, Pending, QueuedAsSent, ReceivedKept, Nothing
<1>8. QED
  BY <1>2, <1>3, <1>5, <1>6, <1>7 DEF IInv

(* One more in the queue: with an event of its own, or behind a connection *)
(* whose event is not yet reported.                                        *)
LEMMA ConnectStep ==
    ASSUME IInv, NEW c \in Conns, Connect(c)
    PROVE  IInv'
<1> USE DEF IInv
<1>1. /\ conn[c] = "none" /\ conn' = [conn EXCEPT ![c] = "backlog"]
      /\ backlog' = Append(backlog, c) /\ event' = TRUE /\ received' = Nothing
      /\ bursts' = IF event /\ bursts < Cardinality(Conns) THEN bursts + 1 ELSE bursts
      /\ UNCHANGED <<arrived, cuts, gone, pc, batch, reading>>
  BY DEF Connect
<1>2. PICK f \in Forms[c] : form' = [form EXCEPT ![c] = f]
  BY DEF Connect
<1>3. /\ Len(backlog) \in Nat /\ backlog' \in Seq(Conns) /\ Len(backlog') = Len(backlog) + 1
      /\ \A i \in 1..Len(backlog) : backlog'[i] = backlog[i] /\ backlog[i] # c
      /\ backlog'[Len(backlog) + 1] = c
  BY <1>1 DEF TypeOK, InPlace
<1>4. /\ at # c /\ c \notin batch /\ c # Listening
      /\ at # NoConn => conn'[at] = conn[at] /\ form'[at] = form[at]
      /\ \A d \in batch \ {Listening} : conn'[d] = conn[d]
  BY <1>1, <1>2, ListenerAssumption DEF InPlace, TypeOK
<1>5. Cardinality(Conns) \in Nat
  BY FS_CardinalityType, ListenerAssumption
<1>6. TypeOK'
  BY <1>1, <1>2, <1>3, <1>5 DEF TypeOK, reading
<1>7. InPlace'
  <2>1. (\A i, j \in 1..Len(backlog) : backlog[i] = backlog[j] => i = j)'
    BY <1>3 DEF InPlace
  <2>2. (\A i \in 1..Len(backlog) : conn[backlog[i]] = "backlog")'
    BY <1>1, <1>3 DEF InPlace, TypeOK
  <2>3. QED
    BY <1>1, <1>4, <2>1, <2>2 DEF InPlace, reading
<1>8. MessagesKept'
  <2>1. Len(f.body) \in Nat /\ Len(f.body) > 0 /\ Header \in Nat /\ Header > 0
    BY ListenerAssumption
  <2>2. Total(c)' = Header + Len(f.body) /\ Total(c)' > 0 /\ Total(c)' \in Nat
    BY <1>2, <2>1 DEF Total, Size, Body, TypeOK
  <2>3. ASSUME NEW d \in Conns, d # c
        PROVE  /\ form'[d] = form[d] /\ conn'[d] = conn[d] /\ Total(d)' = Total(d)
               /\ arrived'[d] = arrived[d] /\ cuts'[d] = cuts[d]
    BY <1>1, <1>2, <2>3 DEF Total, Size, Body, TypeOK
  <2>4. /\ form'[c] = f /\ conn'[c] = "backlog" /\ arrived'[c] = 0 /\ cuts'[c] = {}
    BY <1>1, <1>2 DEF MessagesKept, TypeOK
  <2>5. QED
    BY <2>2, <2>3, <2>4 DEF MessagesKept
<1>9. ReadingKept' /\ SizeKept'
  BY <1>1, <1>4, ReadingStays DEF InPlace
<1>10. BacklogExplained'
  <2>1. CASE event /\ bursts = Cardinality(Conns)
    <3>1. Len(backlog') <= Cardinality(Conns)
      <4>1. backlog' \in Seq(Conns)
        BY <1>3
      <4>2. \A i, j \in 1..Len(backlog') : backlog'[i] = backlog'[j] => i = j
        BY <1>7 DEF InPlace
      <4>3. QED
        BY <4>1, <4>2, BacklogFits
    <3>2. QED
      BY <1>1, <1>3, <1>5, <2>1, <3>1 DEF BacklogExplained, Pending, TypeOK
  <2>2. CASE ~(event /\ bursts = Cardinality(Conns))
    BY <1>1, <1>3, <1>5, <2>2 DEF BacklogExplained, Pending, TypeOK
  <2>3. QED
    BY <2>1, <2>2
<1>11. QED
  BY <1>1, <1>6, <1>7, <1>8, <1>9, <1>10, NoDamage

(* Every pause stays one.                                                  *)
LEMMA SendPauses ==
    ASSUME TypeOK, MessagesKept, NEW c \in Conns, Send(c)
    PROVE  /\ arrived'[c] \in Nat /\ arrived'[c] > arrived[c]
           /\ Size(c)' = Size(c) /\ Total(c)' = Total(c) /\ arrived'[c] <= Total(c)
           /\ cuts'[c] \in SUBSET (1..(Total(c) - 1)) /\ cuts' \in [Conns -> SUBSET Nat]
           /\ Pauses(c) \ {0} \subseteq Pauses(c)'
           /\ arrived[c] > 0 => arrived[c] \in Pauses(c)'
           /\ \A d \in Conns \ {c} : arrived'[d] = arrived[d] /\ cuts'[d] = cuts[d]
<1>1. /\ arrived[c] < Total(c) /\ form' = form
      /\ cuts' = [cuts EXCEPT ![c] = IF arrived[c] = 0 THEN @ ELSE @ \cup {arrived[c]}]
  BY DEF Send
<1>2. PICK n \in arrived[c] + 1 .. Total(c) : arrived' = [arrived EXCEPT ![c] = n]
  BY DEF Send
<1>3. Size(c)' = Size(c) /\ Total(c)' = Total(c) /\ Total(c) \in Nat
  BY <1>1, Sizes DEF Size, Body, Total
<1>4. arrived[c] \in Nat /\ arrived'[c] = n /\ n \in Nat
  BY <1>2, <1>3 DEF TypeOK
<1>5. cuts'[c] = IF arrived[c] = 0 THEN cuts[c] ELSE cuts[c] \cup {arrived[c]}
  BY <1>1 DEF TypeOK
<1>6. cuts'[c] \in SUBSET (1..(Total(c) - 1))
  BY <1>1, <1>3, <1>4, <1>5, Sizes
<1>7. cuts' \in [Conns -> SUBSET Nat]
  <2>1. (IF arrived[c] = 0 THEN cuts[c] ELSE cuts[c] \cup {arrived[c]}) \in SUBSET Nat
    BY <1>4 DEF TypeOK
  <2>2. QED
    BY <1>1, <2>1 DEF TypeOK
<1>8. Pauses(c) \ {0} \subseteq Pauses(c)' /\ (arrived[c] > 0 => arrived[c] \in Pauses(c)')
  BY <1>4, <1>5 DEF Pauses
<1>9. QED
  BY <1>1, <1>2, <1>3, <1>4, <1>6, <1>7, <1>8 DEF TypeOK

LEMMA SendStep ==
    ASSUME IInv, NEW c \in Conns, Send(c)
    PROVE  IInv'
<1> USE DEF IInv
<1>1. /\ conn[c] # "none" /\ received' = Nothing
      /\ UNCHANGED <<conn, form, gone, backlog, event, bursts, pc, batch, reading>>
  BY DEF Send
<1>2. TypeOK'
  <2>1. arrived' \in [Conns -> Nat]
    <3>1. \E n \in Nat : arrived' = [arrived EXCEPT ![c] = n]
      <4>1. PICK n \in arrived[c] + 1 .. Total(c) : arrived' = [arrived EXCEPT ![c] = n]
        BY DEF Send
      <4>2. n \in Nat
        BY Sizes DEF TypeOK
      <4>3. QED
        BY <4>1, <4>2
    <3>2. QED
      BY <3>1 DEF TypeOK
  <2>2. QED
    BY <1>1, <2>1, SendPauses DEF TypeOK, reading
<1>3. InPlace'
  BY <1>1 DEF InPlace, reading
<1>4. MessagesKept'
  <2>1. ASSUME NEW d \in Conns, d # c
        PROVE  /\ Total(d)' = Total(d) /\ arrived'[d] = arrived[d] /\ cuts'[d] = cuts[d]
    BY <1>1, <2>1, SendPauses DEF Total, Size, Body
  <2>2. QED
    BY <1>1, <2>1, SendPauses DEF MessagesKept
<1>5. ReadingKept' /\ SizeKept'
  <2>1. CASE at # c
    <3>1. pc # "wait" => at \in Conns \ {c}
      BY <2>1 DEF InPlace, TypeOK
    <3>2. pc # "wait" => /\ arrived'[at] = arrived[at] /\ cuts'[at] = cuts[at]
                         /\ form'[at] = form[at]
      BY <1>1, <3>1, SendPauses
    <3>3. QED
      BY <1>1, <3>2, ReadingStays
  <2>2. CASE at = c /\ pc # "wait"
    <3>1. at' = c /\ pc' = pc /\ siz' = siz /\ cur' = cur /\ taken' = taken /\ buffer' = buffer
      BY <1>1, <2>2 DEF reading
    <3>2. arrived'[c] \in Nat /\ arrived[c] \in Nat /\ arrived'[c] > arrived[c] /\ arrived[c] > 0
      BY <2>2, SendPauses DEF ReadingKept, TypeOK
    <3>3. PausedEarly(c) => PausedEarly(c)'
      BY SendPauses DEF PausedEarly
    <3>4. PausedTwice(c) => PausedTwice(c)'
      BY SendPauses DEF PausedTwice
    <3>5. siz = Size(c) /\ taken <= arrived[c]
            => siz' = Size(c)' /\ taken' <= arrived'[c]
      BY <3>1, <3>2, SendPauses DEF TypeOK
    <3>6. Straight => Straight'
      BY <2>2, <3>1, SendPauses DEF Straight
    <3>7. Skewed => Skewed'
      BY <2>2, <3>1, SendPauses DEF Skewed, TypeOK
    <3>8. ReadingKept'
      BY <2>2, <3>1, <3>2, <3>3, <3>4, <3>5, <3>6, <3>7 DEF ReadingKept
    <3>9. SizeKept'
      BY <2>2, <3>1, <3>3, <3>5 DEF SizeKept
    <3>10. QED
      BY <3>8, <3>9
  <2>3. CASE pc = "wait"
    BY <1>1, <2>3 DEF ReadingKept, SizeKept
  <2>4. QED
    BY <2>1, <2>2, <2>3
<1>6. BacklogExplained'
  BY <1>1 DEF BacklogExplained, Pending
<1>7. QED
  BY <1>1, <1>2, <1>3, <1>4, <1>5, <1>6, NoDamage

(* Where the bytes are does not change.                                    *)
LEMMA MessagesStay ==
    ASSUME MessagesKept, UNCHANGED <<form, arrived, cuts>>,
           \A c \in Conns : conn'[c] = "none" <=> conn[c] = "none"
    PROVE  MessagesKept'
BY DEF MessagesKept, Total, Size, Body

LEMMA LeaveStep ==
    ASSUME IInv, NEW c \in Conns, Leave(c)
    PROVE  IInv'
<1> USE DEF IInv
<1>1. /\ received' = Nothing /\ gone' = [gone EXCEPT ![c] = TRUE]
      /\ UNCHANGED <<conn, form, arrived, cuts, backlog, event, bursts, pc, batch, reading>>
  BY DEF Leave
<1>2. TypeOK' /\ InPlace'
  <2>1. gone' \in [Conns -> BOOLEAN]
    BY <1>1 DEF TypeOK
  <2>2. TypeOK'
    BY <1>1, <2>1 DEF TypeOK, reading
  <2>3. QED
    BY <1>1, <2>2 DEF InPlace, reading
<1>3. MessagesKept' /\ ReadingKept' /\ SizeKept'
  BY <1>1, MessagesStay, ReadingStays
<1>4. BacklogExplained'
  BY <1>1 DEF BacklogExplained, Pending
<1>5. QED
  BY <1>1, <1>2, <1>3, <1>4, NoDamage

(* The event of the listening socket moves into the batch.                 *)
LEMMA WaitStep ==
    ASSUME IInv, Wait
    PROVE  IInv'
<1> USE DEF IInv
<1>1. /\ pc = "wait" /\ batch = {} /\ event' = FALSE /\ received' = Nothing
      /\ batch' = Ready \cup (IF event THEN {Listening} ELSE {})
      /\ UNCHANGED <<conn, form, arrived, cuts, gone, backlog, bursts, pc, reading>>
  BY DEF Wait
<1>2. Ready \subseteq Conns /\ Listening \notin Ready /\ \A c \in Ready : conn[c] = "open"
  BY ListenerAssumption DEF Ready
<1>3. TypeOK'
  BY <1>1, <1>2 DEF TypeOK, reading
<1>4. InPlace'
  BY <1>1, <1>2 DEF InPlace, reading
<1>5. MessagesKept' /\ ReadingKept' /\ SizeKept'
  BY <1>1, MessagesStay, ReadingStays
<1>6. BacklogExplained'
  BY <1>1, <1>2 DEF BacklogExplained, Pending, TypeOK
<1>7. QED
  BY <1>1, <1>3, <1>4, <1>5, <1>6, NoDamage

LEMMA RestOfQueue ==
    ASSUME NEW S, NEW s \in Seq(S), s # <<>>
    PROVE  /\ Len(s) \in Nat \ {0} /\ s[1] \in S
           /\ SubSeq(s, 2, Len(s)) \in Seq(S)
           /\ Len(SubSeq(s, 2, Len(s))) = Len(s) - 1
           /\ \A i \in 1..Len(SubSeq(s, 2, Len(s))) : SubSeq(s, 2, Len(s))[i] = s[i + 1]
<1>1. Len(s) \in Nat \ {0} /\ \A i \in 1..Len(s) : s[i] \in S
  OBVIOUS
<1> DEFINE rest == SubSeq(s, 2, Len(s))
<1>2. /\ rest \in Seq(S)
      /\ Len(rest) = IF 2 <= Len(s) THEN Len(s) - 2 + 1 ELSE 0
      /\ \A i \in 1..(Len(s) - 2 + 1) : rest[i] = s[2 + i - 1]
  BY <1>1, SubSeqProperties
<1>3. PICK n \in Nat \ {0} : n = Len(s)
  BY <1>1
<1> HIDE DEF rest
<1>4. Len(rest) = n - 1
  <2>1. CASE n = 1
    BY <1>2, <1>3, <2>1
  <2>2. CASE n >= 2
    BY <1>2, <1>3, <2>2
  <2>3. QED
    BY <2>1, <2>2
<1>5. \A i \in 1..Len(rest) : rest[i] = s[i + 1]
  <2>1. \A i \in 1..(n - 1) : 2 + i - 1 = i + 1 /\ i \in 1..(n - 2 + 1)
    OBVIOUS
  <2>2. QED
    BY <1>2, <1>3, <1>4, <2>1
<1>6. QED
  BY <1>1, <1>2, <1>3, <1>4, <1>5 DEF rest

(* The event was there for a connection, and takes one off the queue.      *)
LEMMA AcceptStep ==
    ASSUME IInv, Accept
    PROVE  IInv'
<1> USE DEF IInv
<1>1. /\ pc = "wait" /\ Listening \in batch /\ backlog # <<>> /\ received' = Nothing
      /\ batch' = batch \ {Listening}
      /\ UNCHANGED <<form, arrived, cuts, gone, event, bursts, pc, reading>>
  BY DEF Accept, Others
<1> DEFINE c == backlog[1]
<1>2. /\ Len(backlog) \in Nat \ {0} /\ backlog' \in Seq(Conns)
      /\ Len(backlog') = Len(backlog) - 1
      /\ \A i \in 1..Len(backlog') : backlog'[i] = backlog[i + 1]
      /\ c \in Conns
  <2>1. /\ backlog \in Seq(Conns) /\ backlog # <<>>
        /\ backlog' = SubSeq(backlog, 2, Len(backlog))
    BY <1>1 DEF Accept, Accepted, TypeOK
  <2>2. QED
    BY <2>1, RestOfQueue
<1>3. conn' = [d \in Conns |-> IF d = c THEN "open" ELSE conn[d]]
  BY <1>1, <1>2 DEF Accept, Accepted, TypeOK
<1>4. conn[c] = "backlog" /\ c \notin batch
  BY <1>2, ListenerAssumption DEF InPlace
<1> HIDE DEF c
<1>5. TypeOK'
  BY <1>1, <1>2, <1>3 DEF TypeOK, reading
<1>6. InPlace'
  <2>1. (\A i, j \in 1..Len(backlog) : backlog[i] = backlog[j] => i = j)'
    <3>1. ASSUME NEW i \in 1..Len(backlog'), NEW j \in 1..Len(backlog'), backlog'[i] = backlog'[j]
          PROVE  i = j
      <4>1. i + 1 \in 1..Len(backlog) /\ j + 1 \in 1..Len(backlog)
            /\ backlog[i + 1] = backlog[j + 1]
        BY <1>2, <3>1
      <4>2. i + 1 = j + 1
        BY <4>1 DEF InPlace
      <4>3. QED
        BY <4>2
    <3>2. QED
      BY <3>1
  <2>2. (\A i \in 1..Len(backlog) : conn[backlog[i]] = "backlog")'
    <3>1. ASSUME NEW i \in 1..Len(backlog') PROVE conn'[backlog'[i]] = "backlog"
      <4>1. i + 1 \in 1..Len(backlog) /\ 1 \in 1..Len(backlog) /\ i + 1 # 1
        BY <1>2
      <4>2. backlog[i + 1] # c /\ conn[backlog[i + 1]] = "backlog" /\ backlog[i + 1] \in Conns
        BY <4>1 DEF InPlace, c, TypeOK
      <4>3. QED
        BY <1>2, <1>3, <4>2
    <3>2. QED
      BY <3>1
  <2>3. \A d \in batch \ {Listening} : conn'[d] = "open"
    BY <1>3 DEF InPlace, TypeOK
  <2>4. at = NoConn
    BY <1>1 DEF InPlace
  <2>5. QED
    BY <1>1, <2>1, <2>2, <2>3, <2>4 DEF InPlace, reading
<1>7. MessagesKept' /\ ReadingKept' /\ SizeKept'
  BY <1>1, <1>3, <1>4, MessagesStay, ReadingStays DEF TypeOK
<1>8. BacklogExplained'
  BY <1>1, <1>2 DEF BacklogExplained, Pending, TypeOK
<1>9. QED
  BY <1>1, <1>5, <1>6, <1>7, <1>8, NoDamage
-----------------------------------------------------------------------------
(* A connection is closed by the thread that reads from it.                *)
LEMMA CloseStep ==
    ASSUME IInv, NEW c \in Conns, conn[c] = "open", NEW what, Close(c, what),
           batch' \subseteq batch, c \notin batch',
           Listening \in batch' <=> Listening \in batch
    PROVE  TypeOK' /\ InPlace' /\ MessagesKept' /\ ReadingKept' /\ SizeKept' /\ BacklogExplained'
<1> USE DEF IInv
<1>1. /\ conn' = [conn EXCEPT ![c] = "none"] /\ form' = [form EXCEPT ![c] = NoForm]
      /\ arrived' = [arrived EXCEPT ![c] = 0] /\ cuts' = [cuts EXCEPT ![c] = {}]
      /\ gone' = [gone EXCEPT ![c] = FALSE] /\ pc' = "wait" /\ at' = NoConn
      /\ siz' = 0 /\ cur' = 0 /\ taken' = 0 /\ UNCHANGED <<backlog, event, bursts>>
  BY DEF Close
<1>2. TypeOK'
  <2>1. /\ form' \in [Conns -> (UNION {Forms[d] : d \in Conns}) \cup {NoForm}]
        /\ conn' \in [Conns -> {"none", "backlog", "open"}]
    BY <1>1 DEF TypeOK
  <2>2. cuts' \in [Conns -> SUBSET Nat] /\ arrived' \in [Conns -> Nat] /\ gone' \in [Conns -> BOOLEAN]
    BY <1>1 DEF TypeOK
  <2>3. QED
    BY <1>1, <2>1, <2>2 DEF TypeOK
<1>3. InPlace'
  <2>1. \A i \in 1..Len(backlog) : backlog[i] # c /\ conn'[backlog[i]] = "backlog"
    BY <1>1 DEF InPlace, TypeOK
  <2>2. \A d \in batch' \ {Listening} : conn'[d] = "open"
    BY <1>1 DEF InPlace, TypeOK
  <2>3. QED
    BY <1>1, <2>1, <2>2 DEF InPlace
<1>4. MessagesKept'
  <2>1. /\ conn'[c] = "none" /\ form'[c] = NoForm /\ arrived'[c] = 0 /\ cuts'[c] = {}
        /\ Total(c)' = Header /\ Header \in Nat
    BY <1>1, ListenerAssumption DEF TypeOK, Total, Size, Body, NoForm
  <2>2. ASSUME NEW d \in Conns, d # c
        PROVE  /\ form'[d] = form[d] /\ conn'[d] = conn[d] /\ Total(d)' = Total(d)
               /\ arrived'[d] = arrived[d] /\ cuts'[d] = cuts[d]
    BY <1>1, <2>2 DEF Total, Size, Body, TypeOK
  <2>3. QED
    BY <2>1, <2>2 DEF MessagesKept
<1>5. ReadingKept' /\ SizeKept'
  BY <1>1 DEF ReadingKept, SizeKept
<1>6. BacklogExplained'
  BY <1>1 DEF BacklogExplained, Pending
<1>7. QED
  BY <1>2, <1>3, <1>4, <1>5, <1>6

(* Who is where, when the thread only reads.                               *)
LEMMA ThreadStays ==
    ASSUME InPlace, MessagesKept, BacklogExplained, UNCHANGED network,
           UNCHANGED batch, UNCHANGED at, pc # "wait", pc' # "wait"
    PROVE  InPlace' /\ MessagesKept' /\ BacklogExplained'
<1>1. InPlace'
  BY DEF InPlace, network
<1>2. MessagesKept'
  BY MessagesStay DEF network
<1>3. BacklogExplained'
  BY DEF BacklogExplained, Pending, network
<1>4. QED
  BY <1>1, <1>2, <1>3

LEMMA PeekStep ==
    ASSUME IInv, NEW c \in Conns, Peek(c)
    PROVE  IInv'
<1> USE DEF IInv
<1>1. /\ pc = "wait" /\ c \in batch /\ batch' = batch \ {c} /\ c # Listening /\ c # NoConn
      /\ conn[c] = "open"
  BY ListenerAssumption DEF Peek, Others, InPlace
<1>2. CASE arrived[c] = 0 /\ Close(c, Lost)
  <2>1. received' = Lost
    BY <1>2 DEF Close
  <2>2. QED
    BY <1>1, <1>2, <2>1, CloseStep, NoDamage
<1>3. CASE ~(arrived[c] = 0 /\ Close(c, Lost))
  <2>1. PICK s \in SizesRead(c) : /\ siz' = s
                                  /\ pc' = IF s = 0 THEN "forward" ELSE "read"
    BY <1>3 DEF Peek
  <2>2. /\ at' = c /\ cur' = 0 /\ taken' = 0 /\ received' = Nothing /\ arrived[c] > 0
        /\ UNCHANGED network
    BY <1>3 DEF Peek
  <2>3. /\ Size(c)' = Size(c) /\ Total(c)' = Total(c) /\ Pauses(c)' = Pauses(c)
        /\ arrived' = arrived /\ conn' = conn /\ UNCHANGED <<form, cuts>>
    BY <2>2 DEF network, Size, Body, Total, Pauses
  <2>4. /\ Size(c) \in Nat \ {0} /\ arrived[c] \in Nat /\ s \in 0..Size(c)
        /\ s = Size(c) \/ arrived[c] < SizeCells
    BY <1>1, <2>1, Sizes DEF SizesRead
  <2>5. TypeOK'
    BY <1>1, <2>1, <2>2, <2>4 DEF TypeOK, network
  <2>6. InPlace'
    BY <1>1, <2>1, <2>2, <2>3 DEF InPlace, network
  <2>7. MessagesKept'
    BY <2>3, MessagesStay
  <2>8. BacklogExplained'
    BY <1>1, <2>2 DEF BacklogExplained, Pending, network
  <2>9. ReadingKept' /\ SizeKept'
    <3>1. CASE arrived[c] < SizeCells
      <4>1. arrived[c] \in Pauses(c) /\ arrived[c] \in 1..(SizeCells - 1)
        BY <2>2, <2>4, <3>1, Sizes DEF Pauses
      <4>2. PausedEarly(c)'
        BY <2>3, <4>1 DEF PausedEarly
      <4>3. QED
        BY <2>2, <2>3, <4>2 DEF ReadingKept, SizeKept
    <3>2. CASE s = Size(c)
      <4>1. Straight'
        BY <2>1, <2>2, <2>4, <3>2 DEF Straight
      <4>2. QED
        BY <2>1, <2>2, <2>3, <2>4, <3>2, <4>1 DEF ReadingKept, SizeKept
    <3>3. QED
      BY <2>4, <3>1, <3>2
  <2>10. QED
    BY <2>2, <2>5, <2>6, <2>7, <2>8, <2>9, NoDamage
<1>4. QED
  BY <1>2, <1>3

(* What is known of the connection that is read from.                      *)
LEMMA Reading ==
    ASSUME IInv, pc # "wait"
    PROVE  /\ at \in Conns /\ conn[at] = "open" /\ at \notin batch
           /\ Header \in Nat /\ Size(at) \in Nat \ {0} /\ Total(at) = Header + Size(at)
           /\ arrived[at] \in 1..Total(at)
           /\ arrived[at] = Total(at) \/ arrived[at] \in Pauses(at)
           /\ cur \in Nat /\ taken \in Nat /\ siz \in Nat
<1> USE DEF IInv
<1>1. at \in Conns /\ conn[at] = "open" /\ at \notin batch
  BY DEF InPlace, TypeOK
<1>2. /\ Header \in Nat /\ Size(at) \in Nat \ {0} /\ Total(at) = Header + Size(at)
      /\ arrived[at] \in 0..Total(at)
  BY <1>1, Sizes
<1>3. arrived[at] > 0
  BY DEF ReadingKept
<1>4. arrived[at] \in 1..Total(at) /\ (arrived[at] = Total(at) \/ arrived[at] \in Pauses(at))
  BY <1>2, <1>3 DEF Pauses
<1>5. QED
  BY <1>1, <1>2, <1>4 DEF TypeOK

(* A read of what has come, by whichever of the two, while the size is     *)
(* right.                                                                  *)
LEMMA TakenIsAll ==
    ASSUME IInv, pc # "wait", siz = Size(at), arrived[at] > taken
    PROVE  /\ Taken = arrived[at] - taken
           /\ cur = taken => \A i \in 1..(cur + Taken) :
                 (\A j \in 1..cur : buffer[j] = j) => Put[i] = i
           /\ Skewed => PausedTwice(at)
<1>1. Taken = arrived[at] - taken
  BY Reading DEF Taken
<1>2. ASSUME cur = taken, NEW i \in 1..(cur + Taken), \A j \in 1..cur : buffer[j] = j
      PROVE  Put[i] = i
  <2>1. i \in 1..(siz + Header) /\ i \in Nat
    BY <1>1, <1>2, Reading
  <2>2. Put[i] = IF i > cur /\ i <= cur + Taken THEN taken + i - cur ELSE buffer[i]
    BY <2>1 DEF Put
  <2>3. QED
    BY <1>2, <2>1, <2>2, Reading
<1>3. Skewed => PausedTwice(at)
  BY Reading DEF Skewed, PausedTwice
<1>4. QED
  BY <1>1, <1>2, <1>3

(* A read never takes more than has come; counted or not.                  *)
LEMMA TakenHasCome ==
    ASSUME IInv, pc # "wait", arrived' = arrived, UNCHANGED <<at, siz>>,
           PausedEarly(at)' = PausedEarly(at), Size(at)' = Size(at),
           \/ UNCHANGED <<cur, taken>>
           \/ /\ arrived[at] > taken /\ taken' = taken + Taken
              /\ cur' \in {cur, cur + Taken}
    PROVE  SizeKept'
<1>1. CASE PausedEarly(at)
  BY <1>1 DEF SizeKept
<1>2. CASE siz = Size(at) /\ cur <= taken /\ taken <= arrived[at] /\ arrived[at] > taken
  <2>1. Taken = arrived[at] - taken /\ arrived[at] \in Nat
    BY <1>2, TakenIsAll, Reading
  <2>2. QED
    BY <1>2, <2>1, Reading DEF SizeKept
<1>3. CASE siz = Size(at) /\ cur <= taken /\ taken <= arrived[at] /\ UNCHANGED <<cur, taken>>
  BY <1>3 DEF SizeKept
<1>4. QED
  BY <1>1, <1>2, <1>3 DEF IInv, SizeKept

LEMMA ReadStep ==
    ASSUME IInv, Read
    PROVE  IInv'
<1> USE DEF IInv
<1>1. pc = "read" /\ pc # "wait"
  BY DEF Read
<1>2. CASE arrived[at] = taken /\ gone[at] /\ Close(at, Lost) /\ UNCHANGED batch
  <2>1. received' = Lost
    BY <1>2 DEF Close
  <2>2. QED
    BY <1>1, <1>2, <2>1, Reading, CloseStep, NoDamage
<1>3. CASE ~(arrived[at] = taken /\ gone[at] /\ Close(at, Lost) /\ UNCHANGED batch)
  <2>1. /\ UNCHANGED <<network, batch, at, siz>>
        /\ received' \in {received, Nothing}
        /\ pc' \in {"read", "retry", "forward"}
    BY <1>3 DEF Read, reading
  <2>2. \/ /\ arrived[at] > taken /\ buffer' = Put
           /\ taken' = taken + Taken /\ cur' = cur + Taken
           /\ pc' = IF cur + Taken >= siz THEN "forward" ELSE "read"
        \/ /\ arrived[at] = taken /\ pc' = "retry" /\ UNCHANGED reading
    BY <1>3 DEF Read, Enough
  <2>3. InPlace' /\ MessagesKept' /\ BacklogExplained'
    BY <1>1, <2>1, ThreadStays
  <2>4. /\ Size(at)' = Size(at) /\ Total(at)' = Total(at) /\ Pauses(at)' = Pauses(at)
        /\ arrived' = arrived
    BY <2>1 DEF network, Size, Body, Total, Pauses
  <2>5. Taken \in Nat
    BY <1>1, <2>2, Reading DEF Taken
  <2>6. TypeOK'
    BY <2>1, <2>2, <2>5 DEF TypeOK, network, reading
  <2>7. ReadingKept'
    <3>1. CASE PausedEarly(at) \/ PausedTwice(at)
      BY <1>1, <2>1, <2>4, <3>1 DEF ReadingKept, PausedEarly, PausedTwice
    <3>2. CASE siz = Size(at) /\ taken <= arrived[at] /\ (Straight \/ Skewed)
      <4>1. CASE arrived[at] > taken /\ Skewed
        <5>1. PausedTwice(at)'
          BY <1>1, <2>1, <2>4, <3>2, <4>1, TakenIsAll DEF PausedTwice
        <5>2. QED
          BY <1>1, <2>1, <2>4, <5>1 DEF ReadingKept
      <4>2. CASE arrived[at] > taken /\ Straight
        <5>1. Taken = arrived[at] - taken /\ cur = taken
          BY <1>1, <3>2, <4>2, TakenIsAll DEF Straight
        <5>2. \A i \in 1..(cur + Taken) : Put[i] = i
          BY <1>1, <3>2, <4>2, TakenIsAll DEF Straight
        <5>3. cur' = arrived[at] /\ taken' = arrived[at] /\ cur + Taken = arrived[at]
          BY <1>1, <2>2, <4>2, <5>1, Reading
        <5>4. Straight'
          BY <1>1, <2>1, <2>2, <2>4, <4>2, <5>2, <5>3, Reading DEF Straight
        <5>5. QED
          BY <1>1, <2>1, <2>4, <3>2, <5>3, <5>4, Reading DEF ReadingKept
      <4>3. CASE arrived[at] = taken
        <5>1. pc' = "retry" /\ UNCHANGED reading
          BY <1>1, <2>2, <4>3, Reading
        <5>2. Straight => Straight'
          BY <1>1, <2>4, <4>3, <5>1, Reading DEF Straight, reading
        <5>3. Skewed => Skewed'
          BY <2>4, <5>1 DEF Skewed, reading
        <5>4. QED
          BY <1>1, <2>1, <2>4, <3>2, <5>1, <5>2, <5>3 DEF ReadingKept, reading
      <4>4. QED
        BY <1>1, <3>2, <4>1, <4>2, <4>3, Reading
    <3>3. QED
      BY <1>1, <3>1, <3>2 DEF ReadingKept
  <2>8. SizeKept'
    <3>1. UNCHANGED <<at, siz>> /\ PausedEarly(at)' = PausedEarly(at)
      BY <2>1, <2>4 DEF PausedEarly
    <3>2. \/ UNCHANGED <<cur, taken>>
          \/ /\ arrived[at] > taken /\ taken' = taken + Taken
             /\ cur' \in {cur, cur + Taken}
      BY <2>2 DEF reading
    <3>3. QED
      BY <1>1, <2>4, <3>1, <3>2, TakenHasCome
  <2>9. QED
    BY <2>1, <2>3, <2>6, <2>7, <2>8, NoDamage
<1>4. QED
  BY <1>2, <1>3

(* From here on what has been taken is more than what was counted.         *)
LEMMA RetryStep ==
    ASSUME IInv, Retry
    PROVE  IInv'
<1> USE DEF IInv
<1>1. /\ pc = "retry" /\ pc # "wait" /\ pc' = "read"
      /\ UNCHANGED <<network, batch, at, siz, cur, received>>
  BY DEF Retry
<1>2. \/ arrived[at] > taken /\ buffer' = Put /\ taken' = taken + Taken
      \/ arrived[at] = taken /\ UNCHANGED <<buffer, taken>>
  BY DEF Retry
<1>3. InPlace' /\ MessagesKept' /\ BacklogExplained'
  BY <1>1, ThreadStays
<1>4. /\ Size(at)' = Size(at) /\ Total(at)' = Total(at) /\ Pauses(at)' = Pauses(at)
      /\ arrived' = arrived
  BY <1>1 DEF network, Size, Body, Total, Pauses
<1>5. Taken \in Nat
  BY <1>1, <1>2, Reading DEF Taken
<1>6. TypeOK'
  BY <1>1, <1>2, <1>5 DEF TypeOK, network
<1>7. ReadingKept'
  <2>1. CASE PausedEarly(at) \/ PausedTwice(at)
    BY <1>1, <1>4, <2>1 DEF ReadingKept, PausedEarly, PausedTwice
  <2>2. CASE siz = Size(at) /\ taken <= arrived[at] /\ (Straight \/ Skewed)
    <3>1. CASE arrived[at] > taken /\ Skewed
      <4>1. PausedTwice(at)'
        BY <1>1, <1>4, <2>2, <3>1, TakenIsAll DEF PausedTwice
      <4>2. QED
        BY <1>1, <1>4, <4>1 DEF ReadingKept
    <3>2. CASE arrived[at] > taken /\ Straight
      <4>1. taken' = arrived[at]
        BY <1>1, <1>2, <2>2, <3>2, TakenIsAll, Reading
      <4>2. cur = taken /\ cur > 0 /\ cur < siz /\ cur \in Pauses(at)
        BY <1>1, <2>2, <3>2, Reading DEF Straight
      <4>3. Skewed'
        BY <1>1, <1>4, <3>2, <4>1, <4>2, Reading DEF Skewed
      <4>4. QED
        BY <1>1, <1>4, <2>2, <4>1, <4>3, Reading DEF ReadingKept
    <3>3. CASE arrived[at] = taken
      <4>1. UNCHANGED <<buffer, taken>>
        BY <1>1, <1>2, <3>3, Reading
      <4>2. (Straight => Straight') /\ (Skewed => Skewed')
        BY <1>1, <1>4, <4>1 DEF Straight, Skewed
      <4>3. QED
        BY <1>1, <1>4, <2>2, <4>1, <4>2 DEF ReadingKept
    <3>4. QED
      BY <1>1, <2>2, <3>1, <3>2, <3>3, Reading
  <2>3. QED
    BY <1>1, <2>1, <2>2 DEF ReadingKept
<1>8. SizeKept'
  <2>1. PausedEarly(at)' = PausedEarly(at)
    BY <1>1, <1>4 DEF PausedEarly
  <2>2. QED
    BY <1>1, <1>2, <1>4, <2>1, TakenHasCome
<1>9. QED
  BY <1>1, <1>3, <1>6, <1>7, <1>8, NoDamage

(* The server that starts anew is as it was at first.                      *)
LEMMA OverrunStep == Overrun => IInv'
<1>1. Overrun => Init'
  BY DEF Overrun, Init
<1>2. QED
  BY <1>1, InitInv, PTL

(* With the size as it was sent, what comes fits into the buffer.          *)
LEMMA OnlyAfterAPause == IInv => KeptInBuffer
<1> SUFFICES ASSUME IInv, pc # "wait", Overruns PROVE PausedEarly(at)
  BY DEF KeptInBuffer
<1>1. CASE siz = Size(at) /\ cur <= taken /\ taken <= arrived[at]
  <2>1. Taken = arrived[at] - taken
    BY <1>1, TakenIsAll DEF Overruns
  <2>2. QED
    BY <1>1, <2>1, Reading DEF Overruns
<1>2. QED
  BY <1>1 DEF IInv, SizeKept
-----------------------------------------------------------------------------
(* A set of numbers that is not empty has a least one, and, if it has a    *)
(* bound, a greatest.                                                      *)
LEMMA Least ==
    ASSUME NEW T \in SUBSET Nat, T # {}
    PROVE  \E x \in T : \A y \in T : x <= y
<1>1. PICK R : IsWellFoundedOn(R, Nat) /\ \A x, y \in Nat : y < x => <<y, x>> \in R
  <2>1. \A x, y \in Nat : y < x => <<y, x>> \in OpToRel(<, Nat)
    BY DEF OpToRel
  <2>2. QED
    BY <2>1, NatLessThanWellFounded
<1>2. PICK x \in T : \A y \in T : <<y, x>> \notin R
  BY <1>1, WFMin
<1>3. \A y \in T : ~(y < x)
  BY <1>1, <1>2
<1>4. \A y \in T : x <= y
  BY <1>3
<1>5. QED
  BY <1>4

LEMMA SmallerRest ==
    ASSUME NEW b \in Nat, NEW x \in 0..b, NEW y \in 0..b, b - x <= b - y
    PROVE  y <= x
OBVIOUS

LEMMA Greatest ==
    ASSUME NEW b \in Nat, NEW T \in SUBSET (0..b), T # {}
    PROVE  \E x \in T : \A y \in T : y <= x
<1> DEFINE down == {b - x : x \in T}
<1>1. \A x \in T : x \in 0..b
  OBVIOUS
<1>2. \A x \in 0..b : b - x \in Nat
  OBVIOUS
<1>3. down \in SUBSET Nat /\ down # {}
  BY <1>1, <1>2
<1>4. PICK d \in down : \A e \in down : d <= e
  <2> HIDE DEF down
  <2> QED
    BY <1>3, Least
<1>5. PICK x \in T : d = b - x
  OBVIOUS
<1>6. \A y \in T : b - x <= b - y
  BY <1>4, <1>5
<1> HIDE DEF down
<1>7. ASSUME NEW y \in T PROVE y <= x
  <2>1. x \in 0..b /\ y \in 0..b
    BY <1>1
  <2>2. b - x <= b - y
    BY <1>6
  <2>3. QED
    BY <2>1, <2>2, SmallerRest
<1>8. QED
  BY <1>7

(* A buffer that is right to its end has the whole body in it.             *)
LEMMA GoodIsWhole ==
    ASSUME IInv, pc = "forward", siz = Size(at), \A i \in 1..(Header + siz) : buffer[i] = i
    PROVE  Good = Size(at)
<1> DEFINE right == {n \in 0..Size(at) : /\ Header + n <= siz + Header
                                         /\ \A i \in 1..(Header + n) : buffer[i] = i}
<1>1. Size(at) \in right /\ \A n \in right : n \in Nat /\ n <= Size(at)
  BY Reading
<1>2. Good = CHOOSE n \in right : \A m \in right : m <= n
  BY <1>1 DEF Good
<1> HIDE DEF right
<1>3. \E n \in right : \A m \in right : m <= n
  BY <1>1
<1>4. Good \in right /\ \A m \in right : m <= Good
  BY <1>2, <1>3
<1>5. QED
  BY <1>1, <1>4, Reading

(* What is good of a body is a part of it.                                 *)
LEMMA GoodInBody ==
    ASSUME IInv, pc = "forward"
    PROVE  Good \in 0..Size(at)
<1> DEFINE right == {n \in 0..Size(at) : /\ Header + n <= siz + Header
                                         /\ \A i \in 1..(Header + n) : buffer[i] = i}
<1>1. Size(at) \in Nat /\ right \in SUBSET (0..Size(at))
  BY Reading
<1>2. Good = IF right = {} THEN 0 ELSE CHOOSE n \in right : \A m \in right : m <= n
  BY DEF Good
<1> HIDE DEF right
<1>3. CASE right = {}
  BY <1>1, <1>2, <1>3
<1>4. CASE right # {}
  <2>1. \E n \in right : \A m \in right : m <= n
    BY <1>1, <1>4, Greatest
  <2>2. Good \in right
    BY <1>2, <1>4, <2>1
  <2>3. QED
    BY <1>1, <2>2
<1>5. QED
  BY <1>3, <1>4

(* What is queued at the end.                                              *)
LEMMA ParsedExplained ==
    ASSUME IInv, pc = "forward", NEW m \in Parsed, m.queued, ~m.exact
    PROVE  \/ m.cuts \cap 1..(SizeCells - 1) # {}
           \/ m.cuts \cap m.size..(m.size + Header - 1) # {}
           \/ Cardinality(m.cuts) > 1
<1>1. /\ m.cuts = Pauses(at) /\ m.size = Size(at)
      /\ ~((\A i \in 1..Header : buffer[i] = i) /\ Good = Size(at))
  <2> DEFINE all == (\A i \in 1..Header : buffer[i] = i) /\ Good = Size(at)
             message(wild) == [queued |-> TRUE, lost |-> FALSE, class |-> form[at].class,
                               got |-> {Body(at)[i] : i \in 1..Good}, exact |-> all,
                               wild |-> wild, cuts |-> Pauses(at), size |-> Size(at)]
  <2>1. m \in {message(FALSE), message(TRUE), Lost}
    BY DEF Parsed
  <2>2. m # Lost
    BY DEF Lost
  <2>3. \A wild : /\ message(wild).cuts = Pauses(at) /\ message(wild).size = Size(at)
                  /\ message(wild).exact = all
    OBVIOUS
  <2> HIDE DEF message, all
  <2>4. m.cuts = Pauses(at) /\ m.size = Size(at) /\ m.exact = all
    BY <2>1, <2>2, <2>3
  <2>5. QED
    BY <2>4 DEF all
<1>2. CASE PausedEarly(at)
  BY <1>1, <1>2 DEF PausedEarly
<1>3. CASE PausedTwice(at)
  <2>1. PICK i, j \in Pauses(at) : i # j
    BY <1>3 DEF PausedTwice
  <2>2. IsFiniteSet(Pauses(at))
    <3>1. Pauses(at) \in SUBSET (0..(Total(at) - 1)) /\ Total(at) - 1 \in Int
      BY Reading, Sizes DEF IInv
    <3>2. IsFiniteSet(0..(Total(at) - 1))
      BY <3>1, FS_Interval
    <3>3. QED
      BY <3>1, <3>2, FS_Subset
  <2>3. Cardinality({i}) = 1 /\ IsFiniteSet({i}) /\ {i} \in SUBSET Pauses(at) /\ {i} # Pauses(at)
    BY <2>1, FS_Singleton
  <2>4. Cardinality(Pauses(at)) \in Nat /\ Cardinality(Pauses(at)) >= 1
        /\ Cardinality(Pauses(at)) # 1
    BY <2>2, <2>3, FS_Subset, FS_CardinalityType
  <2>5. QED
    BY <1>1, <2>4
<1>4. CASE siz = Size(at) /\ Straight
  <2>1. CASE cur = Total(at)
    <3>1. \A i \in 1..(Header + siz) : buffer[i] = i
      BY <1>4, <2>1, Reading DEF Straight
    <3>2. Good = Size(at)
      BY <1>4, <3>1, GoodIsWhole
    <3>3. \A i \in 1..Header : buffer[i] = i
      BY <3>1, Reading
    <3>4. QED
      BY <1>1, <3>2, <3>3
  <2>2. CASE cur \in Pauses(at)
    <3>1. cur \in Size(at)..(Size(at) + Header - 1)
      <4>1. Pauses(at) \subseteq 0..(Total(at) - 1)
        BY Reading, Sizes DEF IInv
      <4>2. QED
        BY <1>4, <2>2, <4>1, Reading DEF Straight
    <3>2. QED
      BY <1>1, <2>2, <3>1
  <2>3. QED
    BY <1>4, <2>1, <2>2, Reading DEF Straight
<1>5. QED
  BY <1>2, <1>3, <1>4 DEF IInv, ReadingKept, Skewed

(* It is a beginning of the message, whatever the buffer holds.            *)
LEMMA ParsedFromBeginning ==
    ASSUME IInv, pc = "forward", NEW m \in Parsed, m.queued
    PROVE  \E c \in Conns : \E f \in Forms[c] : \E n \in 0..Len(f.body) :
               m.class = f.class /\ m.got = {f.body[i] : i \in 1..n}
<1> DEFINE got == {Body(at)[i] : i \in 1..Good}
           all == (\A i \in 1..Header : buffer[i] = i) /\ Good = Size(at)
           message(wild) == [queued |-> TRUE, lost |-> FALSE, class |-> form[at].class,
                             got |-> got, exact |-> all,
                             wild |-> wild, cuts |-> Pauses(at), size |-> Size(at)]
<1>1. m \in {message(FALSE), message(TRUE), Lost}
  BY DEF Parsed
<1>2. m # Lost
  BY DEF Lost
<1>3. \A wild : message(wild).class = form[at].class /\ message(wild).got = got
  OBVIOUS
<1> HIDE DEF message
<1>4. m.class = form[at].class /\ m.got = {form[at].body[i] : i \in 1..Good}
  BY <1>1, <1>2, <1>3 DEF Body
<1>5. Good \in 0..Len(form[at].body)
  BY GoodInBody DEF Size, Body
<1>6. at \in Conns /\ form[at] \in Forms[at]
  BY Reading DEF IInv, InPlace, MessagesKept
<1>7. QED
  BY <1>4, <1>5, <1>6

LEMMA ForwardStep ==
    ASSUME IInv, Forward
    PROVE  IInv'
<1> USE DEF IInv
<1>1. pc = "forward" /\ pc # "wait" /\ UNCHANGED batch
  BY DEF Forward
<1>2. PICK m \in Parsed :
         Close(at, IF m.queued /\ form[at].class \notin Known THEN Lost ELSE m)
  BY DEF Forward
<1>3. received' \in {Lost, m}
  BY <1>2 DEF Close
<1>4. QueuedAsSent' /\ ReceivedKept'
  <2>1. CASE received' = Lost
    BY <2>1, NoDamage
  <2>2. CASE received' = m
    <3>1. QueuedAsSent'
      BY <1>1, <2>2, ParsedExplained DEF QueuedAsSent
    <3>2. ReceivedKept'
      BY <1>1, <2>2, ParsedFromBeginning DEF ReceivedKept
    <3>3. QED
      BY <3>1, <3>2
  <2>3. QED
    BY <1>3, <2>1, <2>2
<1>5. QED
  BY <1>1, <1>2, <1>4, Reading, CloseStep
-----------------------------------------------------------------------------
LEMMA NextInv == IInv /\ [Next]_vars => IInv'
<1> SUFFICES ASSUME IInv, [Next]_vars PROVE IInv'
  OBVIOUS
<1>1. CASE UNCHANGED vars
  <2>1. TypeOK' /\ InPlace'
    <3>1. TypeOK /\ InPlace
      BY DEF IInv
    <3>2. TypeOK'
      BY <1>1, <3>1 DEF TypeOK, vars, network, reading
    <3>3. InPlace'
      BY <1>1, <3>1 DEF InPlace, vars, network, reading
    <3>4. QED
      BY <3>2, <3>3
  <2>2. MessagesKept' /\ ReadingKept' /\ SizeKept'
    BY <1>1, MessagesStay, ReadingStays DEF IInv, vars, network
  <2>3. BacklogExplained'
    BY <1>1 DEF IInv, BacklogExplained, Pending, vars, network
  <2>4. QueuedAsSent' /\ ReceivedKept'
    BY <1>1 DEF IInv, QueuedAsSent, ReceivedKept, vars
  <2>5. QED
    BY <2>1, <2>2, <2>3, <2>4 DEF IInv
<1>2. QED
  BY <1>1, ConnectStep, SendStep, LeaveStep, WaitStep, AcceptStep, PeekStep, ReadStep,
     RetryStep, OverrunStep, ForwardStep DEF Next, Listen

(* The inductive invariant of the connections and their messages.          *)
THEOREM Invariance == Spec => []IInv
BY InitInv, NextInv, PTL DEF Spec

(* Every variable keeps its type.                                          *)
THEOREM TypeCorrect == Spec => []TypeOK
<1>1. IInv => TypeOK
  BY DEF IInv
<1>2. QED
  BY Invariance, <1>1, PTL

(* accept never fails for want of a connection, and no more wait unnoticed *)
(* than have come in bursts.                                               *)
THEOREM BacklogIsExplained == Spec => []BacklogExplained
<1>1. IInv => BacklogExplained
  BY DEF IInv
<1>2. QED
  BY Invariance, <1>1, PTL

(* However a message is cut, what is queued is what was sent, but for the  *)
(* pauses that the header, the size and the second read do not survive; and*)
(* what is read leaves the buffer only after a pause within the size.      *)
THEOREM DamageIsExplained == Spec => []DamageNeedsAPause
<1>1. IInv => DamageNeedsAPause
  BY OnlyAfterAPause DEF IInv, DamageNeedsAPause
<1>2. QED
  BY Invariance, <1>1, PTL
-----------------------------------------------------------------------------
(* What is written before something that has been read has been read too.  *)
LEMMA ReadInOrder ==
    ASSUME NEW class, NEW body, AsWritten(class, body), NEW n \in 0..Len(body),
           Len(body) \in Nat,
           NEW g, Cell(class, g) \in {body[i] : i \in 1..n},
           NEW f \in DOMAIN Labels[class], Labels[class][f] = Required,
           f # g, ~Before(class, g, f)
    PROVE  Cell(class, f) \in {body[i] : i \in 1..n}
<1>1. PICK i \in 1..n : body[i] = Cell(class, g)
  OBVIOUS
<1>2. PICK j \in 1..Len(body) : body[j] = Cell(class, f)
  BY DEF AsWritten
<1>3. /\ body[i].class = class /\ body[i].field = g
      /\ body[j].class = class /\ body[j].field = f
  BY <1>1, <1>2 DEF Cell
<1>4. ~(i < j)
  BY <1>3 DEF AsWritten
<1>5. QED
  BY <1>2, <1>4

(* The fields from which something is stored are written after those that  *)
(* say whose data it is; class by class, from the generated order.         *)
LEMMA CollectDataAfter ==
    \A g \in {"fru_data", "value_data", "log_data"} :
        \A f \in {"server_id", "server_type", "collect_time"} :
            ~Before("CollectData", g, f)
BY DEF Before, Wire, CollectDataWire

LEMMA SNMPDataAfter ==
    \A g \in {"proc_data", "ssd_data", "raid_info", "pd_info", "vd_info"} :
        \A f \in {"server_id", "server_type", "os_type", "collect_time", "mib_type"} :
            ~Before("SNMPData", g, f)
BY DEF Before, Wire, SNMPDataWire

LEMMA StoredIsAttributed ==
    ASSUME NEW class, NEW body, AsWritten(class, body), Len(body) \in Nat,
           NEW n \in 0..Len(body), Stores(class, {body[i] : i \in 1..n}),
           NEW f \in DOMAIN Labels[class], Labels[class][f] = Required
    PROVE  Has({body[i] : i \in 1..n}, class, f)
<1> DEFINE got == {body[i] : i \in 1..n}
<1> HIDE DEF got
<1>1. Stores(class, got)
  BY DEF got
<1>2. \A g : Has(got, class, g) /\ f # g /\ ~Before(class, g, f) => Has(got, class, f)
  BY ReadInOrder DEF Has, got
<1>3. CASE class = "CollectData"
  <2>1. f \in {"server_id", "server_type", "collect_time"}
    BY <1>3 DEF Labels, CollectData, Required, Optional, Repeated
  <2>2. PICK g \in {"fru_data", "value_data", "log_data"} : Has(got, class, g)
    BY <1>1, <1>3 DEF Stores
  <2>3. QED
    BY <1>2, <1>3, <2>1, <2>2, CollectDataAfter DEF got
<1>4. CASE class = "SNMPData"
  <2>1. f \in {"server_id", "server_type", "os_type", "collect_time", "mib_type"}
    BY <1>4 DEF Labels, SNMPData, Required, Optional, Repeated
  <2>2. PICK g \in {"proc_data", "ssd_data", "raid_info", "pd_info", "vd_info"} :
            Has(got, class, g)
    BY <1>1, <1>4 DEF Stores
  <2>3. QED
    BY <1>2, <1>4, <2>1, <2>2, SNMPDataAfter DEF got
<1>5. CASE class = "Action"
  <2>1. f = "act"
    BY <1>5 DEF Labels, Action, Required, Optional, Repeated
  <2>2. QED
    BY <1>1, <1>5, <2>1 DEF Stores, got
<1>6. QED
  BY <1>1, <1>3, <1>4, <1>5 DEF Stores

(* Of a pair that was cut, the name is the last that was read.             *)
LEMMA OneInvented ==
    ASSUME NEW class, NEW body, AsWritten(class, body), Len(body) \in Nat,
           NEW n \in 0..Len(body)
    PROVE  Cardinality(Invented({body[i] : i \in 1..n})) <= 1
<1> DEFINE got == {body[i] : i \in 1..n}
<1>1. \A c \in Invented(got) : n \in 1..Len(body) /\ body[n] = Cell(c, "name")
  <2> SUFFICES ASSUME NEW c \in Invented(got)
               PROVE  n \in 1..Len(body) /\ body[n] = Cell(c, "name")
    OBVIOUS
  <2>1. c \in {"KV_UINT64", "KV_STRING"} /\ Cell(c, "value") \notin got
    BY DEF Invented, Has
  <2>2. PICK i \in 1..n : body[i] = Cell(c, "name")
    BY DEF Invented, Has
  <2>3. i < Len(body) /\ body[i + 1] = Cell(c, "value")
    BY <2>1, <2>2 DEF AsWritten
  <2>4. ~(i + 1 <= n)
    BY <2>1, <2>3
  <2>5. QED
    BY <2>2, <2>4
<1> HIDE DEF got
<1>2. \A c, d \in Invented(got) : c = d
  <2> SUFFICES ASSUME NEW c \in Invented(got), NEW d \in Invented(got) PROVE c = d
    OBVIOUS
  <2>1. Cell(c, "name") = Cell(d, "name")
    BY <1>1
  <2>2. Cell(c, "name").class = c /\ Cell(d, "name").class = d
    BY DEF Cell
  <2>3. QED
    BY <2>1, <2>2
<1>3. CASE Invented(got) = {}
  BY <1>3, FS_EmptySet DEF got
<1>4. CASE Invented(got) # {}
  <2>1. PICK c \in Invented(got) : TRUE
    BY <1>4
  <2>2. Invented(got) = {c}
    BY <1>2, <2>1
  <2>3. Cardinality(Invented(got)) = 1
    BY <2>2, FS_Singleton
  <2>4. QED
    BY <2>3 DEF got
<1>5. QED
  BY <1>3, <1>4

(* However a message is cut, what is stored of it is under the right server*)
(* and time, because of the order of the fields on the wire; and of what   *)
(* was stored, at most one value was not sent.                             *)
THEOREM CutIsAttributed == Spec => []CutMessageIsAttributed
<1>1. IInv => CutMessageIsAttributed
  <2> SUFFICES ASSUME IInv, received.queued, Stores(received.class, received.got)
               PROVE  /\ \A f \in DOMAIN Labels[received.class] :
                            Labels[received.class][f] = Required
                                => Has(received.got, received.class, f)
                      /\ Cardinality(Invented(received.got)) <= 1
    BY DEF CutMessageIsAttributed
  <2>1. PICK c \in Conns : \E m \in Forms[c] : \E n \in 0..Len(m.body) :
            received.class = m.class /\ received.got = {m.body[i] : i \in 1..n}
    BY DEF IInv, ReceivedKept
  <2>2. PICK m \in Forms[c] : \E n \in 0..Len(m.body) :
            received.class = m.class /\ received.got = {m.body[i] : i \in 1..n}
    BY <2>1
  <2>3. PICK n \in 0..Len(m.body) :
            received.class = m.class /\ received.got = {m.body[i] : i \in 1..n}
    BY <2>2
  <2>4. AsWritten(m.class, m.body) /\ Len(m.body) \in Nat
    BY ListenerAssumption
  <2>5. QED
    BY <2>3, <2>4, StoredIsAttributed, OneInvented
<1>2. QED
  BY Invariance, <1>1, PTL
=============================================================================
