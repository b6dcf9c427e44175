------------------------------- MODULE Listener -------------------------------
(***************************************************************************)
(* The listener thread (src/bin/AsyncDataListener.cc: start, read_message, *)
(* SocketHandler, readBody): one epoll loop that accepts connections,      *)
(* reads one message from each, passes a copy on to the alert module,      *)
(* closes the connection and queues what it parsed.                        *)
(*                                                                         *)
(* Both kinds of socket are edge-triggered: connections that come before   *)
(* the loop looks again make one event, and one event makes one accept.    *)
(*                                                                         *)
(* A message is read in cells: Header cells, of which the first SizeCells  *)
(* hold the size of the body, then the cells of module Messages. The first *)
(* look at a connection takes whatever has come of the size; the reading   *)
(* stops when the body's size has come, though header and body are longer. *)
(* cuts are the places where the peer's bytes came in separate pieces.     *)
(***************************************************************************)
EXTENDS Messages

CONSTANTS Conns,
          Forms,        \* Forms[c]: the messages c may send, a class and its cells
          Header, SizeCells,
          Pieces,       \* bound: a message of c comes in at most Pieces[c] pieces
          AcceptQueue   \* completed connections the kernel keeps for accept

Listening == "listen_sock"
NoConn == "none"

(* Every class that comes as a message has a required field, so a body.    *)
ASSUME ListenerAssumption ==
    /\ IsFiniteSet(Conns) /\ Listening \notin Conns /\ NoConn \notin Conns
    /\ \A c \in Conns : \A f \in Forms[c] :
          Len(f.body) \in Nat \ {0} /\ AsWritten(f.class, f.body)
    /\ Header \in Nat /\ SizeCells \in 1..Header
    /\ Pieces \in [Conns -> Nat \ {0}]
    /\ AcceptQueue \in Nat \ {0}

VARIABLES
    \* the peers and the kernel
    conn, form, arrived, cuts, gone,
    backlog,    \* connections not yet accepted
    event,      \* the listening socket has an event to report
    bursts,     \* history only: arrivals that made no event of their own
    \* the listener thread
    pc,
    batch,      \* events of the last epoll_wait still to handle
    at, siz, cur, taken, buffer,
    received    \* history only: what the last connection came to

network == <<conn, form, arrived, cuts, gone, backlog, event, bursts>>
reading == <<at, siz, cur, taken, buffer>>
vars == <<network, pc, batch, reading, received>>

NoForm == [class |-> "none", body |-> <<>>]
Nothing == [queued |-> FALSE, lost |-> FALSE]

Body(c) == form[c].body
Size(c) == Len(Body(c))
Total(c) == Header + Size(c)

(* The connections that have something for the listener.                   *)
Ready == {c \in Conns : /\ conn[c] = "open" /\ c \notin batch /\ c # at
                        /\ arrived[c] > 0 \/ gone[c]}

Init ==
    /\ conn = [c \in Conns |-> "none"]
    /\ form = [c \in Conns |-> NoForm]
    /\ arrived = [c \in Conns |-> 0]
    /\ cuts = [c \in Conns |-> {}]
    /\ gone = [c \in Conns |-> FALSE]
    /\ backlog = <<>> /\ event = FALSE /\ bursts = 0
    /\ pc = "wait" /\ batch = {}
    /\ at = NoConn /\ siz = 0 /\ cur = 0 /\ taken = 0 /\ buffer = <<>>
    /\ received = Nothing
-----------------------------------------------------------------------------
(* A peer connects. The event of one that came just before is not made     *)
(* twice. bursts stops counting at the number of connections.              *)
Connect(c) ==
    /\ conn[c] = "none"
    /\ Len(backlog) < AcceptQueue
    /\ conn' = [conn EXCEPT ![c] = "backlog"]
    /\ \E f \in Forms[c] : form' = [form EXCEPT ![c] = f]
    /\ backlog' = Append(backlog, c)
    /\ event' = TRUE
    /\ bursts' = IF event /\ bursts < Cardinality(Conns) THEN bursts + 1 ELSE bursts
    /\ received' = Nothing
    /\ UNCHANGED <<arrived, cuts, gone, pc, batch, reading>>

(* Some more of its message comes.                                         *)
Send(c) ==
    /\ conn[c] # "none" /\ ~gone[c] /\ arrived[c] < Total(c)
    /\ cuts' = [cuts EXCEPT ![c] = IF arrived[c] = 0 THEN @ ELSE @ \cup {arrived[c]}]
    /\ \E n \in arrived[c] + 1 .. Total(c) :
          /\ Cardinality(cuts'[c]) + 1 < Pieces[c] \/ n = Total(c)
          /\ arrived' = [arrived EXCEPT ![c] = n]
    /\ received' = Nothing
    /\ UNCHANGED <<conn, form, gone, backlog, event, bursts, pc, batch, reading>>

(* It closes its end, perhaps in the middle of the message.                *)
Leave(c) ==
    /\ conn[c] # "none" /\ ~gone[c]
    /\ gone' = [gone EXCEPT ![c] = TRUE]
    /\ received' = Nothing
    /\ UNCHANGED <<conn, form, arrived, cuts, backlog, event, bursts, pc, batch, reading>>
-----------------------------------------------------------------------------
(* epoll_wait. The events come in any order.                               *)
Wait ==
    /\ pc = "wait" /\ batch = {}
    /\ event \/ Ready # {}
    /\ batch' = Ready \cup (IF event THEN {Listening} ELSE {})
    /\ event' = FALSE
    /\ received' = Nothing
    /\ UNCHANGED <<conn, form, arrived, cuts, gone, backlog, bursts, pc, reading>>

(* An operator whose name ends in _M is a fault of the operator below it,  *)
(* seeded to show that a property can tell the two apart; no behaviour     *)
(* uses it.                                                                *)
All_M == backlog

(* One accept for the event, however many connections wait.                *)
Accepted == <<Head(backlog)>>

Alone_M(e) == {}

(* The loop goes on with the other events of the batch.                    *)
Others(e) == batch \ {e}

(* With an empty queue accept would fail, and the server exit.             *)
Accept ==
    /\ pc = "wait" /\ Listening \in batch /\ backlog # <<>>
    /\ batch' = Others(Listening)
    /\ backlog' = SubSeq(backlog, Len(Accepted) + 1, Len(backlog))
    /\ conn' = [c \in Conns |-> IF \E i \in DOMAIN Accepted : Accepted[i] = c
                                THEN "open" ELSE conn[c]]
    /\ received' = Nothing
    /\ UNCHANGED <<form, arrived, cuts, gone, event, bursts, pc, reading>>

(* The connection is shut down and closed; the listener is ready for the   *)
(* next event.                                                             *)
Close(c, what) ==
    /\ conn' = [conn EXCEPT ![c] = "none"]
    /\ form' = [form EXCEPT ![c] = NoForm]
    /\ arrived' = [arrived EXCEPT ![c] = 0]
    /\ cuts' = [cuts EXCEPT ![c] = {}]
    /\ gone' = [gone EXCEPT ![c] = FALSE]
    /\ pc' = "wait"
    /\ at' = NoConn /\ siz' = 0 /\ cur' = 0 /\ taken' = 0 /\ buffer' = <<>>
    /\ received' = what
    /\ UNCHANGED <<backlog, event, bursts>>

Lost == [queued |-> FALSE, lost |-> TRUE]

(* readHdr: the size of the body, as far as it can be told from the first  *)
(* bytes. Bytes that have not come count as zeros, which shortens it.      *)
SizesRead(c) == IF arrived[c] >= SizeCells THEN {Size(c)} ELSE 0..Size(c)

(* SocketHandler: the look at the first bytes. An event is there only if   *)
(* something came or the peer closed, so this recv never has to wait.      *)
Peek(c) ==
    /\ pc = "wait" /\ c \in batch
    /\ batch' = Others(c)
    /\ \/ /\ arrived[c] = 0
          /\ Close(c, Lost)
       \/ /\ arrived[c] > 0
          /\ \E s \in SizesRead(c) :
                /\ siz' = s
                /\ pc' = IF s = 0 THEN "forward" ELSE "read"
                /\ buffer' = [i \in 1..(s + Header) |-> 0]
          /\ at' = c /\ cur' = 0 /\ taken' = 0
          /\ received' = Nothing
          /\ UNCHANGED network
-----------------------------------------------------------------------------
(* What one read takes: at most the size of the whole message, whatever    *)
(* was read before.                                                        *)
Taken == LET here == arrived[at] - taken
         IN IF here < siz + Header THEN here ELSE siz + Header

(* It is put behind the cells counted so far, and runs over the end of the *)
(* buffer when more came than the size told: for that part see Overrun.    *)
Put == [i \in 1..(siz + Header) |->
            IF i > cur /\ i <= cur + Taken THEN taken + i - cur ELSE buffer[i]]

Once_M(n) == TRUE

(* The loop of readBody ends when the body's size has been read; the       *)
(* header is not in it.                                                    *)
Enough(n) == n >= siz

(* A read of the loop. At the end of the connection it fails; when there   *)
(* is nothing yet it is tried once more.                                   *)
Read ==
    /\ pc = "read"
    /\ \/ /\ arrived[at] > taken
          /\ buffer' = Put
          /\ taken' = taken + Taken
          /\ cur' = cur + Taken
          /\ pc' = IF Enough(cur + Taken) THEN "forward" ELSE "read"
          /\ received' = Nothing
          /\ UNCHANGED <<network, batch, at, siz>>
       \/ /\ arrived[at] = taken /\ gone[at]
          /\ Close(at, Lost)
          /\ UNCHANGED batch
       \/ /\ arrived[at] = taken /\ ~gone[at]
          /\ pc' = "retry"
          /\ UNCHANGED <<network, batch, reading, received>>

(* The second read is not added to the cells counted. Without success the  *)
(* loop begins again: nothing else is served while it turns.               *)
Retry ==
    /\ pc = "retry"
    /\ pc' = "read"
    /\ \/ /\ arrived[at] > taken
          /\ buffer' = Put
          /\ taken' = taken + Taken
       \/ /\ arrived[at] = taken
          /\ UNCHANGED <<buffer, taken>>
    /\ UNCHANGED <<network, batch, at, siz, cur, received>>

Overruns == arrived[at] > taken /\ cur + Taken > siz + Header

(* What is read over the end of the buffer is written over other memory of *)
(* the server. Either nothing in it is needed any more, and Read and Retry *)
(* go on, or the server ends by it, all its connections with it, and is    *)
(* started anew.                                                           *)
Overrun ==
    /\ pc \in {"read", "retry"} /\ Overruns
    /\ conn' = [c \in Conns |-> "none"] /\ form' = [c \in Conns |-> NoForm]
    /\ arrived' = [c \in Conns |-> 0] /\ cuts' = [c \in Conns |-> {}]
    /\ gone' = [c \in Conns |-> FALSE]
    /\ backlog' = <<>> /\ event' = FALSE /\ bursts' = 0
    /\ pc' = "wait" /\ batch' = {}
    /\ at' = NoConn /\ siz' = 0 /\ cur' = 0 /\ taken' = 0 /\ buffer' = <<>>
    /\ received' = Nothing

(* How far the body in the buffer is the one sent.                         *)
Good == LET right == {n \in 0..Size(at) :
                          /\ Header + n <= siz + Header
                          /\ \A i \in 1..(Header + n) : buffer[i] = i}
        IN IF right = {} THEN 0 ELSE CHOOSE n \in right : \A m \in right : m <= n

(* Where the sender has paused, or stopped.                                *)
Pauses(c) == cuts[c] \cup ({arrived[c]} \ {Total(c)})

(* The outcomes of parsing. The stream ends where the buffer does. A cell  *)
(* that was never read is whatever the memory held: it may end the message *)
(* or make up fields of its own, and so does one read to a wrong place.    *)
(* The result of ParseFromCodedStream is not looked at.                    *)
Parsed ==
    LET headed == \A i \in 1..Header : buffer[i] = i
        got == {Body(at)[i] : i \in 1..Good}
        all == headed /\ Good = Size(at)
        ends == Good = siz
        message(wild) == [queued |-> TRUE, lost |-> FALSE, class |-> form[at].class,
                          got |-> got, exact |-> all, wild |-> wild,
                          cuts |-> Pauses(at), size |-> Size(at)]
    IN IF all THEN {message(FALSE)}
       ELSE IF headed THEN {message(FALSE)} \cup (IF ends THEN {} ELSE {message(TRUE)})
       ELSE {Lost, message(TRUE)}

(* The classes that have a type number; others leave no data.              *)
Known == {"CollectData", "SNMPData", "Action"}

(* The copy for the alert module is sent, which may take its time; then    *)
(* the message is parsed, the connection closed and the message queued.    *)
Forward ==
    /\ pc = "forward"
    /\ \E m \in Parsed :
          Close(at, IF m.queued /\ form[at].class \notin Known THEN Lost ELSE m)
    /\ UNCHANGED batch
-----------------------------------------------------------------------------
Listen == Wait \/ Accept \/ (\E c \in Conns : Peek(c)) \/ Read \/ Retry \/ Overrun \/ Forward

Next ==
    \/ \E c \in Conns : Connect(c) \/ Send(c) \/ Leave(c)
    \/ Listen

Spec == Init /\ [][Next]_vars

(* The listener thread goes on while it can, which includes that the alert *)
(* module takes its copies. Nothing obliges a peer to send or to close.    *)
FairSpec == Spec /\ WF_vars(Listen)
-----------------------------------------------------------------------------
Pending == (IF event THEN 1 ELSE 0) + (IF Listening \in batch THEN 1 ELSE 0)

(* accept is called only when somebody is in the queue, otherwise it would *)
(* fail and line 340 end the server; and what is in the queue without an   *)
(* event to come for it is explained by connections that came at once: one *)
(* that comes alone never makes the queue longer for good.                 *)
BacklogExplained ==
    /\ Pending <= Len(backlog)
    /\ Len(backlog) <= Pending + bursts

QueuedAsSent ==
    received.queued /\ ~received.exact =>
        \/ received.cuts \cap 1..(SizeCells - 1) # {}
        \/ received.cuts \cap received.size..(received.size + Header - 1) # {}
        \/ Cardinality(received.cuts) > 1

PausedEarly(c) == Pauses(c) \cap 1..(SizeCells - 1) # {}

KeptInBuffer == pc \in {"read", "retry"} /\ Overruns => PausedEarly(at)

(* A message that comes in one piece is queued as it was sent. What is     *)
(* queued differs from it only if a piece ended within its first bytes,    *)
(* where its size is, or within as many bytes from its end as the header   *)
(* has, or if it came in three pieces or more: one pause in the middle may *)
(* lose the message but never damages it. Memory behind the buffer is only *)
(* written when a piece ended within the first bytes.                      *)
DamageNeedsAPause == QueuedAsSent /\ KeptInBuffer

(* The top-level guards of handle_message and of the insert methods: from  *)
(* a message with these cells something is written.                        *)
Stores(class, got) ==
    \/ /\ class = "CollectData"
       /\ \/ /\ ~Has(got, class, "error_code")
             /\ \/ Has(got, class, "fru_data")
                \/ Has(got, class, "value_data") /\ Has(got, class, "server_type")
          \/ Has(got, class, "log_data")
    \/ /\ class = "SNMPData"
       /\ \E f \in {"proc_data", "ssd_data", "raid_info", "pd_info", "vd_info"} :
             Has(got, class, f)
    \/ class = "Action" /\ Has(got, class, "act")

(* Nobody asks whether a message was complete, but one that was cut short  *)
(* (and not continued by garbage) and from which something is stored has   *)
(* all the fields that say whose data it is and from when; and at most its *)
(* last value is one that nobody sent.                                     *)
CutMessageIsAttributed ==
    received.queued /\ ~received.wild /\ Stores(received.class, received.got) =>
        /\ \A f \in DOMAIN Labels[received.class] :
              Labels[received.class][f] = Required
                  => Has(received.got, received.class, f)
        /\ Cardinality(Invented(received.got)) <= 1

(* The thread waits for more from a connection that is not closed.         *)
HeldBy(c) == at = c /\ ~gone[c]

(* A connection from which something came, or whose peer left, is closed   *)
(* again by the listener, unless one peer holds the listener for ever with *)
(* a message that it neither ends nor gives up: no half message, no pause  *)
(* and no other peer keeps a connection open for good in any other way.    *)
EveryConnectionCloses ==
    (\A p \in Conns : []<>~HeldBy(p)) =>
        \A c \in Conns :
            (conn[c] = "open" /\ (arrived[c] > 0 \/ gone[c])) ~> (conn[c] # "open")
-----------------------------------------------------------------------------
(* Why, for the first three: where every connection is, what has come of   *)
(* its message, and how the buffer came to differ from it.                 *)
TypeOK ==
    /\ conn \in [Conns -> {"none", "backlog", "open"}]
    /\ form \in [Conns -> (UNION {Forms[c] : c \in Conns}) \cup {NoForm}]
    /\ arrived \in [Conns -> Nat] /\ cuts \in [Conns -> SUBSET Nat]
    /\ gone \in [Conns -> BOOLEAN]
    /\ backlog \in Seq(Conns) /\ event \in BOOLEAN
    /\ bursts \in 0..Cardinality(Conns)
    /\ pc \in {"wait", "read", "retry", "forward"}
    /\ batch \subseteq Conns \cup {Listening}
    /\ at \in Conns \cup {NoConn}
    /\ siz \in Nat /\ cur \in Nat /\ taken \in Nat

(* A connection waits once to be accepted; only an accepted one has events *)
(* or is read from, and not both.                                          *)
InPlace ==
    /\ \A i, j \in 1..Len(backlog) : backlog[i] = backlog[j] => i = j
    /\ \A i \in 1..Len(backlog) : conn[backlog[i]] = "backlog"
    /\ \A c \in batch \ {Listening} : conn[c] = "open"
    /\ pc = "wait" <=> at = NoConn
    /\ at # NoConn => conn[at] = "open" /\ at \notin batch

MessagesKept ==
    \A c \in Conns :
        /\ conn[c] # "none" => form[c] \in Forms[c]
        /\ conn[c] = "none" => form[c] = NoForm /\ arrived[c] = 0 /\ cuts[c] = {}
        /\ arrived[c] <= Total(c) /\ cuts[c] \subseteq 1..(Total(c) - 1)

PausedTwice(c) == \E i, j \in Pauses(c) \ {0} : i # j

(* So far every read was counted, and is in its place.                     *)
Straight ==
    /\ cur = taken /\ \A i \in 1..cur : buffer[i] = i
    /\ cur \in {0, Total(at)} \cup Pauses(at)
    /\ IF pc = "forward" THEN siz <= cur ELSE cur < siz
    /\ pc = "retry" => cur > 0

(* A second read was not counted; if there is a third, the sender has      *)
(* paused before both.                                                     *)
Skewed ==
    /\ 0 < cur /\ cur < taken /\ cur < siz /\ pc # "forward"
    /\ cur \in Pauses(at) /\ taken \in {Total(at)} \cup Pauses(at)

ReadingKept ==
    pc # "wait" =>
        /\ arrived[at] > 0
        /\ \/ PausedEarly(at)
           \/ PausedTwice(at)
           \/ siz = Size(at) /\ taken <= arrived[at] /\ (Straight \/ Skewed)

(* The size is right, and no more cells are counted than were taken, or    *)
(* taken than have come.                                                   *)
SizeKept ==
    pc # "wait" => \/ PausedEarly(at)
                   \/ siz = Size(at) /\ cur <= taken /\ taken <= arrived[at]

(* What was parsed is the beginning of a message that a peer sent.         *)
ReceivedKept ==
    received.queued =>
        \E c \in Conns : \E f \in Forms[c] : \E n \in 0..Len(f.body) :
            received.class = f.class /\ received.got = {f.body[i] : i \in 1..n}

IInv ==
    /\ TypeOK /\ InPlace /\ MessagesKept /\ ReadingKept /\ SizeKept /\ ReceivedKept
    /\ BacklogExplained /\ QueuedAsSent
=============================================================================
