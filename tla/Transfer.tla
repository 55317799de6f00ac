------------------------------ MODULE Transfer ------------------------------
(***************************************************************************)
(* One direction of an established TRU channel: the goroutines that call   *)
(* WriteTo at one end, the sender process, the send queue and its          *)
(* retransmit timer; the UDP network; the listen goroutine, the receive    *)
(* queue and the reader process at the other end; and the acks back.       *)
(*                                                                         *)
(* Packets are named by the order newID numbered them: packet n is the     *)
(* n-th, its payload is n, and pid[n] is the id it carries.  The ends only *)
(* ever look at ids, which repeat after PacketIDLimit packets; n is what   *)
(* the properties compare.                                                 *)
(*                                                                         *)
(* Not in this module: packets split in fragments (module Split), delivery *)
(* callbacks (module Delivery), the handshake (module Handshake), pauses   *)
(* for flow control, and how the receiving end's channel is destroyed.     *)
(***************************************************************************)
EXTENDS PacketID, Sequences, FiniteSets

CONSTANTS
    Writers,                \* goroutines that call Channel.WriteTo
    MaxMessages,            \* bound: packets written in a behaviour
    Window,                 \* bound: packets numbered and not yet acked
    Lifetime,               \* bound: packets numbered while a datagram lives
    ChanLen,                \* capacity of senderCh and readerCh
    MaxRetransmitAttempts   \* retransmissions before the channel is destroyed

ASSUME TransferAssumption ==
    /\ MaxMessages \in Nat
    /\ Window \in Nat \ {0}
    /\ Lifetime \in Nat
    /\ ChanLen \in Nat \ {0}
    /\ MaxRetransmitAttempts \in Nat

Messages == 0 .. MaxMessages - 1
None == -1

VARIABLES
    \* the writing end
    id,          \* ch.id, the next id newID gives out
    count,       \* how many ids newID has given out
    pid,         \* pid[n]: the id of packet n
    wpc, wn,     \* program counter and packet of each goroutine in writeTo
    sendQueue,   \* packets in the send queue's list
    index,       \* the send queue's index: the packet filed under an id
    attempts,    \* attempts[n]: retransmissions of packet n
    scan,        \* due packets the retransmit pass has still to handle;
                 \* the pass holds the queue's read lock while there are any
    senderCh,    \* channel to the sender process
    destroyed,   \* the channel was destroyed for too many retransmissions
    \* the network
    net,         \* data datagrams that may still arrive, any number of times
    acks,        \* ack datagrams that may still arrive
    \* the reading end
    expectedID,  \* ch.expectedID
    recvQueue,   \* the receive queue: the packet filed under an id
    lpc, ln, lq, \* listen: program counter, packet, is it from the recvQueue
    ackCh,       \* this end's channel to its sender process
    readerCh,    \* channel to the reader process
    received     \* packets given to the reader callback, in order

writerVars == <<id, count, pid, wpc, wn>>
queueVars == <<sendQueue, index, attempts, scan, senderCh, destroyed>>
readerVars == <<expectedID, recvQueue, lpc, ln, lq, ackCh, readerCh, received>>
vars == <<writerVars, queueVars, net, acks, readerVars>>

TypeOK ==
    /\ id \in IDs
    /\ count \in 0 .. MaxMessages
    /\ pid \in [Messages -> IDs]
    /\ wpc \in [Writers -> {"idle", "number", "add", "send"}]
    /\ wn \in [Writers -> Messages \cup {None}]
    /\ sendQueue \in SUBSET Messages
    /\ index \in [IDs -> Messages \cup {None}]
    /\ attempts \in [Messages -> 0 .. MaxRetransmitAttempts + 1]
    /\ scan \in SUBSET sendQueue
    /\ senderCh \in Seq(Messages) /\ Len(senderCh) <= ChanLen
    /\ destroyed \in BOOLEAN
    /\ net \in SUBSET Messages
    /\ acks \in SUBSET Messages
    /\ expectedID \in IDs
    /\ recvQueue \in [IDs -> Messages \cup {None}]
    /\ lpc \in {"idle", "ack", "store", "push"}
    /\ ln \in Messages \cup {None}
    /\ lq \in BOOLEAN
    /\ ackCh \in Seq(Messages) /\ Len(ackCh) <= ChanLen
    /\ readerCh \in Seq(Messages) /\ Len(readerCh) <= ChanLen
    /\ received \in Seq(Messages)

Init ==
    /\ id = 0
    /\ count = 0
    /\ pid = [n \in Messages |-> 0]
    /\ wpc = [w \in Writers |-> "idle"]
    /\ wn = [w \in Writers |-> None]
    /\ sendQueue = {}
    /\ index = [i \in IDs |-> None]
    /\ attempts = [n \in Messages |-> 0]
    /\ scan = {}
    /\ senderCh = << >>
    /\ destroyed = FALSE
    /\ net = {}
    /\ acks = {}
    /\ expectedID = 0
    /\ recvQueue = [i \in IDs |-> None]
    /\ lpc = "idle"
    /\ ln = None
    /\ lq = FALSE
    /\ ackCh = << >>
    /\ readerCh = << >>
    /\ received = << >>

-----------------------------------------------------------------------------
(***************************************************************************)
(* The writing end.                                                        *)
(***************************************************************************)

\* Packets numbered and not acked: queued, or on their way to the queue.
Outstanding == sendQueue \cup {wn[w] : w \in {v \in Writers : wpc[v] = "add"}}

\* The code bounds neither of these two; see HalfWindow below.
WindowOpen == \A m \in Outstanding : count - m < Window
Fresh(n) == count - n <= Lifetime

\* writeTo begins: refused when the channel is destroyed.
WriteTo(w) ==
    /\ wpc[w] = "idle"
    /\ ~destroyed
    /\ wpc' = [wpc EXCEPT ![w] = "number"]
    /\ UNCHANGED <<id, count, pid, wn, queueVars, net, acks, readerVars>>

\* writeTo takes an id for its packet.
NewID(w) ==
    /\ wpc[w] = "number"
    /\ count < MaxMessages
    /\ WindowOpen
    /\ pid' = [pid EXCEPT ![count] = id]
    /\ id' = NextID(id)
    /\ count' = count + 1
    /\ wpc' = [wpc EXCEPT ![w] = "add"]
    /\ wn' = [wn EXCEPT ![w] = count]
    /\ net' = {m \in net : count' - m <= Lifetime}
    /\ acks' = {m \in acks : count' - m <= Lifetime}
    /\ UNCHANGED <<queueVars, readerVars>>

\* sendQueue.add, under the queue's write lock.
Add(w) ==
    /\ wpc[w] = "add"
    /\ scan = {}
    /\ sendQueue' = sendQueue \cup {wn[w]}
    /\ index' = [index EXCEPT ![pid[wn[w]]] = wn[w]]
    /\ wpc' = [wpc EXCEPT ![w] = "send"]
    /\ UNCHANGED <<id, count, pid, wn, attempts, scan, senderCh, destroyed,
                   net, acks, readerVars>>

\* writeToSender: waits for room in senderCh.
WriteToSender(w) ==
    /\ wpc[w] = "send"
    /\ Len(senderCh) < ChanLen
    /\ senderCh' = Append(senderCh, wn[w])
    /\ wpc' = [wpc EXCEPT ![w] = "idle"]
    /\ wn' = [wn EXCEPT ![w] = None]
    /\ UNCHANGED <<id, count, pid, sendQueue, index, attempts, scan, destroyed,
                   net, acks, readerVars>>

\* The sender process writes the next packet to the UDP socket: it gets onto
\* the network or is lost.  A destroyed channel's packets are skipped.
SenderProccess ==
    /\ senderCh # << >>
    /\ senderCh' = Tail(senderCh)
    /\ \/ ~destroyed /\ Fresh(Head(senderCh)) /\ net' = net \cup {Head(senderCh)}
       \/ UNCHANGED net
    /\ UNCHANGED <<writerVars, sendQueue, index, attempts, scan, destroyed,
                   acks, readerVars>>

\* The retransmit timer fires: the packets in due are past their time.
Retransmit(due) ==
    /\ ~destroyed
    /\ scan = {}
    /\ due \in SUBSET sendQueue \ {{}}
    /\ scan' = due
    /\ UNCHANGED <<writerVars, sendQueue, index, attempts, senderCh, destroyed,
                   net, acks, readerVars>>

\* The pass sends packet n once more; it waits for room with the lock held.
Resend(n) ==
    /\ n \in scan
    /\ attempts[n] + 1 <= MaxRetransmitAttempts
    /\ Len(senderCh) < ChanLen
    /\ attempts' = [attempts EXCEPT ![n] = @ + 1]
    /\ senderCh' = Append(senderCh, n)
    /\ scan' = scan \ {n}
    /\ UNCHANGED <<writerVars, sendQueue, index, destroyed, net, acks, readerVars>>

\* One retransmission too many: the pass ends and destroys the channel.
GiveUp(n) ==
    /\ n \in scan
    /\ attempts[n] + 1 > MaxRetransmitAttempts
    /\ attempts' = [attempts EXCEPT ![n] = @ + 1]
    /\ scan' = {}
    /\ destroyed' = TRUE
    /\ UNCHANGED <<writerVars, sendQueue, index, senderCh, net, acks, readerVars>>

\* ReceiveAck when delete() forgets the index (a mistake, for comparison).
ReceiveAckKeepsIndex(n) ==
    /\ n \in acks
    /\ ~destroyed
    /\ index[pid[n]] # None
    /\ scan = {}
    /\ sendQueue' = sendQueue \ {index[pid[n]]}
    /\ attempts' = [attempts EXCEPT ![index[pid[n]]] = 0]
    /\ UNCHANGED <<writerVars, index, scan, senderCh, destroyed, net, acks,
                   readerVars>>

\* An ack for id pid[n] arrives: the packet filed under this id leaves the
\* queue.  An ack for an id that is not filed, or of a destroyed channel, is
\* dropped.
ReceiveAck(n) ==
    /\ n \in acks
    /\ ~destroyed
    /\ index[pid[n]] # None
    /\ scan = {}
    /\ LET m == index[pid[n]]
       IN  /\ sendQueue' = sendQueue \ {m}
           /\ attempts' = [attempts EXCEPT ![m] = 0]
    /\ index' = [index EXCEPT ![pid[n]] = None]
    /\ UNCHANGED <<writerVars, scan, senderCh, destroyed, net, acks, readerVars>>

-----------------------------------------------------------------------------
(***************************************************************************)
(* The reading end.                                                        *)
(***************************************************************************)

\* listen reads a data datagram and serve takes it up.
ReceiveData(n) ==
    /\ lpc = "idle"
    /\ n \in net
    /\ lpc' = "ack"
    /\ ln' = n
    /\ lq' = FALSE
    /\ UNCHANGED <<writerVars, queueVars, net, acks,
                   expectedID, recvQueue, ackCh, readerCh, received>>

\* serve acks every data packet, whatever it then does with it.
WriteToAck ==
    /\ lpc = "ack"
    /\ Len(ackCh) < ChanLen
    /\ ackCh' = Append(ackCh, ln)
    /\ lpc' = "store"
    /\ UNCHANGED <<writerVars, queueVars, net, acks,
                   expectedID, recvQueue, ln, lq, readerCh, received>>

\* dist < 0: already processed.
ServeOld ==
    /\ lpc = "store"
    /\ Distance(expectedID, pid[ln]) < 0
    /\ lpc' = "idle"
    /\ ln' = None
    /\ UNCHANGED <<writerVars, queueVars, net, acks,
                   expectedID, recvQueue, lq, ackCh, readerCh, received>>

\* ServeEarly when an early packet is dropped (a mistake, for comparison).
ServeEarlyDrops ==
    /\ lpc = "store"
    /\ Distance(expectedID, pid[ln]) > 0
    /\ lpc' = "idle"
    /\ ln' = None
    /\ UNCHANGED <<writerVars, queueVars, net, acks,
                   expectedID, recvQueue, lq, ackCh, readerCh, received>>

\* dist > 0: kept until the packets before it arrive, unless its id already is.
ServeEarly ==
    /\ lpc = "store"
    /\ Distance(expectedID, pid[ln]) > 0
    /\ IF recvQueue[pid[ln]] = None
       THEN recvQueue' = [recvQueue EXCEPT ![pid[ln]] = ln]
       ELSE UNCHANGED recvQueue
    /\ lpc' = "idle"
    /\ ln' = None
    /\ UNCHANGED <<writerVars, queueVars, net, acks,
                   expectedID, lq, ackCh, readerCh, received>>

\* ServeExpected without newExpectedID (a mistake, for comparison).
ServeExpectedNotCounted ==
    /\ lpc = "store"
    /\ Distance(expectedID, pid[ln]) = 0
    /\ lpc' = "push"
    /\ UNCHANGED <<writerVars, queueVars, net, acks,
                   expectedID, recvQueue, ln, lq, ackCh, readerCh, received>>

\* dist = 0: sendToReader counts the packet, then gives it to the reader.
ServeExpected ==
    /\ lpc = "store"
    /\ Distance(expectedID, pid[ln]) = 0
    /\ expectedID' = NextID(expectedID)
    /\ lpc' = "push"
    /\ UNCHANGED <<writerVars, queueVars, net, acks,
                   recvQueue, ln, lq, ackCh, readerCh, received>>

\* Processed without recvQueue.delete (a mistake, for comparison).
ProcessedKept(n) == recvQueue

\* The receive queue after process() has handed over packet n.
Processed(n) == IF lq THEN [recvQueue EXCEPT ![pid[n]] = None] ELSE recvQueue

\* SendToReader without the call of process() (a mistake, for comparison).
SendToReaderOnly ==
    /\ lpc = "push"
    /\ Len(readerCh) < ChanLen
    /\ readerCh' = Append(readerCh, ln)
    /\ recvQueue' = Processed(ln)
    /\ lpc' = "idle"
    /\ ln' = None
    /\ lq' = FALSE
    /\ UNCHANGED <<writerVars, queueVars, net, acks, expectedID, ackCh, received>>

\* The packet goes to the reader process, when there is room in readerCh;
\* then process() looks for the next expected packet in the receive queue.
SendToReader ==
    /\ lpc = "push"
    /\ Len(readerCh) < ChanLen
    /\ readerCh' = Append(readerCh, ln)
    /\ recvQueue' = Processed(ln)
    /\ LET next == recvQueue'[expectedID]
       IN  IF next # None
           THEN /\ expectedID' = NextID(expectedID)
                /\ lpc' = "push"
                /\ ln' = next
                /\ lq' = TRUE
           ELSE /\ lpc' = "idle"
                /\ ln' = None
                /\ lq' = FALSE
                /\ UNCHANGED expectedID
    /\ UNCHANGED <<writerVars, queueVars, net, acks, ackCh, received>>

\* The sender process of this end: an ack gets onto the network or is lost.
TransmitAck ==
    /\ ackCh # << >>
    /\ ackCh' = Tail(ackCh)
    /\ \/ Fresh(Head(ackCh)) /\ acks' = acks \cup {Head(ackCh)}
       \/ UNCHANGED acks
    /\ UNCHANGED <<writerVars, queueVars, net,
                   expectedID, recvQueue, lpc, ln, lq, readerCh, received>>

\* The reader process calls the application's reader.
ReaderProccess ==
    /\ readerCh # << >>
    /\ received' = Append(received, Head(readerCh))
    /\ readerCh' = Tail(readerCh)
    /\ UNCHANGED <<writerVars, queueVars, net, acks,
                   expectedID, recvQueue, lpc, ln, lq, ackCh>>

-----------------------------------------------------------------------------
WriterNext(w) == WriteTo(w) \/ NewID(w) \/ Add(w) \/ WriteToSender(w)

RetransmitNext ==
    \/ \E due \in SUBSET sendQueue : Retransmit(due)
    \/ \E n \in Messages : Resend(n) \/ GiveUp(n)

ListenNext ==
    \/ \E n \in Messages : ReceiveData(n)
    \/ WriteToAck \/ ServeOld \/ ServeEarly \/ ServeExpected \/ SendToReader

Next ==
    \/ \E w \in Writers : WriterNext(w)
    \/ SenderProccess
    \/ RetransmitNext
    \/ \E n \in Messages : ReceiveAck(n)
    \/ ListenNext
    \/ TransmitAck
    \/ ReaderProccess

Spec == Init /\ [][Next]_vars

(***************************************************************************)
(* The scheduler runs every goroutine that can run.  A goroutine that      *)
(* waits for a lock or for room in a channel is served in the order it     *)
(* came, so what is enabled again and again happens; a packet that stays   *)
(* in the send queue becomes due and is in some later pass.  Nothing is    *)
(* assumed of the network, nor that the application writes.                *)
(***************************************************************************)
Fairness ==
    /\ \A w \in Writers : SF_vars(Add(w)) /\ SF_vars(WriteToSender(w))
    /\ WF_vars(SenderProccess)
    /\ \A n \in Messages :
          /\ SF_vars(\E due \in SUBSET sendQueue : n \in due /\ Retransmit(due))
          /\ SF_vars(Resend(n))
          /\ WF_vars(GiveUp(n))
    /\ WF_vars(WriteToAck)
    /\ WF_vars(ServeOld \/ ServeEarly \/ ServeExpected)
    /\ WF_vars(SendToReader)
    /\ WF_vars(TransmitAck)
    /\ WF_vars(ReaderProccess)

FairSpec == Spec /\ Fairness

-----------------------------------------------------------------------------
(***************************************************************************)
(* Correctness.                                                            *)
(***************************************************************************)

\* What the receiver needs of its peer and of the network to tell an old
\* packet from an early one: less than half of the ids in use at a time.
HalfWindow ==
    /\ Window <= PacketIDLimit \div 2
    /\ Lifetime <= PacketIDLimit \div 2

\* How many packets the receiver has passed over, in order.
Expected == Len(received) + Len(readerCh) + IF lpc = "push" THEN 1 ELSE 0

\* The receiver has packet n for good, or is about to.
Held(n) ==
    \/ n < Expected
    \/ recvQueue[pid[n]] = n
    \/ lpc = "store" /\ ln = n

\* The reader callback of tru.go gets the packets in the order they were
\* numbered, each once, however the network drops, repeats and reorders them
\* and although their ids repeat.
InOrder == \A i \in 1 .. Len(received) : received[i] = i - 1

\* A packet that has left the send queue, so that it will never be sent again,
\* is held by the receiver: no packet is lost (README, Reliability).
NoLoss == \A n \in 0 .. count - 1 : n \in Outstanding \/ Held(n)

\* The receive queue keeps only packets that the reader still waits for, each
\* under its id, or the one being handed over: nothing stale is left there to
\* be taken for the packet that has the same id one round of ids later.
ReceiveQueueAhead ==
    \A i \in IDs :
        recvQueue[i] # None =>
            /\ pid[recvQueue[i]] = i
            /\ \/ recvQueue[i] >= Expected
               \/ lpc = "push" /\ lq /\ ln = recvQueue[i]

\* The send queue and its index agree: an ack finds the packet it is for, and
\* a packet is retransmitted exactly while an ack for it can still be matched.
IndexMatchesQueue ==
    \A n \in Messages : n \in sendQueue <=> \E i \in IDs : index[i] = n

\* Every packet that was numbered reaches the reader, unless the channel is
\* destroyed by the retransmit timer: no packet is stuck on either side.
EventuallyDelivered ==
    \A n \in Messages : n < count ~> n < Len(received) \/ destroyed

Fifo == INSTANCE ReliableFifo WITH accepted <- count, delivered <- received

\* The channel does what ReliableFifo promises to the two applications.
ImplementsFifo == Fifo!FifoSpec

=============================================================================
