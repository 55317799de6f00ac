------------------------------- MODULE Split --------------------------------
(***************************************************************************)
(* Large payloads: splitPacket cuts what an application writes into        *)
(* fragments of at most maxDataLen bytes, sends each as a packet of its    *)
(* own, and combinePacket joins the fragments on the other side.           *)
(*                                                                         *)
(* The packets in between travel through an established channel, which     *)
(* delivers them in the order newID numbered them, each once (module       *)
(* Transfer, which implements ReliableFifo); here it is a sequence.        *)
(* A byte is named by the payload it belongs to and its place there.       *)
(***************************************************************************)
EXTENDS Naturals, Sequences, SequencesExt

CONSTANTS
    Writers,      \* goroutines that call Channel.WriteTo
    Lengths,      \* lengths of the payloads they write
    MaxDataLen,   \* ch.maxDataLen
    MaxPayloads   \* bound: payloads written in a behaviour

ASSUME SplitAssumption ==
    /\ Lengths \subseteq Nat
    /\ MaxDataLen \in Nat \ {0}
    /\ MaxPayloads \in Nat

Payloads == 0 .. MaxPayloads - 1

VARIABLES
    exclusive,   \* does the application write one payload at a time
    length,      \* length[p]: bytes of the payloads written so far, a sequence
    writing,     \* writing[w]: the payload goroutine w is in splitPacket with
    sent,        \* sent[w]: how many of its bytes are sent
    destroyed,   \* the sending channel was destroyed: writeTo returns an error
    wire,        \* fragments numbered and not yet received, in order
    combine,     \* combinePacket.combine: is a payload being joined
    data,        \* combinePacket.data
    delivered    \* payloads given to the reader, in order

vars == <<exclusive, length, writing, sent, destroyed, wire, combine, data, delivered>>

Idle == -1

\* A byte: its payload and its place there.
Byte == Nat \X Nat

\* The bytes from place i up to, and not including, place j of payload p.
Bytes(p, i, j) == [k \in 1 .. j - i |-> <<p, i + k - 1>>]

Fragment(bytes, split) == [bytes |-> bytes, split |-> split]

TypeOK ==
    /\ exclusive \in BOOLEAN
    /\ length \in Seq(Lengths) /\ Len(length) <= MaxPayloads
    /\ writing \in [Writers -> Payloads \cup {Idle}]
    /\ sent \in [Writers -> Nat]
    /\ destroyed \in BOOLEAN
    /\ wire \in Seq([bytes : Seq(Byte), split : BOOLEAN])
    /\ combine \in BOOLEAN
    /\ data \in Seq(Byte)
    /\ delivered \in Seq(Seq(Byte))
    /\ \A w \in Writers : writing[w] # Idle =>
          writing[w] < Len(length) /\ sent[w] <= length[writing[w] + 1]
    /\ \A i \in 1 .. Len(wire) :
          wire[i].split => Len(wire[i].bytes) = MaxDataLen
    /\ \A i \in 1 .. Len(wire) : Len(wire[i].bytes) <= MaxDataLen

Init ==
    /\ exclusive \in BOOLEAN
    /\ length = << >>
    /\ writing = [w \in Writers |-> Idle]
    /\ sent = [w \in Writers |-> 0]
    /\ destroyed = FALSE
    /\ wire = << >>
    /\ combine = FALSE
    /\ data = << >>
    /\ delivered = << >>

-----------------------------------------------------------------------------
\* An application calls WriteTo with a new payload.  It may keep other goroutines
\* out meanwhile by a lock of its own.
WriteTo(w, n) ==
    /\ writing[w] = Idle
    /\ exclusive => \A v \in Writers : writing[v] = Idle
    /\ Len(length) < MaxPayloads
    /\ length' = Append(length, n)
    /\ writing' = [writing EXCEPT ![w] = Len(length)]
    /\ sent' = [sent EXCEPT ![w] = 0]
    /\ UNCHANGED <<exclusive, destroyed, wire, combine, data, delivered>>

Rest(w) == length[writing[w] + 1] - sent[w]

\* splitPacket: one more full fragment, marked statusSplit.  The loop holds no
\* lock: packets of other goroutines get in between.
WriteFragment(w) ==
    /\ writing[w] # Idle
    /\ ~destroyed
    /\ Rest(w) > MaxDataLen
    /\ wire' = Append(wire, Fragment(Bytes(writing[w], sent[w], sent[w] + MaxDataLen), TRUE))
    /\ sent' = [sent EXCEPT ![w] = @ + MaxDataLen]
    /\ UNCHANGED <<exclusive, length, writing, destroyed, combine, data, delivered>>

\* WriteLast without the test of the length (a mistake, for comparison).
WriteLastAny(w) ==
    /\ writing[w] # Idle
    /\ ~destroyed
    /\ wire' = Append(wire, Fragment(Bytes(writing[w], sent[w], sent[w] + Rest(w)), FALSE))
    /\ writing' = [writing EXCEPT ![w] = Idle]
    /\ UNCHANGED <<exclusive, length, sent, destroyed, combine, data, delivered>>

\* splitPacket: the last fragment, or the whole of a small payload.
WriteLast(w) ==
    /\ writing[w] # Idle
    /\ ~destroyed
    /\ Rest(w) <= MaxDataLen
    /\ wire' = Append(wire, Fragment(Bytes(writing[w], sent[w], sent[w] + Rest(w)), FALSE))
    /\ writing' = [writing EXCEPT ![w] = Idle]
    /\ UNCHANGED <<exclusive, length, sent, destroyed, combine, data, delivered>>

\* writeTo fails on a destroyed channel, and splitPacket returns its error,
\* whether or not fragments of the payload are already sent.
WriteFails(w) ==
    /\ writing[w] # Idle
    /\ destroyed
    /\ writing' = [writing EXCEPT ![w] = Idle]
    /\ UNCHANGED <<exclusive, length, sent, destroyed, wire, combine, data, delivered>>

Destroy ==
    /\ ~destroyed
    /\ destroyed' = TRUE
    /\ UNCHANGED <<exclusive, length, writing, sent, wire, combine, data, delivered>>

-----------------------------------------------------------------------------
\* What can be wrong with the switch (mistakes, for comparison): the payload is
\* dropped when its last fragment comes, every packet is delivered by itself,
\* or the bytes of the payload before are still there.
CombineLastLost(f) ==
    \/ /\ f.split
       /\ combine' = TRUE
       /\ data' = data \o f.bytes
       /\ UNCHANGED delivered
    \/ /\ combine /\ ~f.split
       /\ combine' = FALSE
       /\ data' = << >>
       /\ UNCHANGED delivered
    \/ /\ ~combine /\ ~f.split
       /\ delivered' = Append(delivered, f.bytes)
       /\ UNCHANGED <<combine, data>>

CombineNothing(f) ==
    /\ delivered' = Append(delivered, f.bytes)
    /\ UNCHANGED <<combine, data>>

CombineUncleared(f) ==
    \/ /\ f.split
       /\ combine' = TRUE
       /\ data' = data \o f.bytes
       /\ UNCHANGED delivered
    \/ /\ ~f.split
       /\ delivered' = Append(delivered, data \o f.bytes)
       /\ combine' = FALSE
       /\ UNCHANGED data

\* combinePacket.packet: start joining, continue, end, or a single packet.
Combine(f) ==
    \/ /\ ~combine /\ f.split
       /\ combine' = TRUE
       /\ data' = f.bytes
       /\ UNCHANGED delivered
    \/ /\ combine /\ f.split
       /\ data' = data \o f.bytes
       /\ UNCHANGED <<combine, delivered>>
    \/ /\ combine /\ ~f.split
       /\ delivered' = Append(delivered, data \o f.bytes)
       /\ combine' = FALSE
       /\ data' = << >>
    \/ /\ ~combine /\ ~f.split
       /\ delivered' = Append(delivered, f.bytes)
       /\ UNCHANGED <<combine, data>>

\* sendToReader gets the next packet in order.
Receive ==
    /\ wire # << >>
    /\ Combine(Head(wire))
    /\ wire' = Tail(wire)
    /\ UNCHANGED <<exclusive, length, writing, sent, destroyed>>

Next ==
    \/ \E w \in Writers :
          \/ \E n \in Lengths : WriteTo(w, n)
          \/ WriteFragment(w) \/ WriteLast(w) \/ WriteFails(w)
    \/ Destroy
    \/ Receive

Spec == Init /\ [][Next]_vars

\* A goroutine in the middle of splitPacket goes on; the listen goroutine
\* handles what arrives.
Fairness ==
    /\ \A w \in Writers : WF_vars(WriteFragment(w) \/ WriteLast(w) \/ WriteFails(w))
    /\ WF_vars(Receive)

FairSpec == Spec /\ Fairness

-----------------------------------------------------------------------------
(***************************************************************************)
(* Correctness.                                                            *)
(***************************************************************************)

\* All of payload p.
Payload(p) == Bytes(p, 0, length[p + 1])

\* What the reader is given is always one payload as it was written: fragments
\* are never joined with those of another payload, dropped or given singly.
WholePayloads ==
    \A i \in 1 .. Len(delivered) :
        \E p \in 0 .. Len(length) - 1 : delivered[i] = Payload(p)

\* So it is when the application writes one payload at a time, from whichever
\* goroutines.
WholeWhenExclusive == exclusive => WholePayloads

\* The bytes the reader has or will have, in order.
Stream == FlattenSeq(delivered) \o data \o FlattenSeq([i \in 1 .. Len(wire) |-> wire[i].bytes])

\* Of payload p the stream has the first n bytes, each once, in their order.
Carries(stream, p, n) ==
    LET at == {i \in 1 .. Len(stream) : stream[i][1] = p}
    IN  /\ {stream[i][2] : i \in at} = 0 .. n - 1
        /\ \A i, j \in at : i < j => stream[i][2] < stream[j][2]

\* Whoever writes, no byte is lost, repeated or made up between splitPacket and
\* the reader, and those of a payload keep their order: the stream of bytes is
\* right even where the bounds of the payloads are not.
StreamConserved ==
    /\ \A i \in 1 .. Len(Stream) : Stream[i][1] < Len(length)
    /\ \A w \in Writers : writing[w] # Idle => Carries(Stream, writing[w], sent[w])
    /\ \A p \in 0 .. Len(length) - 1 : (\A w \in Writers : writing[w] # p) =>
          \/ Carries(Stream, p, length[p + 1])
          \/ destroyed /\ \E n \in 0 .. length[p + 1] : Carries(Stream, p, n)

\* The number of the i-th payload given to the reader, if it is the i-th written.
Named(i) == IF i <= Len(length) /\ delivered[i] = Payload(i - 1) THEN i - 1 ELSE Idle

Fifo == INSTANCE ReliableFifo
            WITH accepted <- Len(length),
                 delivered <- [i \in 1 .. Len(delivered) |-> Named(i)]

\* Payloads of any length, written one at a time, are delivered like packets:
\* whole, in the order written, each once.
ImplementsFifo ==
    /\ exclusive => Fifo!FifoInit
    /\ [][exclusive => Fifo!FifoNext]_<<length, delivered>>

\* Every payload written is delivered, unless the channel is destroyed.
EventuallyDelivered ==
    \A p \in Payloads : p < Len(length) ~> Len(delivered) > p \/ destroyed

=============================================================================
