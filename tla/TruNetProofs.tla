---------------------------- MODULE TruNetProofs ----------------------------
(***************************************************************************)
(* Proofs about the net.Listener and net.Conn, for any number of Conns and *)
(* messages.                                                               *)
(***************************************************************************)
EXTENDS TruNet, SequenceTheorems, TLAPS

\* A message that was received on its channel.
Received(msg, len) == msg.c \in Conns /\ msg.m \in 1 .. Len(len[msg.c])

\* Messages on their way to the reader process, and with it, were received; who
\* is busy with a channel has one.
MessageInv ==
    /\ lpc \in {"offer", "push"} => lc \in Conns
    /\ lpc = "push" => Len(length[lc]) > 0
    /\ apc = "set" => ac \in Conns
    /\ \A i \in 1 .. Len(readerCh) : Received(readerCh[i], length)
    /\ rpc = "send" => Received(rm, length)

\* The reader's Go channel of a Conn that is used, or about to be, is closed only
\* once the channel is destroyed, which happens before in Conn.Close.
CloseInv ==
    /\ \A k \in Closers \X Conns : kpc[k] \in {"delete", "closeRead"} => chan[k[2]] = "destroyed"
    /\ \A c \in Conns : (hpc[c] # "none" \/ (apc = "set" /\ ac = c)) /\ c \notin readch
                            => chan[c] = "destroyed"

\* What is read of the message at hand is the last of the segments.
SegmentsInv == \A c \in Conns : segments[c] # << >>

IInv == TypeOK /\ MessageInv /\ CloseInv /\ SegmentsInv

Data == Seq(Nat \X Nat)

\* Read returns a part of what it has, and keeps the rest.
LEMMA CopiedType ==
    ASSUME TypeOK, SegmentsInv, NEW c \in Conns, NEW data \in Data, NEW n \in ReadLens,
           Copied(c, data, n)
    PROVE  buf' \in [Conns -> Data] /\ segments' \in [Conns -> Seq(Data)] /\ SegmentsInv'
<1> DEFINE k == IF n < Len(data) THEN n ELSE Len(data)
<1>1. k \in 0 .. Len(data)
  BY TruNetAssumption DEF Data
<1>2. SubSeq(data, k + 1, Len(data)) \in Data /\ SubSeq(data, 1, k) \in Data
  BY <1>1, SubSeqProperties DEF Data
<1>3. segments[c] \in Seq(Data)
  BY DEF TypeOK, Data
<1> DEFINE read == [segments[c] EXCEPT ![Len(segments[c])] = @ \o SubSeq(data, 1, k)]
<1>4. read \in Seq(Data) /\ read # << >>
  <2> HIDE DEF k, Data
  <2>1. Len(segments[c]) \in 1 .. Len(segments[c])
    BY <1>3, EmptySeq DEF SegmentsInv
  <2>2. segments[c][Len(segments[c])] \in Data
    BY <1>3, <2>1, ElementOfSeq
  <2>3. segments[c][Len(segments[c])] \o SubSeq(data, 1, k) \in Data
    BY <1>2, <2>2, ConcatProperties DEF Data
  <2>4. read \in Seq(Data) /\ Len(read) = Len(segments[c])
    BY <1>3, <2>1, <2>3, ExceptSeq
  <2> QED BY <2>1, <2>4, EmptySeq
<1> HIDE DEF k
<1>5. buf' = [buf EXCEPT ![c] = SubSeq(data, k + 1, Len(data))]
  BY DEF Copied, k
<1>6. segments' = [segments EXCEPT ![c] = read]
  BY DEF Copied, k
<1> HIDE DEF read
<1> QED BY <1>2, <1>4, <1>5, <1>6 DEF TypeOK, Data, SegmentsInv

\* The bytes of a message that was received.
LEMMA BytesType ==
    ASSUME TypeOK, NEW c \in Conns, NEW m \in 1 .. Len(length[c])
    PROVE  Bytes(c, m) \in Data
<1>1. length[c][m] \in Nat
  BY TruNetAssumption, ElementOfSeq DEF TypeOK
<1>2. \A i \in 1 .. length[c][m] : <<m, i>> \in Nat \X Nat
  BY <1>1
<1>3. Bytes(c, m) \in [1 .. length[c][m] -> Nat \X Nat]
  BY <1>2 DEF Bytes
<1> QED BY <1>1, <1>3, SeqDef DEF Data

LEMMA InitIInv == Init => IInv
<1> SUFFICES ASSUME Init PROVE IInv
  OBVIOUS
<1> USE TruNetAssumption DEF Init
<1>1. << << >> >> \in Seq(Data) /\ << >> \in Data
  BY DEF Data
<1>2. TypeOK
  <2>1. length \in [Conns -> Seq(Lengths)] /\ readerCh \in Seq([c : Conns, m : Nat])
        /\ Len(readerCh) <= ChanLen
    OBVIOUS
  <2>2. buf \in [Conns -> Data] /\ segments \in [Conns -> Seq(Data)]
    BY <1>1
  <2> QED BY <2>1, <2>2 DEF TypeOK, Data
<1>3. MessageInv /\ CloseInv /\ SegmentsInv
  BY DEF MessageInv, CloseInv, SegmentsInv
<1> QED BY <1>2, <1>3 DEF IInv

-----------------------------------------------------------------------------
(***************************************************************************)
(* The steps.                                                              *)
(***************************************************************************)
LEMMA ListenKeeps ==
    ASSUME IInv, NEW c \in Conns,
           \/ NewChannel(c) \/ (\E n \in Lengths : ReceiveData(c, n))
           \/ Accept \/ SetReader \/ SendToReader
    PROVE  IInv'
<1> USE TruNetAssumption DEF IInv, listenVars, acceptVars, processVars, readVars, closeVars
<1>1. CASE NewChannel(c)
  <2>1. TypeOK'
    BY <1>1 DEF NewChannel, TypeOK
  <2>2. MessageInv'
    BY <1>1 DEF NewChannel, MessageInv, Received
  <2>3. CloseInv' /\ SegmentsInv'
    BY <1>1 DEF NewChannel, CloseInv, SegmentsInv, TypeOK
  <2> QED BY <2>1, <2>2, <2>3
<1>2. ASSUME NEW n \in Lengths, ReceiveData(c, n) PROVE IInv'
  <2>1. /\ Append(length[c], n) \in Seq(Lengths)
        /\ \A m \in 1 .. Len(length[c]) : m \in 1 .. Len(Append(length[c], n))
        /\ Len(Append(length[c], n)) > 0
    BY DEF TypeOK
  <2>2. length' = [length EXCEPT ![c] = Append(length[c], n)]
    BY <1>2 DEF ReceiveData
  <2>3. TypeOK'
    <3>1. length' \in [Conns -> Seq(Lengths)]
      BY <2>1, <2>2 DEF TypeOK
    <3> QED BY <1>2, <3>1 DEF ReceiveData, TypeOK
  <2>4. \A msg : Received(msg, length) => Received(msg, length')
    BY <2>1, <2>2 DEF Received, TypeOK
  <2>5. MessageInv'
    <3>1. lc' \in Conns /\ Len(length'[lc']) > 0
      BY <1>2, <2>1, <2>2 DEF ReceiveData, TypeOK
    <3> QED BY <1>2, <2>4, <3>1 DEF ReceiveData, MessageInv
  <2>6. CloseInv' /\ SegmentsInv'
    BY <1>2 DEF ReceiveData, CloseInv, SegmentsInv
  <2> QED BY <2>3, <2>5, <2>6
<1>3. CASE Accept
  <2>1. lc \in Conns
    BY <1>3 DEF Accept, MessageInv
  <2>2. TypeOK'
    BY <1>3, <2>1 DEF Accept, TypeOK
  <2>3. MessageInv'
    BY <1>3, <2>1 DEF Accept, MessageInv, Received
  <2>4. CloseInv' /\ SegmentsInv'
    BY <1>3 DEF Accept, CloseInv, SegmentsInv
  <2> QED BY <2>2, <2>3, <2>4
<1>4. CASE SetReader
  <2>1. ac \in Conns
    BY <1>4 DEF SetReader, MessageInv
  <2>2. TypeOK'
    BY <1>4, <2>1 DEF SetReader, TypeOK
  <2>3. MessageInv'
    BY <1>4 DEF SetReader, MessageInv, Received
  <2>4. CloseInv' /\ SegmentsInv'
    BY <1>4, <2>1 DEF SetReader, CloseInv, SegmentsInv, TypeOK
  <2> QED BY <2>2, <2>3, <2>4
<1>5. CASE SendToReader
  <2> DEFINE msg == Message(lc, Len(length[lc]))
  <2>1. lc \in Conns /\ Len(length[lc]) > 0 /\ Len(length[lc]) \in Nat
    BY <1>5 DEF SendToReader, MessageInv, TypeOK
  <2>2. msg \in [c : Conns, m : Nat] /\ Received(msg, length)
    BY <2>1 DEF Message, Received
  <2> HIDE DEF msg
  <2>3. readerCh' = Append(readerCh, msg)
    BY <1>5 DEF SendToReader, msg
  <2>4. TypeOK'
    <3>1. readerCh' \in Seq([c : Conns, m : Nat]) /\ Len(readerCh') <= ChanLen
      <4>1. readerCh \in Seq([c : Conns, m : Nat]) /\ Len(readerCh) \in Nat
            /\ Len(readerCh) < ChanLen
        BY <1>5, LenProperties DEF SendToReader, TypeOK
      <4> QED BY <2>2, <2>3, <4>1, AppendProperties
    <3> QED BY <1>5, <3>1 DEF SendToReader, TypeOK
  <2>5. MessageInv'
    <3>1. \A i \in 1 .. Len(readerCh') : Received(readerCh'[i], length)
      <4>1. readerCh \in Seq([c : Conns, m : Nat]) /\ Len(readerCh) \in Nat
        BY LenProperties DEF TypeOK
      <4>2. /\ Len(readerCh') = Len(readerCh) + 1
            /\ \A i \in 1 .. Len(readerCh) : readerCh'[i] = readerCh[i]
            /\ readerCh'[Len(readerCh) + 1] = msg
        BY <2>2, <2>3, <4>1, AppendProperties
      <4> SUFFICES ASSUME NEW i \in 1 .. Len(readerCh') PROVE Received(readerCh'[i], length)
        OBVIOUS
      <4>3. CASE i = Len(readerCh) + 1
        BY <2>2, <4>2, <4>3
      <4>4. CASE i # Len(readerCh) + 1
        <5>1. i \in 1 .. Len(readerCh)
          BY <4>1, <4>2, <4>4
        <5> QED BY <4>2, <5>1 DEF MessageInv
      <4> QED BY <4>3, <4>4
    <3> QED BY <1>5, <3>1 DEF SendToReader, MessageInv, Received
  <2>6. CloseInv' /\ SegmentsInv'
    BY <1>5 DEF SendToReader, CloseInv, SegmentsInv
  <2> QED BY <2>4, <2>5, <2>6
<1> QED BY <1>1, <1>2, <1>3, <1>4, <1>5

LEMMA ReaderKeeps ==
    ASSUME IInv, ReaderProccess \/ ReaderRecovers
    PROVE  IInv'
<1> USE TruNetAssumption DEF IInv, listenVars, acceptVars, processVars, readVars, closeVars
<1>1. CASE ReaderProccess
  <2>1. readerCh \in Seq([c : Conns, m : Nat]) /\ readerCh # << >>
    BY <1>1 DEF ReaderProccess, TypeOK
  <2>2. /\ readerCh' = Tail(readerCh) /\ Len(readerCh') = Len(readerCh) - 1
        /\ readerCh' \in Seq([c : Conns, m : Nat])
        /\ \A i \in 1 .. Len(readerCh') : i + 1 \in 1 .. Len(readerCh)
                                          /\ readerCh'[i] = readerCh[i + 1]
    BY <1>1, <2>1 DEF ReaderProccess
  <2>3. /\ Head(readerCh) = readerCh[1] /\ 1 \in 1 .. Len(readerCh)
        /\ Head(readerCh) \in [c : Conns, m : Nat]
    <3>1. 1 \in 1 .. Len(readerCh)
      BY <2>1, EmptySeq
    <3>2. Head(readerCh) = readerCh[1]
      OBVIOUS
    <3>3. readerCh[1] \in [c : Conns, m : Nat]
      BY <2>1, <3>1, ElementOfSeq
    <3> QED BY <3>1, <3>2, <3>3
  <2>4. \/ rpc' = rpc /\ rm' = rm
        \/ rpc' = "send" /\ rm' = Head(readerCh)
    <3> DEFINE sends == LET c == Head(readerCh).c
                       IN  chan[c] = "live" /\ c \in reader /\ c \in connch
    <3>1. CASE sends
      BY <1>1, <3>1 DEF ReaderProccess
    <3>2. CASE ~sends
      BY <1>1, <3>2 DEF ReaderProccess
    <3> QED BY <3>1, <3>2
  <2>5. TypeOK'
    <3>1. rpc' \in {"idle", "send"} /\ rm' \in [c : Conns, m : Nat] \cup {None}
      BY <2>3, <2>4 DEF TypeOK
    <3>2. Len(readerCh') <= ChanLen
      BY <2>1, <2>2, LenProperties DEF TypeOK
    <3> QED BY <1>1, <2>2, <3>1, <3>2 DEF ReaderProccess, TypeOK
  <2>6. MessageInv'
    BY <1>1, <2>2, <2>3, <2>4 DEF ReaderProccess, MessageInv, Received
  <2>7. CloseInv' /\ SegmentsInv'
    BY <1>1 DEF ReaderProccess, CloseInv, SegmentsInv
  <2> QED BY <2>5, <2>6, <2>7
<1>2. CASE ReaderRecovers
  BY <1>2 DEF ReaderRecovers, TypeOK, MessageInv, Received, CloseInv, SegmentsInv
<1> QED BY <1>1, <1>2

LEMMA ConnKeeps ==
    ASSUME IInv, NEW c \in Conns, ConnNext(c)
    PROVE  IInv'
<1> USE TruNetAssumption DEF IInv, listenVars, acceptVars, processVars, readVars, closeVars
<1>1. ASSUME NEW n \in ReadLens, ReadRest(c, n) PROVE IInv'
  <2>1. buf[c] \in Data
    BY DEF TypeOK, Data
  <2>2. buf' \in [Conns -> Data] /\ segments' \in [Conns -> Seq(Data)] /\ SegmentsInv'
    BY <1>1, <2>1, CopiedType DEF ReadRest
  <2> QED BY <1>1, <2>2 DEF ReadRest, TypeOK, MessageInv, Received, CloseInv, Data
<1>2. ASSUME NEW n \in ReadLens, ReadData(c, n) PROVE IInv'
  <2>1. rm.m \in 1 .. Len(length[c])
    BY <1>2 DEF ReadData, MessageInv, Received
  <2>2. buf' \in [Conns -> Data] /\ segments' \in [Conns -> Seq(Data)] /\ SegmentsInv'
    BY <1>2, <2>1, BytesType, CopiedType DEF ReadData
  <2>3. TypeOK'
    <3>1. rm.m \in Nat
      BY <2>1 DEF TypeOK
    <3> QED BY <1>2, <2>2, <3>1 DEF ReadData, TypeOK, Data
  <2>4. MessageInv'
    BY <1>2 DEF ReadData, MessageInv, Received
  <2>5. CloseInv'
    BY <1>2 DEF ReadData, CloseInv, TypeOK
  <2> QED BY <2>2, <2>3, <2>4, <2>5
<1>3. CASE ReadEOF(c)
  <2>1. segments' \in [Conns -> Seq(Data)] /\ SegmentsInv'
    <3>1. << >> \in Data /\ segments[c] \in Seq(Data)
      BY DEF TypeOK, Data
    <3>2. Append(segments[c], << >>) \in Seq(Data) /\ Append(segments[c], << >>) # << >>
      BY <3>1
    <3> QED BY <1>3, <3>2 DEF ReadEOF, TypeOK, Data, SegmentsInv
  <2> QED BY <1>3, <2>1 DEF ReadEOF, TypeOK, MessageInv, Received, CloseInv, Data
<1>4. CASE Read(c) \/ ReadError(c) \/ Write(c) \/ Written(c)
  <2>1. /\ hpc[c] # "none" /\ \E to \in {"idle", "read", "write"} : hpc' = [hpc EXCEPT ![c] = to]
        /\ UNCHANGED <<listenVars, acceptVars, processVars, reader, buf, cont, segments, taken, closeVars>>
    BY <1>4 DEF Read, ReadError, Write, Written
  <2>2. TypeOK'
    BY <2>1 DEF TypeOK
  <2>3. MessageInv' /\ CloseInv' /\ SegmentsInv'
    BY <2>1 DEF MessageInv, Received, CloseInv, SegmentsInv, TypeOK
  <2> QED BY <2>2, <2>3
<1> QED BY <1>1, <1>2, <1>3, <1>4 DEF ConnNext

\* A step of someone who closes, and of nothing else.
LEMMA ClosingKeeps ==
    ASSUME IInv, NEW k \in Closers, NEW c \in Conns,
           Close(k, c) \/ Closing(k, c) \/ Destroy(c) \/ Forget(c)
    PROVE  IInv'
<1> USE TruNetAssumption DEF IInv, listenVars, acceptVars, processVars, readVars, closeVars, Step,
                             Closers
<1>1. MessageInv' /\ SegmentsInv'
  BY DEF SegmentsInv, Close, Closing, TakeChannel, CloseChannel, Delete, CloseRead, Destroy, Forget,
         MessageInv, Received
<1>2. CASE Close(k, c)
  BY <1>1, <1>2 DEF Close, TypeOK, CloseInv
<1>8. CASE Destroy(c)
  BY <1>1, <1>8 DEF Destroy, TypeOK, CloseInv
<1>3. CASE TakeChannel(k, c)
  BY <1>1, <1>3 DEF TakeChannel, TypeOK, CloseInv
<1>4. CASE CloseChannel(k, c)
  BY <1>1, <1>4 DEF CloseChannel, TypeOK, CloseInv
<1>5. CASE Delete(k, c)
  BY <1>1, <1>5 DEF Delete, TypeOK, CloseInv
<1>6. CASE CloseRead(k, c)
  <2>1. TypeOK'
    BY <1>6 DEF CloseRead, TypeOK
  <2>2. chan[c] = "destroyed"
    BY <1>6 DEF CloseRead, CloseInv
  <2>3. CloseInv'
    BY <1>6, <2>2 DEF CloseRead, TypeOK, CloseInv
  <2> QED BY <1>1, <2>1, <2>3
<1>7. CASE Forget(c)
  BY <1>1, <1>7 DEF Forget, TypeOK, CloseInv
<1> QED BY <1>2, <1>3, <1>4, <1>5, <1>6, <1>7, <1>8 DEF Closing

LEMMA Invariance == Spec => []IInv
<1>1. IInv /\ [Next]_vars => IInv'
  <2> SUFFICES ASSUME IInv, [Next]_vars PROVE IInv'
    OBVIOUS
  <2>1. CASE UNCHANGED vars
    BY <2>1 DEF vars, listenVars, acceptVars, processVars, readVars, closeVars, IInv, TypeOK,
                MessageInv, Received, CloseInv, SegmentsInv
  <2>2. ASSUME Next, Conns = {} PROVE IInv'
    <3>1. CASE Accept \/ SetReader \/ SendToReader
      BY <2>2, <3>1 DEF Accept, SetReader, SendToReader, IInv, MessageInv
    <3>2. CASE ReaderProccess \/ ReaderRecovers
      BY <3>2, ReaderKeeps
    <3> QED BY <2>2, <3>1, <3>2 DEF Next
  <2>3. ASSUME Next, NEW d \in Conns PROVE IInv'
    <3>1. CASE Accept \/ SetReader \/ SendToReader
      BY <3>1, ListenKeeps
    <3>2. CASE ReaderProccess \/ ReaderRecovers
      BY <3>2, ReaderKeeps
    <3>3. CASE \E c \in Conns : NewChannel(c) \/ \E n \in Lengths : ReceiveData(c, n)
      BY <3>3, ListenKeeps
    <3>4. CASE \E c \in Conns : ConnNext(c)
      BY <3>4, ConnKeeps
    <3>5. CASE \E c \in Conns : Destroy(c) \/ Forget(c)
      BY <3>5, ClosingKeeps DEF Closers
    <3>6. CASE \E k \in Closers, c \in Conns : Close(k, c) \/ Closing(k, c)
      BY <3>6, ClosingKeeps
    <3> QED BY <2>3, <3>1, <3>2, <3>3, <3>4, <3>5, <3>6 DEF Next
  <2> QED BY <2>1, <2>2, <2>3
<1> QED BY <1>1, InitIInv, PTL DEF Spec

\* The variables keep their types: readerCh its capacity, Read's buffer bytes.
THEOREM TypeCorrect == Spec => []TypeOK
<1>1. IInv => TypeOK
  BY DEF IInv
<1> QED BY <1>1, Invariance, PTL

\* Read fails only when its channel is destroyed, however Close by the application
\* and the destruction of the channel interleave (Conn.Close, Conn.reader).
THEOREM ReadErrorTrue == Spec => []ReadErrorIsTrue
<1>1. IInv => ReadErrorIsTrue
  BY DEF IInv, CloseInv, ReadErrorIsTrue
<1> QED BY <1>1, Invariance, PTL

-----------------------------------------------------------------------------
(***************************************************************************)
(* What Read returns.  The messages that were received and not yet read or *)
(* dropped make one queue: the one the reader process sends, those of      *)
(* readerCh, the one listen is about to put there.                         *)
(***************************************************************************)
Messages == [c : Conns, m : Nat]

Queue ==
    (IF rpc = "send" THEN <<rm>> ELSE << >>) \o readerCh
        \o (IF lpc = "push" THEN <<Message(lc, Len(length[lc]))>> ELSE << >>)

InQueue(q, c, m) == \E i \in 1 .. Len(q) : q[i].c = c /\ q[i].m = m

\* In a queue the messages of a channel are in order, and none is left out after
\* the first.
QueueOK(q, len) ==
    /\ \A i \in 1 .. Len(q) : Received(q[i], len)
    /\ \A i, j \in 1 .. Len(q) : i < j /\ q[i].c = q[j].c => q[i].m < q[j].m
    /\ \A i \in 1 .. Len(q) : \A m \in q[i].m + 1 .. Len(len[q[i].c]) : InQueue(q, q[i].c, m)

QueueInv == QueueOK(Queue, length) /\ (rpc = "send" => rm \in Messages)

\* The goroutine of a Conn begins when Accept has set the reader, and waits in
\* Read only when it has read the message before to its end.
ConnInv ==
    /\ lpc = "offer" => chan[lc] # "none"
    /\ \A c \in Conns :
          /\ hpc[c] = "none" => segments[c] = << << >> >> /\ ~cont[c] /\ buf[c] = << >>
          /\ hpc[c] # "none" => c \in reader /\ chan[c] # "none" /\ ~(lpc = "offer" /\ lc = c)
          /\ apc = "set" /\ ac = c => chan[c] # "none" /\ ~(lpc = "offer" /\ lc = c)
          /\ hpc[c] = "read" => ~cont[c]

Whole(c) == Len(segments[c]) - 1
HasRead(c) == Whole(c) > 0 \/ cont[c]

\* The number of the last message that was read or is being read.
Done(c, first) == first + Whole(c) + (IF cont[c] THEN 1 ELSE 0)

\* What was read is messages first + 1, first + 2, ..., the last of them up to
\* what is left in the buffer.
WholeInv(c, first) ==
    /\ Done(c, first) <= Len(length[c])
    /\ taken[c] = IF HasRead(c) THEN Done(c, first) ELSE 0
    /\ \A i \in 1 .. Whole(c) : segments[c][i] = Bytes(c, first + i)
    /\ cont[c] => segments[c][Whole(c) + 1] \o buf[c] = Bytes(c, first + Whole(c) + 1)
    /\ ~cont[c] => segments[c][Whole(c) + 1] = << >> /\ buf[c] = << >>

\* The queue goes on where the Conn is: the message it is handed is the next.
NextInv(c, first) ==
    /\ \A i \in 1 .. Len(Queue) : Queue[i].c = c => Queue[i].m > Done(c, first)
    /\ c \in readch /\ c \in connch /\ chan[c] = "live" =>
          \A m \in Done(c, first) + 1 .. Len(length[c]) : InQueue(Queue, c, m)
    /\ c \in readch /\ rpc = "send" /\ rm.c = c => rm.m = Done(c, first) + 1

ReadsOn(c) ==
    \E first \in Nat : WholeInv(c, first) /\ (HasRead(c) => NextInv(c, first))

ReadInv == \A c \in Conns : ReadsOn(c)

WInv == IInv /\ QueueInv /\ ConnInv /\ ReadInv

-----------------------------------------------------------------------------
(***************************************************************************)
(* The queue.                                                              *)
(***************************************************************************)
\* A queue is one without its first message, and with the next of a channel.
LEMMA QueueTail ==
    ASSUME NEW q \in Seq(Messages), q # << >>, NEW len \in [Conns -> Seq(Lengths)],
           QueueOK(q, len)
    PROVE  QueueOK(Tail(q), len)
<1> DEFINE t == Tail(q)
<1>1. /\ t \in Seq(Messages) /\ Len(t) = Len(q) - 1 /\ Len(q) \in Nat \ {0}
      /\ \A i \in 1 .. Len(t) : t[i] = q[i + 1]
  BY HeadTailProperties, EmptySeq
<1> HIDE DEF t
<1>2. \A i \in 1 .. Len(t) : i + 1 \in 1 .. Len(q)
  BY <1>1
<1>3. \A i \in 1 .. Len(t) : Received(t[i], len)
  BY <1>1, <1>2 DEF QueueOK
<1>4. ASSUME NEW i \in 1 .. Len(t), NEW j \in 1 .. Len(t), i < j, t[i].c = t[j].c
      PROVE  t[i].m < t[j].m
  <2>1. i + 1 < j + 1 /\ q[i + 1].c = q[j + 1].c
    BY <1>1, <1>4
  <2> QED BY <1>1, <1>2, <2>1 DEF QueueOK
<1>5. ASSUME NEW i \in 1 .. Len(t), NEW m \in t[i].m + 1 .. Len(len[t[i].c])
      PROVE  InQueue(t, t[i].c, m)
  <2>1. q[i + 1] = t[i] /\ i + 1 \in 1 .. Len(q) /\ t[i].m \in Nat
    <3>1. t[i] \in Messages
      BY <1>1, ElementOfSeq
    <3> QED BY <1>1, <1>2, <3>1 DEF Messages
  <2>2. PICK j \in 1 .. Len(q) : q[j].c = t[i].c /\ q[j].m = m
    <3>1. InQueue(q, q[i + 1].c, m)
      BY <1>5, <2>1 DEF QueueOK
    <3> QED BY <2>1, <3>1 DEF InQueue
  <2>3. j # 1
    <3> SUFFICES ASSUME j = 1 PROVE FALSE
      OBVIOUS
    <3>1. q[1].m < q[i + 1].m
      BY <1>1, <2>1, <2>2 DEF QueueOK
    <3> QED BY <1>5, <2>1, <2>2, <3>1
  <2>4. j - 1 \in 1 .. Len(t) /\ t[j - 1] = q[j]
    BY <1>1, <2>3
  <2> QED BY <2>2, <2>4 DEF InQueue
<1> QED BY <1>3, <1>4, <1>5 DEF QueueOK, t

\* The first message taken off, the others stay.
LEMMA InTail ==
    ASSUME NEW q \in Seq(Messages), q # << >>, NEW c, NEW m, InQueue(q, c, m),
           ~(q[1].c = c /\ q[1].m = m)
    PROVE  InQueue(Tail(q), c, m)
<1>1. PICK j \in 1 .. Len(q) : q[j].c = c /\ q[j].m = m
  BY DEF InQueue
<1>2. j - 1 \in 1 .. Len(Tail(q)) /\ Tail(q)[j - 1] = q[j]
  <2>1. /\ Len(Tail(q)) = Len(q) - 1 /\ Len(q) \in Nat
        /\ \A i \in 1 .. Len(Tail(q)) : Tail(q)[i] = q[i + 1]
    BY HeadTailProperties, EmptySeq
  <2>2. j # 1
    BY <1>1
  <2> QED BY <2>1, <2>2
<1> QED BY <1>1, <1>2 DEF InQueue

LEMMA QueueAppend ==
    ASSUME NEW q \in Seq(Messages), NEW len \in [Conns -> Seq(Lengths)], QueueOK(q, len),
           NEW c \in Conns, NEW n \in Lengths, NEW new,
           new = [len EXCEPT ![c] = Append(@, n)]
    PROVE  QueueOK(Append(q, Message(c, Len(len[c]) + 1)), new)
<1> DEFINE msg == Message(c, Len(len[c]) + 1)
           a == Append(q, msg)
<1>1. /\ len[c] \in Seq(Lengths) /\ Len(len[c]) \in Nat
      /\ \A d \in Conns : Len(len[d]) \in Nat
      /\ \A d \in Conns : Len(new[d]) = IF d = c THEN Len(len[c]) + 1 ELSE Len(len[d])
  BY AppendProperties, LenProperties
<1>2. msg \in Messages /\ msg.c = c /\ msg.m = Len(len[c]) + 1
  BY <1>1 DEF Message, Messages
<1> HIDE DEF msg
<1>3. /\ a \in Seq(Messages) /\ Len(a) = Len(q) + 1 /\ Len(q) \in Nat
      /\ \A i \in 1 .. Len(q) : a[i] = q[i]
      /\ a[Len(q) + 1] = msg
  BY <1>2, AppendProperties, LenProperties
<1> HIDE DEF a
<1>4. \A i \in 1 .. Len(a) : i \in 1 .. Len(q) \/ i = Len(q) + 1
  BY <1>3
<1>5. \A i \in 1 .. Len(q) : q[i].c \in Conns /\ q[i].m \in 1 .. Len(len[q[i].c])
  BY DEF QueueOK, Received
<1>6. \A i \in 1 .. Len(a) : Received(a[i], new)
  <2> SUFFICES ASSUME NEW i \in 1 .. Len(a) PROVE Received(a[i], new)
    OBVIOUS
  <2>1. CASE i \in 1 .. Len(q)
    BY <1>1, <1>3, <1>5, <2>1 DEF Received
  <2>2. CASE i = Len(q) + 1
    BY <1>1, <1>2, <1>3, <2>2 DEF Received
  <2> QED BY <1>4, <2>1, <2>2
<1>7. ASSUME NEW i \in 1 .. Len(a), NEW j \in 1 .. Len(a), i < j, a[i].c = a[j].c
      PROVE  a[i].m < a[j].m
  <2>1. i \in 1 .. Len(q)
    BY <1>3, <1>7
  <2>2. CASE j \in 1 .. Len(q)
    BY <1>3, <1>7, <2>1, <2>2 DEF QueueOK
  <2>3. CASE j = Len(q) + 1
    <3>1. a[i] = q[i] /\ a[j] = msg
      BY <1>3, <2>1, <2>3
    <3>2. q[i].c = c /\ a[j].m = Len(len[c]) + 1
      BY <1>2, <1>7, <3>1
    <3>3. q[i].m \in 1 .. Len(len[c])
      BY <1>5, <2>1, <3>2
    <3> QED BY <1>1, <3>1, <3>2, <3>3
  <2> QED BY <1>4, <2>2, <2>3
<1>8. ASSUME NEW d, NEW m, InQueue(q, d, m)
      PROVE  InQueue(a, d, m)
  <2>1. PICK i \in 1 .. Len(q) : q[i].c = d /\ q[i].m = m
    BY <1>8 DEF InQueue
  <2>2. i \in 1 .. Len(a) /\ a[i] = q[i]
    BY <1>3, <2>1
  <2> QED BY <2>1, <2>2 DEF InQueue
<1>9. ASSUME NEW i \in 1 .. Len(a), NEW m \in a[i].m + 1 .. Len(new[a[i].c])
      PROVE  InQueue(a, a[i].c, m)
  <2>1. CASE i \in 1 .. Len(q)
    <3>1. CASE m \in q[i].m + 1 .. Len(len[q[i].c])
      BY <1>3, <1>8, <2>1, <3>1 DEF QueueOK
    <3>2. CASE m \notin q[i].m + 1 .. Len(len[q[i].c])
      <4>1. a[i].c = c /\ m = Len(len[c]) + 1
        BY <1>1, <1>3, <1>5, <1>9, <2>1, <3>2
      <4> QED BY <1>2, <1>3, <4>1 DEF InQueue
    <3> QED BY <3>1, <3>2
  <2>2. CASE i = Len(q) + 1
    BY <1>1, <1>2, <1>3, <1>9, <2>2
  <2> QED BY <1>4, <2>1, <2>2
<1> QED BY <1>6, <1>7, <1>9 DEF QueueOK, a, msg

\* The queue is made of messages.
LEMMA PushedType ==
    ASSUME IInv
    PROVE  (IF lpc = "push" THEN <<Message(lc, Len(length[lc]))>> ELSE << >>) \in Seq(Messages)
<1>1. CASE lpc = "push"
  <2>1. Message(lc, Len(length[lc])) \in Messages
    BY <1>1, LenProperties DEF IInv, MessageInv, TypeOK, Message, Messages
  <2> QED BY <1>1, <2>1
<1>2. CASE lpc # "push"
  BY <1>2
<1> QED BY <1>1, <1>2

LEMMA SentType ==
    ASSUME IInv, QueueInv
    PROVE  (IF rpc = "send" THEN <<rm>> ELSE << >>) \in Seq(Messages)
<1>1. CASE rpc = "send"
  <2>1. rm \in Messages
    BY <1>1 DEF QueueInv
  <2> QED BY <1>1, <2>1
<1>2. CASE rpc # "send"
  BY <1>2
<1> QED BY <1>1, <1>2

LEMMA QueueType == IInv /\ QueueInv => Queue \in Seq(Messages)
<1> SUFFICES ASSUME IInv, QueueInv PROVE Queue \in Seq(Messages)
  OBVIOUS
<1> DEFINE sent == IF rpc = "send" THEN <<rm>> ELSE << >>
           pushed == IF lpc = "push" THEN <<Message(lc, Len(length[lc]))>> ELSE << >>
<1>1. sent \in Seq(Messages) /\ readerCh \in Seq(Messages)
  BY SentType DEF IInv, TypeOK, Messages
<1>2. pushed \in Seq(Messages)
  BY PushedType
<1> HIDE DEF sent, pushed
<1>3. (sent \o readerCh) \o pushed \in Seq(Messages)
  BY <1>1, <1>2, ConcatProperties
<1> QED BY <1>3 DEF Queue, sent, pushed

\* A sequence with an element in front.
LEMMA ConsTail ==
    ASSUME NEW S, NEW e \in S, NEW s \in Seq(S)
    PROVE  /\ <<e>> \o s # << >> /\ (<<e>> \o s)[1] = e
           /\ Tail(<<e>> \o s) = s
<1> DEFINE t == <<e>> \o s
<1>1. <<e>> \in Seq(S) /\ Len(<<e>>) = 1 /\ <<e>>[1] = e
  OBVIOUS
<1>2. /\ t \in Seq(S) /\ Len(t) = Len(s) + 1 /\ Len(s) \in Nat
      /\ \A i \in 1 .. Len(s) + 1 : t[i] = IF i <= 1 THEN e ELSE s[i - 1]
  BY <1>1, ConcatProperties, LenProperties
<1> HIDE DEF t
<1>3. t # << >> /\ t[1] = e
  BY <1>2, EmptySeq
<1>4. /\ Tail(t) \in Seq(S) /\ Len(Tail(t)) = Len(s)
      /\ \A i \in 1 .. Len(s) : Tail(t)[i] = t[i + 1]
  BY <1>2, <1>3, HeadTailProperties
<1>5. \A i \in 1 .. Len(s) : Tail(t)[i] = s[i]
  BY <1>2, <1>4
<1> QED BY <1>3, <1>4, <1>5, SeqEqual DEF t

\* The reader process is through with its message: the head of the queue.
LEMMA QueueSent ==
    ASSUME IInv, QueueInv, rpc = "send", rpc' = "idle", UNCHANGED <<readerCh, listenVars>>
    PROVE  Queue # << >> /\ Queue[1] = rm /\ Queue' = Tail(Queue)
<1> DEFINE pushed == IF lpc = "push" THEN <<Message(lc, Len(length[lc]))>> ELSE << >>
<1>1. pushed \in Seq(Messages) /\ readerCh \in Seq(Messages) /\ rm \in Messages
      /\ <<rm>> \in Seq(Messages)
  BY PushedType DEF QueueInv, IInv, TypeOK, Messages
<1>2. Queue = (<<rm>> \o readerCh) \o pushed
  BY DEF Queue
<1>3. Queue' = (<< >> \o readerCh) \o pushed
  BY DEF Queue, listenVars
<1> HIDE DEF pushed
<1>4. readerCh \o pushed \in Seq(Messages)
  BY <1>1, ConcatProperties
<1>5. Queue = <<rm>> \o (readerCh \o pushed)
  BY <1>1, <1>2, ConcatAssociative
<1>6. Queue' = readerCh \o pushed
  BY <1>1, <1>3, ConcatEmptySeq
<1> QED BY <1>1, <1>4, <1>5, <1>6, ConsTail

\* It takes the next message of readerCh, to send it or to drop it.
LEMMA QueueTaken ==
    ASSUME IInv, QueueInv, rpc = "idle", readerCh # << >>, readerCh' = Tail(readerCh),
           UNCHANGED listenVars
    PROVE  /\ Queue # << >> /\ Queue[1] = Head(readerCh) /\ Head(readerCh) \in Messages
           /\ rpc' = "idle" => Queue' = Tail(Queue)
           /\ rpc' = "send" /\ rm' = Head(readerCh) => Queue' = Queue
<1> DEFINE pushed == IF lpc = "push" THEN <<Message(lc, Len(length[lc]))>> ELSE << >>
           h == Head(readerCh)
           t == Tail(readerCh)
<1>1. pushed \in Seq(Messages) /\ readerCh \in Seq(Messages)
  BY PushedType DEF IInv, TypeOK, Messages
<1>2. h \in Messages /\ t \in Seq(Messages) /\ <<h>> \in Seq(Messages)
  BY <1>1, HeadTailProperties
<1>3. readerCh = <<h>> \o t
  <2>1. Len(readerCh) \in Nat \ {0} /\ Len(t) = Len(readerCh) - 1
        /\ \A i \in 1 .. Len(t) : t[i] = readerCh[i + 1]
    BY <1>1, HeadTailProperties, EmptySeq
  <2>2. Len(<<h>>) = 1 /\ <<h>>[1] = readerCh[1]
    OBVIOUS
  <2> HIDE DEF h, t
  <2>3. /\ <<h>> \o t \in Seq(Messages) /\ Len(<<h>> \o t) = Len(readerCh)
        /\ \A i \in 1 .. Len(readerCh) :
              (<<h>> \o t)[i] = IF i <= 1 THEN <<h>>[i] ELSE t[i - 1]
    BY <1>2, <2>1, <2>2, ConcatProperties
  <2>4. \A i \in 1 .. Len(readerCh) : readerCh[i] = (<<h>> \o t)[i]
    BY <2>1, <2>2, <2>3
  <2> QED BY <1>1, <2>3, <2>4, SeqEqual
<1>4. Queue = (<< >> \o readerCh) \o pushed
  BY DEF Queue
<1>5. rpc' = "idle" => Queue' = (<< >> \o t) \o pushed
  BY DEF Queue, listenVars
<1>6. rpc' = "send" /\ rm' = h => Queue' = (<<h>> \o t) \o pushed
  BY DEF Queue, listenVars
<1> HIDE DEF pushed, h, t
<1>7. Queue = <<h>> \o (t \o pushed) /\ t \o pushed \in Seq(Messages)
  BY <1>1, <1>2, <1>3, <1>4, ConcatEmptySeq, ConcatAssociative, ConcatProperties
<1>8. Queue # << >> /\ Queue[1] = h /\ Tail(Queue) = t \o pushed
  BY <1>2, <1>7, ConsTail
<1>9. rpc' = "idle" => Queue' = Tail(Queue)
  BY <1>2, <1>5, <1>8, ConcatEmptySeq
<1>10. rpc' = "send" /\ rm' = h => Queue' = Queue
  BY <1>1, <1>2, <1>3, <1>4, <1>6, ConcatEmptySeq
<1> QED BY <1>2, <1>8, <1>9, <1>10 DEF h

\* listen has a message for readerCh: it comes last.
LEMMA QueueReceived ==
    ASSUME IInv, QueueInv, NEW c \in Conns, NEW n \in Lengths, ReceiveData(c, n)
    PROVE  Queue' = Append(Queue, Message(c, Len(length[c]) + 1))
<1> DEFINE sent == IF rpc = "send" THEN <<rm>> ELSE << >>
           msg == Message(c, Len(length[c]) + 1)
<1>1. lpc = "idle" /\ lpc' = "push" /\ lc' = c /\ UNCHANGED processVars
      /\ length' = [length EXCEPT ![c] = Append(@, n)]
  BY DEF ReceiveData
<1>2. Len(length'[c]) = Len(length[c]) + 1
  BY <1>1, AppendProperties DEF IInv, TypeOK
<1>3. sent \o readerCh \in Seq(Messages)
  <2>1. sent \in Seq(Messages) /\ readerCh \in Seq(Messages)
    BY SentType DEF IInv, TypeOK, Messages
  <2> HIDE DEF sent
  <2> QED BY <2>1, ConcatProperties
<1>4. Queue = (sent \o readerCh) \o << >>
  BY <1>1 DEF Queue
<1>5. Queue' = (sent \o readerCh) \o <<msg>>
  BY <1>1, <1>2 DEF Queue, processVars
<1>6. msg \in Messages
  BY LenProperties DEF Message, Messages, IInv, TypeOK
<1> HIDE DEF sent, msg
<1>7. Queue = sent \o readerCh
  BY <1>3, <1>4, ConcatEmptySeq
<1> QED BY <1>3, <1>5, <1>6, <1>7, AppendIsConcat DEF msg

\* It goes into readerCh, where it was in the queue already.
LEMMA QueuePushed ==
    ASSUME IInv, QueueInv, SendToReader
    PROVE  Queue' = Queue
<1> DEFINE sent == IF rpc = "send" THEN <<rm>> ELSE << >>
           msg == Message(lc, Len(length[lc]))
<1>1. lpc = "push" /\ lpc' = "idle" /\ readerCh' = Append(readerCh, msg)
      /\ UNCHANGED <<rpc, rm>>
  BY DEF SendToReader
<1>2. sent \in Seq(Messages) /\ readerCh \in Seq(Messages)
  BY SentType DEF IInv, TypeOK, Messages
<1>3. msg \in Messages /\ <<msg>> \in Seq(Messages)
  <2>1. msg \in Messages
    BY <1>1, LenProperties DEF IInv, MessageInv, TypeOK, Message, Messages
  <2> QED BY <2>1
<1>4. Queue = (sent \o readerCh) \o <<msg>>
  BY <1>1 DEF Queue
<1>5. Queue' = (sent \o Append(readerCh, msg)) \o << >>
  BY <1>1 DEF Queue
<1> HIDE DEF sent, msg
<1>6. Append(readerCh, msg) = readerCh \o <<msg>> /\ readerCh \o <<msg>> \in Seq(Messages)
  BY <1>2, <1>3, AppendIsConcat, ConcatProperties
<1>7. Queue' = sent \o (readerCh \o <<msg>>)
  BY <1>2, <1>5, <1>6, ConcatEmptySeq, ConcatProperties
<1> QED BY <1>2, <1>3, <1>4, <1>7, ConcatAssociative

-----------------------------------------------------------------------------
(***************************************************************************)
(* The steps, and what was read.                                           *)
(***************************************************************************)
LEMMA HasReadConn ==
    ASSUME ConnInv, NEW c \in Conns, HasRead(c)
    PROVE  hpc[c] # "none"
<1>1. Len(<< << >> >>) = 1
  OBVIOUS
<1> SUFFICES ASSUME hpc[c] = "none" PROVE FALSE
  OBVIOUS
<1>2. segments[c] = << << >> >> /\ ~cont[c]
  BY DEF ConnInv
<1>3. Whole(c) = 0
  BY <1>1, <1>2 DEF Whole
<1> QED BY <1>2, <1>3 DEF HasRead

LEMMA DoneType ==
    ASSUME TypeOK, SegmentsInv, NEW c \in Conns, NEW first \in Nat
    PROVE  Whole(c) \in Nat /\ Done(c, first) \in Nat
<1>1. Len(segments[c]) \in Nat \ {0}
  BY EmptySeq DEF TypeOK, SegmentsInv
<1>2. Whole(c) \in Nat
  BY <1>1 DEF Whole
<1>3. CASE cont[c]
  BY <1>2, <1>3 DEF Done
<1>4. CASE ~cont[c]
  BY <1>2, <1>4 DEF Done
<1> QED BY <1>2, <1>3, <1>4

\* A step that reads nothing on a Conn leaves what was read.
LEMMA WholeKept ==
    ASSUME TypeOK, SegmentsInv, NEW c \in Conns, NEW first \in Nat, WholeInv(c, first),
           segments'[c] = segments[c], buf'[c] = buf[c], cont'[c] = cont[c],
           taken'[c] = taken[c],
           Len(length'[c]) \in Nat, Len(length[c]) <= Len(length'[c]),
           \A m \in 1 .. Len(length[c]) : length'[c][m] = length[c][m]
    PROVE  /\ WholeInv(c, first)' /\ Done(c, first)' = Done(c, first)
           /\ HasRead(c)' <=> HasRead(c)
<1>1. /\ Whole(c)' = Whole(c) /\ Done(c, first)' = Done(c, first)
      /\ HasRead(c)' <=> HasRead(c)
  BY DEF Whole, Done, HasRead
<1>2. /\ Whole(c) \in Nat /\ Done(c, first) \in Nat /\ Len(length[c]) \in Nat
      /\ Done(c, first) <= Len(length[c])
  BY DoneType, LenProperties DEF TypeOK, WholeInv
<1>3. ASSUME NEW m \in 1 .. Len(length[c]) PROVE Bytes(c, m)' = Bytes(c, m)
  BY <1>3 DEF Bytes
<1>4. \A i \in 1 .. Whole(c) : first + i \in 1 .. Len(length[c])
  BY <1>2 DEF Done
<1>5. cont[c] => first + Whole(c) + 1 \in 1 .. Len(length[c])
  BY <1>2 DEF Done
<1>6. \A i \in 1 .. Whole(c)' : segments'[c][i] = Bytes(c, first + i)'
  BY <1>1, <1>3, <1>4 DEF WholeInv
<1>7. cont'[c] => segments'[c][Whole(c)' + 1] \o buf'[c] = Bytes(c, first + Whole(c) + 1)'
  BY <1>1, <1>3, <1>5 DEF WholeInv
<1>8. Done(c, first)' <= Len(length'[c])
  BY <1>1, <1>2
<1> QED BY <1>1, <1>6, <1>7, <1>8 DEF WholeInv

\* A step that receives no message and reads none.
LEMMA ReadKept ==
    ASSUME IInv, NEW c \in Conns, NEW first \in Nat, WholeInv(c, first),
           UNCHANGED <<length, segments, buf, cont, taken>>
    PROVE  /\ WholeInv(c, first)' /\ Done(c, first)' = Done(c, first)
           /\ HasRead(c)' <=> HasRead(c)
<1>1. /\ length'[c] = length[c] /\ segments'[c] = segments[c] /\ buf'[c] = buf[c]
      /\ cont'[c] = cont[c] /\ taken'[c] = taken[c]
  OBVIOUS
<1>2. Len(length[c]) \in Nat
  BY LenProperties DEF IInv, TypeOK
<1> QED BY <1>1, <1>2, WholeKept DEF IInv

\* A step by which no message comes or goes, and no Conn that has read is opened.
LEMMA Quiet ==
    ASSUME WInv, Queue' = Queue, UNCHANGED <<length, buf, cont, segments, taken, rpc, rm>>,
           \A c \in Conns : hpc[c] # "none" =>
               /\ c \in readch' => c \in readch
               /\ c \in connch' => c \in connch
               /\ chan'[c] = "live" => chan[c] = "live"
    PROVE  QueueInv' /\ ReadInv'
<1>1. QueueInv'
  BY DEF WInv, QueueInv, QueueOK
<1>2. ASSUME NEW c \in Conns PROVE ReadsOn(c)'
  <2>1. PICK first \in Nat : WholeInv(c, first) /\ (HasRead(c) => NextInv(c, first))
    BY DEF WInv, ReadInv, ReadsOn
  <2>2. /\ WholeInv(c, first)' /\ Done(c, first)' = Done(c, first)
        /\ HasRead(c)' <=> HasRead(c)
    BY <2>1, ReadKept DEF WInv
  <2>3. HasRead(c) => NextInv(c, first)'
    BY <2>1, <2>2, HasReadConn DEF WInv, NextInv
  <2> QED BY <2>1, <2>2, <2>3 DEF ReadsOn
<1> QED BY <1>1, <1>2 DEF ReadInv

\* A step that takes the first message off the queue: its channel's Conn, if it has
\* read, is closed.
LEMMA NextTail ==
    ASSUME WInv, NEW c \in Conns, NEW first \in Nat, NextInv(c, first),
           Done(c, first)' = Done(c, first), Queue # << >>, Queue' = Tail(Queue), rpc' = "idle",
           UNCHANGED <<length, readch, connch, chan>>,
           Queue[1].c = c => ~(c \in readch /\ c \in connch /\ chan[c] = "live")
    PROVE  NextInv(c, first)'
<1>1. Queue \in Seq(Messages)
  BY QueueType DEF WInv
<1>2. /\ Len(Queue') = Len(Queue) - 1 /\ Len(Queue) \in Nat
      /\ \A i \in 1 .. Len(Queue') : Queue'[i] = Queue[i + 1]
  BY <1>1, HeadTailProperties, LenProperties
<1>3. \A i \in 1 .. Len(Queue') : Queue'[i].c = c => Queue'[i].m > Done(c, first)
  BY <1>2 DEF NextInv
<1>4. ASSUME c \in readch, c \in connch, chan[c] = "live",
             NEW m \in Done(c, first) + 1 .. Len(length[c])
      PROVE  InQueue(Queue', c, m)
  <2>1. InQueue(Queue, c, m) /\ Queue[1].c # c
    BY <1>4 DEF NextInv
  <2> QED BY <1>1, <2>1, InTail
<1> QED BY <1>3, <1>4 DEF NextInv

\* Such a step, when it is dropped: nothing was read, and nothing more will be.
LEMMA Gone ==
    ASSUME WInv, Queue # << >>, Queue' = Tail(Queue), rpc' = "idle",
           UNCHANGED <<length, buf, cont, segments, taken, readch, connch, chan>>,
           \A c \in Conns : HasRead(c) /\ Queue[1].c = c =>
               ~(c \in readch /\ c \in connch /\ chan[c] = "live")
    PROVE  QueueInv' /\ ReadInv'
<1>1. QueueInv'
  <2>1. QueueOK(Tail(Queue), length)
    BY QueueType, QueueTail DEF WInv, IInv, TypeOK, QueueInv
  <2>2. QueueOK(Queue', length')
    BY <2>1
  <2> QED BY <2>2 DEF QueueInv
<1>2. ASSUME NEW c \in Conns PROVE ReadsOn(c)'
  <2>1. PICK first \in Nat : WholeInv(c, first) /\ (HasRead(c) => NextInv(c, first))
    BY DEF WInv, ReadInv, ReadsOn
  <2>2. /\ WholeInv(c, first)' /\ Done(c, first)' = Done(c, first)
        /\ HasRead(c)' <=> HasRead(c)
    BY <2>1, ReadKept DEF WInv
  <2>3. HasRead(c) => NextInv(c, first)'
    BY <2>1, <2>2, NextTail
  <2> QED BY <2>1, <2>2, <2>3 DEF ReadsOn
<1> QED BY <1>1, <1>2 DEF ReadInv

\* A message that is received comes last, and is the next of its channel.
LEMMA ReceiveReads ==
    ASSUME WInv, NEW c \in Conns, NEW n \in Lengths, ReceiveData(c, n)
    PROVE  QueueInv' /\ ReadInv'
<1>1. /\ length' = [length EXCEPT ![c] = Append(@, n)]
      /\ UNCHANGED <<rpc, rm, buf, cont, segments, taken, readch, connch, chan>>
  BY DEF ReceiveData, processVars, readVars, closeVars
<1> DEFINE msg == Message(c, Len(length[c]) + 1)
<1>2. Queue' = Append(Queue, msg) /\ Queue \in Seq(Messages)
  BY QueueReceived, QueueType DEF WInv
<1>3. QueueInv'
  <2>1. QueueOK(Append(Queue, msg), length')
    BY <1>1, <1>2, QueueAppend DEF WInv, IInv, TypeOK, QueueInv
  <2> QED BY <1>1, <1>2, <2>1 DEF QueueInv, WInv
<1>4. /\ \A d \in Conns : Len(length[d]) \in Nat
      /\ \A d \in Conns : Len(length'[d]) = IF d = c THEN Len(length[c]) + 1 ELSE Len(length[d])
      /\ \A d \in Conns : \A m \in 1 .. Len(length[d]) : length'[d][m] = length[d][m]
  BY <1>1, AppendProperties, LenProperties DEF WInv, IInv, TypeOK
<1>5. msg \in Messages /\ msg.c = c /\ msg.m = Len(length[c]) + 1
  BY <1>4 DEF Message, Messages
<1> HIDE DEF msg
<1>6. /\ Len(Queue') = Len(Queue) + 1 /\ Len(Queue) \in Nat
      /\ \A i \in 1 .. Len(Queue) : Queue'[i] = Queue[i]
      /\ Queue'[Len(Queue) + 1] = msg
  BY <1>2, <1>5, AppendProperties, LenProperties
<1>7. ASSUME NEW d \in Conns PROVE ReadsOn(d)'
  <2>1. PICK first \in Nat : WholeInv(d, first) /\ (HasRead(d) => NextInv(d, first))
    BY DEF WInv, ReadInv, ReadsOn
  <2>2. /\ WholeInv(d, first)' /\ Done(d, first)' = Done(d, first)
        /\ HasRead(d)' <=> HasRead(d)
    BY <1>1, <1>4, <2>1, WholeKept DEF WInv, IInv
  <2>3. Done(d, first) \in Nat /\ Done(d, first) <= Len(length[d])
    BY <2>1, DoneType DEF WholeInv, WInv, IInv
  <2>4. ASSUME HasRead(d) PROVE NextInv(d, first)'
    <3>1. \A i \in 1 .. Len(Queue') : Queue'[i].c = d => Queue'[i].m > Done(d, first)
      <4> SUFFICES ASSUME NEW i \in 1 .. Len(Queue'), Queue'[i].c = d
                   PROVE  Queue'[i].m > Done(d, first)
        OBVIOUS
      <4>1. CASE i \in 1 .. Len(Queue)
        BY <1>6, <2>1, <2>4, <4>1 DEF NextInv
      <4>2. CASE i = Len(Queue) + 1
        BY <1>4, <1>5, <1>6, <2>3, <4>2
      <4> QED BY <1>6, <4>1, <4>2
    <3>2. ASSUME d \in readch, d \in connch, chan[d] = "live",
                 NEW m \in Done(d, first) + 1 .. Len(length'[d])
          PROVE  InQueue(Queue', d, m)
      <4>1. CASE m \in Done(d, first) + 1 .. Len(length[d])
        <5>1. InQueue(Queue, d, m)
          BY <2>1, <2>4, <3>2, <4>1 DEF NextInv
        <5> QED BY <1>6, <5>1 DEF InQueue
      <4>2. CASE m \notin Done(d, first) + 1 .. Len(length[d])
        <5>1. d = c /\ m = Len(length[c]) + 1
          BY <1>4, <2>3, <3>2, <4>2
        <5> QED BY <1>5, <1>6, <5>1 DEF InQueue
      <4> QED BY <4>1, <4>2
    <3> QED BY <1>1, <2>1, <2>2, <2>4, <3>1, <3>2 DEF NextInv
  <2> QED BY <2>1, <2>2, <2>4 DEF ReadsOn
<1> QED BY <1>3, <1>7 DEF ReadInv

\* The message the reader process offers is the next; what it drops, no Read misses.
LEMMA ReaderReads ==
    ASSUME WInv, ReaderProccess \/ ReaderRecovers
    PROVE  QueueInv' /\ ReadInv'
<1>1. CASE ReaderProccess
  <2>1. /\ rpc = "idle" /\ readerCh # << >> /\ readerCh' = Tail(readerCh)
        /\ UNCHANGED <<length, lpc, lc, buf, cont, segments, taken, readch, connch, chan>>
    BY <1>1 DEF ReaderProccess, listenVars, readVars, closeVars
  <2>2. /\ Queue # << >> /\ Queue[1] = Head(readerCh) /\ Head(readerCh) \in Messages
        /\ rpc' = "idle" => Queue' = Tail(Queue)
        /\ rpc' = "send" /\ rm' = Head(readerCh) => Queue' = Queue
    BY <2>1, QueueTaken DEF WInv, listenVars
  <2> DEFINE h == Head(readerCh)
             sends == chan[h.c] = "live" /\ h.c \in reader /\ h.c \in connch
  <2>3. CASE sends
    <3>1. rpc' = "send" /\ rm' = h /\ Queue' = Queue
      BY <1>1, <2>2, <2>3 DEF ReaderProccess
    <3> HIDE DEF h
    <3>2. QueueInv'
      BY <2>1, <2>2, <3>1 DEF QueueInv, QueueOK, WInv, h
    <3>3. ASSUME NEW c \in Conns PROVE ReadsOn(c)'
      <4>1. PICK first \in Nat : WholeInv(c, first) /\ (HasRead(c) => NextInv(c, first))
        BY DEF WInv, ReadInv, ReadsOn
      <4>2. /\ WholeInv(c, first)' /\ Done(c, first)' = Done(c, first)
            /\ HasRead(c)' <=> HasRead(c)
        BY <2>1, <4>1, ReadKept DEF WInv
      <4>3. ASSUME HasRead(c), c \in readch, h.c = c PROVE h.m = Done(c, first) + 1
        <5>1. /\ Done(c, first) \in Nat /\ Len(Queue) \in Nat \ {0} /\ Queue \in Seq(Messages)
              /\ h.m \in Nat /\ Len(length[c]) \in Nat
          BY <2>2, DoneType, QueueType, EmptySeq, LenProperties
             DEF WInv, IInv, TypeOK, h, Messages
        <5>2. h = Queue[1] /\ 1 \in 1 .. Len(Queue)
          BY <2>2, <5>1 DEF h
        <5>3. h.m > Done(c, first)
          BY <4>1, <4>3, <5>2 DEF NextInv
        <5>4. h.m <= Len(length[c])
          BY <4>3, <5>2, <5>1 DEF WInv, QueueInv, QueueOK, Received
        <5>5. InQueue(Queue, c, Done(c, first) + 1)
          <6>1. Done(c, first) + 1 \in Done(c, first) + 1 .. Len(length[c])
            BY <5>1, <5>3, <5>4
          <6>2. c \in connch /\ chan[c] = "live"
            BY <2>3, <4>3
          <6> QED BY <4>1, <4>3, <6>1, <6>2 DEF NextInv
        <5>6. PICK j \in 1 .. Len(Queue) : Queue[j].c = c /\ Queue[j].m = Done(c, first) + 1
          BY <5>5 DEF InQueue
        <5>7. CASE j = 1
          BY <5>2, <5>6, <5>7
        <5>8. CASE j # 1
          <6>1. Queue[1].m < Queue[j].m
            BY <4>3, <5>1, <5>2, <5>6, <5>8 DEF WInv, QueueInv, QueueOK
          <6> QED BY <5>1, <5>2, <5>3, <5>6, <6>1
        <5> QED BY <5>7, <5>8
      <4>4. HasRead(c) => NextInv(c, first)'
        BY <2>1, <3>1, <4>1, <4>2, <4>3 DEF NextInv
      <4> QED BY <4>1, <4>2, <4>4 DEF ReadsOn
    <3> QED BY <3>2, <3>3 DEF ReadInv
  <2>4. CASE ~sends
    <3>1. rpc' = "idle" /\ Queue' = Tail(Queue)
      BY <1>1, <2>1, <2>2, <2>4 DEF ReaderProccess
    <3>2. \A c \in Conns : HasRead(c) /\ Queue[1].c = c =>
              ~(c \in readch /\ c \in connch /\ chan[c] = "live")
      <4>1. \A c \in Conns : HasRead(c) => c \in reader
        BY HasReadConn DEF WInv, ConnInv
      <4> QED BY <2>2, <2>4, <4>1
    <3> HIDE DEF sends, h
    <3> QED BY <2>1, <2>2, <3>1, <3>2, Gone
  <2> QED BY <2>3, <2>4
<1>2. CASE ReaderRecovers
  <2>1. /\ rpc = "send" /\ rm.c \notin readch /\ rpc' = "idle"
        /\ UNCHANGED <<readerCh, listenVars, buf, cont, segments, taken, readch, connch, chan>>
    BY <1>2 DEF ReaderRecovers, readVars, closeVars
  <2>2. Queue # << >> /\ Queue[1] = rm /\ Queue' = Tail(Queue)
    BY <2>1, QueueSent DEF WInv
  <2> QED BY <2>1, <2>2, Gone DEF listenVars
<1> QED BY <1>1, <1>2

\* What copy takes and what it leaves make up what there was.
LEMMA CopiedWhole ==
    ASSUME IInv, NEW c \in Conns, NEW data \in Data, NEW n \in ReadLens, Copied(c, data, n)
    PROVE  /\ \A d \in Conns : Len(segments'[d]) = Len(segments[d])
           /\ \A d \in Conns \ {c} : segments'[d] = segments[d] /\ buf'[d] = buf[d]
           /\ \A i \in 1 .. Whole(c) : segments'[c][i] = segments[c][i]
           /\ segments'[c][Whole(c) + 1] \o buf'[c] = segments[c][Whole(c) + 1] \o data
<1> DEFINE k == IF n < Len(data) THEN n ELSE Len(data)
           old == segments[c][Len(segments[c])]
           part == SubSeq(data, 1, k)
           left == SubSeq(data, k + 1, Len(data))
<1>1. k \in 0 .. Len(data) /\ Len(data) \in Nat
  BY TruNetAssumption DEF Data
<1>2. buf' = [buf EXCEPT ![c] = left]
      /\ segments' = [segments EXCEPT ![c] = [segments[c] EXCEPT ![Len(segments[c])] = old \o part]]
  BY DEF Copied
<1> HIDE DEF k
<1>3. part \in Data /\ left \in Data /\ part \o left = data
  <2>1. part \in Data /\ left \in Data
    BY <1>1, SubSeqProperties DEF Data
  <2>2. CASE data = << >>
    <3>1. part = << >> /\ left = << >>
      BY <1>1, <2>2, SubSeqEmpty
    <3> HIDE DEF part, left
    <3> QED BY <2>1, <2>2, <3>1
  <2>3. CASE data # << >>
    <3>1. 1 \in 1 .. Len(data) + 1 /\ k \in 1 - 1 .. Len(data) /\ Len(data) \in k .. Len(data)
      BY <1>1
    <3>2. part \o left = SubSeq(data, 1, Len(data))
      BY <3>1, ConcatAdjacentSubSeq DEF Data
    <3> QED BY <2>1, <3>2, SubSeqFull DEF Data
  <2> HIDE DEF part, left
  <2> QED BY <2>1, <2>2, <2>3
<1>4. /\ segments[c] \in Seq(Data) /\ Len(segments[c]) \in Nat \ {0}
      /\ Len(segments[c]) = Whole(c) + 1 /\ Whole(c) \in Nat /\ old \in Data
  <2>1. segments[c] \in Seq(Data) /\ Len(segments[c]) \in Nat \ {0}
    BY EmptySeq DEF IInv, TypeOK, SegmentsInv, Data
  <2>2. old \in Data
    BY <2>1, ElementOfSeq
  <2> QED BY <2>1, <2>2 DEF Whole
<1> HIDE DEF old, part, left
<1> DEFINE new == old \o part
           m == Whole(c) + 1
<1>5. new \in Data
  BY <1>3, <1>4, ConcatProperties DEF Data
<1>6. new \o left = old \o data
  <2> DEFINE S == Nat \X Nat
  <2>1. old \in Seq(S) /\ part \in Seq(S) /\ left \in Seq(S)
    BY <1>3, <1>4 DEF Data
  <2> HIDE DEF S
  <2>2. (old \o part) \o left = old \o (part \o left)
    BY <2>1, ConcatAssociative
  <2> QED BY <1>3, <2>2
<1>7. buf'[c] = left /\ segments'[c] = [segments[c] EXCEPT ![m] = new]
  BY <1>2, <1>4 DEF IInv, TypeOK
<1>8. \A d \in Conns \ {c} : segments'[d] = segments[d] /\ buf'[d] = buf[d]
  BY <1>2 DEF IInv, TypeOK
<1> HIDE DEF new
<1>9. /\ Len(segments'[c]) = Len(segments[c])
      /\ \A j \in 1 .. Len(segments[c]) :
            segments'[c][j] = IF j = m THEN new ELSE segments[c][j]
  BY <1>4, <1>5, <1>7, ExceptSeq
<1>10. segments'[c][m] = new
  BY <1>4, <1>9
<1>11. \A i \in 1 .. Whole(c) : segments'[c][i] = segments[c][i]
  <2> SUFFICES ASSUME NEW i \in 1 .. Whole(c) PROVE segments'[c][i] = segments[c][i]
    OBVIOUS
  <2>1. i \in 1 .. Len(segments[c]) /\ i # m
    BY <1>4
  <2> HIDE DEF m
  <2> QED BY <1>9, <2>1
<1>12. segments[c][m] = old
  BY <1>4 DEF old
<1> QED BY <1>6, <1>7, <1>8, <1>9, <1>10, <1>11, <1>12

\* Read of what is left, and of the next message.
LEMMA RestReads ==
    ASSUME WInv, NEW c \in Conns, NEW n \in ReadLens, ReadRest(c, n)
    PROVE  QueueInv' /\ ReadInv'
<1>1. /\ hpc[c] = "idle" /\ buf[c] # << >> /\ Copied(c, buf[c], n)
      /\ UNCHANGED <<length, readerCh, rpc, rm, lpc, lc, cont, taken, readch, connch, chan>>
  BY DEF ReadRest, listenVars, processVars, closeVars
<1>2. Queue' = Queue
  BY <1>1 DEF Queue
<1>3. QueueInv'
  BY <1>1, <1>2 DEF WInv, QueueInv, QueueOK
<1>4. /\ \A d \in Conns : Len(segments'[d]) = Len(segments[d])
      /\ \A d \in Conns \ {c} : segments'[d] = segments[d] /\ buf'[d] = buf[d]
      /\ \A i \in 1 .. Whole(c) : segments'[c][i] = segments[c][i]
      /\ segments'[c][Whole(c) + 1] \o buf'[c] = segments[c][Whole(c) + 1] \o buf[c]
  BY <1>1, CopiedWhole DEF WInv, IInv, TypeOK, Data
<1>5. ASSUME NEW d \in Conns PROVE ReadsOn(d)'
  <2>1. PICK first \in Nat : WholeInv(d, first) /\ (HasRead(d) => NextInv(d, first))
    BY DEF WInv, ReadInv, ReadsOn
  <2>2. Whole(d)' = Whole(d) /\ Done(d, first)' = Done(d, first) /\ (HasRead(d)' <=> HasRead(d))
    BY <1>1, <1>4 DEF Whole, Done, HasRead
  <2>3. WholeInv(d, first)'
    <3>1. CASE d = c
      <4>1. cont[c]
        BY <1>1, <2>1, <3>1 DEF WholeInv
      <4>2. \A m : Bytes(c, m)' = Bytes(c, m)
        BY <1>1 DEF Bytes
      <4> QED BY <1>1, <1>4, <2>1, <2>2, <3>1, <4>1, <4>2 DEF WholeInv
    <3>2. CASE d # c
      <4>1. segments'[d] = segments[d] /\ buf'[d] = buf[d]
        BY <1>4, <3>2
      <4>2. /\ length'[d] = length[d] /\ cont'[d] = cont[d] /\ taken'[d] = taken[d]
            /\ Len(length[d]) \in Nat /\ Len(length'[d]) \in Nat
            /\ Len(length[d]) <= Len(length'[d])
        BY <1>1, LenProperties DEF WInv, IInv, TypeOK
      <4> QED BY <2>1, <4>1, <4>2, WholeKept DEF WInv, IInv
    <3> QED BY <3>1, <3>2
  <2>4. HasRead(d) => NextInv(d, first)'
    BY <1>1, <1>2, <2>1, <2>2 DEF NextInv
  <2> QED BY <2>2, <2>3, <2>4 DEF ReadsOn
<1> QED BY <1>3, <1>5 DEF ReadInv

LEMMA DataReads ==
    ASSUME WInv, NEW c \in Conns, NEW n \in ReadLens, ReadData(c, n)
    PROVE  QueueInv' /\ ReadInv'
<1>1. /\ hpc[c] = "read" /\ c \in readch /\ rpc = "send" /\ rm.c = c /\ rpc' = "idle"
      /\ cont' = [cont EXCEPT ![c] = TRUE] /\ Copied(c, Bytes(c, rm.m), n)
      /\ taken' = [taken EXCEPT ![c] = rm.m]
      /\ UNCHANGED <<length, readerCh, lpc, lc, readch, connch, chan>>
  BY DEF ReadData, listenVars, closeVars
<1>2. Queue # << >> /\ Queue[1] = rm /\ Queue' = Tail(Queue) /\ Queue \in Seq(Messages)
  BY <1>1, QueueSent, QueueType DEF WInv, listenVars
<1>3. QueueInv'
  <2>1. QueueOK(Tail(Queue), length)
    BY <1>2, QueueTail DEF WInv, IInv, TypeOK, QueueInv
  <2>2. QueueOK(Queue', length')
    BY <1>1, <1>2, <2>1
  <2> QED BY <1>1, <2>2 DEF QueueInv
<1>4. rm.m \in 1 .. Len(length[c]) /\ rm.m \in Nat /\ Len(length[c]) \in Nat
  BY <1>1, LenProperties DEF WInv, IInv, MessageInv, TypeOK, Received
<1>5. /\ \A d \in Conns : Len(segments'[d]) = Len(segments[d])
      /\ \A d \in Conns \ {c} : segments'[d] = segments[d] /\ buf'[d] = buf[d]
      /\ \A i \in 1 .. Whole(c) : segments'[c][i] = segments[c][i]
      /\ segments'[c][Whole(c) + 1] \o buf'[c] = segments[c][Whole(c) + 1] \o Bytes(c, rm.m)
  BY <1>1, <1>4, BytesType, CopiedWhole DEF WInv, IInv
<1>6. ASSUME NEW d \in Conns, d # c PROVE ReadsOn(d)'
  <2>1. PICK first \in Nat : WholeInv(d, first) /\ (HasRead(d) => NextInv(d, first))
    BY DEF WInv, ReadInv, ReadsOn
  <2>2. cont'[d] = cont[d] /\ taken'[d] = taken[d]
    BY <1>1, <1>6 DEF WInv, IInv, TypeOK
  <2>3. /\ WholeInv(d, first)' /\ Done(d, first)' = Done(d, first)
        /\ HasRead(d)' <=> HasRead(d)
    <3>1. Len(length'[d]) \in Nat /\ Len(length[d]) <= Len(length'[d])
      BY <1>1, LenProperties DEF WInv, IInv, TypeOK
    <3> QED BY <1>1, <1>5, <1>6, <2>1, <2>2, <3>1, WholeKept DEF WInv, IInv
  <2>4. HasRead(d) => NextInv(d, first)'
    BY <1>1, <1>2, <1>6, <2>1, <2>3, NextTail
  <2> QED BY <2>1, <2>3, <2>4 DEF ReadsOn
<1>7. ReadsOn(c)'
  <2>1. ~cont[c] /\ cont'[c] = TRUE
    BY <1>1 DEF WInv, ConnInv, IInv, TypeOK
  <2>2. PICK first \in Nat : WholeInv(c, first) /\ rm.m = first + Whole(c) + 1
    <3>1. PICK f \in Nat : WholeInv(c, f) /\ (HasRead(c) => NextInv(c, f))
      BY DEF WInv, ReadInv, ReadsOn
    <3>2. CASE HasRead(c)
      <4>1. rm.m = Done(c, f) + 1
        BY <1>1, <3>1, <3>2 DEF NextInv
      <4>2. Done(c, f) = f + Whole(c)
        BY <2>1, DoneType DEF Done, WInv, IInv
      <4> QED BY <3>1, <4>1, <4>2
    <3>3. CASE ~HasRead(c)
      <4>1. Whole(c) = 0
        BY <3>3, DoneType DEF HasRead, WInv, IInv
      <4>2. PICK g \in Nat : rm.m = g + 1 /\ g <= Len(length[c])
        <5>1. rm.m - 1 \in Nat /\ rm.m = (rm.m - 1) + 1 /\ rm.m - 1 <= Len(length[c])
          BY <1>4
        <5> QED BY <5>1
      <4>3. Done(c, g) <= Len(length[c])
        BY <2>1, <4>1, <4>2 DEF Done
      <4>4. 1 .. Whole(c) = {}
        BY <4>1
      <4>5. WholeInv(c, g)
        BY <2>1, <3>1, <3>3, <4>3, <4>4 DEF WholeInv
      <4> QED BY <4>1, <4>2, <4>5
    <3> QED BY <3>2, <3>3
  <2>3. Whole(c)' = Whole(c) /\ Whole(c) \in Nat
    BY <1>5, DoneType DEF Whole, WInv, IInv
  <2>4. Done(c, first)' = rm.m
    BY <2>1, <2>2, <2>3 DEF Done
  <2>5. \A m : Bytes(c, m)' = Bytes(c, m)
    BY <1>1 DEF Bytes
  <2>6. segments'[c][Whole(c) + 1] \o buf'[c] = Bytes(c, rm.m)
    <3>1. segments[c][Whole(c) + 1] = << >>
      BY <2>1, <2>2 DEF WholeInv
    <3>2. Bytes(c, rm.m) \in Data
      BY <1>4, BytesType DEF WInv, IInv
    <3> QED BY <1>5, <3>1, <3>2, ConcatEmptySeq DEF Data
  <2>7. WholeInv(c, first)'
    <3>1. Done(c, first)' <= Len(length'[c])
      BY <1>1, <1>4, <2>4
    <3>2. \A i \in 1 .. Whole(c) : segments'[c][i] = Bytes(c, first + i)
      BY <1>5, <2>2 DEF WholeInv
    <3>3. taken'[c] = rm.m /\ HasRead(c)'
      BY <1>1, <2>1 DEF WInv, IInv, TypeOK, HasRead
    <3> QED BY <2>1, <2>2, <2>3, <2>4, <2>5, <2>6, <3>1, <3>2, <3>3 DEF WholeInv
  <2>8. NextInv(c, first)'
    <3>1. /\ Len(Queue') = Len(Queue) - 1 /\ Len(Queue) \in Nat \ {0}
          /\ \A i \in 1 .. Len(Queue') : Queue'[i] = Queue[i + 1]
      BY <1>2, HeadTailProperties, EmptySeq
    <3>2. ASSUME NEW i \in 1 .. Len(Queue'), Queue'[i].c = c PROVE Queue'[i].m > rm.m
      <4>1. /\ i + 1 \in 1 .. Len(Queue) /\ 1 \in 1 .. Len(Queue) /\ 1 < i + 1
            /\ Queue[i + 1] = Queue'[i]
        BY <3>1
      <4>2. Queue[1].m < Queue[i + 1].m
        BY <1>1, <1>2, <3>2, <4>1 DEF WInv, QueueInv, QueueOK
      <4>3. Queue[i + 1] \in Messages
        BY <1>2, <4>1, ElementOfSeq
      <4> QED BY <1>2, <1>4, <4>1, <4>2, <4>3 DEF Messages
    <3>3. ASSUME NEW m \in rm.m + 1 .. Len(length[c]) PROVE InQueue(Queue', c, m)
      <4>1. InQueue(Queue, c, m)
        <5>1. 1 \in 1 .. Len(Queue)
          BY <3>1
        <5> QED BY <1>1, <1>2, <3>3, <5>1 DEF WInv, QueueInv, QueueOK
      <4>2. rm.m # m
        BY <1>4, <3>3
      <4> QED BY <1>2, <4>1, <4>2, InTail
    <3> QED BY <1>1, <2>4, <3>2, <3>3 DEF NextInv
  <2> QED BY <2>2, <2>7, <2>8 DEF ReadsOn
<1> QED BY <1>3, <1>6, <1>7 DEF ReadInv

\* Read has come to the end of a message.
LEMMA EOFReads ==
    ASSUME WInv, NEW c \in Conns, ReadEOF(c)
    PROVE  QueueInv' /\ ReadInv'
<1>1. /\ buf[c] = << >> /\ cont[c] /\ cont' = [cont EXCEPT ![c] = FALSE]
      /\ segments' = [segments EXCEPT ![c] = Append(@, << >>)]
      /\ UNCHANGED <<length, readerCh, rpc, rm, lpc, lc, buf, taken, readch, connch, chan>>
  BY DEF ReadEOF, listenVars, processVars, closeVars
<1>2. Queue' = Queue
  BY <1>1 DEF Queue
<1>3. QueueInv'
  BY <1>1, <1>2 DEF WInv, QueueInv, QueueOK
<1>4. ASSUME NEW d \in Conns, d # c PROVE ReadsOn(d)'
  <2>1. PICK first \in Nat : WholeInv(d, first) /\ (HasRead(d) => NextInv(d, first))
    BY DEF WInv, ReadInv, ReadsOn
  <2>2. segments'[d] = segments[d] /\ cont'[d] = cont[d]
    BY <1>1, <1>4 DEF WInv, IInv, TypeOK
  <2>3. /\ WholeInv(d, first)' /\ Done(d, first)' = Done(d, first)
        /\ HasRead(d)' <=> HasRead(d)
    <3>1. Len(length'[d]) \in Nat /\ Len(length[d]) <= Len(length'[d])
      BY <1>1, LenProperties DEF WInv, IInv, TypeOK
    <3> QED BY <1>1, <2>1, <2>2, <3>1, WholeKept DEF WInv, IInv
  <2>4. HasRead(d) => NextInv(d, first)'
    BY <1>1, <1>2, <2>1, <2>3 DEF NextInv
  <2> QED BY <2>1, <2>3, <2>4 DEF ReadsOn
<1>5. ReadsOn(c)'
  <2>1. PICK first \in Nat : WholeInv(c, first) /\ (HasRead(c) => NextInv(c, first))
    BY DEF WInv, ReadInv, ReadsOn
  <2>2. NextInv(c, first)
    BY <1>1, <2>1 DEF HasRead
  <2>3. /\ segments[c] \in Seq(Data) /\ << >> \in Data /\ Len(segments[c]) = Whole(c) + 1
        /\ Whole(c) \in Nat
    BY DoneType, LenProperties DEF WInv, IInv, TypeOK, Data, Whole
  <2>4. segments'[c] = Append(segments[c], << >>) /\ cont'[c] = FALSE
    BY <1>1 DEF WInv, IInv, TypeOK
  <2>5. /\ Len(segments'[c]) = Whole(c) + 2
        /\ \A i \in 1 .. Whole(c) + 1 : segments'[c][i] = segments[c][i]
        /\ segments'[c][Whole(c) + 2] = << >>
    BY <2>3, <2>4, AppendProperties
  <2>6. Whole(c)' = Whole(c) + 1
    BY <2>3, <2>5 DEF Whole
  <2>7. Done(c, first)' = Done(c, first)
    BY <1>1, <2>3, <2>4, <2>6 DEF Done
  <2>8. \A m : Bytes(c, m)' = Bytes(c, m)
    BY <1>1 DEF Bytes
  <2>9. segments[c][Whole(c) + 1] = Bytes(c, first + Whole(c) + 1)
    <3>1. segments[c][Whole(c) + 1] \o << >> = Bytes(c, first + Whole(c) + 1)
      BY <1>1, <2>1 DEF WholeInv
    <3>2. segments[c][Whole(c) + 1] \in Data
      BY <2>3, ElementOfSeq
    <3> QED BY <3>1, <3>2, ConcatEmptySeq DEF Data
  <2>10. ASSUME NEW i \in 1 .. Whole(c) + 1 PROVE segments'[c][i] = Bytes(c, first + i)
    <3>1. CASE i = Whole(c) + 1
      BY <2>3, <2>5, <2>9, <3>1
    <3>2. CASE i # Whole(c) + 1
      <4>1. i \in 1 .. Whole(c)
        BY <2>3, <3>2
      <4> QED BY <2>1, <2>5, <4>1 DEF WholeInv
    <3> QED BY <3>1, <3>2
  <2>11. WholeInv(c, first)'
    <3>1. Done(c, first)' <= Len(length'[c])
      BY <1>1, <2>1, <2>7 DEF WholeInv
    <3>2. segments'[c][Whole(c)' + 1] = << >>
      BY <2>3, <2>5, <2>6
    <3>3. HasRead(c) /\ HasRead(c)'
      BY <1>1, <2>3, <2>6 DEF HasRead
    <3> QED BY <1>1, <2>1, <2>4, <2>6, <2>7, <2>8, <2>10, <3>1, <3>2, <3>3 DEF WholeInv
  <2>12. NextInv(c, first)'
    BY <1>1, <1>2, <2>2, <2>7 DEF NextInv
  <2> QED BY <2>11, <2>12 DEF ReadsOn
<1> QED BY <1>3, <1>4, <1>5 DEF ReadInv

-----------------------------------------------------------------------------
(***************************************************************************)
(* The invariant.                                                          *)
(***************************************************************************)
LEMMA InitWInv == Init => WInv
<1> SUFFICES ASSUME Init PROVE WInv
  OBVIOUS
<1>1. IInv
  BY InitIInv
<1>2. Queue = << >>
  <2>1. Queue = (<< >> \o << >>) \o << >>
    BY DEF Init, Queue
  <2> QED BY <2>1
<1>3. QueueInv
  BY <1>2 DEF QueueInv, QueueOK, Init
<1>4. ConnInv
  BY DEF ConnInv, Init
<1>5. ASSUME NEW c \in Conns PROVE ReadsOn(c)
  <2>1. segments[c] = << << >> >> /\ ~cont[c] /\ buf[c] = << >> /\ length[c] = << >>
    BY DEF Init
  <2>2. Len(<< << >> >>) = 1 /\ << << >> >>[1] = << >> /\ Len(<< >>) = 0
    OBVIOUS
  <2>3. Whole(c) = 0 /\ Done(c, 0) = 0
    BY <2>1, <2>2 DEF Whole, Done
  <2>4. ~HasRead(c)
    BY <2>1, <2>3 DEF HasRead
  <2>5. WholeInv(c, 0)
    BY <2>1, <2>2, <2>3, <2>4 DEF WholeInv, Init
  <2> QED BY <2>4, <2>5 DEF ReadsOn
<1> QED BY <1>1, <1>3, <1>4, <1>5 DEF WInv, ReadInv

LEMMA ConnInvKept ==
    ASSUME IInv, ConnInv, [Next]_vars
    PROVE  ConnInv'
<1> USE DEF IInv, TypeOK, ConnInv, listenVars, acceptVars, processVars, readVars, closeVars
<1>1. ASSUME NEW c \in Conns, NewChannel(c) PROVE ConnInv'
  BY <1>1 DEF NewChannel
<1>2. ASSUME NEW c \in Conns, NEW n \in Lengths, ReceiveData(c, n) PROVE ConnInv'
  <2>1. /\ lpc' = "push"
        /\ UNCHANGED <<apc, ac, processVars, reader, readVars, closeVars>>
    BY <1>2 DEF ReceiveData
  <2> QED BY <2>1
<1>3. CASE Accept
  <2>1. lc \in Conns
    BY <1>3 DEF Accept, MessageInv
  <2> QED BY <1>3, <2>1 DEF Accept
<1>4. CASE SetReader
  BY <1>4 DEF SetReader, MessageInv
<1>5. CASE SendToReader
  BY <1>5 DEF SendToReader
<1>6. CASE ReaderProccess
  BY <1>6 DEF ReaderProccess
<1>7. CASE ReaderRecovers
  BY <1>7 DEF ReaderRecovers
<1>8. ASSUME NEW c \in Conns, ConnNext(c) PROVE ConnInv'
  <2>1. ASSUME NEW n \in ReadLens, ReadRest(c, n) PROVE ConnInv'
    <3>1. \A d \in Conns \ {c} : segments'[d] = segments[d] /\ buf'[d] = buf[d]
      BY <2>1 DEF ReadRest, Copied
    <3> QED BY <2>1, <3>1 DEF ReadRest
  <2>2. ASSUME NEW n \in ReadLens, ReadData(c, n) PROVE ConnInv'
    <3>1. \A d \in Conns \ {c} : segments'[d] = segments[d] /\ buf'[d] = buf[d]
      BY <2>2 DEF ReadData, Copied
    <3> QED BY <2>2, <3>1 DEF ReadData
  <2>3. CASE ReadEOF(c)
    BY <2>3 DEF ReadEOF
  <2>4. CASE Read(c)
    BY <2>4 DEF Read
  <2>5. CASE ReadError(c)
    BY <2>5 DEF ReadError
  <2>6. CASE Write(c)
    BY <2>6 DEF Write
  <2>7. CASE Written(c)
    BY <2>7 DEF Written
  <2> QED BY <1>8, <2>1, <2>2, <2>3, <2>4, <2>5, <2>6, <2>7 DEF ConnNext
<1>9. ASSUME NEW c \in Conns, Destroy(c) \/ Forget(c) PROVE ConnInv'
  <2>1. CASE Destroy(c)
    BY <2>1 DEF Destroy
  <2>2. CASE Forget(c)
    BY <2>2 DEF Forget
  <2> QED BY <1>9, <2>1, <2>2
<1>10. ASSUME NEW k \in Closers, NEW c \in Conns, Close(k, c) \/ Closing(k, c) PROVE ConnInv'
  <2>1. CASE Close(k, c)
    BY <2>1 DEF Close
  <2>2. CASE TakeChannel(k, c)
    BY <2>2 DEF TakeChannel
  <2>3. CASE Delete(k, c)
    BY <2>3 DEF Delete
  <2>4. CASE CloseRead(k, c)
    BY <2>4 DEF CloseRead
  <2>5. CASE CloseChannel(k, c)
    BY <2>5 DEF CloseChannel
  <2> QED BY <1>10, <2>1, <2>2, <2>3, <2>4, <2>5 DEF Closing
<1>11. CASE UNCHANGED vars
  BY <1>11 DEF vars
<1> QED BY <1>1, <1>2, <1>3, <1>4, <1>5, <1>6, <1>7, <1>8, <1>9, <1>10, <1>11 DEF Next

\* The steps that read nothing and receive nothing.
LEMMA QuietSteps ==
    ASSUME WInv,
           \/ \E c \in Conns : NewChannel(c) \/ Destroy(c) \/ Forget(c)
           \/ \E c \in Conns : Read(c) \/ ReadError(c) \/ Write(c) \/ Written(c)
           \/ \E k \in Closers, c \in Conns : Close(k, c) \/ Closing(k, c)
           \/ Accept \/ SetReader \/ SendToReader \/ UNCHANGED vars
    PROVE  QueueInv' /\ ReadInv'
<1> USE DEF listenVars, acceptVars, processVars, readVars, closeVars
<1> DEFINE Stays == /\ UNCHANGED <<length, buf, cont, segments, taken, rpc, rm>>
                    /\ \A c \in Conns : hpc[c] # "none" =>
                           /\ c \in readch' => c \in readch
                           /\ c \in connch' => c \in connch
                           /\ chan'[c] = "live" => chan[c] = "live"
           Unmoved == Stays /\ UNCHANGED <<readerCh, lpc, lc>>
<1>1. CASE \E c \in Conns : Read(c) \/ ReadError(c) \/ Write(c) \/ Written(c)
  BY <1>1, Quiet DEF Read, ReadError, Write, Written, Queue
<1>2. ASSUME NEW c \in Conns, NewChannel(c) PROVE QueueInv' /\ ReadInv'
  <2>1. Queue' = Queue
    BY <1>2 DEF NewChannel, Queue
  <2>2. Stays
    BY <1>2 DEF NewChannel, WInv, ConnInv, IInv, TypeOK
  <2> QED BY <2>1, <2>2, Quiet
<1>3. ASSUME NEW c \in Conns, Destroy(c) \/ Forget(c) PROVE QueueInv' /\ ReadInv'
  <2>1. Unmoved
    BY <1>3 DEF Destroy, Forget, WInv, IInv, TypeOK
  <2> QED BY <2>1, Quiet DEF Queue
<1>4. ASSUME NEW k \in Closers, NEW c \in Conns, Close(k, c) \/ Closing(k, c)
      PROVE  QueueInv' /\ ReadInv'
  <2>1. CASE Close(k, c) \/ TakeChannel(k, c) \/ Delete(k, c) \/ CloseRead(k, c)
    <3>1. Unmoved
      BY <2>1 DEF Close, TakeChannel, Delete, CloseRead
    <3> QED BY <3>1, Quiet DEF Queue
  <2>2. CASE CloseChannel(k, c)
    <3>1. Unmoved
      BY <2>2 DEF CloseChannel, WInv, IInv, TypeOK
    <3> QED BY <3>1, Quiet DEF Queue
  <2> QED BY <1>4, <2>1, <2>2 DEF Closing
<1>5. CASE Accept
  <2>1. Queue' = Queue
    BY <1>5 DEF Accept, Queue
  <2>2. Stays
    BY <1>5 DEF Accept, WInv, ConnInv, IInv, TypeOK
  <2> QED BY <2>1, <2>2, Quiet
<1>6. CASE SetReader
  BY <1>6, Quiet DEF SetReader, Queue
<1>7. CASE SendToReader
  BY <1>7, QueuePushed, Quiet DEF SendToReader, WInv
<1>8. CASE UNCHANGED vars
  BY <1>8, Quiet DEF vars, Queue
<1> QED BY <1>1, <1>2, <1>3, <1>4, <1>5, <1>6, <1>7, <1>8

LEMMA ReadInvariance == Spec => []WInv
<1>1. WInv /\ IInv' /\ [Next]_vars => WInv'
  <2> SUFFICES ASSUME WInv, IInv', [Next]_vars PROVE WInv'
    OBVIOUS
  <2>1. ConnInv'
    BY ConnInvKept DEF WInv
  <2>2. QueueInv' /\ ReadInv'
    <3>1. ASSUME NEW c \in Conns, NEW n \in Lengths, ReceiveData(c, n)
          PROVE  QueueInv' /\ ReadInv'
      BY <3>1, ReceiveReads
    <3>2. CASE ReaderProccess \/ ReaderRecovers
      BY <3>2, ReaderReads
    <3>3. ASSUME NEW c \in Conns, ConnNext(c) PROVE QueueInv' /\ ReadInv'
      BY <3>3, RestReads, DataReads, EOFReads, QuietSteps DEF ConnNext
    <3> QED BY <3>1, <3>2, <3>3, QuietSteps DEF Next
  <2> QED BY <2>1, <2>2 DEF WInv
<1> QED BY <1>1, InitWInv, Invariance, PTL DEF Spec

\* Read gives the messages of a channel one after the other, each whole between
\* two io.EOF, whatever slices it is given and however many Conns share the reader
\* process and its Go channel (Conn.Read, Conn.reader, readerProccess).
THEOREM Reads == Spec => []ReadsWhole
<1>1. WInv => ReadsWhole
  <2> SUFFICES ASSUME WInv, NEW c \in Conns
               PROVE  LET whole == Len(segments[c]) - 1
                          last == segments[c][whole + 1]
                      IN  \E first \in 0 .. Len(length[c]) - whole :
                              /\ \A i \in 1 .. whole : segments[c][i] = Bytes(c, first + i)
                              /\ last # << >> =>
                                    /\ first + whole < Len(length[c])
                                    /\ \A i \in 1 .. Len(last) :
                                          last[i] = <<first + whole + 1, i>>
    BY DEF ReadsWhole
  <2> DEFINE whole == Len(segments[c]) - 1
             last == segments[c][whole + 1]
  <2>1. PICK first \in Nat : WholeInv(c, first)
    BY DEF WInv, ReadInv, ReadsOn
  <2>2. whole \in Nat /\ whole = Whole(c) /\ Len(length[c]) \in Nat
    BY DoneType, LenProperties DEF WInv, IInv, TypeOK, Whole
  <2>3. last \in Data
    <3>1. segments[c] \in Seq(Data) /\ whole + 1 \in 1 .. Len(segments[c])
      BY <2>2, LenProperties DEF WInv, IInv, TypeOK, Data
    <3> QED BY <3>1, ElementOfSeq
  <2>4. buf[c] \in Data
    BY DEF WInv, IInv, TypeOK, Data
  <2> HIDE DEF whole, last
  <2>5. Done(c, first) <= Len(length[c]) /\ (cont[c] => Done(c, first) = first + whole + 1)
        /\ (~cont[c] => Done(c, first) = first + whole)
    BY <2>1, <2>2 DEF WholeInv, Done
  <2>6. first \in 0 .. Len(length[c]) - whole
    BY <2>2, <2>5
  <2>7. \A i \in 1 .. whole : segments[c][i] = Bytes(c, first + i)
    BY <2>1, <2>2 DEF WholeInv
  <2>8. ASSUME last # << >>
        PROVE  /\ first + whole < Len(length[c])
               /\ \A i \in 1 .. Len(last) : last[i] = <<first + whole + 1, i>>
    <3>1. cont[c]
      BY <2>1, <2>2, <2>8 DEF WholeInv, last
    <3>2. last \o buf[c] = Bytes(c, first + whole + 1)
      BY <2>1, <2>2, <3>1 DEF WholeInv, last
    <3>3. first + whole < Len(length[c])
      BY <2>2, <2>5, <3>1
    <3>4. ASSUME NEW i \in 1 .. Len(last) PROVE last[i] = <<first + whole + 1, i>>
      <4> DEFINE all == last \o buf[c]
      <4>1. /\ all \in Data /\ Len(all) = Len(last) + Len(buf[c])
            /\ Len(last) \in Nat /\ Len(buf[c]) \in Nat
            /\ \A j \in 1 .. Len(last) + Len(buf[c]) :
                  all[j] = IF j <= Len(last) THEN last[j] ELSE buf[c][j - Len(last)]
        BY <2>3, <2>4, ConcatProperties, LenProperties DEF Data
      <4>2. all = Bytes(c, first + whole + 1)
        BY <3>2
      <4> HIDE DEF all
      <4>3. i \in 1 .. Len(all) /\ all[i] = last[i]
        BY <4>1
      <4>4. i \in DOMAIN all
        BY <4>1, <4>3, LenProperties DEF Data
      <4> QED BY <4>2, <4>3, <4>4 DEF Bytes
    <3> QED BY <3>3, <3>4
  <2> QED BY <2>6, <2>7, <2>8 DEF whole, last
<1> QED BY <1>1, ReadInvariance, PTL

-----------------------------------------------------------------------------
(***************************************************************************)
(* A Conn is what Connection says.                                         *)
(***************************************************************************)

\* A Conn is closed only once its goroutine has it, so after SetReader.
OpenInv ==
    /\ \A c \in reader : hpc[c] # "none"
    /\ \A k \in Closers \X Conns :
          kpc[k] \in {"seen", "close", "delete", "closeRead"} => hpc[k[2]] # "none"
    /\ apc = "set" => ac \in readch /\ hpc[ac] = "none"

LEMMA OpenKept ==
    ASSUME IInv, ConnInv, OpenInv, [Next]_vars
    PROVE  OpenInv'
<1> USE DEF IInv, TypeOK, OpenInv, listenVars, acceptVars, processVars, readVars, closeVars, Step
<1>1. ASSUME NEW c \in Conns,
             NewChannel(c) \/ (\E n \in Lengths : ReceiveData(c, n)) \/ ReaderProccess
                \/ ReaderRecovers \/ SendToReader
      PROVE  OpenInv'
  <2>1. UNCHANGED <<reader, hpc, kpc, apc, ac, readch>>
    BY <1>1 DEF NewChannel, ReceiveData, ReaderProccess, ReaderRecovers, SendToReader
  <2> QED BY <2>1
<1>2. CASE Accept
  <2>1. lc \in Conns /\ hpc[lc] = "none"
    BY <1>2 DEF Accept, MessageInv, ConnInv
  <2> QED BY <1>2, <2>1 DEF Accept
<1>3. CASE SetReader
  <2>1. ac \in Conns
    BY <1>3 DEF SetReader, MessageInv
  <2>2. hpc'[ac] = "idle" /\ \A d \in Conns : hpc[d] # "none" => hpc'[d] # "none"
    BY <1>3, <2>1 DEF SetReader
  <2>3. \A k \in Closers \X Conns : k[2] \in Conns
    OBVIOUS
  <2> QED BY <1>3, <2>1, <2>2, <2>3 DEF SetReader
<1>4. ASSUME NEW c \in Conns, ConnNext(c) PROVE OpenInv'
  <2>1. /\ UNCHANGED <<reader, kpc, apc, ac, readch>>
        /\ hpc[c] # "none"
        /\ hpc' = hpc \/ \E to \in {"idle", "read", "write"} : hpc' = [hpc EXCEPT ![c] = to]
    BY <1>4 DEF ConnNext, ReadRest, ReadData, ReadEOF, Read, ReadError, Write, Written
  <2>2. \A d \in Conns : hpc[d] = "none" <=> hpc'[d] = "none"
    BY <2>1
  <2>3. \A k \in Closers \X Conns : k[2] \in Conns
    OBVIOUS
  <2>4. apc = "set" => ac \in Conns
    BY DEF MessageInv
  <2> QED BY <2>1, <2>2, <2>3, <2>4
<1>5. ASSUME NEW c \in Conns, Destroy(c) \/ Forget(c) PROVE OpenInv'
  <2>1. "destroy" \in Closers
    BY DEF Closers
  <2>2. UNCHANGED <<reader, hpc, apc, ac, readch>>
        /\ \E to \in {"forget", "leave"} : kpc' = [kpc EXCEPT ![<<"destroy", c>>] = to]
    BY <1>5 DEF Destroy, Forget
  <2> QED BY <2>1, <2>2
<1>6. ASSUME NEW k \in Closers, NEW c \in Conns, Close(k, c) \/ Closing(k, c) PROVE OpenInv'
  <2>1. hpc[c] # "none" \/ kpc[<<k, c>>] = "leave"
    BY <1>6 DEF Close, Closing, TakeChannel, CloseChannel, Delete, CloseRead
  <2>2. CASE Close(k, c)
    <3>1. hpc[c] # "none" /\ kpc' = [kpc EXCEPT ![<<k, c>>] = "seen"]
          /\ UNCHANGED <<reader, hpc, apc, ac, readch>>
      BY <2>2 DEF Close
    <3> QED BY <3>1
  <2>3. CASE TakeChannel(k, c) \/ CloseChannel(k, c)
    <3>1. /\ hpc[c] # "none" /\ UNCHANGED <<reader, hpc, apc, ac, readch>>
          /\ \E to \in {"close", "closeRead", "delete"} : kpc' = [kpc EXCEPT ![<<k, c>>] = to]
      BY <2>3 DEF TakeChannel, CloseChannel
    <3> QED BY <3>1
  <2>4. CASE Delete(k, c)
    <3>1. /\ UNCHANGED <<reader, hpc, apc, ac, readch>>
          /\ \/ kpc[<<k, c>>] = "delete" /\ kpc' = [kpc EXCEPT ![<<k, c>>] = "closeRead"]
             \/ kpc' = [kpc EXCEPT ![<<k, c>>] = "done"]
      BY <2>4 DEF Delete
    <3> QED BY <3>1
  <2>5. CASE CloseRead(k, c)
    <3>1. /\ UNCHANGED <<reader, hpc, apc, ac>> /\ readch' = readch \ {c}
          /\ kpc[<<k, c>>] = "closeRead"
          /\ kpc' = [kpc EXCEPT ![<<k, c>>] = IF k = "destroy" THEN "forget" ELSE "done"]
      BY <2>5 DEF CloseRead
    <3>2. hpc[c] # "none"
      BY <3>1
    <3>3. \A j \in Closers \X Conns :
              kpc'[j] \in {"seen", "close", "delete", "closeRead"} => kpc'[j] = kpc[j]
      BY <3>1
    <3>4. apc = "set" => ac # c
      BY <3>2
    <3> QED BY <3>1, <3>3, <3>4
  <2> QED BY <1>6, <2>2, <2>3, <2>4, <2>5 DEF Closing
<1>7. CASE UNCHANGED vars
  BY <1>7 DEF vars
<1>8. CASE Conns = {}
  <2>1. ~Accept /\ ~SetReader
    BY <1>8 DEF Accept, SetReader, MessageInv
  <2>2. CASE SendToReader \/ ReaderProccess \/ ReaderRecovers
    <3>1. UNCHANGED <<reader, hpc, kpc, apc, ac, readch>>
      BY <2>2 DEF ReaderProccess, ReaderRecovers, SendToReader
    <3> QED BY <3>1
  <2> QED BY <1>7, <1>8, <2>1, <2>2 DEF Next
<1> QED BY <1>1, <1>2, <1>3, <1>4, <1>5, <1>6, <1>7, <1>8 DEF Next

\* The state of the Conns, as it is seen outside.
States == [c \in Conns |-> State(c)]

ConnVars == <<length, States, taken, cont, segments>>

\* The steps that Connection does not see.
LEMMA Unseen ==
    ASSUME WInv, OpenInv,
           \/ \E c \in Conns : NewChannel(c) \/ Destroy(c) \/ Forget(c)
           \/ \E c \in Conns : Read(c) \/ ReadError(c) \/ Write(c) \/ Written(c)
           \/ \E k \in Closers, c \in Conns :
                 Close(k, c) \/ TakeChannel(k, c) \/ CloseChannel(k, c) \/ Delete(k, c)
           \/ SetReader \/ SendToReader \/ ReaderProccess \/ ReaderRecovers \/ UNCHANGED vars
    PROVE  UNCHANGED ConnVars
<1> USE DEF listenVars, acceptVars, processVars, readVars, closeVars
<1>1. CASE \E c \in Conns : Read(c) \/ ReadError(c) \/ Write(c) \/ Written(c)
  <2>1. PICK c \in Conns : Read(c) \/ ReadError(c) \/ Write(c) \/ Written(c)
    BY <1>1
  <2>2. /\ UNCHANGED <<length, readch, taken, cont, segments>> /\ hpc[c] # "none"
        /\ \E to \in {"idle", "read", "write"} : hpc' = [hpc EXCEPT ![c] = to]
    BY <2>1 DEF Read, ReadError, Write, Written
  <2>3. \A d \in Conns : State(d)' = State(d)
    BY <2>2 DEF State, WInv, IInv, TypeOK
  <2> QED BY <2>2, <2>3 DEF ConnVars, States
<1>2. CASE SetReader
  <2>1. /\ UNCHANGED <<length, readch, taken, cont, segments>>
        /\ apc = "set" /\ hpc' = [hpc EXCEPT ![ac] = "idle"] /\ ac \in readch
    BY <1>2 DEF SetReader, OpenInv
  <2>2. \A d \in Conns : State(d)' = State(d)
    BY <2>1 DEF State, WInv, IInv, TypeOK
  <2> QED BY <2>1, <2>2 DEF ConnVars, States
<1>3. CASE \/ \E c \in Conns : NewChannel(c) \/ Destroy(c) \/ Forget(c)
           \/ \E k \in Closers, c \in Conns :
                 Close(k, c) \/ TakeChannel(k, c) \/ CloseChannel(k, c) \/ Delete(k, c)
           \/ SendToReader \/ ReaderProccess \/ ReaderRecovers \/ UNCHANGED vars
  <2>1. UNCHANGED <<length, readch, hpc, taken, cont, segments>>
    BY <1>3 DEF NewChannel, Destroy, Forget, Close, TakeChannel, CloseChannel, Delete, SendToReader,
                ReaderProccess, ReaderRecovers, vars
  <2>2. \A d \in Conns : State(d)' = State(d)
    BY <2>1 DEF State
  <2> QED BY <2>1, <2>2 DEF ConnVars, States
<1> QED BY <1>1, <1>2, <1>3

LEMMA ArriveStep ==
    ASSUME WInv, NEW c \in Conns, NEW n \in Lengths, ReceiveData(c, n)
    PROVE  Promise!Arrive(c, n)
<1>1. /\ length' = [length EXCEPT ![c] = Append(@, n)]
      /\ UNCHANGED <<readch, hpc, taken, cont, segments>>
  BY DEF ReceiveData, readVars, closeVars
<1>2. \A d \in Conns : State(d)' = State(d)
  BY <1>1 DEF State
<1> QED BY <1>1, <1>2 DEF Promise!Arrive

LEMMA AcceptStep ==
    ASSUME WInv, Accept
    PROVE  (\E c \in Conns : Promise!Open(c)) \/ UNCHANGED ConnVars
<1>0. PICK c \in Conns : c = lc
  BY DEF Accept, WInv, IInv, MessageInv
<1>1. /\ lpc = "offer" /\ readch' = readch \cup {c}
      /\ UNCHANGED <<length, hpc, taken, cont, segments>>
  BY <1>0 DEF Accept, readVars
<1>2. hpc[c] = "none"
  BY <1>0, <1>1 DEF WInv, ConnInv
<1>3. CASE c \in readch
  <2>1. readch' = readch
    BY <1>1, <1>3
  <2>2. \A d \in Conns : State(d)' = State(d)
    BY <1>1, <2>1 DEF State
  <2> QED BY <1>1, <2>2 DEF ConnVars, States
<1>4. CASE c \notin readch
  <2>1. State(c) = "none" /\ State(c)' = "open"
    BY <1>1, <1>2, <1>4 DEF State
  <2>2. \A d \in Conns \ {c} : State(d)' = State(d)
    BY <1>1 DEF State
  <2>3. [d \in Conns |-> State(d)]' = [[d \in Conns |-> State(d)] EXCEPT ![c] = "open"]
    BY <2>1, <2>2
  <2> QED BY <1>1, <2>1, <2>3 DEF Promise!Open
<1> QED BY <1>3, <1>4

LEMMA CloseStep ==
    ASSUME WInv, OpenInv, NEW k \in Closers, NEW c \in Conns, CloseRead(k, c)
    PROVE  Promise!Close(c) \/ UNCHANGED ConnVars
<1>1. /\ kpc[<<k, c>>] = "closeRead" /\ readch' = readch \ {c}
      /\ UNCHANGED <<length, hpc, taken, cont, segments>>
  BY DEF CloseRead, listenVars, readVars
<1>2. hpc[c] # "none"
  BY <1>1 DEF OpenInv
<1>3. \A d \in Conns \ {c} : State(d)' = State(d)
  BY <1>1 DEF State
<1>4. State(c)' = "closed"
  BY <1>1, <1>2 DEF State
<1>5. CASE c \in readch
  <2>1. State(c) = "open"
    BY <1>5 DEF State
  <2>2. [d \in Conns |-> State(d)]' = [[d \in Conns |-> State(d)] EXCEPT ![c] = "closed"]
    BY <1>3, <1>4
  <2> QED BY <1>1, <2>1, <2>2 DEF Promise!Close
<1>6. CASE c \notin readch
  <2>1. State(c) = "closed"
    BY <1>2, <1>6 DEF State
  <2>2. \A d \in Conns : State(d)' = State(d)
    BY <1>3, <1>4, <2>1
  <2> QED BY <1>1, <2>2 DEF ConnVars, States
<1> QED BY <1>5, <1>6

\* The first bytes of what comes second, after what comes first.
LEMMA PrefixOfBoth ==
    ASSUME NEW S, NEW s \in Seq(S), NEW t \in Seq(S), NEW k \in 0 .. Len(t)
    PROVE  s \o SubSeq(t, 1, k) = SubSeq(s \o t, 1, Len(s) + k)
<1> DEFINE a == s \o t
           p == SubSeq(t, 1, k)
           u == s \o p
           v == SubSeq(a, 1, Len(s) + k)
<1>1. Len(s) \in Nat /\ Len(t) \in Nat /\ k \in Nat /\ k <= Len(t)
  BY LenProperties
<1>2. /\ a \in Seq(S) /\ Len(a) = Len(s) + Len(t)
      /\ \A i \in 1 .. Len(s) + Len(t) : a[i] = IF i <= Len(s) THEN s[i] ELSE t[i - Len(s)]
  BY <1>1, ConcatProperties
<1>3. /\ p \in Seq(S) /\ Len(p) = k /\ \A i \in 1 .. k : p[i] = t[i]
  <2>1. \A i \in 1 .. k : t[i] \in S
    BY <1>1, ElementOfSeq
  <2>2. SubSeq(t, 1, k) = [i \in 1 .. k |-> t[i]]
    OBVIOUS
  <2>3. [i \in 1 .. k |-> t[i]] \in [1 .. k -> S]
    BY <2>1
  <2>4. p \in Seq(S)
    BY <1>1, <2>2, <2>3, SeqDef
  <2> QED BY <1>1, <2>2, <2>3, <2>4, LenProperties
<1> HIDE DEF a, p
<1>4. /\ u \in Seq(S) /\ Len(u) = Len(s) + k
      /\ \A i \in 1 .. Len(s) + k : u[i] = IF i <= Len(s) THEN s[i] ELSE p[i - Len(s)]
  BY <1>1, <1>3, ConcatProperties
<1>5. PICK l \in Nat : l = Len(s) + k /\ l <= Len(a)
  BY <1>1, <1>2
<1>6. v \in Seq(S) /\ Len(v) = l /\ \A i \in 1 .. l : v[i] = a[i]
  <2>1. \A i \in 1 .. l : a[i] \in S
    BY <1>2, <1>5, ElementOfSeq
  <2>2. SubSeq(a, 1, l) = [i \in 1 .. l |-> a[i]]
    BY <1>2, <1>5
  <2>3. [i \in 1 .. l |-> a[i]] \in [1 .. l -> S]
    BY <2>1
  <2>4. v \in Seq(S)
    BY <1>5, <2>2, <2>3, SeqDef
  <2> QED BY <1>5, <2>2, <2>3, <2>4, LenProperties
<1> HIDE DEF u, v
<1>7. ASSUME NEW i \in 1 .. l PROVE u[i] = v[i]
  <2>1. CASE i <= Len(s)
    BY <1>1, <1>2, <1>4, <1>5, <1>6, <2>1
  <2>2. CASE ~(i <= Len(s))
    <3>1. i - Len(s) \in 1 .. k
      BY <1>1, <1>5, <2>2
    <3> QED BY <1>1, <1>2, <1>3, <1>4, <1>5, <1>6, <2>2, <3>1
  <2> QED BY <2>1, <2>2
<1>8. u = v
  BY <1>4, <1>5, <1>6, <1>7, SeqEqual
<1> QED BY <1>8 DEF u, v, a, p

\* A message of a Conn and what it has returned of it, in Connection.
LEMMA BytesLength ==
    ASSUME TypeOK, NEW c \in Conns, NEW m \in 1 .. Len(length[c])
    PROVE  /\ Promise!Data(c, m) = Bytes(c, m)
           /\ Len(Bytes(c, m)) = length[c][m] /\ length[c][m] \in Nat
<1>1. length[c][m] \in Nat
  BY TruNetAssumption, ElementOfSeq DEF TypeOK
<1>2. Bytes(c, m) \in Seq(Nat \X Nat)
  BY BytesType DEF Data
<1>3. DOMAIN Bytes(c, m) = 1 .. length[c][m]
  BY DEF Bytes
<1>4. Len(Bytes(c, m)) = length[c][m]
  BY <1>1, <1>2, <1>3, LenProperties
<1> QED BY <1>1, <1>4 DEF Promise!Data, Bytes

\* Read returns the bytes of the message from the first, or from where the call
\* before ended.
LEMMA CopiedReturned ==
    ASSUME IInv, NEW c \in Conns, NEW m \in 1 .. Len(length[c]), NEW data \in Data,
           NEW n \in ReadLens, Copied(c, data, n),
           segments[c][Len(segments[c])] \o data = Bytes(c, m)
    PROVE  \E k \in Len(segments[c][Len(segments[c])]) .. length[c][m] :
              /\ data # << >> => k > Len(segments[c][Len(segments[c])])
              /\ Promise!Returned(c, m, k)
<1> DEFINE old == segments[c][Len(segments[c])]
           j == IF n < Len(data) THEN n ELSE Len(data)
           B == Bytes(c, m)
<1>1. j \in 0 .. Len(data) /\ Len(data) \in Nat /\ (data # << >> => j > 0)
  BY TruNetAssumption, EmptySeq DEF Data
<1>2. old \in Seq(Nat \X Nat) /\ Len(old) \in Nat
  <2>1. segments[c] \in Seq(Data) /\ Len(segments[c]) \in 1 .. Len(segments[c])
    BY EmptySeq DEF IInv, TypeOK, SegmentsInv, Data
  <2>2. old \in Data
    BY <2>1, ElementOfSeq
  <2> QED BY <2>2, LenProperties DEF Data
<1>3. segments' = [segments EXCEPT ![c][Len(segments[c])] = old \o SubSeq(data, 1, j)]
  BY DEF Copied
<1> HIDE DEF old, j
<1>4. old \o SubSeq(data, 1, j) = SubSeq(B, 1, Len(old) + j)
  <2> DEFINE S == Nat \X Nat
  <2>1. old \in Seq(S) /\ data \in Seq(S)
    BY <1>2 DEF Data
  <2>2. old \o data = B
    BY DEF old
  <2> HIDE DEF S, B
  <2>3. old \o SubSeq(data, 1, j) = SubSeq(old \o data, 1, Len(old) + j)
    BY <1>1, <2>1, PrefixOfBoth
  <2> QED BY <2>2, <2>3
<1>5. Promise!Data(c, m) = B /\ Len(B) = length[c][m] /\ length[c][m] \in Nat
  BY BytesLength DEF IInv
<1>6. Len(B) = Len(old) + Len(data)
  <2>1. old \o data = B
    BY DEF old
  <2> QED BY <1>2, <2>1, ConcatProperties DEF Data
<1> HIDE DEF B
<1>7. Promise!Returned(c, m, Len(old) + j)
  BY <1>3, <1>4, <1>5 DEF Promise!Returned, old
<1>8. /\ Len(old) + j \in Len(old) .. length[c][m]
      /\ data # << >> => Len(old) + j > Len(old)
  BY <1>1, <1>2, <1>5, <1>6
<1> QED BY <1>7, <1>8 DEF old

\* What a Conn has of the message that it is reading.
LEMMA AtHandOfTaken ==
    ASSUME WInv, NEW c \in Conns, cont[c]
    PROVE  /\ taken[c] \in 1 .. Len(length[c])
           /\ segments[c][Len(segments[c])] \o buf[c] = Bytes(c, taken[c])
<1>1. PICK first \in Nat : WholeInv(c, first)
  BY DEF WInv, ReadInv, ReadsOn
<1>2. /\ Whole(c) \in Nat /\ Len(segments[c]) = Whole(c) + 1 /\ Len(length[c]) \in Nat
  BY DoneType, LenProperties DEF WInv, IInv, TypeOK, Whole
<1>3. taken[c] = first + Whole(c) + 1 /\ taken[c] <= Len(length[c])
  BY <1>1, <1>2 DEF WholeInv, HasRead, Done
<1>4. segments[c][Whole(c) + 1] \o buf[c] = Bytes(c, first + Whole(c) + 1)
  BY <1>1 DEF WholeInv
<1>5. taken[c] \in 1 .. Len(length[c])
  BY <1>2, <1>3
<1> QED BY <1>2, <1>3, <1>4, <1>5

LEMMA GoOnStep ==
    ASSUME WInv, NEW c \in Conns, NEW n \in ReadLens, ReadRest(c, n)
    PROVE  Promise!GoOn(c)
<1>1. /\ buf[c] # << >> /\ Copied(c, buf[c], n) /\ buf[c] \in Data
      /\ UNCHANGED <<length, readch, hpc, taken, cont>>
  BY DEF ReadRest, listenVars, closeVars, WInv, IInv, TypeOK, Data
<1>2. cont[c]
  BY <1>1 DEF WInv, ReadInv, ReadsOn, WholeInv
<1>3. PICK m \in 1 .. Len(length[c]) :
          m = taken[c] /\ segments[c][Len(segments[c])] \o buf[c] = Bytes(c, m)
  BY <1>2, AtHandOfTaken
<1>4. PICK k \in Len(segments[c][Len(segments[c])]) .. length[c][m] :
          k > Len(segments[c][Len(segments[c])]) /\ Promise!Returned(c, m, k)
  BY <1>1, <1>3, CopiedReturned DEF WInv
<1>5. k \in Len(segments[c][Len(segments[c])]) + 1 .. length[c][m]
  <2>1. segments[c] \in Seq(Data) /\ Len(segments[c]) \in 1 .. Len(segments[c])
    BY EmptySeq DEF WInv, IInv, TypeOK, SegmentsInv, Data
  <2>2. segments[c][Len(segments[c])] \in Data
    BY <2>1, ElementOfSeq
  <2>3. Len(segments[c][Len(segments[c])]) \in Nat /\ length[c][m] \in Nat
    BY <2>2, LenProperties, BytesLength DEF Data, WInv, IInv
  <2> QED BY <1>4, <2>3
<1>6. \A d \in Conns : State(d)' = State(d)
  BY <1>1 DEF State
<1> QED BY <1>1, <1>2, <1>3, <1>4, <1>5, <1>6 DEF Promise!GoOn, Promise!AtHand

LEMMA BeginStep ==
    ASSUME WInv, NEW c \in Conns, NEW n \in ReadLens, ReadData(c, n)
    PROVE  \E m \in 1 .. Len(length[c]) : Promise!Begin(c, m)
<1>1. /\ hpc[c] = "read" /\ c \in readch /\ rpc = "send" /\ rm.c = c
      /\ hpc' = [hpc EXCEPT ![c] = "idle"] /\ cont' = [cont EXCEPT ![c] = TRUE]
      /\ taken' = [taken EXCEPT ![c] = rm.m] /\ Copied(c, Bytes(c, rm.m), n)
      /\ UNCHANGED <<length, readch>>
  BY DEF ReadData, listenVars, closeVars
<1>2. ~cont[c]
  BY <1>1 DEF WInv, ConnInv
<1>3. PICK m \in 1 .. Len(length[c]) : m = rm.m
  BY <1>1 DEF WInv, IInv, MessageInv, Received
<1>4. PICK first \in Nat : WholeInv(c, first) /\ (HasRead(c) => NextInv(c, first))
  BY DEF WInv, ReadInv, ReadsOn
<1>5. m > taken[c] /\ (taken[c] > 0 => m = taken[c] + 1)
  <2>1. taken[c] \in Nat /\ m \in Nat /\ m > 0
    BY DEF WInv, IInv, TypeOK
  <2>2. CASE HasRead(c)
    <3>1. m = taken[c] + 1
      BY <1>1, <1>3, <1>4, <2>2 DEF WholeInv, NextInv
    <3> QED BY <2>1, <3>1
  <2>3. CASE ~HasRead(c)
    <3>1. taken[c] = 0
      BY <1>4, <2>3 DEF WholeInv
    <3> QED BY <2>1, <3>1
  <2> QED BY <2>2, <2>3
<1>6. segments[c][Len(segments[c])] = << >>
  <2>1. Len(segments[c]) = Whole(c) + 1
    BY DoneType, LenProperties DEF WInv, IInv, TypeOK, Whole
  <2> QED BY <1>2, <1>4, <2>1 DEF WholeInv
<1>7. Bytes(c, m) \in Data
  BY BytesType DEF WInv, IInv
<1>8. segments[c][Len(segments[c])] \o Bytes(c, m) = Bytes(c, m)
  BY <1>6, <1>7, ConcatEmptySeq DEF Data
<1>9. PICK k \in Len(segments[c][Len(segments[c])]) .. length[c][m] : Promise!Returned(c, m, k)
  BY <1>1, <1>3, <1>7, <1>8, CopiedReturned DEF WInv
<1>10. k \in 0 .. length[c][m]
  <2>1. Len(segments[c][Len(segments[c])]) = 0
    BY <1>6
  <2> QED BY <1>9, <2>1
<1>11. State(c) = "open"
  BY <1>1 DEF State
<1>12. \A d \in Conns : State(d)' = State(d)
  BY <1>1 DEF State, WInv, IInv, TypeOK
<1>13. Promise!Begin(c, m)
  BY <1>1, <1>2, <1>3, <1>5, <1>9, <1>10, <1>11, <1>12 DEF Promise!Begin
<1> QED BY <1>13

LEMMA EndStep ==
    ASSUME WInv, NEW c \in Conns, ReadEOF(c)
    PROVE  Promise!End(c)
<1>1. /\ buf[c] = << >> /\ cont[c] /\ cont' = [cont EXCEPT ![c] = FALSE]
      /\ segments' = [segments EXCEPT ![c] = Append(@, << >>)]
      /\ UNCHANGED <<length, readch, hpc, taken>>
  BY DEF ReadEOF, listenVars, closeVars
<1>2. PICK m \in 1 .. Len(length[c]) :
          m = taken[c] /\ segments[c][Len(segments[c])] \o buf[c] = Bytes(c, m)
  BY <1>1, AtHandOfTaken
<1>3. segments[c][Len(segments[c])] = Bytes(c, m)
  <2>1. segments[c] \in Seq(Data) /\ Len(segments[c]) \in 1 .. Len(segments[c])
    BY EmptySeq DEF WInv, IInv, TypeOK, SegmentsInv, Data
  <2>2. segments[c][Len(segments[c])] \in Data
    BY <2>1, ElementOfSeq
  <2> QED BY <1>1, <1>2, <2>2, ConcatEmptySeq DEF Data
<1>4. Promise!Data(c, m) = Bytes(c, m)
  BY BytesLength DEF WInv, IInv
<1>5. \A d \in Conns : State(d)' = State(d)
  BY <1>1 DEF State
<1> QED BY <1>1, <1>2, <1>3, <1>4, <1>5 DEF Promise!End, Promise!AtHand

\* Whatever the application's goroutines, the reader process, listen and destroy do
\* in between, a Conn is to its reader the stream of whole messages that Connection
\* describes: each once, in order, none left out after the first, io.EOF once after
\* each, and none begun once it is closed (Conn.Read, Conn.Close, Conn.reader,
\* readerProccess).
THEOREM ConnectionRefinement == Spec => ImplementsConnection
<1>1. Init => Promise!ConnectionInit
  <2> SUFFICES ASSUME Init PROVE Promise!ConnectionInit
    OBVIOUS
  <2>1. \A c \in Conns : State(c) = "none"
    BY DEF Init, State
  <2> QED BY <2>1 DEF Init, Promise!ConnectionInit
<1>2. WInv /\ OpenInv /\ [Next]_vars => [Promise!ConnectionNext]_(Promise!connectionVars)
  <2> SUFFICES ASSUME WInv, OpenInv, [Next]_vars, ~UNCHANGED ConnVars
               PROVE  Promise!ConnectionNext
    BY DEF Promise!connectionVars, ConnVars, States
  <2>1. ASSUME NEW c \in Conns, NEW n \in Lengths, ReceiveData(c, n)
        PROVE  Promise!ConnectionNext
    BY <2>1, ArriveStep DEF Promise!ConnectionNext
  <2>2. CASE Accept
    BY <2>2, AcceptStep DEF Promise!ConnectionNext
  <2>3. ASSUME NEW k \in Closers, NEW c \in Conns, CloseRead(k, c)
        PROVE  Promise!ConnectionNext
    BY <2>3, CloseStep DEF Promise!ConnectionNext
  <2>4. ASSUME NEW c \in Conns, ConnNext(c) PROVE Promise!ConnectionNext
    <3>1. ASSUME NEW n \in ReadLens, ReadRest(c, n) PROVE Promise!ConnectionNext
      BY <3>1, GoOnStep DEF Promise!ConnectionNext
    <3>2. ASSUME NEW n \in ReadLens, ReadData(c, n) PROVE Promise!ConnectionNext
      BY <3>2, BeginStep DEF Promise!ConnectionNext
    <3>3. CASE ReadEOF(c)
      BY <3>3, EndStep DEF Promise!ConnectionNext
    <3> QED BY <2>4, <3>1, <3>2, <3>3, Unseen DEF ConnNext
  <2> QED BY <2>1, <2>2, <2>3, <2>4, Unseen DEF Next, Closing
<1>3. Init => OpenInv
  BY DEF Init, OpenInv
<1>4. WInv /\ OpenInv /\ [Next]_vars => OpenInv'
  BY OpenKept DEF WInv
<1>5. Spec => []OpenInv
  BY <1>3, <1>4, ReadInvariance, PTL DEF Spec
<1> QED BY <1>1, <1>2, <1>5, ReadInvariance, PTL DEF Spec, ImplementsConnection, Promise!ConnectionSpec

=============================================================================
