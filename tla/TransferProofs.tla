--------------------------- MODULE TransferProofs ---------------------------
(***************************************************************************)
(* Proofs about PacketID and Transfer, for any number of ids, writers,     *)
(* packets, and any channel capacity, window and lifetime that satisfy     *)
(* HalfWindow.                                                             *)
(***************************************************************************)
EXTENDS Transfer, TLAPS

-----------------------------------------------------------------------------
(***************************************************************************)
(* Facts about packet ids: the id of the n-th packet is n modulo the       *)
(* limit, ids that are equal belong to the same packet as long as the two  *)
(* packets are less than a whole round apart, and distance() is the real   *)
(* distance between two packets less than half a round apart.              *)
(***************************************************************************)

\* The id of the n-th packet is an id.
LEMMA IDInRange == ASSUME NEW n \in Nat PROVE n % PacketIDLimit \in IDs
  BY PacketIDLimitAssumption DEF IDs

LEMMA DivMod ==
  ASSUME NEW n \in Int
  PROVE  /\ n \div PacketIDLimit \in Int
         /\ n = PacketIDLimit * (n \div PacketIDLimit) + (n % PacketIDLimit)
         /\ n % PacketIDLimit \in IDs
  BY PacketIDLimitAssumption DEF IDs

LEMMA SmallMultiple ==
  ASSUME NEW q \in Int,
         PacketIDLimit * q < PacketIDLimit, -PacketIDLimit < PacketIDLimit * q
  PROVE  q = 0
  BY PacketIDLimitAssumption

LEMMA ModUnique ==
  ASSUME NEW q \in Int, NEW r \in IDs, NEW n \in Int,
         n = PacketIDLimit * q + r
  PROVE  n % PacketIDLimit = r
  BY PacketIDLimitAssumption DEF IDs

\* Two packets with the same id, less than a round apart, are the same.
LEMMA SameID ==
  ASSUME NEW m \in Nat, NEW n \in Nat,
         m % PacketIDLimit = n % PacketIDLimit,
         m - n < PacketIDLimit, n - m < PacketIDLimit
  PROVE  m = n
  <1> DEFINE p == m \div PacketIDLimit
             q == n \div PacketIDLimit
             r == n % PacketIDLimit
  <1>1. p \in Int /\ q \in Int /\ r \in Int /\ PacketIDLimit \in Int
    BY DivMod, PacketIDLimitAssumption DEF IDs
  <1>2. m = PacketIDLimit * p + r /\ n = PacketIDLimit * q + r
    BY DivMod
  <1>3. m - n = PacketIDLimit * (p - q)
    <2> HIDE DEF p, q, r
    <2> QED BY <1>1, <1>2
  <1>4. p - q = 0
    <2> HIDE DEF p, q, r
    <2> QED BY <1>1, <1>3, SmallMultiple
  <1> QED BY <1>1, <1>2, <1>4

\* newID and newExpectedID number on: the wrap keeps the id n modulo the limit.
LEMMA NextIDMod ==
  ASSUME NEW n \in Nat
  PROVE  NextID(n % PacketIDLimit) = (n + 1) % PacketIDLimit
  <1> DEFINE q == n \div PacketIDLimit
             r == n % PacketIDLimit
  <1>1. /\ q \in Int /\ r \in IDs /\ r \in Int /\ PacketIDLimit \in Int
        /\ n = PacketIDLimit * q + r
    BY DivMod, PacketIDLimitAssumption DEF IDs
  <1> HIDE DEF q, r
  <1>2. CASE r + 1 >= PacketIDLimit
    <2>1. n + 1 = PacketIDLimit * (q + 1) + 0
      BY <1>1, <1>2 DEF IDs
    <2>2. (n + 1) % PacketIDLimit = 0
      BY <1>1, <2>1, ModUnique, PacketIDLimitAssumption DEF IDs
    <2> QED BY <1>1, <1>2, <2>2 DEF NextID, r
  <1>3. CASE ~(r + 1 >= PacketIDLimit)
    <2>1. n + 1 = PacketIDLimit * q + (r + 1) /\ r + 1 \in IDs
      BY <1>1, <1>3 DEF IDs
    <2>2. (n + 1) % PacketIDLimit = r + 1
      <3> DEFINE m == n + 1
                 t == r + 1
      <3>1. m \in Int /\ t \in IDs /\ m = PacketIDLimit * q + t
        BY <2>1
      <3> HIDE DEF m, t
      <3>2. m % PacketIDLimit = t
        BY <1>1, <3>1, ModUnique
      <3> QED BY <3>2 DEF m, t
    <2> QED BY <1>1, <1>3, <2>2 DEF NextID, r
  <1> QED BY <1>2, <1>3

\* distance() is exact for packets less than half a round apart.
LEMMA DistanceExact ==
  ASSUME NEW e \in Nat, NEW n \in Nat,
         n - e < PacketIDLimit \div 2, e - n <= PacketIDLimit \div 2
  PROVE  Distance(e % PacketIDLimit, n % PacketIDLimit) = n - e
  <1> DEFINE a == e \div PacketIDLimit
             b == n \div PacketIDLimit
             r == e % PacketIDLimit
             s == n % PacketIDLimit
             h == PacketIDLimit \div 2
             diff == ModSubU(s, r)
  <1>1. /\ a \in Int /\ b \in Int /\ r \in IDs /\ s \in IDs
        /\ e = PacketIDLimit * a + r /\ n = PacketIDLimit * b + s
    BY DivMod
  <1>2. PacketIDLimit \in Nat \ {0} /\ h \in Nat /\ 2 * h <= PacketIDLimit
        /\ PacketIDLimit - h >= h /\ h < PacketIDLimit
    BY PacketIDLimitAssumption
  <1>3. r % PacketIDLimit = r /\ s % PacketIDLimit = s
    <2> HIDE DEF r, s
    <2>1. r = PacketIDLimit * 0 + r /\ s = PacketIDLimit * 0 + s /\ r \in Int /\ s \in Int
      BY <1>1, <1>2 DEF IDs
    <2> QED BY <1>1, <2>1, ModUnique
  <1>4. diff = (s + PacketIDLimit - r) % PacketIDLimit
    BY <1>3 DEF ModSubU
  <1> HIDE DEF a, b, r, s, h, diff
  <1>5. CASE n >= e
    <2>1. n - e \in IDs
      BY <1>2, <1>5 DEF IDs, h
    <2>2. s + PacketIDLimit - r = PacketIDLimit * (a - b + 1) + (n - e)
      BY <1>1, <1>2 DEF IDs
    <2>3. diff = n - e
      <3> DEFINE m == s + PacketIDLimit - r
                 k == a - b + 1
                 d == n - e
      <3>1. m \in Int /\ k \in Int /\ d \in IDs /\ m = PacketIDLimit * k + d
        BY <1>1, <1>2, <2>1, <2>2 DEF IDs
      <3>2. diff = m % PacketIDLimit
        BY <1>4
      <3> HIDE DEF m, k, d
      <3>3. diff = d
        BY <3>1, <3>2, ModUnique
      <3> QED BY <3>3 DEF d
    <2>4. CASE r = s
      <3>1. n = e
        BY <1>2, <2>1, <2>4, SameID, SMTT(15) DEF r, s, IDs
      <3> QED BY <2>4, <3>1 DEF Distance, r, s
    <2>5. CASE r # s
      BY <2>3, <2>5 DEF Distance, r, s, h, diff
    <2> QED BY <2>4, <2>5
  <1>6. CASE n < e
    <2>1. PacketIDLimit + (n - e) \in IDs
      BY <1>2, <1>6 DEF IDs, h
    <2>2. s + PacketIDLimit - r = PacketIDLimit * (a - b) + (PacketIDLimit + (n - e))
      BY <1>1, <1>2 DEF IDs
    <2>3. diff = PacketIDLimit + (n - e)
      <3> DEFINE m == s + PacketIDLimit - r
                 k == a - b
                 d == PacketIDLimit + (n - e)
      <3>1. m \in Int /\ k \in Int /\ d \in IDs /\ m = PacketIDLimit * k + d
        BY <1>1, <1>2, <2>1, <2>2 DEF IDs
      <3>2. diff = m % PacketIDLimit
        BY <1>4
      <3> HIDE DEF m, k, d
      <3>3. diff = d
        BY <3>1, <3>2, ModUnique
      <3> QED BY <3>3 DEF d
    <2>4. r # s
      <3>1. SUFFICES ASSUME r = s PROVE FALSE
        OBVIOUS
      <3>2. e - n < PacketIDLimit /\ n - e < PacketIDLimit
        BY <1>2, <1>6 DEF h
      <3>3. e = n
        BY <3>1, <3>2, SameID DEF r, s
      <3> QED BY <1>6, <3>3
    <2>5. diff >= h
      BY <1>2, <1>6, <2>3 DEF h
    <2> QED BY <1>2, <2>3, <2>4, <2>5 DEF Distance, r, s, h, diff
  <1> QED BY <1>5, <1>6

-----------------------------------------------------------------------------
(***************************************************************************)
(* The type invariant, strengthened to be inductive: a goroutine that has  *)
(* a packet in hand has one, and a pass never starts with a packet that    *)
(* has had its last retransmission.                                        *)
(***************************************************************************)
TypeInv ==
    /\ TypeOK
    /\ \A w \in Writers : wpc[w] \in {"add", "send"} => wn[w] \in Messages
    /\ lpc # "idle" => ln \in Messages
    /\ destroyed => scan = {}
    /\ ~destroyed => \A n \in Messages : attempts[n] <= MaxRetransmitAttempts

(***************************************************************************)
(* The inductive invariant.                                                *)
(***************************************************************************)
Numbered == 0 .. count - 1

\* Ids are the packet numbers modulo the limit.
CounterInv ==
    /\ id = count % PacketIDLimit
    /\ \A n \in Numbered : pid[n] = n % PacketIDLimit

\* What the writing end and the network hold was numbered; what may still be
\* acked is in the window, what may still arrive is young enough.
SenderInv ==
    /\ \A m \in Outstanding : m \in Numbered /\ count - m <= Window
    /\ \A w \in Writers : wpc[w] = "send" => wn[w] \in Numbered
    /\ \A i \in 1 .. Len(senderCh) : senderCh[i] \in Numbered
    /\ \A n \in net \cup acks : n \in Numbered /\ count - n <= Lifetime

\* The index files exactly the queued packets, each under its id.
IndexInv ==
    /\ \A n \in sendQueue : index[pid[n]] = n
    /\ \A i \in IDs : index[i] # None => index[i] \in sendQueue /\ pid[index[i]] = i

\* The reading end counts and hands over packets in order.
ReaderInv ==
    /\ \A i \in 1 .. Len(received) : received[i] = i - 1
    /\ \A i \in 1 .. Len(readerCh) : readerCh[i] = Len(received) + i - 1
    /\ Expected <= count
    /\ expectedID = Expected % PacketIDLimit
    /\ lpc \in {"ack", "store"} => ln \in Numbered /\ Expected - ln <= Lifetime
    /\ lpc = "push" => ln = Expected - 1

\* The receive queue holds packets of the window ahead, and the expected one
\* only while process() is on its way to it.
RecvQueueInv ==
    \A i \in IDs :
        LET n == recvQueue[i]
        IN  n # None =>
                /\ n \in Numbered
                /\ pid[n] = i
                /\ n < Expected + Window
                /\ \/ Expected <= n /\ (lpc # "push" => n # Expected)
                   \/ lpc = "push" /\ lq /\ ln = n

\* Only held packets are acked.
AckInv ==
    /\ \A i \in 1 .. Len(ackCh) : ackCh[i] \in Numbered /\ Held(ackCh[i])
    /\ \A n \in acks : Held(n)

IInv == CounterInv /\ SenderInv /\ IndexInv /\ ReaderInv /\ RecvQueueInv
        /\ AckInv /\ NoLoss

-----------------------------------------------------------------------------
(***************************************************************************)
(* Types.                                                                  *)
(***************************************************************************)
LEMMA TypeInit == Init => TypeInv
  <1> SUFFICES ASSUME Init PROVE TypeInv
    OBVIOUS
  <1>1. 0 \in IDs /\ 0 \in 0 .. MaxMessages /\ 0 \in 0 .. MaxRetransmitAttempts + 1
    BY PacketIDLimitAssumption, TransferAssumption DEF IDs
  <1>2. << >> \in Seq(Messages) /\ Len(<< >>) = 0 /\ 0 <= ChanLen
    BY TransferAssumption
  <1>3. TypeOK
    BY <1>1, <1>2 DEF Init, TypeOK
  <1> QED
    BY <1>3, TransferAssumption DEF Init, TypeInv

LEMMA NextIDType == ASSUME NEW i \in IDs PROVE NextID(i) \in IDs
  BY PacketIDLimitAssumption DEF NextID, IDs

LEMMA TypeStep == TypeInv /\ [Next]_vars => TypeInv'
  <1> SUFFICES ASSUME TypeInv, [Next]_vars PROVE TypeInv'
    OBVIOUS
  <1> USE PacketIDLimitAssumption, TransferAssumption
      DEF TypeInv, TypeOK, vars, writerVars, queueVars, readerVars
  <1>1. ASSUME NEW w \in Writers, WriteTo(w) PROVE TypeInv'
    BY <1>1 DEF WriteTo
  <1>2. ASSUME NEW w \in Writers, NewID(w) PROVE TypeInv'
    <2>1. count \in Messages /\ count' \in 0 .. MaxMessages
      BY <1>2 DEF NewID, Messages
    <2>2. id' \in IDs /\ pid' \in [Messages -> IDs]
      BY <1>2, <2>1, NextIDType DEF NewID
    <2>3. /\ wpc' \in [Writers -> {"idle", "number", "add", "send"}]
          /\ wn' \in [Writers -> Messages \cup {None}]
          /\ \A v \in Writers : wpc'[v] \in {"add", "send"} => wn'[v] \in Messages
      BY <1>2, <2>1 DEF NewID
    <2>4. net' \in SUBSET Messages /\ acks' \in SUBSET Messages
      BY <1>2 DEF NewID
    <2> QED
      BY <1>2, <2>1, <2>2, <2>3, <2>4 DEF NewID
  <1>3. ASSUME NEW w \in Writers, Add(w) PROVE TypeInv'
    BY <1>3 DEF Add
  <1>4. ASSUME NEW w \in Writers, WriteToSender(w) PROVE TypeInv'
    BY <1>4 DEF WriteToSender
  <1>5. CASE SenderProccess
    BY <1>5 DEF SenderProccess
  <1>6. ASSUME NEW due \in SUBSET sendQueue, Retransmit(due) PROVE TypeInv'
    BY <1>6 DEF Retransmit
  <1>7. ASSUME NEW n \in Messages, Resend(n) PROVE TypeInv'
    BY <1>7 DEF Resend
  <1>8. ASSUME NEW n \in Messages, GiveUp(n) PROVE TypeInv'
    BY <1>8 DEF GiveUp
  <1>9. ASSUME NEW n \in Messages, ReceiveAck(n) PROVE TypeInv'
    BY <1>9 DEF ReceiveAck
  <1>10. ASSUME NEW n \in Messages, ReceiveData(n) PROVE TypeInv'
    BY <1>10 DEF ReceiveData
  <1>11. CASE WriteToAck
    BY <1>11, SMTT(15) DEF WriteToAck
  <1>12. CASE ServeOld
    BY <1>12 DEF ServeOld
  <1>13. CASE ServeEarly
    BY <1>13 DEF ServeEarly
  <1>14. CASE ServeExpected
    BY <1>14, NextIDType DEF ServeExpected
  <1>15. CASE SendToReader
    <2>1. recvQueue' \in [IDs -> Messages \cup {None}]
      BY <1>15 DEF SendToReader, Processed
    <2>2. readerCh' \in Seq(Messages) /\ Len(readerCh') <= ChanLen
      BY <1>15 DEF SendToReader
    <2>3. recvQueue'[expectedID] \in Messages \cup {None}
      BY <2>1
    <2>4. /\ expectedID' \in IDs /\ lpc' \in {"idle", "push"} /\ lq' \in BOOLEAN
          /\ ln' \in Messages \cup {None}
          /\ lpc' # "idle" => ln' \in Messages
      BY <1>15, <2>3, NextIDType DEF SendToReader
    <2> QED
      BY <1>15, <2>1, <2>2, <2>4 DEF SendToReader
  <1>16. CASE TransmitAck
    BY <1>16 DEF TransmitAck
  <1>17. CASE ReaderProccess
    BY <1>17, SMTT(15) DEF ReaderProccess
  <1>18. CASE UNCHANGED vars
    BY <1>18
  <1> QED
    BY <1>1, <1>2, <1>3, <1>4, <1>5, <1>6, <1>7, <1>8, <1>9, <1>10, <1>11,
       <1>12, <1>13, <1>14, <1>15, <1>16, <1>17, <1>18
    DEF Next, WriterNext, RetransmitNext, ListenNext

-----------------------------------------------------------------------------
(***************************************************************************)
(* The inductive invariant.                                                *)
(***************************************************************************)
LEMMA IInvInit == Init => IInv
  <1> SUFFICES ASSUME Init PROVE IInv
    OBVIOUS
  <1>1. 0 % PacketIDLimit = 0
    BY PacketIDLimitAssumption
  <1>2. Expected = 0 /\ Numbered = {} /\ Outstanding = {}
    BY DEF Init, Expected, Numbered, Outstanding
  <1> QED
    BY <1>1, <1>2 DEF Init, IInv, CounterInv, SenderInv, IndexInv, ReaderInv,
       RecvQueueInv, AckInv, NoLoss, Numbered

\* What the two ends count is never negative and never out of step.
LEMMA ExpectedType == ASSUME TypeInv PROVE Expected \in Nat /\ count \in Nat
  BY TransferAssumption DEF TypeInv, TypeOK, Expected

LEMMA NumberedType ==
  ASSUME TypeInv
  PROVE  /\ Numbered \subseteq Messages
         /\ \A n \in Numbered : n \in Nat /\ n < count
  BY TransferAssumption DEF TypeInv, TypeOK, Numbered, Messages

\* The sizes HalfWindow relates.
LEMMA Sizes ==
  ASSUME HalfWindow
  PROVE  /\ PacketIDLimit \in Nat \ {0} /\ PacketIDLimit \div 2 \in Nat
         /\ 2 * (PacketIDLimit \div 2) <= PacketIDLimit
         /\ Window \in Nat \ {0} /\ Window <= PacketIDLimit \div 2
         /\ Lifetime \in Nat /\ Lifetime <= PacketIDLimit \div 2
  BY PacketIDLimitAssumption, TransferAssumption DEF HalfWindow

\* Two outstanding packets have different ids: the index has room for both.
LEMMA OutstandingIDs ==
  ASSUME HalfWindow, TypeInv, CounterInv, SenderInv,
         NEW m \in Outstanding, NEW n \in Outstanding, pid[m] = pid[n]
  PROVE  m = n
  <1>1. /\ m \in Nat /\ n \in Nat
        /\ m % PacketIDLimit = n % PacketIDLimit
    BY NumberedType DEF CounterInv, SenderInv
  <1>2. m - n < PacketIDLimit /\ n - m < PacketIDLimit
    BY <1>1, Sizes, NumberedType, ExpectedType, SMTT(15) DEF SenderInv
  <1> QED
    BY <1>1, <1>2, SameID

\* When listen looks at a packet, distance() gives its real distance from the
\* expected packet.
LEMMA ServeDistance ==
  ASSUME HalfWindow, TypeInv, IInv, lpc = "store"
  PROVE  /\ ln \in Numbered /\ ln < Expected + Window
         /\ Distance(expectedID, pid[ln]) = ln - Expected
  <1>1. ln \in Numbered /\ ln \in Nat /\ ln < count /\ Expected - ln <= Lifetime
    BY NumberedType DEF IInv, ReaderInv
  <1>2. Expected \in Nat /\ count \in Nat /\ Expected <= count
    BY ExpectedType DEF IInv, ReaderInv
  <1>3. ln < Expected + Window
    <2>1. CASE ln <= Expected
      BY <1>1, <1>2, <2>1, Sizes
    <2>2. CASE ln > Expected
      <3>1. Expected \in Numbered
        BY <1>1, <1>2, <2>2 DEF Numbered
      <3>2. ~Held(Expected)
        <4>1. recvQueue[pid[Expected]] # Expected
          <5> SUFFICES ASSUME recvQueue[pid[Expected]] = Expected PROVE FALSE
            OBVIOUS
          <5>1. pid[Expected] \in IDs /\ Expected # None
            BY <1>2, <3>1, NumberedType DEF TypeInv, TypeOK, None
          <5> QED
            BY <5>1 DEF IInv, RecvQueueInv
        <4> QED
          BY <1>2, <2>2, <4>1 DEF Held
      <3>3. Expected \in Outstanding
        BY <3>1, <3>2 DEF IInv, NoLoss, Numbered
      <3>4. count - Expected <= Window
        BY <3>3 DEF IInv, SenderInv
      <3> QED
        BY <1>1, <1>2, <3>4, Sizes
    <2> QED
      BY <1>1, <1>2, <2>1, <2>2
  <1>4. pid[ln] = ln % PacketIDLimit /\ expectedID = Expected % PacketIDLimit
    BY <1>1 DEF IInv, CounterInv, ReaderInv
  <1>5. ln - Expected < PacketIDLimit \div 2 /\ Expected - ln <= PacketIDLimit \div 2
    BY <1>1, <1>2, <1>3, Sizes
  <1> QED
    BY <1>1, <1>2, <1>3, <1>4, <1>5, DistanceExact

\* The packet filed under the id of packet n is n, if both are in the window.
LEMMA QueuedUnderID ==
  ASSUME HalfWindow, TypeInv, IInv,
         NEW n \in Numbered, Expected <= n, n < Expected + Window,
         recvQueue[pid[n]] # None, ~(lpc = "push" /\ lq)
  PROVE  recvQueue[pid[n]] = n
  <1> DEFINE m == recvQueue[pid[n]]
  <1>1. n \in Nat /\ n \in Messages /\ pid[n] \in IDs
    BY NumberedType DEF TypeInv, TypeOK
  <1>2. m \in Numbered /\ pid[m] = pid[n] /\ m < Expected + Window /\ Expected <= m
    BY <1>1 DEF IInv, RecvQueueInv
  <1>3. m \in Nat /\ Expected \in Nat /\ m % PacketIDLimit = n % PacketIDLimit
    BY <1>2, NumberedType, ExpectedType DEF IInv, CounterInv
  <1> HIDE DEF m
  <1>4. m - n < PacketIDLimit /\ n - m < PacketIDLimit
    BY <1>1, <1>2, <1>3, Sizes
  <1>5. m = n
    BY <1>1, <1>3, <1>4, SameID
  <1> QED
    BY <1>5 DEF m

-----------------------------------------------------------------------------
(***************************************************************************)
(* What the steps of one end leave alone at the other.                     *)
(***************************************************************************)

\* A step of the writing end that numbers no packet keeps what the reading
\* end holds and knows.
LEMMA WritingStep ==
  ASSUME TypeInv, IInv, UNCHANGED <<id, count, pid, acks, readerVars>>
  PROVE  /\ CounterInv' /\ ReaderInv' /\ RecvQueueInv' /\ AckInv'
         /\ \A n \in Numbered : Held(n)' <=> Held(n)
         /\ Numbered' = Numbered
  <1>1. Expected' = Expected /\ Numbered' = Numbered
    BY DEF readerVars, Expected, Numbered
  <1>2. ASSUME NEW n PROVE Held(n)' <=> Held(n)
    BY <1>1 DEF readerVars, Held
  <1> QED
    BY <1>1, <1>2 DEF readerVars, IInv, CounterInv, ReaderInv, RecvQueueInv, AckInv

\* If it keeps the set of outstanding packets as well, only SenderInv and
\* IndexInv are left to show.
LEMMA SendingStep ==
  ASSUME TypeInv, IInv, UNCHANGED <<id, count, pid, acks, readerVars>>,
         Outstanding' = Outstanding, SenderInv', IndexInv'
  PROVE  IInv'
  <1>1. NoLoss'
    BY WritingStep DEF IInv, NoLoss, Numbered
  <1> QED
    BY <1>1, WritingStep DEF IInv

\* A step of the reading end that lets go of no packet keeps the writing end's
\* part of the invariant and loses nothing.
LEMMA ReadingStep ==
  ASSUME TypeInv, IInv, UNCHANGED <<writerVars, queueVars, net, acks>>,
         \A n \in Numbered : Held(n) => Held(n)'
  PROVE  /\ CounterInv' /\ SenderInv' /\ IndexInv' /\ NoLoss'
         /\ \A n \in acks' : Held(n)'
         /\ Numbered' = Numbered
  <1>1. Outstanding' = Outstanding /\ Numbered' = Numbered
    BY DEF writerVars, queueVars, Outstanding, Numbered
  <1>2. CounterInv' /\ SenderInv' /\ IndexInv'
    BY <1>1 DEF writerVars, queueVars, IInv, CounterInv, SenderInv, IndexInv
  <1>3. NoLoss'
    BY <1>1 DEF writerVars, IInv, NoLoss, Numbered
  <1>4. \A n \in acks' : Held(n)'
    BY DEF IInv, AckInv, SenderInv
  <1> QED
    BY <1>1, <1>2, <1>3, <1>4

-----------------------------------------------------------------------------
(***************************************************************************)
(* The steps of the writing end.                                           *)
(***************************************************************************)
LEMMA WriteToStep ==
  ASSUME TypeInv, IInv, NEW w \in Writers, WriteTo(w) PROVE IInv'
  <1>1. Outstanding' = Outstanding
    BY DEF WriteTo, queueVars, Outstanding, TypeInv, TypeOK
  <1>2. SenderInv'
    BY <1>1 DEF WriteTo, queueVars, IInv, SenderInv, Numbered, TypeInv, TypeOK
  <1>3. IndexInv'
    BY DEF WriteTo, queueVars, IInv, IndexInv
  <1> QED
    BY <1>1, <1>2, <1>3, SendingStep DEF WriteTo, queueVars

LEMMA AddStep ==
  ASSUME HalfWindow, TypeInv, IInv, NEW w \in Writers, Add(w) PROVE IInv'
  <1> DEFINE n == wn[w]
  <1>1. n \in Outstanding /\ n \in Messages /\ n # None /\ pid[n] \in IDs
    BY DEF Add, Outstanding, TypeInv, TypeOK, Messages, None
  <1>2. Outstanding' = Outstanding
    BY DEF Add, Outstanding, TypeInv, TypeOK
  <1>3. SenderInv'
    <2>1. wn[w] \in Numbered
      BY <1>1 DEF IInv, SenderInv
    <2> QED
      BY <1>2, <2>1 DEF Add, IInv, SenderInv, Numbered, TypeInv, TypeOK
  <1>4. IndexInv'
    <2>1. /\ sendQueue' = sendQueue \cup {n} /\ pid' = pid
          /\ index' = [index EXCEPT ![pid[n]] = n]
      BY DEF Add
    <2>2. ASSUME NEW m \in sendQueue' PROVE index'[pid[m]] = m
      <3>1. m \in Outstanding /\ m \in Messages /\ pid[m] \in IDs
        BY <1>1, <2>1 DEF Outstanding, TypeInv, TypeOK
      <3>2. CASE pid[m] = pid[n]
        <4>1. m = n
          BY <1>1, <3>1, <3>2, OutstandingIDs DEF IInv
        <4> QED
          BY <1>1, <2>1, <4>1 DEF TypeInv, TypeOK
      <3>3. CASE pid[m] # pid[n]
        BY <1>1, <2>1, <3>1, <3>3 DEF IInv, IndexInv, TypeInv, TypeOK
      <3> QED
        BY <3>2, <3>3
    <2>3. ASSUME NEW i \in IDs, index'[i] # None
          PROVE  index'[i] \in sendQueue' /\ pid[index'[i]] = i
      BY <1>1, <2>1, <2>3 DEF IInv, IndexInv, TypeInv, TypeOK
    <2> QED
      BY <2>1, <2>2, <2>3 DEF IndexInv
  <1> QED
    BY <1>2, <1>3, <1>4, SendingStep DEF Add

LEMMA WriteToSenderStep ==
  ASSUME TypeInv, IInv, NEW w \in Writers, WriteToSender(w) PROVE IInv'
  <1>1. Outstanding' = Outstanding
    BY DEF WriteToSender, Outstanding, TypeInv, TypeOK
  <1>2. SenderInv'
    <2>1. wn[w] \in Numbered
      BY DEF WriteToSender, IInv, SenderInv
    <2>2. \A i \in 1 .. Len(senderCh') : senderCh'[i] \in Numbered
      BY <2>1 DEF WriteToSender, IInv, SenderInv, TypeInv, TypeOK
    <2>3. \A v \in Writers : wpc'[v] = "send" => wn'[v] \in Numbered
      BY DEF WriteToSender, IInv, SenderInv, TypeInv, TypeOK
    <2> QED
      BY <1>1, <2>2, <2>3 DEF WriteToSender, IInv, SenderInv, Numbered
  <1>3. IndexInv'
    BY DEF WriteToSender, IInv, IndexInv
  <1> QED
    BY <1>1, <1>2, <1>3, SendingStep DEF WriteToSender

LEMMA SenderProccessStep ==
  ASSUME TypeInv, IInv, SenderProccess PROVE IInv'
  <1>1. Outstanding' = Outstanding
    BY DEF SenderProccess, writerVars, Outstanding
  <1>2. SenderInv'
    <2>1. senderCh \in Seq(Messages) /\ senderCh # << >>
      BY DEF SenderProccess, TypeInv, TypeOK
    <2>2. \A i \in 1 .. Len(senderCh') : senderCh'[i] \in Numbered
      BY <2>1 DEF SenderProccess, IInv, SenderInv
    <2>3. Head(senderCh) \in Numbered
      BY <2>1 DEF IInv, SenderInv
    <2>4. \A n \in net' \cup acks' : n \in Numbered /\ count - n <= Lifetime
      BY <2>3 DEF SenderProccess, IInv, SenderInv, Fresh
    <2> QED
      BY <1>1, <2>2, <2>4 DEF SenderProccess, writerVars, IInv, SenderInv, Numbered
  <1>3. IndexInv'
    BY DEF SenderProccess, writerVars, IInv, IndexInv
  <1> QED
    BY <1>1, <1>2, <1>3, SendingStep DEF SenderProccess, writerVars

\* Timer passes that only pick the packets to send, or end the channel.
LEMMA RetransmitStep ==
  ASSUME TypeInv, IInv, NEW due \in SUBSET sendQueue, Retransmit(due) PROVE IInv'
  <1>1. Outstanding' = Outstanding
    BY DEF Retransmit, writerVars, Outstanding
  <1>2. SenderInv' /\ IndexInv'
    BY <1>1 DEF Retransmit, writerVars, IInv, SenderInv, IndexInv, Numbered
  <1> QED
    BY <1>1, <1>2, SendingStep DEF Retransmit, writerVars

LEMMA GiveUpStep ==
  ASSUME TypeInv, IInv, NEW n \in Messages, GiveUp(n) PROVE IInv'
  <1>1. Outstanding' = Outstanding
    BY DEF GiveUp, writerVars, Outstanding
  <1>2. SenderInv' /\ IndexInv'
    BY <1>1 DEF GiveUp, writerVars, IInv, SenderInv, IndexInv, Numbered
  <1> QED
    BY <1>1, <1>2, SendingStep DEF GiveUp, writerVars

LEMMA ResendStep ==
  ASSUME TypeInv, IInv, NEW n \in Messages, Resend(n) PROVE IInv'
  <1>1. Outstanding' = Outstanding
    BY DEF Resend, writerVars, Outstanding
  <1>2. SenderInv'
    <2>1. n \in Numbered
      BY DEF Resend, IInv, SenderInv, Outstanding, TypeInv, TypeOK
    <2>2. senderCh' = Append(senderCh, n) /\ senderCh \in Seq(Messages)
      BY DEF Resend, TypeInv, TypeOK
    <2>3. \A i \in 1 .. Len(senderCh') : senderCh'[i] \in Numbered
      BY <2>1, <2>2 DEF IInv, SenderInv
    <2> QED
      BY <1>1, <2>3 DEF Resend, writerVars, IInv, SenderInv, Numbered
  <1>3. IndexInv'
    BY DEF Resend, writerVars, IInv, IndexInv
  <1> QED
    BY <1>1, <1>2, <1>3, SendingStep DEF Resend, writerVars

\* A new number: the window and the age of datagrams move on by one.
LEMMA NewIDStep ==
  ASSUME TypeInv, IInv, NEW w \in Writers, NewID(w) PROVE IInv'
  <1>1. count \in Nat /\ count' = count + 1 /\ count \in Messages
    BY ExpectedType, TransferAssumption DEF NewID, Messages
  <1>2. /\ Numbered' = Numbered \cup {count}
        /\ \A n \in Numbered : pid'[n] = pid[n]
    BY <1>1, NumberedType DEF NewID, Numbered, TypeInv, TypeOK
  <1>3. Outstanding' = Outstanding \cup {count}
    BY DEF NewID, queueVars, Outstanding, TypeInv, TypeOK
  <1>4. CounterInv'
    <2>1. pid'[count] = id
      BY <1>1 DEF NewID, TypeInv, TypeOK
    <2>2. id' = count' % PacketIDLimit
      BY <1>1, NextIDMod DEF NewID, IInv, CounterInv
    <2> QED
      BY <1>2, <2>1, <2>2 DEF IInv, CounterInv
  <1>5. SenderInv'
    <2>1. \A m \in Outstanding' : m \in Numbered' /\ count' - m <= Window
      BY <1>1, <1>2, <1>3, NumberedType, TransferAssumption
      DEF NewID, WindowOpen, IInv, SenderInv
    <2>2. \A v \in Writers : wpc'[v] = "send" => wn'[v] \in Numbered'
      BY <1>2 DEF NewID, IInv, SenderInv, TypeInv, TypeOK
    <2>3. \A i \in 1 .. Len(senderCh') : senderCh'[i] \in Numbered'
      BY <1>2 DEF NewID, queueVars, IInv, SenderInv
    <2>4. \A n \in net' \cup acks' : n \in Numbered' /\ count' - n <= Lifetime
      BY <1>2 DEF NewID, IInv, SenderInv
    <2> QED
      BY <2>1, <2>2, <2>3, <2>4 DEF SenderInv
  <1>6. IndexInv'
    <2>1. \A m \in sendQueue : m \in Numbered
      BY DEF IInv, SenderInv, Outstanding
    <2> QED
      BY <1>2, <2>1 DEF NewID, queueVars, IInv, IndexInv
  <1>7. Expected' = Expected /\ Expected \in Nat
    BY ExpectedType DEF NewID, readerVars, Expected
  <1>8. ReaderInv'
    BY <1>1, <1>2, <1>7 DEF NewID, readerVars, IInv, ReaderInv
  <1>9. RecvQueueInv'
    BY <1>2, <1>7 DEF NewID, readerVars, IInv, RecvQueueInv
  <1>10. \A n \in Numbered : Held(n) => Held(n)'
    BY <1>2, <1>7 DEF NewID, readerVars, Held
  <1>11. AckInv'
    BY <1>2, <1>10 DEF NewID, readerVars, IInv, AckInv, SenderInv
  <1>12. NoLoss'
    BY <1>2, <1>3, <1>10 DEF IInv, NoLoss, Numbered
  <1> QED
    BY <1>4, <1>5, <1>6, <1>8, <1>9, <1>11, <1>12 DEF IInv

\* An ack takes the packet it is for out of the queue, and that one is held.
LEMMA ReceiveAckStep ==
  ASSUME HalfWindow, TypeInv, IInv, NEW n \in Messages, ReceiveAck(n) PROVE IInv'
  <1>1. /\ n \in Numbered /\ n \in Nat /\ n < count /\ count - n <= Lifetime
        /\ pid[n] \in IDs /\ count \in Nat
    BY NumberedType, ExpectedType DEF ReceiveAck, IInv, SenderInv, TypeInv, TypeOK
  <1>2. index[pid[n]] = n
    <2> DEFINE m == index[pid[n]]
    <2>1. m \in sendQueue /\ pid[m] = pid[n]
      BY <1>1 DEF ReceiveAck, IInv, IndexInv
    <2>2. m \in Numbered /\ m \in Nat /\ m < count /\ count - m <= Window
      BY <2>1, NumberedType DEF IInv, SenderInv, Outstanding
    <2>3. m % PacketIDLimit = n % PacketIDLimit
      BY <1>1, <2>1, <2>2 DEF IInv, CounterInv
    <2> HIDE DEF m
    <2>4. m - n < PacketIDLimit /\ n - m < PacketIDLimit
      BY <1>1, <2>2, Sizes
    <2>5. m = n
      BY <1>1, <2>2, <2>3, <2>4, SameID
    <2> QED
      BY <2>5 DEF m
  <1>3. /\ sendQueue' = sendQueue \ {n}
        /\ index' = [index EXCEPT ![pid[n]] = None]
        /\ UNCHANGED <<id, count, pid, wpc, wn, senderCh, net, acks, readerVars>>
    BY <1>2 DEF ReceiveAck, writerVars
  <1>4. Outstanding \ {n} \subseteq Outstanding' /\ Outstanding' \subseteq Outstanding
    BY <1>3 DEF Outstanding
  <1>5. SenderInv'
    BY <1>3, <1>4 DEF IInv, SenderInv, Numbered
  <1>6. IndexInv'
    <2>1. ASSUME NEW m \in sendQueue' PROVE index'[pid[m]] = m
      <3>1. m \in sendQueue /\ m # n /\ index[pid[m]] = m
        BY <1>3 DEF IInv, IndexInv
      <3>2. pid[m] # pid[n]
        BY <1>2, <3>1
      <3> QED
        BY <1>3, <3>1, <3>2 DEF TypeInv, TypeOK
    <2>2. ASSUME NEW i \in IDs, index'[i] # None
          PROVE  index'[i] \in sendQueue' /\ pid[index'[i]] = i
      BY <1>1, <1>3, <2>2 DEF IInv, IndexInv, TypeInv, TypeOK
    <2> QED
      BY <1>3, <2>1, <2>2 DEF IndexInv
  <1>7. NoLoss'
    <2>1. Held(n)
      BY DEF ReceiveAck, IInv, AckInv
    <2> QED
      BY <1>3, <1>4, <2>1, WritingStep DEF IInv, NoLoss, Numbered
  <1> QED
    BY <1>3, <1>5, <1>6, <1>7, WritingStep DEF IInv

-----------------------------------------------------------------------------
(***************************************************************************)
(* The steps of the reading end.                                           *)
(***************************************************************************)
LEMMA ReceiveDataStep ==
  ASSUME TypeInv, IInv, NEW n \in Messages, ReceiveData(n) PROVE IInv'
  <1>1. Expected' = Expected /\ Expected \in Nat /\ count \in Nat /\ Expected <= count
    BY ExpectedType DEF ReceiveData, IInv, ReaderInv, Expected
  <1>2. \A m \in Numbered : Held(m)' <=> Held(m)
    BY <1>1 DEF ReceiveData, writerVars, Held
  <1>3. ReaderInv'
    <2>1. n \in Numbered /\ count - n <= Lifetime /\ n \in Nat /\ Lifetime \in Nat
      BY NumberedType, TransferAssumption DEF ReceiveData, IInv, SenderInv
    <2>2. ln' \in Numbered' /\ Expected' - ln' <= Lifetime
      BY <1>1, <2>1 DEF ReceiveData, writerVars, Numbered
    <2> QED
      BY <1>1, <2>2 DEF ReceiveData, writerVars, IInv, ReaderInv
  <1>4. RecvQueueInv'
    BY <1>1 DEF ReceiveData, writerVars, IInv, RecvQueueInv, Numbered
  <1>5. AckInv'
    BY <1>2 DEF ReceiveData, writerVars, IInv, AckInv, SenderInv, Numbered
  <1> QED
    BY <1>2, <1>3, <1>4, <1>5, ReadingStep DEF ReceiveData, IInv

LEMMA WriteToAckStep ==
  ASSUME TypeInv, IInv, WriteToAck PROVE IInv'
  <1>1. Expected' = Expected /\ ln \in Numbered /\ ln \in Messages
    BY DEF WriteToAck, IInv, ReaderInv, Expected, TypeInv
  <1>2. \A m \in Numbered : Held(m) => Held(m)'
    BY <1>1 DEF WriteToAck, writerVars, Held
  <1>3. ReaderInv' /\ RecvQueueInv'
    BY <1>1 DEF WriteToAck, writerVars, IInv, ReaderInv, RecvQueueInv, Numbered
  <1>4. AckInv'
    <2>1. Held(ln)'
      BY DEF WriteToAck, Held
    <2>2. ackCh' = Append(ackCh, ln) /\ ackCh \in Seq(Messages)
      BY DEF WriteToAck, TypeInv, TypeOK
    <2>3. \A i \in 1 .. Len(ackCh') : ackCh'[i] \in Numbered /\ (ackCh'[i] = ln \/ Held(ackCh'[i]))
      BY <1>1, <2>2 DEF IInv, AckInv
    <2>4. ASSUME NEW i \in 1 .. Len(ackCh')
          PROVE  \E m \in Numbered : ackCh'[i] = m /\ Held(m)'
      <3>1. PICK m \in Numbered : ackCh'[i] = m /\ (m = ln \/ Held(m))
        BY <2>3
      <3>2. Held(m)'
        <4>1. CASE m = ln
          BY <4>1 DEF WriteToAck, Held
        <4>2. CASE Held(m)
          BY <1>2, <4>2
        <4> QED
          BY <3>1, <4>1, <4>2
      <3> QED
        BY <3>1, <3>2
    <2>5. \A m \in acks' : Held(m)'
      BY <1>2, ReadingStep DEF WriteToAck
    <2> QED
      BY <2>4, <2>5 DEF WriteToAck, writerVars, AckInv, Numbered, Held
  <1> QED
    BY <1>2, <1>3, <1>4, ReadingStep DEF WriteToAck, IInv

LEMMA ServeOldStep ==
  ASSUME HalfWindow, TypeInv, IInv, ServeOld PROVE IInv'
  <1>1. Expected' = Expected /\ Expected \in Nat
    BY ExpectedType DEF ServeOld, Expected
  <1>2. ln < Expected
    BY <1>1, ServeDistance, NumberedType DEF ServeOld
  <1>3. \A m \in Numbered : Held(m) => Held(m)'
    BY <1>1, <1>2 DEF ServeOld, writerVars, Held
  <1>4. ReaderInv' /\ RecvQueueInv'
    BY <1>1 DEF ServeOld, writerVars, IInv, ReaderInv, RecvQueueInv, Numbered
  <1>5. AckInv'
    BY <1>3, ReadingStep DEF ServeOld, writerVars, IInv, AckInv, Numbered
  <1> QED
    BY <1>3, <1>4, <1>5, ReadingStep DEF ServeOld, IInv

LEMMA ServeEarlyStep ==
  ASSUME HalfWindow, TypeInv, IInv, ServeEarly PROVE IInv'
  <1>1. Expected' = Expected /\ Expected \in Nat
    BY ExpectedType DEF ServeEarly, Expected
  <1>2. /\ ln \in Numbered /\ ln \in Nat /\ Expected < ln /\ ln < Expected + Window
        /\ pid[ln] \in IDs /\ ln \in Messages
    BY <1>1, ServeDistance, NumberedType DEF ServeEarly, TypeInv, TypeOK
  <1>3. recvQueue' = IF recvQueue[pid[ln]] = None
                     THEN [recvQueue EXCEPT ![pid[ln]] = ln] ELSE recvQueue
    BY DEF ServeEarly
  <1>4. recvQueue'[pid[ln]] = ln
    <2>1. CASE recvQueue[pid[ln]] = None
      BY <1>2, <1>3, <2>1 DEF TypeInv, TypeOK
    <2>2. CASE recvQueue[pid[ln]] # None
      BY <1>1, <1>2, <1>3, <2>2, QueuedUnderID DEF ServeEarly
    <2> QED
      BY <2>1, <2>2
  <1>5. \A m \in Numbered : Held(m) => Held(m)'
    <2> SUFFICES ASSUME NEW m \in Numbered, Held(m) PROVE Held(m)'
      OBVIOUS
    <2>1. CASE m < Expected
      BY <1>1, <2>1 DEF Held
    <2>2. CASE m = ln
      BY <1>4, <2>2 DEF ServeEarly, writerVars, Held
    <2>3. CASE recvQueue[pid[m]] = m /\ m # ln
      <3>1. m # None
        BY NumberedType DEF None
      <3>2. pid[m] \in IDs
        BY NumberedType DEF TypeInv, TypeOK
      <3>3. recvQueue'[pid[m]] = m
        BY <1>2, <1>3, <2>3, <3>1, <3>2 DEF TypeInv, TypeOK
      <3> QED
        BY <3>3 DEF ServeEarly, writerVars, Held
    <2> QED
      BY <2>1, <2>2, <2>3 DEF Held
  <1>6. ReaderInv'
    BY <1>1 DEF ServeEarly, writerVars, IInv, ReaderInv, Numbered
  <1>7. RecvQueueInv'
    <2> SUFFICES ASSUME NEW i \in IDs, recvQueue'[i] # None
                 PROVE  /\ recvQueue'[i] \in Numbered
                        /\ pid[recvQueue'[i]] = i
                        /\ recvQueue'[i] < Expected + Window
                        /\ Expected < recvQueue'[i]
      BY <1>1 DEF ServeEarly, writerVars, RecvQueueInv, Numbered
    <2>1. CASE i = pid[ln]
      BY <1>2, <1>4, <2>1
    <2>2. CASE i # pid[ln]
      <3>1. recvQueue'[i] = recvQueue[i]
        BY <1>3, <2>2 DEF TypeInv, TypeOK
      <3>2. /\ recvQueue[i] \in Numbered /\ pid[recvQueue[i]] = i
            /\ recvQueue[i] < Expected + Window
            /\ Expected <= recvQueue[i] /\ recvQueue[i] # Expected
        BY <3>1 DEF ServeEarly, IInv, RecvQueueInv
      <3> QED
        BY <1>1, <3>1, <3>2, NumberedType
    <2> QED
      BY <2>1, <2>2
  <1>8. AckInv'
    BY <1>5, ReadingStep DEF ServeEarly, writerVars, IInv, AckInv, Numbered
  <1> QED
    BY <1>5, <1>6, <1>7, <1>8, ReadingStep DEF ServeEarly, IInv

LEMMA ServeExpectedStep ==
  ASSUME HalfWindow, TypeInv, IInv, ServeExpected PROVE IInv'
  <1>1. Expected' = Expected + 1 /\ Expected \in Nat /\ count \in Nat
    BY ExpectedType DEF ServeExpected, Expected, TypeInv, TypeOK
  <1>2. ln \in Numbered /\ ln = Expected /\ ln < count
    BY <1>1, ServeDistance, NumberedType DEF ServeExpected
  <1>3. \A m \in Numbered : Held(m) => Held(m)'
    BY <1>1, <1>2, NumberedType DEF ServeExpected, writerVars, Held
  <1>4. ReaderInv'
    <2>1. expectedID' = Expected' % PacketIDLimit
      BY <1>1, NextIDMod DEF ServeExpected, IInv, ReaderInv
    <2>2. Expected' <= count' /\ ln' = Expected' - 1
      BY <1>1, <1>2 DEF ServeExpected, writerVars
    <2> QED
      BY <2>1, <2>2 DEF ServeExpected, IInv, ReaderInv
  <1>5. RecvQueueInv'
    <2> SUFFICES ASSUME NEW i \in IDs, recvQueue[i] # None
                 PROVE  /\ recvQueue[i] \in Numbered
                        /\ pid[recvQueue[i]] = i
                        /\ recvQueue[i] < Expected' + Window
                        /\ Expected' <= recvQueue[i]
      BY DEF ServeExpected, writerVars, RecvQueueInv, Numbered
    <2>1. /\ recvQueue[i] \in Numbered /\ pid[recvQueue[i]] = i
          /\ recvQueue[i] < Expected + Window
          /\ Expected <= recvQueue[i] /\ recvQueue[i] # Expected
      BY DEF ServeExpected, IInv, RecvQueueInv
    <2> QED
      BY <1>1, <2>1, NumberedType, Sizes
  <1>6. AckInv'
    BY <1>3, ReadingStep DEF ServeExpected, writerVars, IInv, AckInv, Numbered
  <1> QED
    BY <1>3, <1>4, <1>5, <1>6, ReadingStep DEF ServeExpected, IInv

\* The packet process() finds under the expected id is the expected one, so
\* handing it over keeps the order.
LEMMA SendToReaderStep ==
  ASSUME HalfWindow, TypeInv, TypeInv', IInv, SendToReader PROVE IInv'
  <1> DEFINE queue == Processed(ln)
             next == queue[expectedID]
  <1>1. /\ Expected \in Nat /\ count \in Nat /\ Expected <= count
        /\ ln = Expected - 1 /\ ln \in Messages
        /\ expectedID \in IDs /\ pid[ln] \in IDs
        /\ expectedID = Expected % PacketIDLimit
    BY ExpectedType DEF SendToReader, IInv, ReaderInv, TypeInv, TypeOK
  <1>2. recvQueue' = queue /\ queue \in [IDs -> Messages \cup {None}]
    BY <1>1 DEF SendToReader, Processed, TypeInv, TypeOK
  <1>3. ASSUME NEW i \in IDs, queue[i] # None
        PROVE  /\ queue[i] = recvQueue[i]
               /\ queue[i] \in Numbered /\ queue[i] \in Nat /\ pid[queue[i]] = i
               /\ Expected <= queue[i] /\ queue[i] < Expected + Window
    <2>1. queue[i] = recvQueue[i] /\ (lq => i # pid[ln])
      BY <1>1, <1>3 DEF Processed, TypeInv, TypeOK
    <2>2. /\ recvQueue[i] \in Numbered /\ pid[recvQueue[i]] = i
          /\ recvQueue[i] < Expected + Window
          /\ \/ Expected <= recvQueue[i]
             \/ lq /\ ln = recvQueue[i]
      <3>1. recvQueue[i] # None
        BY <1>3, <2>1
      <3> QED
        BY <3>1 DEF IInv, RecvQueueInv
    <2> QED
      BY <2>1, <2>2, NumberedType
  <1>4. next # None => next = Expected /\ Expected < count
    <2> SUFFICES ASSUME next # None PROVE next = Expected /\ Expected < count
      OBVIOUS
    <2>1. /\ next \in Numbered /\ next \in Nat /\ pid[next] = expectedID
          /\ Expected <= next /\ next < Expected + Window
      BY <1>1, <1>3
    <2>2. next % PacketIDLimit = Expected % PacketIDLimit
      BY <1>1, <2>1 DEF IInv, CounterInv
    <2> HIDE DEF next
    <2>3. next = Expected
      <3>1. next - Expected < PacketIDLimit /\ Expected - next < PacketIDLimit
        BY <1>1, <2>1, Sizes
      <3> QED
        BY <1>1, <2>1, <2>2, <3>1, SameID
    <2> QED
      BY <2>1, <2>3, NumberedType
  <1> HIDE DEF queue
  <1>5. /\ received' = received /\ readerCh' = Append(readerCh, ln)
        /\ readerCh \in Seq(Messages) /\ received \in Seq(Messages)
        /\ UNCHANGED <<count, pid, acks, ackCh>>
        /\ lpc = "push"
    BY DEF SendToReader, writerVars, TypeInv, TypeOK
  <1>6. /\ next # None => /\ expectedID' = NextID(expectedID) /\ lpc' = "push"
                          /\ ln' = next /\ lq' = TRUE
                          /\ Expected' = Expected + 1
        /\ next = None => /\ expectedID' = expectedID /\ lpc' = "idle"
                          /\ Expected' = Expected
    <2>1. Len(readerCh') = Len(readerCh) + 1 /\ Len(readerCh) \in Nat /\ Len(received) \in Nat
      BY <1>5
    <2> QED
      BY <1>2, <1>5, <2>1, SMTT(15) DEF SendToReader, Expected
  <1> HIDE DEF next
  <1>7. Expected' \in Nat /\ Expected <= Expected'
    BY <1>1, <1>6
  <1>8. \A m \in Numbered : Held(m) => Held(m)'
    <2> SUFFICES ASSUME NEW m \in Numbered, Held(m) PROVE Held(m)'
      OBVIOUS
    <2>1. CASE m < Expected
      BY <1>1, <1>7, <2>1, NumberedType DEF Held
    <2>2. CASE recvQueue[pid[m]] = m /\ ~(m < Expected)
      <3>1. pid[m] \in IDs /\ m \in Nat /\ m # ln /\ m # None
        <4>1. m \in Nat /\ m \in Messages
          BY NumberedType
        <4> QED
          BY <1>1, <2>2, <4>1 DEF TypeInv, TypeOK, None
      <3>2. queue[pid[m]] = m
        <4>1. lq => pid[m] # pid[ln]
          <5>1. m \in Nat /\ m < Expected + Window
            BY <2>2, <3>1, NumberedType DEF IInv, RecvQueueInv
          <5>2. ln \in Nat /\ ln \in Numbered
            BY <1>1 DEF Messages, Numbered
          <5>3. pid[m] = m % PacketIDLimit /\ pid[ln] = ln % PacketIDLimit
            BY <5>2 DEF IInv, CounterInv
          <5>4. m - ln < PacketIDLimit /\ ln - m < PacketIDLimit
            BY <1>1, <2>2, <5>1, Sizes
          <5> QED
            BY <3>1, <5>1, <5>2, <5>3, <5>4, SameID
        <4> QED
          BY <1>1, <2>2, <3>1, <4>1 DEF Processed, queue, TypeInv, TypeOK
      <3> QED
        BY <1>2, <1>5, <3>2 DEF Held
    <2> QED
      BY <1>5, <2>1, <2>2 DEF Held
  <1>9. ReaderInv'
    <2>1. \A i \in 1 .. Len(readerCh') : readerCh'[i] = Len(received') + i - 1
      <3>1. ln = Len(received) + Len(readerCh)
        BY <1>1, <1>5 DEF Expected
      <3>2. \A i \in 1 .. Len(readerCh) : readerCh[i] = Len(received) + i - 1
        BY DEF IInv, ReaderInv
      <3>3. Len(received) \in Nat
        BY <1>5
      <3> QED
        BY <1>5, <3>1, <3>2, <3>3
    <2>2. /\ Expected' <= count' /\ expectedID' = Expected' % PacketIDLimit
          /\ lpc' = "push" => ln' = Expected' - 1
      <3>1. CASE next # None
        BY <1>1, <1>4, <1>5, <1>6, <3>1, NextIDMod
      <3>2. CASE next = None
        BY <1>1, <1>5, <1>6, <3>2
      <3> QED
        BY <3>1, <3>2
    <2>3. lpc' # "ack" /\ lpc' # "store"
      BY <1>6
    <2> QED
      BY <1>5, <2>1, <2>2, <2>3 DEF IInv, ReaderInv
  <1>10. RecvQueueInv'
    <2> SUFFICES ASSUME NEW i \in IDs, queue[i] # None
                 PROVE  /\ queue[i] \in Numbered
                        /\ pid[queue[i]] = i
                        /\ queue[i] < Expected' + Window
                        /\ \/ Expected' <= queue[i] /\ (lpc' # "push" => queue[i] # Expected')
                           \/ lpc' = "push" /\ lq' /\ ln' = queue[i]
      BY <1>2, <1>5 DEF RecvQueueInv, Numbered
    <2>1. /\ queue[i] \in Numbered /\ queue[i] \in Nat /\ pid[queue[i]] = i
          /\ Expected <= queue[i] /\ queue[i] < Expected + Window
      BY <1>3
    <2>2. CASE next # None
      <3>1. Expected' = Expected + 1 /\ lpc' = "push" /\ lq' /\ ln' = Expected
        BY <1>4, <1>6, <2>2
      <3>2. queue[i] < Expected' + Window
        BY <1>1, <2>1, <3>1, Sizes
      <3>3. Expected' <= queue[i] \/ ln' = queue[i]
        BY <1>1, <2>1, <3>1
      <3> QED
        BY <2>1, <3>1, <3>2, <3>3
    <2>3. CASE next = None
      <3>1. queue[i] # Expected
        <4> SUFFICES ASSUME queue[i] = Expected PROVE FALSE
          OBVIOUS
        <4>1. i = expectedID
          BY <1>1, <2>1 DEF IInv, CounterInv
        <4> QED
          BY <2>3, <4>1 DEF next
      <3> QED
        BY <1>6, <2>1, <2>3, <3>1, Sizes
    <2> QED
      BY <2>2, <2>3
  <1>11. AckInv'
    BY <1>5, <1>8, ReadingStep DEF SendToReader, IInv, AckInv, Numbered
  <1> QED
    BY <1>8, <1>9, <1>10, <1>11, ReadingStep DEF SendToReader, IInv

LEMMA TransmitAckStep ==
  ASSUME TypeInv, IInv, TransmitAck PROVE IInv'
  <1>1. ackCh \in Seq(Messages) /\ ackCh # << >>
    BY DEF TransmitAck, TypeInv, TypeOK
  <1>2. Head(ackCh) \in Numbered /\ Held(Head(ackCh))
    BY <1>1 DEF IInv, AckInv
  <1>3. Expected' = Expected /\ Numbered' = Numbered
    BY DEF TransmitAck, writerVars, Expected, Numbered
  <1>4. ASSUME NEW m PROVE Held(m)' <=> Held(m)
    BY <1>3 DEF TransmitAck, writerVars, Held
  <1>5. Outstanding' = Outstanding
    BY DEF TransmitAck, writerVars, queueVars, Outstanding
  <1>6. CounterInv' /\ IndexInv' /\ ReaderInv' /\ RecvQueueInv'
    BY <1>3 DEF TransmitAck, writerVars, queueVars, IInv, CounterInv, IndexInv,
       ReaderInv, RecvQueueInv
  <1>7. SenderInv'
    BY <1>2, <1>3, <1>5 DEF TransmitAck, writerVars, queueVars, IInv, SenderInv, Fresh
  <1>8. AckInv'
    <2>1. \A i \in 1 .. Len(ackCh') : ackCh'[i] \in Numbered /\ Held(ackCh'[i])
      BY <1>1 DEF TransmitAck, IInv, AckInv
    <2>2. \A n \in acks' : Held(n)
      BY <1>2 DEF TransmitAck, IInv, AckInv
    <2> QED
      BY <1>3, <1>4, <2>1, <2>2 DEF AckInv
  <1>9. NoLoss'
    BY <1>4, <1>5 DEF TransmitAck, writerVars, IInv, NoLoss
  <1> QED
    BY <1>6, <1>7, <1>8, <1>9 DEF IInv

LEMMA ReaderProccessStep ==
  ASSUME TypeInv, IInv, ReaderProccess PROVE IInv'
  <1>1. /\ readerCh \in Seq(Messages) /\ received \in Seq(Messages) /\ readerCh # << >>
        /\ received' = Append(received, Head(readerCh)) /\ readerCh' = Tail(readerCh)
        /\ UNCHANGED <<writerVars, queueVars, net, acks,
                       expectedID, recvQueue, lpc, ln, lq, ackCh>>
    BY DEF ReaderProccess, TypeInv, TypeOK
  <1>2. /\ Len(received') = Len(received) + 1 /\ Len(readerCh') = Len(readerCh) - 1
        /\ Len(received) \in Nat /\ Len(readerCh) \in Nat
    BY <1>1
  <1>3. Expected' = Expected
    BY <1>1, <1>2 DEF Expected
  <1>4. \A m \in Numbered : Held(m) => Held(m)'
    BY <1>1, <1>3 DEF writerVars, Held
  <1>5. ReaderInv'
    <2>1. Head(readerCh) = Len(received)
      BY <1>1 DEF IInv, ReaderInv
    <2>2. \A i \in 1 .. Len(received') : received'[i] = i - 1
      BY <1>1, <2>1 DEF IInv, ReaderInv
    <2>3. \A i \in 1 .. Len(readerCh') : readerCh'[i] = Len(received') + i - 1
      BY <1>1, <1>2 DEF IInv, ReaderInv
    <2> QED
      BY <1>1, <1>3, <2>2, <2>3 DEF writerVars, IInv, ReaderInv, Numbered
  <1>6. RecvQueueInv'
    BY <1>1, <1>3 DEF writerVars, IInv, RecvQueueInv, Numbered
  <1>7. AckInv'
    BY <1>1, <1>4, ReadingStep DEF writerVars, IInv, AckInv, Numbered
  <1> QED
    BY <1>1, <1>4, <1>5, <1>6, <1>7, ReadingStep DEF IInv

-----------------------------------------------------------------------------
(***************************************************************************)
(* Theorems.                                                               *)
(***************************************************************************)

\* Variables, queues and channels of both ends keep their types, and senderCh,
\* readerCh their capacity, whatever the writers and the network do.
THEOREM TypeCorrect == Spec => []TypeOK
  <1>1. TypeInv => TypeOK
    BY DEF TypeInv
  <1> QED
    BY <1>1, TypeInit, TypeStep, PTL DEF Spec

THEOREM TypeInvariant == Spec => []TypeInv
  BY TypeInit, TypeStep, PTL DEF Spec

\* Every step keeps the inductive invariant.
LEMMA IInvStep ==
  ASSUME HalfWindow PROVE TypeInv /\ TypeInv' /\ IInv /\ [Next]_vars => IInv'
  <1> SUFFICES ASSUME TypeInv, TypeInv', IInv, [Next]_vars PROVE IInv'
    OBVIOUS
  <1>1. ASSUME NEW w \in Writers, WriterNext(w) PROVE IInv'
    BY <1>1, WriteToStep, NewIDStep, AddStep, WriteToSenderStep DEF WriterNext
  <1>2. CASE SenderProccess
    BY <1>2, SenderProccessStep
  <1>3. CASE RetransmitNext
    BY <1>3, RetransmitStep, ResendStep, GiveUpStep DEF RetransmitNext
  <1>4. ASSUME NEW n \in Messages, ReceiveAck(n) PROVE IInv'
    BY <1>4, ReceiveAckStep
  <1>5. CASE ListenNext
    BY <1>5, ReceiveDataStep, WriteToAckStep, ServeOldStep, ServeEarlyStep,
       ServeExpectedStep, SendToReaderStep DEF ListenNext
  <1>6. CASE TransmitAck
    BY <1>6, TransmitAckStep
  <1>7. CASE ReaderProccess
    BY <1>7, ReaderProccessStep
  <1>8. CASE UNCHANGED vars
    <2> USE <1>8 DEF vars, writerVars, queueVars, readerVars
    <2>1. /\ Expected' = Expected /\ Outstanding' = Outstanding /\ Numbered' = Numbered
          /\ \A n : Held(n)' <=> Held(n)
      BY DEF Expected, Outstanding, Numbered, Held
    <2>2. CounterInv' /\ SenderInv' /\ IndexInv' /\ ReaderInv' /\ RecvQueueInv'
      BY <2>1 DEF IInv, CounterInv, SenderInv, IndexInv, ReaderInv, RecvQueueInv
    <2>3. AckInv' /\ NoLoss'
      BY <2>1 DEF IInv, AckInv, NoLoss
    <2> QED
      BY <2>2, <2>3 DEF IInv
  <1> QED
    BY <1>1, <1>2, <1>3, <1>4, <1>5, <1>6, <1>7, <1>8 DEF Next

THEOREM Invariant == ASSUME HalfWindow PROVE Spec => []IInv
  <1>1. TypeInv /\ TypeInv' /\ IInv /\ [Next]_vars => IInv'
    BY IInvStep
  <1> QED
    BY <1>1, IInvInit, TypeInvariant, PTL DEF Spec

\* The reader callback gets every packet in order and once, for any number of
\* ids and packets, if the window and the life of a datagram are at most half
\* of the ids.
THEOREM Ordered == ASSUME HalfWindow PROVE Spec => []InOrder
  <1>1. IInv => InOrder
    BY DEF IInv, ReaderInv, InOrder
  <1> QED
    BY <1>1, Invariant, PTL

\* Under the same condition, the send queue lets go only of packets that the
\* receiver holds.
THEOREM NothingLost == ASSUME HalfWindow PROVE Spec => []NoLoss
  <1>1. IInv => NoLoss
    BY DEF IInv
  <1> QED
    BY <1>1, Invariant, PTL

\* Under the same condition, the receive queue has no stale packet.
THEOREM NothingStale == ASSUME HalfWindow PROVE Spec => []ReceiveQueueAhead
  <1>1. TypeInv /\ IInv => ReceiveQueueAhead
    <2> SUFFICES ASSUME TypeInv, IInv, NEW i \in IDs, recvQueue[i] # None
                 PROVE  /\ pid[recvQueue[i]] = i
                        /\ \/ recvQueue[i] >= Expected
                           \/ lpc = "push" /\ lq /\ ln = recvQueue[i]
      BY DEF ReceiveQueueAhead
    <2>1. recvQueue[i] \in Nat /\ Expected \in Nat
      BY ExpectedType, NumberedType DEF IInv, RecvQueueInv
    <2> QED
      BY <2>1 DEF IInv, RecvQueueInv
  <1> QED
    BY <1>1, Invariant, TypeInvariant, PTL

\* Under the same condition, an ack finds exactly the packets that are still
\* to be retransmitted.
THEOREM IndexAgrees == ASSUME HalfWindow PROVE Spec => []IndexMatchesQueue
  <1>1. TypeInv /\ IInv => IndexMatchesQueue
    <2> SUFFICES ASSUME TypeInv, IInv, NEW n \in Messages
                 PROVE  n \in sendQueue <=> \E i \in IDs : index[i] = n
      BY DEF IndexMatchesQueue
    <2>1. n # None
      BY DEF Messages, None
    <2>2. n \in sendQueue => pid[n] \in IDs /\ index[pid[n]] = n
      BY DEF IInv, IndexInv, TypeInv, TypeOK
    <2>3. ASSUME NEW i \in IDs, index[i] = n PROVE n \in sendQueue
      BY <2>1, <2>3 DEF IInv, IndexInv
    <2> QED
      BY <2>2, <2>3
  <1> QED
    BY <1>1, Invariant, TypeInvariant, PTL

\* Under the same condition, a channel is a reliable FIFO: numbering a packet
\* accepts it, the reader callback delivers it, and no other step shows.
THEOREM Refinement == ASSUME HalfWindow PROVE Spec => ImplementsFifo
  <1>1. Init => Fifo!FifoInit
    BY DEF Init, Fifo!FifoInit
  <1>2. TypeInv /\ IInv /\ [Next]_vars => [Fifo!FifoNext]_Fifo!fifoVars
    <2> SUFFICES ASSUME TypeInv, IInv, [Next]_vars
                 PROVE  Fifo!FifoNext \/ UNCHANGED Fifo!fifoVars
      OBVIOUS
    <2> USE DEF Fifo!FifoNext, Fifo!Accept, Fifo!Deliver, Fifo!fifoVars,
                vars, writerVars, queueVars, readerVars
    <2>1. ASSUME NEW w \in Writers, WriterNext(w)
          PROVE  Fifo!FifoNext \/ UNCHANGED Fifo!fifoVars
      BY <2>1 DEF WriterNext, WriteTo, NewID, Add, WriteToSender
    <2>2. CASE ReaderProccess
      <3>1. readerCh \in Seq(Messages) /\ readerCh # << >> /\ Len(received) \in Nat
            /\ Len(readerCh) \in Nat
        BY <2>2 DEF ReaderProccess, TypeInv, TypeOK
      <3>2. Head(readerCh) = Len(received)
        BY <3>1 DEF IInv, ReaderInv
      <3>3. Len(received) < count
        BY <3>1, ExpectedType DEF IInv, ReaderInv, Expected
      <3> QED
        BY <2>2, <3>2, <3>3 DEF ReaderProccess
    <2>3. CASE SenderProccess
      BY <2>3 DEF SenderProccess
    <2>4. CASE RetransmitNext
      BY <2>4 DEF RetransmitNext, Retransmit, Resend, GiveUp
    <2>5. ASSUME NEW n \in Messages, ReceiveAck(n) PROVE UNCHANGED Fifo!fifoVars
      BY <2>5 DEF ReceiveAck
    <2>6. CASE ListenNext
      BY <2>6 DEF ListenNext, ReceiveData, WriteToAck, ServeOld, ServeEarly,
         ServeExpected, SendToReader
    <2>7. CASE TransmitAck
      BY <2>7 DEF TransmitAck
    <2>8. CASE UNCHANGED vars
      BY <2>8
    <2> QED
      BY <2>1, <2>2, <2>3, <2>4, <2>5, <2>6, <2>7, <2>8 DEF Next
  <1> QED
    BY <1>1, <1>2, Invariant, TypeInvariant, PTL DEF Spec, ImplementsFifo, Fifo!FifoSpec

=============================================================================
