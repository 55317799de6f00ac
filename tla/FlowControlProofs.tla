------------------------- MODULE FlowControlProofs --------------------------
(***************************************************************************)
(* Proofs about FlowControl, for any times, delays, writers and packets.   *)
(***************************************************************************)
EXTENDS FlowControl, SequenceTheorems, TLAPS

\* A packet is once in the send queue.
Distinct == \A i, j \in DOMAIN queue : queue[i] = queue[j] => i = j

\* A packet that is overdue became so after the last pass of the timer.
OverdueInv == ~destroyed => \A p \in Queued : since[p] <= rtt[p] + timer

\* The last copy of a packet is the youngest.
CopiesInv == \A p \in Queued : \A age \in copies[p] : since[p] <= age

\* On a steady network without losses a packet is acked before it is due.
SteadyInv ==
    ~lossy /\ Steady =>
        /\ tripTimeMidle # 0 => tripTimeMidle >= TripMin
        /\ \A p \in Queued : attempts[p] = 0 /\ copies[p] = {since[p]} /\ rtt[p] >= TripMax

\* The one writer there is computes from the delay that is stored.
FloorInv ==
    exclusive =>
        /\ sendDelay >= MinSendDelay
        /\ \A w \in Writers : wpc[w] = "read" => chSendDelay[w] = sendDelay
        /\ \A w \in Writers : wpc[w] = "store" => chSendDelay[w] >= MinSendDelay
        /\ \A v, w \in Writers : wpc[v] # "idle" /\ wpc[w] # "idle" => v = w

IInv ==
    /\ TypeOK /\ Distinct
    /\ OverdueInv /\ CopiesInv /\ tripTimeMidle <= TripMax
    /\ SteadyInv /\ FloorInv

LEMMA InitIInv == Init => IInv
  <1> SUFFICES ASSUME Init PROVE IInv
    OBVIOUS
  <1> USE FlowControlAssumption DEF Init
  <1>1. queue \in Seq(Packets) /\ Queued = {} /\ DOMAIN queue = {}
    BY DEF Queued, ToSet
  <1>2. TypeOK
    <2>1. /\ attempts \in [Packets -> 0 .. MaxRetransmitAttempts]
          /\ since \in [Packets -> Nat]
          /\ rtt \in [Packets -> 0 .. MaxRTT]
          /\ copies \in [Packets -> SUBSET (0 .. TripMax)]
      OBVIOUS
    <2>2. /\ wpc \in [Writers -> {"idle", "looked", "read", "store", "send"}]
          /\ resent \in [Writers -> BOOLEAN]
          /\ chSendDelay \in [Writers -> Int]
      OBVIOUS
    <2>3. timer \in 0 .. RetransmitEvery + Jitter /\ check \in 0 .. DelayCheckEvery + 1
      OBVIOUS
    <2> QED
      BY <1>1, <2>1, <2>2, <2>3 DEF TypeOK
  <1>3. Distinct /\ OverdueInv /\ CopiesInv /\ SteadyInv
    BY <1>1 DEF Distinct, OverdueInv, CopiesInv, SteadyInv
  <1>4. FloorInv /\ tripTimeMidle <= TripMax
    BY DEF FloorInv
  <1> QED
    BY <1>2, <1>3, <1>4 DEF IInv

\* What is computed keeps its range.
LEMMA RetransmitTimeRange ==
    ASSUME tripTimeMidle \in Nat, NEW tries \in Nat
    PROVE  /\ RetransmitTime(tries) \in 0 .. MaxRTT
           /\ Steady /\ (tripTimeMidle # 0 => tripTimeMidle >= TripMin)
                => RetransmitTime(0) >= TripMax
  <1> DEFINE base == IF tripTimeMidle = 0 THEN StartRTT ELSE MinRTT + tripTimeMidle
  <1>1. base \in Nat /\ tries + 1 \in Nat /\ MaxRTT \in Nat
    BY FlowControlAssumption
  <1>2. base * (tries + 1) \in Nat /\ base * (0 + 1) = base
    <2> HIDE DEF base
    <2>1. \A x, y \in Nat : x * y \in Nat
      OBVIOUS
    <2> QED
      BY <1>1, <2>1
  <1>3. Steady /\ (tripTimeMidle # 0 => tripTimeMidle >= TripMin) => base >= TripMax
    BY FlowControlAssumption DEF Steady
  <1>4. /\ RetransmitTime(tries) = Least(MaxRTT, base * (tries + 1))
        /\ RetransmitTime(0) = Least(MaxRTT, base * (0 + 1))
    BY DEF RetransmitTime
  <1>5. Steady => MaxRTT >= TripMax /\ TripMax \in Nat
    BY FlowControlAssumption DEF Steady
  <1> HIDE DEF base
  <1> QED
    BY <1>1, <1>2, <1>3, <1>4, <1>5 DEF Least

LEMMA MidleTripRange ==
    ASSUME tripTimeMidle \in Nat, tripTimeMidle <= TripMax,
           NEW tt \in Nat, tt <= TripMax
    PROVE  /\ MidleTrip(tt) \in Nat /\ MidleTrip(tt) <= TripMax
           /\ tt >= TripMin /\ (tripTimeMidle # 0 => tripTimeMidle >= TripMin)
                => MidleTrip(tt) >= TripMin
  BY FlowControlAssumption DEF MidleTrip

LEMMA NewDelayRange ==
    ASSUME NEW copy \in Int, NEW now \in Int, NEW again \in BOOLEAN
    PROVE  /\ NewDelay(copy, now, again) \in Int
           /\ copy = now /\ now >= MinSendDelay => NewDelay(copy, now, again) >= MinSendDelay
  BY FlowControlAssumption DEF NewDelay

\* The writers' own steps.
LEMMA DelayStep ==
    ASSUME IInv, NEW w \in Writers,
           \/ GetRetransmitAttempts(w) \/ GetSendDelay(w) \/ CheckDelay(w) \/ SetSendDelay(w)
    PROVE  IInv'
  <1>1. UNCHANGED <<envVars, packetVars, tripTimeMidle, timer, destroyed>>
    BY DEF GetRetransmitAttempts, GetSendDelay, CheckDelay, SetSendDelay
  <1>2. /\ Distinct' /\ OverdueInv' /\ CopiesInv' /\ SteadyInv'
        /\ (tripTimeMidle <= TripMax)'
    BY <1>1 DEF IInv, Distinct, OverdueInv, CopiesInv, SteadyInv, Steady, Queued,
                envVars, packetVars
  <1>3. TypeOK' /\ FloorInv'
    <2> USE FlowControlAssumption DEF IInv, TypeOK, FloorInv
    <2>1. CASE GetRetransmitAttempts(w)
      <3>1. resent' \in [Writers -> BOOLEAN]
        BY <2>1 DEF GetRetransmitAttempts
      <3>2. wpc' \in [Writers -> {"idle", "looked", "read", "store", "send"}]
        BY <2>1 DEF GetRetransmitAttempts
      <3> QED
        BY <1>1, <2>1, <3>1, <3>2 DEF GetRetransmitAttempts, envVars, packetVars
    <2>2. CASE GetSendDelay(w)
      BY <1>1, <2>2 DEF GetSendDelay, envVars, packetVars
    <2>3. CASE CheckDelay(w)
      <3>1. CASE check > DelayCheckEvery
        <4>1. /\ chSendDelay' = [chSendDelay EXCEPT
                      ![w] = NewDelay(chSendDelay[w], sendDelay, resent[w])]
              /\ wpc' = [wpc EXCEPT ![w] = "store"]
              /\ wpc[w] = "read" /\ UNCHANGED <<check, sendDelay, resent>>
          BY <2>3, <3>1 DEF CheckDelay
        <4>2. /\ NewDelay(chSendDelay[w], sendDelay, resent[w]) \in Int
              /\ exclusive => NewDelay(chSendDelay[w], sendDelay, resent[w]) >= MinSendDelay
          BY <4>1, NewDelayRange
        <4>3. /\ chSendDelay' \in [Writers -> Int]
              /\ wpc' \in [Writers -> {"idle", "looked", "read", "store", "send"}]
              /\ \A v \in Writers : v # w => wpc'[v] = wpc[v] /\ chSendDelay'[v] = chSendDelay[v]
              /\ wpc'[w] = "store" /\ wpc[w] = "read"
              /\ exclusive => chSendDelay'[w] >= MinSendDelay
          BY <4>1, <4>2
        <4>4. TypeOK'
          BY <1>1, <4>1, <4>3 DEF envVars, packetVars
        <4>5. FloorInv'
          <5> SUFFICES ASSUME exclusive PROVE FloorInv'
            BY <1>1 DEF envVars
          <5>1. \A v \in Writers : v # w => wpc[v] = "idle"
            BY <4>3
          <5>2. \A v \in Writers : v # w => wpc'[v] = "idle"
            BY <4>3, <5>1
          <5>3. sendDelay' >= MinSendDelay
            BY <4>1
          <5> QED
            BY <4>3, <5>2, <5>3 DEF FloorInv
        <4> QED
          BY <4>4, <4>5
      <3>2. CASE ~(check > DelayCheckEvery)
        <4>1. /\ wpc' = [wpc EXCEPT ![w] = "send"]
              /\ UNCHANGED <<chSendDelay, check, sendDelay, resent>>
          BY <2>3, <3>2 DEF CheckDelay
        <4>2. /\ wpc' \in [Writers -> {"idle", "looked", "read", "store", "send"}]
              /\ wpc'[w] = "send" /\ wpc[w] # "idle"
              /\ \A v \in Writers : v # w => wpc'[v] = wpc[v]
          BY <2>3, <4>1 DEF CheckDelay
        <4>3. TypeOK'
          BY <1>1, <4>1, <4>2 DEF envVars, packetVars
        <4>4. FloorInv'
          BY <1>1, <4>1, <4>2 DEF envVars
        <4> QED
          BY <4>3, <4>4
      <3> QED
        BY <3>1, <3>2
    <2>4. CASE SetSendDelay(w)
      BY <1>1, <2>4 DEF SetSendDelay, envVars, packetVars
    <2> QED
      BY <2>1, <2>2, <2>3, <2>4
  <1> QED
    BY <1>2, <1>3 DEF IInv

\* A packet that is written.
LEMMA AddStep ==
    ASSUME IInv, NEW w \in Writers, NEW p \in Packets, Add(w, p)
    PROVE  IInv'
  <1> USE FlowControlAssumption DEF IInv
  <1>1. /\ RetransmitTime(0) \in 0 .. MaxRTT
        /\ ~lossy /\ Steady => RetransmitTime(0) >= TripMax
    BY RetransmitTimeRange DEF TypeOK, SteadyInv
  <1>2. queue' \in Seq(Packets) /\ Queued' = Queued \cup {p} /\ Distinct'
    <2>1. queue \in Seq(Packets) /\ queue' = Append(queue, p)
      BY DEF Add, TypeOK
    <2>2. /\ queue' \in Seq(Packets) /\ Len(queue') = Len(queue) + 1
          /\ \A i \in 1 .. Len(queue) : queue'[i] = queue[i]
          /\ queue'[Len(queue) + 1] = p
      BY <2>1
    <2>3. \A i \in 1 .. Len(queue) : queue[i] # p
      BY <2>1 DEF Add, Queued, ToSet
    <2>4. DOMAIN queue = 1 .. Len(queue) /\ DOMAIN queue' = 1 .. Len(queue) + 1
      BY <2>1, <2>2
    <2>5. Distinct'
      BY <2>1, <2>2, <2>3, <2>4 DEF Distinct
    <2>6. Queued' = Queued \cup {p}
      BY <2>1, <2>2, <2>4 DEF Queued, ToSet
    <2> QED
      BY <2>2, <2>5, <2>6
  <1>3. TypeOK'
    <2>1. /\ attempts' \in [Packets -> 0 .. MaxRetransmitAttempts]
          /\ since' \in [Packets -> Nat]
          /\ rtt' \in [Packets -> 0 .. MaxRTT]
          /\ copies' \in [Packets -> SUBSET (0 .. TripMax)]
      BY <1>1 DEF Add, TypeOK
    <2>2. /\ wpc' \in [Writers -> {"idle", "looked", "read", "store", "send"}]
          /\ resent' \in [Writers -> BOOLEAN]
          /\ chSendDelay' \in [Writers -> Int]
      BY DEF Add, TypeOK
    <2> QED
      BY <1>2, <2>1, <2>2 DEF Add, TypeOK, envVars
  <1>4. /\ since' = [since EXCEPT ![p] = 0] /\ copies' = [copies EXCEPT ![p] = {0}]
        /\ attempts' = [attempts EXCEPT ![p] = 0]
        /\ rtt' = [rtt EXCEPT ![p] = RetransmitTime(0)]
        /\ UNCHANGED <<lossy, exclusive, tripTimeMidle, timer, destroyed, sendDelay>>
    BY DEF Add, envVars
  <1>5. OverdueInv'
    BY <1>1, <1>2, <1>4 DEF OverdueInv, TypeOK
  <1>6. CopiesInv' /\ (tripTimeMidle <= TripMax)'
    BY <1>2, <1>4 DEF CopiesInv, TypeOK
  <1>7. SteadyInv'
    BY <1>1, <1>2, <1>4 DEF SteadyInv, TypeOK, Steady
  <1>8. FloorInv'
    BY <1>4 DEF FloorInv, Add, TypeOK
  <1> QED
    BY <1>2, <1>3, <1>5, <1>6, <1>7, <1>8

\* A pass of the timer.
LEMMA RetransmitStep ==
    ASSUME IInv, Retransmit
    PROVE  IInv'
  <1> USE FlowControlAssumption DEF IInv
  <1>1. UNCHANGED <<envVars, queue, tripTimeMidle, check, delayVars>> /\ Queued' = Queued
    BY DEF Retransmit, packetVars, Queued, ToSet
  <1>2. Distinct' /\ FloorInv' /\ (tripTimeMidle <= TripMax)'
    BY <1>1 DEF Distinct, FloorInv, envVars, delayVars
  <1>3. CASE destroyed'
    <2>1. UNCHANGED <<packetVars, timer>> /\ destroyed' = TRUE
      BY <1>3 DEF Retransmit
    <2> QED
      BY <1>1, <1>2, <2>1
         DEF TypeOK, OverdueInv, CopiesInv, SteadyInv, Steady, packetVars, envVars, delayVars
  <1>4. CASE ~destroyed'
    <2> DEFINE again == [p \in Packets |-> RetransmitTime(attempts[p] + 1)]
    <2>1. /\ ~destroyed
          /\ \A p \in Due : attempts[p] # MaxRetransmitAttempts
          /\ attempts' = [p \in Packets |-> IF p \in Due THEN attempts[p] + 1 ELSE attempts[p]]
          /\ since' = [p \in Packets |-> IF p \in Due THEN 0 ELSE since[p]]
          /\ rtt' = [p \in Packets |-> IF p \in Due THEN again[p] ELSE rtt[p]]
          /\ copies' = [p \in Packets |-> IF p \in Due THEN copies[p] \cup {0} ELSE copies[p]]
          /\ timer' = 0
      BY <1>4 DEF Retransmit
    <2>2. \A p \in Packets : again[p] \in 0 .. MaxRTT
      <3> SUFFICES ASSUME NEW p \in Packets PROVE RetransmitTime(attempts[p] + 1) \in 0 .. MaxRTT
        OBVIOUS
      <3>1. attempts[p] + 1 \in Nat /\ tripTimeMidle \in Nat
        BY DEF TypeOK
      <3> QED
        BY <3>1, RetransmitTimeRange
    <2> HIDE DEF again
    <2>3. TypeOK'
      <3>1. attempts' \in [Packets -> 0 .. MaxRetransmitAttempts]
        BY <2>1 DEF TypeOK
      <3>2. since' \in [Packets -> Nat] /\ rtt' \in [Packets -> 0 .. MaxRTT]
        BY <2>1, <2>2 DEF TypeOK
      <3>3. copies' \in [Packets -> SUBSET (0 .. TripMax)]
        BY <2>1 DEF TypeOK
      <3>4. timer' \in 0 .. RetransmitEvery + Jitter
        BY <2>1
      <3>5. destroyed' \in BOOLEAN
        BY <1>4 DEF Retransmit, TypeOK
      <3> QED
        BY <1>1, <3>1, <3>2, <3>3, <3>4, <3>5 DEF TypeOK, envVars, delayVars
    <2>4. Due \subseteq Queued /\ Queued \subseteq Packets
      BY DEF Due, Queued, ToSet, TypeOK
    <2>5. OverdueInv'
      BY <1>1, <2>1, <2>2, <2>4 DEF OverdueInv, Due, TypeOK
    <2>6. CopiesInv'
      BY <1>1, <2>1, <2>4 DEF CopiesInv, TypeOK
    <2>7. ~lossy /\ Steady => Due = {}
      <3> SUFFICES ASSUME ~lossy, Steady, NEW p \in Due PROVE FALSE
        OBVIOUS
      <3>1. since[p] \in copies[p] /\ rtt[p] >= TripMax
        BY <2>4 DEF SteadyInv
      <3>2. p \in Packets /\ since[p] \in Nat /\ rtt[p] \in Nat /\ since[p] > rtt[p]
        BY <2>4 DEF TypeOK, Due
      <3>3. since[p] <= TripMax /\ TripMax \in Nat
        BY <3>1, <3>2 DEF TypeOK
      <3> QED
        BY <3>1, <3>2, <3>3
    <2>8. SteadyInv'
      BY <1>1, <2>1, <2>4, <2>7 DEF SteadyInv, Steady, envVars
    <2> QED
      BY <1>2, <2>3, <2>5, <2>6, <2>8
  <1> QED
    BY <1>3, <1>4
\* An element that was once in a sequence is not in it after it is removed.
LEMMA RemoveAtRange ==
    ASSUME NEW S, NEW s \in Seq(S), NEW i \in 1 .. Len(s),
           \A j, k \in 1 .. Len(s) : s[j] = s[k] => j = k
    PROVE  /\ RemoveAt(s, i) \in Seq(S)
           /\ ToSet(RemoveAt(s, i)) = ToSet(s) \ {s[i]}
           /\ \A j, k \in DOMAIN RemoveAt(s, i) :
                  RemoveAt(s, i)[j] = RemoveAt(s, i)[k] => j = k
  <1> DEFINE r == RemoveAt(s, i)
             n == Len(s)
  <1>1. r = SubSeq(s, 1, i - 1) \o SubSeq(s, i + 1, n) /\ n \in Nat
    BY DEF RemoveAt
  <1>2. /\ r \in Seq(S) /\ Len(r) = n - 1
        /\ \A j \in 1 .. i - 1 : r[j] = s[j]
        /\ \A j \in i .. n - 1 : r[j] = s[j + 1]
    <2> DEFINE a == SubSeq(s, 1, i - 1)
               b == SubSeq(s, i + 1, n)
    <2>1. /\ a \in Seq(S) /\ Len(a) = i - 1
          /\ \A j \in 1 .. i - 1 : a[j] = s[j]
      BY <1>1, SubSeqProperties
    <2>2. /\ b \in Seq(S) /\ Len(b) = n - i
          /\ \A j \in 1 .. n - i : b[j] = s[i + j]
      BY <1>1, SubSeqProperties
    <2> HIDE DEF a, b
    <2>3. /\ a \o b \in Seq(S) /\ Len(a \o b) = n - 1
          /\ \A j \in 1 .. n - 1 : (a \o b)[j] = IF j <= i - 1 THEN a[j] ELSE b[j - (i - 1)]
      <3>1. Len(a) + Len(b) = n - 1
        BY <1>1, <2>1, <2>2
      <3>2. a \in Seq(S) /\ b \in Seq(S)
        BY <2>1, <2>2
      <3>3. /\ a \o b \in Seq(S) /\ Len(a \o b) = Len(a) + Len(b)
            /\ \A j \in 1 .. Len(a) + Len(b) :
                   (a \o b)[j] = IF j <= Len(a) THEN a[j] ELSE b[j - Len(a)]
        BY <3>2, ConcatProperties
      <3> QED
        BY <2>1, <3>1, <3>3
    <2>4. \A j \in i .. n - 1 : j - (i - 1) \in 1 .. n - i /\ i + (j - (i - 1)) = j + 1
      BY <1>1
    <2>5. r = a \o b
      BY <1>1 DEF a, b
    <2> HIDE DEF r
    <2>6. ASSUME NEW j \in 1 .. i - 1 PROVE r[j] = s[j]
      <3>1. j \in 1 .. n - 1 /\ j <= i - 1
        BY <1>1
      <3>2. r[j] = a[j]
        BY <2>3, <2>5, <3>1
      <3> QED
        BY <2>1, <3>2
    <2>7. ASSUME NEW j \in i .. n - 1 PROVE r[j] = s[j + 1]
      <3>1. j \in 1 .. n - 1 /\ ~(j <= i - 1)
        BY <1>1
      <3>2. r[j] = b[j - (i - 1)]
        BY <2>3, <2>5, <3>1
      <3> QED
        BY <2>2, <2>4, <3>2
    <2> QED
      BY <2>3, <2>5, <2>6, <2>7
  <1> HIDE DEF r
  <1>3. DOMAIN r = 1 .. n - 1 /\ DOMAIN s = 1 .. n
    BY <1>2, LenProperties
  <1> DEFINE at(m) == IF m < i THEN m ELSE m + 1
  <1>4. \A m \in 1 .. n - 1 : at(m) \in 1 .. n /\ at(m) # i /\ r[m] = s[at(m)]
    <2> SUFFICES ASSUME NEW m \in 1 .. n - 1
                 PROVE  at(m) \in 1 .. n /\ at(m) # i /\ r[m] = s[at(m)]
      OBVIOUS
    <2>1. CASE m < i
      <3>1. m \in 1 .. i - 1 /\ at(m) = m /\ m \in 1 .. n /\ m # i
        BY <1>1, <2>1
      <3> QED
        BY <1>2, <3>1
    <2>2. CASE m >= i
      <3>1. m \in i .. n - 1 /\ at(m) = m + 1 /\ m + 1 \in 1 .. n /\ m + 1 # i
        BY <1>1, <2>2
      <3> QED
        BY <1>2, <3>1
    <2>3. m < i \/ m >= i
      BY <1>1
    <2> HIDE DEF at
    <2> QED
      BY <2>1, <2>2, <2>3
  <1>5. ToSet(r) \subseteq ToSet(s) \ {s[i]}
    BY <1>3, <1>4 DEF ToSet
  <1>6. ToSet(s) \ {s[i]} \subseteq ToSet(r)
    <2> SUFFICES ASSUME NEW j \in 1 .. n, j # i PROVE s[j] \in ToSet(r)
      BY <1>3 DEF ToSet
    <2> DEFINE m == IF j < i THEN j ELSE j - 1
    <2>1. m \in 1 .. n - 1 /\ at(m) = j
      BY <1>1
    <2>2. r[m] = s[j]
      BY <1>4, <2>1
    <2> QED
      BY <1>3, <2>1, <2>2 DEF ToSet
  <1>7. \A j, k \in DOMAIN r : r[j] = r[k] => j = k
    <2> SUFFICES ASSUME NEW j \in 1 .. n - 1, NEW k \in 1 .. n - 1, r[j] = r[k], j # k
                 PROVE  FALSE
      BY <1>3
    <2>1. at(j) # at(k)
      BY <1>1
    <2> QED
      BY <1>4, <2>1
  <1> QED
    BY <1>2, <1>5, <1>6, <1>7 DEF r

\* An ack.
LEMMA AckStep ==
    ASSUME IInv, NEW i \in DOMAIN queue, NEW age \in copies[queue[i]], ReceiveAck(i, age)
    PROVE  IInv'
  <1> USE FlowControlAssumption DEF IInv
  <1> DEFINE p == queue[i]
  <1>1. p \in Packets /\ p \in Queued /\ i \in 1 .. Len(queue) /\ Queued \subseteq Packets
    BY DEF TypeOK, Queued, ToSet
  <1>2. /\ age \in 0 .. TripMax /\ age >= TripMin
        /\ since[p] \in Nat /\ since[p] <= TripMax
    BY <1>1 DEF ReceiveAck, TypeOK, CopiesInv
  <1>3. /\ queue' \in Seq(Packets) /\ Queued' = Queued \ {p} /\ Distinct'
    <2>1. queue \in Seq(Packets) /\ DOMAIN queue = 1 .. Len(queue)
      BY LenProperties DEF TypeOK
    <2>2. \A j, k \in 1 .. Len(queue) : queue[j] = queue[k] => j = k
      BY <2>1 DEF Distinct
    <2>3. queue' = RemoveAt(queue, i)
      BY DEF ReceiveAck
    <2> QED
      BY <1>1, <2>1, <2>2, <2>3, RemoveAtRange DEF Queued, Distinct
  <1>4. /\ tripTimeMidle' \in Nat /\ tripTimeMidle' <= TripMax
        /\ since[p] >= TripMin /\ (tripTimeMidle # 0 => tripTimeMidle >= TripMin)
             => tripTimeMidle' >= TripMin
    <2>1. tripTimeMidle' = MidleTrip(since[p])
      BY DEF ReceiveAck
    <2> QED
      BY <1>2, <2>1, MidleTripRange DEF TypeOK
  <1>5. /\ copies' = [copies EXCEPT ![p] = {}]
        /\ attempts' = [attempts EXCEPT ![p] = 0]
        /\ since' = [since EXCEPT ![p] = 0]
        /\ rtt' = [rtt EXCEPT ![p] = 0]
        /\ UNCHANGED <<lossy, exclusive, timer, destroyed, check,
                       sendDelay, wpc, resent, chSendDelay>>
    BY DEF ReceiveAck, envVars, delayVars
  <1> HIDE DEF p
  <1>6. TypeOK'
    <2>1. /\ attempts' \in [Packets -> 0 .. MaxRetransmitAttempts]
          /\ since' \in [Packets -> Nat]
          /\ rtt' \in [Packets -> 0 .. MaxRTT]
          /\ copies' \in [Packets -> SUBSET (0 .. TripMax)]
      <3>1. attempts' \in [Packets -> 0 .. MaxRetransmitAttempts]
        <4>1. attempts \in [Packets -> 0 .. MaxRetransmitAttempts]
          BY DEF TypeOK
        <4>2. 0 \in 0 .. MaxRetransmitAttempts
          BY FlowControlAssumption
        <4> QED BY <1>1, <1>5, <4>1, <4>2
      <3>2. since' \in [Packets -> Nat]
        BY <1>1, <1>5 DEF TypeOK
      <3>3. rtt' \in [Packets -> 0 .. MaxRTT]
        BY <1>1, <1>5 DEF TypeOK
      <3>4. copies' \in [Packets -> SUBSET (0 .. TripMax)]
        BY <1>1, <1>5 DEF TypeOK
      <3> QED BY <3>1, <3>2, <3>3, <3>4
    <2> QED
      BY <1>3, <1>4, <1>5, <2>1 DEF TypeOK
  <1>7. /\ OverdueInv' /\ CopiesInv'
    BY <1>1, <1>3, <1>5 DEF OverdueInv, CopiesInv, TypeOK
  <1>8. SteadyInv'
    <2>1. CASE ~lossy /\ Steady
      <3>1. copies[p] = {since[p]} /\ age \in copies[p]
        BY <1>1, <2>1 DEF SteadyInv, p
      <3> QED
        BY <1>1, <1>2, <1>3, <1>4, <1>5, <2>1, <3>1 DEF SteadyInv, TypeOK
    <2>2. CASE ~(~lossy /\ Steady)
      BY <1>5, <2>2 DEF SteadyInv, Steady
    <2> QED
      BY <2>1, <2>2
  <1>9. FloorInv'
    BY <1>5 DEF FloorInv
  <1> QED
    BY <1>3, <1>4, <1>6, <1>7, <1>8, <1>9

\* A loss.
LEMMA LoseStep ==
    ASSUME IInv, NEW p \in Packets, NEW age \in copies[p], Lose(p, age)
    PROVE  IInv'
  <1> USE DEF IInv
  <1>1. /\ lossy /\ copies' = [copies EXCEPT ![p] = copies[p] \ {age}]
        /\ UNCHANGED <<lossy, exclusive, queue, attempts, since, rtt, tripTimeMidle, timer,
                       destroyed, check, sendDelay, wpc, resent, chSendDelay>>
        /\ Queued' = Queued
    BY DEF Lose, envVars, delayVars, Queued, ToSet
  <1>2. copies' \in [Packets -> SUBSET (0 .. TripMax)]
    BY <1>1 DEF TypeOK
  <1>3. TypeOK' /\ Distinct' /\ OverdueInv' /\ FloorInv' /\ SteadyInv'
    BY <1>1, <1>2 DEF TypeOK, Distinct, OverdueInv, FloorInv, SteadyInv, Steady
  <1>4. CopiesInv'
    BY <1>1 DEF CopiesInv, TypeOK
  <1> QED
    BY <1>1, <1>3, <1>4

\* Time.
LEMMA TickStep ==
    ASSUME IInv, Tick
    PROVE  IInv'
  <1> USE FlowControlAssumption DEF IInv
  <1>1. /\ ~destroyed /\ timer < RetransmitEvery + Jitter
        /\ \A p \in Packets : TripMax \notin copies[p]
        /\ timer' = timer + 1
        /\ check' = Least(check + 1, DelayCheckEvery + 1)
        /\ since' = [p \in Packets |-> IF p \in Queued THEN since[p] + 1 ELSE 0]
        /\ copies' = [p \in Packets |-> {age + 1 : age \in copies[p]}]
        /\ UNCHANGED <<lossy, exclusive, queue, attempts, rtt, tripTimeMidle, destroyed,
                       sendDelay, wpc, resent, chSendDelay>>
        /\ Queued' = Queued /\ Queued \subseteq Packets
    BY DEF Tick, envVars, delayVars, Queued, ToSet, TypeOK
  <1>2. TypeOK'
    <2>1. since' \in [Packets -> Nat]
      BY <1>1 DEF TypeOK
    <2>2. copies' \in [Packets -> SUBSET (0 .. TripMax)]
      <3> SUFFICES ASSUME NEW p \in Packets, NEW age \in copies[p]
                   PROVE  age + 1 \in 0 .. TripMax
        BY <1>1
      <3>1. age \in 0 .. TripMax /\ age # TripMax
        BY <1>1 DEF TypeOK
      <3> QED
        BY <3>1
    <2>3. timer' \in 0 .. RetransmitEvery + Jitter /\ check' \in 0 .. DelayCheckEvery + 1
      BY <1>1 DEF TypeOK, Least
    <2> QED
      BY <1>1, <2>1, <2>2, <2>3 DEF TypeOK
  <1>3. Distinct' /\ FloorInv'
    BY <1>1 DEF Distinct, FloorInv
  <1>4. OverdueInv'
    BY <1>1 DEF OverdueInv, TypeOK
  <1>5. CopiesInv'
    <2> SUFFICES ASSUME NEW p \in Queued, NEW age \in copies[p]
                 PROVE  since'[p] <= age + 1
      BY <1>1 DEF CopiesInv
    <2>1. since[p] <= age /\ since[p] \in Nat /\ age \in 0 .. TripMax
      BY <1>1 DEF CopiesInv, TypeOK
    <2> QED
      BY <1>1, <2>1
  <1>6. SteadyInv'
    BY <1>1 DEF SteadyInv, Steady, TypeOK
  <1> QED
    BY <1>1, <1>2, <1>3, <1>4, <1>5, <1>6

LEMMA NextIInv == IInv /\ [Next]_vars => IInv'
  <1> SUFFICES ASSUME IInv, [Next]_vars PROVE IInv'
    OBVIOUS
  <1>1. ASSUME NEW w \in Writers, WriteTo(w) PROVE IInv'
    BY <1>1, DelayStep, AddStep DEF WriteTo
  <1>2. CASE Retransmit
    BY <1>2, RetransmitStep
  <1>3. CASE Tick
    BY <1>3, TickStep
  <1>4. ASSUME NEW i \in DOMAIN queue, NEW age \in copies[queue[i]], ReceiveAck(i, age)
        PROVE  IInv'
    BY <1>4, AckStep
  <1>5. ASSUME NEW p \in Packets, NEW age \in copies[p], Lose(p, age) PROVE IInv'
    BY <1>5, LoseStep
  <1>6. CASE UNCHANGED vars
    BY <1>6 DEF IInv, TypeOK, Distinct, OverdueInv, CopiesInv, SteadyInv, FloorInv, Steady,
                Queued, ToSet, vars, envVars, packetVars, delayVars
  <1> QED
    BY <1>1, <1>2, <1>3, <1>4, <1>5, <1>6 DEF Next

THEOREM Invariance == Spec => []IInv
  BY InitIInv, NextIInv, PTL DEF Spec

\* The variables keep their types, and every computed time and delay its range.
THEOREM TypeCorrect == Spec => []TypeOK
  <1>1. IInv => TypeOK
    BY DEF IInv
  <1> QED
    BY <1>1, Invariance, PTL

\* A packet that is not acked is sent again, or the channel is given up, within
\* its retransmit time and one round of the timer, whatever is lost and however
\* the retransmit times of the packets differ (retransmit, setRetransmitTime).
THEOREM Resent == Spec => []ResentInTime
  <1>1. IInv => ResentInTime
    <2> SUFFICES ASSUME IInv, ~destroyed, NEW p \in Queued
                 PROVE  since[p] <= rtt[p] + RetransmitEvery + Jitter
      BY DEF ResentInTime
    <2>1. p \in Packets
      BY DEF IInv, TypeOK, Queued, ToSet
    <2>2. /\ since[p] \in Nat /\ rtt[p] \in Nat /\ timer \in 0 .. RetransmitEvery + Jitter
          /\ since[p] <= rtt[p] + timer
      BY <2>1, FlowControlAssumption DEF IInv, TypeOK, OverdueInv
    <2> QED
      BY <2>2, FlowControlAssumption
  <1> QED
    BY <1>1, Invariance, PTL

\* The mean trip time stays between the shortest and the longest trip the
\* network makes; with losses only the upper bound holds (setTripTime).
THEOREM MidleTrue == Spec => []MidleIsTrue
  <1>1. IInv => MidleIsTrue
    BY DEF IInv, MidleIsTrue, SteadyInv
  <1> QED
    BY <1>1, Invariance, PTL

\* On a network that loses nothing and whose trips differ by less than MinRTT no
\* packet is sent twice (setRetransmitTime).
THEOREM NothingTwice == Spec => []NoSpurious
  <1>1. IInv => NoSpurious
    BY DEF IInv, NoSpurious, SteadyInv
  <1> QED
    BY <1>1, Invariance, PTL

\* While one goroutine writes at a time the delay is never below its minimum
\* (writeToDelay).
THEOREM Floor == Spec => []DelayFloor
  <1>1. IInv => DelayFloor
    BY DEF IInv, DelayFloor, FloorInv
  <1> QED
    BY <1>1, Invariance, PTL
=============================================================================
