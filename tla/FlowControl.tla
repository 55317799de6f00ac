---------------------------- MODULE FlowControl -----------------------------
(***************************************************************************)
(* The times of a client channel: after how long a packet that was not     *)
(* acked is sent again, which follows the trip time of the acks, and how   *)
(* long writeTo waits between two packets, which follows retransmissions.  *)
(* Order and loss of the data themselves are the matter of Transfer; here  *)
(* a copy of a packet is its age, and its ack comes back, if it does, when *)
(* the copy is TripMin to TripMax old.                                     *)
(*                                                                         *)
(* Time passes in steps of Tick, and what is due happens first: a pass of  *)
(* the retransmit timer finds room in senderCh at once (Transfer has it    *)
(* wait), and writeTo takes time only where it sleeps, before it sends.    *)
(***************************************************************************)
EXTENDS Integers, Sequences, SequencesExt

CONSTANTS
    Writers,       \* goroutines in writeTo
    Packets,       \* bound: names of the packets in the send queue
    MinRTT, StartRTT, MaxRTT,
    RetransmitEvery,         \* the retransmit timer
    MaxRetransmitAttempts,
    DelayCheckEvery,         \* the 30 ms of writeToDelay
    MinSendDelay,            \* the 15 of writeToDelay
    BigDelay, BigStep,       \* its 100 and its 10
    StartDelays,   \* values given to SetSendDelay, startSendDelay among them
    MaxDelay,      \* bound: no write while the delay is above
    TripMin, TripMax,        \* the network: from a packet to its ack
    Jitter         \* bound: how late a timer's function starts

ASSUME FlowControlAssumption ==
    /\ MinRTT \in Nat /\ StartRTT \in Nat /\ MaxRTT \in Nat
    /\ StartRTT <= MaxRTT
    /\ RetransmitEvery \in Nat \ {0} /\ Jitter \in Nat
    /\ MaxRetransmitAttempts \in Nat \ {0}
    /\ DelayCheckEvery \in Nat
    /\ MinSendDelay \in Nat /\ BigDelay \in Nat /\ BigStep \in Nat \ {0}
    /\ MinSendDelay + BigStep <= BigDelay + 1
    /\ StartDelays \subseteq Int /\ MaxDelay \in Int
    /\ \A d \in StartDelays : d >= MinSendDelay
    /\ TripMin \in Nat \ {0} /\ TripMax \in Nat /\ TripMin <= TripMax

\* A network on which the first guess of the round trip, and MinRTT above what
\* was measured, are enough.
Steady == TripMax <= StartRTT /\ TripMax <= MaxRTT /\ TripMax <= TripMin + MinRTT

VARIABLES
    lossy,           \* the network loses packets (chosen at the start)
    exclusive,       \* one goroutine writes at a time (chosen at the start)
    queue,           \* the send queue, oldest first
    attempts,        \* retransmitAttempts of a queued packet
    since,           \* time since it was sent, again or first (Packet.time)
    rtt,             \* time until it is sent again, counted as since
    copies,          \* ages of the copies (or their acks) on the network
    tripTimeMidle,   \* 0 before the first ack
    timer,           \* time since the retransmit timer was armed
    destroyed,
    sendDelay,
    check,           \* time since lastDelayCheck, at most DelayCheckEvery + 1
    wpc,             \* where each goroutine is in writeToDelay
    resent,          \* it found the first packet retransmitted
    chSendDelay      \* its copy of sendDelay

packetVars == <<queue, attempts, since, rtt, copies>>
delayVars == <<sendDelay, wpc, resent, chSendDelay>>
envVars == <<lossy, exclusive>>
vars == <<envVars, packetVars, tripTimeMidle, timer, destroyed, check, delayVars>>

Queued == ToSet(queue)

TypeOK ==
    /\ lossy \in BOOLEAN /\ exclusive \in BOOLEAN /\ destroyed \in BOOLEAN
    /\ queue \in Seq(Packets)
    /\ attempts \in [Packets -> 0 .. MaxRetransmitAttempts]
    /\ since \in [Packets -> Nat]
    /\ rtt \in [Packets -> 0 .. MaxRTT]
    /\ copies \in [Packets -> SUBSET (0 .. TripMax)]
    /\ tripTimeMidle \in Nat
    /\ timer \in 0 .. RetransmitEvery + Jitter
    /\ sendDelay \in Int
    /\ check \in 0 .. DelayCheckEvery + 1
    /\ wpc \in [Writers -> {"idle", "looked", "read", "store", "send"}]
    /\ resent \in [Writers -> BOOLEAN]
    /\ chSendDelay \in [Writers -> Int]

Init ==
    /\ lossy \in BOOLEAN /\ exclusive \in BOOLEAN
    /\ queue = << >>
    /\ attempts = [p \in Packets |-> 0]
    /\ since = [p \in Packets |-> 0]
    /\ rtt = [p \in Packets |-> 0]
    /\ copies = [p \in Packets |-> {}]
    /\ tripTimeMidle = 0 /\ timer = 0 /\ destroyed = FALSE
    /\ sendDelay \in StartDelays
    /\ check = DelayCheckEvery + 1
    /\ wpc = [w \in Writers |-> "idle"]
    /\ resent = [w \in Writers |-> FALSE]
    /\ chSendDelay = [w \in Writers |-> 0]

-----------------------------------------------------------------------------
(***************************************************************************)
(* writeToDelay, and the rest of writeTo.                                  *)
(***************************************************************************)

\* Is the oldest packet a retransmitted one?  (The wait for its ack, at most
\* 300 microseconds, takes no time here.)
GetRetransmitAttempts(w) ==
    /\ ~destroyed /\ wpc[w] = "idle" /\ sendDelay <= MaxDelay
    /\ exclusive => \A v \in Writers : wpc[v] = "idle"
    /\ resent' = [resent EXCEPT ![w] = queue # << >> /\ attempts[Head(queue)] > 0]
    /\ wpc' = [wpc EXCEPT ![w] = "looked"]
    /\ UNCHANGED <<envVars, packetVars, tripTimeMidle, timer, destroyed, check,
                   sendDelay, chSendDelay>>

GetSendDelay(w) ==
    /\ wpc[w] = "looked"
    /\ chSendDelay' = [chSendDelay EXCEPT ![w] = sendDelay]
    /\ wpc' = [wpc EXCEPT ![w] = "read"]
    /\ UNCHANGED <<envVars, packetVars, tripTimeMidle, timer, destroyed, check,
                   sendDelay, resent>>

\* A minimum that may be reached and passed, a mistake, for comparison.
NewDelayBelow(copy, now, again) ==
    IF again THEN copy + BigStep
    ELSE IF now > BigDelay THEN copy - BigStep
    ELSE IF now >= MinSendDelay THEN copy - 1 ELSE copy

\* Only large delays shrink, a mistake, for comparison.
NewDelayLarge(copy, now, again) ==
    IF again THEN copy + BigStep ELSE IF now > BigDelay THEN copy - BigStep ELSE copy

\* The delay grows after a retransmission; else it shrinks, by a step that
\* depends on the delay that is stored now, not on the copy.
NewDelay(copy, now, again) ==
    CASE again              -> copy + BigStep
      [] ~again /\ now > BigDelay -> copy - BigStep
      [] ~again /\ now <= BigDelay /\ now > MinSendDelay -> copy - 1
      [] OTHER -> copy

\* It is time for a new delay, or not.
CheckDelay(w) ==
    /\ wpc[w] = "read"
    /\ IF check > DelayCheckEvery
       THEN /\ chSendDelay' = [chSendDelay EXCEPT ![w] = NewDelay(@, sendDelay, resent[w])]
            /\ wpc' = [wpc EXCEPT ![w] = "store"]
       ELSE /\ wpc' = [wpc EXCEPT ![w] = "send"]
            /\ UNCHANGED chSendDelay
    /\ UNCHANGED <<envVars, packetVars, tripTimeMidle, timer, destroyed, check,
                   sendDelay, resent>>

SetSendDelay(w) ==
    /\ wpc[w] = "store"
    /\ sendDelay' = chSendDelay[w]
    /\ check' = 0
    /\ wpc' = [wpc EXCEPT ![w] = "send"]
    /\ UNCHANGED <<envVars, packetVars, tripTimeMidle, timer, destroyed, resent, chSendDelay>>

Least(a, b) == IF a < b THEN a ELSE b

\* Without a guess before the first ack, a mistake, for comparison.
RetransmitTimeNoGuess(tries) == Least(MaxRTT, (MinRTT + tripTimeMidle) * (tries + 1))

\* setRetransmitTime.
RetransmitTime(tries) ==
    LET base == IF tripTimeMidle = 0 THEN StartRTT ELSE MinRTT + tripTimeMidle
    IN  Least(MaxRTT, base * (tries + 1))

\* The packet goes to the send queue and to the sender.
Add(w, p) ==
    /\ wpc[w] = "send" /\ p \notin Queued
    /\ queue' = Append(queue, p)
    /\ attempts' = [attempts EXCEPT ![p] = 0]
    /\ since' = [since EXCEPT ![p] = 0]
    /\ rtt' = [rtt EXCEPT ![p] = RetransmitTime(0)]
    /\ copies' = [copies EXCEPT ![p] = {0}]
    /\ wpc' = [wpc EXCEPT ![w] = "idle"]
    /\ resent' = [resent EXCEPT ![w] = FALSE]
    /\ chSendDelay' = [chSendDelay EXCEPT ![w] = 0]
    /\ UNCHANGED <<envVars, tripTimeMidle, timer, destroyed, check, sendDelay>>

-----------------------------------------------------------------------------
(***************************************************************************)
(* The retransmit timer, and acks.                                         *)
(***************************************************************************)
\* Only the oldest packet is looked at, a mistake, for comparison.
DueFirst == {p \in Queued : p = Head(queue) /\ since[p] > rtt[p]}

\* Packets whose retransmit time is over.
Due == {p \in Queued : since[p] > rtt[p]}

\* A pass sends every packet that is due again, and gives the channel up when
\* one of them was sent too often.
Retransmit ==
    /\ ~destroyed /\ timer >= RetransmitEvery
    /\ IF \E p \in Due : attempts[p] = MaxRetransmitAttempts
       THEN /\ destroyed' = TRUE
            /\ UNCHANGED <<packetVars, timer>>
       ELSE /\ attempts' = [p \in Packets |-> IF p \in Due THEN attempts[p] + 1 ELSE attempts[p]]
            /\ since' = [p \in Packets |-> IF p \in Due THEN 0 ELSE since[p]]
            /\ rtt' = [p \in Packets |->
                         IF p \in Due THEN RetransmitTime(attempts[p] + 1) ELSE rtt[p]]
            /\ copies' = [p \in Packets |-> IF p \in Due THEN copies[p] \cup {0} ELSE copies[p]]
            /\ timer' = 0
            /\ UNCHANGED <<queue, destroyed>>
    /\ UNCHANGED <<envVars, tripTimeMidle, check, delayVars>>

\* Only the new trip is divided, a mistake, for comparison.
MidleTripPart(tt) == IF tripTimeMidle = 0 THEN tt ELSE tripTimeMidle * 9 + (tt \div 10)

\* setTripTime: the trip is counted from the last time the packet was sent.
MidleTrip(tt) == IF tripTimeMidle = 0 THEN tt ELSE (tripTimeMidle * 9 + tt) \div 10

\* serve gets the ack of a copy; other copies of the packet are nothing to it.
ReceiveAck(i, age) ==
    LET p == queue[i] IN
    /\ ~destroyed
    /\ age \in copies[p] /\ age >= TripMin
    /\ tripTimeMidle' = MidleTrip(since[p])
    /\ queue' = RemoveAt(queue, i)
    /\ copies' = [copies EXCEPT ![p] = {}]
    /\ attempts' = [attempts EXCEPT ![p] = 0]
    /\ since' = [since EXCEPT ![p] = 0]
    /\ rtt' = [rtt EXCEPT ![p] = 0]
    /\ UNCHANGED <<envVars, timer, destroyed, check, delayVars>>

Lose(p, age) ==
    /\ lossy /\ age \in copies[p]
    /\ copies' = [copies EXCEPT ![p] = @ \ {age}]
    /\ UNCHANGED <<envVars, queue, attempts, since, rtt, tripTimeMidle, timer, destroyed,
                   check, delayVars>>

Tick ==
    /\ ~destroyed
    /\ timer < RetransmitEvery + Jitter
    /\ \A p \in Packets : TripMax \notin copies[p]
    /\ \A w \in Writers : wpc[w] \in {"idle", "send"}
    /\ timer' = timer + 1
    /\ check' = Least(check + 1, DelayCheckEvery + 1)
    /\ since' = [p \in Packets |-> IF p \in Queued THEN since[p] + 1 ELSE 0]
    /\ copies' = [p \in Packets |-> {age + 1 : age \in copies[p]}]
    /\ UNCHANGED <<envVars, queue, attempts, rtt, tripTimeMidle, destroyed, delayVars>>

WriteTo(w) ==
    \/ GetRetransmitAttempts(w) \/ GetSendDelay(w) \/ CheckDelay(w) \/ SetSendDelay(w)
    \/ \E p \in Packets : Add(w, p)

Next ==
    \/ \E w \in Writers : WriteTo(w)
    \/ Retransmit \/ Tick
    \/ \E i \in DOMAIN queue : \E age \in copies[queue[i]] : ReceiveAck(i, age)
    \/ \E p \in Packets : \E age \in copies[p] : Lose(p, age)

Spec == Init /\ [][Next]_vars

\* Goroutines that are in writeTo go on, and so does time.
Fairness == WF_vars(Next)

FairSpec == Spec /\ Fairness

-----------------------------------------------------------------------------
(***************************************************************************)
(* Correctness.                                                            *)
(***************************************************************************)

\* No packet waits longer for its ack than the retransmit time and one look of
\* the timer: it is sent again, or the channel is given up (retransmit).
ResentInTime ==
    ~destroyed =>
        \A p \in Queued : since[p] <= rtt[p] + RetransmitEvery + Jitter

\* The mean trip time is never above what the network takes, and without losses
\* not below either (setTripTime; with losses it may be, since the trip of a
\* packet sent again is counted from the last time).
MidleIsTrue ==
    /\ tripTimeMidle <= TripMax
    /\ ~lossy /\ Steady /\ tripTimeMidle # 0 => tripTimeMidle >= TripMin

\* On a steady network that loses nothing, nothing is sent twice
\* (setRetransmitTime).
NoSpurious == ~lossy /\ Steady => \A p \in Queued : attempts[p] = 0

\* If one goroutine writes at a time the send delay does not fall below its
\* minimum; several may compute one new delay each from what another has just
\* changed (writeToDelay).
DelayFloor == exclusive => sendDelay >= MinSendDelay

\* Once nothing is sent again, an application that goes on writing gets the
\* smallest delay back (writeToDelay).
DelayRecovers ==
    ~lossy /\ Steady /\ exclusive /\ []<><<\E w \in Writers : SetSendDelay(w)>>_vars
        => <>(sendDelay = MinSendDelay)

=============================================================================
