--------------------------- MODULE DeliveryProofs ---------------------------
(***************************************************************************)
(* Proofs about Delivery, for any set of packets.                          *)
(***************************************************************************)
EXTENDS Delivery, TLAPS

\* What is stored in a packet follows writeTo.
WriteInv ==
    \A p \in Packets :
        /\ wpc[p] \in {"idle", "checked"} =>
               p \notin received /\ p \notin sendQueue /\ spc[p] = "no"
        /\ wpc[p] \in {"idle", "checked", "queued", "stored"} => timer[p] = "none"
        /\ p \in delivery <=> wpc[p] \notin {"idle", "checked", "queued"}
        /\ p \in deliveryTimer <=> wpc[p] \in {"set", "done"}

\* serve is busy with an ack of a packet it took from the queue and has reported
\* nothing of; if it took it late enough, it will find all that SetDelivery sets.
ServeInv ==
    \A p \in Packets : spc[p] # "no" =>
        /\ p \in received /\ p \notin sendQueue /\ ~Told(p, "delivered")
        /\ p \notin early => wpc[p] \in {"set", "done"}

\* A timeout is told of by the timer, which fires once.
TimeoutInv == \A p \in Packets : Told(p, "timeout") => timer[p] = "fired"

Inv ==
    /\ TypeOK
    /\ acks \subseteq received
    /\ WriteInv
    /\ ServeInv
    /\ TimeoutInv
    /\ DeliveredIsTrue
    /\ AckReported
    /\ ReportedOnce

LEMMA InvInit == Init => Inv
  <1> SUFFICES ASSUME Init PROVE Inv
    OBVIOUS
  <1>1. << >> \in Seq(Outcomes) /\ DOMAIN << >> = {}
    OBVIOUS
  <1>2. \A p \in Packets : /\ reports[p] = << >> /\ timer[p] = "none"
                           /\ wpc[p] = "idle" /\ spc[p] = "no"
    BY DEF Init
  <1>3. \A p \in Packets, o \in Outcomes : ~Told(p, o)
    BY <1>1, <1>2 DEF Init, Told
  <1>4. TypeOK
    BY <1>1 DEF Init, TypeOK
  <1>5. ReportedOnce /\ DeliveredIsTrue /\ TimeoutInv
    BY <1>1, <1>2, <1>3 DEF Init, ReportedOnce, DeliveredIsTrue, TimeoutInv, Outcomes
  <1>6. WriteInv /\ ServeInv /\ AckReported
    BY <1>2 DEF Init, WriteInv, ServeInv, AckReported, Acked
  <1> QED
    BY <1>4, <1>5, <1>6 DEF Init, Inv

\* Steps that tell nobody anything: what is told stays, and is told once.
LEMMA Untold ==
  ASSUME Inv, UNCHANGED told
  PROVE  /\ \A q \in Packets, o \in Outcomes : Told(q, o)' <=> Told(q, o)
         /\ ReportedOnce'
         /\ running' \subseteq Packets \X Outcomes
         /\ reports' \in [Packets -> Seq(Outcomes)]
  BY DEF Inv, TypeOK, Told, ReportedOnce, told

\* What is told before and after a callback runs is the same.
LEMMA ReportTold ==
  ASSUME Inv, NEW p \in Packets, NEW outcome \in Outcomes, Report(p, outcome)
  PROVE  \A q \in Packets, o \in Outcomes : Told(q, o)' <=> Told(q, o)
  <1> SUFFICES ASSUME NEW q \in Packets, NEW o \in Outcomes
               PROVE  Told(q, o)' <=> Told(q, o)
    OBVIOUS
  <1>1. reports[q] \in Seq(Outcomes) /\ reports \in [Packets -> Seq(Outcomes)]
    BY DEF Inv, TypeOK
  <1>2. CASE q # p
    BY <1>1, <1>2 DEF Report, Told
  <1>3. CASE q = p
    <2>1. reports'[p] = Append(reports[p], outcome)
      BY <1>1, <1>3 DEF Report
    <2>2. CASE o = outcome
      <3>1. reports'[p][Len(reports[p]) + 1] = o
            /\ Len(reports[p]) + 1 \in DOMAIN reports'[p]
        BY <1>1, <1>3, <2>1, <2>2
      <3> QED
        BY <1>3, <2>2, <3>1 DEF Report, Told
    <2>3. CASE o # outcome
      <3>1. <<p, o>> \in running' <=> <<p, o>> \in running
        BY <2>3 DEF Report
      <3>2. (\E i \in DOMAIN reports'[p] : reports'[p][i] = o)
            <=> (\E i \in DOMAIN reports[p] : reports[p][i] = o)
        BY <1>1, <1>3, <2>1, <2>3
      <3> QED
        BY <1>3, <3>1, <3>2 DEF Told
    <2> QED
      BY <2>2, <2>3
  <1> QED
    BY <1>2, <1>3

\* The callback that a step starts is told of what it was not told of.
LEMMA StartTold ==
  ASSUME Inv, NEW p \in Packets, NEW outcome \in Outcomes, ~Told(p, outcome),
         running' = running \cup {<<p, outcome>>}, UNCHANGED reports
  PROVE  /\ \A q \in Packets, o \in Outcomes :
                Told(q, o)' <=> Told(q, o) \/ (q = p /\ o = outcome)
         /\ ReportedOnce'
         /\ running' \subseteq Packets \X Outcomes
         /\ reports' \in [Packets -> Seq(Outcomes)]
  <1>1. \A q \in Packets, o \in Outcomes :
            <<q, o>> \in running' <=> <<q, o>> \in running \/ (q = p /\ o = outcome)
    OBVIOUS
  <1>2. \A i \in DOMAIN reports[p] : reports[p][i] # outcome
    BY DEF Told
  <1>3. ReportedOnce'
    BY <1>1, <1>2 DEF Inv, ReportedOnce
  <1> QED
    BY <1>1, <1>3 DEF Told, Inv, TypeOK

LEMMA WriteStep ==
  ASSUME Inv, NEW p \in Packets,
         WriteTo(p) \/ Add(p) \/ SetDelivery(p) \/ WriteToSender(p)
  PROVE  Inv'
  <1> USE DEF Inv, TypeOK, packet, network
  <1>1. /\ UNCHANGED <<spc, network, told, early, panicked>>
        /\ \A q \in Packets, o \in Outcomes : Told(q, o)' <=> Told(q, o)
        /\ ReportedOnce'
    BY Untold DEF WriteTo, Add, SetDelivery, StoreDelivery, StartTimer, StoreTimer, WriteToSender
  <1>2. \A q \in Packets : q # p => wpc'[q] = wpc[q] /\ timer'[q] = timer[q]
    BY DEF WriteTo, Add, SetDelivery, StoreDelivery, StartTimer, StoreTimer, WriteToSender, Goes
  <1>3. TypeOK'
    BY Untold, <1>1
       DEF WriteTo, Add, SetDelivery, StoreDelivery, StartTimer, StoreTimer, WriteToSender, Goes
  <1>4. WriteInv'
    BY <1>1 DEF WriteInv, WriteTo, Add, SetDelivery, StoreDelivery, StartTimer, StoreTimer,
                WriteToSender, Goes
  <1>5. \A q \in Packets :
            /\ wpc'[q] \notin {"idle", "checked"} /\ q \notin sendQueue'
                   => wpc[q] \notin {"idle", "checked"} /\ q \notin sendQueue
            /\ q \in sendQueue' => q \in sendQueue \/ wpc[q] = "checked"
            /\ wpc[q] \in {"set", "done"} => wpc'[q] \in {"set", "done"}
            /\ timer[q] = "fired" => timer'[q] = "fired"
    BY DEF WriteInv, WriteTo, Add, SetDelivery, StoreDelivery, StartTimer, StoreTimer,
           WriteToSender, Goes
  <1>6. DeliveredIsTrue' /\ TimeoutInv'
    BY <1>1, <1>5 DEF DeliveredIsTrue, TimeoutInv, WriteInv, Outcomes
  <1>7. ServeInv' /\ AckReported'
    BY <1>1, <1>5 DEF ServeInv, AckReported, Acked, WriteInv, Outcomes
  <1> QED
    BY <1>1, <1>3, <1>4, <1>6, <1>7

LEMMA AckStep ==
  ASSUME Inv, NEW p \in Packets, ReceiveAck(p) \/ FindDelivery(p) \/ StopPanics(p)
  PROVE  Inv'
  <1> USE DEF Inv, TypeOK, packet, network
  <1>1. /\ UNCHANGED <<wpc, packet, network, told>>
        /\ \A q \in Packets, o \in Outcomes : Told(q, o)' <=> Told(q, o)
        /\ ReportedOnce'
    BY Untold DEF ReceiveAck, Serves, FindDelivery, StopPanics
  <1>2. TypeOK' /\ acks' \subseteq received'
    BY Untold, <1>1 DEF ReceiveAck, Serves, FindDelivery, StopPanics
  <1>3. DeliveredIsTrue' /\ TimeoutInv'
    BY <1>1 DEF DeliveredIsTrue, TimeoutInv, Outcomes, ReceiveAck, FindDelivery, StopPanics
  <1>4. CASE ReceiveAck(p)
    <2>1. p \in received /\ wpc[p] \notin {"idle", "checked"} /\ ~Told(p, "delivered")
      BY <1>4 DEF ReceiveAck, Serves, WriteInv, DeliveredIsTrue
    <2>2. p \notin early' => wpc[p] \in {"set", "done"}
      BY <1>4, <2>1 DEF ReceiveAck, Serves
    <2>3. early \subseteq early' /\ spc'[p] = "found" /\ panicked' = panicked
          /\ sendQueue' = sendQueue \ {p}
          /\ \A q \in Packets : q # p => spc'[q] = spc[q] /\ (q \in early' <=> q \in early)
      BY <1>4 DEF ReceiveAck, Serves
    <2>4. WriteInv'
      BY <1>1, <2>1, <2>3 DEF WriteInv
    <2>5. ServeInv'
      BY <1>1, <2>1, <2>2, <2>3 DEF ServeInv, Outcomes
    <2>6. AckReported'
      BY <1>1, <2>3 DEF AckReported, Acked, Outcomes
    <2> QED
      BY <1>1, <1>2, <1>3, <2>4, <2>5, <2>6
  <1>5. CASE FindDelivery(p)
    <2>1. /\ spc[p] = "found" /\ UNCHANGED <<sendQueue, early, panicked>>
          /\ \A q \in Packets : q # p => spc'[q] = spc[q]
          /\ spc'[p] = IF p \in delivery THEN "stop" ELSE "no"
      BY <1>5 DEF FindDelivery
    <2>2. p \notin early => p \in delivery
      BY <2>1 DEF ServeInv, WriteInv
    <2>3. WriteInv'
      BY <1>1, <2>1 DEF WriteInv
    <2>4. ServeInv'
      BY <1>1, <2>1 DEF ServeInv, Outcomes
    <2>5. \A q \in Packets : q # p /\ Acked(q)' => Acked(q)
      BY <1>1, <2>1 DEF Acked
    <2>6. Acked(p)' => p \in early
      BY <2>1, <2>2 DEF Acked
    <2>7. \A q \in Packets : Acked(q)' => Told(q, "delivered")' \/ q \in early'
      BY <1>1, <2>1, <2>5, <2>6 DEF AckReported, Outcomes
    <2>8. AckReported'
      BY <2>1, <2>7 DEF AckReported
    <2> QED
      BY <1>1, <1>2, <1>3, <2>3, <2>4, <2>8
  <1>6. CASE StopPanics(p)
    <2>1. sendQueue' = sendQueue /\ spc' = spc /\ early' = early
      BY <1>6 DEF StopPanics
    <2>2. p \in early
      BY <1>6 DEF StopPanics, ServeInv, WriteInv
    <2>3. WriteInv'
      BY <1>1, <2>1 DEF WriteInv
    <2>4. ServeInv'
      BY <1>1, <2>1 DEF ServeInv, Outcomes
    <2>5. \A q \in Packets : Acked(q)' => Told(q, "delivered")' \/ q \in early'
      BY <1>1, <2>1 DEF AckReported, Acked, Outcomes
    <2>6. early' # {}
      BY <2>1, <2>2
    <2>7. AckReported'
      BY <2>5, <2>6 DEF AckReported
    <2> QED
      BY <1>1, <1>2, <1>3, <2>3, <2>4, <2>7
  <1> QED
    BY <1>4, <1>5, <1>6

\* Steps that start or run a callback.
LEMMA CallbackStep ==
  ASSUME Inv, NEW p \in Packets,
         \/ ReportDelivery(p) \/ TimerFires(p)
         \/ \E outcome \in Outcomes : Report(p, outcome)
  PROVE  Inv'
  <1> USE DEF Inv, TypeOK, packet, network
  <1>1. CASE ReportDelivery(p)
    <2>1. /\ spc[p] = "stop" /\ spc' = [spc EXCEPT ![p] = "no"]
          /\ running' = running \cup {<<p, "delivered">>}
          /\ UNCHANGED <<wpc, sendQueue, packet, network, reports, early, panicked>>
      BY <1>1 DEF ReportDelivery
    <2>2. ~Told(p, "delivered") /\ p \in received /\ p \notin sendQueue
      BY <2>1 DEF ServeInv
    <2>3. /\ \A q \in Packets, o \in Outcomes :
                 Told(q, o)' <=> Told(q, o) \/ (q = p /\ o = "delivered")
          /\ ReportedOnce' /\ running' \subseteq Packets \X Outcomes
          /\ reports' \in [Packets -> Seq(Outcomes)]
      BY <2>1, <2>2, StartTold DEF Outcomes
    <2>4. TypeOK' /\ (acks \subseteq received)' /\ WriteInv'
      BY <2>1, <2>3 DEF WriteInv
    <2>5. ServeInv'
      BY <2>1, <2>3 DEF ServeInv, Outcomes
    <2>6. DeliveredIsTrue' /\ TimeoutInv'
      BY <2>1, <2>2, <2>3 DEF DeliveredIsTrue, TimeoutInv, Outcomes
    <2>7. AckReported'
      BY <2>1, <2>3 DEF AckReported, Acked, Outcomes
    <2> QED
      BY <2>3, <2>4, <2>5, <2>6, <2>7
  <1>2. CASE TimerFires(p)
    <2>1. /\ timer[p] = "armed" /\ timer' = [timer EXCEPT ![p] = "fired"]
          /\ running' = running \cup {<<p, "timeout">>}
          /\ UNCHANGED <<wpc, spc, sendQueue, delivery, deliveryTimer, network, reports, early,
                         panicked>>
      BY <1>2 DEF TimerFires
    <2>2. ~Told(p, "timeout")
      BY <2>1 DEF TimeoutInv
    <2>3. /\ \A q \in Packets, o \in Outcomes :
                 Told(q, o)' <=> Told(q, o) \/ (q = p /\ o = "timeout")
          /\ ReportedOnce' /\ running' \subseteq Packets \X Outcomes
          /\ reports' \in [Packets -> Seq(Outcomes)]
      BY <2>1, <2>2, StartTold DEF Outcomes
    <2>4. TypeOK' /\ (acks \subseteq received)' /\ WriteInv'
      BY <2>1, <2>3 DEF WriteInv
    <2>5. ServeInv'
      BY <2>1, <2>3 DEF ServeInv, Outcomes
    <2>6. DeliveredIsTrue' /\ TimeoutInv'
      BY <2>1, <2>3 DEF DeliveredIsTrue, TimeoutInv, Outcomes
    <2>7. AckReported'
      BY <2>1, <2>3 DEF AckReported, Acked, Outcomes
    <2> QED
      BY <2>3, <2>4, <2>5, <2>6, <2>7
  <1>3. ASSUME NEW outcome \in Outcomes, Report(p, outcome) PROVE Inv'
    <2>1. /\ UNCHANGED <<wpc, spc, sendQueue, packet, network, early, panicked>>
          /\ \A q \in Packets, o \in Outcomes : Told(q, o)' <=> Told(q, o)
      BY <1>3, ReportTold DEF Report
    <2>2. TypeOK' /\ (acks \subseteq received)' /\ WriteInv'
      BY <1>3, <2>1 DEF Report, WriteInv
    <2>3. ServeInv' /\ DeliveredIsTrue' /\ TimeoutInv' /\ AckReported'
      BY <2>1 DEF ServeInv, DeliveredIsTrue, TimeoutInv, AckReported, Acked, Outcomes
    <2>4. ReportedOnce'
      <3> SUFFICES ASSUME NEW q \in Packets, NEW o \in Outcomes
                   PROVE  /\ \A i, j \in DOMAIN reports'[q] :
                                reports'[q][i] = o /\ reports'[q][j] = o => i = j
                          /\ <<q, o>> \in running' =>
                                \A i \in DOMAIN reports'[q] : reports'[q][i] # o
        BY DEF ReportedOnce
      <3>1. CASE q # p
        BY <1>3, <3>1 DEF Report, ReportedOnce
      <3>2. CASE q = p
        <4>1. reports'[p] = Append(reports[p], outcome) /\ reports[p] \in Seq(Outcomes)
          BY <1>3 DEF Report
        <4>2. CASE o = outcome
          <5>1. \A i \in DOMAIN reports[p] : reports[p][i] # o
            BY <1>3, <4>2 DEF Report, ReportedOnce
          <5> QED
            BY <1>3, <3>2, <4>1, <4>2, <5>1 DEF Report
        <4>3. CASE o # outcome
          <5>1. \A i, j \in DOMAIN reports[p] :
                    reports[p][i] = o /\ reports[p][j] = o => i = j
            BY DEF ReportedOnce
          <5>2. <<p, o>> \in running => \A i \in DOMAIN reports[p] : reports[p][i] # o
            BY DEF ReportedOnce
          <5> QED
            BY <1>3, <3>2, <4>1, <4>3, <5>1, <5>2 DEF Report
        <4> QED
          BY <4>2, <4>3
      <3> QED
        BY <3>1, <3>2
    <2> QED
      BY <2>2, <2>3, <2>4
  <1> QED
    BY <1>1, <1>2, <1>3

LEMMA InvStep == Inv /\ [Next]_vars => Inv'
  <1> SUFFICES ASSUME Inv, [Next]_vars PROVE Inv'
    OBVIOUS
  <1>1. ASSUME NEW p \in Packets, Receive(p) PROVE Inv'
    <2>1. /\ UNCHANGED <<wpc, spc, sendQueue, packet, destroyed, told, early, panicked>>
          /\ received' = received \cup {p} /\ acks' = acks \cup {p}
          /\ wpc[p] \notin {"idle", "checked"}
      BY <1>1 DEF Receive, Inv, WriteInv
    <2>2. \A q \in Packets, o \in Outcomes : Told(q, o)' <=> Told(q, o)
      BY <2>1, Untold
    <2> QED
      BY <2>1, <2>2, Untold
         DEF Inv, TypeOK, WriteInv, ServeInv, TimeoutInv, DeliveredIsTrue, AckReported, Acked,
             packet, Outcomes
  <1>2. CASE Destroy \/ UNCHANGED vars
    <2>1. /\ UNCHANGED <<wpc, spc, sendQueue, packet, received, acks, told, early, panicked>>
          /\ destroyed' \in BOOLEAN
      BY <1>2 DEF Destroy, vars, network, Inv, TypeOK
    <2>2. \A q \in Packets, o \in Outcomes : Told(q, o)' <=> Told(q, o)
      BY <2>1, Untold
    <2> QED
      BY <2>1, <2>2, Untold
         DEF Inv, TypeOK, WriteInv, ServeInv, TimeoutInv, DeliveredIsTrue, AckReported, Acked,
             packet, Outcomes
  <1> QED
    BY <1>1, <1>2, WriteStep, AckStep, CallbackStep DEF Next, ServeAck

LEMMA Invariant == Spec => []Inv
  BY InvInit, InvStep, PTL DEF Spec

\* Callbacks, timers and queues keep their types.
THEOREM TypeCorrect == Spec => []TypeOK
  <1>1. Inv => TypeOK
    BY DEF Inv
  <1> QED
    BY <1>1, Invariant, PTL

\* Each outcome is reported at most once, however often packets and acks are
\* repeated.
THEOREM Once == Spec => []ReportedOnce
  <1>1. Inv => ReportedOnce
    BY DEF Inv
  <1> QED
    BY <1>1, Invariant, PTL

\* A reported delivery has taken place.
THEOREM TrueReport == Spec => []DeliveredIsTrue
  <1>1. Inv => DeliveredIsTrue
    BY DEF Inv
  <1> QED
    BY <1>1, Invariant, PTL

\* An ack is reported and does no harm, unless serve was in the middle of
\* SetDelivery with it.
THEOREM AckTold == Spec => []AckReported
  <1>1. Inv => AckReported
    BY DEF Inv
  <1> QED
    BY <1>1, Invariant, PTL

=============================================================================
