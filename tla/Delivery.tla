------------------------------ MODULE Delivery ------------------------------
(***************************************************************************)
(* The delivery callback of WriteTo: the application hands over a function *)
(* and a timeout; the function is called without an error when the ack of  *)
(* the packet arrives and with an error when the timeout passes.           *)
(*                                                                         *)
(* writeTo files the packet in the send queue first; from there it can be  *)
(* retransmitted and acked at once.  SetDelivery comes after that and has  *)
(* three steps: the callback is stored, time.AfterFunc starts a timer, and *)
(* a copy of that timer is stored.  serve takes no lock that writeTo has:  *)
(* it may come in before each of the steps.  Stop on a timer that nobody   *)
(* has initialised is a panic.  Stop on the copy leaves the timer that was *)
(* started running, so it is a step without an effect on it.               *)
(*                                                                         *)
(* Packets do not share any of this state, and their ids are distinct      *)
(* while they are queued (module Transfer), so a packet is named by its id.*)
(***************************************************************************)
EXTENDS Naturals, Sequences

CONSTANT Packets    \* packets written with a delivery callback

VARIABLES
    wpc,            \* where writeTo is with the packet
    spc,            \* where serve is with the packet's ack
    sendQueue,      \* packets in the send queue
    delivery,       \* packets whose callback is stored
    deliveryTimer,  \* packets whose copy of a timer is stored
    timer,          \* the timer: "none", "armed" or "fired"
    received,       \* packets the other end has received
    acks,           \* acks on the network; they may be repeated or get lost
    destroyed,      \* the channel is destroyed
    running,        \* callbacks started as goroutines and not yet run
    reports,        \* reports[p]: what the callback was told, in order
    early,          \* packets acked before SetDelivery was over, to compare with
    panicked        \* the process has ended

packet == <<delivery, deliveryTimer, timer>>
network == <<received, acks, destroyed>>
told == <<running, reports>>
vars == <<wpc, spc, sendQueue, packet, network, told, early, panicked>>

Outcomes == {"delivered", "timeout"}

TypeOK ==
    /\ wpc \in [Packets -> {"idle", "checked", "queued", "stored", "started", "set", "done"}]
    /\ spc \in [Packets -> {"no", "found", "stop"}]
    /\ sendQueue \subseteq Packets
    /\ delivery \subseteq Packets
    /\ deliveryTimer \subseteq Packets
    /\ timer \in [Packets -> {"none", "armed", "fired"}]
    /\ received \subseteq Packets
    /\ acks \subseteq Packets
    /\ destroyed \in BOOLEAN
    /\ running \subseteq Packets \X Outcomes
    /\ reports \in [Packets -> Seq(Outcomes)]
    /\ early \subseteq Packets
    /\ panicked \in BOOLEAN

Init ==
    /\ wpc = [p \in Packets |-> "idle"]
    /\ spc = [p \in Packets |-> "no"]
    /\ sendQueue = {}
    /\ delivery = {} /\ deliveryTimer = {}
    /\ timer = [p \in Packets |-> "none"]
    /\ received = {} /\ acks = {} /\ destroyed = FALSE
    /\ running = {}
    /\ reports = [p \in Packets |-> << >>]
    /\ early = {}
    /\ panicked = FALSE

-----------------------------------------------------------------------------
(***************************************************************************)
(* writeTo.                                                                *)
(***************************************************************************)

\* A step of writeTo with packet p.
Goes(p, from, to) ==
    /\ ~panicked
    /\ wpc[p] = from
    /\ wpc' = [wpc EXCEPT ![p] = to]

\* The channel is looked at once, before the delay that flow control asks for.
WriteTo(p) ==
    /\ Goes(p, "idle", "checked")
    /\ ~destroyed
    /\ UNCHANGED <<spc, sendQueue, packet, network, told, early, panicked>>

\* The packet is filed in the send queue.
Add(p) ==
    /\ Goes(p, "checked", "queued")
    /\ sendQueue' = sendQueue \cup {p}
    /\ UNCHANGED <<spc, packet, network, told, early, panicked>>

\* SetDelivery stores the callback,
StoreDelivery(p) ==
    /\ Goes(p, "queued", "stored")
    /\ delivery' = delivery \cup {p}
    /\ UNCHANGED <<spc, sendQueue, deliveryTimer, timer, network, told, early, panicked>>

\* no timer is started (a mistake, for comparison),
StartTimerNot(p) ==
    /\ Goes(p, "stored", "started")
    /\ UNCHANGED <<spc, sendQueue, packet, network, told, early, panicked>>

\* starts the timer,
StartTimer(p) ==
    /\ Goes(p, "stored", "started")
    /\ timer' = [timer EXCEPT ![p] = "armed"]
    /\ UNCHANGED <<spc, sendQueue, delivery, deliveryTimer, network, told, early, panicked>>

\* and stores a copy of it.
StoreTimer(p) ==
    /\ Goes(p, "started", "set")
    /\ deliveryTimer' = deliveryTimer \cup {p}
    /\ UNCHANGED <<spc, sendQueue, delivery, timer, network, told, early, panicked>>

\* The packet is passed to the sender process.
WriteToSender(p) ==
    /\ Goes(p, "set", "done")
    /\ UNCHANGED <<spc, sendQueue, packet, network, told, early, panicked>>

-----------------------------------------------------------------------------
(***************************************************************************)
(* The network and the ack.                                                *)
(***************************************************************************)

\* The network brings the packet to the other end, which acks it: after
\* writeTo sent it, or after a pass of the retransmit timer did.
Receive(p) ==
    /\ ~panicked
    /\ wpc[p] = "done" \/ p \in sendQueue
    /\ received' = received \cup {p}
    /\ acks' = acks \cup {p}
    /\ UNCHANGED <<wpc, spc, sendQueue, packet, destroyed, told, early, panicked>>

\* serve, one ack at a time, has an ack of a channel that is there.
Serves(p) ==
    /\ ~panicked
    /\ ~destroyed
    /\ p \in acks
    /\ \A q \in Packets : spc[q] = "no"
    /\ spc' = [spc EXCEPT ![p] = "found"]
    /\ early' = IF wpc[p] \in {"queued", "stored", "started"} THEN early \cup {p} ELSE early
    /\ UNCHANGED <<wpc, packet, network, told, panicked>>

\* ReceiveAck that does not look for the packet (a mistake, for comparison).
ReceiveAckAny(p) == Serves(p) /\ sendQueue' = sendQueue \ {p}

\* ReceiveAck that finds the packet but leaves it queued (a mistake, for
\* comparison).
ReceiveAckKeeps(p) == Serves(p) /\ p \in sendQueue /\ UNCHANGED sendQueue

\* serve takes the packet from the send queue.  An ack for a packet that is not
\* there is dropped.
ReceiveAck(p) == Serves(p) /\ p \in sendQueue /\ sendQueue' = sendQueue \ {p}

\* It looks for the packet's callback: none, and the ack is done with.
FindDelivery(p) ==
    /\ ~panicked
    /\ spc[p] = "found"
    /\ spc' = [spc EXCEPT ![p] = IF p \in delivery THEN "stop" ELSE "no"]
    /\ UNCHANGED <<wpc, sendQueue, packet, network, told, early, panicked>>

\* The callback is started only if the timer has not fired (a mistake, for
\* comparison).
ReportDeliveryInTime(p) ==
    /\ ~panicked
    /\ spc[p] = "stop" /\ p \in deliveryTimer
    /\ spc' = [spc EXCEPT ![p] = "no"]
    /\ running' = IF timer[p] = "armed" THEN running \cup {<<p, "delivered">>} ELSE running
    /\ UNCHANGED <<wpc, sendQueue, packet, network, reports, early, panicked>>

\* It calls Stop on the copy of the timer, see above, and starts the callback.
ReportDelivery(p) ==
    /\ ~panicked
    /\ spc[p] = "stop" /\ p \in deliveryTimer
    /\ spc' = [spc EXCEPT ![p] = "no"]
    /\ running' = running \cup {<<p, "delivered">>}
    /\ UNCHANGED <<wpc, sendQueue, packet, network, reports, early, panicked>>

\* There is no copy yet: Stop finds a timer that was never initialised.
StopPanics(p) ==
    /\ ~panicked
    /\ spc[p] = "stop" /\ p \notin deliveryTimer
    /\ panicked' = TRUE
    /\ UNCHANGED <<wpc, spc, sendQueue, packet, network, told, early>>

\* The delivery timeout passes; the packet stays in the send queue.
TimerFires(p) ==
    /\ ~panicked
    /\ timer[p] = "armed"
    /\ timer' = [timer EXCEPT ![p] = "fired"]
    /\ running' = running \cup {<<p, "timeout">>}
    /\ UNCHANGED <<wpc, spc, sendQueue, delivery, deliveryTimer, network, reports, early, panicked>>

\* A started callback runs.
Report(p, outcome) ==
    /\ ~panicked
    /\ <<p, outcome>> \in running
    /\ running' = running \ {<<p, outcome>>}
    /\ reports' = [reports EXCEPT ![p] = Append(@, outcome)]
    /\ UNCHANGED <<wpc, spc, sendQueue, packet, network, early, panicked>>

\* The channel is destroyed: no ack is served any more, the timers of its
\* packets keep running.
Destroy ==
    /\ ~panicked
    /\ ~destroyed
    /\ destroyed' = TRUE
    /\ UNCHANGED <<wpc, spc, sendQueue, packet, received, acks, told, early, panicked>>

SetDelivery(p) == StoreDelivery(p) \/ StartTimer(p) \/ StoreTimer(p)

ServeAck(p) == ReceiveAck(p) \/ FindDelivery(p) \/ ReportDelivery(p) \/ StopPanics(p)

Next ==
    \/ \E p \in Packets :
          \/ WriteTo(p) \/ Add(p) \/ SetDelivery(p) \/ WriteToSender(p)
          \/ Receive(p) \/ ServeAck(p) \/ TimerFires(p)
          \/ \E outcome \in Outcomes : Report(p, outcome)
    \/ Destroy

Spec == Init /\ [][Next]_vars

\* Goroutines run on and a timer that is armed fires.  Nothing is assumed of
\* the network.
Fairness ==
    \A p \in Packets :
        /\ WF_vars(SetDelivery(p))
        /\ WF_vars(WriteToSender(p))
        /\ WF_vars(FindDelivery(p) \/ ReportDelivery(p) \/ StopPanics(p))
        /\ WF_vars(TimerFires(p))
        /\ \A outcome \in Outcomes : WF_vars(Report(p, outcome))

FairSpec == Spec /\ Fairness

-----------------------------------------------------------------------------
(***************************************************************************)
(* Correctness.                                                            *)
(***************************************************************************)

\* The callback of packet p has been told this, or is going to be.
Told(p, outcome) ==
    \/ <<p, outcome>> \in running
    \/ \E i \in DOMAIN reports[p] : reports[p][i] = outcome

\* Repeated acks and a packet received many times report a delivery once, and
\* a timeout is reported once (serve and SetDelivery).
ReportedOnce ==
    \A p \in Packets, outcome \in Outcomes :
        /\ \A i, j \in DOMAIN reports[p] :
               reports[p][i] = outcome /\ reports[p][j] = outcome => i = j
        /\ <<p, outcome>> \in running =>
               \A i \in DOMAIN reports[p] : reports[p][i] # outcome

\* "delivered" is true: it is only reported of a packet that the other end has
\* received, and that will not be sent again (serve, status ack).
DeliveredIsTrue ==
    \A p \in Packets : Told(p, "delivered") => p \in received /\ p \notin sendQueue

\* serve has done with the ack that took the packet from the send queue.
Acked(p) == wpc[p] \notin {"idle", "checked"} /\ p \notin sendQueue /\ spc[p] = "no"

\* The ack of a packet is told to its callback, also after the timeout, and
\* ends no process, unless it was served before SetDelivery had returned
\* (writeTo, which files the packet first, and serve).
AckReported ==
    /\ \A p \in Packets : Acked(p) => Told(p, "delivered") \/ p \in early
    /\ panicked => early # {}

\* A callback is told something of every packet, whatever becomes of the
\* network and of the channel, if the process is not ended by an ack that was
\* served before SetDelivery had returned (SetDelivery and its timer).
EventuallyReported ==
    \A p \in Packets :
        wpc[p] = "queued" ~> reports[p] # << >> \/ (panicked /\ early # {})

\* Once a callback was told of the delivery, it is not told of a timeout: serve
\* stops the timer before it starts the callback.
NoTimeoutAfterDelivery ==
    [][\A p \in Packets :
          Told(p, "delivered") /\ ~Told(p, "timeout") => ~Told(p, "timeout")']_vars

=============================================================================
