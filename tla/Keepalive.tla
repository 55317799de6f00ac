----------------------------- MODULE Keepalive ------------------------------
(***************************************************************************)
(* An idle channel.  Each end has a timer that looks every Check how long  *)
(* ago the last packet came: after more than DeadAfter it destroys the     *)
(* channel, after more than PingAfter the client sends a ping, which the   *)
(* server answers with a pong.  The timer arms itself again at the end of  *)
(* each look, also when the channel was destroyed in the middle of it.     *)
(*                                                                         *)
(* Time passes in steps of Tick.  What is due happens before time goes on: *)
(* a timer fires at most Jitter late, a datagram is on its way at most     *)
(* Latency.                                                                *)
(***************************************************************************)
EXTENDS Naturals

CONSTANTS
    Check,       \* checkInactiveAfter
    PingAfter,   \* pingInactiveAfter
    DeadAfter,   \* disconnectInactiveAfter
    Jitter,      \* bound: how late a timer's function starts
    Latency,     \* bound: how long a datagram is on its way
    MaxLost      \* bound: pings and pongs lost since the client had a pong

ASSUME KeepaliveAssumption ==
    /\ Check \in Nat \ {0}
    /\ PingAfter \in Nat
    /\ DeadAfter \in Nat
    /\ Jitter \in Nat
    /\ Latency \in 0 .. Check - 1
    /\ MaxLost \in Nat

Ends == {"client", "server"}
Peer(e) == IF e = "client" THEN "server" ELSE "client"

\* When an end has noticed at the latest that nothing comes.
Noticed == DeadAfter + Check + Jitter

\* How long one end may be destroyed and the other not: the last datagram comes
\* Latency later.
HalfOpenBound == Noticed + Latency

Stopped == Check + Jitter + 1

VARIABLES
    destroyed,   \* statistic.destroyed of each end
    idle,        \* time since lastActivity, while the timer is armed
    armed,       \* time since the timer was armed, Stopped if it is not
    look,        \* the timer's function: "no", "rearm" or "inactive" to come
    net,         \* datagrams on their way
    lost,        \* pings and pongs lost since the client had a pong
    closed,      \* the application has called Close at an end
    halfOpen     \* how long one end is destroyed and the other is not

vars == <<destroyed, idle, armed, look, net, lost, closed, halfOpen>>

Datagram(type, to) == [type |-> type, to |-> to, age |-> 0]

Datagrams ==
    [type : {"ping"}, to : {"server"}, age : 0 .. Latency]
    \cup [type : {"pong"}, to : {"client"}, age : 0 .. Latency]
    \cup [type : {"disconnect"}, to : Ends, age : 0 .. Latency]

TypeOK ==
    /\ destroyed \in [Ends -> BOOLEAN]
    /\ idle \in [Ends -> 0 .. Noticed]
    /\ armed \in [Ends -> 0 .. Stopped]
    /\ look \in [Ends -> {"no", "rearm", "inactive"}]
    /\ net \subseteq Datagrams
    /\ lost \in 0 .. MaxLost
    /\ closed \in BOOLEAN
    /\ halfOpen \in 0 .. HalfOpenBound + 1

\* The server's channel is the older by the trip of its answer.
Init ==
    /\ destroyed = [e \in Ends |-> FALSE]
    /\ \E age \in 0 .. Latency :
          /\ idle = [e \in Ends |-> IF e = "server" THEN age ELSE 0]
          /\ armed = idle
    /\ look = [e \in Ends |-> "no"]
    /\ net = {}
    /\ lost = 0
    /\ closed = FALSE
    /\ halfOpen = 0

-----------------------------------------------------------------------------
(***************************************************************************)
(* The timer of checkActivity.                                             *)
(***************************************************************************)
Armed(e) == armed[e] # Stopped

\* CheckActivity with the two cases the other way round (a mistake, for
\* comparison).
CheckActivitySwapped(e) ==
    /\ Armed(e) /\ armed[e] >= Check
    /\ armed' = [armed EXCEPT ![e] = Stopped]
    /\ look' = [look EXCEPT ![e] = "rearm"]
    /\ net' = IF e = "client" /\ idle[e] > PingAfter /\ ~destroyed[e]
              THEN net \cup {Datagram("ping", "server")}
              ELSE net
    /\ UNCHANGED <<destroyed, idle, lost, closed, halfOpen>>

\* The timer fires and its function looks at lastActivity.  A ping is written
\* on a channel that is not destroyed.
CheckActivity(e) ==
    /\ Armed(e) /\ armed[e] >= Check
    /\ armed' = [armed EXCEPT ![e] = Stopped]
    /\ look' = [look EXCEPT ![e] = IF idle[e] > DeadAfter THEN "inactive" ELSE "rearm"]
    /\ net' = IF e = "client" /\ idle[e] \in PingAfter + 1 .. DeadAfter /\ ~destroyed[e]
              THEN net \cup {Datagram("ping", "server")}
              ELSE net
    /\ UNCHANGED <<destroyed, idle, lost, closed, halfOpen>>

\* Rearm that leaves the timer as it is (a mistake, for comparison).
RearmNot(e) ==
    /\ look[e] = "rearm"
    /\ look' = [look EXCEPT ![e] = "no"]
    /\ UNCHANGED <<destroyed, idle, armed, net, lost, closed, halfOpen>>

\* The function calls checkActivity at its end, which arms the timer.
Rearm(e) ==
    /\ look[e] = "rearm"
    /\ look' = [look EXCEPT ![e] = "no"]
    /\ armed' = [armed EXCEPT ![e] = 0]
    /\ UNCHANGED <<destroyed, idle, net, lost, closed, halfOpen>>

\* Inactive without the return (a mistake, for comparison).
InactiveRearm(e) ==
    /\ look[e] = "inactive"
    /\ look' = [look EXCEPT ![e] = "rearm"]
    /\ destroyed' = [destroyed EXCEPT ![e] = TRUE]
    /\ UNCHANGED <<idle, armed, net, lost, closed, halfOpen>>

\* inactive destroys the channel, or destroys it again; nobody is told.
Inactive(e) ==
    /\ look[e] = "inactive"
    /\ look' = [look EXCEPT ![e] = "no"]
    /\ destroyed' = [destroyed EXCEPT ![e] = TRUE]
    /\ UNCHANGED <<idle, armed, net, lost, closed, halfOpen>>

-----------------------------------------------------------------------------
(***************************************************************************)
(* Other goroutines.                                                       *)
(***************************************************************************)

\* destroy stops the timer if it is armed; a function that runs already goes on.
Destroy(e) ==
    /\ destroyed' = [destroyed EXCEPT ![e] = TRUE]
    /\ armed' = [armed EXCEPT ![e] = Stopped]

\* The application closes the channel.
Close(e) ==
    /\ ~destroyed[e]
    /\ Destroy(e)
    /\ net' = net \cup {Datagram("disconnect", Peer(e))}
    /\ closed' = TRUE
    /\ UNCHANGED <<idle, look, lost, halfOpen>>

\* ServePing that does not count as activity (a mistake, for comparison).
ServePingOnly(d) ==
    /\ d.type = "ping" /\ ~destroyed["server"]
    /\ net' = (net \ {d}) \cup {Datagram("pong", "client")}
    /\ UNCHANGED <<destroyed, idle, armed, look, lost, closed, halfOpen>>

ServePing(d) ==
    /\ d.type = "ping" /\ ~destroyed["server"]
    /\ net' = (net \ {d}) \cup {Datagram("pong", "client")}
    /\ idle' = [idle EXCEPT !["server"] = 0]
    /\ UNCHANGED <<destroyed, armed, look, lost, closed, halfOpen>>

ServePong(d) ==
    /\ d.type = "pong" /\ ~destroyed["client"]
    /\ net' = net \ {d}
    /\ idle' = [idle EXCEPT !["client"] = 0]
    /\ lost' = 0
    /\ UNCHANGED <<destroyed, armed, look, closed, halfOpen>>

ServeDisconnect(d) ==
    /\ d.type = "disconnect" /\ ~destroyed[d.to]
    /\ net' = net \ {d}
    /\ Destroy(d.to)
    /\ UNCHANGED <<idle, look, lost, closed, halfOpen>>

\* A datagram for an address that has no channel.
ServeNothing(d) ==
    /\ destroyed[d.to]
    /\ net' = net \ {d}
    /\ UNCHANGED <<destroyed, idle, armed, look, lost, closed, halfOpen>>

\* The network loses a disconnect packet, or one of a few pings and pongs.
Lose(d) ==
    /\ net' = net \ {d}
    /\ IF d.type = "disconnect" THEN UNCHANGED lost ELSE lost < MaxLost /\ lost' = lost + 1
    /\ UNCHANGED <<destroyed, idle, armed, look, closed, halfOpen>>

-----------------------------------------------------------------------------
Older(d) == [type |-> d.type, to |-> d.to, age |-> d.age + 1]

\* Time passes, when nothing is overdue.
Tick ==
    /\ \A e \in Ends : look[e] = "no" /\ (Armed(e) => armed[e] < Check + Jitter)
    /\ \A d \in net : d.age < Latency
    /\ idle' = [e \in Ends |-> IF Armed(e) /\ idle[e] <= Noticed THEN idle[e] + 1 ELSE idle[e]]
    /\ armed' = [e \in Ends |-> IF Armed(e) THEN armed[e] + 1 ELSE Stopped]
    /\ net' = {Older(d) : d \in net}
    /\ halfOpen' = IF destroyed["client"] # destroyed["server"] /\ halfOpen <= HalfOpenBound
                   THEN halfOpen + 1
                   ELSE halfOpen
    /\ UNCHANGED <<destroyed, look, lost, closed>>

Serve(d) ==
    ServePing(d) \/ ServePong(d) \/ ServeDisconnect(d) \/ ServeNothing(d) \/ Lose(d)

TimerNext(e) == CheckActivity(e) \/ Rearm(e) \/ Inactive(e)

Next ==
    \/ \E e \in Ends : TimerNext(e) \/ Close(e)
    \/ \E d \in net : Serve(d)
    \/ Tick

Spec == Init /\ [][Next]_vars

\* Time passes, timers fire, their functions run on, and a datagram does not
\* stay on its way.
FairSpec ==
    /\ Spec
    /\ WF_vars(Tick)
    /\ \A e \in Ends : WF_vars(TimerNext(e))
    /\ WF_vars(\E d \in net : Serve(d))

-----------------------------------------------------------------------------
(***************************************************************************)
(* Correctness.                                                            *)
(***************************************************************************)

\* What the three times of statistic.go must leave room for: the slowest first
\* ping, those that repeat the lost ones, and the way there and back.
Margin == PingAfter + (MaxLost + 1) * (Check + Jitter) + 2 * Latency <= DeadAfter

\* An idle channel lives at both ends until an application closes it, although
\* the server never asks and some pings and pongs are lost (checkActivity).
IdleLives == Margin /\ ~closed => \A e \in Ends : ~destroyed[e]

\* When one end is gone, the other goes within DeadAfter, a look of its timer and
\* the last datagram's way, although inactive tells nobody and the disconnect
\* packet is sent once.
HalfOpenEnds ==
    destroyed["client"] # destroyed["server"] => halfOpen <= HalfOpenBound

\* A destroyed channel's timer, even when it was armed again after destroy had
\* stopped it, stops for good: it does not destroy again and again by address.
TimerStops ==
    \A e \in Ends : destroyed[e] ~> [](~Armed(e) /\ look[e] = "no")

=============================================================================
