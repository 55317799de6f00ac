-------------------------- MODULE KeepaliveProofs ---------------------------
(***************************************************************************)
(* Proofs about Keepalive, for any times, delays and losses.               *)
(***************************************************************************)
EXTENDS Keepalive, TLAPS

\* An end that looks and goes on had a packet within DeadAfter; so the time
\* since is at most that and the time since the look.
LookInv ==
    \A e \in Ends :
        /\ Armed(e) => idle[e] <= DeadAfter + armed[e]
        /\ look[e] = "rearm" => idle[e] <= DeadAfter
        /\ ~destroyed[e] => Armed(e) \/ look[e] # "no"

\* An end whose peer is gone had no packet since, but for what was on its way.
SilenceInv ==
    /\ (\A e \in Ends : ~destroyed[e]) => halfOpen = 0
    /\ \A e \in Ends :
          ~destroyed[e] /\ destroyed[Peer(e)] =>
             /\ halfOpen <= idle[e] + Latency
             /\ \A d \in net : d.to = e /\ d.type # "disconnect" => halfOpen <= d.age

IInv == TypeOK /\ LookInv /\ SilenceInv

LEMMA InitIInv == Init => IInv
  <1> SUFFICES ASSUME Init PROVE IInv
    OBVIOUS
  <1> USE KeepaliveAssumption DEF Init, Ends, Stopped, Noticed, HalfOpenBound
  <1>1. TypeOK
    <2>1. idle \in [Ends -> 0 .. Noticed] /\ armed \in [Ends -> 0 .. Stopped]
      <3>1. PICK age \in 0 .. Latency :
                /\ idle = [e \in Ends |-> IF e = "server" THEN age ELSE 0]
                /\ armed = idle
        OBVIOUS
      <3>2. Latency \in Nat /\ Latency <= Noticed /\ Latency <= Stopped
        OBVIOUS
      <3>3. 0 \in 0 .. Noticed /\ age \in 0 .. Noticed
        BY <3>2
      <3>4. 0 \in 0 .. Stopped /\ age \in 0 .. Stopped
        BY <3>2
      <3> QED
        BY <3>1, <3>3, <3>4
    <2>2. /\ destroyed \in [Ends -> BOOLEAN]
          /\ look \in [Ends -> {"no", "rearm", "inactive"}]
      OBVIOUS
    <2>3. lost \in 0 .. MaxLost /\ halfOpen \in 0 .. HalfOpenBound + 1
      OBVIOUS
    <2> QED
      BY <2>1, <2>2, <2>3 DEF TypeOK
  <1>2. LookInv
    BY DEF LookInv, Armed
  <1>3. SilenceInv
    BY DEF SilenceInv
  <1> QED
    BY <1>1, <1>2, <1>3 DEF IInv

\* The timer's function, and Close.
LEMMA EndStep ==
    ASSUME IInv, NEW e \in Ends, TimerNext(e) \/ Close(e)
    PROVE  IInv'
  <1> USE KeepaliveAssumption
       DEF IInv, TypeOK, LookInv, SilenceInv, Ends, Stopped, Noticed, HalfOpenBound,
           Armed, Peer, Datagram, Datagrams
  <1>1. CASE CheckActivity(e)
    <2> USE <1>1 DEF CheckActivity
    <2>1. TypeOK'
      OBVIOUS
    <2>2. LookInv'
      OBVIOUS
    <2>3. SilenceInv'
      OBVIOUS
    <2> QED
      BY <2>1, <2>2, <2>3
  <1>2. CASE Rearm(e)
    BY <1>2 DEF Rearm
  <1>3. CASE Inactive(e)
    BY <1>3 DEF Inactive
  <1>4. CASE Close(e)
    <2> USE <1>4 DEF Close, Destroy
    <2>1. TypeOK'
      OBVIOUS
    <2>2. LookInv'
      OBVIOUS
    <2>3. SilenceInv'
      OBVIOUS
    <2> QED
      BY <2>1, <2>2, <2>3
  <1> QED
    BY <1>1, <1>2, <1>3, <1>4 DEF TimerNext

\* The listen goroutines, and the network.
LEMMA ServeStep ==
    ASSUME IInv, NEW d \in net, Serve(d)
    PROVE  IInv'
  <1> USE KeepaliveAssumption
       DEF IInv, TypeOK, LookInv, SilenceInv, Ends, Stopped, Noticed, HalfOpenBound,
           Armed, Peer, Datagram, Datagrams
  <1>1. CASE ServePing(d)
    <2> USE <1>1 DEF ServePing
    <2>1. TypeOK'
      OBVIOUS
    <2>2. LookInv'
      OBVIOUS
    <2>3. SilenceInv'
      OBVIOUS
    <2> QED
      BY <2>1, <2>2, <2>3
  <1>2. CASE ServePong(d)
    <2> USE <1>2 DEF ServePong
    <2>1. TypeOK'
      OBVIOUS
    <2>2. LookInv'
      OBVIOUS
    <2>3. SilenceInv'
      OBVIOUS
    <2> QED
      BY <2>1, <2>2, <2>3
  <1>3. CASE ServeDisconnect(d)
    BY <1>3 DEF ServeDisconnect, Destroy
  <1>4. CASE ServeNothing(d)
    BY <1>4 DEF ServeNothing
  <1>5. CASE Lose(d)
    BY <1>5 DEF Lose
  <1> QED
    BY <1>1, <1>2, <1>3, <1>4, <1>5 DEF Serve

LEMMA TickStep ==
    ASSUME IInv, Tick
    PROVE  IInv'
  <1> USE KeepaliveAssumption
       DEF IInv, TypeOK, LookInv, SilenceInv, Ends, Stopped, Noticed, HalfOpenBound,
           Armed, Peer, Datagrams, Older, Tick
  <1>1. TypeOK'
    OBVIOUS
  <1>2. LookInv'
    OBVIOUS
  <1>3. SilenceInv'
    OBVIOUS
  <1> QED
    BY <1>1, <1>2, <1>3

LEMMA NextIInv == IInv /\ [Next]_vars => IInv'
  <1> SUFFICES ASSUME IInv, [Next]_vars PROVE IInv'
    OBVIOUS
  <1>1. CASE Next
    BY <1>1, EndStep, ServeStep, TickStep DEF Next
  <1>2. CASE UNCHANGED vars
    BY <1>2 DEF vars, IInv, TypeOK, LookInv, SilenceInv, Armed
  <1> QED
    BY <1>1, <1>2

THEOREM Invariance == Spec => []IInv
  BY InitIInv, NextIInv, PTL DEF Spec

\* The variables keep their types; among them, a channel that is alive has had a
\* packet within DeadAfter, Check and Jitter (checkActivity).
THEOREM TypeCorrect == Spec => []TypeOK
  <1>1. IInv => TypeOK
    BY DEF IInv
  <1> QED
    BY <1>1, Invariance, PTL

\* When one end is gone, the other goes in time (checkActivity, destroy, Close),
\* whatever the times are and whatever the network loses.
THEOREM HalfOpen == Spec => []HalfOpenEnds
  <1>1. IInv => HalfOpenEnds
    <2> SUFFICES ASSUME IInv, destroyed["client"] # destroyed["server"]
                 PROVE  halfOpen <= HalfOpenBound
      BY DEF HalfOpenEnds
    <2>1. PICK e \in Ends : ~destroyed[e] /\ destroyed[Peer(e)]
      BY DEF IInv, TypeOK, Ends, Peer
    <2>2. idle[e] \in 0 .. Noticed /\ halfOpen \in Nat
      BY KeepaliveAssumption DEF IInv, TypeOK, Noticed, HalfOpenBound
    <2> QED
      BY <2>1, <2>2, KeepaliveAssumption DEF IInv, SilenceInv, HalfOpenBound, Noticed
  <1> QED
    BY <1>1, Invariance, PTL

-----------------------------------------------------------------------------
(***************************************************************************)
(* An idle channel lives.  Pings and pongs on their way are fresh, when    *)
(* they come from the client's last look, or stale, when they come from    *)
(* the one before; as two ways there and back take less than two looks     *)
(* there is at most one of each, and none is older.  So the looks since    *)
(* the last pong are those whose ping was lost, and at most two more.      *)
(***************************************************************************)

\* What has passed at most when the client has sent n pings in vain.
Budget(n) == PingAfter + n * (Check + Jitter)

\* Time since the client's last look.
Since == IF Armed("client") THEN armed["client"] ELSE 0

Fresh(d) ==
    IF d.type = "ping" THEN d.age = Since
                       ELSE d.age <= Since /\ Since <= Latency + d.age

Stale(d) == d.type = "pong" /\ Since + Check <= Latency + d.age

AliveInv ==
    /\ \A e \in Ends : ~destroyed[e] /\ look[e] # "inactive"
    /\ look["client"] # "no" => ~Armed("client")
    /\ \A d \in net : d.type # "disconnect"

FlightInv ==
    /\ \A d \in net : Fresh(d) \/ Stale(d)
    /\ \A d1, d2 \in net : Fresh(d1) /\ Fresh(d2) => d1 = d2
    /\ \A d1, d2 \in net : Stale(d1) /\ Stale(d2) => d1 = d2

ClientInv ==
    /\ idle["client"] <= Budget(lost + 2) + Since
    /\ (\A d \in net : ~Fresh(d)) \/ (\A d \in net : ~Stale(d))
          => idle["client"] <= Budget(lost + 1) + Since
    /\ net = {} => idle["client"] <= Budget(lost) + Since
    /\ \A d \in net : Stale(d) => idle["client"] <= Budget(lost + 1) + Latency + d.age

ServerInv ==
    /\ idle["server"] <= idle["client"] + Latency
    /\ \A d \in net : d.type = "pong" => idle["server"] <= d.age

Life == AliveInv /\ FlightInv /\ ClientInv /\ ServerInv

LifeInv == ~closed => Life

LEMMA BudgetNat ==
    ASSUME NEW n \in Nat
    PROVE  /\ Budget(n) \in Nat
           /\ PingAfter <= Budget(n)
           /\ Budget(n + 1) = Budget(n) + Check + Jitter
  <1> USE KeepaliveAssumption DEF Budget
  <1>1. n * (Check + Jitter) \in Nat
    OBVIOUS
  <1>2. (n + 1) * (Check + Jitter) = n * (Check + Jitter) + Check + Jitter
    OBVIOUS
  <1> QED
    BY <1>1, <1>2

\* The most a client has spent is within DeadAfter.
LEMMA BudgetMax ==
    ASSUME Margin, NEW n \in 0 .. MaxLost
    PROVE  Budget(n + 1) + 2 * Latency <= DeadAfter
  <1> USE KeepaliveAssumption
  <1>1. (n + 1) * (Check + Jitter) <= (MaxLost + 1) * (Check + Jitter)
    <2>1. \A i, j, p \in Nat : i <= j => i * p <= j * p
      OBVIOUS
    <2> QED
      BY <2>1
  <1>2. /\ (n + 1) * (Check + Jitter) \in Nat
        /\ (MaxLost + 1) * (Check + Jitter) \in Nat
    OBVIOUS
  <1> QED
    BY <1>1, <1>2 DEF Budget, Margin

LEMMA Bounded ==
    ASSUME IInv, Life, Margin, NEW e \in Ends
    PROVE  idle[e] <= DeadAfter
  <1> DEFINE B == Budget(lost)
  <1> USE KeepaliveAssumption
  <1>1. /\ B \in Nat
        /\ Budget(lost + 1) = B + Check + Jitter
        /\ B + Check + Jitter + 2 * Latency <= DeadAfter
    BY BudgetNat, BudgetMax DEF IInv, TypeOK
  <1>2. Since \in Nat /\ Since <= Check + Jitter
    BY DEF Since, Armed, IInv, TypeOK, Stopped, Ends
  <1>3. idle["client"] \in Nat /\ idle["server"] \in Nat
    BY DEF IInv, TypeOK, Ends, Noticed
  <1> HIDE DEF B
  <1>4. CASE net = {}
    BY <1>1, <1>2, <1>3, <1>4 DEF Life, ClientInv, ServerInv, Ends, B
  <1>5. CASE \E d \in net : Stale(d)
    <2>1. PICK d \in net : Stale(d)
      BY <1>5
    <2>2. d.type = "pong" /\ d.age \in Nat /\ d.age <= Latency
      BY <2>1 DEF Stale, IInv, TypeOK, Datagrams
    <2> QED
      BY <1>1, <1>3, <2>1, <2>2 DEF Life, ClientInv, ServerInv, Ends
  <1>6. CASE net # {} /\ \A d \in net : ~Stale(d)
    <2>1. PICK d \in net : Fresh(d)
      BY <1>6 DEF Life, FlightInv
    <2>2. d.age \in Nat /\ d.age <= Latency /\ d.type \in {"ping", "pong"}
      BY DEF Life, AliveInv, IInv, TypeOK, Datagrams
    <2>3. idle["client"] <= B + Check + Jitter + Since
      BY <1>1, <1>6 DEF Life, ClientInv
    <2>4. CASE d.type = "ping"
      BY <1>1, <1>2, <1>3, <2>1, <2>2, <2>3, <2>4 DEF Fresh, Life, ServerInv, Ends
    <2>5. CASE d.type = "pong"
      BY <1>1, <1>2, <1>3, <2>1, <2>2, <2>3, <2>5 DEF Fresh, Life, ServerInv, Ends
    <2> QED
      BY <2>2, <2>4, <2>5
  <1> QED
    BY <1>4, <1>5, <1>6

LEMMA InitLife == Init => Life
  <1> SUFFICES ASSUME Init PROVE Life
    OBVIOUS
  <1> USE KeepaliveAssumption DEF Init, Ends
  <1>1. PICK age \in 0 .. Latency :
           /\ idle = [e \in Ends |-> IF e = "server" THEN age ELSE 0]
           /\ armed = idle
    OBVIOUS
  <1>2. Since = 0
    BY <1>1 DEF Since, Armed
  <1>3. Budget(0) \in Nat /\ Budget(0 + 1) \in Nat /\ Budget(0 + 2) \in Nat
    BY BudgetNat
  <1>4. AliveInv /\ FlightInv /\ ServerInv
    BY <1>1 DEF AliveInv, FlightInv, ServerInv
  <1>5. ClientInv
    BY <1>1, <1>2, <1>3 DEF ClientInv
  <1> QED
    BY <1>4, <1>5 DEF Life

\* What the steps below use of the state.
LEMMA LifeFacts ==
    ASSUME IInv, Life
    PROVE  /\ lost \in Nat
           /\ Budget(lost) \in Nat /\ PingAfter <= Budget(lost)
           /\ Budget(lost + 1) = Budget(lost) + Check + Jitter
           /\ Budget(lost + 2) = Budget(lost) + 2 * (Check + Jitter)
           /\ Budget((lost + 1) + 1) = Budget(lost) + 2 * (Check + Jitter)
           /\ Budget((lost + 1) + 2) = Budget(lost) + 3 * (Check + Jitter)
           /\ Since \in Nat /\ Since <= Check + Jitter
           /\ idle["client"] \in Nat /\ idle["server"] \in Nat
           /\ \A d \in net : d.age \in Nat /\ d.age <= Latency
           /\ \A d \in net : \/ d.type = "ping" /\ d.to = "server"
                             \/ d.type = "pong" /\ d.to = "client"
           /\ \A d1, d2 \in net : d1.type = d2.type /\ d1.age = d2.age => d1 = d2
  <1> USE KeepaliveAssumption
  <1>1. lost \in Nat
    BY DEF IInv, TypeOK
  <1>2. /\ Budget(lost) \in Nat /\ PingAfter <= Budget(lost)
        /\ Budget(lost + 1) = Budget(lost) + Check + Jitter
        /\ Budget((lost + 1) + 1) = Budget(lost + 1) + Check + Jitter
        /\ Budget(((lost + 1) + 1) + 1) = Budget((lost + 1) + 1) + Check + Jitter
    BY <1>1, BudgetNat
  <1>3. (lost + 1) + 1 = lost + 2 /\ ((lost + 1) + 1) + 1 = (lost + 1) + 2
    BY <1>1
  <1>4. Since \in Nat /\ Since <= Check + Jitter
    BY DEF Since, Armed, IInv, TypeOK, Stopped, Ends
  <1>5. idle["client"] \in Nat /\ idle["server"] \in Nat
    BY DEF IInv, TypeOK, Ends, Noticed
  <1>6. /\ \A d \in net : d.age \in Nat /\ d.age <= Latency
        /\ \A d \in net : \/ d.type = "ping" /\ d.to = "server"
                          \/ d.type = "pong" /\ d.to = "client"
        /\ \A d1, d2 \in net : d1.type = d2.type /\ d1.age = d2.age => d1 = d2
    BY DEF IInv, TypeOK, Datagrams, Life, AliveInv
  <1> QED
    BY <1>1, <1>2, <1>3, <1>4, <1>5, <1>6

\* A look of the client, which finds no datagram older than its last look.
LEMMA ClientLooks ==
    ASSUME IInv, Life, Margin, CheckActivity("client")
    PROVE  Life'
  <1> DEFINE i == idle["client"]
             B == Budget(lost)
             P == Check + Jitter
             ping == Datagram("ping", "server")
  <1> USE KeepaliveAssumption, LifeFacts
  <1>1. /\ i <= DeadAfter
        /\ look' = [look EXCEPT !["client"] = "rearm"]
        /\ armed' = [armed EXCEPT !["client"] = Stopped]
        /\ UNCHANGED <<destroyed, idle, lost, closed>>
        /\ ~destroyed["client"]
    <2>1. i <= DeadAfter
      BY Bounded DEF Ends
    <2>2. ~(i > DeadAfter)
      BY <2>1
    <2> QED
      BY <2>1, <2>2 DEF CheckActivity, Life, AliveInv, Ends
  <1>2. IF i > PingAfter THEN net' = net \cup {ping} ELSE net' = net
    BY <1>1, Bounded DEF CheckActivity, Ends
  <1>3. Since >= Check /\ Since' = 0
    BY <1>1 DEF CheckActivity, Since, Armed, IInv, TypeOK, Ends
  <1>4. \A d \in net : d.type = "pong" /\ Fresh(d) /\ ~Stale(d) /\ d # ping
    BY <1>3 DEF Life, FlightInv, Fresh, Stale, Datagram
  <1>5. \A d \in net : ~Fresh(d)' /\ Stale(d)'
    BY <1>3, <1>4 DEF Fresh, Stale
  <1>6. Fresh(ping)' /\ ~Stale(ping)' /\ ping.type = "ping"
    BY <1>3 DEF Fresh, Stale, Datagram
  <1>7. AliveInv'
    BY <1>1, <1>2 DEF Life, AliveInv, Armed, Ends, IInv, TypeOK, Datagram
  <1>8. FlightInv'
    BY <1>2, <1>4, <1>5, <1>6 DEF Life, FlightInv
  <1>9. ClientInv'
    <2>1. net # {} => i <= B + P + Since
      BY <1>4 DEF Life, ClientInv
    <2>2. net = {} => i <= B + Since
      BY DEF Life, ClientInv
    <2>3. i <= PingAfter => i <= B
      OBVIOUS
    <2>4. \A d \in net : i <= B + P + Latency + d.age
      BY <1>4, <2>1 DEF Fresh
    <2>5. CASE i <= PingAfter
      BY <1>1, <1>2, <1>3, <2>3, <2>5 DEF ClientInv
    <2>6. CASE i > PingAfter
      <3>1. i <= B + 2 * P + Since'
        BY <1>3, <2>1, <2>2
      <3>2. (\A d \in net' : ~Stale(d)') => net = {}
        BY <1>2, <1>5
      <3>3. ~ \A d \in net' : ~Fresh(d)'
        BY <1>2, <1>6, <2>6
      <3> QED
        BY <1>1, <1>2, <1>3, <1>6, <2>2, <2>4, <2>6, <3>1, <3>2, <3>3 DEF ClientInv
    <2> QED
      BY <2>5, <2>6
  <1>10. ServerInv'
    BY <1>1, <1>2, <1>6 DEF Life, ServerInv
  <1> QED
    BY <1>7, <1>8, <1>9, <1>10 DEF Life

LEMMA ServerLooks ==
    ASSUME IInv, Life, Margin, CheckActivity("server")
    PROVE  Life'
  <1> USE KeepaliveAssumption, LifeFacts DEF Ends
  <1>1. /\ look' = [look EXCEPT !["server"] = "rearm"]
        /\ armed' = [armed EXCEPT !["server"] = Stopped]
        /\ UNCHANGED <<destroyed, idle, net, lost, closed>>
    <2>1. idle["server"] <= DeadAfter
      BY Bounded
    <2>2. ~(idle["server"] > DeadAfter)
      BY <2>1
    <2> QED
      BY <2>2 DEF CheckActivity
  <1>2. Since' = Since
    BY <1>1 DEF Since, Armed, IInv, TypeOK
  <1>3. AliveInv'
    BY <1>1 DEF Life, AliveInv, Armed, IInv, TypeOK
  <1> QED
    BY <1>1, <1>2, <1>3 DEF Life, FlightInv, ClientInv, ServerInv, Fresh, Stale

LEMMA Rearms ==
    ASSUME IInv, Life, NEW e \in Ends, Rearm(e)
    PROVE  Life'
  <1> USE KeepaliveAssumption DEF Ends
  <1>1. Since' = Since
    BY DEF Rearm, Since, Armed, Life, AliveInv, IInv, TypeOK, Stopped
  <1>2. AliveInv'
    BY DEF Rearm, Life, AliveInv, IInv, TypeOK, Armed, Stopped
  <1> QED
    BY <1>1, <1>2 DEF Rearm, Life, FlightInv, ClientInv, ServerInv, Fresh, Stale

LEMMA PingServed ==
    ASSUME IInv, Life, NEW d \in net, ServePing(d)
    PROVE  Life'
  <1> DEFINE pong == Datagram("pong", "client")
  <1> USE KeepaliveAssumption, LifeFacts DEF Ends
  <1>1. /\ d.type = "ping" /\ net' = (net \ {d}) \cup {pong}
        /\ idle' = [idle EXCEPT !["server"] = 0]
        /\ UNCHANGED <<destroyed, armed, look, lost, closed>>
    BY DEF ServePing
  <1>2. Since' = Since
    BY <1>1 DEF Since, Armed
  <1>3. pong.type = "pong" /\ pong.age = 0
    BY DEF Datagram
  <1>4. Fresh(d) /\ Fresh(pong) /\ ~Stale(pong) /\ ~Stale(d)
    BY <1>1, <1>3 DEF Life, FlightInv, Fresh, Stale
  <1>5. \A c : (Fresh(c)' <=> Fresh(c)) /\ (Stale(c)' <=> Stale(c))
    BY <1>2 DEF Fresh, Stale
  <1>6. AliveInv'
    BY <1>1, <1>3 DEF Life, AliveInv, Armed
  <1>7. FlightInv'
    BY <1>1, <1>4, <1>5 DEF Life, FlightInv
  <1>8. idle'["client"] = idle["client"] /\ idle'["server"] = 0
    BY <1>1 DEF IInv, TypeOK
  <1>9. ClientInv'
    BY <1>1, <1>2, <1>4, <1>5, <1>8 DEF Life, ClientInv
  <1>10. ServerInv'
    BY <1>1, <1>3, <1>8 DEF Life, ServerInv
  <1> QED
    BY <1>6, <1>7, <1>9, <1>10 DEF Life

LEMMA PongServed ==
    ASSUME IInv, Life, NEW d \in net, ServePong(d)
    PROVE  Life'
  <1> USE KeepaliveAssumption, LifeFacts DEF Ends
  <1>1. /\ d.type = "pong" /\ net' = net \ {d}
        /\ idle' = [idle EXCEPT !["client"] = 0]
        /\ lost' = 0
        /\ UNCHANGED <<destroyed, armed, look, closed>>
    BY DEF ServePong
  <1>2. Since' = Since
    BY <1>1 DEF Since, Armed
  <1>3. \A c : (Fresh(c)' <=> Fresh(c)) /\ (Stale(c)' <=> Stale(c))
    BY <1>2 DEF Fresh, Stale
  <1>4. AliveInv'
    BY <1>1 DEF Life, AliveInv, Armed
  <1>5. FlightInv'
    BY <1>1, <1>3 DEF Life, FlightInv
  <1>6. idle'["client"] = 0 /\ idle'["server"] = idle["server"]
    BY <1>1 DEF IInv, TypeOK
  <1>7. ClientInv'
    <2>1. Budget(0) \in Nat /\ Budget(0 + 1) \in Nat /\ Budget(0 + 2) \in Nat
      BY BudgetNat
    <2> QED
      BY <1>1, <1>2, <1>6, <2>1 DEF ClientInv
  <1>8. ServerInv'
    BY <1>1, <1>6 DEF Life, ServerInv
  <1> QED
    BY <1>4, <1>5, <1>7, <1>8 DEF Life

\* A loss leaves one datagram less on its way, and one more look in vain.
LEMMA Lost ==
    ASSUME IInv, Life, NEW d \in net, Lose(d)
    PROVE  Life'
  <1> USE KeepaliveAssumption, LifeFacts DEF Ends
  <1>1. /\ net' = net \ {d}
        /\ lost' = lost + 1
        /\ UNCHANGED <<destroyed, idle, armed, look, closed>>
    BY DEF Lose, Life, AliveInv
  <1>2. Since' = Since
    BY <1>1 DEF Since, Armed
  <1>3. \A c : (Fresh(c)' <=> Fresh(c)) /\ (Stale(c)' <=> Stale(c))
    BY <1>2 DEF Fresh, Stale
  <1>4. AliveInv'
    BY <1>1 DEF Life, AliveInv, Armed
  <1>5. FlightInv'
    BY <1>1, <1>3 DEF Life, FlightInv
  <1>6. ClientInv'
    <2>1. \A c \in net : ~(Fresh(c) /\ Stale(c))
      BY DEF Fresh, Stale
    <2>2. net' = {} => idle["client"] <= Budget(lost + 1) + Since
      <3> SUFFICES ASSUME net = {d}
                   PROVE  (\A c \in net : ~Fresh(c)) \/ (\A c \in net : ~Stale(c))
        BY <1>1 DEF Life, ClientInv
      <3> QED
        BY <2>1
    <2> QED
      BY <1>1, <1>2, <1>3, <2>2 DEF Life, ClientInv
  <1>7. ServerInv'
    BY <1>1 DEF Life, ServerInv
  <1> QED
    BY <1>4, <1>5, <1>6, <1>7 DEF Life

LEMMA Ticks ==
    ASSUME IInv, Life, Margin, Tick
    PROVE  Life'
  <1> USE KeepaliveAssumption, LifeFacts DEF Ends
  <1>1. /\ net' = {Older(d) : d \in net}
        /\ UNCHANGED <<destroyed, look, lost, closed>>
        /\ \A e \in Ends : Armed(e) /\ look[e] = "no"
    BY DEF Tick, Life, AliveInv, IInv, LookInv
  <1>2. /\ idle'["client"] = idle["client"] + 1
        /\ idle'["server"] = idle["server"] + 1
        /\ armed'["client"] = armed["client"] + 1
    <2>1. \A e \in Ends : idle[e] <= Noticed
      BY DEF IInv, TypeOK, Noticed
    <2> QED
      BY <1>1, <2>1 DEF Tick
  <1>3. Since' = Since + 1
    BY <1>1, <1>2 DEF Since, Armed, Tick, IInv, TypeOK, Stopped
  <1>4. \A d \in net : /\ Older(d).type = d.type /\ Older(d).age = d.age + 1
                       /\ Fresh(Older(d))' <=> Fresh(d)
                       /\ Stale(Older(d))' <=> Stale(d)
    BY <1>3 DEF Older, Fresh, Stale
  <1>5. AliveInv'
    BY <1>1, <1>4 DEF Life, AliveInv
  <1>6. FlightInv'
    BY <1>1, <1>4 DEF Life, FlightInv
  <1>7. ClientInv'
    BY <1>1, <1>2, <1>3, <1>4 DEF Life, ClientInv
  <1>8. ServerInv'
    BY <1>1, <1>2, <1>4 DEF Life, ServerInv
  <1> QED
    BY <1>5, <1>6, <1>7, <1>8 DEF Life

LEMMA NextLife == IInv /\ LifeInv /\ Margin /\ [Next]_vars => LifeInv'
  <1> SUFFICES ASSUME IInv, LifeInv, Margin, [Next]_vars, ~closed' PROVE Life'
    BY DEF LifeInv
  <1>1. ~closed
    BY DEF Next, vars, TimerNext, CheckActivity, Rearm, Inactive, Close, Serve, ServePing,
           ServePong, ServeDisconnect, ServeNothing, Lose, Tick
  <1>2. Life
    BY <1>1 DEF LifeInv
  <1>3. ASSUME NEW e \in Ends, TimerNext(e) \/ Close(e) PROVE Life'
    BY <1>2, <1>3, ClientLooks, ServerLooks, Rearms
       DEF TimerNext, Inactive, Close, Life, AliveInv, Ends
  <1>4. ASSUME NEW d \in net, Serve(d) PROVE Life'
    <2>1. d.type # "disconnect" /\ ~destroyed[d.to]
      BY <1>2, LifeFacts DEF Life, AliveInv, Ends
    <2> QED
      BY <1>2, <1>4, <2>1, PingServed, PongServed, Lost DEF Serve, ServeDisconnect, ServeNothing
  <1>5. CASE Tick
    BY <1>2, <1>5, Ticks
  <1>6. CASE UNCHANGED vars
    BY <1>2, <1>6 DEF vars, Life, AliveInv, FlightInv, ClientInv, ServerInv, Fresh, Stale,
                      Since, Armed
  <1> QED
    BY <1>3, <1>4, <1>5, <1>6 DEF Next

\* An idle channel lives until an application closes it (checkActivity), whatever
\* the three times are, as long as they leave the margin for late timers, slow
\* datagrams and losses.
THEOREM Lives == Spec => []IdleLives
  <1>1. CASE Margin
    <2>1. Init => IInv /\ LifeInv
      BY InitIInv, InitLife DEF LifeInv
    <2>2. IInv /\ LifeInv /\ [Next]_vars => (IInv /\ LifeInv)'
      BY <1>1, NextIInv, NextLife
    <2>3. LifeInv => IdleLives
      BY DEF LifeInv, Life, AliveInv, IdleLives
    <2> QED
      BY <2>1, <2>2, <2>3, PTL DEF Spec
  <1>2. CASE ~Margin
    <2>1. IdleLives
      BY <1>2 DEF IdleLives
    <2> QED
      BY <2>1, PTL
  <1> QED
    BY <1>1, <1>2

=============================================================================
