----------------------------- MODULE Handshake ------------------------------
(***************************************************************************)
(* How a channel is made between two Tru objects, a client that calls      *)
(* Connect and a server:                                                   *)
(*                                                                         *)
(*     client                                             server           *)
(*       | Connect: uuid, public key      -- connect -->   |  newChannel   *)
(*       | newChannel, session key      <-- answer --      |               *)
(*       |                                -- clientAnswer --> |  session key *)
(*       | Connect returns                <-- done --      |               *)
(*                                                                         *)
(* Each packet is sent once; UDP may lose, delay, reorder and repeat it,   *)
(* and Connect gives up after a timeout.  Both ends keep their channels in *)
(* a map by the peer's address, so here each map has one place.            *)
(*                                                                         *)
(* The private RSA key belongs to the Tru object, so every channel of an   *)
(* end decrypts what was encrypted for any other.  A session key is made   *)
(* with each client channel and named by it.                               *)
(***************************************************************************)
EXTENDS Naturals

CONSTANTS
    Attempts,          \* calls of Connect, each with a uuid of its own
    ClientChannels,    \* Channel objects the client may create
    ServerChannels,    \* Channel objects the server may create
    NoChannel,         \* no channel: nil, or no entry in a map
    Duplicates,        \* may the network repeat a datagram
    Late,              \* types of datagrams that may arrive after the call of
                       \* Connect they belong to returned
    Overlap            \* may Connect be called while an earlier call goes on
                       \* or a channel to the same peer is still alive

ASSUME HandshakeAssumption ==
    /\ NoChannel \notin Attempts \cup ClientChannels \cup ServerChannels
    /\ Duplicates \in BOOLEAN /\ Overlap \in BOOLEAN
    /\ Late \subseteq {"connect", "answer", "clientAnswer", "done"}

VARIABLES
    \* the client
    pc,           \* where each call of Connect is
    result,       \* the channel it returns, NoChannel for an error
    cdch,         \* connectData.ch of each call
    cstate,       \* "unused", "live" or "destroyed", for each Channel object
    cattempt,     \* the call each Channel object was created for
    cmap,         \* tru.channels[server's address]
    cclosing,     \* how far another goroutine is in destroying each channel
    lpc, la,      \* listen goroutine: is it sending on the wch of call la
    panicked,     \* a send on a closed channel has ended the process
    \* the server
    sstate,       \* state of each Channel object
    sattempt,     \* the call it was created for
    skey,         \* its session key
    smap,         \* tru.channels[client's address]
    sclosing,     \* how far another goroutine is in destroying each channel
    confirmed,    \* calls whose clientAnswer was served (for the properties)
    \* the network
    net           \* datagrams that may arrive

connectVars == <<pc, result, cdch>>
listenVars == <<lpc, la, panicked>>
channelVars == <<cstate, cattempt, cmap, cclosing>>
clientVars == <<connectVars, channelVars, listenVars>>
serverVars == <<sstate, sattempt, skey, smap, sclosing, confirmed>>
vars == <<clientVars, serverVars, net>>

Connecting(a) == [type |-> "connect", a |-> a]
ServerAnswer(a) == [type |-> "answer", a |-> a]
ClientAnswer(a, key) == [type |-> "clientAnswer", a |-> a, key |-> key]
ConnectDone(a) == [type |-> "done", a |-> a]

Datagrams ==
    [type : {"connect", "answer", "done"}, a : Attempts]
    \cup [type : {"clientAnswer"}, a : Attempts, key : ClientChannels]

States == {"unused", "live", "destroyed"}
Endings == {"no", "begun", "deleting"}

TypeOK ==
    /\ pc \in [Attempts -> {"idle", "waiting", "leaving", "closed", "returned"}]
    /\ result \in [Attempts -> ClientChannels \cup {NoChannel}]
    /\ cdch \in [Attempts -> ClientChannels \cup {NoChannel}]
    /\ cstate \in [ClientChannels -> States]
    /\ cattempt \in [ClientChannels -> Attempts \cup {NoChannel}]
    /\ cmap \in ClientChannels \cup {NoChannel}
    /\ cclosing \in [ClientChannels -> Endings]
    /\ lpc \in {"idle", "send"}
    /\ la \in Attempts \cup {NoChannel}
    /\ panicked \in BOOLEAN
    /\ sstate \in [ServerChannels -> States]
    /\ sattempt \in [ServerChannels -> Attempts \cup {NoChannel}]
    /\ skey \in [ServerChannels -> ClientChannels \cup {NoChannel}]
    /\ smap \in ServerChannels \cup {NoChannel}
    /\ sclosing \in [ServerChannels -> Endings]
    /\ confirmed \subseteq Attempts
    /\ net \subseteq Datagrams

Init ==
    /\ pc = [a \in Attempts |-> "idle"]
    /\ result = [a \in Attempts |-> NoChannel]
    /\ cdch = [a \in Attempts |-> NoChannel]
    /\ cstate = [c \in ClientChannels |-> "unused"]
    /\ cattempt = [c \in ClientChannels |-> NoChannel]
    /\ cmap = NoChannel
    /\ cclosing = [c \in ClientChannels |-> "no"]
    /\ lpc = "idle"
    /\ la = NoChannel
    /\ panicked = FALSE
    /\ sstate = [s \in ServerChannels |-> "unused"]
    /\ sattempt = [s \in ServerChannels |-> NoChannel]
    /\ skey = [s \in ServerChannels |-> NoChannel]
    /\ smap = NoChannel
    /\ sclosing = [s \in ServerChannels |-> "no"]
    /\ confirmed = {}
    /\ net = {}

\* The network after datagram d was received: it may have another copy.
Rest(d) == IF Duplicates THEN net ELSE net \ {d}

-----------------------------------------------------------------------------
(***************************************************************************)
(* Connect.  The call's entry is in the connects map from the start until  *)
(* the deferred delete, which runs after the deferred close of wch.        *)
(***************************************************************************)
Connects == {a \in Attempts : pc[a] \in {"waiting", "leaving", "closed"}}

Connect(a) ==
    /\ ~panicked
    /\ pc[a] = "idle"
    /\ ~Overlap => /\ Connects = {}
                   /\ \A c \in ClientChannels : cstate[c] # "live" /\ cclosing[c] = "no"
    /\ pc' = [pc EXCEPT ![a] = "waiting"]
    /\ net' = net \cup {Connecting(a)}
    /\ UNCHANGED <<result, cdch, channelVars, listenVars, serverVars>>

\* wait: the listen goroutine hands over connectData on wch.
Wait(a) ==
    /\ ~panicked
    /\ pc[a] = "waiting"
    /\ lpc = "send" /\ la = a
    /\ pc' = [pc EXCEPT ![a] = "leaving"]
    /\ result' = [result EXCEPT ![a] = cdch[a]]
    /\ lpc' = "idle"
    /\ la' = NoChannel
    /\ UNCHANGED <<cdch, channelVars, panicked, serverVars, net>>

\* A timeout that runs only once the server has answered (a mistake, for
\* comparison).
TimeoutOnceAnswered(a) ==
    /\ ~panicked
    /\ pc[a] = "waiting"
    /\ cdch[a] # NoChannel
    /\ pc' = [pc EXCEPT ![a] = "leaving"]
    /\ UNCHANGED <<result, cdch, channelVars, listenVars, serverVars, net>>

\* wait: the timeout passes first.
Timeout(a) ==
    /\ ~panicked
    /\ pc[a] = "waiting"
    /\ pc' = [pc EXCEPT ![a] = "leaving"]
    /\ UNCHANGED <<result, cdch, channelVars, listenVars, serverVars, net>>

\* The deferred close(wch).
CloseWch(a) ==
    /\ ~panicked
    /\ pc[a] = "leaving"
    /\ pc' = [pc EXCEPT ![a] = "closed"]
    /\ UNCHANGED <<result, cdch, channelVars, listenVars, serverVars, net>>

\* The deferred connect.delete(uuid), and Connect returns.
Return(a) ==
    /\ ~panicked
    /\ pc[a] = "closed"
    /\ pc' = [pc EXCEPT ![a] = "returned"]
    /\ net' = {d \in net : d.a = a => d.type \in Late}
    /\ UNCHANGED <<result, cdch, channelVars, listenVars, serverVars>>

-----------------------------------------------------------------------------
(***************************************************************************)
(* The client's listen goroutine.                                          *)
(***************************************************************************)

\* destroy() that leaves the map alone (a mistake, for comparison).
DestroyClientOnly(c) ==
    /\ cstate' = [cstate EXCEPT ![c] = "destroyed"]
    /\ UNCHANGED cmap

\* destroy() of a client channel: the map's entry for the address goes,
\* whichever channel it holds.
DestroyClient(c) ==
    /\ cstate' = [cstate EXCEPT ![c] = "destroyed"]
    /\ cmap' = NoChannel

\* serve, when connect.serve returns an error: the channel that exists for the
\* address is destroyed.
ConnectError ==
    IF cmap = NoChannel THEN UNCHANGED <<cstate, cmap>> ELSE DestroyClient(cmap)

\* Server's answer for a call that is still going on: a new channel takes the
\* place in the map, and its session key goes to the server.
ServeServerAnswer(a, c) ==
    /\ ~panicked
    /\ lpc = "idle"
    /\ ServerAnswer(a) \in net
    /\ a \in Connects
    /\ cstate[c] = "unused"
    /\ cstate' = [cstate EXCEPT ![c] = "live"]
    /\ cattempt' = [cattempt EXCEPT ![c] = a]
    /\ cmap' = c
    /\ cdch' = [cdch EXCEPT ![a] = c]
    /\ net' = Rest(ServerAnswer(a)) \cup {ClientAnswer(a, c)}
    /\ UNCHANGED <<pc, result, cclosing, listenVars, serverVars>>

\* ServeDone that does not look the uuid up (a mistake, for comparison).
ServeDoneAny(a) ==
    /\ ~panicked
    /\ lpc = "idle"
    /\ ConnectDone(a) \in net
    /\ lpc' = "send"
    /\ \E b \in Connects : la' = b
    /\ net' = Rest(ConnectDone(a))
    /\ UNCHANGED <<connectVars, channelVars, panicked, serverVars>>

\* The server is done with a call that is still going on.
ServeDone(a) ==
    /\ ~panicked
    /\ lpc = "idle"
    /\ ConnectDone(a) \in net
    /\ a \in Connects
    /\ lpc' = "send"
    /\ la' = a
    /\ net' = Rest(ConnectDone(a))
    /\ UNCHANGED <<connectVars, channelVars, panicked, serverVars>>

\* Either packet for a call that is over: "wrong connect ... packet".
ServeWrong(d) ==
    /\ ~panicked
    /\ lpc = "idle"
    /\ d \in net
    /\ d.type \in {"answer", "done"}
    /\ d.a \notin Connects
    /\ ConnectError
    /\ net' = Rest(d)
    /\ UNCHANGED <<connectVars, cattempt, cclosing, listenVars, serverVars>>

\* The listen goroutine sends on wch, or waits to: wch is closed.
SendOnClosed ==
    /\ ~panicked
    /\ lpc = "send"
    /\ pc[la] \in {"closed", "returned"}
    /\ panicked' = TRUE
    /\ UNCHANGED <<connectVars, channelVars, lpc, la, serverVars, net>>

-----------------------------------------------------------------------------
(***************************************************************************)
(* Another goroutine destroys a client channel: the timer of checkActivity *)
(* or the application's Close.  It finds the channel alive, destroys its   *)
(* statistic, and deletes the map's entry for the address; the listen      *)
(* goroutine may act in between.  Bound: once for a channel.               *)
(***************************************************************************)
BeginEndClient(c) ==
    /\ ~panicked
    /\ cstate[c] = "live" /\ cclosing[c] = "no"
    /\ cclosing' = [cclosing EXCEPT ![c] = "begun"]
    /\ UNCHANGED <<connectVars, cstate, cattempt, cmap, listenVars, serverVars, net>>

\* EndClient that leaves the statistic alone and only deletes the entry (a
\* mistake, for comparison).
EndClientEntry(c) ==
    /\ ~panicked
    /\ cclosing[c] = "begun"
    /\ cclosing' = [cclosing EXCEPT ![c] = "deleting"]
    /\ cmap' = NoChannel
    /\ UNCHANGED <<connectVars, cstate, cattempt, listenVars, serverVars, net>>

EndClient(c) ==
    /\ ~panicked
    /\ cclosing[c] = "begun"
    /\ cstate' = [cstate EXCEPT ![c] = "destroyed"]
    /\ cclosing' = [cclosing EXCEPT ![c] = "deleting"]
    /\ UNCHANGED <<connectVars, cattempt, cmap, listenVars, serverVars, net>>

DeleteClient(c) ==
    /\ ~panicked
    /\ cclosing[c] = "deleting"
    /\ cclosing' = [cclosing EXCEPT ![c] = "no"]
    /\ cmap' = NoChannel
    /\ UNCHANGED <<connectVars, cstate, cattempt, listenVars, serverVars, net>>

-----------------------------------------------------------------------------
(***************************************************************************)
(* The server's listen goroutine.                                          *)
(***************************************************************************)

\* ServeConnect that says it is done at once (a mistake, for comparison).
ServeConnectDone(a, s) ==
    /\ Connecting(a) \in net
    /\ sstate[s] = "unused"
    /\ sstate' = [t \in ServerChannels |->
                    CASE t = s -> "live" [] t = smap -> "destroyed" [] OTHER -> sstate[t]]
    /\ sattempt' = [sattempt EXCEPT ![s] = a]
    /\ smap' = s
    /\ net' = Rest(Connecting(a)) \cup {ServerAnswer(a), ConnectDone(a)}
    /\ UNCHANGED <<skey, sclosing, confirmed, clientVars>>

\* A connect packet: the channel that exists for the address is destroyed, and
\* a new one takes its place.
ServeConnect(a, s) ==
    /\ Connecting(a) \in net
    /\ sstate[s] = "unused"
    /\ sstate' = [t \in ServerChannels |->
                    CASE t = s -> "live" [] t = smap -> "destroyed" [] OTHER -> sstate[t]]
    /\ sattempt' = [sattempt EXCEPT ![s] = a]
    /\ smap' = s
    /\ net' = Rest(Connecting(a)) \cup {ServerAnswer(a)}
    /\ UNCHANGED <<skey, sclosing, confirmed, clientVars>>

\* ServeClientAnswer that does not keep the key (a mistake, for comparison).
ServeClientAnswerKeyless(a, key) ==
    /\ ClientAnswer(a, key) \in net
    /\ smap # NoChannel
    /\ confirmed' = confirmed \cup {a}
    /\ net' = Rest(ClientAnswer(a, key)) \cup {ConnectDone(a)}
    /\ UNCHANGED <<sstate, sattempt, skey, smap, sclosing, clientVars>>

\* The client's answer: the channel of the address, whichever call it was made
\* for, gets the session key.  Without a channel the packet is dropped.
ServeClientAnswer(a, key) ==
    /\ ClientAnswer(a, key) \in net
    /\ smap # NoChannel
    /\ skey' = [skey EXCEPT ![smap] = key]
    /\ confirmed' = confirmed \cup {a}
    /\ net' = Rest(ClientAnswer(a, key)) \cup {ConnectDone(a)}
    /\ UNCHANGED <<sstate, sattempt, smap, sclosing, clientVars>>

\* Another goroutine destroys a server channel, as on the client.
BeginEndServer(s) ==
    /\ sstate[s] = "live" /\ sclosing[s] = "no"
    /\ sclosing' = [sclosing EXCEPT ![s] = "begun"]
    /\ UNCHANGED <<sstate, sattempt, skey, smap, confirmed, clientVars, net>>

EndServer(s) ==
    /\ sclosing[s] = "begun"
    /\ sstate' = [sstate EXCEPT ![s] = "destroyed"]
    /\ sclosing' = [sclosing EXCEPT ![s] = "deleting"]
    /\ UNCHANGED <<sattempt, skey, smap, confirmed, clientVars, net>>

DeleteServer(s) ==
    /\ sclosing[s] = "deleting"
    /\ sclosing' = [sclosing EXCEPT ![s] = "no"]
    /\ smap' = NoChannel
    /\ UNCHANGED <<sstate, sattempt, skey, confirmed, clientVars, net>>

-----------------------------------------------------------------------------
ConnectNext(a) == Connect(a) \/ Wait(a) \/ Timeout(a) \/ CloseWch(a) \/ Return(a)

ClientNext ==
    \/ \E a \in Attempts :
          ServeDone(a) \/ \E c \in ClientChannels : ServeServerAnswer(a, c)
    \/ \E d \in net : ServeWrong(d)
    \/ SendOnClosed
    \/ \E c \in ClientChannels :
          BeginEndClient(c) \/ EndClient(c) \/ DeleteClient(c)

ServerNext ==
    \/ \E a \in Attempts :
          \/ \E s \in ServerChannels : ServeConnect(a, s)
          \/ \E key \in ClientChannels : ServeClientAnswer(a, key)
    \/ \E s \in ServerChannels :
          BeginEndServer(s) \/ EndServer(s) \/ DeleteServer(s)

Next == (\E a \in Attempts : ConnectNext(a)) \/ ClientNext \/ ServerNext

Spec == Init /\ [][Next]_vars

\* Goroutines run on, and the timeout of wait passes.  Nothing is assumed of
\* the network.
Fairness ==
    /\ \A a \in Attempts :
          WF_vars(Wait(a) \/ Timeout(a)) /\ WF_vars(CloseWch(a)) /\ WF_vars(Return(a))
    /\ WF_vars(SendOnClosed)

FairSpec == Spec /\ Fairness

-----------------------------------------------------------------------------
(***************************************************************************)
(* Correctness.                                                            *)
(***************************************************************************)

\* A map never keeps a destroyed channel, but for the moment until the
\* goroutine that destroyed it deletes the entry: listen does not go on to serve
\* packets with a dead channel (destroy, newChannel).
MappedIsLive ==
    /\ cmap # NoChannel => cstate[cmap] = "live" \/ cclosing[cmap] = "deleting"
    /\ smap # NoChannel => sstate[smap] = "live" \/ sclosing[smap] = "deleting"

\* Where each call is, to the application that made it.
State(a) ==
    CASE pc[a] \in {"leaving", "closed"} -> "decided"
      [] pc[a] = "returned" -> "over"
      [] OTHER -> pc[a]

Promise == INSTANCE Agreement
               WITH Calls <- Attempts, ClientEnds <- ClientChannels,
                    ServerEnds <- ServerChannels, None <- NoChannel,
                    state <- [a \in Attempts |-> State(a)],
                    offered <- sattempt, made <- cattempt, agreed <- confirmed

\* Connecting is to the applications what Agreement says: Connect gets a channel
\* only if it was made for this very call and the server took a session key in
\* this call, and a packet that comes late or twice, or a channel that is
\* destroyed, changes nothing of it (wait, connect.serve, newChannel).
ImplementsAgreement == Promise!AgreementSpec

\* As long as the channel that Connect returned is the client's channel to the
\* server, the server's channel to the client has the same session key (serve
\* of both answers).
KeysAgree ==
    \A a \in Attempts :
        LET c == result[a]
        IN  c # NoChannel /\ cmap = c /\ smap # NoChannel => skey[smap] = c

\* A live client channel is in the map, so packets for it reach it (newChannel,
\* destroy).
NoOrphan == \A c \in ClientChannels : cstate[c] = "live" => cmap = c

\* Every call of Connect comes back, if the process lives on (wait).
ConnectReturns == \A a \in Attempts : pc[a] = "waiting" ~> pc[a] = "returned" \/ panicked

\* A call of Connect ends with a channel or with an error, never with the end
\* of the process (wait, serve of the done packet).
NoPanic == ~panicked

\* When the server destroys the channel of a client that reconnects, the channel
\* it makes then stays in the map until it is destroyed itself (serve, destroy).
ReconnectedStays ==
    [][\A s \in ServerChannels :
          smap = s /\ smap' = NoChannel => sstate'[s] = "destroyed"]_vars

=============================================================================
