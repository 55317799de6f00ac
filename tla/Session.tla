------------------------------ MODULE Session -------------------------------
(***************************************************************************)
(* A handshake and the data that is sent around it.  The server may write  *)
(* on a channel as soon as it is made, before it has the session key; the  *)
(* client when Connect returned.  Channels start with the same packet id,  *)
(* so the first packet of one is taken for the first of any other that has *)
(* the same address; here each channel writes its first packet only, which *)
(* is on the network from then on (retransmit), and reads one.             *)
(***************************************************************************)
EXTENDS Handshake, Crypt, FiniteSets

CONSTANTS
    DataLens,   \* lengths of the data, one of which all writers use
    MaxData     \* bound: packets that are written

ASSUME SessionAssumption ==
    /\ DataLens \subseteq Nat /\ MaxData \in Nat
    /\ ClientChannels \cap ServerChannels = {}

VARIABLES
    len,    \* the length of the data (chosen at the start)
    data,   \* packets on the network: the writing channel, and the key used
    read    \* what each channel gave to its reader: nothing, or one packet

dataVars == <<len, data, read>>
sessionVars == <<vars, dataVars>>

Channels == ClientChannels \cup ServerChannels

Packets == [from : Channels, key : ClientChannels \cup {NoChannel}]

SessionTypeOK ==
    /\ len \in DataLens
    /\ data \subseteq Packets
    /\ read \in [Channels -> SUBSET [packet : Packets, what : {"opened", "garbled"}]]

SessionInit ==
    /\ Init
    /\ len \in DataLens
    /\ data = {}
    /\ read = [ch \in Channels |-> {}]

Write(ch, key) ==
    /\ \A p \in data : p.from # ch
    /\ Cardinality(data) < MaxData
    /\ data' = data \cup {[from |-> ch, key |-> key]}
    /\ UNCHANGED <<vars, len, read>>

\* The application has the channel from Connect; it has had its key since it
\* was made.
ClientWriteTo(c) ==
    /\ ~panicked /\ cstate[c] = "live"
    /\ \E a \in Attempts : pc[a] = "returned" /\ result[a] = c
    /\ Write(c, c)

\* The connect callback has given the channel to the application.
ServerWriteTo(s) ==
    /\ sstate[s] = "live"
    /\ Write(s, skey[s])

\* serve: the channel of the address decrypts the packet; an error drops it, no
\* ack is sent.
Serve(p, ch, key) ==
    /\ read[ch] = {}
    /\ \E what \in {"opened", "garbled"} :
          /\ what = Decrypt(p.key, key, NoChannel, len)
          /\ read' = [read EXCEPT ![ch] = {[packet |-> p, what |-> what]}]
    /\ UNCHANGED <<vars, len, data>>

ServeDataClient(p) ==
    /\ ~panicked /\ lpc = "idle"
    /\ p \in data /\ p.from \in ServerChannels /\ cmap # NoChannel
    /\ Serve(p, cmap, cmap)

ServeDataServer(p) ==
    /\ p \in data /\ p.from \in ClientChannels /\ smap # NoChannel
    /\ Serve(p, smap, skey[smap])

SessionNext ==
    \/ Next /\ UNCHANGED dataVars
    \/ \E c \in ClientChannels : ClientWriteTo(c)
    \/ \E s \in ServerChannels : ServerWriteTo(s)
    \/ \E p \in data : ServeDataClient(p) \/ ServeDataServer(p)

SessionSpec == SessionInit /\ [][SessionNext]_sessionVars

FairSession == SessionSpec /\ Fairness

-----------------------------------------------------------------------------
SameCall(c, s) == cattempt[c] = sattempt[s]

\* What the client writes on the channel of its call is opened by the server's
\* channel for this call; what the server writes by the client's, but for what
\* it wrote before it had the key, which a client gets garbled when it is short
\* and not at all when it is long (connect.serve, decryptPacketData).
OpenedIfSameCall ==
    \A c \in ClientChannels, s \in ServerChannels : SameCall(c, s) =>
        /\ \A r \in read[s] : r.packet.from = c => r.what = "opened"
        /\ \A r \in read[c] : r.packet.from = s =>
              r.what = "opened" \/ (r.packet.key = NoChannel /\ Xor(len))
=============================================================================
