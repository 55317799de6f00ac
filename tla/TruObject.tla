----------------------------- MODULE TruObject -----------------------------
(***************************************************************************)
(* The life of a Tru object: New, the listen goroutine, connect callbacks, *)
(* the printing of the statistic, and Close, for a program that calls New  *)
(* itself ("direct", as examples/tru) and for one that uses Listen and     *)
(* Dial ("net", as examples/trunet), which share one object for good.      *)
(*                                                                         *)
(* New is not one step: a menu and the printing begin while it still looks *)
(* at its parameters, and the socket comes last.  Connections are in the   *)
(* map while destroy is in progress, a write of the map takes a while, and *)
(* ForEachChannel reads the map without the lock that writers have.        *)
(***************************************************************************)
EXTENDS Integers

CONSTANTS
    Addrs,     \* bound: peers
    Chains,    \* bound: printStatistic calls that arm a timer of their own
    Programs   \* the programs that are looked at

None == 0

\* A program: how it comes to its object; whether New starts a menu, whether it
\* has the log before it does, and whether it prints, before or after that;
\* whether the program itself has printing on and off; and its peers.
ASSUME TruObjectAssumption ==
    /\ None \notin Chains
    /\ Programs \subseteq
           [user : {"direct", "net"}, menu : BOOLEAN, log : BOOLEAN,
            stat : {"no", "first", "last"}, prints : BOOLEAN, peers : SUBSET Addrs]

VARIABLES
    program,
    made,        \* New returned an object; truCommon keeps it
    feeder,      \* whose connect callback New was given
    npc,         \* where New is; Listen and Dial hold truCommon's lock meanwhile
    socket,      \* "none", "open", "closed": tru.conn
    listenStop,  \* likewise, the Go channel
    channels,    \* addresses in tru.channels
    late,        \* those stored after Close looked
    dead,        \* those of a channel that is destroyed
    dying,       \* addresses that a destroy is about to delete
    deleting,    \* one of them has tru.mu
    lpc,         \* where listen is; it has tru.mu in "store", "storeOwn", "offer"
    spc,         \* the goroutine that calls Listen, then Accept again and again
    dpc,         \* the goroutine that calls Dial, or New and Connect
    kpc,         \* the goroutine that calls Close
    todo,        \* the keys that ForEachChannel has still to visit
    hand,        \* the channel that it is closing
    chains,      \* where each chain of timers is
    statTimer,   \* the chain that tru.statTimer is of, or None
    orphan,      \* a chain on an object that New did not return
    crossed,     \* printing was stopped in a frame, started twice or after Close
    panicked     \* why the process ended, or "no"

object == <<made, feeder, npc>>
conn == <<socket, listenStop>>
mapVars == <<channels, late, dead, dying, deleting>>
closing == <<kpc, todo, hand>>
printing == <<chains, statTimer, orphan, crossed>>
truVars == <<program, object, conn, mapVars, lpc, spc, dpc, closing, printing, panicked>>

TruTypeOK ==
    /\ program \in Programs
    /\ made \in BOOLEAN /\ feeder \in {"none", "server", "dialer"}
    /\ npc \in {"no", "menu", "log", "level", "socket"}
    /\ socket \in {"none", "open", "closed"} /\ listenStop \in {"none", "open", "closed"}
    /\ channels \subseteq Addrs /\ late \subseteq channels /\ dead \subseteq channels \cap dying
    /\ dying \subseteq Addrs /\ deleting \in BOOLEAN
    /\ lpc \in {"none", "top", "read", "store", "storeOwn", "offer", "stopped"}
    /\ spc \in {"start", "accept", "failed"}
    /\ dpc \in {"start", "connect", "done"}
    /\ kpc \in {"idle", "look", "visit", "stop", "socket", "print", "done"}
    /\ todo \subseteq Addrs /\ hand \subseteq Addrs
    /\ chains \in [Chains -> {"no", "armed", "frame"}]
    /\ statTimer \in Chains \cup {None}
    /\ orphan \in BOOLEAN /\ crossed \in BOOLEAN
    /\ panicked \in {"no", "mapRace", "nilChannel", "noSocket", "closedTwice", "nilLog"}

TruInit ==
    /\ program \in Programs
    /\ made = FALSE /\ feeder = "none" /\ npc = "no"
    /\ socket = "none" /\ listenStop = "none"
    /\ channels = {} /\ late = {} /\ dead = {} /\ dying = {} /\ deleting = FALSE
    /\ lpc = "none" /\ spc = "start" /\ dpc = "start"
    /\ kpc = "idle" /\ todo = {} /\ hand = {}
    /\ chains = [i \in Chains |-> "no"] /\ statTimer = None
    /\ orphan = FALSE /\ crossed = FALSE
    /\ panicked = "no"

\* tru.mu can be had.
MuFree == lpc \notin {"store", "storeOwn", "offer"} /\ ~deleting

\* The map is being written.
MapWritten == lpc \in {"store", "storeOwn"} \/ deleting

Alive == panicked = "no"

\* Close has begun.
Closing == kpc # "idle"

-----------------------------------------------------------------------------
(***************************************************************************)
(* Printing: each frame arms the timer of the next one.                    *)
(***************************************************************************)

\* Printing starts with a chain of its own, whether or not it is on.
StatisticPrint(i) ==
    /\ MuFree
    /\ chains[i] = "no"
    /\ chains' = [chains EXCEPT ![i] = "armed"]
    /\ statTimer' = i
    /\ crossed' = (crossed \/ statTimer # None \/ Closing)
    /\ UNCHANGED orphan

\* The timer is stopped and kept, a mistake, for comparison.
PrintStopKeeps ==
    /\ MuFree
    /\ IF statTimer = None THEN UNCHANGED printing
       ELSE /\ chains' = [chains EXCEPT ![statTimer] = IF @ = "armed" THEN "no" ELSE @]
            /\ crossed' = (crossed \/ chains[statTimer] = "frame")
            /\ UNCHANGED <<statTimer, orphan>>

\* A timer whose function has begun cannot be stopped.
PrintStop ==
    /\ MuFree
    /\ IF statTimer = None THEN UNCHANGED printing
       ELSE /\ chains' = [chains EXCEPT ![statTimer] = IF @ = "armed" THEN "no" ELSE @]
            /\ crossed' = (crossed \/ chains[statTimer] = "frame")
            /\ statTimer' = None
            /\ UNCHANGED orphan

\* The program has printing on or off.
UsePrinting ==
    /\ Alive /\ made /\ ~Closing /\ program.prints
    /\ PrintStop \/ \E i \in Chains : StatisticPrint(i)
    /\ UNCHANGED <<program, object, conn, mapVars, lpc, spc, dpc, closing, panicked>>

FrameBegins(i) ==
    /\ Alive /\ chains[i] = "armed"
    /\ chains' = [chains EXCEPT ![i] = "frame"]
    /\ UNCHANGED <<program, object, conn, mapVars, lpc, spc, dpc, closing,
                   statTimer, orphan, crossed, panicked>>

\* The table is printed (Statistic and printStatistic lock tru.mu) and the next
\* timer armed; its title has the address of the socket.
FrameEnds(i) ==
    /\ Alive /\ chains[i] = "frame" /\ MuFree
    /\ IF socket = "none" THEN panicked' = "noSocket" /\ UNCHANGED printing
       ELSE /\ chains' = [chains EXCEPT ![i] = "armed"]
            /\ statTimer' = i
            /\ UNCHANGED <<orphan, crossed, panicked>>
    /\ UNCHANGED <<program, object, conn, mapVars, lpc, spc, dpc, closing>>

\* The same for an object that was dropped and has no socket.
OrphanFrame ==
    /\ Alive /\ orphan
    /\ panicked' = "noSocket"
    /\ UNCHANGED <<program, object, conn, mapVars, lpc, spc, dpc, closing, printing>>

-----------------------------------------------------------------------------
(***************************************************************************)
(* New, Listen, Dial.                                                      *)
(***************************************************************************)

\* The parameters: printing may start, and the menu.
NewBegins(who) ==
    /\ feeder' = who
    /\ npc' = IF program.menu THEN "menu" ELSE "socket"
    /\ IF program.stat = "first" THEN \E i \in Chains : StatisticPrint(i) ELSE UNCHANGED printing
    /\ UNCHANGED made

\* Items were added to the menu, a parameter that follows starts printing.
ItemsAdded ==
    /\ Alive /\ npc = "menu"
    /\ npc' = "log"
    /\ IF program.stat = "last" THEN \E i \in Chains : StatisticPrint(i) ELSE UNCHANGED printing
    /\ UNCHANGED <<program, made, feeder, conn, mapVars, lpc, spc, dpc, closing, panicked>>

\* A step of New on the log, see Menu.
NewLogs(from, to) ==
    /\ Alive /\ npc = from
    /\ npc' = to
    /\ UNCHANGED <<program, made, feeder, conn, mapVars, lpc, spc, dpc, closing, printing, panicked>>

\* The port is open and listen starts.
NewOpens ==
    /\ Alive /\ npc = "socket"
    /\ npc' = "no" /\ made' = TRUE
    /\ socket' = "open" /\ listenStop' = "open" /\ lpc' = "top"
    /\ IF feeder = "server" THEN spc' = "accept" /\ UNCHANGED dpc
       ELSE dpc' = "connect" /\ UNCHANGED spc
    /\ UNCHANGED <<program, feeder, mapVars, closing, printing, panicked>>

\* The port is taken.  Nobody stops the printing of the object that newTrunet drops.
NewFails ==
    /\ Alive /\ npc = "socket"
    /\ npc' = "no" /\ feeder' = "none"
    /\ IF feeder = "server" THEN spc' = "failed" /\ UNCHANGED dpc
       ELSE dpc' = "done" /\ UNCHANGED spc
    /\ IF program.user = "direct" THEN UNCHANGED printing
       ELSE /\ orphan' = (orphan \/ \E i \in Chains : chains[i] # "no")
            /\ chains' = [i \in Chains |-> "no"] /\ statTimer' = None
            /\ UNCHANGED crossed
    /\ UNCHANGED <<program, made, conn, mapVars, lpc, closing, panicked>>

\* The object there is gets the callback of who asks, a mistake, for comparison.
NewTrunetTakes(who) ==
    IF made THEN feeder' = who /\ UNCHANGED <<made, npc, printing>>
    ELSE NewBegins(who)

\* newTrunet: the object there is, or a new one.
NewTrunet(who) ==
    IF made THEN UNCHANGED <<object, printing>>
    ELSE NewBegins(who)

Listen ==
    /\ Alive /\ program.user = "net" /\ spc = "start" /\ npc = "no"
    /\ NewTrunet("server")
    /\ spc' = IF made THEN "accept" ELSE spc
    /\ UNCHANGED <<program, conn, mapVars, lpc, dpc, closing, panicked>>

\* Dial, or New of a program that calls it.
Dial ==
    /\ Alive /\ dpc = "start" /\ npc = "no"
    /\ IF program.user = "net" THEN NewTrunet("dialer") ELSE NewBegins("none")
    /\ dpc' = IF made THEN "connect" ELSE dpc
    /\ UNCHANGED <<program, conn, mapVars, lpc, spc, closing, panicked>>

-----------------------------------------------------------------------------
(***************************************************************************)
(* The listen goroutine and the map.                                       *)
(***************************************************************************)
ListenTop ==
    /\ Alive /\ lpc = "top"
    /\ lpc' = IF listenStop = "closed" THEN "stopped" ELSE "read"
    /\ UNCHANGED <<program, object, conn, mapVars, spc, dpc, closing, printing, panicked>>

\* serve has a packet that makes no channel; it looks the address up.
ServeOther ==
    /\ Alive /\ lpc = "read" /\ socket = "open" /\ MuFree
    /\ lpc' = "top"
    /\ UNCHANGED <<program, object, conn, mapVars, spc, dpc, closing, printing, panicked>>

\* ReadFrom returns an error.
ReadFails ==
    /\ Alive /\ lpc = "read" /\ socket = "closed"
    /\ lpc' = "top"
    /\ UNCHANGED <<program, object, conn, mapVars, spc, dpc, closing, printing, panicked>>

\* A channel is stored.  Bound: an address that is in the map does not connect
\* again; Handshake and TruNet have that.
Store(a) ==
    /\ Alive /\ lpc = "read" /\ socket = "open" /\ MuFree
    /\ a \in program.peers \ channels
    /\ channels' = channels \cup {a}
    /\ late' = IF Closing THEN late \cup {a} ELSE late
    /\ UNCHANGED <<program, object, conn, dead, dying, deleting, spc, dpc, closing,
                   printing, panicked>>

\* A peer connects.
NewChannel(a) == Store(a) /\ lpc' = "store"

\* Connect has the answer of the server; Handshake has the rest of Connect.
Connected(a) == dpc = "connect" /\ Store(a) /\ lpc' = "storeOwn"

\* A peer's channel is stored, and the connect callback waits for an Accept, if
\* New was given that of a Trunet.  In client mode newChannel calls nobody.
Stored ==
    /\ Alive
    /\ \/ /\ lpc = "store"
          /\ lpc' = IF feeder = "none" THEN "top" ELSE "offer"
          /\ UNCHANGED dpc
       \/ lpc = "storeOwn" /\ lpc' = "top" /\ dpc' = "done"
    /\ UNCHANGED <<program, object, conn, mapVars, spc, closing, printing, panicked>>

\* The callback and the Accept of the same Trunet meet.
Accept ==
    /\ Alive /\ lpc = "offer" /\ feeder = "server" /\ spc = "accept"
    /\ lpc' = "top"
    /\ UNCHANGED <<program, object, conn, mapVars, spc, dpc, closing, printing, panicked>>

\* A channel is destroyed by its timers, by its peer or by the application,
DestroyBegins(a) ==
    /\ Alive /\ a \in channels \ dying
    /\ dead' = dead \cup {a} /\ dying' = dying \cup {a}
    /\ UNCHANGED <<program, object, conn, channels, late, deleting, lpc, spc, dpc, closing,
                   printing, panicked>>

\* the map entry of its address is deleted,
DestroyDeletes(a) ==
    /\ Alive /\ a \in dying /\ MuFree
    /\ channels' = channels \ {a} /\ late' = late \ {a}
    /\ dead' = dead \ {a} /\ dying' = dying \ {a} /\ deleting' = TRUE
    /\ UNCHANGED <<program, object, conn, lpc, spc, dpc, closing, printing, panicked>>

\* and tru.mu given back.
DestroyEnds ==
    /\ Alive /\ deleting
    /\ deleting' = FALSE
    /\ UNCHANGED <<program, object, conn, channels, late, dead, dying, lpc, spc, dpc, closing,
                   printing, panicked>>

-----------------------------------------------------------------------------
(***************************************************************************)
(* Close.  Bound: a second Close begins when the first is over.            *)
(***************************************************************************)
Close ==
    /\ Alive /\ kpc \in {"idle", "done"}
    /\ kpc' = "look"
    /\ UNCHANGED <<program, object, conn, mapVars, lpc, spc, dpc, todo, hand, printing, panicked>>

\* ForEachChannel takes the keys, with tru.mu.
ForEachChannel ==
    /\ Alive /\ kpc = "look" /\ MuFree
    /\ todo' = channels /\ late' = {} /\ kpc' = "visit"
    /\ UNCHANGED <<program, object, conn, channels, dead, dying, deleting, lpc, spc, dpc, hand,
                   printing, panicked>>

\* A channel is told and left as it is, a mistake, for comparison.
CloseChannelTells(a) ==
    /\ Alive /\ kpc = "visit" /\ hand = {} /\ a \in todo
    /\ \/ MapWritten /\ panicked' = "mapRace" /\ UNCHANGED todo
       \/ a \notin channels /\ panicked' = "nilChannel" /\ UNCHANGED todo
       \/ a \in channels /\ todo' = todo \ {a} /\ UNCHANGED panicked
    /\ UNCHANGED <<program, object, conn, mapVars, lpc, spc, dpc, kpc, hand, printing>>

\* It looks each of them up, without tru.mu: the runtime may notice a write, and
\* the channel may be gone.  Channel.Close returns if it is destroyed,
CloseChannel(a) ==
    /\ Alive /\ kpc = "visit" /\ hand = {} /\ a \in todo
    /\ \/ MapWritten /\ panicked' = "mapRace" /\ UNCHANGED <<todo, hand>>
       \/ a \notin channels /\ panicked' = "nilChannel" /\ UNCHANGED <<todo, hand>>
       \/ a \in channels /\ todo' = todo \ {a} /\ hand' = {a} \ dead /\ UNCHANGED panicked
    /\ UNCHANGED <<program, object, conn, mapVars, lpc, spc, dpc, kpc, printing>>

\* and deletes the map entry of its address.
CloseDeletes(a) ==
    /\ Alive /\ kpc = "visit" /\ a \in hand /\ MuFree
    /\ hand' = hand \ {a}
    /\ channels' = channels \ {a} /\ late' = late \ {a} /\ dead' = dead \ {a}
    /\ UNCHANGED <<program, object, conn, dying, deleting, lpc, spc, dpc, kpc, todo,
                   printing, panicked>>

Visited ==
    /\ Alive /\ kpc = "visit" /\ todo = {} /\ hand = {}
    /\ kpc' = "stop"
    /\ UNCHANGED <<program, object, conn, mapVars, lpc, spc, dpc, todo, hand, printing, panicked>>

\* The Go channel is closed: New has not made it yet, or it is closed already.
StopListen ==
    /\ Alive /\ kpc = "stop"
    /\ panicked' = CASE listenStop = "none" -> "noSocket"
                     [] listenStop = "closed" -> "closedTwice"
                     [] OTHER -> panicked
    /\ listenStop' = IF listenStop = "open" THEN "closed" ELSE listenStop
    /\ kpc' = "socket"
    /\ UNCHANGED <<program, object, socket, mapVars, lpc, spc, dpc, todo, hand, printing>>

\* The socket stays open, a mistake, for comparison.
CloseSocketNot ==
    /\ Alive /\ kpc = "socket"
    /\ kpc' = "print"
    /\ UNCHANGED <<program, object, conn, mapVars, lpc, spc, dpc, todo, hand, printing, panicked>>

CloseSocket ==
    /\ Alive /\ kpc = "socket"
    /\ socket' = "closed" /\ kpc' = "print"
    /\ UNCHANGED <<program, object, listenStop, mapVars, lpc, spc, dpc, todo, hand, printing,
                   panicked>>

StatisticPrintStop ==
    /\ Alive /\ kpc = "print" /\ PrintStop
    /\ kpc' = "done"
    /\ UNCHANGED <<program, object, conn, mapVars, lpc, spc, dpc, todo, hand, panicked>>
=============================================================================
