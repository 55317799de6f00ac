------------------------------- MODULE TruNet -------------------------------
(***************************************************************************)
(* The net.Listener and net.Conn of a server.  The listen goroutine makes  *)
(* a channel for each client and hands it to Accept, with tru.mu held;     *)
(* data goes from listen through readerCh to the reader process and from   *)
(* there, with no buffer in between, to whoever is in Read.  A Conn is     *)
(* closed by the application, or by the channel's destroy, at any time.    *)
(*                                                                         *)
(* The application is that of the examples: one goroutine in a loop of     *)
(* Accept, one for each Conn that reads and writes; any other may close.   *)
(* A channel here is never made again after it is destroyed.               *)
(***************************************************************************)
EXTENDS Naturals, Sequences, FiniteSetsExt

CONSTANTS
    Conns,         \* clients, and so channels and Conns
    Lengths,       \* lengths of the messages they send
    ReadLens,      \* lengths of the slices given to Read
    ChanLen,       \* capacity of readerCh
    AppCloses,     \* bound: Conns that the application may close
    MaxMessages,   \* bound: messages received in all
    None           \* no channel

ASSUME TruNetAssumption ==
    /\ None \notin Conns
    /\ AppCloses \subseteq Conns
    /\ Lengths \subseteq Nat
    /\ ReadLens \subseteq Nat \ {0}
    /\ ChanLen \in Nat \ {0}
    /\ MaxMessages \in Nat

VARIABLES
    chan,        \* "none", "live" or "destroyed": the channel's statistic
    channels,    \* tru.channels
    length,      \* lengths of the messages received on each channel
    lpc, lc,     \* listen: where it is, and with which channel
    apc, ac,     \* the goroutine in Accept, likewise
    readerCh,    \* messages on their way to the reader process
    rpc, rm,     \* reader process: is it sending on a read.ch, and what
    reader,      \* channels whose reader is set
    connch,      \* Conns whose ch is not nil
    readch,      \* Conns whose read.ch is not closed
    hpc,         \* what the goroutine of each Conn is in
    buf, cont,   \* Conn.read.buf and Conn.read.cont
    kpc,         \* how far two goroutines are in closing or destroying each
    panicked,    \* a goroutine has ended the process
    segments,    \* what Read returned, up to each io.EOF (for the properties)
    taken        \* the message last handed to each Conn, or 0 (for the properties)

listenVars == <<length, lpc, lc>>
acceptVars == <<apc, ac>>
processVars == <<readerCh, rpc, rm>>
readVars == <<hpc, buf, cont, segments, taken>>
closeVars == <<chan, channels, connch, readch, kpc, panicked>>
vars == <<listenVars, acceptVars, processVars, reader, readVars, closeVars>>

\* A message is its channel and number; a byte of its data, the message's number
\* and the byte's place.
Message(c, m) == [c |-> c, m |-> m]
Bytes(c, m) == [i \in 1 .. length[c][m] |-> <<m, i>>]

\* Goroutines that close: the application's, and one that destroys the channel
\* (a timer, or listen on a disconnect packet).
Closers == {"app", "destroy"}

TypeOK ==
    /\ chan \in [Conns -> {"none", "live", "destroyed"}]
    /\ channels \subseteq Conns
    /\ length \in [Conns -> Seq(Lengths)]
    /\ lpc \in {"idle", "offer", "push"} /\ lc \in Conns \cup {None}
    /\ apc \in {"accept", "set"} /\ ac \in Conns \cup {None}
    /\ readerCh \in Seq([c : Conns, m : Nat]) /\ Len(readerCh) <= ChanLen
    /\ rpc \in {"idle", "send"} /\ rm \in [c : Conns, m : Nat] \cup {None}
    /\ reader \subseteq Conns /\ connch \subseteq Conns /\ readch \subseteq Conns
    /\ hpc \in [Conns -> {"none", "idle", "read", "write"}]
    /\ buf \in [Conns -> Seq(Nat \X Nat)] /\ cont \in [Conns -> BOOLEAN]
    /\ kpc \in [Closers \X Conns ->
                  {"no", "seen", "close", "delete", "closeRead", "forget", "leave", "done"}]
    /\ panicked \in BOOLEAN
    /\ segments \in [Conns -> Seq(Seq(Nat \X Nat))]
    /\ taken \in [Conns -> Nat]

Init ==
    /\ chan = [c \in Conns |-> "none"]
    /\ channels = {}
    /\ length = [c \in Conns |-> << >>]
    /\ lpc = "idle" /\ lc = None
    /\ apc = "accept" /\ ac = None
    /\ readerCh = << >>
    /\ rpc = "idle" /\ rm = None
    /\ reader = {} /\ connch = {} /\ readch = {}
    /\ hpc = [c \in Conns |-> "none"]
    /\ buf = [c \in Conns |-> << >>]
    /\ cont = [c \in Conns |-> FALSE]
    /\ kpc = [k \in Closers \X Conns |-> "no"]
    /\ panicked = FALSE
    /\ segments = [c \in Conns |-> << << >> >>]
    /\ taken = [c \in Conns |-> 0]

\* tru.mu kept also by a Channel.Close that calls destroy (a mistake, for
\* comparison).
MuFreeClosing == lpc # "offer" /\ \A k \in Closers \X Conns : kpc[k] # "delete"

\* tru.mu: newChannel keeps it while the connect callback waits for Accept; all
\* other critical sections are short.
MuFree == lpc # "offer"

-----------------------------------------------------------------------------
(***************************************************************************)
(* Listen and Accept.                                                      *)
(***************************************************************************)

\* A connect packet: newChannel stores the channel and calls connected().
NewChannel(c) ==
    /\ ~panicked
    /\ lpc = "idle" /\ chan[c] = "none"
    /\ chan' = [chan EXCEPT ![c] = "live"]
    /\ channels' = channels \cup {c}
    /\ lpc' = "offer" /\ lc' = c
    /\ UNCHANGED <<length, acceptVars, processVars, reader, readVars,
                   connch, readch, kpc, panicked>>

\* Accept takes the channel and makes the Conn; listen goes on.
Accept ==
    /\ ~panicked
    /\ lpc = "offer" /\ apc = "accept"
    /\ apc' = "set" /\ ac' = lc
    /\ connch' = connch \cup {lc} /\ readch' = readch \cup {lc}
    /\ lpc' = "idle" /\ lc' = None
    /\ UNCHANGED <<length, processVars, reader, readVars, chan, channels, kpc, panicked>>

\* Accept sets the reader and returns; a goroutine is started for the Conn.
SetReader ==
    /\ ~panicked
    /\ apc = "set"
    /\ reader' = reader \cup {ac}
    /\ hpc' = [hpc EXCEPT ![ac] = "idle"]
    /\ apc' = "accept" /\ ac' = None
    /\ UNCHANGED <<listenVars, processVars, buf, cont, segments, taken, closeVars>>

\* The next data packet of a channel.
ReceiveData(c, n) ==
    /\ ~panicked
    /\ lpc = "idle" /\ c \in channels
    /\ MapThenSumSet(LAMBDA d : Len(length[d]), Conns) < MaxMessages
    /\ length' = [length EXCEPT ![c] = Append(@, n)]
    /\ lpc' = "push" /\ lc' = c
    /\ UNCHANGED <<acceptVars, processVars, reader, readVars, closeVars>>

\* It goes to the reader process, when there is room.
SendToReader ==
    /\ ~panicked
    /\ lpc = "push" /\ Len(readerCh) < ChanLen
    /\ readerCh' = Append(readerCh, Message(lc, Len(length[lc])))
    /\ lpc' = "idle" /\ lc' = None
    /\ UNCHANGED <<length, acceptVars, rpc, rm, reader, readVars, closeVars>>

-----------------------------------------------------------------------------
(***************************************************************************)
(* The reader process and Conn.reader.                                     *)
(***************************************************************************)

\* The next message, dropped without a reader, a Conn or a live channel.
ReaderProccess ==
    /\ ~panicked
    /\ rpc = "idle" /\ readerCh # << >>
    /\ readerCh' = Tail(readerCh)
    /\ LET c == Head(readerCh).c
       IN  IF chan[c] = "live" /\ c \in reader /\ c \in connch
           THEN rpc' = "send" /\ rm' = Head(readerCh)
           ELSE UNCHANGED <<rpc, rm>>
    /\ UNCHANGED <<listenVars, acceptVars, reader, readVars, closeVars>>

\* The send on a read.ch that was closed panics; reader recovers.
ReaderRecovers ==
    /\ ~panicked
    /\ rpc = "send" /\ rm.c \notin readch
    /\ rpc' = "idle" /\ rm' = None
    /\ UNCHANGED <<readerCh, listenVars, acceptVars, reader, readVars, closeVars>>

-----------------------------------------------------------------------------
(***************************************************************************)
(* Read and Write of the Conn's goroutine.                                 *)
(***************************************************************************)

\* copy(b, data): the first bytes are returned, the rest stays in the buffer.
Copied(c, data, n) ==
    LET k == IF n < Len(data) THEN n ELSE Len(data)
    IN  /\ buf' = [buf EXCEPT ![c] = SubSeq(data, k + 1, Len(data))]
        /\ segments' = [segments EXCEPT ![c][Len(segments[c])] = @ \o SubSeq(data, 1, k)]

\* Read: what a call before has left.
ReadRest(c, n) ==
    /\ ~panicked
    /\ hpc[c] = "idle" /\ buf[c] # << >>
    /\ Copied(c, buf[c], n)
    /\ UNCHANGED <<listenVars, acceptVars, processVars, reader, hpc, cont, taken, closeVars>>

\* ReadEOF that keeps cont (a mistake, for comparison).
ReadEOFAgain(c) ==
    /\ ~panicked
    /\ hpc[c] = "idle" /\ buf[c] = << >> /\ cont[c]
    /\ segments' = [segments EXCEPT ![c] = Append(@, << >>)]
    /\ UNCHANGED <<listenVars, acceptVars, processVars, reader, hpc, buf, cont, taken, closeVars>>

\* Read: io.EOF after the last byte of a message.
ReadEOF(c) ==
    /\ ~panicked
    /\ hpc[c] = "idle" /\ buf[c] = << >> /\ cont[c]
    /\ cont' = [cont EXCEPT ![c] = FALSE]
    /\ segments' = [segments EXCEPT ![c] = Append(@, << >>)]
    /\ UNCHANGED <<listenVars, acceptVars, processVars, reader, hpc, buf, taken, closeVars>>

\* Read: waits for data.
Read(c) ==
    /\ ~panicked
    /\ hpc[c] = "idle" /\ buf[c] = << >> /\ ~cont[c]
    /\ hpc' = [hpc EXCEPT ![c] = "read"]
    /\ UNCHANGED <<listenVars, acceptVars, processVars, reader, buf, cont, segments,
                   taken, closeVars>>

\* ReadData that promises no io.EOF (a mistake, for comparison).
ReadDataNoEOF(c, n) ==
    /\ ~panicked
    /\ hpc[c] = "read" /\ c \in readch
    /\ rpc = "send" /\ rm.c = c
    /\ rpc' = "idle" /\ rm' = None
    /\ hpc' = [hpc EXCEPT ![c] = "idle"]
    /\ taken' = [taken EXCEPT ![c] = rm.m]
    /\ Copied(c, Bytes(c, rm.m), n)
    /\ UNCHANGED <<readerCh, listenVars, acceptVars, reader, cont, closeVars>>

\* Read: the reader process hands over a message.
ReadData(c, n) ==
    /\ ~panicked
    /\ hpc[c] = "read" /\ c \in readch
    /\ rpc = "send" /\ rm.c = c
    /\ rpc' = "idle" /\ rm' = None
    /\ hpc' = [hpc EXCEPT ![c] = "idle"]
    /\ cont' = [cont EXCEPT ![c] = TRUE]
    /\ taken' = [taken EXCEPT ![c] = rm.m]
    /\ Copied(c, Bytes(c, rm.m), n)
    /\ UNCHANGED <<readerCh, listenVars, acceptVars, reader, closeVars>>

\* Read: read.ch was closed, ErrChannelDestroyed.
ReadError(c) ==
    /\ ~panicked
    /\ hpc[c] = "read" /\ c \notin readch
    /\ hpc' = [hpc EXCEPT ![c] = "idle"]
    /\ UNCHANGED <<listenVars, acceptVars, processVars, reader, buf, cont, segments,
                   taken, closeVars>>

\* Write on a Conn and channel that are still there: newID wants tru.mu.
Write(c) ==
    /\ ~panicked
    /\ hpc[c] = "idle" /\ c \in connch /\ chan[c] = "live"
    /\ hpc' = [hpc EXCEPT ![c] = "write"]
    /\ UNCHANGED <<listenVars, acceptVars, processVars, reader, buf, cont, segments,
                   taken, closeVars>>

Written(c) ==
    /\ ~panicked
    /\ hpc[c] = "write" /\ MuFree
    /\ hpc' = [hpc EXCEPT ![c] = "idle"]
    /\ UNCHANGED <<listenVars, acceptVars, processVars, reader, buf, cont, segments,
                   taken, closeVars>>

-----------------------------------------------------------------------------
(***************************************************************************)
(* Closing.  Conn.Close takes ch out of the Conn, closes the channel, which *)
(* destroys it unless that is done, and closes read.ch.  destroy reports   *)
(* to Conn.reader first, which calls Conn.Close if the Conn still has ch.  *)
(***************************************************************************)
Step(k, c, to) == kpc' = [kpc EXCEPT ![<<k, c>>] = to]

\* Close, or destroy through Conn.reader: the Conn has ch.
Close(k, c) ==
    /\ ~panicked
    /\ kpc[<<k, c>>] = "no"
    /\ c \in connch
    /\ IF k = "app" THEN c \in AppCloses /\ hpc[c] # "none" ELSE c \in reader /\ chan[c] = "live"
    /\ Step(k, c, "seen")
    /\ UNCHANGED <<listenVars, acceptVars, processVars, reader, readVars,
                   chan, channels, connch, readch, panicked>>

\* destroy of a channel with no reader yet, or whose Conn is closing already.
Destroy(c) ==
    /\ ~panicked
    /\ kpc[<<"destroy", c>>] = "no"
    /\ chan[c] = "live"
    /\ c \notin reader \/ c \notin connch
    /\ Step("destroy", c, "forget")
    /\ UNCHANGED <<listenVars, acceptVars, processVars, reader, readVars,
                   chan, channels, connch, readch, panicked>>

\* TakeChannel of a Close that closes read.ch first and leaves the channel (a
\* mistake, for comparison).
TakeChannelOnly(k, c) ==
    /\ ~panicked
    /\ kpc[<<k, c>>] = "seen"
    /\ IF c \in connch
       THEN connch' = connch \ {c} /\ UNCHANGED panicked
       ELSE panicked' = TRUE /\ UNCHANGED connch
    /\ Step(k, c, "closeRead")
    /\ UNCHANGED <<listenVars, acceptVars, processVars, reader, readVars,
                   chan, channels, readch>>

\* c.ch = nil.  Another goroutine may have come first since the test: then ch is
\* nil here too, and the call ends in a panic.
TakeChannel(k, c) ==
    /\ ~panicked
    /\ kpc[<<k, c>>] = "seen"
    /\ IF c \in connch
       THEN connch' = connch \ {c} /\ UNCHANGED panicked
       ELSE panicked' = TRUE /\ UNCHANGED connch
    /\ Step(k, c, "close")
    /\ UNCHANGED <<listenVars, acceptVars, processVars, reader, readVars,
                   chan, channels, readch>>

\* CloseChannel that returns at once when the channel is destroyed (a mistake,
\* for comparison).
CloseChannelReturns(k, c) ==
    /\ ~panicked
    /\ kpc[<<k, c>>] = "close"
    /\ Step(k, c, IF chan[c] = "destroyed" THEN "done" ELSE "delete")
    /\ chan' = [chan EXCEPT ![c] = "destroyed"]
    /\ UNCHANGED <<listenVars, acceptVars, processVars, reader, readVars,
                   channels, connch, readch, panicked>>

\* Channel.Close: nothing to do if the channel is destroyed, else destroy it,
\* whose report finds the Conn without ch.
CloseChannel(k, c) ==
    /\ ~panicked
    /\ kpc[<<k, c>>] = "close"
    /\ Step(k, c, IF chan[c] = "destroyed" THEN "closeRead" ELSE "delete")
    /\ chan' = [chan EXCEPT ![c] = "destroyed"]
    /\ UNCHANGED <<listenVars, acceptVars, processVars, reader, readVars,
                   channels, connch, readch, panicked>>

\* The rest of destroy, after the report.
Forget(c) ==
    /\ ~panicked
    /\ kpc[<<"destroy", c>>] = "forget"
    /\ chan' = [chan EXCEPT ![c] = "destroyed"]
    /\ Step("destroy", c, "leave")
    /\ UNCHANGED <<listenVars, acceptVars, processVars, reader, readVars,
                   channels, connch, readch, panicked>>

\* The end of destroy deletes the channel from the map; the rest of Conn.Close
\* follows, if that called it.
Delete(k, c) ==
    /\ ~panicked
    /\ kpc[<<k, c>>] \in {"delete", "leave"} /\ MuFree
    /\ channels' = channels \ {c}
    /\ Step(k, c, IF kpc[<<k, c>>] = "delete" THEN "closeRead" ELSE "done")
    /\ UNCHANGED <<listenVars, acceptVars, processVars, reader, readVars,
                   chan, connch, readch, panicked>>

\* close(c.read.ch), the end of Conn.Close; a destroy that called it goes on.
CloseRead(k, c) ==
    /\ ~panicked
    /\ kpc[<<k, c>>] = "closeRead"
    /\ readch' = readch \ {c}
    /\ Step(k, c, IF k = "destroy" THEN "forget" ELSE "done")
    /\ UNCHANGED <<listenVars, acceptVars, processVars, reader, readVars,
                   chan, channels, connch, panicked>>

-----------------------------------------------------------------------------
Closing(k, c) == TakeChannel(k, c) \/ CloseChannel(k, c) \/ Delete(k, c) \/ CloseRead(k, c)

ConnNext(c) ==
    \/ \E n \in ReadLens : ReadRest(c, n) \/ ReadData(c, n)
    \/ ReadEOF(c) \/ Read(c) \/ ReadError(c) \/ Write(c) \/ Written(c)

Next ==
    \/ \E c \in Conns : NewChannel(c) \/ \E n \in Lengths : ReceiveData(c, n)
    \/ Accept \/ SetReader \/ SendToReader \/ ReaderProccess \/ ReaderRecovers
    \/ \E c \in Conns : ConnNext(c) \/ Destroy(c) \/ Forget(c)
    \/ \E k \in Closers, c \in Conns : Close(k, c) \/ Closing(k, c)

Spec == Init /\ [][Next]_vars

(***************************************************************************)
(* A goroutine that can go on does: that of a call of Read or Write, one   *)
(* that closes, one that accepts.  Nobody has to begin a call, but for     *)
(* Accept, where the application's loop goes back to it.                   *)
(***************************************************************************)
CallsEnd ==
    \A c \in Conns :
        /\ WF_vars(ReadError(c) \/ Written(c))
        /\ \A k \in Closers : WF_vars(Closing(k, c))

FairSpec == Spec /\ CallsEnd /\ WF_vars(Accept \/ SetReader)

-----------------------------------------------------------------------------
(***************************************************************************)
(* Correctness.                                                            *)
(***************************************************************************)

\* What Read returns between two io.EOF is one message, whole, whatever slices
\* it is given; what it returns after the last, the beginning of the next; and no
\* message between two that were read is left out.
ReadsWhole ==
    \A c \in Conns :
        LET whole == Len(segments[c]) - 1
            last == segments[c][whole + 1]
        IN  \E first \in 0 .. Len(length[c]) - whole :
                /\ \A i \in 1 .. whole : segments[c][i] = Bytes(c, first + i)
                /\ last # << >> =>
                      /\ first + whole < Len(length[c])
                      /\ \A i \in 1 .. Len(last) : last[i] = <<first + whole + 1, i>>

\* A Conn is open from Accept until read.ch is closed.
State(c) == IF c \in readch THEN "open" ELSE IF hpc[c] = "none" THEN "none" ELSE "closed"

Promise == INSTANCE Connection
               WITH sent <- length, state <- [c \in Conns |-> State(c)],
                    inside <- cont, read <- segments

\* Every Conn is to its reader what Connection says: in particular no byte is
\* given twice, each message ends once, and none is begun when the Conn is closed.
ImplementsConnection == Promise!ConnectionSpec

\* Read fails only when the channel is destroyed: data is not cut off before
\* (Close, reader).
ReadErrorIsTrue == \A c \in Conns : hpc[c] # "none" /\ c \notin readch => chan[c] = "destroyed"

\* Close unblocks a Read in progress (Close: "Any blocked Read or Write
\* operations will be unblocked and return errors").
ReadUnblocked ==
    \A c \in Conns : hpc[c] = "read" /\ c \notin connch ~> hpc[c] # "read" \/ panicked

\* A Write comes back, although newChannel keeps tru.mu while it waits for the
\* application to Accept.
WriteReturns == \A c \in Conns : hpc[c] = "write" ~> hpc[c] # "write" \/ panicked
=============================================================================
