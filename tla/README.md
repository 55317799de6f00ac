# TRU in TLA+

A model of the TRU protocol library (`src/`, Go): a reliable, ordered message
channel over UDP. The modules describe what the goroutines of the library do to
each other and to the network, TLC checks them on small instances, and TLAPS
proves the central results for every value of the constants.

## 1. The system

Goroutines of a `Tru` object: `listen` (reads the socket, runs `serve` for each
datagram), `senderProccess` and `readerProccess` (fed by Go channels of
capacity 10), and per channel the retransmit timer and the activity timer. The
application adds goroutines that call `Connect`, `WriteTo`, `Close`, and
through `tru_net.go` those of `net.Conn`.

| Component | State | Operations | Talks to |
|---|---|---|---|
| Packet ids (`packet.go`, `channel.go`) | `ch.id`, `ch.expectedID` | `newID`, `newExpectedID`, `distance` | transfer |
| Data transfer (`channel.go`, `send_queue.go`, `receive_queue.go`, `tru.go`) | send queue list and index, retransmit attempts, receive queue, `senderCh`, `readerCh` | `writeTo`, `add`, `delete`, `retransmit`, `serve` (data, ack), `process`, sender and reader processes | ids, network, application's reader |
| Large payloads (`split.go`) | `combinePacket` of the receiving channel | `splitPacket`, `packet`, `clear` | transfer |
| Delivery callbacks (`packet.go`, `tru.go`) | the packet's callback and its timer | `SetDelivery`, the ack in `serve` | send queue, application |
| Connecting (`connect.go`, `tru.go`, `channel.go`) | `connects` by uuid, `channels` by address | `Connect`, `wait`, `connect.serve`, `newChannel`, `destroy`, `Close` | crypt, activity timer |
| Encryption (`crypt.go`) | one RSA key for a `Tru`, a session key for a channel | `encrypt`, `decrypt`, `setSesionKey` | connecting, transfer |
| Keepalive (`statistic.go`) | last activity, `destroyed`, timer | `checkActivity`, ping, pong | destroy |
| Flow control (`channel.go`, `send_queue.go`) | send delay, mean trip time, retransmit time and attempts of a packet | `writeToDelay`, `setTripTime`, `setRetransmitTime`, `retransmit` | transfer |
| `Tru` object (`tru.go`, `channel.go`) | socket, `listenStop`, `channels`, `statTimer`, `hotkey` | `New`, `listen`, `Close`, `ForEachChannel`, `stopListen` | all of them |
| `net` interface (`tru_net.go`) | `truCommon`, accept channel, `Conn.read` | `Listen`, `Dial`, `Accept`, `Read`, `Write`, `Close` | all of the above |
| Printing (`statistic*.go`, `speed.go`) | `statTimer`, counters, messages | `StatisticPrint`, `StatisticPrintStop`, `Statistic` | `tru.mu`, the socket's address |
| Menu and log (`hotkey*`, `teolog`, `term`) | log level and filter, saved level, next key action | `run`, `Stop`, `stopLog`, `restoreLog`, the items, `SetLevel`, `SwitchLevel` | printing, `Close` |

What is hard in it:

* ids are 20 bits and wrap; old, expected and early packets are told apart by a
  signed modular distance alone;
* datagrams are lost, repeated, delayed and reordered; the handshake is not
  retransmitted, and it is answered from state kept by address only;
* the retransmit pass holds the queue's read lock while it waits for room in
  `senderCh`; the listen goroutine waits for the lock to handle acks;
* destroy runs on any goroutine, in several steps, and deletes by address;
* callbacks and timeouts race with acks, which may come while the callback is
  still being set;
* the menu and the printing are there before `New` has made the log and the socket;
* `Close` goes through the map of channels without the lock its writers hold;
* writers compute a new send delay from a copy of the old one, and trip times are
  measured from the last time a packet was sent;
* a timer whose function has begun cannot be stopped: printing, keepalive and
  retransmission arm theirs again at the end of it;
* programs that use `Listen` and `Dial` share one `Tru` object for good;
* the server may write on a channel before it has the session key.

What makes each part correct: ids order packets as they were written; transfer
gives the reader every packet once and in order, or destroys the channel;
payloads arrive whole; a delivery callback hears the truth, once; a call of
`Connect` returns, with a channel only if the server confirmed it; the map
leads to live channels and every live channel is in it; each end opens what the
other wrote with the key; a packet is sent again in time and not before; `Close`
ends, with everything closed; the log has the level that was set.

## 2. Modules

| Module | Models | How |
|---|---|---|
| `PacketID` | `newID`, `newExpectedID`, `distance` | operators over any id limit |
| `ReliableFifo` | what a channel promises | abstract: count accepted, deliver in order |
| `Transfer` | one direction of an established channel, both ends and the network between | below |
| `MCTransfer` | TLC instance of `Transfer` | |
| `Split` | `splitPacket`, `combinePacket` | over an ordered stream, which is what `Transfer` implements |
| `Delivery` | delivery callback, timeout, ack | `writeTo` and `serve` in steps, packet by packet |
| `Agreement` | what a call of `Connect` promises to both applications | abstract: calls, the channels made for them, how each is decided |
| `Handshake` | `Connect`, the four connect packets, the channel maps, destroy | a client and a server |
| `MCHandshake` | TLC instance of `Handshake` | |
| `Crypt` | the choices `crypt.go` makes by length: cipher, hash, RSA blocks | operators |
| `Session` | `Handshake` with the first data packets of each channel, by `Crypt` | composition |
| `FlowControl` | `writeToDelay`, `setTripTime`, `setRetransmitTime`, the retransmit timer | with time |
| `Connection` | what a `net.Conn` promises to its reader | abstract: messages, how far they are read, open or closed |
| `TruNet` | `Accept`, `Conn.Read`, `Write`, `Close`, the reader process, destroy of the channel under a Conn | a server and its application |
| `Keepalive` | `checkActivity` at both ends, ping, pong, disconnect, destroy | with time |
| `TruObject` | `New`, `listen`, `Close`, printing, what `Listen` and `Dial` share | one object and its program |
| `Menu` | the hot keys and the log level | one step per key, two for `u` and the prompts |
| `Application` | a program: `TruObject` and `Menu`, with the items that are steps of both | composition |
| `MCApplication` | the programs of the run of `Application` | |
| `TransferProofs`, `SplitProofs`, `FlowControlProofs`, `DeliveryProofs`, `HandshakeProofs`, `KeepaliveProofs`, `ApplicationProofs`, `TruNetProofs` | proofs | section 5 |

How they compose: `Transfer` takes its ids from `PacketID` and implements
`ReliableFifo`; `Split` works on the stream `ReliableFifo` promises and
implements `ReliableFifo` again, one level up, for payloads; `TruNet` starts where
messages leave `Split` and implements `Connection`; `Handshake` and `Keepalive` are
about the life of the channel that the others use, the one without time and with two
generations of channels, the other with time and one. `Handshake` implements
`Agreement`. `Session` adds data to `Handshake`. `FlowControl` says when the packets of `Transfer`, which may be due at any time
there, are due. `Application` is the life of the object all of them belong to;
there a channel is an address in the map.

Definitions such as `ServeDoneAny`, `ProcessedKept` or `CombineNothing`, marked
"a mistake, for comparison", are plausible wrong versions of the definition they
stand beside. No specification uses them: with one put in its place, the
property it is listed with in PROJECT.json must fail.

**Transfer.** Packet *n* is the *n*-th packet `newID` numbered; it carries the id
`pid[n]`. Only ids steer the model; *n* is what the properties compare. A
goroutine in `writeTo` goes through `WriteTo` (the destroyed check), `NewID`,
`Add` (the queue's write lock) and `WriteToSender` (waits for room in
`senderCh`). The retransmit pass is `Retransmit(due)`, then `Resend` or `GiveUp`
packet by packet; `scan` is nonempty while it holds the read lock, and `Add` and
`ReceiveAck` wait for `scan = {}`. Due times are not kept: any set of queued
packets may be due. `net` and `acks` are sets of datagrams which may be received
any number of times, or never, in any order. At the reading end `lpc` is where
`serve` is with a packet: `WriteToAck` always comes before the packet is dropped
(`ServeOld`), filed (`ServeEarly`) or handed over (`ServeExpected`,
`SendToReader`, which goes on through the receive queue as `process` does).
An ack of a packet resets its attempts in the model, since the packet object is
gone in the code.

**Split.** A byte is the pair of its payload and its place. Each `writeTo` is a
step, so goroutines interleave between fragments, unless the application keeps
them apart: `exclusive`, chosen at the start, tells which of the two it does.
`Combine` has the four branches of the switch in `packet()`.

**FlowControl.** A copy of a packet on the network is its age; its ack comes back,
if it does, when the copy is `TripMin` to `TripMax` old. `writeToDelay` is four
steps, since `sendDelay` is read once into a copy and once for the comparison,
and stored later: `GetRetransmitAttempts`, `GetSendDelay`, `CheckDelay`,
`SetSendDelay`. `exclusive` and `lossy` are chosen at the start. What is due
happens before time passes (`Tick`), but a timer may be late by `Jitter`.
`ReceiveAck` counts the trip from the last time the packet was sent, as
`setTripTime` does, whichever copy the ack is of. `Add` is the rest of `writeTo`;
a pass finds room in `senderCh` at once here, which `Transfer` does not assume.

**Delivery.** `writeTo` files the packet before it sets the callback. `SetDelivery` is
three steps: the callback is stored (`packet.go:184`), a timer started, and a copy of
it stored (`packet.go:185`: `*time.AfterFunc(...)`). `serve` takes the packet from the
queue (`ReceiveAck`), looks for its callback (`FindDelivery`), stops the copy and
starts the callback (`ReportDelivery`). It may come in before each of the three
steps. Before the first it finds no callback, and the delivery is never told of;
between the first and the last it calls `Stop` on a timer that was never initialised,
which panics (`StopPanics`). `early` remembers the packets whose ack was served then.
Stopping the copy does not reach the timer the Go runtime has queued (`go.mod`
names go 1.21), so `ReportDelivery` leaves `timer` as it is.

**Handshake.** `pc` follows a call of `Connect`: waiting in `wait`, leaving, `wch`
closed (the first deferred call), uuid deleted (returned). A listen goroutine
that found the uuid is at `lpc = "send"` until the call takes the value or has
closed `wch`. `destroy` on the listen goroutine is one step; on another
goroutine (the activity timer, `Close`) it is three, seen alive, destroyed,
deleted from the map, since `serve` may act in between. The RSA key belongs to
the `Tru` object, so any channel of an end can decrypt what was encrypted for
another; `skey` is the session key, named by the client channel that made it.
A call whose first `WriteTo` fails is, for all the rest, a call whose connect
packet was lost. The constants `Duplicates`, `Late`, `Overlap` say what the
environment may do: repeat datagrams; deliver those of the types in `Late` after
the call they belong to has returned; call `Connect` while another call or an
older channel to the same address is there. The module implements `Agreement`,
where a call is idle, waiting, decided or over and each channel was made for one
call: the server offers a channel, the client makes one, the server agrees
(takes a session key), and only then may the call be decided by that channel.
What the ends do with their maps, and what destroys a channel, is a stutter there.

**Crypt and Session.** A cipher's output is its key and its length: data of up to
64 bytes is combined with a hash of key and id, longer data goes through AES-GCM
and grows by 28 bytes. `Decrypt` is what the receiver makes of it: opened,
garbled (nothing checks a short packet) or an error. In `Session` the server's
application has a channel as soon as it is made (the connect callback), without
a key; the client's when `Connect` returned. Channels start with the same packet
id, so the first packet of one is taken for that of any other with its address;
each channel writes that packet only.

**TruObject, Menu and Application.** `lpc` is the listen goroutine (`offer`: in the
connect callback, with `tru.mu` held), `spc` the one in `Accept`, `dpc` the one that
dials, `kpc` the one in `Close`. A program is a record of how it comes to its object,
whether `New` starts a menu and printing, whether the program gave it a log before,
whether it has printing on and off itself, and which peers it has. `npc` is where
`New` is. It starts the menu's goroutine first (`tru.go:126`, `hotkey.go:51`), adds
items to the map that goroutine reads, makes the log, sets its level
(`tru.go:147`, `151`), and opens the socket last. Keys, frames and `Close` go on
meanwhile, so a key may find no log or the map being written, and a frame or `q` no
socket. `lost` is that `New` set the level while an item had the log stopped.

A write of the channels' map is two steps (`MapWritten` between them), both with
`tru.mu` (`MuFree`); `destroy` is three: the channel is destroyed, its entry deleted,
the lock given back. `todo` is what `ForEachChannel` has still to visit; it looks
each key up without the lock (`channel.go:116`), and may find the map being written
or the channel gone. `hand` is the channel that `Close` is in the middle of closing.
Each `StatisticPrint` starts a chain of timers (`chains`) whether or not printing is
on; `statTimer` is the chain that `StatisticPrintStop` would stop. The key `u` asks
and switches with the lock taken twice (`hotkey.go:74`, `75`). `crossed` remembers
that printing was started while on or after `Close`, or stopped in a frame.

`panicked` is why the process ended, after which nothing moves: these are steps of
the model and not excluded by it. In `Menu` a key is one step, from the action left
for it to the end of its item, since one goroutine does all of it; two items wait
for a line, and the application may call `Stop` in between. That a key's use of the log is
one step means that `New` sets the level before or after an item's, not within.

**TruNet.** Six kinds of goroutine: `listen` (`lpc`: free, in the connect callback
with `tru.mu` held, or waiting for room in `readerCh`), the one in `Accept`, the
reader process, one per Conn that reads and writes, one that calls `Close` and
one that runs `destroy`. `destroy` reports to `Conn.reader`, which calls
`Conn.Close`, which calls `Channel.Close`, which may call `destroy` again: `kpc`
is where each of the two is on that way. Go channels of the source without a
buffer (`accept`, `read.ch`) are rendezvous, one step of both sides. Two
goroutines that both find `c.ch` set end in a panic (`panicked`), after which
nothing moves. Messages a Conn gets are those that were written, in order (that
is `Split`); those that come before `Accept` has set the reader are dropped by
`ReaderProccess`, as in the code. `segments` and `taken` remember what `Read` returned
and which message it was handed last; no step reads them. `Connection` has of all
this what its reader sees: a Conn is open from `Accept` until `read.ch` is closed;
`Begin`, `GoOn` and `End` are calls of `Read` that begin with a message, go on with
it, and end it with `io.EOF`. The first message is any that came, since those
before the reader was set are dropped; from then on none is left out, and once the
Conn is closed the message at hand can be read to its end and no other begun.

**Keepalive.** `idle` and `armed` are the time since the last packet and since the
timer was armed. `CheckActivity` is the head of the timer's function up to the
ping, `Rearm` or `Inactive` its end: between the two another goroutine may run
`Destroy`, whose `Stop` then stops nothing. `Tick` lets time pass when nothing is
overdue, where `Jitter` and `Latency` bound how late a timer or a datagram may
be; `MaxLost` bounds how many pings and pongs are lost between two that get
through. Only keepalive traffic is there, that is, the channel is idle otherwise:
any other packet would set `lastActivity` too.

## 3. Runs

| Run | Bounds | Question | Result |
|---|---|---|---|
| `transfer` | 2 writers, 4 ids, 5 packets, `Window` = `Lifetime` = 2, Go channels of 1, 1 retransmission | ordered, nothing lost, nothing stale, index right, refines `ReliableFifo` | holds, 2.3 million states |
| `transfer_live` | 1 writer, 2 packets | every numbered packet is delivered or the channel destroyed | holds under fairness |
| `split` | 2 writers, 3 payloads of 0, 1, 3, 4 bytes, fragments of 2, channel destroyed at any time | bytes conserved; written one at a time, payloads are whole, in order (refines `ReliableFifo`); all delivered | holds |
| `delivery` | 2 packets | each outcome once, delivery true, an ack told unless it was served while the callback was being set, some outcome | holds, 17 thousand states |
| `delivery_timeout` | 1 packet | no timeout after a delivery | **violated** |
| `handshake` | module `Session`: 2 calls one after the other, 2 channels at each end, answers and done packets late, 1 data packet of 64 or 65 bytes | refines `Agreement`; keys agree, no orphan, map is live, `Connect` returns, data is opened | holds, 1.1 million states |
| `handshake_panic` | 1 call | the process goes on | **violated** |
| `handshake_reconnect` | 2 calls | the new channel stays in the map | **violated** |
| `trunet` | 2 Conns, one of which the application closes and both of which may be destroyed, 2 messages of 2 bytes read by 1, `readerCh` of 1 | refines `Connection`; messages read whole and in order, errors true, blocked `Read` and `Write` return | holds, 540 thousand states |
| `keepalive` | 500 ms, 4 s, 6 s in quarters of a second, `Jitter` = `Latency` = 250 ms, `MaxLost` = 1 | an idle channel lives, both ends go together, timers stop | holds, 511 thousand states |
| `flow` | 2 writers, 2 packets; the times of the source scaled down; lossy or not, one writer at a time or not | resent in time, trip times true, nothing twice, delay keeps its floor and recovers | holds, 2.4 million states |
| `application` | module `MCApplication`: 10 programs, 2 peers, 2 chains of timers, 2 log levels | `Close` ends and closes all, printing is known of and ends, peers are accepted, the level is kept | holds, 676 thousand states |

Type invariants: every module states one, and it is proved (section 5); the runs of
`Split` and `Keepalive` check theirs too.

Why the bounds are enough. Four ids and five packets make ids wrap, and with a
window of two the receive queue, the send queue and the network can each hold a
packet of one round beside one of the next; a Go channel of capacity 1 shows
full, empty and blocked; one retransmission shows a packet resent and the
channel given up. Payloads of 0, 1, 3 and 4 bytes over fragments of 2 are empty,
short, one over, and a multiple; those of exactly one fragment are left to the
proof, which is for any length. Two calls of `Connect` with two channels
at each end give a stale packet one newer call to hurt. Two Conns show one whose
goroutines wait for what another's hold; one message in `readerCh`, one with the
reader process and one with `listen` fill everything between socket and
application; a slice shorter than a message shows the buffer. In `keepalive` the
times are those of the source, and the run is at the edge: with 5.75 s in place
of 6 s a channel can be destroyed while it is healthy. So with timers up to 250 ms
late and up to 250 ms each way, one lost ping is the most the source's times bear;
where `Margin` does not hold `IdleLives` claims nothing. In `handshake`
64 and 65 bytes are on both sides of the only boundary a receiver can take
wrongly; data packets do not touch each other, so one is enough, and it may be
of any channel. In `flow` two packets give an oldest and another one, and the
times keep the order of those in the source: `minRTT` below the period of the
timer, that not above `startRTT`, which backs off up to the cap, and delays on both
sides of the one from which they shrink faster.
In `application` two peers give a channel that is closed and one that is made or
destroyed meanwhile, two chains one that goes on beside the one the object knows,
and two levels the one that logs and the one that does not. Its programs are those
with a menu (with or without a log, printing asked for before or after the menu or
not at all) and no peers, and those with peers and no menu, with and without
printing: peers and keys touch different state, but for `Close` and printing. A
second `Close` begins when the first is over, and an address that is in the map
does not connect again, which `Handshake` and `TruNet` have. The proofs drop these
bounds for the properties they cover: they are for any programs, peers, chains and
levels.

`HalfWindow`: `Window` bounds the packets numbered and not acked, `Lifetime` how
many packets may be numbered while a datagram is on the way. **The code enforces
neither.** A sender is only slowed by the adaptive delay; with 0x100000 ids,
half is 524288 packets. The passing runs and the theorems assume both are at most
half. They must: a packet more than half the ids ahead of the expected one counts
as old, `serve` acks before it looks (`tru.go:394`, `397`), and the sender forgets a
packet nobody has kept.

What the violated runs show, each against a sentence of the repository:

* `delivery_timeout`: the callback hears success and later a timeout
  (`packet.go:185`, `tru.go:380`).
* `handshake_panic`: the done packet arrives as `wait` times out; `serve` sends on
  `wch`, closed by `connect.go:112`.
* `handshake_reconnect`: the server's inactivity check is half way through
  destroying the old channel when a connect packet makes the new one; the check
  then deletes the new one by address (`channel.go:159`).

More consequences of the same designs, which no run lists:

* an ack that is served before `SetDelivery` is over is not told to the callback,
  which hears a timeout although the packet was delivered, or ends the process, as
  above. A packet that is filed can be retransmitted and acked at once, so a slow
  goroutine is enough. `AckReported` and `EventuallyReported` say so with `early`;
* a key that is pressed while `New` goes on may end the process: items are being
  added to the menu's map, or use the log that is not there yet. Or it makes `New`'s
  level disappear: an item that stopped the log before `New` set its level gives
  back the level it found (`LevelKept` excepts that by `lost`);
* printing asked for twice, by `StatisticPrint` or by it and `u`, gives two chains of
  timers, of which `StatisticPrintStop` stops one; printing stopped in the middle of a
  frame goes on (`crossed`). Printing asked for before the socket is open may end
  the process, also that of an object that `New` did not return;
* `Close` reads the map in `ForEachChannel` without the lock: a channel stored or
  deleted meanwhile is a fatal error of the runtime, if it notices, and a channel
  deleted since the keys were taken is a nil channel;
* a repeated connect packet destroys the server's healthy channel; two
  overlapping calls of `Connect` to one address leave a live channel that is in
  no map (`NoOrphan` and `KeysAgree` are for calls that do not overlap);
* two goroutines that close one Conn at once, one of which may be the inactivity
  timer, end in a panic; so do two calls of `Tru.Close`, also one after the other;
* `tru_net.go:163` lets several goroutines use a `Conn`, but `splitPacket` takes no
  lock: fragments of two large payloads are joined (`WholeWhenExclusive` needs its
  premise);
* `newChannel` holds `tru.mu` while the connect callback waits for `Accept`
  (`channel.go:79`, `tru_net.go:134`). While the application is elsewhere, a `Write`
  on another Conn waits in `newID`, and `Close` of that Conn waits too and does not
  unblock it, although its comment says so (`tru_net.go:225`); `WriteReturns`
  assumes that the application goes back to `Accept`. A client that connects to an
  object which `Dial` made waits, with `tru.mu` held, for an `Accept` that nobody
  calls, and so does `Close` (`NobodyAccepts`, excepted by `CloseEnds`);
* `Close` of a listener does not unblock `Accept` (`tru_net.go:152` says it does):
  nobody closes its Go channel;
* several writers at once may store a send delay below the least one
  (`channel.go:316`), so `DelayFloor` is about one; and about a start delay that is
  not below the least one, which `SetSendDelay` (`tru.go:211`) does not see to;
* what the server wrote before it had the key is garbled at the client if short,
  and dropped until the channel is given up if long, since every copy of it is the
  same plain text;
* a menu that the application stops while an item has the log stopped leaves it
  stopped;
* `Statistic` lets goroutines write to a slice that a later `append` has moved
  (`statistic.go:247`): with two channels or more some rows lack `RTA` and `SQ`.

## 4. Fairness

The Go scheduler runs every goroutine that can run. Operations that take their
turn at a lock or for room in a Go channel get strong fairness (`Add`,
`WriteToSender`, `Resend`): Go serves waiters in order, so what is possible again
and again happens. A timer that is armed fires, and a packet that stays queued
becomes due (`Retransmit`). Nothing is assumed of the network: a packet may be
lost on every attempt, which is why the liveness properties end with "or the
channel is destroyed". No application is forced to write or to connect.
`ConnectReturns` rests on the timer in `wait` alone. In `TruNet` a goroutine in the
middle of `Read`, `Write` or of closing goes on when it can, and the application's
loop goes back to `Accept`; nobody has to begin a call, read, or close.
In `Keepalive` time passes, timers fire, and a datagram arrives or is lost. In
`FlowControl` goroutines in `writeTo` go on and time passes; that the delay recovers
is for an application that goes on writing. In `Application` `listen`, `Close`, `Accept`
and a `destroy` that has begun go on when they can. `Close` and the deleting in
`destroy` have strong fairness, since they wait for `tru.mu`, which others take and
give back, and Go's mutexes starve nobody. No key is ever pressed by fairness, no
peer does anything, and no timer of the printing fires.

## 5. Proofs

* `TransferProofs`: of the ids, `DistanceExact`. For any limit, ids of numbers less
  than half the limit apart have as signed distance the true difference. It rests
  on uniqueness of quotient and remainder (`ModUnique`). Of the channel, for any
  number of writers, packets, ids, capacities and attempts: `InOrder`, `NoLoss`, `ReceiveQueueAhead`, `IndexMatchesQueue` and the
  refinement of `ReliableFifo` follow from one inductive invariant `IInv`. It is
  needed since none of them is inductive: that an arriving packet is filed
  rightly depends on its number being near the expected one, which depends on
  how long datagrams live and how far the sender may run ahead. `IInv` says that
  packet *n* has the id *n* modulo the limit (`Numbered`), that both counters
  agree with the numbers (`CounterInv`), that every packet in the queue, in a
  channel, on the network or at the reader is one of the last `Window` or
  `Lifetime` (`SenderInv`, `AckInv`), and that what the reader has is a prefix
  (`ReaderInv`, `RecvQueueInv`). Each has a lemma per action. Assumed:
  `TransferAssumption`, and `HalfWindow` in all but the typing theorems.
* `SplitProofs`: types, `StreamConserved`, `WholeWhenExclusive` and the refinement
  of `ReliableFifo` by payloads (`FifoRefinement`), for any goroutines, lengths and
  size of fragment. The bytes the reader has, those waiting in `data` and those on the
  wire are one sequence, `Stream`, and a step only appends to it (`StreamSend`) or
  moves the border between its parts (`StreamReceive`). So conservation follows from
  what the stream has of the payload each goroutine is in the middle of (`OwnInv`:
  the bytes sent so far, and no two goroutines in the same payload). For payloads
  written one at a time the invariant says more: only one goroutine is in the middle
  of one (`AloneInv`), and `data` and the wire are a `Row` of fragments that begins
  where the last delivered payload ended and goes on through the payloads written
  (`OrderInv`), so what `combinePacket` puts together is the next payload.
  `FlattenSeq` is recursive; what it gives is proved by induction over the number of
  fragments. The library's induction theorems take a predicate, which the provers
  cannot instantiate; `SetInduction` has a set in its place, and rests on the library's
  theorem that a nonempty set of numbers has a least one.
* `DeliveryProofs`: types, `ReportedOnce`, `DeliveredIsTrue` and `AckReported`, for any
  packets. That an ack is told does not follow from itself: what `serve` finds
  depends on how far `writeTo` was when the ack took the packet. `WriteInv` says what
  is stored in a packet at each place in `writeTo`, `ServeInv` that `serve`, busy with an
  ack that was not early, will find all of it, and `TimeoutInv` that the timer fires once.
* `FlowControlProofs`: types, `ResentInTime`, `MidleIsTrue`, `NoSpurious` and
  `DelayFloor`, for any times and any number of packets and writers. One invariant:
  a packet's retransmit time is at most the cap, its time since the last sending
  and the timer's never more than a round apart, copies are younger than
  `TripMax`, and on a steady network the mean is within the trips (`SteadyInv`), so
  that the ack comes before the time is over. `FloorInv` says that a lone writer's
  copy is the delay that is stored.
* `HandshakeProofs`: types, `MappedIsLive` (inductive) and that `Handshake`
  implements `Agreement`, for any number of calls and channels and for all settings
  of `Duplicates`, `Late` and `Overlap`. The refinement needs `Evidence` (what a
  datagram on the way proves about the ends), `MadeForCall`, and `CallInv`: a
  channel is made for a call once, and an answer is that of a channel of the
  server's. `NoOrphan`, `KeysAgree` and
  `OpenedIfSameCall` are proved under `Solo`: no overlap, no repetition, and only
  answers and done packets late; the code does not have them otherwise. Their
  invariant follows a call through its packets: at most one channel of a call at
  each end (`ClientSolo`, `ServerSolo`), at most one packet of it on the way and
  which one that can be (`NetSolo`), and with which key a data packet was written
  (`DataInv`). About `Crypt`: a receiver makes the choices of the sender
  (`SameChoices`), the hash covers the data (`KeyCovers`), blocks fit (`BlocksJoin`).
* `KeepaliveProofs`: types, `HalfOpenEnds` and `IdleLives`, for any times, delays
  and losses. For the first two the invariant says that an end which looks and
  goes on had a packet within `DeadAfter` (`LookInv`), and that an end whose peer
  is gone had none since but those that were on their way when it went
  (`SilenceInv`). For `IdleLives` it says
  that what is on the way comes from the client's last look or the one before
  (`FlightInv`), so the time since the last pong is at most that of the looks whose
  ping was lost, counted by `Budget`, and of two more (`ClientInv`); the server's
  last ping is a datagram's way older than the client's last pong (`ServerInv`).
  `Margin` is then what keeps both below `DeadAfter`. Assumed: a datagram takes
  less than the time between two looks.
* `ApplicationProofs`: types, `LevelKept`, `RunningIsTrue` and `ClosedAll`, for any
  programs, peers, chains and levels. The invariant has a part for each thing a step
  can disturb apart from the others, with a lemma per part: printing (`PrintInv`), the
  map and `Close` (`MapInv`), the places of the goroutines (`PlaceInv`), and the menu
  with the log (`MenuInv`). Assumed of a program: what it consists of.
* `TruNetProofs`: types, `ReadErrorIsTrue`, `ReadsWhole` and the refinement of
  `Connection` (`ConnectionRefinement`), for any Conns, messages, slices and capacity of
  `readerCh`. That a Conn's reader channel is closed only after
  its channel is destroyed is `CloseInv`. For `ReadsWhole` the messages on their way
  are seen as one queue (`Queue`): with the reader process, in `readerCh`, with
  `listen`. In it each channel's messages are in order with none left out
  (`QueueOK`); what was read of a Conn and what is in its buffer make up consecutive
  messages (`WholeInv`); and the next one it is handed is the one after, as long as
  it can be handed any (`NextInv`): a message is dropped only before `Accept` has set
  the reader or when no other will be read (`ReadsOn`). The refinement has a lemma for
  each step that `Connection` sees and one for those it does not (`Unseen`); it needs
  besides that nobody closes a Conn before `Accept` has returned it (`OpenInv`), or a
  Conn would be closed that never was open.

Only model-checked: liveness under fairness (`EventuallyDelivered`,
`EventuallyReported`, `ConnectReturns`, `ReadUnblocked`, `WriteReturns`,
`TimerStops`, `DelayRecovers`, `CloseEnds`, `OfferTaken`), which is out of the
prover's reach as is `ENABLED`. Every invariant and every action property that a
passing run checks is proved.

## 6. Not modelled, and why

RSA, AES and hashes (library calls; `Crypt` has which is used, and for what); the
byte layout of packets (fixed fields through `encoding/binary`); the counters,
tables, messages and packets per second of the statistic, the filter and the lines
of the log, and terminal modes (nothing reads them but a user); the flags and
profiles of the examples; the failures of the RSA library; several peers in one
handshake.

## 7. Plan

All of the plan is done: `PacketID`, `ReliableFifo` and `Transfer`; `Split`;
`Delivery`; `Handshake`; `TruNet`; `Keepalive`; `FlowControl`; `Session`; `TruObject`,
`Menu` and `Application`; `Connection`; `Agreement`; and the proofs. What would come
next: what `Session` adds to `Agreement`, data that is opened at the other end, as a
part of that promise.
