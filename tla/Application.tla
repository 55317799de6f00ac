---------------------------- MODULE Application ----------------------------
(***************************************************************************)
(* A program that uses the library: a Tru object, and the hot key menu     *)
(* that New starts for a program which asks for it.  New goes on while the *)
(* menu is there, and the menu's items for printing and quitting are steps *)
(* of both.                                                                *)
(***************************************************************************)
EXTENDS TruObject, Menu

vars == <<truVars, menuVars>>

TypeOK == TruTypeOK /\ MenuTypeOK

Init == TruInit /\ MenuInit /\ logger = program.log

-----------------------------------------------------------------------------
(***************************************************************************)
(* New.                                                                    *)
(***************************************************************************)

\* The object is asked for: by New, which may start the menu, Listen or Dial.
Start ==
    /\ Dial \/ Listen
    /\ IF npc' = "menu" THEN NewHotkey ELSE UNCHANGED menuVars

\* New makes the log and sets its level, after the menu is there.
NewSetsLog ==
    \/ NewLogs("log", "level") /\ NewLog
    \/ NewLogs("level", "socket") /\ \E l \in Levels : NewLevel(l)

NewStep == NewSetsLog \/ ((ItemsAdded \/ NewOpens \/ NewFails) /\ UNCHANGED menuVars)

-----------------------------------------------------------------------------
(***************************************************************************)
(* The menu.                                                               *)
(***************************************************************************)

\* The process ends, for the reason given.
Panic(reason) ==
    /\ Alive
    /\ panicked' = reason
    /\ UNCHANGED <<program, object, conn, mapVars, lpc, spc, dpc, closing, printing, menuVars>>

UseMenu == Alive /\ MenuStep /\ UNCHANGED truVars

\* An item that uses the log finds none; a key is looked up while New adds items.
MenuPanics ==
    /\ mpc = "getch"
    /\ \/ ~logger /\ Panic("nilLog")
       \/ npc = "menu" /\ Panic("mapRace")

\* u, with tru.mu once for each of its steps.
AskPrinting == Alive /\ MuFree /\ PrintItem(statTimer # None) /\ UNCHANGED truVars

SwitchPrinting ==
    /\ Alive
    /\ \/ PrintItemEnds("print") /\ \E i \in Chains : StatisticPrint(i)
       \/ PrintItemEnds("printStop") /\ PrintStop
    /\ UNCHANGED <<program, object, conn, mapVars, lpc, spc, dpc, closing, panicked>>

\* q: the process exits after Close.
Quit == logger /\ StopItem /\ Close

MenuGoes == UseMenu \/ MenuPanics \/ AskPrinting \/ SwitchPrinting \/ Quit

-----------------------------------------------------------------------------
(***************************************************************************)
(* The rest.                                                               *)
(***************************************************************************)

\* What the program does with an object that it has.
UseObject == UsePrinting \/ (made /\ Close)

StopMenu == Alive /\ made /\ Stop /\ UNCHANGED truVars

ListenStep == ListenTop \/ ReadFails \/ Stored \/ Accept

CloseStep ==
    \/ ForEachChannel \/ Visited \/ StopListen \/ CloseSocket \/ StatisticPrintStop
    \/ \E a \in Addrs : CloseChannel(a) \/ CloseDeletes(a)

Peers == ServeOther \/ \E a \in Addrs : NewChannel(a) \/ Connected(a)

DestroyStep == DestroyEnds \/ \E a \in Addrs : DestroyBegins(a) \/ DestroyDeletes(a)

Frame == (\E i \in Chains : FrameBegins(i) \/ FrameEnds(i)) \/ OrphanFrame

Run == (UseObject \/ ListenStep \/ CloseStep \/ Peers \/ DestroyStep \/ Frame) /\ UNCHANGED menuVars

Next == Start \/ NewStep \/ MenuGoes \/ StopMenu \/ Run

Spec == Init /\ [][Next]_vars

\* Goroutines go on, and who waits for tru.mu gets it in the end, since Go's
\* mutexes starve nobody.  Nothing is assumed of peers, keys and timers.
Fairness ==
    /\ WF_vars(ListenTop /\ UNCHANGED menuVars)
    /\ WF_vars(ReadFails /\ UNCHANGED menuVars)
    /\ WF_vars(Stored /\ UNCHANGED menuVars)
    /\ WF_vars(Accept /\ UNCHANGED menuVars)
    /\ WF_vars(DestroyEnds /\ UNCHANGED menuVars)
    /\ \A a \in Addrs : SF_vars(DestroyDeletes(a) /\ UNCHANGED menuVars)
    /\ SF_vars(CloseStep /\ UNCHANGED menuVars)

FairSpec == Spec /\ Fairness

-----------------------------------------------------------------------------
(***************************************************************************)
(* Correctness.                                                            *)
(***************************************************************************)

\* Printing is not said to be on when no timer prints; and it is known of each
\* timer that prints, which are never two, unless printing was started while it
\* was on or after Close, or stopped in the middle of a frame
\* (printStatistic, StatisticPrintStop, StatisticPrintRunning, u).
RunningIsTrue ==
    /\ statTimer # None => chains[statTimer] # "no"
    /\ ~crossed => \A i \in Chains : chains[i] # "no" <=> statTimer = i

\* A channel that was there when Close looked is closed, or destroyed by somebody
\* else; those that a peer or a Connect makes until the socket is closed stay
\* (Tru.Close, ForEachChannel, Channel.Close, destroy).
ClosedAll ==
    kpc \in {"visit", "stop", "socket", "print", "done"} =>
        channels \subseteq todo \cup hand \cup late \cup dead

\* The connect callback has tru.mu, and waits for a Listen that there was not when
\* the object was made.
NobodyAccepts == lpc = "offer" /\ feeder = "dialer"

\* Close returns, listen ends, no channel is left but those that came late, and
\* nothing is printed any more, whatever is destroyed, connects or is printed
\* meanwhile, if the process does not end before and no connect callback has tru.mu
\* for good (stopListen closes the Go channel and the socket: either alone would
\* not do).
CloseEnds ==
    kpc = "look" ~>
        \/ ~Alive \/ NobodyAccepts
        \/ /\ kpc = "done" /\ lpc = "stopped" /\ channels \subseteq late
           /\ ~crossed => \A i \in Chains : chains[i] = "no"

\* A peer that connects to an object made by Listen is accepted, and tru.mu free
\* again, also if Dial is called later, and while Close waits (connected, Accept,
\* newTrunet).
OfferTaken == lpc = "offer" /\ ~NobodyAccepts ~> lpc # "offer" \/ ~Alive
=============================================================================
