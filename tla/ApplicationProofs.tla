------------------------- MODULE ApplicationProofs --------------------------
(***************************************************************************)
(* What holds of a program with a Tru object and a menu, for any number of *)
(* peers, timers and levels of the log, and for any program.               *)
(***************************************************************************)
EXTENDS Application, TLAPS

-----------------------------------------------------------------------------
(***************************************************************************)
(* The Tru object: printing, and the map, are apart from each other.       *)
(***************************************************************************)

\* Printing.
PrintInv ==
    /\ chains \in [Chains -> {"no", "armed", "frame"}]
    /\ statTimer \in Chains \cup {None}
    /\ orphan \in BOOLEAN /\ crossed \in BOOLEAN
    /\ RunningIsTrue

\* The map and Close.
MapInv ==
    /\ channels \subseteq Addrs /\ late \subseteq channels /\ dead \subseteq channels \cap dying
    /\ dying \subseteq Addrs /\ deleting \in BOOLEAN
    /\ kpc \in {"idle", "look", "visit", "stop", "socket", "print", "done"}
    /\ todo \subseteq Addrs /\ hand \subseteq Addrs
    /\ ClosedAll

\* Everything else.
PlaceInv ==
    /\ program \in Programs
    /\ made \in BOOLEAN /\ feeder \in {"none", "server", "dialer"}
    /\ npc \in {"no", "menu", "log", "level", "socket"}
    /\ socket \in {"none", "open", "closed"} /\ listenStop \in {"none", "open", "closed"}
    /\ lpc \in {"none", "top", "read", "store", "storeOwn", "offer", "stopped"}
    /\ spc \in {"start", "accept", "failed"}
    /\ dpc \in {"start", "connect", "done"}
    /\ panicked \in {"no", "mapRace", "nilChannel", "noSocket", "closedTwice", "nilLog"}

TruInv == PrintInv /\ MapInv /\ PlaceInv

LEMMA TruInitInv == TruInit => TruInv
  BY TruObjectAssumption
     DEF TruInit, TruInv, PrintInv, MapInv, PlaceInv, RunningIsTrue, ClosedAll

\* A step that leaves printing alone.
LEMMA PrintSame == ASSUME PrintInv, UNCHANGED printing PROVE PrintInv'
  BY DEF PrintInv, RunningIsTrue, printing

\* A step that leaves the map and Close alone.
LEMMA MapSame == ASSUME MapInv, UNCHANGED <<mapVars, closing>> PROVE MapInv'
  BY DEF MapInv, ClosedAll, mapVars, closing

LEMMA StartKeeps ==
    ASSUME PrintInv, NEW i \in Chains, StatisticPrint(i)
    PROVE  PrintInv'
<1> USE TruObjectAssumption DEF PrintInv, RunningIsTrue
<1>1. /\ chains[i] = "no" /\ chains' = [chains EXCEPT ![i] = "armed"]
      /\ statTimer' = i /\ orphan' = orphan
      /\ crossed' \in BOOLEAN
      /\ ~crossed' => ~crossed /\ statTimer = None
  BY DEF StatisticPrint
<1>2. statTimer' # None => chains'[statTimer'] # "no"
  BY <1>1
<1>3. ASSUME ~crossed', NEW j \in Chains PROVE chains'[j] # "no" <=> statTimer' = j
  BY <1>1, <1>3
<1> QED BY <1>1, <1>2, <1>3

LEMMA StopKeeps ==
    ASSUME PrintInv, PrintStop
    PROVE  PrintInv'
<1> USE TruObjectAssumption DEF PrintInv, RunningIsTrue, printing
<1>1. CASE statTimer = None
  BY <1>1 DEF PrintStop
<1>2. CASE statTimer # None
  <2>1. statTimer \in Chains /\ chains[statTimer] # "no"
    BY <1>2
  <2>2. /\ chains' = [chains EXCEPT ![statTimer] =
                         IF chains[statTimer] = "armed" THEN "no" ELSE chains[statTimer]]
        /\ statTimer' = None /\ orphan' = orphan
        /\ crossed' \in BOOLEAN
        /\ ~crossed' => ~crossed /\ chains[statTimer] # "frame"
    BY <1>2 DEF PrintStop
  <2>3. ASSUME ~crossed', NEW j \in Chains PROVE chains'[j] # "no" <=> statTimer' = j
    BY <2>1, <2>2, <2>3
  <2> QED BY <2>1, <2>2, <2>3
<1> QED BY <1>1, <1>2

LEMMA FrameKeeps == ASSUME TruInv, Frame PROVE TruInv'
<1> USE DEF TruInv
<1>1. ASSUME NEW i \in Chains, FrameBegins(i) PROVE TruInv'
  <2>1. PrintInv'
    BY <1>1 DEF PrintInv, RunningIsTrue, FrameBegins
  <2> QED BY <1>1, <2>1, MapSame DEF FrameBegins, PlaceInv, object, conn
<1>2. ASSUME NEW i \in Chains, FrameEnds(i) PROVE TruInv'
  <2>1. PrintInv'
    <3>1. CASE socket = "none"
      BY <1>2, <3>1, PrintSame DEF FrameEnds
    <3>2. CASE socket # "none"
      BY <1>2, <3>2, TruObjectAssumption DEF FrameEnds, PrintInv, RunningIsTrue
    <3> QED BY <3>1, <3>2
  <2> QED BY <1>2, <2>1, MapSame DEF FrameEnds, PlaceInv, object, conn
<1>3. CASE OrphanFrame
  BY <1>3, PrintSame, MapSame DEF OrphanFrame, PlaceInv, object, conn
<1> QED BY <1>1, <1>2, <1>3 DEF Frame

LEMMA NewKeeps ==
    ASSUME TruInv, NEW who \in {"none", "server", "dialer"}, NewTrunet(who) \/ NewBegins(who)
    PROVE  /\ PrintInv'
           /\ made' \in BOOLEAN /\ feeder' \in {"none", "server", "dialer"}
           /\ npc' \in {"no", "menu", "log", "level", "socket"}
<1> USE DEF TruInv
<1>1. CASE UNCHANGED <<object, printing>>
  BY <1>1, PrintSame DEF object, PlaceInv
<1>2. CASE NewBegins(who)
  BY <1>2, PrintSame, StartKeeps DEF NewBegins, PlaceInv
<1> QED BY <1>1, <1>2 DEF NewTrunet

LEMMA CallersKeep == ASSUME TruInv, Dial \/ Listen PROVE TruInv'
<1> USE DEF TruInv
<1>1. CASE Dial
  <2>1. /\ NewTrunet("dialer") \/ NewBegins("none")
        /\ dpc' \in {"start", "connect", "done"}
        /\ UNCHANGED <<program, conn, mapVars, lpc, spc, closing, panicked>>
    BY <1>1 DEF Dial, PlaceInv
  <2> QED BY <2>1, NewKeeps, MapSame DEF PlaceInv, conn
<1>2. CASE Listen
  <2>1. /\ NewTrunet("server") /\ spc' \in {"start", "accept", "failed"}
        /\ UNCHANGED <<program, conn, mapVars, lpc, dpc, closing, panicked>>
    BY <1>2 DEF Listen, PlaceInv
  <2> QED BY <2>1, NewKeeps, MapSame DEF PlaceInv, conn
<1> QED BY <1>1, <1>2

LEMMA NewStepKeeps ==
    ASSUME TruInv,
           \/ ItemsAdded \/ NewOpens \/ NewFails
           \/ NewLogs("log", "level") \/ NewLogs("level", "socket")
    PROVE  TruInv'
<1> USE DEF TruInv
<1>1. CASE ItemsAdded
  <2>1. PrintInv'
    BY <1>1, PrintSame, StartKeeps DEF ItemsAdded
  <2> QED BY <1>1, <2>1, MapSame DEF ItemsAdded, PlaceInv, conn
<1>2. CASE NewOpens
  BY <1>2, PrintSame, MapSame DEF NewOpens, PlaceInv
<1>3. CASE NewFails
  <2>1. PrintInv'
    <3>1. CASE program.user = "direct"
      BY <1>3, <3>1, PrintSame DEF NewFails
    <3>2. CASE program.user # "direct"
      BY <1>3, <3>2, TruObjectAssumption DEF NewFails, PrintInv, RunningIsTrue
    <3> QED BY <3>1, <3>2
  <2> QED BY <1>3, <2>1, MapSame DEF NewFails, PlaceInv, conn
<1>4. CASE NewLogs("log", "level")
  BY <1>4, PrintSame, MapSame DEF NewLogs, PlaceInv, conn
<1>5. CASE NewLogs("level", "socket")
  BY <1>5, PrintSame, MapSame DEF NewLogs, PlaceInv, conn
<1> QED BY <1>1, <1>2, <1>3, <1>4, <1>5

\* The listen goroutine, peers, and channels that are destroyed.
LEMMA MapKeeps ==
    ASSUME TruInv, ListenStep \/ Peers \/ DestroyStep
    PROVE  TruInv'
<1> USE DEF TruInv
<1>1. CASE ListenStep \/ ServeOther
  BY <1>1, PrintSame, MapSame
     DEF ListenStep, ListenTop, ReadFails, Stored, Accept, ServeOther, PlaceInv, object, conn
<1>2. ASSUME NEW a \in Addrs, NewChannel(a) \/ Connected(a) PROVE TruInv'
  <2>1. /\ Store(a) /\ lpc' \in {"store", "storeOwn"}
    BY <1>2 DEF NewChannel, Connected
  <2>2. MapInv'
    BY <2>1 DEF Store, MapInv, ClosedAll, Closing, closing
  <2> QED BY <2>1, <2>2, PrintSame DEF Store, PlaceInv, object, conn
<1>3. CASE DestroyEnds
  <2>1. MapInv'
    BY <1>3 DEF DestroyEnds, MapInv, ClosedAll, closing
  <2> QED BY <1>3, <2>1, PrintSame DEF DestroyEnds, PlaceInv, object, conn
<1>4. ASSUME NEW a \in Addrs, DestroyBegins(a) PROVE TruInv'
  <2>1. MapInv'
    BY <1>4 DEF DestroyBegins, MapInv, ClosedAll, closing
  <2> QED BY <1>4, <2>1, PrintSame DEF DestroyBegins, PlaceInv, object, conn
<1>5. ASSUME NEW a \in Addrs, DestroyDeletes(a) PROVE TruInv'
  <2>1. MapInv'
    BY <1>5 DEF DestroyDeletes, MapInv, ClosedAll, closing
  <2> QED BY <1>5, <2>1, PrintSame DEF DestroyDeletes, PlaceInv, object, conn
<1> QED BY <1>1, <1>2, <1>3, <1>4, <1>5 DEF Peers, DestroyStep

LEMMA CloseKeeps ==
    ASSUME TruInv, Close \/ CloseStep
    PROVE  TruInv'
<1> USE DEF TruInv
<1>1. CASE Close \/ ForEachChannel \/ Visited
  <2>1. MapInv'
    BY <1>1 DEF Close, ForEachChannel, Visited, MapInv, ClosedAll, mapVars
  <2> QED BY <1>1, <2>1, PrintSame DEF Close, ForEachChannel, Visited, PlaceInv, object, conn
<1>2. ASSUME NEW a \in Addrs, CloseChannel(a) PROVE TruInv'
  <2>1. MapInv'
    BY <1>2 DEF CloseChannel, MapInv, ClosedAll, mapVars
  <2> QED BY <1>2, <2>1, PrintSame DEF CloseChannel, PlaceInv, object, conn
<1>3. ASSUME NEW a \in Addrs, CloseDeletes(a) PROVE TruInv'
  <2>1. MapInv'
    BY <1>3 DEF CloseDeletes, MapInv, ClosedAll
  <2> QED BY <1>3, <2>1, PrintSame DEF CloseDeletes, PlaceInv, object, conn
<1>4. CASE StopListen \/ CloseSocket
  <2>1. MapInv'
    BY <1>4 DEF StopListen, CloseSocket, MapInv, ClosedAll, mapVars
  <2> QED BY <1>4, <2>1, PrintSame DEF StopListen, CloseSocket, PlaceInv, object
<1>5. CASE StatisticPrintStop
  <2>1. MapInv'
    BY <1>5 DEF StatisticPrintStop, MapInv, ClosedAll, mapVars
  <2> QED BY <1>5, <2>1, StopKeeps DEF StatisticPrintStop, PlaceInv, object, conn
<1> QED BY <1>1, <1>2, <1>3, <1>4, <1>5 DEF CloseStep

\* The program and the item u have printing on or off.
LEMMA UsePrintKeeps == ASSUME TruInv, UsePrinting \/ SwitchPrinting PROVE TruInv'
<1> USE DEF TruInv
<1>1. PrintInv'
  BY StartKeeps, StopKeeps DEF UsePrinting, SwitchPrinting
<1>2. UNCHANGED <<program, object, conn, mapVars, lpc, spc, dpc, closing, panicked>>
  BY DEF UsePrinting, SwitchPrinting
<1> QED BY <1>1, <1>2, MapSame DEF PlaceInv, object, conn

LEMMA PanicKeeps == ASSUME TruInv, MenuPanics PROVE TruInv'
  BY PrintSame, MapSame DEF TruInv, MenuPanics, Panic, PlaceInv, object, conn

-----------------------------------------------------------------------------
(***************************************************************************)
(* The menu.                                                               *)
(***************************************************************************)

\* A prompt has left its action.
MenuInv ==
    /\ MenuTypeOK /\ LevelKept
    /\ mpc \in {"askLevel", "askFilter"} => next

LEMMA RestoredLevel ==
    ASSUME MenuInv
    PROVE  Restored \in Levels /\ (~lost => Restored = wanted)
  BY DEF MenuInv, MenuTypeOK, LevelKept, Restored

\* Steps of New.
LEMMA LogKeeps ==
    ASSUME MenuInv, NewHotkey \/ NewLog \/ \E l \in Levels : NewLevel(l)
    PROVE  MenuInv'
<1> USE DEF MenuInv, MenuTypeOK, LevelKept
<1>1. CASE NewHotkey
  <2>1. mpc' = "getch" /\ UNCHANGED <<logger, level, wanted, lost, saved, next, stop>>
    BY <1>1 DEF NewHotkey
  <2> QED BY <2>1
<1>2. CASE NewLog
  <2>1. logger' = TRUE /\ UNCHANGED <<level, wanted, lost, saved, next, stop, mpc>>
    BY <1>2 DEF NewLog
  <2> QED BY <2>1
<1>3. ASSUME NEW l \in Levels, NewLevel(l) PROVE MenuInv'
  <2>1. level' = l /\ wanted' = l /\ lost' = next /\ UNCHANGED <<logger, saved, next, stop, mpc>>
    BY <1>3 DEF NewLevel
  <2> QED BY <2>1
<1> QED BY <1>1, <1>2, <1>3

LEMMA KeyKeeps ==
    ASSUME MenuInv,
           \/ MenuStep \/ Stop
           \/ PrintItem(TRUE) \/ PrintItem(FALSE)
           \/ PrintItemEnds("print") \/ PrintItemEnds("printStop")
    PROVE  MenuInv'
<1> USE DEF MenuInv, MenuTypeOK, LevelKept
<1>1. 0 \in Levels
  BY MenuAssumption DEF Levels
<1>2. Restored \in Levels /\ (~lost => Restored = wanted)
  BY RestoredLevel
<1> HIDE DEF LevelKept
<1>3. ASSUME NEW l \in Levels, EnterLevel(l) PROVE MenuInv'
  <2>1. /\ next' = FALSE /\ level' = l /\ wanted' = l /\ UNCHANGED <<logger, saved>>
        /\ lost' = FALSE /\ stop' = FALSE /\ mpc' \in {"getch", "dropped"}
    BY <1>3 DEF EnterLevel, GoOn
  <2> QED BY <2>1 DEF LevelKept
<1>4. CASE Show \/ Prompt
  <2>1. /\ saved' = Restored /\ level' = 0 /\ next' = TRUE /\ UNCHANGED <<logger, wanted, lost>>
        /\ stop' \in BOOLEAN /\ mpc' \in {"getch", "dropped", "askLevel", "askFilter"}
    BY <1>4 DEF Show, Prompt, StopLog, GoOn
  <2> QED BY <1>1, <1>2, <2>1 DEF LevelKept
<1>5. CASE EnterFilter
  <2>1. /\ next /\ level' = saved /\ UNCHANGED <<logger, wanted, lost, saved, next>>
        /\ stop' = FALSE /\ mpc' \in {"getch", "dropped"}
    BY <1>5 DEF EnterFilter, GoOn
  <2> QED BY <2>1 DEF LevelKept
<1>6. CASE SwitchLevel
  <2>1. (Restored + 1) % NumLevels \in Levels
    BY <1>2, MenuAssumption DEF Levels
  <2>2. /\ level' \in Levels /\ wanted' = level' /\ UNCHANGED <<logger, saved>>
        /\ lost' = FALSE /\ next' = FALSE /\ stop' = FALSE /\ mpc' \in {"getch", "dropped"}
    BY <1>6, <2>1 DEF SwitchLevel, GoOn
  <2> QED BY <2>2 DEF LevelKept
<1>7. CASE OtherItem \/ StopItem \/ PrintItem(TRUE) \/ PrintItem(FALSE)
  <2>1. /\ level' = Restored /\ next' = FALSE /\ stop' \in BOOLEAN
        /\ mpc' \in {"getch", "stopped", "dropped", "print", "printStop"}
        /\ UNCHANGED <<logger, wanted, lost, saved>>
    BY <1>7 DEF OtherItem, StopItem, PrintItem, KeyOnly, GoOn
  <2> QED BY <1>2, <2>1 DEF LevelKept
<1>8. CASE PrintItemEnds("print") \/ PrintItemEnds("printStop")
  <2>1. /\ stop' = FALSE /\ mpc' \in {"getch", "dropped"}
        /\ UNCHANGED <<logger, level, wanted, lost, saved, next>>
    BY <1>8 DEF PrintItemEnds, GoOn
  <2> QED BY <2>1 DEF LevelKept
<1>9. CASE Stop
  BY <1>9 DEF Stop, LevelKept
<1> QED BY <1>3, <1>4, <1>5, <1>6, <1>7, <1>8, <1>9 DEF MenuStep

-----------------------------------------------------------------------------
(***************************************************************************)
(* Both.                                                                   *)
(***************************************************************************)
IInv == TruInv /\ MenuInv

LEMMA InitInv == Init => IInv
<1> SUFFICES ASSUME Init PROVE IInv
  OBVIOUS
<1>1. TruInv
  BY TruInitInv DEF Init
<1>2. logger \in BOOLEAN
  BY <1>1, TruObjectAssumption DEF Init, TruInv, PlaceInv
<1>3. 0 \in Levels
  BY MenuAssumption DEF Levels
<1>4. MenuInv
  BY <1>2, <1>3 DEF Init, MenuInit, MenuInv, MenuTypeOK, LevelKept
<1> QED BY <1>1, <1>4 DEF IInv

LEMMA StepKeeps == IInv /\ [Next]_vars => IInv'
<1> SUFFICES ASSUME IInv, [Next]_vars PROVE IInv'
  OBVIOUS
<1> USE DEF IInv
<1>1. ASSUME UNCHANGED truVars PROVE TruInv'
  BY <1>1, PrintSame, MapSame DEF TruInv, PlaceInv, truVars, object, conn
<1>2. ASSUME UNCHANGED menuVars PROVE MenuInv'
  BY <1>2 DEF MenuInv, MenuTypeOK, LevelKept, menuVars
<1>3. CASE Start
  BY <1>2, <1>3, CallersKeep, LogKeeps DEF Start
<1>4. CASE NewStep
  BY <1>2, <1>4, NewStepKeeps, LogKeeps DEF NewStep, NewSetsLog
<1>5. CASE UseMenu \/ AskPrinting \/ StopMenu
  <2>1. PrintItem(statTimer # None) => PrintItem(TRUE) \/ PrintItem(FALSE)
    BY DEF PrintItem
  <2> QED BY <1>1, <1>5, <2>1, KeyKeeps DEF UseMenu, AskPrinting, StopMenu
<1>6. CASE MenuPanics
  BY <1>2, <1>6, PanicKeeps DEF MenuPanics, Panic
<1>7. CASE SwitchPrinting
  BY <1>7, UsePrintKeeps, KeyKeeps DEF SwitchPrinting
<1>8. CASE Quit
  BY <1>8, CloseKeeps, KeyKeeps DEF Quit, MenuStep
<1>9. CASE Run
  BY <1>2, <1>9, UsePrintKeeps, CloseKeeps, MapKeeps, FrameKeeps DEF Run, UseObject
<1>10. CASE UNCHANGED vars
  BY <1>1, <1>2, <1>10 DEF vars
<1> QED BY <1>3, <1>4, <1>5, <1>6, <1>7, <1>8, <1>9, <1>10 DEF Next, MenuGoes

LEMMA Invariance == Spec => []IInv
  BY InitInv, StepKeeps, PTL DEF Spec

\* The variables keep their types; the level of the log stays one of the levels.
THEOREM TypeCorrect == Spec => []TypeOK
<1>1. IInv => TypeOK
  BY DEF IInv, TruInv, PrintInv, MapInv, PlaceInv, MenuInv, TypeOK, TruTypeOK
<1> QED BY <1>1, Invariance, PTL

\* The log has the level that was set last when the menu's output is over,
\* whatever keys are pressed in which order and while New goes on, unless New set
\* it while an item had the log stopped (stopLog, restoreLog, continueLog, New).
THEOREM LevelIsKept == Spec => []LevelKept
<1>1. IInv => LevelKept
  BY DEF IInv, MenuInv
<1> QED BY <1>1, Invariance, PTL

\* StatisticPrintRunning tells of a timer that runs; there is no other, and none
\* that it does not tell of, until printing is started twice, or after Close, or
\* stopped during a frame (printStatistic, StatisticPrintStop).
THEOREM RunningTrue == Spec => []RunningIsTrue
<1>1. IInv => RunningIsTrue
  BY DEF IInv, TruInv, PrintInv
<1> QED BY <1>1, Invariance, PTL

\* Close leaves no channel that was there when it began, whoever destroys channels
\* meanwhile (ForEachChannel, Channel.Close, destroy).
THEOREM AllClosed == Spec => []ClosedAll
<1>1. IInv => ClosedAll
  BY DEF IInv, TruInv, MapInv
<1> QED BY <1>1, Invariance, PTL
=============================================================================
