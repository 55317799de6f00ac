-------------------------------- MODULE Menu --------------------------------
(***************************************************************************)
(* The hot key menu and the level of the log.  An item that prints stops   *)
(* the log and leaves an action for the next key, which gives the level    *)
(* back.  A key is a step: the action that was left for it, then the item  *)
(* of the key.  The prompts of two items wait for a line, and u takes the  *)
(* lock a second time after it has asked whether printing is on.           *)
(*                                                                         *)
(* The menu is there while New goes on, which makes the log if the program *)
(* has given none yet, and sets its level.                                 *)
(***************************************************************************)
EXTENDS Integers

CONSTANT NumLevels   \* numLevels of teolog

ASSUME MenuAssumption == NumLevels \in Nat \ {0}

Levels == 0 .. NumLevels - 1

VARIABLES
    logger,   \* the package has a log
    level,    \* log.level
    wanted,   \* the level that was set or switched to last, ours to compare with
    lost,     \* New set it while an item had the log stopped
    saved,    \* state.logLevel
    next,     \* a next key action is there: it sets the level to saved
    stop,     \* Hotkey.stop
    mpc       \* "none" before New, "getch", "askLevel", "askFilter", "print" and
              \* "printStop" in the item u, "stopped" by an item, "dropped" by the
              \* application

menuVars == <<logger, level, wanted, lost, saved, next, stop, mpc>>

MenuTypeOK ==
    /\ logger \in BOOLEAN
    /\ level \in Levels /\ wanted \in Levels /\ saved \in Levels
    /\ lost \in BOOLEAN /\ next \in BOOLEAN /\ stop \in BOOLEAN
    /\ mpc \in {"none", "getch", "askLevel", "askFilter", "print", "printStop",
                "stopped", "dropped"}

MenuInit ==
    /\ level = 0 /\ wanted = 0 /\ saved = 0
    /\ lost = FALSE /\ next = FALSE /\ stop = FALSE /\ mpc = "none"

-----------------------------------------------------------------------------
(***************************************************************************)
(* New.                                                                    *)
(***************************************************************************)

\* Run
NewHotkey ==
    /\ mpc' = "getch"
    /\ UNCHANGED <<logger, level, wanted, lost, saved, next, stop>>

\* A log that was not given is made.
NewLog ==
    /\ logger' = TRUE
    /\ UNCHANGED <<level, wanted, lost, saved, next, stop, mpc>>

\* An item that has the log stopped will give back the level that it found.
NewLevel(l) ==
    /\ level' = l /\ wanted' = l /\ lost' = next
    /\ UNCHANGED <<logger, saved, next, stop, mpc>>

-----------------------------------------------------------------------------
(***************************************************************************)
(* Keys.                                                                   *)
(***************************************************************************)

\* The level once the action that was left for this key has run.
Restored == IF next THEN saved ELSE level

\* The item is over: run goes on, or ends if the application has stopped it.
GoOn == mpc' = (IF stop THEN "dropped" ELSE "getch") /\ stop' = FALSE

\* The level found is remembered, the log stopped, and an action left.
StopLog == saved' = Restored /\ level' = 0 /\ next' = TRUE

\* The action is forgotten and not run, a mistake, for comparison.
KeyForgets == level' = level /\ next' = FALSE

\* The action is forgotten once it ran.
KeyOnly == level' = Restored /\ next' = FALSE

\* h and L: help, and the current level.
Show ==
    /\ mpc = "getch" /\ logger /\ StopLog /\ GoOn
    /\ UNCHANGED <<logger, wanted, lost>>

\* Ctrl+L and f.
Prompt ==
    /\ mpc = "getch" /\ logger /\ StopLog
    /\ mpc' \in {"askLevel", "askFilter"}
    /\ UNCHANGED <<logger, wanted, lost, stop>>

\* The new level is set, and continueLog takes the action away.
EnterLevel(l) ==
    /\ mpc = "askLevel"
    /\ level' = l /\ wanted' = l /\ lost' = FALSE /\ next' = FALSE /\ GoOn
    /\ UNCHANGED <<logger, saved>>

\* restoreLog gives the level back, and the next key does so again.
EnterFilter ==
    /\ mpc = "askFilter"
    /\ level' = saved /\ GoOn
    /\ UNCHANGED <<logger, wanted, lost, saved, next>>

\* l
SwitchLevel ==
    /\ mpc = "getch" /\ logger /\ GoOn
    /\ level' = (Restored + 1) % NumLevels /\ wanted' = level' /\ lost' = FALSE /\ next' = FALSE
    /\ UNCHANGED <<logger, saved>>

\* A key that is no item, or not yet, Enter, and U.
OtherItem ==
    /\ mpc = "getch" /\ KeyOnly /\ GoOn
    /\ UNCHANGED <<logger, wanted, lost, saved>>

\* u asks whether printing is on
PrintItem(running) ==
    /\ mpc = "getch" /\ KeyOnly
    /\ mpc' = IF running THEN "printStop" ELSE "print"
    /\ UNCHANGED <<logger, wanted, lost, saved, stop>>

\* and has it changed.
PrintItemEnds(what) ==
    /\ mpc = what /\ GoOn
    /\ UNCHANGED <<logger, level, wanted, lost, saved, next>>

\* Ctrl+C stops the menu; q does too, and closes the Tru object.
StopItem ==
    /\ mpc = "getch" /\ KeyOnly
    /\ stop' = FALSE /\ mpc' = "stopped"
    /\ UNCHANGED <<logger, wanted, lost, saved>>

\* The application stops the menu: run sees it after the next item.
Stop ==
    /\ mpc \in {"getch", "askLevel", "askFilter", "print", "printStop"} /\ ~stop
    /\ stop' = TRUE
    /\ UNCHANGED <<logger, level, wanted, lost, saved, next, mpc>>

\* Keys that concern the menu and the log alone.
MenuStep ==
    \/ Show \/ Prompt \/ EnterFilter \/ SwitchLevel \/ OtherItem \/ StopItem
    \/ \E l \in Levels : EnterLevel(l)

-----------------------------------------------------------------------------
(***************************************************************************)
(* Correctness.                                                            *)
(***************************************************************************)

\* What was set last, by New or by a key, is the level whenever the menu neither
\* shows something nor asks for something, and is not forgotten while it does,
\* unless New set it in the meantime; a menu that is stopped by a key leaves no
\* log stopped (stopLog, restoreLog, continueLog, run).
LevelKept ==
    /\ ~lost => IF next THEN saved = wanted ELSE level = wanted
    /\ mpc = "stopped" => ~next
=============================================================================
