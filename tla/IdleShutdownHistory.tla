------------------------ MODULE IdleShutdownHistory -------------------------
(***************************************************************************)
(* IdleShutdown with the history that its promises are about.  Every step  *)
(* of the code is IdleShutdown's.                                          *)
(***************************************************************************)
EXTENDS IdleShutdown

VARIABLES
    overrun,  \* callbacks whose timer fired when a command forbade it
    shielded  \* what holds back every timer that could still be armed

historyVars == <<overrun, shielded>>
allVars == <<vars, historyVars>>

Shields == {"protection", "toggle"}
CommandsDone == \A a \in Admins : adminPC[a] = "idle"
Live == {t \in Timers : timer[t] # "free"}

\* The idle check has yet to look at what the shield is about.
AheadOf(s) ==
    loopPC \in {"wait", "visit", "cancel", "exited"} \cup
        (IF s = "toggle" THEN {"count", "enabled"} ELSE {})

InForce(s) == IF s = "protection" THEN protected ELSE ~enabled

\* A command has cancelled the timer; nothing that could arm or run one is left.
CommandShields(s) ==
    /\ \E a \in Admins : IF s = "protection" THEN DelayCancels(a)
                                             ELSE AutoCancels(a)
    /\ AheadOf(s)
    /\ Live' = {}

RecordHistory ==
    /\ overrun' = {t \in Timers :
           \/ timer[t] = "armed" /\ timer'[t] = "fired"
              /\ CommandsDone /\ \E s \in Shields : InForce(s)
           \/ t \in overrun /\ timer'[t] # "free"}
    /\ shielded' = {s \in Shields : /\ InForce(s)'
                                    /\ s \in shielded \/ CommandShields(s)}

HistoryInit ==
    /\ Init
    /\ overrun = {}
    /\ shielded = {}

HistorySpec == HistoryInit /\ [][Next /\ RecordHistory]_allVars
HistoryFairSpec == HistorySpec /\ Fairness

Stops(t) == CallbackStops(t) /\ StopDelivered

(***************************************************************************)
(* Once /dserver delay or /dserver autoshutdown off has cancelled the      *)
(* timer while no idle check was past the matching test and no callback    *)
(* under way, no timer exists until the protection ends or the toggle is   *)
(* switched back, whatever else is typed, joins, leaves or crashes.        *)
(***************************************************************************)
ShieldHolds == shielded # {} => Live = {}

(***************************************************************************)
(* "Protection periods to prevent premature shutdown" (README.md:50) and   *)
(* "Per-server auto-shutdown toggle" (README.md:51): no timer that fires   *)
(* in a protection period or with auto-shutdown off, every command being   *)
(* done, stops the server.                                                 *)
(***************************************************************************)
CommandsPreventShutdown ==
    [][\A t \in Timers : Stops(t) => t \notin overrun]_allVars
=============================================================================
