---------------------------- MODULE IdleShutdown ----------------------------
(***************************************************************************)
(* Stopping an idle server: the periodic idle check, the shutdown timers   *)
(* and the /dserver commands of internal/dynamicserver/manager.go, for one *)
(* auto-start server.                                                      *)
(*                                                                         *)
(* The check and the commands hold m.mu only for single map accesses; the  *)
(* code between two of them, which includes an HTTP call, runs unlocked.   *)
(* Every access to shared state is therefore a step of its own.            *)
(*                                                                         *)
(* There is no clock: a protection period ends and a timer fires at any    *)
(* time.  Two values stand for what the code keeps implicit: no entry in   *)
(* serverConfigs is enabled /\ ~protected, and a timer object is a slot    *)
(* that is free again when it was stopped or its callback has returned.    *)
(***************************************************************************)
EXTENDS Instance

CONSTANTS
    Registered,    \* the proxy knows the server
    Timers,        \* timer slots; bound: timers alive at once
    NoTimer,
    Admins,        \* goroutines executing a /dserver command
    ZeroIdleDelay  \* idleShutdownSeconds = 0: a timer fires at once

ASSUME IdleShutdownAssumption ==
    /\ Registered \in BOOLEAN
    /\ NoTimer \notin Timers
    /\ ZeroIdleDelay \in BOOLEAN

VARIABLES
    enabled,        \* ShutdownConfig.enabled
    protected,      \* ShutdownConfig.IsInProtectionPeriod()
    shutdownTimers, \* the server's entry in that map
    timer,          \* state of each timer and of its callback
    loopPC,         \* where the idle check is
    newTimer,       \* the timer it is about to enter in the map
    adminPC,        \* where each command is
    ctxDone         \* the plugin's context is cancelled

configVars == <<enabled, protected>>
timerVars == <<shutdownTimers, timer>>
loopVars == <<loopPC, newTimer>>
idleVars == <<configVars, timerVars, loopVars, adminPC>>
vars == <<instanceVars, idleVars, ctxDone>>

LoopPC == {"wait", "visit", "count", "cancel", "enabled", "lookup", "status",
           "arm", "insert", "exited"}
AdminPC == {"idle", "cancelDelay", "cancelAuto", "clear"}
TimerState == {"free", "armed", "fired", "counting", "stopping"}

TypeOK ==
    /\ InstanceTypeOK
    /\ enabled \in BOOLEAN
    /\ protected \in BOOLEAN
    /\ shutdownTimers \in Timers \cup {NoTimer}
    /\ timer \in [Timers -> TimerState]
    /\ loopPC \in LoopPC
    /\ newTimer \in Timers \cup {NoTimer}
    /\ adminPC \in [Admins -> AdminPC]
    /\ ctxDone \in BOOLEAN

IdleInit ==
    /\ enabled = TRUE
    /\ protected = FALSE
    /\ shutdownTimers = NoTimer
    /\ timer = [t \in Timers |-> "free"]
    /\ loopPC = "wait"
    /\ newTimer = NoTimer
    /\ adminPC = [a \in Admins |-> "idle"]

Init == InstanceInit /\ IdleInit /\ ctxDone = FALSE

SetTimer(t, s) == timer' = [timer EXCEPT ![t] = s]

\* Stop has no effect on a timer that already fired.
CancelShutdown ==
    /\ shutdownTimers' = NoTimer
    /\ timer' = [t \in Timers |->
                    IF t = shutdownTimers /\ timer[t] = "armed" THEN "free"
                    ELSE timer[t]]

-----------------------------------------------------------------------------
(* periodicIdleCheck, checkAllAutoStartServersIdle, scheduleShutdown *)

LoopGoto(l) == loopPC' = l

Tick ==
    /\ loopPC = "wait"
    /\ LoopGoto("visit")
    /\ UNCHANGED <<instanceVars, configVars, timerVars, newTimer, adminPC,
                   ctxDone>>

LoopExits ==
    /\ loopPC = "wait"
    /\ ctxDone
    /\ LoopGoto("exited")
    /\ UNCHANGED <<instanceVars, configVars, timerVars, newTimer, adminPC,
                   ctxDone>>

\* Faulty: the protection period is not looked at.
CheckProtectionForgotten ==
    /\ loopPC = "visit"
    /\ LoopGoto("count")
    /\ UNCHANGED <<instanceVars, configVars, timerVars, newTimer, adminPC,
                   ctxDone>>

\* A protected server is skipped: a timer it already has is left alone.
CheckProtection ==
    /\ loopPC = "visit"
    /\ LoopGoto(IF protected THEN "wait" ELSE "count")
    /\ UNCHANGED <<instanceVars, configVars, timerVars, newTimer, adminPC,
                   ctxDone>>

\* Nothing is done about a server that the proxy does not know.
CountPlayers ==
    /\ loopPC = "count"
    /\ LoopGoto(IF ~Registered THEN "wait"
                ELSE IF online = {} THEN "enabled" ELSE "cancel")
    /\ UNCHANGED <<instanceVars, configVars, timerVars, newTimer, adminPC,
                   ctxDone>>

CancelForPlayers ==
    /\ loopPC = "cancel"
    /\ CancelShutdown
    /\ LoopGoto("wait")
    /\ UNCHANGED <<instanceVars, configVars, newTimer, adminPC, ctxDone>>

CheckEnabled ==
    /\ loopPC = "enabled"
    /\ LoopGoto(IF enabled THEN "lookup" ELSE "wait")
    /\ UNCHANGED <<instanceVars, configVars, timerVars, newTimer, adminPC,
                   ctxDone>>

LookupTimer ==
    /\ loopPC = "lookup"
    /\ LoopGoto(IF shutdownTimers = NoTimer THEN "status" ELSE "wait")
    /\ UNCHANGED <<instanceVars, configVars, timerVars, newTimer, adminPC,
                   ctxDone>>

AskStatus ==
    /\ loopPC = "status"
    /\ \E s \in IF ctxDone THEN {"starting"} ELSE StatusReplies :
           LoopGoto(IF s = "running" THEN "arm" ELSE "wait")
    /\ UNCHANGED <<instanceVars, configVars, timerVars, newTimer, adminPC,
                   ctxDone>>

ArmTimer ==
    /\ loopPC = "arm"
    /\ \E t \in Timers :
           /\ timer[t] = "free"
           /\ SetTimer(t, "armed")
           /\ newTimer' = t
    /\ LoopGoto("insert")
    /\ UNCHANGED <<instanceVars, configVars, shutdownTimers, adminPC, ctxDone>>

InsertTimer ==
    /\ loopPC = "insert"
    /\ shutdownTimers' = newTimer
    /\ newTimer' = NoTimer
    /\ LoopGoto("wait")
    /\ UNCHANGED <<instanceVars, configVars, timer, adminPC, ctxDone>>

-----------------------------------------------------------------------------
(* The callback of a timer *)

\* With a positive delay the entry is in the map long before it fires.
Fires(t) ==
    /\ timer[t] = "armed"
    /\ t = newTimer => ZeroIdleDelay
    /\ SetTimer(t, "fired")
    /\ UNCHANGED <<instanceVars, configVars, shutdownTimers, loopVars, adminPC,
                   ctxDone>>

\* Faulty: the entry of a timer that fired stays in the map.
CallbackKeepsEntry(t) ==
    /\ timer[t] = "fired"
    /\ SetTimer(t, "counting")
    /\ UNCHANGED <<instanceVars, configVars, shutdownTimers, loopVars, adminPC,
                   ctxDone>>

\* Deletes the server's entry, whichever timer it holds by now.
CallbackForgets(t) ==
    /\ timer[t] = "fired"
    /\ shutdownTimers' = NoTimer
    /\ SetTimer(t, "counting")
    /\ UNCHANGED <<instanceVars, configVars, loopVars, adminPC, ctxDone>>

\* Neither the protection period nor the toggle is looked at again.
CallbackCounts(t) ==
    /\ timer[t] = "counting"
    /\ SetTimer(t, IF Registered /\ online = {} THEN "stopping" ELSE "free")
    /\ UNCHANGED <<instanceVars, configVars, shutdownTimers, loopVars, adminPC,
                   ctxDone>>

\* Faulty: the kill command, which a booting instance obeys as well.
CallbackKills(t) ==
    /\ timer[t] = "stopping"
    /\ IF status \in {"starting", "running"} /\ ~ctxDone
       THEN /\ status' = "stopping"
            /\ accepting' = FALSE
            /\ UNCHANGED online
       ELSE UNCHANGED instanceVars
    /\ SetTimer(t, "free")
    /\ UNCHANGED <<configVars, shutdownTimers, loopVars, adminPC, ctxDone>>

CallbackStops(t) ==
    /\ timer[t] = "stopping"
    /\ \E ok \in BOOLEAN :
           IF ctxDone THEN ~ok /\ UNCHANGED instanceVars ELSE StopCall(ok)
    /\ SetTimer(t, "free")
    /\ UNCHANGED <<configVars, shutdownTimers, loopVars, adminPC, ctxDone>>

-----------------------------------------------------------------------------
(* /dserver delay and /dserver autoshutdown *)

AdminGoto(a, l) == adminPC' = [adminPC EXCEPT ![a] = l]

(***************************************************************************)
(* SetShutdownDelay: the protection starts, then the timer is cancelled.   *)
(* With a delay of 0 (or one that overflows) it is over at once.           *)
(***************************************************************************)
Delay(a) ==
    /\ adminPC[a] = "idle"
    /\ protected' \in BOOLEAN
    /\ AdminGoto(a, "cancelDelay")
    /\ UNCHANGED <<instanceVars, enabled, timerVars, loopVars, ctxDone>>

DelayCancels(a) ==
    /\ adminPC[a] = "cancelDelay"
    /\ CancelShutdown
    /\ AdminGoto(a, "idle")
    /\ UNCHANGED <<instanceVars, configVars, loopVars, ctxDone>>

\* ClearProtectionPeriod.
DelayOff(a) ==
    /\ adminPC[a] = "idle"
    /\ protected' = FALSE
    /\ UNCHANGED <<instanceVars, enabled, timerVars, loopVars, adminPC, ctxDone>>

\* SetAutoShutdownEnabled(off): toggle, cancel, then clear the protection.
AutoOff(a) ==
    /\ adminPC[a] = "idle"
    /\ enabled' = FALSE
    /\ AdminGoto(a, "cancelAuto")
    /\ UNCHANGED <<instanceVars, protected, timerVars, loopVars, ctxDone>>

AutoCancels(a) ==
    /\ adminPC[a] = "cancelAuto"
    /\ CancelShutdown
    /\ AdminGoto(a, "clear")
    /\ UNCHANGED <<instanceVars, configVars, loopVars, ctxDone>>

AutoClears(a) ==
    /\ adminPC[a] = "clear"
    /\ protected' = FALSE
    /\ AdminGoto(a, "idle")
    /\ UNCHANGED <<instanceVars, enabled, timerVars, loopVars, ctxDone>>

AutoOn(a) ==
    /\ adminPC[a] = "idle"
    /\ enabled' = TRUE
    /\ UNCHANGED <<instanceVars, protected, timerVars, loopVars, adminPC,
                   ctxDone>>

ProtectionExpires ==
    /\ protected
    /\ protected' = FALSE
    /\ UNCHANGED <<instanceVars, enabled, timerVars, loopVars, adminPC, ctxDone>>

-----------------------------------------------------------------------------

LoopStep ==
    \/ Tick \/ LoopExits \/ CheckProtection \/ CountPlayers \/ CancelForPlayers
    \/ CheckEnabled \/ LookupTimer \/ AskStatus \/ ArmTimer \/ InsertTimer

TimerStep(t) ==
    Fires(t) \/ CallbackForgets(t) \/ CallbackCounts(t) \/ CallbackStops(t)

\* A command runs to its end; whether one is typed is open.
CommandRuns(a) == DelayCancels(a) \/ AutoCancels(a) \/ AutoClears(a)
CommandTyped(a) == Delay(a) \/ DelayOff(a) \/ AutoOff(a) \/ AutoOn(a)

IdleStep ==
    \/ LoopStep
    \/ \E t \in Timers : TimerStep(t)
    \/ \E a \in Admins : CommandRuns(a) \/ CommandTyped(a)
    \/ ProtectionExpires

-----------------------------------------------------------------------------
(* What the rest of the system does, as far as this part can see it *)

PlayerJoins(p) ==
    /\ accepting
    /\ online' = online \cup {p}
    /\ UNCHANGED <<status, accepting>>

\* A player wants to connect to the stopped server, or an operator starts it.
StartedElsewhere == StartCall(TRUE)

SurroundingsStep ==
    \/ InstanceStep
    \/ StartedElsewhere
    \/ \E p \in Players : PlayerJoins(p) \/ PlayerLeaves(p)

ContextDone ==
    /\ ~ctxDone
    /\ ctxDone' = TRUE
    /\ UNCHANGED <<instanceVars, idleVars>>

Next ==
    \/ IdleStep
    \/ SurroundingsStep /\ UNCHANGED <<idleVars, ctxDone>>
    \/ ContextDone

Spec == Init /\ [][Next]_vars

(***************************************************************************)
(* The idle check and a callback run on (a ticker, HTTP calls with a       *)
(* timeout), an armed timer fires, a command that was typed runs to its    *)
(* end.  Nothing is promised about players, instance or administrators.    *)
(***************************************************************************)
Fairness ==
    /\ WF_vars(LoopStep)
    /\ \A t \in Timers : WF_vars(TimerStep(t))
    /\ \A a \in Admins : WF_vars(CommandRuns(a))

FairSpec == Spec /\ Fairness

-----------------------------------------------------------------------------
(* Properties *)

(***************************************************************************)
(* An entry of shutdownTimers stands for a timer that is still to run: one *)
(* that is not would make every later idle check believe that a shutdown   *)
(* is scheduled.  It takes a delay long enough for scheduleShutdown to     *)
(* enter the timer before it fires (manager.go:331-358).                   *)
(***************************************************************************)
EntryIsPending ==
    ~ZeroIdleDelay /\ shutdownTimers # NoTimer =>
        timer[shutdownTimers] \in {"armed", "fired"}

StatusCallFails == AskStatus /\ status = "running" /\ loopPC' = "wait"
StopCallFails ==
    \E t \in Timers : CallbackStops(t) /\ status = "running"
                                      /\ status' = "running"

(***************************************************************************)
(* "Auto-shutdown after idle timeout" (README.md:49).  A server that stays *)
(* empty, with auto-shutdown on and no protection, does not keep running,  *)
(* whatever commands, visits and failed calls came before, provided that   *)
(* the proxy knows the server, no more commands are typed and calls to     *)
(* MCSManager succeed in the end.                                          *)
(***************************************************************************)
IdleServerStopped ==
    /\ Registered
    /\ []~ctxDone
    /\ <>[](online = {} /\ enabled /\ ~protected)
    /\ <>[][/\ ~StatusCallFails /\ ~StopCallFails
            /\ ~\E a \in Admins : CommandTyped(a)]_vars
    => []<>(status # "running")
=============================================================================
