--------------------------- MODULE DynamicServer ----------------------------
(***************************************************************************)
(* The whole of internal/dynamicserver: players arriving and starting the  *)
(* server (ServerStart) while the idle check and its timers may stop it    *)
(* (IdleShutdown).  The two halves share the instance, the proxy's player  *)
(* list and the context, and no lock spans both: EnsureServerRunning does  *)
(* not look at shutdownTimers, the idle check not at startingServers.      *)
(***************************************************************************)
EXTENDS Integers

CONSTANTS
    Players,
    StartupTimeoutSeconds, ConnectivityTimeoutSeconds, PollIntervalSeconds,
    Registered, Nobody,
    Timers, NoTimer, Admins, ZeroIdleDelay

VARIABLES
    status, accepting, online,
    pc, attempt, answer, startingServers, done, result,
    enabled, protected, shutdownTimers, timer, loopPC, newTimer, adminPC,
    ctxDone

\* What both halves assume of their constants.
ASSUME DynamicServerAssumption ==
    /\ StartupTimeoutSeconds \in Nat
    /\ ConnectivityTimeoutSeconds \in Nat
    /\ PollIntervalSeconds \in Nat
    /\ Registered \in BOOLEAN
    /\ Nobody \notin Players
    /\ NoTimer \notin Timers
    /\ ZeroIdleDelay \in BOOLEAN

Start == INSTANCE ServerStart
Idle == INSTANCE IdleShutdown

instanceVars == <<status, accepting, online>>
handlerVars == <<pc, attempt, answer, startingServers, done, result>>
idleVars == <<enabled, protected, shutdownTimers, timer, loopPC, newTimer,
              adminPC>>
vars == <<instanceVars, handlerVars, idleVars, ctxDone>>

Init == Start!Init /\ Idle!IdleInit

(***************************************************************************)
(* What runs at once after RMSWhitelist.init: the idle check that          *)
(* NewManager starts, the event handlers, the commands.  Everything of     *)
(* ServerStart leaves the idle check alone and vice versa; what one module *)
(* expects of the rest of the system is the other here.                    *)
(***************************************************************************)
Next ==
    \/ \E p \in Players : Start!PlayerStep(p) /\ UNCHANGED idleVars
    \/ Idle!IdleStep /\ UNCHANGED handlerVars
    \/ Start!InstanceStep /\ UNCHANGED <<handlerVars, idleVars, ctxDone>>
    \/ Start!ContextDone /\ UNCHANGED idleVars

Spec == Init /\ [][Next]_vars

Fairness ==
    /\ \A p \in Players : WF_vars(Start!HandlerStep(p) /\ UNCHANGED idleVars)
    /\ WF_vars(Idle!LoopStep /\ UNCHANGED handlerVars)
    /\ \A t \in Timers : WF_vars(Idle!TimerStep(t) /\ UNCHANGED handlerVars)
    /\ \A a \in Admins : WF_vars(Idle!CommandRuns(a) /\ UNCHANGED handlerVars)

FairSpec == Spec /\ Fairness

-----------------------------------------------------------------------------
(* Properties *)

Stops(t) == Idle!CallbackStops(t) /\ Idle!StopDelivered

\* The manager is starting the server for a player who waits for it.
StartInFlight == \E p \in Players : pc[p] \in Start!Leading

(***************************************************************************)
(* Each half, in the company of the other, behaves as its own module says: *)
(* whatever the handlers do is among what IdleShutdown expects of its      *)
(* surroundings (they never stop a server, for one), whatever the idle     *)
(* check does is among what ServerStart expects, and neither can starve    *)
(* the other.  The properties of both modules therefore hold together.     *)
(***************************************************************************)
HandlersAreSurroundings == Idle!FairSpec
IdleCheckIsSurroundings == Start!FairSpec

(***************************************************************************)
(* "Start servers when players connect" (README.md:48): the manager does   *)
(* not stop a server that it is starting for a waiting player.             *)
(***************************************************************************)
StartNotInterrupted == [][StartInFlight => \A t \in Timers : ~Stops(t)]_vars
=============================================================================
