------------------------- MODULE DynamicServerProofs -------------------------
(***************************************************************************)
(* The composition of ServerStart and IdleShutdown, for any number of      *)
(* players, timers and administrators: each half, with the other in the    *)
(* place of its surroundings, still is what its own module specifies, so   *)
(* that what is proved of the halves holds of the whole.                   *)
(***************************************************************************)
EXTENDS DynamicServer, TLAPS

StartProofs == INSTANCE ServerStartProofs WITH outdated <- {}
IdleProofs == INSTANCE IdleShutdownProofs WITH overrun <- {}, shielded <- {}

-----------------------------------------------------------------------------
(* A step of one half, seen from the other *)

\* The idle check can only take the server away from the handlers.
LEMMA IdleStepSeenByHandlers ==
    ASSUME Idle!IdleStep, UNCHANGED handlerVars
    PROVE  [Start!Next]_(Start!vars)
<1> USE DEF Start!vars, Start!instanceVars, Start!startVars, handlerVars,
            Idle!instanceVars
<1>1. CASE Idle!LoopStep
  BY <1>1 DEF Idle!LoopStep, Idle!Tick, Idle!LoopExits, Idle!CheckProtection,
       Idle!CountPlayers, Idle!CancelForPlayers, Idle!CheckEnabled,
       Idle!LookupTimer, Idle!AskStatus, Idle!ArmTimer, Idle!InsertTimer
<1>2. ASSUME NEW t \in Timers, Idle!TimerStep(t)
      PROVE  [Start!Next]_(Start!vars)
  <2>1. CASE Idle!Fires(t) \/ Idle!CallbackForgets(t) \/ Idle!CallbackCounts(t)
    BY <2>1 DEF Idle!Fires, Idle!CallbackForgets, Idle!CallbackCounts
  <2>2. CASE Idle!CallbackStops(t)
    <3>1. \/ UNCHANGED Start!instanceVars
          \/ Idle!StopDelivered /\ UNCHANGED online
      BY <2>2 DEF Idle!CallbackStops, Idle!StopCall
    <3>2. ctxDone' = ctxDone
      BY <2>2 DEF Idle!CallbackStops
    <3>3. CASE Idle!StopDelivered /\ UNCHANGED online
      <4>1. Start!StoppedElsewhere
        BY <3>3 DEF Idle!StopDelivered, Start!StoppedElsewhere,
                    Start!StopCall, Start!StopDelivered
      <4> QED BY <3>2, <4>1 DEF Start!Next
    <3> QED BY <3>1, <3>2, <3>3
  <2> QED BY <1>2, <2>1, <2>2 DEF Idle!TimerStep
<1>3. ASSUME NEW a \in Admins, Idle!CommandRuns(a) \/ Idle!CommandTyped(a)
      PROVE  [Start!Next]_(Start!vars)
  BY <1>3 DEF Idle!CommandRuns, Idle!CommandTyped, Idle!DelayCancels,
              Idle!AutoCancels, Idle!AutoClears, Idle!Delay, Idle!DelayOff,
              Idle!AutoOff, Idle!AutoOn
<1>4. CASE Idle!ProtectionExpires
  BY <1>4 DEF Idle!ProtectionExpires
<1> QED BY <1>1, <1>2, <1>3, <1>4 DEF Idle!IdleStep

\* A player's handler starts the server, lets the player in, or shows nothing.
LEMMA PlayerStepSeenByIdleCheck ==
    ASSUME NEW p \in Players, Start!PlayerStep(p), UNCHANGED idleVars
    PROVE  [Idle!Next]_(Idle!vars)
<1> USE DEF Start!instanceVars, Start!startVars, Idle!vars,
            Idle!instanceVars, idleVars, Idle!idleVars, Idle!configVars,
            Idle!timerVars, Idle!loopVars
<1>1. CASE Start!PlayerArrives(p) \/ Start!GiveUp(p)
  BY <1>1 DEF Start!PlayerArrives, Start!GiveUp
<1>2. CASE Start!HandlerStep(p)
  <2>1. CASE Start!Open(p)
    <3>1. \/ UNCHANGED Idle!instanceVars
          \/ Idle!StartedElsewhere
      BY <2>1 DEF Start!Open, Start!StartCall, Idle!StartedElsewhere,
                  Idle!StartCall
    <3>2. ctxDone' = ctxDone
      BY <2>1 DEF Start!Open
    <3>3. CASE Idle!StartedElsewhere
      BY <3>2, <3>3 DEF Idle!Next, Idle!SurroundingsStep
    <3> QED BY <3>1, <3>2, <3>3
  <2>2. CASE Start!Connect(p) \/ Start!Publish(p) \/ Start!DeleteEntry(p)
    BY <2>2 DEF Start!Connect, Start!Publish, Start!DeleteEntry
  <2>3. CASE \/ Start!CheckStatus(p) \/ Start!Lead(p) \/ Start!Follow(p)
             \/ Start!Woken(p) \/ Start!Poll(p)
    BY <2>3 DEF Start!CheckStatus, Start!Lead, Start!Follow, Start!Woken,
                Start!Poll
  <2> QED BY <1>2, <2>1, <2>2, <2>3 DEF Start!HandlerStep
<1>3. CASE Start!Join(p)
  <2>1. Idle!PlayerJoins(p) /\ ctxDone' = ctxDone
    BY <1>3 DEF Start!Join, Idle!PlayerJoins
  <2> QED BY <2>1 DEF Idle!Next, Idle!SurroundingsStep
<1>4. CASE Start!PlayerLeaves(p) /\ UNCHANGED Start!startVars
  <2>1. Idle!PlayerLeaves(p) /\ ctxDone' = ctxDone
    BY <1>4 DEF Start!PlayerLeaves, Idle!PlayerLeaves
  <2> QED BY <2>1 DEF Idle!Next, Idle!SurroundingsStep
<1> QED BY <1>1, <1>2, <1>3, <1>4 DEF Start!PlayerStep

\* What neither half does is the same to both.
LEMMA SharedSteps ==
    ASSUME \/ Start!InstanceStep /\ UNCHANGED <<handlerVars, idleVars, ctxDone>>
           \/ Start!ContextDone /\ UNCHANGED idleVars
           \/ UNCHANGED vars
    PROVE  [Start!Next]_(Start!vars) /\ [Idle!Next]_(Idle!vars)
<1> USE DEF Start!vars, Start!instanceVars, Start!startVars, handlerVars,
            Idle!vars, Idle!instanceVars, idleVars, Idle!idleVars,
            Idle!configVars, Idle!timerVars, Idle!loopVars
<1>1. CASE Start!InstanceStep /\ UNCHANGED <<handlerVars, idleVars, ctxDone>>
  <2>1. Idle!InstanceStep
    BY <1>1 DEF Start!InstanceStep, Start!Boots, Start!BeginsAccepting,
                Start!HasStopped, Start!GoesDown, Idle!InstanceStep,
                Idle!Boots, Idle!BeginsAccepting, Idle!HasStopped,
                Idle!GoesDown
  <2> QED BY <1>1, <2>1 DEF Start!Next, Idle!Next, Idle!SurroundingsStep
<1>2. CASE Start!ContextDone /\ UNCHANGED idleVars
  <2>1. Idle!ContextDone
    BY <1>2 DEF Start!ContextDone, Idle!ContextDone
  <2> QED BY <1>2, <2>1 DEF Start!Next, Idle!Next
<1>3. CASE UNCHANGED vars
  BY <1>3 DEF vars, instanceVars
<1> QED BY <1>1, <1>2, <1>3

LEMMA StepIsStepOfBoth ==
    ASSUME [Next]_vars
    PROVE  [Start!Next]_(Start!vars) /\ [Idle!Next]_(Idle!vars)
<1>1. ASSUME NEW p \in Players, Start!PlayerStep(p), UNCHANGED idleVars
      PROVE  [Start!Next]_(Start!vars) /\ [Idle!Next]_(Idle!vars)
  BY <1>1, PlayerStepSeenByIdleCheck DEF Start!Next
<1>2. CASE Idle!IdleStep /\ UNCHANGED handlerVars
  BY <1>2, IdleStepSeenByHandlers DEF Idle!Next
<1> QED BY <1>1, <1>2, SharedSteps DEF Next

-----------------------------------------------------------------------------

(***************************************************************************)
(* The idle check, its timers and the commands do nothing to the start     *)
(* machinery that ServerStart does not allow its surroundings: they stop a *)
(* running server, and never touch the entry or a handler.                 *)
(***************************************************************************)
THEOREM IdleCheckKeepsContract == Spec => Start!Spec
<1>1. Init => Start!Init
  BY DEF Init
<1> QED BY <1>1, StepIsStepOfBoth, PTL DEF Spec, Start!Spec

(***************************************************************************)
(* The handlers do nothing to the idle check that IdleShutdown does not    *)
(* allow its surroundings: they start a stopped server and let players in, *)
(* and never stop one or touch a timer.                                    *)
(***************************************************************************)
THEOREM HandlersKeepContract == Spec => Idle!Spec
<1>1. Init => Idle!Init
  BY DEF Init, Start!Init, Start!StartInit, Idle!Init, Start!InstanceInit,
         Idle!InstanceInit
<1> QED BY <1>1, StepIsStepOfBoth, PTL DEF Spec, Idle!Spec

-----------------------------------------------------------------------------
(* The theorems about the halves.  Start and StartProofs are two instances *)
(* of one module, and so are Idle and IdleProofs: expanded, they are equal.*)

LEMMA SameStartStep ==
    ASSUME [Start!Next]_(Start!vars)
    PROVE  [StartProofs!Next]_(StartProofs!vars)
BY Zenon
DEF Start!Next, Start!vars, Start!instanceVars, Start!startVars,
    Start!entryVars, Start!PlayerStep, Start!HandlerStep, Start!PlayerArrives,
    Start!CheckStatus, Start!Join, Start!GiveUp, Start!Lead, Start!Follow,
    Start!Woken, Start!Open, Start!Poll, Start!Connect, Start!Publish,
    Start!DeleteEntry, Start!PlayerLeaves, Start!InstanceStep, Start!Boots,
    Start!BeginsAccepting, Start!HasStopped, Start!GoesDown,
    Start!StoppedElsewhere, Start!ContextDone, Start!StopCall,
    Start!StopDelivered, Start!StartCall, Start!StatusReplies,
    Start!PingReplies, Start!Goto, Start!Answer, Start!Attempts,
    StartProofs!Next, StartProofs!vars, StartProofs!instanceVars,
    StartProofs!startVars, StartProofs!entryVars, StartProofs!PlayerStep,
    StartProofs!HandlerStep, StartProofs!PlayerArrives,
    StartProofs!CheckStatus, StartProofs!Join, StartProofs!GiveUp,
    StartProofs!Lead, StartProofs!Follow, StartProofs!Woken, StartProofs!Open,
    StartProofs!Poll, StartProofs!Connect, StartProofs!Publish,
    StartProofs!DeleteEntry, StartProofs!PlayerLeaves,
    StartProofs!InstanceStep, StartProofs!Boots, StartProofs!BeginsAccepting,
    StartProofs!HasStopped, StartProofs!GoesDown, StartProofs!StoppedElsewhere,
    StartProofs!ContextDone, StartProofs!StopCall, StartProofs!StopDelivered,
    StartProofs!StartCall, StartProofs!StatusReplies, StartProofs!PingReplies,
    StartProofs!Goto, StartProofs!Answer, StartProofs!Attempts

LEMMA SameIdleStep ==
    ASSUME [Idle!Next]_(Idle!vars)
    PROVE  [IdleProofs!Next]_(IdleProofs!vars)
BY Zenon
DEF Idle!Next, Idle!vars, Idle!instanceVars, Idle!idleVars, Idle!configVars,
    Idle!timerVars, Idle!loopVars, Idle!IdleStep, Idle!LoopStep, Idle!Tick,
    Idle!LoopExits, Idle!CheckProtection, Idle!CountPlayers,
    Idle!CancelForPlayers, Idle!CheckEnabled, Idle!LookupTimer, Idle!AskStatus,
    Idle!ArmTimer, Idle!InsertTimer, Idle!TimerStep, Idle!Fires,
    Idle!CallbackForgets, Idle!CallbackCounts, Idle!CallbackStops,
    Idle!CommandRuns, Idle!DelayCancels, Idle!AutoCancels, Idle!AutoClears,
    Idle!CommandTyped, Idle!Delay, Idle!DelayOff, Idle!AutoOff, Idle!AutoOn,
    Idle!ProtectionExpires, Idle!SurroundingsStep, Idle!InstanceStep,
    Idle!Boots, Idle!BeginsAccepting, Idle!HasStopped, Idle!GoesDown,
    Idle!StartedElsewhere, Idle!StartCall, Idle!PlayerJoins, Idle!PlayerLeaves,
    Idle!ContextDone, Idle!StopCall, Idle!StopDelivered, Idle!StatusReplies,
    Idle!LoopGoto, Idle!SetTimer, Idle!AdminGoto, Idle!CancelShutdown,
    IdleProofs!Next, IdleProofs!vars, IdleProofs!instanceVars,
    IdleProofs!idleVars, IdleProofs!configVars, IdleProofs!timerVars,
    IdleProofs!loopVars, IdleProofs!IdleStep, IdleProofs!LoopStep,
    IdleProofs!Tick, IdleProofs!LoopExits, IdleProofs!CheckProtection,
    IdleProofs!CountPlayers, IdleProofs!CancelForPlayers,
    IdleProofs!CheckEnabled, IdleProofs!LookupTimer, IdleProofs!AskStatus,
    IdleProofs!ArmTimer, IdleProofs!InsertTimer, IdleProofs!TimerStep,
    IdleProofs!Fires, IdleProofs!CallbackForgets, IdleProofs!CallbackCounts,
    IdleProofs!CallbackStops, IdleProofs!CommandRuns, IdleProofs!DelayCancels,
    IdleProofs!AutoCancels, IdleProofs!AutoClears, IdleProofs!CommandTyped,
    IdleProofs!Delay, IdleProofs!DelayOff, IdleProofs!AutoOff,
    IdleProofs!AutoOn, IdleProofs!ProtectionExpires,
    IdleProofs!SurroundingsStep, IdleProofs!InstanceStep, IdleProofs!Boots,
    IdleProofs!BeginsAccepting, IdleProofs!HasStopped, IdleProofs!GoesDown,
    IdleProofs!StartedElsewhere, IdleProofs!StartCall, IdleProofs!PlayerJoins,
    IdleProofs!PlayerLeaves, IdleProofs!ContextDone, IdleProofs!StopCall,
    IdleProofs!StopDelivered, IdleProofs!StatusReplies, IdleProofs!LoopGoto,
    IdleProofs!SetTimer, IdleProofs!AdminGoto, IdleProofs!CancelShutdown

LEMMA StartPromises ==
    Start!Spec => []Start!SingleFlight /\ []Start!WaitersHaveLeader
<1>1. Start!Init => StartProofs!Init
  BY Zenon
  DEF Start!Init, Start!InstanceInit, Start!StartInit, StartProofs!Init,
      StartProofs!InstanceInit, StartProofs!StartInit
<1>2. StartProofs!SingleFlight => Start!SingleFlight
  BY Zenon
  DEF Start!SingleFlight, Start!Leading, StartProofs!SingleFlight,
      StartProofs!Leading
<1>3. StartProofs!WaitersHaveLeader => Start!WaitersHaveLeader
  BY Zenon DEF Start!WaitersHaveLeader, StartProofs!WaitersHaveLeader
<1> QED
  BY <1>1, <1>2, <1>3, SameStartStep, DynamicServerAssumption,
     StartProofs!StartsAreSingleFlight, StartProofs!WaitersAreServed, PTL
  DEF Start!Spec, StartProofs!Spec

LEMMA IdlePromises == Idle!Spec => []Idle!EntryIsPending
<1>1. Idle!Init => IdleProofs!Init
  BY Zenon
  DEF Idle!Init, Idle!InstanceInit, Idle!IdleInit, IdleProofs!Init,
      IdleProofs!InstanceInit, IdleProofs!IdleInit
<1>2. IdleProofs!EntryIsPending => Idle!EntryIsPending
  BY Zenon DEF Idle!EntryIsPending, IdleProofs!EntryIsPending
<1> QED
  BY <1>1, <1>2, SameIdleStep, DynamicServerAssumption,
     IdleProofs!EntriesArePending, PTL
  DEF Idle!Spec, IdleProofs!Spec

(***************************************************************************)
(* What the halves promise holds while both run: starts stay single        *)
(* flight, with nobody waiting in vain, and with a positive delay no entry *)
(* of shutdownTimers is stale, although no lock spans the two.             *)
(***************************************************************************)
THEOREM PromisesHoldTogether ==
    Spec => [](/\ Start!SingleFlight
               /\ Start!WaitersHaveLeader
               /\ Idle!EntryIsPending)
BY StartPromises, IdlePromises, IdleCheckKeepsContract, HandlersKeepContract,
   PTL
=============================================================================
