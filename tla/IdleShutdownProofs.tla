------------------------- MODULE IdleShutdownProofs -------------------------
(***************************************************************************)
(* Proofs about IdleShutdown and its history for any number of timers,     *)
(* players and administrators.                                             *)
(***************************************************************************)
EXTENDS IdleShutdownHistory, TLAPS

\* The idle check has a new timer in hand exactly before it enters it.
NewTimerInHand ==
    /\ newTimer # NoTimer <=> loopPC = "insert"
    /\ ~ZeroIdleDelay /\ newTimer # NoTimer => timer[newTimer] = "armed"

\* Only the idle check enters timers, so its lookup stays valid.
LookupStaysValid ==
    loopPC \in {"status", "arm", "insert"} => shutdownTimers = NoTimer

IInv ==
    /\ TypeOK
    /\ NewTimerInHand
    /\ LookupStaysValid
    /\ EntryIsPending

\* The idle check cannot get past a shield that stands.
ShieldStands == \A s \in shielded : s \in Shields /\ InForce(s) /\ AheadOf(s)

HInv == TypeOK /\ ShieldStands /\ ShieldHolds

\* Everything but the idle check, the callbacks and the commands.
Surroundings ==
    \/ SurroundingsStep /\ UNCHANGED <<idleVars, ctxDone>>
    \/ ContextDone
    \/ UNCHANGED vars

LEMMA SurroundingsFrame ==
    ASSUME TypeOK, Surroundings
    PROVE  UNCHANGED idleVars /\ InstanceTypeOK' /\ ctxDone' \in BOOLEAN
<1> USE DEF TypeOK, InstanceTypeOK, instanceVars
<1>1. CASE SurroundingsStep /\ UNCHANGED <<idleVars, ctxDone>>
  BY <1>1 DEF SurroundingsStep, InstanceStep, Boots, BeginsAccepting,
              HasStopped, GoesDown, StartedElsewhere, StartCall, PlayerJoins,
              PlayerLeaves, Status
<1>2. CASE ContextDone
  BY <1>2 DEF ContextDone
<1>3. CASE UNCHANGED vars
  BY <1>3 DEF vars
<1> QED BY <1>1, <1>2, <1>3 DEF Surroundings

LEMMA NextCases ==
    ASSUME [Next]_vars
    PROVE  \/ Surroundings
           \/ LoopStep
           \/ \E t \in Timers : TimerStep(t)
           \/ \E a \in Admins : CommandRuns(a) \/ CommandTyped(a)
           \/ ProtectionExpires
BY DEF Next, IdleStep, Surroundings

LEMMA NextTypeOK ==
    ASSUME TypeOK, [Next]_vars
    PROVE  TypeOK'
<1>1. CASE Surroundings
  BY <1>1, SurroundingsFrame
  DEF TypeOK, idleVars, configVars, timerVars, loopVars
<1> USE DEF TypeOK, InstanceTypeOK, instanceVars, configVars, timerVars,
            loopVars, LoopGoto, SetTimer, AdminGoto, CancelShutdown, LoopPC,
            AdminPC, TimerState
<1>2. CASE LoopStep
  <2>1. CASE Tick \/ LoopExits \/ CheckProtection \/ CountPlayers
    BY <2>1 DEF Tick, LoopExits, CheckProtection, CountPlayers
  <2>2. CASE CancelForPlayers
    BY <2>2 DEF CancelForPlayers
  <2>3. CASE CheckEnabled \/ LookupTimer \/ AskStatus
    BY <2>3 DEF CheckEnabled, LookupTimer, AskStatus
  <2>4. CASE ArmTimer
    BY <2>4 DEF ArmTimer
  <2>5. CASE InsertTimer
    BY <2>5 DEF InsertTimer
  <2> QED BY <1>2, <2>1, <2>2, <2>3, <2>4, <2>5 DEF LoopStep
<1>3. ASSUME NEW t \in Timers, TimerStep(t) PROVE TypeOK'
  <2>1. CASE Fires(t)
    BY <2>1 DEF Fires
  <2>2. CASE CallbackForgets(t)
    BY <2>2 DEF CallbackForgets
  <2>3. CASE CallbackCounts(t)
    BY <2>3 DEF CallbackCounts
  <2>4. CASE CallbackStops(t)
    BY <2>4 DEF CallbackStops, StopCall, StopDelivered, Status
  <2> QED BY <1>3, <2>1, <2>2, <2>3, <2>4 DEF TimerStep
<1>4. ASSUME NEW a \in Admins, CommandRuns(a) PROVE TypeOK'
  BY <1>4 DEF CommandRuns, DelayCancels, AutoCancels, AutoClears
<1>5. ASSUME NEW a \in Admins, CommandTyped(a) PROVE TypeOK'
  BY <1>5 DEF CommandTyped, Delay, DelayOff, AutoOff, AutoOn
<1>6. CASE ProtectionExpires
  BY <1>6 DEF ProtectionExpires
<1> QED BY <1>1, <1>2, <1>3, <1>4, <1>5, <1>6, NextCases

LEMMA InitTypeOK == Init => TypeOK
BY DEF Init, InstanceInit, IdleInit, TypeOK, InstanceTypeOK, Status, TimerState,
       LoopPC, AdminPC

-----------------------------------------------------------------------------
(* The entry of shutdownTimers *)

LEMMA InitIInv == Init => IInv
<1> SUFFICES ASSUME Init PROVE IInv
  OBVIOUS
<1>1. TypeOK
  BY InitTypeOK
<1>2. NewTimerInHand /\ LookupStaysValid /\ EntryIsPending
  BY DEF Init, IdleInit, NewTimerInHand, LookupStaysValid, EntryIsPending
<1> QED BY <1>1, <1>2 DEF IInv

LEMMA NextIInv ==
    ASSUME IInv, [Next]_vars
    PROVE  IInv'
<1>0. TypeOK'
  BY NextTypeOK DEF IInv
<1> SUFFICES NewTimerInHand' /\ LookupStaysValid' /\ EntryIsPending'
  BY <1>0 DEF IInv
<1> USE IdleShutdownAssumption
    DEF IInv, TypeOK, NewTimerInHand, LookupStaysValid, EntryIsPending
<1>1. CASE Surroundings
  BY <1>1, SurroundingsFrame DEF idleVars, timerVars, loopVars
<1> USE DEF timerVars, loopVars, LoopGoto, SetTimer, CancelShutdown
<1>2. CASE LoopStep
  <2>1. CASE Tick \/ LoopExits \/ CheckProtection \/ CountPlayers
    BY <2>1 DEF Tick, LoopExits, CheckProtection, CountPlayers
  <2>2. CASE CancelForPlayers
    BY <2>2 DEF CancelForPlayers
  <2>3. CASE CheckEnabled \/ LookupTimer \/ AskStatus
    BY <2>3 DEF CheckEnabled, LookupTimer, AskStatus
  <2>4. CASE ArmTimer
    BY <2>4 DEF ArmTimer
  <2>5. CASE InsertTimer
    BY <2>5 DEF InsertTimer
  <2> QED BY <1>2, <2>1, <2>2, <2>3, <2>4, <2>5 DEF LoopStep
<1>3. ASSUME NEW t \in Timers, TimerStep(t)
      PROVE  NewTimerInHand' /\ LookupStaysValid' /\ EntryIsPending'
  <2>1. CASE Fires(t)
    BY <2>1 DEF Fires
  <2>2. CASE CallbackForgets(t)
    BY <2>2 DEF CallbackForgets
  <2>3. CASE CallbackCounts(t)
    BY <2>3 DEF CallbackCounts
  <2>4. CASE CallbackStops(t)
    BY <2>4 DEF CallbackStops
  <2> QED BY <1>3, <2>1, <2>2, <2>3, <2>4 DEF TimerStep
<1>4. ASSUME NEW a \in Admins, CommandRuns(a)
      PROVE  NewTimerInHand' /\ LookupStaysValid' /\ EntryIsPending'
  BY <1>4 DEF CommandRuns, DelayCancels, AutoCancels, AutoClears
<1>5. ASSUME NEW a \in Admins, CommandTyped(a)
      PROVE  NewTimerInHand' /\ LookupStaysValid' /\ EntryIsPending'
  BY <1>5 DEF CommandTyped, Delay, DelayOff, AutoOff, AutoOn
<1>6. CASE ProtectionExpires
  BY <1>6 DEF ProtectionExpires
<1> QED BY <1>1, <1>2, <1>3, <1>4, <1>5, <1>6, NextCases

(***************************************************************************)
(* Every variable of the idle check, its timers and the commands keeps its *)
(* type.                                                                   *)
(***************************************************************************)
THEOREM TypeCorrect == Spec => []TypeOK
BY InitTypeOK, NextTypeOK, PTL DEF Spec

(***************************************************************************)
(* With a positive delay the entry of shutdownTimers always names a timer  *)
(* that is still to run its callback, although callbacks delete entries    *)
(* that are not their own.                                                 *)
(***************************************************************************)
THEOREM EntriesArePending == Spec => []EntryIsPending
<1>1. Spec => []IInv
  BY InitIInv, NextIInv, PTL DEF Spec
<1>2. IInv => EntryIsPending
  BY DEF IInv
<1> QED BY <1>1, <1>2, PTL

-----------------------------------------------------------------------------
(* The shield a command puts up *)

LEMMA NextHInv ==
    ASSUME HInv, [Next /\ RecordHistory]_allVars
    PROVE  HInv'
<1>1. [Next]_vars
  BY DEF allVars
<1>2. TypeOK'
  BY <1>1, NextTypeOK DEF HInv
<1>3. CASE UNCHANGED allVars
  BY <1>2, <1>3
  DEF HInv, ShieldStands, ShieldHolds, InForce, AheadOf, Live, allVars,
      historyVars, vars, idleVars, configVars, timerVars, loopVars
<1>4. CASE Next /\ RecordHistory
  <2> USE DEF Shields
  \* The shields that stood before: the check runs into them.
  <2>1. ASSUME NEW s \in shielded, InForce(s)'
        PROVE  AheadOf(s)' /\ Live' = {}
    <3> USE <2>1
        DEF HInv, TypeOK, ShieldStands, ShieldHolds, InForce, AheadOf, Live
    <3>1. CASE Surroundings
      BY <3>1, SurroundingsFrame DEF idleVars, configVars, timerVars, loopVars
    <3> USE DEF configVars, timerVars, loopVars, LoopGoto, SetTimer,
                CancelShutdown
    <3>2. CASE LoopStep
      BY <3>2 DEF LoopStep, Tick, LoopExits, CheckProtection, CountPlayers,
                  CancelForPlayers, CheckEnabled, LookupTimer, AskStatus,
                  ArmTimer, InsertTimer
    <3>3. ASSUME NEW t \in Timers, TimerStep(t)
          PROVE  AheadOf(s)' /\ Live' = {}
      BY <3>3 DEF TimerStep, Fires, CallbackForgets, CallbackCounts,
                  CallbackStops
    <3>4. ASSUME NEW a \in Admins, CommandRuns(a)
          PROVE  AheadOf(s)' /\ Live' = {}
      BY <3>4 DEF CommandRuns, DelayCancels, AutoCancels, AutoClears
    <3>5. ASSUME NEW a \in Admins, CommandTyped(a)
          PROVE  AheadOf(s)' /\ Live' = {}
      BY <3>5 DEF CommandTyped, Delay, DelayOff, AutoOff, AutoOn
    <3>6. CASE ProtectionExpires
      BY <3>6 DEF ProtectionExpires
    <3> QED BY <1>1, <3>1, <3>2, <3>3, <3>4, <3>5, <3>6, NextCases
  \* The shield that goes up now.
  <2>2. ASSUME NEW s \in Shields, CommandShields(s)
        PROVE  AheadOf(s)' /\ Live' = {}
    BY <2>2 DEF CommandShields, DelayCancels, AutoCancels, AheadOf, loopVars
  <2>3. \A s \in shielded' :
            s \in Shields /\ InForce(s)' /\ AheadOf(s)' /\ Live' = {}
    BY <1>4, <2>1, <2>2 DEF RecordHistory
  <2> QED BY <1>2, <2>3 DEF HInv, ShieldStands, ShieldHolds
<1> QED BY <1>3, <1>4

(***************************************************************************)
(* Whatever else happens, no timer exists under a shield that a finished   *)
(* /dserver delay or autoshutdown off has put up and that still stands.    *)
(***************************************************************************)
THEOREM ShieldsHold == HistorySpec => []ShieldHolds
<1>1. HistoryInit => HInv
  BY InitTypeOK DEF HistoryInit, HInv, ShieldStands, ShieldHolds
<1>2. HInv => ShieldHolds
  BY DEF HInv
<1> QED BY <1>1, <1>2, NextHInv, PTL DEF HistorySpec
=============================================================================
