------------------------- MODULE LoadBalancerProofs -------------------------
(***************************************************************************)
(* Proofs about LoadBalancer for any number of backends, connection slots  *)
(* and players.  The parts of the inductive invariant come first, then one *)
(* lemma per part, then the theorems; last, the proof about the passed     *)
(* pings of LoadBalancerRecovery, for any thresholds.                      *)
(***************************************************************************)
EXTENDS LoadBalancerRecovery, FiniteSetTheorems, TLAPS

Selected == {"dialing", "connected", "listed", "failed", "checking", "marking",
             "resetting", "open", "uncounting"}

\* Every slot past the selection has a backend and a player; only a slot
\* that is selecting holds candidates.
SlotsFilled ==
    \A c \in Conns :
        /\ pc[c] \in Selected => backend[c] \in Backends
        /\ pc[c] \in Selected \cup {"select"} => player[c] \in Players
        /\ pc[c] # "select" => available[c] = {}

\* Nothing decrements a counter that does not count it.
CountedCovered ==
    \A b \in Backends : currentConns[b] >= Cardinality(Counted(b))

\* The bound on running dials.
DialingBounded == Cardinality(InFlight) <= MaxDialing

\* A dial that was promised room takes it from the overshoot.
PendingBounded ==
    \A b \in Backends :
        MaxConnections[b] > 0 =>
            currentConns[b] + Cardinality(Pending(b))
                <= MaxConnections[b] + MaxDialing - 1

\* Slots that may be in a player map belong to different players.
Tracked == {c \in Conns : pc[c] \notin Resting \cup {"uncounting"}}
PlayersDistinct ==
    OneConnPerPlayer =>
        \A c, d \in Tracked : player[c] = player[d] => c = d

IInv ==
    /\ TypeOK
    /\ SlotsFilled
    /\ CountedCovered
    /\ DialingBounded
    /\ PendingBounded
    /\ PlayersDistinct
    /\ TrackingExact

-----------------------------------------------------------------------------
(* Sets of slots *)

LEMMA SlotSetsFinite ==
    ASSUME NEW b
    PROVE  /\ IsFiniteSet(Counted(b)) /\ Cardinality(Counted(b)) \in Nat
           /\ IsFiniteSet(Pending(b)) /\ Cardinality(Pending(b)) \in Nat
           /\ IsFiniteSet(InFlight) /\ Cardinality(InFlight) \in Nat
<1>1. \A S \in SUBSET Conns : IsFiniteSet(S) /\ Cardinality(S) \in Nat
  BY LoadBalancerAssumption, FS_Subset, FS_CardinalityType
<1>2. Counted(b) \in SUBSET Conns /\ Pending(b) \in SUBSET Conns
      /\ InFlight \in SUBSET Conns
  BY DEF Counted, Pending, InFlight
<1> QED BY <1>1, <1>2

\* A smaller set of slots has no more of them.
LEMMA FewerSlots ==
    ASSUME NEW S \in SUBSET Conns, NEW T \in SUBSET S
    PROVE  /\ Cardinality(S) \in Nat /\ Cardinality(T) \in Nat
           /\ Cardinality(T) <= Cardinality(S)
<1>1. IsFiniteSet(S)
  BY LoadBalancerAssumption, FS_Subset
<1> QED BY <1>1, FS_Subset, FS_CardinalityType

LEMMA OneSlotMore ==
    ASSUME NEW S \in SUBSET Conns, NEW c \in Conns, c \notin S
    PROVE  /\ Cardinality(S) \in Nat
           /\ Cardinality(S \cup {c}) = Cardinality(S) + 1
<1>1. IsFiniteSet(S)
  BY LoadBalancerAssumption, FS_Subset
<1> QED BY <1>1, FS_AddElement, FS_CardinalityType

LEMMA OneSlotFewer ==
    ASSUME NEW S \in SUBSET Conns, NEW c \in S
    PROVE  /\ Cardinality(S) \in Nat
           /\ Cardinality(S \ {c}) = Cardinality(S) - 1
<1>1. IsFiniteSet(S)
  BY LoadBalancerAssumption, FS_Subset
<1> QED BY <1>1, FS_RemoveElement, FS_CardinalityType

-----------------------------------------------------------------------------
(* Frames *)

\* The checker and the admin commands touch no slot and no tracking.
LEMMA OthersFrame ==
    ASSUME \/ CheckerStep
           \/ \E b \in Backends : DisableBackend(b) \/ EnableBackend(b)
           \/ UNCHANGED vars
    PROVE  UNCHANGED <<dialVars, connVars>>
BY DEF CheckerStep, Tick, SkipDisabled, StartPing, PingFails,
       CheckerDropsSuccesses, CheckerChecksThreshold, CheckerMarksUnhealthy,
       PingSucceeds, ClearFailures, CountHealthCheckSuccess, Recover,
       CheckerMarksHealthy, CheckerResetsSuccessCount, DisableBackend,
       EnableBackend, NextBackend, RecordSuccess, RecordFailure, CountSuccess,
       SetHealthy, ResetSuccessCount, IncreaseTrust, ResetTrust, SetDisabled,
       dialVars, connVars, vars, backendVars, healthVars
-----------------------------------------------------------------------------
(* Types *)

LEMMA BackendUpdates ==
    ASSUME BackendTypeOK, NEW b \in Backends
    PROVE  /\ RecordSuccess(b) => failCount' \in [Backends -> 0 .. FailCap]
           /\ RecordFailure(b) => failCount' \in [Backends -> 0 .. FailCap]
           /\ CountSuccess(b) =>
                  successCount' \in [Backends -> 0 .. SuccessCap]
           /\ ResetSuccessCount(b) =>
                  successCount' \in [Backends -> 0 .. SuccessCap]
           /\ IncreaseTrust(b) => trustCoeff' \in [Backends -> 50 .. 100]
           /\ ResetTrust(b) => trustCoeff' \in [Backends -> 50 .. 100]
BY BackendAssumption DEF BackendTypeOK, RecordSuccess, RecordFailure,
   CountSuccess, ResetSuccessCount, IncreaseTrust,
   ResetTrust, SatInc, FailCap, SuccessCap

\* A counter is decremented only by a slot it counts.
LEMMA UncountType ==
    ASSUME TypeOK, CountedCovered, NEW c \in Conns, pc[c] = "uncounting",
           backend[c] \in Backends, UncountPlayer(backend[c])
    PROVE  currentConns' \in [Backends -> Nat]
<1>1. c \in Counted(backend[c])
  BY DEF Counted
<1>2. Cardinality(Counted(backend[c])) >= 1
  <2>1. Cardinality(Counted(backend[c]) \ {c}) \in Nat
    BY FewerSlots DEF Counted
  <2> QED BY <1>1, <2>1, OneSlotFewer DEF Counted
<1>3. currentConns[backend[c]] >= 1
  BY <1>2, SlotSetsFinite DEF CountedCovered, TypeOK, BackendTypeOK
<1> QED BY <1>3 DEF UncountPlayer, TypeOK, BackendTypeOK

LEMMA ForgetType ==
    ASSUME TypeOK, NEW c \in Conns, Forget(c)
    PROVE  /\ pc' \in [Conns -> ConnPC]
           /\ player' \in [Conns -> Players \cup {NoPlayer}]
           /\ cursor' \in [Conns -> 1 .. NumBackends + 1]
           /\ available' \in [Conns -> SUBSET Backends]
           /\ backend' \in [Conns -> Backends \cup {NoBackend}]
BY BackendAssumption DEF TypeOK, Forget, Goto, ConnPC, Resting

LEMMA InitTypeOK == Init => TypeOK
<1> SUFFICES ASSUME Init PROVE TypeOK
  OBVIOUS
<1>1. BackendTypeOK
  BY BackendAssumption DEF Init, NewBackends, BackendTypeOK, FailCap,
                           SuccessCap
<1>2. 1 \in Backends /\ 1 \in 1 .. NumBackends + 1
  BY BackendAssumption DEF Backends
<1> QED BY <1>1, <1>2 DEF Init, TypeOK, ConnPC, Resting, CheckPC

LEMMA NextTypeOK ==
    ASSUME TypeOK, SlotsFilled, CountedCovered, [Next]_vars
    PROVE  TypeOK'
<1> USE DEF TypeOK, BackendTypeOK
<1>1. ASSUME NEW c \in Conns, NEW p \in Players, DialStart(c, p)
      PROVE  TypeOK'
  BY <1>1 DEF DialStart, Goto, backendVars, ckVars, ConnPC, Dialing
<1>2. ASSUME NEW c \in Conns, DialStep(c)
      PROVE  TypeOK'
  <2> USE DEF Goto, backendVars, connVars, healthVars, ckVars,
              ConnPC, Dialing, Resting
  <2>1. CASE FilterAvailable(c)
    <3>1. cursor[c] + 1 \in 1 .. NumBackends + 1
      BY <2>1, BackendAssumption DEF FilterAvailable, Backends
    <3> QED BY <2>1, <3>1 DEF FilterAvailable
  <2>2. CASE NoneAvailable(c)
    BY <2>2, ForgetType DEF NoneAvailable
  <2>3. CASE SelectBackend(c)
    BY <2>3, BackendAssumption DEF SelectBackend
  <2>4. CASE DialSucceeds(c)
    BY <2>4, BackendUpdates DEF DialSucceeds, SlotsFilled, Selected,
                                RecordSuccess
  <2>5. CASE AddPlayerName(c)
    BY <2>5 DEF AddPlayerName, ListPlayer, SlotsFilled, Selected
  <2>6. CASE AddPlayerCount(c)
    <3>1. backend[c] \in Backends
      BY <2>6 DEF AddPlayerCount, SlotsFilled, Selected
    <3>2. currentConns' \in [Backends -> Nat]
      BY <2>6, <3>1 DEF AddPlayerCount, CountPlayer
    <3> QED BY <2>6, <3>2 DEF AddPlayerCount
  <2>7. CASE DialFails(c)
    BY <2>7, BackendUpdates DEF DialFails, SlotsFilled, Selected, RecordFailure
  <2>8. CASE DialChecksThreshold(c) \/ DialChecksHealthy(c)
    BY <2>8, ForgetType DEF DialChecksThreshold, DialChecksHealthy
  <2>9. CASE DialMarksUnhealthy(c)
    BY <2>9 DEF DialMarksUnhealthy, SetHealthy
  <2>10. CASE DialResetsSuccessCount(c)
    BY <2>10, ForgetType, BackendUpdates
       DEF DialResetsSuccessCount, SlotsFilled, Selected, ResetSuccessCount
  <2> QED BY <1>2, <2>1, <2>2, <2>3, <2>4, <2>5, <2>6, <2>7, <2>8, <2>9,
             <2>10 DEF DialStep
<1>3. ASSUME NEW c \in Conns, Close(c)
      PROVE  TypeOK'
  BY <1>3 DEF Close, UnlistPlayer, Goto, healthVars, ckVars, ConnPC, Resting
<1>4. ASSUME NEW c \in Conns, RemovePlayerCount(c)
      PROVE  TypeOK'
  BY <1>4, UncountType DEF RemovePlayerCount, Goto, SlotsFilled, Selected,
     healthVars, ckVars, ConnPC, Resting
<1>5. CASE CheckerStep
  <2> USE DEF NextBackend, backendVars, connVars, dialVars, CheckPC, SetHealthy
  <2>0. /\ ckAt = NumBackends \/ ckAt + 1 \in Backends
        /\ 1 \in Backends
    BY BackendAssumption DEF Backends
  <2>1. CASE Tick
    BY <2>1 DEF Tick
  <2>2. CASE SkipDisabled
    BY <2>0, <2>2 DEF SkipDisabled
  <2>3. CASE StartPing
    BY <2>3 DEF StartPing
  <2>4. CASE PingFails
    BY <2>4, BackendUpdates DEF PingFails, RecordFailure
  <2>5. CASE CheckerDropsSuccesses
    BY <2>5, BackendUpdates DEF CheckerDropsSuccesses, ResetSuccessCount
  <2>6. CASE CheckerChecksThreshold
    BY <2>0, <2>6 DEF CheckerChecksThreshold
  <2>7. CASE CheckerMarksUnhealthy
    BY <2>0, <2>7 DEF CheckerMarksUnhealthy
  <2>8. CASE PingSucceeds
    BY <2>8 DEF PingSucceeds
  <2>9. CASE ClearFailures
    BY <2>9, BackendUpdates DEF ClearFailures, RecordSuccess
  <2>10. CASE CountHealthCheckSuccess
    BY <2>0, <2>10, BackendUpdates DEF CountHealthCheckSuccess, CountSuccess
  <2>11. CASE Recover
    BY <2>0, <2>11 DEF Recover
  <2>12. CASE CheckerMarksHealthy
    BY <2>12, BackendUpdates DEF CheckerMarksHealthy
  <2>13. CASE CheckerResetsSuccessCount
    BY <2>0, <2>13, BackendUpdates DEF CheckerResetsSuccessCount,
                                       ResetSuccessCount
  <2> QED BY <1>5, <2>1, <2>2, <2>3, <2>4, <2>5, <2>6, <2>7, <2>8, <2>9,
             <2>10, <2>11, <2>12, <2>13
          DEF CheckerStep
<1>6. ASSUME NEW b \in Backends, DisableBackend(b) \/ EnableBackend(b)
      PROVE  TypeOK'
  BY <1>6 DEF DisableBackend, EnableBackend, SetDisabled, connVars, healthVars,
              dialVars, ckVars
<1>7. CASE UNCHANGED vars
  BY <1>7 DEF vars, backendVars, dialVars, ckVars
<1> QED BY <1>1, <1>2, <1>3, <1>4, <1>5, <1>6, <1>7 DEF Next

-----------------------------------------------------------------------------
(* Slots *)

LEMMA NextSlotsFilled ==
    ASSUME TypeOK, SlotsFilled, [Next]_vars
    PROVE  SlotsFilled'
<1> USE DEF SlotsFilled, Selected, TypeOK
<1>1. ASSUME NEW c \in Conns, NEW p \in Players, DialStart(c, p)
      PROVE  SlotsFilled'
  BY <1>1 DEF DialStart, Goto
<1>2. ASSUME NEW c \in Conns, DialStep(c)
      PROVE  SlotsFilled'
  <2>1. CASE SelectBackend(c)
    BY <2>1 DEF SelectBackend, Goto
  <2>2. CASE FilterAvailable(c) \/ NoneAvailable(c)
    BY <2>2 DEF FilterAvailable, NoneAvailable, Forget, Goto
  <2>3. CASE \/ DialSucceeds(c) \/ AddPlayerName(c) \/ AddPlayerCount(c)
             \/ DialFails(c) \/ DialMarksUnhealthy(c)
    BY <2>3 DEF DialSucceeds, AddPlayerName, AddPlayerCount, DialFails,
                DialMarksUnhealthy, Goto
  <2>4. CASE \/ DialChecksThreshold(c) \/ DialChecksHealthy(c)
             \/ DialResetsSuccessCount(c)
    BY <2>4 DEF DialChecksThreshold, DialChecksHealthy, DialResetsSuccessCount,
                Forget, Goto
  <2> QED BY <1>2, <2>1, <2>2, <2>3, <2>4 DEF DialStep
<1>3. ASSUME NEW c \in Conns, Close(c) \/ RemovePlayerCount(c)
      PROVE  SlotsFilled'
  BY <1>3 DEF Close, RemovePlayerCount, Goto
<1>4. CASE \/ CheckerStep
           \/ \E b \in Backends : DisableBackend(b) \/ EnableBackend(b)
           \/ UNCHANGED vars
  BY <1>4, OthersFrame DEF dialVars
<1> QED BY <1>1, <1>2, <1>3, <1>4 DEF Next

LEMMA NextDialingBounded ==
    ASSUME TypeOK, DialingBounded, [Next]_vars
    PROVE  DialingBounded'
<1>0. MaxDialing \in Nat /\ InFlight \in SUBSET Conns
  BY LoadBalancerAssumption DEF InFlight
<1>1. ASSUME NEW c \in Conns, NEW p \in Players, DialStart(c, p)
      PROVE  DialingBounded'
  <2>1. InFlight' = InFlight \cup {c} /\ c \notin InFlight
    BY <1>1 DEF DialStart, InFlight, Goto, Dialing, Resting, TypeOK
  <2>2. Cardinality(InFlight) < MaxDialing
    BY <1>1 DEF DialStart
  <2> QED BY <1>0, <2>1, <2>2, OneSlotMore DEF DialingBounded
<1>2. ASSUME InFlight' \in SUBSET InFlight
      PROVE  DialingBounded'
  BY <1>0, <1>2, FewerSlots DEF DialingBounded
<1>3. ASSUME NEW c \in Conns, DialStep(c)
      PROVE  InFlight' \in SUBSET InFlight
  BY <1>3 DEF DialStep, FilterAvailable, NoneAvailable, SelectBackend,
     DialSucceeds, AddPlayerName, AddPlayerCount, DialFails,
     DialChecksThreshold, DialChecksHealthy, DialMarksUnhealthy,
     DialResetsSuccessCount, Forget,
     Goto, InFlight, Dialing, TypeOK
<1>4. ASSUME NEW c \in Conns, Close(c) \/ RemovePlayerCount(c)
      PROVE  InFlight' \in SUBSET InFlight
  BY <1>4 DEF Close, RemovePlayerCount, Goto, InFlight, Dialing, TypeOK
<1>5. CASE \/ CheckerStep
           \/ \E b \in Backends : DisableBackend(b) \/ EnableBackend(b)
           \/ UNCHANGED vars
  BY <1>5, OthersFrame DEF dialVars, DialingBounded, InFlight
<1> QED BY <1>1, <1>2, <1>3, <1>4, <1>5 DEF Next

LEMMA NextPlayersDistinct ==
    ASSUME TypeOK, PlayersDistinct, [Next]_vars
    PROVE  PlayersDistinct'
<1> SUFFICES ASSUME OneConnPerPlayer
             PROVE  \A c, d \in Tracked' : player'[c] = player'[d] => c = d
  BY DEF PlayersDistinct
<1>0. \A c, d \in Tracked : player[c] = player[d] => c = d
  BY DEF PlayersDistinct
<1> USE DEF Tracked, Resting, TypeOK
<1>1. ASSUME NEW c \in Conns, NEW p \in Players, DialStart(c, p)
      PROVE  \A x, y \in Tracked' : player'[x] = player'[y] => x = y
  BY <1>0, <1>1 DEF DialStart, Goto
<1>2. ASSUME Tracked' \in SUBSET Tracked,
             \A x \in Tracked' : player'[x] = player[x]
      PROVE  \A x, y \in Tracked' : player'[x] = player'[y] => x = y
  BY <1>0, <1>2
<1>3. ASSUME NEW c \in Conns, DialStep(c)
      PROVE  /\ Tracked' \in SUBSET Tracked
             /\ \A x \in Tracked' : player'[x] = player[x]
  BY <1>3 DEF DialStep, FilterAvailable, NoneAvailable, SelectBackend,
     DialSucceeds, AddPlayerName, AddPlayerCount, DialFails,
     DialChecksThreshold, DialChecksHealthy, DialMarksUnhealthy,
     DialResetsSuccessCount, Forget,
     Goto
<1>4. ASSUME NEW c \in Conns, Close(c) \/ RemovePlayerCount(c)
      PROVE  /\ Tracked' \in SUBSET Tracked
             /\ \A x \in Tracked' : player'[x] = player[x]
  BY <1>4 DEF Close, RemovePlayerCount, Goto
<1>5. CASE \/ CheckerStep
           \/ \E b \in Backends : DisableBackend(b) \/ EnableBackend(b)
           \/ UNCHANGED vars
  BY <1>0, <1>5, OthersFrame DEF dialVars
<1> QED BY <1>1, <1>2, <1>3, <1>4, <1>5 DEF Next

-----------------------------------------------------------------------------
(* Counters *)

LEMMA NextCountedCovered ==
    ASSUME TypeOK, SlotsFilled, CountedCovered, [Next]_vars
    PROVE  CountedCovered'
<1> SUFFICES ASSUME NEW b \in Backends
             PROVE  (currentConns[b] >= Cardinality(Counted(b)))'
  BY DEF CountedCovered
<1> DEFINE S == Counted(b)
<1>0. /\ currentConns[b] >= Cardinality(S) /\ currentConns[b] \in Nat
      /\ S \in SUBSET Conns
  BY DEF CountedCovered, TypeOK, BackendTypeOK, Counted
<1>1. ASSUME currentConns'[b] = currentConns[b], S' \in SUBSET S
      PROVE  currentConns'[b] >= Cardinality(S')
  BY <1>0, <1>1, FewerSlots
<1>2. ASSUME NEW c \in Conns, NEW p \in Players, DialStart(c, p)
      PROVE  currentConns'[b] = currentConns[b] /\ S' \in SUBSET S
  BY <1>2 DEF DialStart, Goto, backendVars, Counted, TypeOK
<1>3. ASSUME NEW c \in Conns, DialStep(c), ~AddPlayerCount(c)
      PROVE  currentConns'[b] = currentConns[b] /\ S' \in SUBSET S
  BY <1>3 DEF DialStep, FilterAvailable, NoneAvailable, SelectBackend,
     DialSucceeds, AddPlayerName, DialFails, DialChecksThreshold,
     DialChecksHealthy,
     DialMarksUnhealthy, DialResetsSuccessCount, Forget, Goto, backendVars,
     connVars, Counted, TypeOK
<1>4. ASSUME NEW c \in Conns, AddPlayerCount(c)
      PROVE  currentConns'[b] >= Cardinality(S')
  <2>1. CASE backend[c] = b
    <3>1. S' = S \cup {c} /\ c \notin S
      BY <1>4, <2>1 DEF AddPlayerCount, Goto, Counted, TypeOK
    <3>2. currentConns'[b] = currentConns[b] + 1
      BY <1>4, <2>1 DEF AddPlayerCount, CountPlayer, TypeOK, BackendTypeOK
    <3> QED BY <1>0, <3>1, <3>2, OneSlotMore
  <2>2. CASE backend[c] # b
    <3>1. currentConns'[b] = currentConns[b] /\ S' \in SUBSET S
      BY <1>4, <2>2 DEF AddPlayerCount, CountPlayer, Goto, Counted, TypeOK,
                        BackendTypeOK
    <3> QED BY <3>1, <1>1
  <2> QED BY <2>1, <2>2
<1>5. ASSUME NEW c \in Conns, Close(c)
      PROVE  currentConns'[b] = currentConns[b] /\ S' \in SUBSET S
  BY <1>5 DEF Close, Goto, Counted, TypeOK
<1>6. ASSUME NEW c \in Conns, RemovePlayerCount(c)
      PROVE  currentConns'[b] >= Cardinality(S')
  <2>1. CASE backend[c] = b
    <3>1. S' = S \ {c} /\ c \in S
      BY <1>6, <2>1 DEF RemovePlayerCount, Goto, Counted, TypeOK
    <3>2. currentConns'[b] = currentConns[b] - 1
      BY <1>6, <2>1 DEF RemovePlayerCount, UncountPlayer, TypeOK,
                        BackendTypeOK
    <3> QED BY <1>0, <3>1, <3>2, OneSlotFewer
  <2>2. CASE backend[c] # b
    <3>1. currentConns'[b] = currentConns[b] /\ S' \in SUBSET S
      BY <1>6, <2>2 DEF RemovePlayerCount, UncountPlayer, Goto, Counted,
                        TypeOK, BackendTypeOK
    <3> QED BY <3>1, <1>1
  <2> QED BY <2>1, <2>2
<1>7. CASE \/ CheckerStep
           \/ \E x \in Backends : DisableBackend(x) \/ EnableBackend(x)
           \/ UNCHANGED vars
  <2>1. currentConns'[b] = currentConns[b] /\ S' \in SUBSET S
    BY <1>7, OthersFrame DEF dialVars, connVars, Counted
  <2> QED BY <1>1, <2>1
<1> QED BY <1>1, <1>2, <1>3, <1>4, <1>5, <1>6, <1>7 DEF Next

LEMMA NextPendingBounded ==
    ASSUME TypeOK, SlotsFilled, DialingBounded, PendingBounded, [Next]_vars
    PROVE  PendingBounded'
<1> SUFFICES ASSUME NEW b \in Backends, MaxConnections[b] > 0
             PROVE  (currentConns[b] + Cardinality(Pending(b))
                        <= MaxConnections[b] + MaxDialing - 1)'
  BY DEF PendingBounded
<1> DEFINE P == Pending(b)
           Bound == MaxConnections[b] + MaxDialing - 1
<1>0. /\ currentConns[b] + Cardinality(P) <= Bound
      /\ currentConns[b] \in Nat /\ MaxConnections[b] \in Nat
      /\ MaxDialing \in Nat /\ P \in SUBSET Conns
  BY BackendAssumption, LoadBalancerAssumption
     DEF PendingBounded, TypeOK, BackendTypeOK, Pending
<1>1. ASSUME currentConns'[b] = currentConns[b], P' \in SUBSET P
      PROVE  currentConns'[b] + Cardinality(P') <= Bound
  BY <1>0, <1>1, FewerSlots
<1>2. ASSUME NEW c \in Conns, NEW p \in Players, DialStart(c, p)
      PROVE  currentConns'[b] = currentConns[b] /\ P' \in SUBSET P
  BY <1>2 DEF DialStart, Goto, backendVars, Pending, Resting, SlotsFilled,
              TypeOK
<1>3. ASSUME NEW c \in Conns, FilterAvailable(c)
      PROVE  currentConns'[b] + Cardinality(P') <= Bound
  <2>1. CASE cursor[c] = b /\ IsAvailable(b)
    <3>1. currentConns'[b] = currentConns[b]
          /\ currentConns[b] < MaxConnections[b]
      BY <1>3, <2>1 DEF FilterAvailable, IsAvailable, backendVars
    <3>2. P' \in SUBSET InFlight' /\ InFlight' \in SUBSET Conns
      BY DEF Pending, InFlight, Dialing
    <3>3. Cardinality(InFlight') <= MaxDialing
      BY NextDialingBounded DEF DialingBounded
    <3>4. /\ Cardinality(InFlight') \in Nat /\ Cardinality(P') \in Nat
          /\ Cardinality(P') <= Cardinality(InFlight')
      BY <3>2, FewerSlots
    <3> HIDE DEF P
    <3> QED BY <1>0, <3>1, <3>3, <3>4
  <2>2. CASE ~(cursor[c] = b /\ IsAvailable(b))
    <3>1. currentConns'[b] = currentConns[b] /\ P' \in SUBSET P
      BY <1>3, <2>2 DEF FilterAvailable, backendVars, Pending, TypeOK
    <3> QED BY <1>1, <3>1
  <2> QED BY <2>1, <2>2
<1>4. ASSUME NEW c \in Conns, DialStep(c), ~FilterAvailable(c),
             ~AddPlayerCount(c)
      PROVE  currentConns'[b] = currentConns[b] /\ P' \in SUBSET P
  <2>1. CASE SelectBackend(c)
    BY <2>1 DEF SelectBackend, Goto, backendVars, Pending, TypeOK
  <2>2. CASE \/ NoneAvailable(c) \/ DialChecksThreshold(c)
             \/ DialChecksHealthy(c) \/ DialResetsSuccessCount(c)
    BY <2>2 DEF NoneAvailable, DialChecksThreshold, DialChecksHealthy,
       DialResetsSuccessCount, Forget, Goto, backendVars, connVars, Pending,
       TypeOK
  <2>3. CASE \/ DialSucceeds(c) \/ AddPlayerName(c) \/ DialFails(c)
             \/ DialMarksUnhealthy(c)
    BY <2>3 DEF DialSucceeds, AddPlayerName, DialFails, DialMarksUnhealthy,
       Goto, connVars, Pending, TypeOK
  <2> QED BY <1>4, <2>1, <2>2, <2>3 DEF DialStep
<1>5. ASSUME NEW c \in Conns, AddPlayerCount(c)
      PROVE  currentConns'[b] + Cardinality(P') <= Bound
  <2>1. CASE backend[c] = b
    <3>1. P' = P \ {c} /\ c \in P
      BY <1>5, <2>1 DEF AddPlayerCount, Goto, Pending, SlotsFilled, TypeOK
    <3>2. currentConns'[b] = currentConns[b] + 1
      BY <1>5, <2>1 DEF AddPlayerCount, CountPlayer, TypeOK, BackendTypeOK
    <3>3. Cardinality(P) \in Nat /\ Cardinality(P') = Cardinality(P) - 1
      BY <1>0, <3>1, OneSlotFewer
    <3> HIDE DEF P
    <3> QED BY <1>0, <3>2, <3>3
  <2>2. CASE backend[c] # b
    <3>1. currentConns'[b] = currentConns[b] /\ P' \in SUBSET P
      BY <1>5, <2>2 DEF AddPlayerCount, CountPlayer, Goto, Pending, TypeOK,
                        BackendTypeOK
    <3> QED BY <1>1, <3>1
  <2> QED BY <2>1, <2>2
<1>6. ASSUME NEW c \in Conns, Close(c) \/ RemovePlayerCount(c)
      PROVE  currentConns'[b] + Cardinality(P') <= Bound
  <2>1. currentConns'[b] \in {currentConns[b], currentConns[b] - 1}
    BY <1>6 DEF Close, RemovePlayerCount, UncountPlayer, TypeOK, BackendTypeOK
  <2>2. P' \in SUBSET P
    BY <1>6 DEF Close, RemovePlayerCount, Goto, Pending, TypeOK
  <2>3. Cardinality(P) \in Nat /\ Cardinality(P') \in Nat
        /\ Cardinality(P') <= Cardinality(P)
    BY <1>0, <2>2, FewerSlots
  <2> HIDE DEF P
  <2> QED BY <1>0, <2>1, <2>3
<1>7. CASE \/ CheckerStep
           \/ \E x \in Backends : DisableBackend(x) \/ EnableBackend(x)
           \/ UNCHANGED vars
  <2>1. currentConns'[b] = currentConns[b] /\ P' \in SUBSET P
    BY <1>7, OthersFrame DEF dialVars, connVars, Pending
  <2> QED BY <1>1, <2>1
<1> QED BY <1>1, <1>2, <1>3, <1>4, <1>5, <1>6, <1>7 DEF Next

-----------------------------------------------------------------------------
(* Exact tracking, when a player has one connection at most *)

\* A slot being closed is in its backend's player map.
LEMMA CloseFindsName ==
    ASSUME TypeOK, SlotsFilled, TrackingExact, OneConnPerPlayer,
           NEW c \in Conns, pc[c] = "open"
    PROVE  player[c] \in players[backend[c]]
BY DEF SlotsFilled, Selected, TrackingExact, Listed

LEMMA NextCountExact ==
    ASSUME TypeOK, SlotsFilled, TrackingExact, OneConnPerPlayer, [Next]_vars,
           NEW b \in Backends
    PROVE  (currentConns[b] = Cardinality(Counted(b)))'
<1> DEFINE S == Counted(b)
<1>0. /\ currentConns[b] = Cardinality(S) /\ currentConns[b] \in Nat
      /\ S \in SUBSET Conns
  BY DEF TrackingExact, TypeOK, BackendTypeOK, Counted
<1>1. ASSUME currentConns'[b] = currentConns[b], S' = S
      PROVE  currentConns'[b] = Cardinality(S')
  BY <1>0, <1>1
<1>2. ASSUME NEW c \in Conns, NEW p \in Players, DialStart(c, p)
      PROVE  currentConns'[b] = currentConns[b] /\ S' = S
  BY <1>2 DEF DialStart, Goto, backendVars, Counted, TypeOK, Resting
<1>3. ASSUME NEW c \in Conns, DialStep(c), ~AddPlayerCount(c)
      PROVE  currentConns'[b] = currentConns[b] /\ S' = S
  BY <1>3 DEF DialStep, FilterAvailable, NoneAvailable, SelectBackend,
     DialSucceeds, AddPlayerName, DialFails, DialChecksThreshold,
     DialChecksHealthy,
     DialMarksUnhealthy, DialResetsSuccessCount, Forget, Goto, backendVars,
     connVars, Counted, TypeOK
<1>4. ASSUME NEW c \in Conns, AddPlayerCount(c)
      PROVE  currentConns'[b] = Cardinality(S')
  <2>1. CASE backend[c] = b
    <3>1. S' = S \cup {c} /\ c \notin S
      BY <1>4, <2>1 DEF AddPlayerCount, Goto, Counted, TypeOK
    <3>2. currentConns'[b] = currentConns[b] + 1
      BY <1>4, <2>1 DEF AddPlayerCount, CountPlayer, TypeOK, BackendTypeOK
    <3> QED BY <1>0, <3>1, <3>2, OneSlotMore
  <2>2. CASE backend[c] # b
    <3>1. currentConns'[b] = currentConns[b] /\ S' = S
      BY <1>4, <2>2 DEF AddPlayerCount, CountPlayer, Goto, Counted, TypeOK,
                        BackendTypeOK
    <3> QED BY <3>1, <1>1
  <2> QED BY <2>1, <2>2
<1>5. ASSUME NEW c \in Conns, Close(c)
      PROVE  currentConns'[b] = currentConns[b] /\ S' = S
  BY <1>5, CloseFindsName DEF Close, Goto, Counted, TypeOK
<1>6. ASSUME NEW c \in Conns, RemovePlayerCount(c)
      PROVE  currentConns'[b] = Cardinality(S')
  <2>1. CASE backend[c] = b
    <3>1. S' = S \ {c} /\ c \in S
      BY <1>6, <2>1 DEF RemovePlayerCount, Goto, Counted, TypeOK
    <3>2. currentConns'[b] = currentConns[b] - 1
      BY <1>6, <2>1 DEF RemovePlayerCount, UncountPlayer, TypeOK,
                        BackendTypeOK
    <3> QED BY <1>0, <3>1, <3>2, OneSlotFewer
  <2>2. CASE backend[c] # b
    <3>1. currentConns'[b] = currentConns[b] /\ S' = S
      BY <1>6, <2>2 DEF RemovePlayerCount, UncountPlayer, Goto, Counted,
                        TypeOK, BackendTypeOK
    <3> QED BY <3>1, <1>1
  <2> QED BY <2>1, <2>2
<1>7. CASE \/ CheckerStep
           \/ \E x \in Backends : DisableBackend(x) \/ EnableBackend(x)
           \/ UNCHANGED vars
  <2>1. currentConns'[b] = currentConns[b] /\ S' = S
    BY <1>7, OthersFrame DEF dialVars, connVars, Counted
  <2> QED BY <1>1, <2>1
<1> QED BY <1>1, <1>2, <1>3, <1>4, <1>5, <1>6, <1>7 DEF Next

LEMMA NextNamesExact ==
    ASSUME TypeOK, SlotsFilled, PlayersDistinct, TrackingExact,
           OneConnPerPlayer, [Next]_vars, NEW b \in Backends
    PROVE  (players[b] = {player[c] : c \in Listed(b)})'
<1> DEFINE L == Listed(b)
<1>0. players[b] = {player[c] : c \in L}
  BY DEF TrackingExact
<1>1. ASSUME players'[b] = players[b], L' = L,
             \A x \in L : player'[x] = player[x]
      PROVE  players'[b] = {player'[c] : c \in L'}
  BY <1>0, <1>1
<1>2. ASSUME NEW c \in Conns, NEW p \in Players, DialStart(c, p)
      PROVE  players'[b] = players[b] /\ L' = L
             /\ \A x \in L : player'[x] = player[x]
  BY <1>2 DEF DialStart, Goto, backendVars, Listed, TypeOK, Resting
<1>3. ASSUME NEW c \in Conns, DialStep(c), ~AddPlayerName(c)
      PROVE  players'[b] = players[b] /\ L' = L
             /\ \A x \in L : player'[x] = player[x]
  BY <1>3 DEF DialStep, FilterAvailable, NoneAvailable, SelectBackend,
     DialSucceeds, AddPlayerCount, DialFails, DialChecksThreshold,
     DialChecksHealthy,
     DialMarksUnhealthy, DialResetsSuccessCount, Forget, Goto, backendVars,
     connVars, Listed, TypeOK
<1>4. ASSUME NEW c \in Conns, AddPlayerName(c)
      PROVE  players'[b] = {player'[x] : x \in L'}
  <2>1. CASE backend[c] = b
    <3>1. L' = L \cup {c} /\ player' = player
      BY <1>4, <2>1 DEF AddPlayerName, Goto, Listed, TypeOK
    <3>2. players'[b] = players[b] \cup {player[c]}
      BY <1>4, <2>1 DEF AddPlayerName, ListPlayer, TypeOK, BackendTypeOK
    <3> HIDE DEF L
    <3> QED BY <1>0, <3>1, <3>2
  <2>2. CASE backend[c] # b
    <3>1. players'[b] = players[b] /\ L' = L /\ player' = player
      BY <1>4, <2>2 DEF AddPlayerName, ListPlayer, Goto, Listed, TypeOK,
                        BackendTypeOK
    <3> QED BY <1>1, <3>1
  <2> QED BY <2>1, <2>2
<1>5. ASSUME NEW c \in Conns, Close(c)
      PROVE  players'[b] = {player'[x] : x \in L'}
  <2>0. UnlistPlayer(backend[c], player[c]) /\ Goto(c, "uncounting")
        /\ player' = player /\ backend' = backend /\ pc[c] = "open"
    BY <1>5, CloseFindsName DEF Close
  <2>1. CASE backend[c] = b
    <3>1. L' = L \ {c} /\ c \in L
      BY <2>0, <2>1 DEF Goto, Listed, TypeOK
    <3>2. players'[b] = players[b] \ {player[c]}
      BY <2>0, <2>1 DEF UnlistPlayer, TypeOK, BackendTypeOK
    <3>3. \A x, y \in L : player[x] = player[y] => x = y
      BY DEF PlayersDistinct, Tracked, Resting, Listed
    <3> HIDE DEF L
    <3> QED BY <1>0, <2>0, <3>1, <3>2, <3>3
  <2>2. CASE backend[c] # b
    <3>1. players'[b] = players[b] /\ L' = L
      BY <2>0, <2>2 DEF UnlistPlayer, Goto, Listed, TypeOK, BackendTypeOK
    <3> QED BY <1>1, <2>0, <3>1
  <2> QED BY <2>1, <2>2
<1>6. ASSUME NEW c \in Conns, RemovePlayerCount(c)
      PROVE  players'[b] = players[b] /\ L' = L
             /\ \A x \in L : player'[x] = player[x]
  BY <1>6 DEF RemovePlayerCount, Goto, Listed, TypeOK
<1>7. CASE \/ CheckerStep
           \/ \E x \in Backends : DisableBackend(x) \/ EnableBackend(x)
           \/ UNCHANGED vars
  <2>1. players'[b] = players[b] /\ L' = L /\ player' = player
    BY <1>7, OthersFrame DEF dialVars, connVars, Listed
  <2> QED BY <1>1, <2>1
<1> QED BY <1>1, <1>2, <1>3, <1>4, <1>5, <1>6, <1>7 DEF Next

-----------------------------------------------------------------------------
(* The inductive invariant *)

LEMMA InitIInv == Init => IInv
<1> SUFFICES ASSUME Init PROVE IInv
  OBVIOUS
<1>1. TypeOK
  BY InitTypeOK
<1>2. /\ \A b : Counted(b) = {} /\ Pending(b) = {} /\ Listed(b) = {}
      /\ InFlight = {} /\ Tracked = {}
  BY DEF Init, Counted, Pending, Listed, InFlight, Tracked, Dialing, Resting
<1>3. Cardinality({}) = 0
  BY FS_EmptySet
<1>4. \A b \in Backends : currentConns[b] = 0 /\ players[b] = {}
  BY DEF Init, NewBackends
<1>5. SlotsFilled
  BY DEF Init, SlotsFilled, Selected
<1>6. CountedCovered
  <2>1. \A b : Cardinality(Counted(b)) = 0
    BY <1>2, <1>3
  <2> QED BY <1>4, <2>1 DEF CountedCovered
<1>7. DialingBounded
  <2>1. Cardinality(InFlight) = 0
    BY <1>2, <1>3
  <2> QED BY <2>1, LoadBalancerAssumption DEF DialingBounded
<1>8. PendingBounded
  <2>1. \A b : Cardinality(Pending(b)) = 0
    BY <1>2, <1>3
  <2>2. \A b \in Backends : MaxConnections[b] \in Nat
    BY BackendAssumption
  <2>3. MaxDialing \in Nat \ {0}
    BY LoadBalancerAssumption
  <2> QED BY <1>4, <2>1, <2>2, <2>3 DEF PendingBounded
<1>9. PlayersDistinct
  BY <1>2 DEF PlayersDistinct
<1>10. TrackingExact
  BY <1>2, <1>3, <1>4 DEF TrackingExact
<1> QED BY <1>1, <1>5, <1>6, <1>7, <1>8, <1>9,
              <1>10 DEF IInv

LEMMA NextIInv ==
    ASSUME IInv, [Next]_vars
    PROVE  IInv'
<1> USE DEF IInv
<1>1. TypeOK'
  BY NextTypeOK
<1>2. SlotsFilled' /\ DialingBounded' /\ PlayersDistinct'
  BY NextSlotsFilled, NextDialingBounded, NextPlayersDistinct
<1>3. CountedCovered' /\ PendingBounded'
  BY NextCountedCovered, NextPendingBounded
<1>4. TrackingExact'
  BY NextCountExact, NextNamesExact DEF TrackingExact
<1> QED BY <1>1, <1>2, <1>3, <1>4

(***************************************************************************)
(* What every reachable state satisfies, however the steps of the dials,   *)
(* the closes, the checker and the administrators interleave.              *)
(***************************************************************************)
THEOREM InductiveInvariant == Spec => []IInv
BY InitIInv, NextIInv, PTL DEF Spec

-----------------------------------------------------------------------------
(* What follows from it *)

(***************************************************************************)
(* Every variable keeps its type; in particular no currentConns counter    *)
(* goes below zero, whatever AddPlayer and RemovePlayer calls overlap.     *)
(***************************************************************************)
THEOREM TypeCorrect == Spec => []TypeOK
<1>1. IInv => TypeOK
  BY DEF IInv
<1> QED BY <1>1, InductiveInvariant, PTL

(***************************************************************************)
(* A backend is never believed to hold fewer connections than are open     *)
(* (Backend.AddPlayer, Backend.RemovePlayer, trackedConn.Close).           *)
(***************************************************************************)
THEOREM NeverUndercounts == Spec => []NeverUndercount
<1>1. ASSUME IInv, NEW b \in Backends
      PROVE  currentConns[b] >= Cardinality({c \in Conns :
                                      pc[c] = "open" /\ backend[c] = b})
  <2> DEFINE Open == {c \in Conns : pc[c] = "open" /\ backend[c] = b}
  <2>1. /\ Cardinality(Open) \in Nat /\ Cardinality(Counted(b)) \in Nat
        /\ Cardinality(Open) <= Cardinality(Counted(b))
    <3>1. Counted(b) \in SUBSET Conns /\ Open \in SUBSET Counted(b)
      BY DEF Counted
    <3> QED BY <3>1, FewerSlots
  <2>2. currentConns[b] \in Nat /\ currentConns[b] >= Cardinality(Counted(b))
    BY <1>1 DEF IInv, CountedCovered, TypeOK, BackendTypeOK
  <2> QED BY <2>1, <2>2
<1>2. IInv => NeverUndercount
  BY <1>1 DEF NeverUndercount
<1> QED BY <1>2, InductiveInvariant, PTL

(***************************************************************************)
(* A connection limit is exceeded by fewer connections than Dial calls may *)
(* run at once (ServerInfo.Dial checks IsAvailable, then AddPlayer counts).*)
(***************************************************************************)
THEOREM OvershootIsBounded == Spec => []OvershootBounded
<1>1. ASSUME IInv, NEW b \in Backends, MaxConnections[b] > 0
      PROVE  currentConns[b] <= MaxConnections[b] + MaxDialing - 1
  <2>1. Cardinality(Pending(b)) \in Nat
    BY SlotSetsFinite
  <2>2. currentConns[b] \in Nat /\ MaxConnections[b] \in Nat
        /\ MaxDialing \in Nat
    BY <1>1, BackendAssumption, LoadBalancerAssumption
       DEF IInv, TypeOK, BackendTypeOK
  <2> QED BY <1>1, <2>1, <2>2 DEF IInv, PendingBounded
<1>2. IInv => OvershootBounded
  BY <1>1 DEF OvershootBounded
<1> QED BY <1>2, InductiveInvariant, PTL

(***************************************************************************)
(* With one connection per player, the counter and the player map of every *)
(* backend say exactly which connections it holds.                         *)
(***************************************************************************)
THEOREM TrackingIsExact == Spec => []TrackingExact
<1>1. IInv => TrackingExact
  BY DEF IInv
<1> QED BY <1>1, InductiveInvariant, PTL

-----------------------------------------------------------------------------
(* Recovery is earned *)

PassedType == passed \in [Backends -> 0 .. SuccessCap]

\* The checker has recorded a failed ping of b, but not yet all of it.
Dropping(b) == ckPC = "failing" /\ ckAt = b

\* The recovery counter of b holds passed pings only, or it is being reset.
Earned(b) == successCount[b] <= passed[b] \/ Racing(b) \/ Dropping(b)

CountEarned ==
    \A b \in Backends :
        ~healthy[b] => Earned(b)

\* What the checker knows of its backend between two of its steps.
CheckerKnows ==
    /\ ckPC \in {"failed", "marking"} => successCount[ckAt] = 0
    /\ ckPC \in {"succeeding", "succeeded", "recovery", "restoring"}
           /\ wasUnhealthy => ~healthy[ckAt]
    /\ ckPC \in {"recovery", "restoring"} =>
           /\ wasUnhealthy
           /\ passed[ckAt] >= 1 \/ HealthyAfterSuccesses = 0
    /\ ckPC = "restoring" => passed[ckAt] >= HealthyAfterSuccesses \/ raced

RInv == TypeOK /\ SlotsFilled /\ PassedType /\ CountEarned /\ CheckerKnows

-----------------------------------------------------------------------------

\* The steps that touch neither health nor the recovery counter.
QuietStep ==
    \/ \E c \in Conns :
           \/ \E p \in Players : DialStart(c, p)
           \/ FilterAvailable(c) \/ NoneAvailable(c) \/ SelectBackend(c)
           \/ DialSucceeds(c) \/ AddPlayerName(c) \/ AddPlayerCount(c)
           \/ DialFails(c) \/ DialChecksThreshold(c) \/ DialChecksHealthy(c)
           \/ Close(c) \/ RemovePlayerCount(c)
    \/ \E b \in Backends : DisableBackend(b) \/ EnableBackend(b)
    \/ UNCHANGED vars

LEMMA QuietFrame ==
    ASSUME TypeOK, QuietStep
    PROVE  /\ UNCHANGED <<healthy, successCount, ckVars>>
           /\ \A b \in Backends : Racing(b) => Racing(b)'
<1> USE DEF TypeOK, BackendTypeOK, Racing, Goto, Forget, Resting,
            backendVars, connVars, healthVars, ckVars
<1>1. ASSUME NEW c \in Conns,
             \/ \E p \in Players : DialStart(c, p)
             \/ FilterAvailable(c) \/ NoneAvailable(c) \/ SelectBackend(c)
      PROVE  /\ UNCHANGED <<healthy, successCount, ckVars>>
             /\ \A b \in Backends : Racing(b) => Racing(b)'
  BY <1>1 DEF DialStart, FilterAvailable, NoneAvailable, SelectBackend
<1>2. ASSUME NEW c \in Conns,
             \/ DialSucceeds(c) \/ AddPlayerName(c) \/ AddPlayerCount(c)
             \/ DialFails(c) \/ DialChecksThreshold(c) \/ DialChecksHealthy(c)
      PROVE  /\ UNCHANGED <<healthy, successCount, ckVars>>
             /\ \A b \in Backends : Racing(b) => Racing(b)'
  BY <1>2 DEF DialSucceeds, AddPlayerName, AddPlayerCount, DialFails,
              DialChecksThreshold, DialChecksHealthy, RecordSuccess,
              RecordFailure
<1>3. ASSUME NEW c \in Conns, Close(c) \/ RemovePlayerCount(c)
      PROVE  /\ UNCHANGED <<healthy, successCount, ckVars>>
             /\ \A b \in Backends : Racing(b) => Racing(b)'
  BY <1>3 DEF Close, RemovePlayerCount
<1>4. ASSUME NEW a \in Backends, DisableBackend(a) \/ EnableBackend(a)
      PROVE  /\ UNCHANGED <<healthy, successCount, ckVars>>
             /\ \A b \in Backends : Racing(b) => Racing(b)'
  BY <1>4 DEF DisableBackend, EnableBackend, dialVars
<1>5. CASE UNCHANGED vars
  BY <1>5 DEF vars, dialVars
<1> QED BY <1>1, <1>2, <1>3, <1>4, <1>5 DEF QuietStep

LEMMA StepCases ==
    ASSUME [Next]_vars
    PROVE  \/ QuietStep
           \/ \E c \in Conns : DialMarksUnhealthy(c)
           \/ \E c \in Conns : DialResetsSuccessCount(c)
           \/ CheckerStep
BY DEF Next, DialStep, QuietStep

\* How the history variable moves, seen from a single backend.
LEMMA PassedMoves ==
    ASSUME TypeOK, PassedType, CountPassed, NEW b \in Backends
    PROVE  /\ passed' \in [Backends -> 0 .. SuccessCap]
           /\ GoesDown(b) => passed'[b] = 0
           /\ ~GoesDown(b) /\ ~PingFailsAt(b) => passed'[b] >= passed[b]
           /\ ~GoesDown(b) /\ ckAt = b /\ CountHealthCheckSuccess =>
                  passed'[b] = SatInc(passed[b], SuccessCap)
<1>1. SuccessCap \in Nat
  BY BackendAssumption DEF SuccessCap
<1>2. CountHealthCheckSuccess => ~PingFails
  BY DEF CountHealthCheckSuccess, PingFails
<1> QED BY <1>1, <1>2 DEF CountPassed, PassedType, SatInc, PingFailsAt

-----------------------------------------------------------------------------

\* The note of the race is taken by Recover and kept by every other step.
LEMMA RaceMoves ==
    ASSUME NoteRace
    PROVE  /\ ~Recover => raced' = raced
           /\ Recover => raced' = Racing(ckAt)
BY Zenon DEF NoteRace

\* What the checker knows outlives a step that is not its own and neither
\* brings a backend back nor counts for it.
LEMMA CheckerKeepsKnowing ==
    ASSUME TypeOK, PassedType, CheckerKnows, CountPassed, NoteRace,
           UNCHANGED ckVars, ~Recover,
           \A b \in Backends : ~healthy[b] => ~healthy'[b],
           \A b \in Backends : successCount[b] = 0 => successCount'[b] = 0
    PROVE  CheckerKnows'
<1>0. UNCHANGED <<ckPC, ckAt, wasUnhealthy>> /\ ckAt \in Backends
  BY DEF ckVars, TypeOK
<1>1. /\ ckPC \in {"failed", "marking"} => successCount'[ckAt] = 0
      /\ ckPC \in {"succeeding", "succeeded", "recovery", "restoring"}
             /\ wasUnhealthy => ~healthy'[ckAt]
  BY <1>0 DEF CheckerKnows
<1>2. ckPC \in {"recovery", "restoring"} => passed'[ckAt] >= passed[ckAt]
  BY <1>0, PassedMoves DEF CheckerKnows, GoesDown, PingFailsAt, PingFails
<1>3. raced' = raced
  BY RaceMoves
<1>4. /\ passed[ckAt] \in Nat /\ passed'[ckAt] \in Nat
      /\ HealthyAfterSuccesses \in Nat
  BY <1>0, PassedMoves, BackendAssumption DEF PassedType, SuccessCap
<1>5. ckPC \in {"recovery", "restoring"} =>
          /\ wasUnhealthy
          /\ passed'[ckAt] >= 1 \/ HealthyAfterSuccesses = 0
  BY <1>2, <1>4 DEF CheckerKnows
<1>6. ckPC = "restoring" => passed'[ckAt] >= HealthyAfterSuccesses \/ raced
  BY <1>2, <1>4 DEF CheckerKnows
<1> QED BY <1>0, <1>1, <1>3, <1>5, <1>6 DEF CheckerKnows

LEMMA NextCheckerKnows ==
    ASSUME RInv, Next, CountPassed, NoteRace
    PROVE  CheckerKnows'
<1>0. /\ TypeOK /\ SlotsFilled /\ CheckerKnows /\ PassedType /\ CountEarned
      /\ ckAt \in Backends
  BY DEF RInv, TypeOK
<1>1. CASE QuietStep
  <2>1. UNCHANGED <<healthy, successCount, ckVars>>
    BY <1>0, <1>1, QuietFrame
  <2>2. ~Recover
    BY <2>1 DEF Recover, NextBackend, ckVars
  <2> QED BY <1>0, <2>1, <2>2, CheckerKeepsKnowing
<1>2. ASSUME NEW c \in Conns, DialMarksUnhealthy(c)
      PROVE  CheckerKnows'
  <2>1. /\ UNCHANGED <<successCount, ckVars>>
        /\ \A b \in Backends : ~healthy[b] => ~healthy'[b]
    BY <1>0, <1>2 DEF DialMarksUnhealthy, SetHealthy, TypeOK, BackendTypeOK
  <2>2. ~Recover
    BY <2>1 DEF Recover, NextBackend, ckVars
  <2> QED BY <1>0, <2>1, <2>2, CheckerKeepsKnowing
<1>3. ASSUME NEW c \in Conns, DialResetsSuccessCount(c)
      PROVE  CheckerKnows'
  <2>1. /\ UNCHANGED <<healthy, ckVars>>
        /\ \A b \in Backends : successCount[b] = 0 => successCount'[b] = 0
    BY <1>0, <1>3 DEF DialResetsSuccessCount, ResetSuccessCount, TypeOK,
                      BackendTypeOK
  <2>2. ~Recover
    BY <2>1 DEF Recover, NextBackend, ckVars
  <2> QED BY <1>0, <2>1, <2>2, CheckerKeepsKnowing
<1>4. CASE CheckerStep
  <2> USE <1>0 DEF CheckerKnows, TypeOK, BackendTypeOK
  <2>1. CASE \/ Tick \/ SkipDisabled \/ StartPing \/ PingFails
             \/ CheckerMarksUnhealthy \/ CheckerMarksHealthy
             \/ CheckerResetsSuccessCount
    BY <2>1 DEF Tick, SkipDisabled, StartPing, PingFails,
                CheckerMarksUnhealthy, CheckerMarksHealthy,
                CheckerResetsSuccessCount, NextBackend
  <2>2. CASE CheckerDropsSuccesses
    BY <2>2 DEF CheckerDropsSuccesses, ResetSuccessCount
  <2>3. CASE CheckerChecksThreshold
    BY <2>3 DEF CheckerChecksThreshold, NextBackend, backendVars
  <2>4. CASE PingSucceeds
    BY <2>4 DEF PingSucceeds, backendVars
  <2>5. CASE ClearFailures
    BY <2>5 DEF ClearFailures, RecordSuccess
  <2>6. CASE CountHealthCheckSuccess
    <3>1. CASE wasUnhealthy
      <4>1. /\ ckPC' = "recovery" /\ UNCHANGED <<ckAt, wasUnhealthy, healthy>>
            /\ ~healthy[ckAt]
        BY <2>6, <3>1 DEF CountHealthCheckSuccess, CountSuccess
      <4>2. passed'[ckAt] = SatInc(passed[ckAt], SuccessCap)
        BY <2>6, <4>1, PassedMoves DEF GoesDown
      <4>3. passed[ckAt] \in 0 .. SuccessCap /\ passed'[ckAt] \in 0 .. SuccessCap
        BY PassedMoves DEF PassedType
      <4>4. passed'[ckAt] >= 1 \/ HealthyAfterSuccesses = 0
        BY <4>2, <4>3, BackendAssumption DEF SatInc, SuccessCap
      <4> QED BY <3>1, <4>1, <4>4
    <3>2. CASE ~wasUnhealthy
      BY <2>6, <3>2 DEF CountHealthCheckSuccess, NextBackend
    <3> QED BY <3>1, <3>2
  <2>7. CASE Recover
    <3>1. CASE successCount[ckAt] >= HealthyAfterSuccesses
      <4>1. /\ UNCHANGED <<ckAt, wasUnhealthy, healthy, successCount>>
            /\ ckPC = "recovery" /\ ckPC' = "restoring"
        BY <2>7, <3>1 DEF Recover, backendVars
      <4>2. /\ wasUnhealthy /\ ~healthy[ckAt]
            /\ passed[ckAt] >= 1 \/ HealthyAfterSuccesses = 0
        BY <4>1
      <4>3. successCount[ckAt] <= passed[ckAt] \/ Racing(ckAt)
        BY <4>1, <4>2 DEF CountEarned, Earned, Dropping
      <4>4. raced' = Racing(ckAt)
        BY <2>7, RaceMoves
      <4>5. passed'[ckAt] >= passed[ckAt]
        BY <4>1, PassedMoves DEF GoesDown, PingFailsAt, PingFails
      <4>6. /\ passed[ckAt] \in Nat /\ passed'[ckAt] \in Nat
            /\ successCount[ckAt] \in Nat /\ HealthyAfterSuccesses \in Nat
        BY PassedMoves, BackendAssumption DEF PassedType, SuccessCap
      <4>7. passed'[ckAt] >= HealthyAfterSuccesses \/ Racing(ckAt)
        BY <3>1, <4>3, <4>5, <4>6
      <4>8. passed'[ckAt] >= HealthyAfterSuccesses \/ raced'
        BY <4>4, <4>7, Zenon
      <4>9. passed'[ckAt] >= 1 \/ HealthyAfterSuccesses = 0
        BY <4>2, <4>5, <4>6
      <4> QED BY <4>1, <4>2, <4>8, <4>9
    <3>2. CASE ~(successCount[ckAt] >= HealthyAfterSuccesses)
      BY <2>7, <3>2 DEF Recover, NextBackend
    <3> QED BY <3>1, <3>2
  <2> QED BY <1>4, <2>1, <2>2, <2>3, <2>4, <2>5, <2>6, <2>7 DEF CheckerStep
<1> QED BY <1>1, <1>2, <1>3, <1>4, StepCases

LEMMA NextCountEarned ==
    ASSUME RInv, Next, CountPassed
    PROVE  CountEarned'
<1>0. /\ TypeOK /\ SlotsFilled /\ CheckerKnows /\ PassedType /\ CountEarned
      /\ ckAt \in Backends /\ HealthyAfterSuccesses \in Nat
  BY BackendAssumption DEF RInv, TypeOK
<1> SUFFICES ASSUME NEW b \in Backends, ~healthy'[b]
             PROVE  Earned(b)'
  BY DEF CountEarned
<1>a. passed'[b] \in Nat /\ passed[b] \in Nat /\ successCount[b] \in Nat
  BY <1>0, PassedMoves DEF PassedType, TypeOK, BackendTypeOK, SuccessCap
<1>b. ASSUME ~GoesDown(b), ~PingFailsAt(b), successCount'[b] = successCount[b],
             Racing(b) => Racing(b)', Dropping(b) => Dropping(b)'
      PROVE  Earned(b)'
  <2>1. ~healthy[b] /\ passed'[b] >= passed[b]
    BY <1>0, <1>b, PassedMoves DEF GoesDown
  <2> QED BY <1>0, <1>a, <1>b, <2>1 DEF CountEarned, Earned
<1>c. ASSUME successCount'[b] = 0
      PROVE  Earned(b)'
  BY <1>a, <1>c DEF Earned
<1> USE DEF TypeOK, BackendTypeOK
<1>1. CASE QuietStep
  <2>2. UNCHANGED <<healthy, successCount, ckPC, ckAt>>
    BY <1>0, <1>1, QuietFrame DEF ckVars
  <2>3. /\ ~GoesDown(b) /\ ~PingFailsAt(b)
        /\ Dropping(b) => Dropping(b)'
    BY <2>2 DEF GoesDown, PingFailsAt, PingFails, Dropping
  <2>4. Racing(b) => Racing(b)'
    BY <1>0, <1>1, QuietFrame
  <2> QED BY <1>b, <2>2, <2>3, <2>4
<1>2. ASSUME NEW c \in Conns, DialMarksUnhealthy(c)
      PROVE  Earned(b)'
  <2>1. CASE backend[c] = b
    <3>1. Racing(b)'
      BY <1>0, <1>2, <2>1 DEF DialMarksUnhealthy, Goto, Racing
    <3> QED BY <3>1 DEF Earned
  <2>2. CASE backend[c] # b
    <3>1. /\ healthy'[b] = healthy[b] /\ UNCHANGED <<successCount, ckPC, ckAt>>
          /\ Racing(b) => Racing(b)'
      BY <1>0, <1>2, <2>2 DEF DialMarksUnhealthy, SetHealthy, Goto, Racing,
                              ckVars
    <3> QED BY <1>b, <3>1 DEF GoesDown, PingFailsAt, PingFails, Dropping
  <2> QED BY <2>1, <2>2
<1>3. ASSUME NEW c \in Conns, DialResetsSuccessCount(c)
      PROVE  Earned(b)'
  <2>1. CASE backend[c] = b
    BY <1>0, <1>3, <1>c, <2>1 DEF DialResetsSuccessCount, ResetSuccessCount
  <2>2. CASE backend[c] # b
    <3>1. /\ successCount'[b] = successCount[b]
          /\ UNCHANGED <<healthy, ckPC, ckAt>>
          /\ Racing(b) => Racing(b)'
      BY <1>0, <1>3, <2>2 DEF DialResetsSuccessCount, ResetSuccessCount,
                              Forget, Goto, Racing, ckVars
    <3> QED BY <1>b, <3>1 DEF GoesDown, PingFailsAt, PingFails, Dropping
  <2> QED BY <2>1, <2>2
<1>4. CASE CheckerStep
  <2>0. (Racing(b) => Racing(b)') /\ (ckPC # "failing" => ~Dropping(b))
    BY <1>4, OthersFrame DEF dialVars, Racing, Dropping
  <2>1. CASE \/ Tick \/ SkipDisabled \/ StartPing \/ PingSucceeds
             \/ ClearFailures \/ CheckerChecksThreshold \/ Recover
    <3>1. UNCHANGED <<healthy, successCount>> /\ ckPC # "failing"
      BY <2>1 DEF Tick, SkipDisabled, StartPing, PingSucceeds, ClearFailures,
         RecordSuccess, CheckerChecksThreshold, Recover, backendVars
    <3>2. ~PingFailsAt(b)
      BY <2>1 DEF Tick, SkipDisabled, StartPing, PingSucceeds, ClearFailures,
         CheckerChecksThreshold, Recover, NextBackend, PingFailsAt, PingFails
    <3> QED BY <1>b, <2>0, <3>1, <3>2 DEF GoesDown
  <2>2. CASE PingFails
    <3>0. UNCHANGED <<healthy, successCount, ckAt>> /\ ckPC = "ping"
          /\ ckPC' = "failing"
      BY <2>2 DEF PingFails, RecordFailure
    <3>1. CASE ckAt = b
      BY <3>0, <3>1 DEF Earned, Dropping
    <3>2. CASE ckAt # b
      BY <1>b, <2>0, <3>0, <3>2 DEF GoesDown, PingFailsAt
    <3> QED BY <3>1, <3>2
  <2>3. CASE CheckerDropsSuccesses
    <3>1. CASE ckAt = b
      BY <1>0, <1>c, <2>3, <3>1 DEF CheckerDropsSuccesses, ResetSuccessCount
    <3>2. CASE ckAt # b
      <4>1. UNCHANGED healthy /\ successCount'[b] = successCount[b]
            /\ ~PingFailsAt(b)
        BY <1>0, <2>3, <3>2 DEF CheckerDropsSuccesses, ResetSuccessCount,
                                PingFailsAt
      <4> QED BY <1>b, <2>0, <3>2, <4>1 DEF GoesDown, Dropping
    <3> QED BY <3>1, <3>2
  <2>4. CASE CountHealthCheckSuccess
    <3>0. UNCHANGED healthy /\ ~GoesDown(b) /\ ~PingFailsAt(b)
          /\ ckPC # "failing"
      BY <2>4 DEF CountHealthCheckSuccess, CountSuccess, GoesDown, PingFailsAt,
                  PingFails
    <3>1. CASE ckAt = b
      <4>1. passed'[b] = SatInc(passed[b], SuccessCap)
        BY <1>0, <2>4, <3>0, <3>1, PassedMoves
      <4>2. successCount'[b] = SatInc(successCount[b], SuccessCap)
        BY <1>0, <2>4, <3>1 DEF CountHealthCheckSuccess, CountSuccess
      <4>3. successCount[b] <= passed[b] \/ Racing(b)
        BY <1>0, <2>0, <3>0 DEF CountEarned, Earned
      <4>4. successCount[b] <= passed[b] => successCount'[b] <= passed'[b]
        <5> HIDE DEF TypeOK, BackendTypeOK
        <5>1. /\ successCount[b] \in 0 .. SuccessCap
              /\ passed[b] \in 0 .. SuccessCap /\ SuccessCap \in Nat
          BY <1>0, BackendAssumption
             DEF TypeOK, BackendTypeOK, PassedType, SuccessCap
        <5> QED BY <4>1, <4>2, <5>1 DEF SatInc
      <4> QED BY <2>0, <4>3, <4>4 DEF Earned
    <3>2. CASE ckAt # b
      <4>1. successCount'[b] = successCount[b]
        BY <1>0, <2>4, <3>2 DEF CountHealthCheckSuccess, CountSuccess
      <4> QED BY <1>b, <2>0, <3>0, <4>1
    <3> QED BY <3>1, <3>2
  <2>5. CASE CheckerMarksUnhealthy
    <3>1. CASE ckAt = b
      BY <1>0, <1>c, <2>5, <3>1 DEF CheckerMarksUnhealthy, CheckerKnows
    <3>2. CASE ckAt # b
      <4>1. healthy'[b] = healthy[b] /\ UNCHANGED successCount
            /\ ~PingFailsAt(b) /\ ckPC # "failing"
        BY <1>0, <2>5, <3>2 DEF CheckerMarksUnhealthy, SetHealthy, PingFailsAt
      <4> QED BY <1>b, <2>0, <4>1 DEF GoesDown
    <3> QED BY <3>1, <3>2
  <2>6. CASE CheckerMarksHealthy
    <3>1. UNCHANGED successCount /\ ckPC = "restoring" /\ ckPC' = "reset"
          /\ (healthy'[b] = healthy[b] \/ healthy'[b] = TRUE)
      BY <1>0, <2>6 DEF CheckerMarksHealthy, SetHealthy
    <3> QED BY <1>b, <2>0, <3>1 DEF GoesDown, PingFailsAt, PingFails
  <2>7. CASE CheckerResetsSuccessCount
    <3>1. CASE ckAt = b
      BY <1>0, <1>c, <2>7, <3>1 DEF CheckerResetsSuccessCount,
                                    ResetSuccessCount
    <3>2. CASE ckAt # b
      <4>1. UNCHANGED healthy /\ successCount'[b] = successCount[b]
            /\ ~PingFailsAt(b) /\ ckPC # "failing"
        BY <1>0, <2>7, <3>2 DEF CheckerResetsSuccessCount, ResetSuccessCount,
                                PingFailsAt
      <4> QED BY <1>b, <2>0, <4>1 DEF GoesDown
    <3> QED BY <3>1, <3>2
  <2> QED BY <1>4, <2>1, <2>2, <2>3, <2>4, <2>5, <2>6, <2>7 DEF CheckerStep
<1> QED BY <1>1, <1>2, <1>3, <1>4, StepCases

(***************************************************************************)
(* Recovery is earned: however dials, pings and commands interleave, a     *)
(* backend comes back after HealthyAfterSuccesses passed pings in a row or *)
(* because the checker read its counter in the race of                     *)
(* server_info.go:80-81.                                                   *)
(***************************************************************************)
THEOREM RecoveryIsEarned == RecoverySpec => RecoveryEarnedOrRacing
<1>1. ASSUME RInv, Next, NEW b \in Backends, ComesBack(b)
      PROVE  passed[b] >= HealthyAfterSuccesses \/ (passed[b] >= 1 /\ raced)
  <2>0. TypeOK /\ CheckerKnows /\ passed[b] \in Nat
    BY <1>1, BackendAssumption DEF RInv, PassedType, SuccessCap
  <2>1. ~QuietStep
    BY <1>1, <2>0, QuietFrame DEF ComesBack
  <2>2. ASSUME NEW c \in Conns,
               DialMarksUnhealthy(c) \/ DialResetsSuccessCount(c)
        PROVE  FALSE
    BY <1>1, <2>0, <2>2 DEF DialMarksUnhealthy, DialResetsSuccessCount,
       SetHealthy, ResetSuccessCount, ComesBack, TypeOK, BackendTypeOK
  <2>3. CheckerStep
    BY <1>1, <2>1, <2>2, StepCases
  <2>4. CheckerMarksHealthy /\ ckAt = b
    BY <1>1, <2>0, <2>3 DEF CheckerStep, Tick, SkipDisabled, StartPing,
       PingFails, CheckerDropsSuccesses, CheckerChecksThreshold,
       CheckerMarksUnhealthy, PingSucceeds, ClearFailures,
       CountHealthCheckSuccess, Recover, CheckerMarksHealthy,
       CheckerResetsSuccessCount, RecordFailure, RecordSuccess, CountSuccess,
       SetHealthy, ResetSuccessCount, backendVars, ComesBack, TypeOK,
       BackendTypeOK
  <2> QED BY <2>0, <2>4 DEF CheckerMarksHealthy, CheckerKnows
<1>2. RecoverySpec => [](IInv /\ RInv)
  <2>1. RecoveryInit => IInv /\ RInv
    BY InitIInv, BackendAssumption
       DEF RecoveryInit, Init, NewBackends, IInv, RInv, PassedType,
           CountEarned, CheckerKnows, SuccessCap
  <2>2. ASSUME IInv, RInv, [Next /\ CountPassed /\ NoteRace]_recoveryVars
        PROVE  IInv' /\ RInv'
    <3>1. IInv'
      BY <2>2, NextIInv DEF recoveryVars
    <3>2. CASE UNCHANGED recoveryVars
      BY <2>2, <3>1, <3>2 DEF recoveryVars, vars, backendVars, dialVars,
         ckVars, IInv, RInv, PassedType, CountEarned, Earned, CheckerKnows,
         Racing, Dropping
    <3>3. CASE Next /\ CountPassed /\ NoteRace
      <4>1. PassedType'
        <5>1. 1 \in Backends
          BY BackendAssumption DEF Backends
        <5> QED BY <2>2, <3>3, <5>1, PassedMoves DEF RInv, PassedType
      <4> QED BY <2>2, <3>1, <3>3, <4>1, NextCheckerKnows, NextCountEarned
              DEF IInv, RInv
    <3> QED BY <2>2, <3>2, <3>3
  <2> QED BY <2>1, <2>2, PTL DEF RecoverySpec
<1>3. IInv /\ RInv /\ [Next /\ CountPassed /\ NoteRace]_recoveryVars =>
          [\A b \in Backends :
               ComesBack(b) =>
                   \/ passed[b] >= HealthyAfterSuccesses
                   \/ passed[b] >= 1 /\ raced]_recoveryVars
  BY <1>1
<1> QED BY <1>2, <1>3, PTL DEF RecoverySpec, RecoveryEarnedOrRacing
=============================================================================
