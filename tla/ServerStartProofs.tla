------------------------- MODULE ServerStartProofs --------------------------
(***************************************************************************)
(* Proofs about ServerStart for any number of players and any timeouts.    *)
(***************************************************************************)
EXTENDS ServerStartHistory, TLAPS

\* The channel is closed exactly while the leader has yet to delete the entry.
DoneWhileDeleting == done <=> \E p \in Players : pc[p] = "delete"

IInv ==
    /\ TypeOK
    /\ SingleFlight
    /\ WaitersHaveLeader
    /\ DoneWhileDeleting

\* What is in a closed entry is what its leader is about to answer.
EntryTellsAnswer ==
    done => /\ startingServers \in Players
            /\ pc[startingServers] = "delete"
            /\ result => answer[startingServers] = "ready"

StartedWasReady == \A p \in Players : pc[p] = "started" => answer[p] = "ready"

\* Who holds an answer that is not out of date has an accepting server.
FreshMeansAccepting ==
    \A p \in Players : Holding(p) /\ p \notin outdated => accepting

\* The invariant of the specification with history.
HInv == IInv /\ EntryTellsAnswer /\ StartedWasReady /\ FreshMeansAccepting

\* The steps of everything but the handlers.
Surroundings ==
    \/ \E p \in Players : PlayerLeaves(p) /\ UNCHANGED startVars
    \/ (InstanceStep \/ StoppedElsewhere) /\ UNCHANGED startVars
    \/ ContextDone
    \/ UNCHANGED vars

LEMMA SurroundingsFrame ==
    ASSUME TypeOK, Surroundings
    PROVE  /\ UNCHANGED <<pc, attempt, answer, entryVars>>
           /\ ctxDone' \in BOOLEAN
           /\ InstanceTypeOK'
<1> USE DEF TypeOK, InstanceTypeOK, startVars, entryVars
<1>1. ASSUME NEW p \in Players, PlayerLeaves(p), UNCHANGED startVars
      PROVE  /\ UNCHANGED <<pc, attempt, answer, entryVars, ctxDone>>
             /\ InstanceTypeOK'
  BY <1>1 DEF PlayerLeaves
<1>2. ASSUME InstanceStep \/ StoppedElsewhere, UNCHANGED startVars
      PROVE  /\ UNCHANGED <<pc, attempt, answer, entryVars, ctxDone>>
             /\ InstanceTypeOK'
  BY <1>2 DEF InstanceStep, Boots, BeginsAccepting, HasStopped, GoesDown,
              StoppedElsewhere, StopCall, StopDelivered, Status
<1>3. CASE ContextDone
  BY <1>3 DEF ContextDone, instanceVars
<1>4. CASE UNCHANGED vars
  BY <1>4 DEF vars, instanceVars
<1> QED BY <1>1, <1>2, <1>3, <1>4 DEF Surroundings

LEMMA NextCases ==
    ASSUME [Next]_vars
    PROVE  \/ Surroundings
           \/ \E p \in Players : \/ PlayerArrives(p) \/ HandlerStep(p)
                                 \/ Join(p) \/ GiveUp(p)
BY DEF Next, PlayerStep, Surroundings

-----------------------------------------------------------------------------

LEMMA InitIInv == Init => IInv
<1> SUFFICES ASSUME Init PROVE IInv
  OBVIOUS
<1> USE DEF Init, InstanceInit, StartInit
<1>1. TypeOK
  BY DEF TypeOK, InstanceTypeOK, Status, Answers
<1>2. SingleFlight
  BY ServerStartAssumption DEF SingleFlight, Leading
<1>3. WaitersHaveLeader /\ DoneWhileDeleting
  BY DEF WaitersHaveLeader, DoneWhileDeleting
<1> QED BY <1>1, <1>2, <1>3 DEF IInv

LEMMA NextTypeOK ==
    ASSUME TypeOK, [Next]_vars
    PROVE  TypeOK'
<1>1. CASE Surroundings
  BY <1>1, SurroundingsFrame DEF TypeOK, entryVars
<1>2. ASSUME NEW p \in Players,
             \/ PlayerArrives(p) \/ HandlerStep(p) \/ Join(p) \/ GiveUp(p)
      PROVE  TypeOK'
  <2> USE DEF TypeOK, InstanceTypeOK, instanceVars, entryVars, Goto, Answer,
              Running, Leading, Outcomes, Answers
  <2>1. CASE PlayerArrives(p)
    BY <2>1 DEF PlayerArrives
  <2>2. CASE CheckStatus(p)
    BY <2>2 DEF CheckStatus
  <2>3. CASE Lead(p) \/ Follow(p) \/ Woken(p)
    BY <2>3 DEF Lead, Follow, Woken
  <2>4. CASE Open(p)
    BY <2>4 DEF Open, StartCall, Status
  <2>5. CASE Poll(p)
    BY <2>5 DEF Poll
  <2>6. CASE Connect(p)
    BY <2>6 DEF Connect
  <2>7. CASE Publish(p)
    BY <2>7 DEF Publish
  <2>8. CASE DeleteEntry(p)
    BY <2>8 DEF DeleteEntry
  <2>9. CASE Join(p)
    BY <2>9 DEF Join
  <2>10. CASE GiveUp(p)
    BY <2>10 DEF GiveUp
  <2> QED BY <1>2, <2>1, <2>2, <2>3, <2>4, <2>5, <2>6, <2>7, <2>8, <2>9,
             <2>10 DEF HandlerStep
<1> QED BY <1>1, <1>2, NextCases

LEMMA NextSingleFlight ==
    ASSUME TypeOK, SingleFlight, [Next]_vars
    PROVE  SingleFlight'
<1>1. CASE Surroundings
  BY <1>1, SurroundingsFrame DEF SingleFlight, entryVars
<1>2. ASSUME NEW p \in Players,
             \/ PlayerArrives(p) \/ HandlerStep(p) \/ Join(p) \/ GiveUp(p)
      PROVE  SingleFlight'
  <2> USE ServerStartAssumption
      DEF SingleFlight, Leading, TypeOK, entryVars, Goto, Answer
  <2>1. CASE PlayerArrives(p) \/ CheckStatus(p) \/ Join(p) \/ GiveUp(p)
    BY <2>1 DEF PlayerArrives, CheckStatus, Join, GiveUp
  <2>2. CASE Lead(p)
    BY <2>2 DEF Lead
  <2>3. CASE Follow(p) \/ Woken(p)
    BY <2>3 DEF Follow, Woken
  <2>4. CASE Open(p)
    BY <2>4 DEF Open
  <2>5. CASE Poll(p) \/ Connect(p)
    BY <2>5 DEF Poll, Connect
  <2>6. CASE Publish(p)
    BY <2>6 DEF Publish
  <2>7. CASE DeleteEntry(p)
    BY <2>7 DEF DeleteEntry, Answers
  <2> QED BY <1>2, <2>1, <2>2, <2>3, <2>4, <2>5, <2>6, <2>7 DEF HandlerStep
<1> QED BY <1>1, <1>2, NextCases

LEMMA NextWaiters ==
    ASSUME TypeOK, SingleFlight, WaitersHaveLeader, DoneWhileDeleting,
           [Next]_vars
    PROVE  WaitersHaveLeader' /\ DoneWhileDeleting'
<1> USE DEF WaitersHaveLeader, DoneWhileDeleting
<1>1. CASE Surroundings
  BY <1>1, SurroundingsFrame DEF entryVars
<1>2. ASSUME NEW p \in Players,
             \/ PlayerArrives(p) \/ HandlerStep(p) \/ Join(p) \/ GiveUp(p)
      PROVE  WaitersHaveLeader' /\ DoneWhileDeleting'
  <2> USE ServerStartAssumption
      DEF SingleFlight, Leading, TypeOK, entryVars, Goto, Answer
  <2>1. CASE PlayerArrives(p) \/ CheckStatus(p) \/ Join(p) \/ GiveUp(p)
    BY <2>1 DEF PlayerArrives, CheckStatus, Join, GiveUp
  <2>2. CASE Lead(p)
    BY <2>2 DEF Lead
  <2>3. CASE Follow(p) \/ Woken(p)
    BY <2>3 DEF Follow, Woken
  <2>4. CASE Open(p)
    BY <2>4 DEF Open
  <2>5. CASE Poll(p) \/ Connect(p)
    BY <2>5 DEF Poll, Connect
  <2>6. CASE Publish(p)
    BY <2>6 DEF Publish
  <2>7. CASE DeleteEntry(p)
    BY <2>7 DEF DeleteEntry, Answers
  <2> QED BY <1>2, <2>1, <2>2, <2>3, <2>4, <2>5, <2>6, <2>7 DEF HandlerStep
<1> QED BY <1>1, <1>2, NextCases

LEMMA NextEntryTellsAnswer ==
    ASSUME IInv, EntryTellsAnswer, StartedWasReady, [Next]_vars
    PROVE  EntryTellsAnswer' /\ StartedWasReady'
<1> USE DEF EntryTellsAnswer, StartedWasReady
<1>1. CASE Surroundings
  BY <1>1, SurroundingsFrame DEF entryVars, IInv
<1>2. ASSUME NEW p \in Players,
             \/ PlayerArrives(p) \/ HandlerStep(p) \/ Join(p) \/ GiveUp(p)
      PROVE  EntryTellsAnswer' /\ StartedWasReady'
  <2> USE DEF IInv, TypeOK, entryVars, Goto, Answer, Answers
  <2>1. CASE PlayerArrives(p) \/ CheckStatus(p) \/ Join(p) \/ GiveUp(p)
    BY <2>1 DEF PlayerArrives, CheckStatus, Join, GiveUp
  <2>2. CASE Lead(p)
    BY <2>2 DEF Lead
  <2>3. CASE Follow(p) \/ Woken(p)
    BY <2>3 DEF Follow, Woken
  <2>4. CASE Open(p)
    BY <2>4 DEF Open
  <2>5. CASE Poll(p) \/ Connect(p)
    BY <2>5 DEF Poll, Connect
  <2>6. CASE Publish(p)
    <3>1. startingServers = p
      BY <2>6 DEF Publish, SingleFlight, Leading
    <3> QED BY <2>6, <3>1 DEF Publish
  <2>7. CASE DeleteEntry(p)
    BY <2>7 DEF DeleteEntry
  <2> QED BY <1>2, <2>1, <2>2, <2>3, <2>4, <2>5, <2>6, <2>7 DEF HandlerStep
<1> QED BY <1>1, <1>2, NextCases

\* A handler's step gives nobody a positive answer that somebody did not hold
\* before, except the answer of a ping.
LEMMA AnswersHaveSource ==
    ASSUME IInv, EntryTellsAnswer, NEW p \in Players,
           \/ PlayerArrives(p) \/ HandlerStep(p) \/ Join(p) \/ GiveUp(p),
           NEW q \in Players, Holding(q)'
    PROVE  (Source(q) \in Players /\ Holding(Source(q))) \/ accepting
<1> USE DEF IInv, TypeOK, Holding, Source, entryVars, Goto, Answer, Answers
<1>1. CASE PlayerArrives(p) \/ CheckStatus(p) \/ Join(p) \/ GiveUp(p)
  BY <1>1 DEF PlayerArrives, CheckStatus, Join, GiveUp
<1>2. CASE Lead(p)
  BY <1>2 DEF Lead
<1>3. CASE Follow(p)
  BY <1>3 DEF Follow, EntryTellsAnswer
<1>4. CASE Woken(p)
  BY <1>4 DEF Woken
<1>5. CASE Open(p)
  BY <1>5 DEF Open
<1>6. CASE Poll(p)
  BY <1>6 DEF Poll
<1>7. CASE Connect(p)
  BY <1>7 DEF Connect, PingReplies, InstanceTypeOK
<1>8. CASE Publish(p)
  <2>1. startingServers = p
    BY <1>8 DEF Publish, SingleFlight, Leading
  <2> QED BY <1>8, <2>1 DEF Publish
<1>9. CASE DeleteEntry(p)
  BY <1>9 DEF DeleteEntry
<1> QED BY <1>1, <1>2, <1>3, <1>4, <1>5, <1>6, <1>7, <1>8, <1>9
        DEF HandlerStep

LEMMA NextFresh ==
    ASSUME IInv, EntryTellsAnswer, FreshMeansAccepting, [Next]_vars,
           RecordHistory
    PROVE  FreshMeansAccepting'
<1> SUFFICES ASSUME NEW q \in Players, Holding(q)', q \notin outdated'
             PROVE  accepting'
  BY DEF FreshMeansAccepting
<1>1. ~(accepting /\ ~accepting') /\ Source(q) \notin outdated
  BY DEF RecordHistory
<1>2. (Source(q) \in Players /\ Holding(Source(q))) \/ accepting
  <2>1. CASE Surroundings
    BY <2>1, SurroundingsFrame DEF Holding, Source, entryVars, IInv
  <2>2. CASE ~Surroundings
    BY <2>2, NextCases, AnswersHaveSource
  <2> QED BY <2>1, <2>2
<1> QED BY <1>1, <1>2 DEF FreshMeansAccepting

(***************************************************************************)
(* What every reachable state satisfies: the parts of IInv carry each      *)
(* other from step to step.                                                *)
(***************************************************************************)
THEOREM InductiveInvariant == Spec => []IInv
<1>1. ASSUME IInv, [Next]_vars PROVE IInv'
  BY <1>1, NextTypeOK, NextSingleFlight, NextWaiters DEF IInv
<1> QED BY <1>1, InitIInv, PTL DEF Spec

(***************************************************************************)
(* Every variable of the start machinery keeps its type.                   *)
(***************************************************************************)
THEOREM TypeCorrect == Spec => []TypeOK
<1>1. IInv => TypeOK
  BY DEF IInv
<1> QED BY <1>1, InductiveInvariant, PTL

(***************************************************************************)
(* EnsureServerRunning is single flight for any number of callers: one of  *)
(* them leads, and the entry in the map is that one's.                     *)
(***************************************************************************)
THEOREM StartsAreSingleFlight == Spec => []SingleFlight
<1>1. IInv => SingleFlight
  BY DEF IInv
<1> QED BY <1>1, InductiveInvariant, PTL

(***************************************************************************)
(* No caller waits on a channel that nobody is left to close.              *)
(***************************************************************************)
THEOREM WaitersAreServed == Spec => []WaitersHaveLeader
<1>1. IInv => WaitersHaveLeader
  BY DEF IInv
<1> QED BY <1>1, InductiveInvariant, PTL

\* Every step of the code is a step of the shared call, or invisible to it.
LEMMA StepIsSharedCallStep ==
    ASSUME IInv, [Next]_vars
    PROVE  [Call!Next]_(Call!vars)
<1> DEFINE callers == [p \in Players |-> CallerOf(p)]
<1> USE DEF CallerOf, Flight, Call!vars, IInv
<1>1. CASE Surroundings
  BY <1>1, SurroundingsFrame DEF entryVars
<1>2. ASSUME NEW p \in Players,
             \/ PlayerArrives(p) \/ HandlerStep(p) \/ Join(p) \/ GiveUp(p)
      PROVE  [Call!Next]_(Call!vars)
  <2> USE ServerStartAssumption
      DEF TypeOK, entryVars, Goto, Answer, Leading
  <2>1. CASE PlayerArrives(p) \/ CheckStatus(p) \/ Join(p) \/ GiveUp(p)
    BY <2>1 DEF PlayerArrives, CheckStatus, Join, GiveUp
  <2>2. CASE Lead(p)
    <3>1. Call!Begin(p)
      BY <2>2 DEF Lead, Call!Begin
    <3> QED BY <3>1 DEF Call!Next
  <2>3. CASE Follow(p)
    <3>1. CASE done
      <4>1. Call!JoinLanded(p)
        BY <2>3, <3>1 DEF Follow, Call!JoinLanded, Call!Result
      <4> QED BY <4>1 DEF Call!Next
    <3>2. CASE ~done
      <4>1. Call!Join(p)
        BY <2>3, <3>2 DEF Follow, Call!Join
      <4> QED BY <4>1 DEF Call!Next
    <3> QED BY <3>1, <3>2
  <2>4. CASE Woken(p)
    <3>1. Call!Leave(p)
      BY <2>4 DEF Woken, Call!Leave, Call!Result
    <3> QED BY <3>1 DEF Call!Next
  <2>5. CASE Open(p) \/ Poll(p) \/ Connect(p)
    BY <2>5 DEF Open, Poll, Connect
  <2>6. CASE Publish(p)
    <3> DEFINE r == IF answer[p] = "ready" THEN "yes" ELSE "no"
    <3>1. startingServers = p /\ ~done
      BY <2>6 DEF Publish, SingleFlight, DoneWhileDeleting
    <3>2. Flight = "running" /\ Flight' = r
      BY <2>6, <3>1 DEF Publish
    <3>3. ASSUME NEW q \in Players
          PROVE  CallerOf(q)' = IF CallerOf(q) = "waiting" THEN r
                                                           ELSE CallerOf(q)
      BY <2>6, <3>1 DEF Publish, SingleFlight
    <3>4. CASE answer[p] = "ready"
      <4>1. Call!Land("yes")
        BY <3>2, <3>3, <3>4 DEF Call!Land
      <4> QED BY <4>1 DEF Call!Next, Call!Result
    <3>5. CASE answer[p] # "ready"
      <4>1. Call!Land("no")
        BY <3>2, <3>3, <3>5 DEF Call!Land
      <4> QED BY <4>1 DEF Call!Next, Call!Result
    <3> QED BY <3>4, <3>5
  <2>7. CASE DeleteEntry(p)
    <3>1. startingServers = p /\ done
      BY <2>7 DEF DeleteEntry, SingleFlight, DoneWhileDeleting
    <3>2. Flight \in Call!Result /\ Flight' = "none"
      BY <2>7, <3>1 DEF DeleteEntry, Call!Result
    <3>3. CallerOf(p) \in Call!Result /\ CallerOf(p)' = "idle"
      BY <2>7 DEF DeleteEntry, Call!Result, Answers
    <3>4. \A q \in Players \ {p} : CallerOf(q)' = CallerOf(q)
      BY <2>7 DEF DeleteEntry
    <3>5. Call!Clear(p)
      BY <3>2, <3>3, <3>4 DEF Call!Clear
    <3> QED BY <3>5 DEF Call!Next
  <2> QED BY <1>2, <2>1, <2>2, <2>3, <2>4, <2>5, <2>6, <2>7 DEF HandlerStep
<1> QED BY <1>1, <1>2, NextCases

(***************************************************************************)
(* The single-flight map implements a shared call, for any number of       *)
(* callers: one result for all who take part in a start.                   *)
(***************************************************************************)
THEOREM StartImplementsSharedCall == Spec => StartIsSharedCall
<1>1. Init => Call!Init
  BY DEF Init, StartInit, Call!Init, CallerOf, Flight, Leading
<1>2. IInv /\ [Next]_vars => [Call!Next]_(Call!vars)
  BY StepIsSharedCallStep
<1> QED BY <1>1, <1>2, InductiveInvariant, PTL
        DEF Spec, StartIsSharedCall, Call!Spec

(***************************************************************************)
(* A true answer of EnsureServerRunning is about a server that accepts     *)
(* players, for the leader and for everyone who shared its result, until   *)
(* the server goes down on it: in the first start and in every later one.  *)
(***************************************************************************)
THEOREM StartedServersAccept == HistorySpec => []StartedMeansAccepting
<1>1. HistoryInit => HInv
  <2> SUFFICES ASSUME Init PROVE HInv
    BY DEF HistoryInit
  <2>1. IInv
    BY InitIInv
  <2>2. EntryTellsAnswer /\ StartedWasReady /\ FreshMeansAccepting
    BY DEF Init, StartInit, EntryTellsAnswer, StartedWasReady,
           FreshMeansAccepting, Holding
  <2> QED BY <2>1, <2>2 DEF HInv
<1>2. ASSUME HInv, [Next /\ RecordHistory]_historyVars
      PROVE  HInv'
  <2>1. [Next]_vars
    BY <1>2 DEF historyVars
  <2>2. IInv'
    BY <1>2, <2>1, NextTypeOK, NextSingleFlight, NextWaiters DEF HInv, IInv
  <2>3. EntryTellsAnswer' /\ StartedWasReady'
    BY <1>2, <2>1, NextEntryTellsAnswer DEF HInv
  <2>4. FreshMeansAccepting'
    <3>1. CASE UNCHANGED historyVars
      BY <1>2, <3>1 DEF HInv, FreshMeansAccepting, Holding, historyVars, vars,
                        instanceVars, startVars
    <3>2. CASE RecordHistory
      BY <1>2, <2>1, <3>2, NextFresh DEF HInv
    <3> QED BY <1>2, <3>1, <3>2
  <2> QED BY <2>2, <2>3, <2>4 DEF HInv
<1>3. HInv => StartedMeansAccepting
  BY DEF HInv, StartedWasReady, FreshMeansAccepting, Holding,
         StartedMeansAccepting
<1> QED BY <1>1, <1>2, <1>3, PTL DEF HistorySpec
=============================================================================
