---------------------------- MODULE ServerStart -----------------------------
(***************************************************************************)
(* Starting a server on demand: one onServerPreConnect handler per player  *)
(* (main.go) and Manager.EnsureServerRunning with the single-flight map    *)
(* startingServers, waitForServerReady and checkServerConnectivity         *)
(* (internal/dynamicserver/manager.go), for one auto-start server.         *)
(*                                                                         *)
(* The first caller to find no entry in startingServers leads: it starts   *)
(* the instance, polls it, publishes the result in the entry, closes its   *)
(* channel and only then deletes the entry.  Everyone else waits on it.    *)
(***************************************************************************)
EXTENDS Instance, Integers, FiniteSets

CONSTANTS
    StartupTimeoutSeconds,
    ConnectivityTimeoutSeconds,
    PollIntervalSeconds,   \* 0 when the configuration leaves it out
    Registered,            \* the proxy knows the server
    Nobody

ASSUME ServerStartAssumption ==
    /\ StartupTimeoutSeconds \in Nat
    /\ ConnectivityTimeoutSeconds \in Nat
    /\ PollIntervalSeconds \in Nat
    /\ Registered \in BOOLEAN
    /\ Nobody \notin Players

VARIABLES
    pc,              \* where each player's handler is
    attempt,         \* loop counter of the polling loops
    answer,          \* what the handler's EnsureServerRunning will answer
    startingServers, \* whose entry is in the map
    done,            \* that entry's channel is closed
    result,          \* that entry's result field
    ctxDone          \* the plugin's context is cancelled

startVars == <<pc, attempt, answer, startingServers, done, result, ctxDone>>
vars == <<instanceVars, startVars>>

Leading == {"open", "poll", "connect", "publish", "delete"}
Running == Leading \cup {"check", "enter", "wait", "woken"}
Outcomes == {"allowed", "started", "denied", "panicked"}
Answers == {"ready", "failed", "panic"}

\* Integer division of the configured times.
Attempts(seconds) == seconds \div PollIntervalSeconds

TypeOK ==
    /\ InstanceTypeOK
    /\ pc \in [Players -> Running \cup Outcomes \cup {"away"}]
    /\ attempt \in [Players -> Nat]
    /\ answer \in [Players -> Answers]
    /\ startingServers \in Players \cup {Nobody}
    /\ done \in BOOLEAN
    /\ result \in BOOLEAN
    /\ ctxDone \in BOOLEAN

StartInit ==
    /\ pc = [p \in Players |-> "away"]
    /\ attempt = [p \in Players |-> 0]
    /\ answer = [p \in Players |-> "failed"]
    /\ startingServers = Nobody
    /\ done = FALSE
    /\ result = FALSE
    /\ ctxDone = FALSE

Init == InstanceInit /\ StartInit

Goto(p, l) == pc' = [pc EXCEPT ![p] = l]

\* s.result is set and EnsureServerRunning returns: the deferred call is next.
Answer(p, a) ==
    /\ Goto(p, "publish")
    /\ answer' = [answer EXCEPT ![p] = a]
    /\ attempt' = [attempt EXCEPT ![p] = 0]

entryVars == <<startingServers, done, result>>

-----------------------------------------------------------------------------
(* onServerPreConnect *)

PlayerArrives(p) ==
    /\ pc[p] = "away"
    /\ p \notin online
    /\ Goto(p, "check")
    /\ UNCHANGED <<instanceVars, attempt, answer, entryVars, ctxDone>>

\* Only status 3 lets the player through at once; a failed call reads as 2.
CheckStatus(p) ==
    /\ pc[p] = "check"
    /\ \E s \in IF ctxDone THEN {"starting"} ELSE StatusReplies :
           Goto(p, IF s = "running" THEN "allowed" ELSE "enter")
    /\ UNCHANGED <<instanceVars, attempt, answer, entryVars, ctxDone>>

\* Allowed through, the proxy connects the player if it can.
Join(p) ==
    /\ pc[p] \in {"allowed", "started"}
    /\ accepting
    /\ online' = online \cup {p}
    /\ Goto(p, "away")
    /\ UNCHANGED <<status, accepting, attempt, answer, entryVars, ctxDone>>

\* Denied, or the connection failed.
GiveUp(p) ==
    /\ pc[p] \in {"allowed", "started", "denied"}
    /\ pc[p] # "denied" => ~accepting
    /\ Goto(p, "away")
    /\ UNCHANGED <<instanceVars, attempt, answer, entryVars, ctxDone>>

-----------------------------------------------------------------------------
(* EnsureServerRunning *)

\* The lookup in startingServers and the insertion are one critical section.
Lead(p) ==
    /\ pc[p] = "enter"
    /\ startingServers = Nobody
    /\ startingServers' = p
    /\ done' = FALSE
    /\ result' = FALSE
    /\ Goto(p, "open")
    /\ UNCHANGED <<instanceVars, attempt, answer, ctxDone>>

\* Faulty: whoever comes after the broadcast waits for the next one.
FollowMissesBroadcast(p) ==
    /\ pc[p] = "enter"
    /\ startingServers # Nobody
    /\ Goto(p, "wait")
    /\ UNCHANGED <<instanceVars, attempt, answer, entryVars, ctxDone>>

\* Receiving from a closed channel does not block.
Follow(p) ==
    /\ pc[p] = "enter"
    /\ startingServers # Nobody
    /\ IF done
       THEN /\ Goto(p, "woken")
            /\ answer' = [answer EXCEPT ![p] = IF result THEN "ready"
                                                          ELSE "failed"]
       ELSE Goto(p, "wait") /\ UNCHANGED answer
    /\ UNCHANGED <<instanceVars, attempt, entryVars, ctxDone>>

Woken(p) ==
    /\ pc[p] = "woken"
    /\ Goto(p, IF answer[p] = "ready" THEN "started" ELSE "denied")
    /\ UNCHANGED <<instanceVars, attempt, answer, entryVars, ctxDone>>

\* The division in waitForServerReady panics on a zero interval.
Open(p) ==
    /\ pc[p] = "open"
    /\ \E ok \in BOOLEAN :
           /\ IF ctxDone THEN ~ok /\ UNCHANGED instanceVars ELSE StartCall(ok)
           /\ IF ~ok THEN Answer(p, "failed")
              ELSE IF PollIntervalSeconds = 0 THEN Answer(p, "panic")
              ELSE Goto(p, "poll") /\ UNCHANGED <<attempt, answer>>
    /\ UNCHANGED <<entryVars, ctxDone>>

\* One iteration of the loop in waitForServerReady.
Poll(p) ==
    /\ pc[p] = "poll"
    /\ IF attempt[p] >= Attempts(StartupTimeoutSeconds) \/ ctxDone
       THEN Answer(p, "failed")
       ELSE \E s \in StatusReplies :
            \/ /\ s = "running" /\ Registered
               /\ Goto(p, "connect")
               /\ attempt' = [attempt EXCEPT ![p] = 0]
               /\ UNCHANGED answer
            \/ /\ s \in {"stopped", "stopping", "starting"}
               /\ attempt' = [attempt EXCEPT ![p] = @ + 1]
               /\ UNCHANGED <<pc, answer>>
            \/ /\ s = "error" \/ (s = "running" /\ ~Registered)
               /\ Answer(p, "failed")
    /\ UNCHANGED <<instanceVars, entryVars, ctxDone>>

\* Faulty: the last attempt is taken for a success.
ConnectTakesTimeoutForSuccess(p) ==
    /\ pc[p] = "connect"
    /\ IF ctxDone THEN Answer(p, "failed")
       ELSE IF attempt[p] >= Attempts(ConnectivityTimeoutSeconds)
       THEN Answer(p, "ready")
       ELSE \E up \in PingReplies :
            IF up
            THEN Answer(p, "ready")
            ELSE /\ attempt' = [attempt EXCEPT ![p] = @ + 1]
                 /\ UNCHANGED <<pc, answer>>
    /\ UNCHANGED <<instanceVars, entryVars, ctxDone>>

\* Faulty: a server that does not accept in time is stopped again.
ConnectStopsServer(p) ==
    /\ pc[p] = "connect"
    /\ IF attempt[p] >= Attempts(ConnectivityTimeoutSeconds) \/ ctxDone
       THEN /\ Answer(p, "failed")
            /\ IF status = "running" THEN StopCall(TRUE)
                                     ELSE UNCHANGED instanceVars
       ELSE /\ \E up \in PingReplies :
                IF up
                THEN Answer(p, "ready")
                ELSE /\ attempt' = [attempt EXCEPT ![p] = @ + 1]
                     /\ UNCHANGED <<pc, answer>>
            /\ UNCHANGED instanceVars
    /\ UNCHANGED <<entryVars, ctxDone>>

\* Faulty: the attempts count down from zero.
ConnectCountsDown(p) ==
    /\ pc[p] = "connect"
    /\ IF attempt[p] >= Attempts(ConnectivityTimeoutSeconds) \/ ctxDone
       THEN Answer(p, "failed")
       ELSE \E up \in PingReplies :
            IF up
            THEN Answer(p, "ready")
            ELSE /\ attempt' = [attempt EXCEPT ![p] = @ - 1]
                 /\ UNCHANGED <<pc, answer>>
    /\ UNCHANGED <<instanceVars, entryVars, ctxDone>>

\* One iteration of the loop in checkServerConnectivity.
Connect(p) ==
    /\ pc[p] = "connect"
    /\ IF attempt[p] >= Attempts(ConnectivityTimeoutSeconds) \/ ctxDone
       THEN Answer(p, "failed")
       ELSE \E up \in PingReplies :
            IF up
            THEN Answer(p, "ready")
            ELSE /\ attempt' = [attempt EXCEPT ![p] = @ + 1]
                 /\ UNCHANGED <<pc, answer>>
    /\ UNCHANGED <<instanceVars, entryVars, ctxDone>>

\* Faulty: a failed start returns without closing the channel.
PublishOnSuccessOnly(p) ==
    /\ pc[p] = "publish"
    /\ done' = (answer[p] = "ready")
    /\ result' = (answer[p] = "ready")
    /\ pc' = [q \in Players |-> IF q = p THEN "delete"
                                ELSE IF pc[q] = "wait" /\ done' THEN "woken"
                                ELSE pc[q]]
    /\ answer' = [q \in Players |-> IF pc[q] = "wait" THEN answer[p]
                                    ELSE answer[q]]
    /\ UNCHANGED <<instanceVars, attempt, startingServers, ctxDone>>

\* Faulty: the entry is taken out of the map twice.
PublishDeletesToo(p) ==
    /\ pc[p] = "publish"
    /\ startingServers' = Nobody
    /\ done' = FALSE
    /\ result' = FALSE
    /\ pc' = [q \in Players |-> IF q = p THEN "delete"
                                ELSE IF pc[q] = "wait" THEN "woken"
                                ELSE pc[q]]
    /\ answer' = [q \in Players |-> IF pc[q] = "wait" THEN answer[p]
                                    ELSE answer[q]]
    /\ UNCHANGED <<instanceVars, attempt, ctxDone>>

\* Faulty: the channel is closed before the result is in the entry.
PublishBeforeResult(p) ==
    /\ pc[p] = "publish"
    /\ done' = TRUE
    /\ result' = (answer[p] = "ready")
    /\ pc' = [q \in Players |-> IF q = p THEN "delete"
                                ELSE IF pc[q] = "wait" THEN "woken"
                                ELSE pc[q]]
    /\ answer' = [q \in Players |-> IF pc[q] = "wait" THEN "failed"
                                                      ELSE answer[q]]
    /\ UNCHANGED <<instanceVars, attempt, startingServers, ctxDone>>

\* close(s.done) wakes every waiter, each of which returns s.result.
Publish(p) ==
    /\ pc[p] = "publish"
    /\ done' = TRUE
    /\ result' = (answer[p] = "ready")
    /\ pc' = [q \in Players |-> IF q = p THEN "delete"
                                ELSE IF pc[q] = "wait" THEN "woken"
                                ELSE pc[q]]
    /\ answer' = [q \in Players |->
                     IF pc[q] # "wait" THEN answer[q]
                     ELSE IF result' THEN "ready" ELSE "failed"]
    /\ UNCHANGED <<instanceVars, attempt, startingServers, ctxDone>>

DeleteEntry(p) ==
    /\ pc[p] = "delete"
    /\ startingServers' = Nobody
    /\ done' = FALSE
    /\ result' = FALSE
    /\ Goto(p, CASE answer[p] = "ready" -> "started"
                 [] answer[p] = "failed" -> "denied"
                 [] answer[p] = "panic" -> "panicked")
    /\ UNCHANGED <<instanceVars, attempt, answer, ctxDone>>

-----------------------------------------------------------------------------

\* The proxy shuts down: every API call fails from now on.
ContextDone ==
    /\ ~ctxDone
    /\ ctxDone' = TRUE
    /\ UNCHANGED <<instanceVars, pc, attempt, answer, entryVars>>

\* The idle check or an operator stops the instance.
StoppedElsewhere == StopCall(TRUE)

HandlerStep(p) ==
    \/ CheckStatus(p) \/ Lead(p) \/ Follow(p) \/ Woken(p)
    \/ Open(p) \/ Poll(p) \/ Connect(p) \/ Publish(p) \/ DeleteEntry(p)

PlayerStep(p) ==
    \/ PlayerArrives(p) \/ HandlerStep(p) \/ Join(p) \/ GiveUp(p)
    \/ PlayerLeaves(p) /\ UNCHANGED startVars

Next ==
    \/ \E p \in Players : PlayerStep(p)
    \/ (InstanceStep \/ StoppedElsewhere) /\ UNCHANGED startVars
    \/ ContextDone

Spec == Init /\ [][Next]_vars

(***************************************************************************)
(* A handler runs on: its HTTP calls (30 s) and pings (3 s) time out, its  *)
(* sleeps end and its loops are bounded.  Nothing else is promised.        *)
(***************************************************************************)
FairSpec == Spec /\ \A p \in Players : WF_vars(HandlerStep(p))

-----------------------------------------------------------------------------
(* Properties *)

(***************************************************************************)
(* However many players arrive, one caller at a time starts the server,    *)
(* and the entry in startingServers is its own: no caller ever deletes the *)
(* entry of another (the deferred delete goes by server name only).        *)
(***************************************************************************)
SingleFlight == \A p \in Players : pc[p] \in Leading <=> startingServers = p

(***************************************************************************)
(* Nobody waits on a channel that was closed before or will never be: a    *)
(* waiter's leader is in the map and has not published yet.                *)
(***************************************************************************)
WaitersHaveLeader ==
    \A p \in Players : pc[p] = "wait" => startingServers # Nobody /\ ~done

(***************************************************************************)
(* Every player who connects gets an answer, even if the start fails or    *)
(* the proxy shuts down while others wait for it.                          *)
(***************************************************************************)
EveryoneAnswered ==
    \A p \in Players : pc[p] \in Running ~> pc[p] \in Outcomes

\* Refinement mapping: where a handler is in the call, and the entry's state.
CallerOf(p) ==
    CASE pc[p] \in Leading \ {"delete"} \/ pc[p] = "wait" -> "waiting"
      [] pc[p] \in {"delete", "woken"} /\ answer[p] = "ready" -> "yes"
      [] pc[p] \in {"delete", "woken"} /\ answer[p] # "ready" -> "no"
      [] OTHER -> "idle"

Flight ==
    CASE startingServers = Nobody -> "none"
      [] startingServers # Nobody /\ ~done -> "running"
      [] startingServers # Nobody /\ done /\ result -> "yes"
      [] startingServers # Nobody /\ done /\ ~result -> "no"

Call == INSTANCE SharedCall WITH
    Callers <- Players,
    caller  <- [p \in Players |-> CallerOf(p)],
    flight  <- Flight

(***************************************************************************)
(* EnsureServerRunning implements a shared call: whoever calls while a     *)
(* start is under way, or after its result was published and before its    *)
(* entry is deleted, gets the answer of that one start, and nobody gets an *)
(* answer before it is there.                                              *)
(***************************************************************************)
StartIsSharedCall == Call!Spec

(***************************************************************************)
(* README.md:113-120 gives a dynamicServer configuration without           *)
(* pollIntervalSeconds: a handler must cope with it.                       *)
(***************************************************************************)
NoHandlerPanics == \A p \in Players : pc[p] # "panicked"
=============================================================================
