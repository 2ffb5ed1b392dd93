---------------------------- MODULE LoadBalancer ----------------------------
(***************************************************************************)
(* One load-balanced server at run time: concurrent ServerInfo.Dial calls  *)
(* and trackedConn.Close calls, the health check loop and the admin        *)
(* commands, all acting on the shared state of module Backend.             *)
(*                                                                         *)
(* A connection slot in Conns is a goroutine of the proxy that dials,      *)
(* keeps the connection open and closes it; a slot is used again after     *)
(* that.  Each access to a shared cell that another actor can observe is a *)
(* step of its own.  Which available backend a strategy returns is left    *)
(* open: every strategy returns a member of what filterAvailable saw.      *)
(***************************************************************************)
EXTENDS Backend

CONSTANTS
    Conns,            \* connection slots
    MaxDialing,       \* bound: Dial calls running at once
    OneConnPerPlayer, \* the proxy dials for a player only after its previous
                      \* connection to this server is off the player map
    NoBackend, NoPlayer

ASSUME LoadBalancerAssumption ==
    /\ IsFiniteSet(Conns)
    /\ MaxDialing \in Nat \ {0}
    /\ OneConnPerPlayer \in BOOLEAN
    /\ NoBackend \notin Backends
    /\ NoPlayer \notin Players

VARIABLES
    pc,           \* where each slot is in Dial / Close
    player,       \* the player a slot dials for
    cursor,       \* next backend filterAvailable reads
    available,    \* backends filterAvailable found available
    backend,      \* the backend Dial selected
    ckPC,         \* where the health check loop is
    ckAt,         \* the backend it is checking
    wasUnhealthy  \* its local variable of that name, FALSE out of scope

dialVars == <<pc, player, cursor, available, backend>>
ckVars == <<ckPC, ckAt, wasUnhealthy>>
vars == <<backendVars, dialVars, ckVars>>

Dialing == {"select", "dialing", "connected", "listed",
            "failed", "checking", "marking", "resetting"}
Resting == {"idle", "closed"}
ConnPC == Dialing \cup Resting \cup {"open", "uncounting"}
CheckPC == {"wait", "visit", "ping", "failing", "failed", "marking",
            "succeeding", "succeeded", "recovery", "restoring", "reset"}

TypeOK ==
    /\ BackendTypeOK
    /\ pc \in [Conns -> ConnPC]
    /\ player \in [Conns -> Players \cup {NoPlayer}]
    /\ cursor \in [Conns -> 1 .. NumBackends + 1]
    /\ available \in [Conns -> SUBSET Backends]
    /\ backend \in [Conns -> Backends \cup {NoBackend}]
    /\ ckPC \in CheckPC
    /\ ckAt \in Backends
    /\ wasUnhealthy \in BOOLEAN

Init ==
    /\ NewBackends
    /\ pc = [c \in Conns |-> "idle"]
    /\ player = [c \in Conns |-> NoPlayer]
    /\ cursor = [c \in Conns |-> 1]
    /\ available = [c \in Conns |-> {}]
    /\ backend = [c \in Conns |-> NoBackend]
    /\ ckPC = "wait"
    /\ ckAt = 1
    /\ wasUnhealthy = FALSE

InFlight == {c \in Conns : pc[c] \in Dialing}
Goto(c, l) == pc' = [pc EXCEPT ![c] = l]

\* Dial returned an error: the slot holds nothing any more.
Forget(c) ==
    /\ Goto(c, "idle")
    /\ player' = [player EXCEPT ![c] = NoPlayer]
    /\ cursor' = [cursor EXCEPT ![c] = 1]
    /\ available' = [available EXCEPT ![c] = {}]
    /\ backend' = [backend EXCEPT ![c] = NoBackend]

-----------------------------------------------------------------------------
(* ServerInfo.Dial: selecting a backend *)

\* The proxy calls Dial for player p.
DialStart(c, p) ==
    /\ pc[c] \in Resting
    /\ Cardinality(InFlight) < MaxDialing
    /\ OneConnPerPlayer =>
           \A d \in Conns :
               pc[d] \notin Resting \cup {"uncounting"} => player[d] # p
    /\ Goto(c, "select")
    /\ player' = [player EXCEPT ![c] = p]
    /\ backend' = [backend EXCEPT ![c] = NoBackend]
    /\ UNCHANGED <<cursor, available, backendVars, ckVars>>

\* filterAvailable reads one backend after the other, not a snapshot.
FilterAvailable(c) ==
    /\ pc[c] = "select"
    /\ cursor[c] \in Backends
    /\ available' = [available EXCEPT
           ![c] = IF IsAvailable(cursor[c]) THEN @ \cup {cursor[c]} ELSE @]
    /\ cursor' = [cursor EXCEPT ![c] = @ + 1]
    /\ UNCHANGED <<pc, player, backend, backendVars, ckVars>>

(***************************************************************************)
(* Strategy.Select returned nil: nothing was available, or health-score    *)
(* scored every candidate below 0.  A candidate marked unhealthy meanwhile *)
(* scores 0, one whose latency rose after the minimum was taken not much   *)
(* more, and bad history takes off up to 12 (module HealthScore says when  *)
(* this cannot happen).                                                    *)
(***************************************************************************)
NoneAvailable(c) ==
    /\ pc[c] = "select"
    /\ cursor[c] = NumBackends + 1
    /\ Forget(c)
    /\ UNCHANGED <<backendVars, ckVars>>

SelectBackend(c) ==
    /\ pc[c] = "select"
    /\ cursor[c] = NumBackends + 1
    /\ \E b \in available[c] : backend' = [backend EXCEPT ![c] = b]
    /\ cursor' = [cursor EXCEPT ![c] = 1]
    /\ available' = [available EXCEPT ![c] = {}]
    /\ Goto(c, "dialing")
    /\ UNCHANGED <<player, backendVars, ckVars>>

-----------------------------------------------------------------------------
(* ServerInfo.Dial: the outcome of DialContext *)

DialSucceeds(c) ==
    /\ pc[c] = "dialing"
    /\ RecordSuccess(backend[c])
    /\ Goto(c, "connected")
    /\ UNCHANGED <<player, cursor, available, backend, connVars, disabled,
                   ckVars>>

\* AddPlayer, first half.
AddPlayerName(c) ==
    /\ pc[c] = "connected"
    /\ ListPlayer(backend[c], player[c])
    /\ Goto(c, "listed")
    /\ UNCHANGED <<player, cursor, available, backend, currentConns,
                   healthVars, disabled, ckVars>>

\* AddPlayer, second half; Dial returns the tracked connection.
AddPlayerCount(c) ==
    /\ pc[c] = "listed"
    /\ CountPlayer(backend[c])
    /\ Goto(c, "open")
    /\ UNCHANGED <<player, cursor, available, backend, players, healthVars,
                   disabled, ckVars>>

DialFails(c) ==
    /\ pc[c] = "dialing"
    /\ RecordFailure(backend[c])
    /\ Goto(c, "failed")
    /\ UNCHANGED <<player, cursor, available, backend, connVars, disabled,
                   ckVars>>

\* Faulty: only the failure that reaches the threshold counts.
FailThresholdHit(b) == failCount[b] = UnhealthyAfterFailures

FailThresholdReached(b) == failCount[b] >= UnhealthyAfterFailures

\* The if statement: the threshold and failCount first, healthy after it.
DialChecksThreshold(c) ==
    /\ pc[c] = "failed"
    /\ IF UnhealthyAfterFailures > 0 /\ FailThresholdReached(backend[c])
       THEN /\ Goto(c, "checking")
            /\ UNCHANGED <<player, cursor, available, backend>>
       ELSE Forget(c)
    /\ UNCHANGED <<backendVars, ckVars>>

DialChecksHealthy(c) ==
    /\ pc[c] = "checking"
    /\ IF healthy[backend[c]]
       THEN /\ Goto(c, "marking")
            /\ UNCHANGED <<player, cursor, available, backend>>
       ELSE Forget(c)
    /\ UNCHANGED <<backendVars, ckVars>>

DialMarksUnhealthy(c) ==
    /\ pc[c] = "marking"
    /\ SetHealthy(backend[c], FALSE)
    /\ Goto(c, "resetting")
    /\ UNCHANGED <<player, cursor, available, backend, connVars, failCount,
                   successCount, trustCoeff, disabled, ckVars>>

DialResetsSuccessCount(c) ==
    /\ pc[c] = "resetting"
    /\ ResetSuccessCount(backend[c])
    /\ Forget(c)
    /\ UNCHANGED <<connVars, disabled, ckVars>>

-----------------------------------------------------------------------------
(* trackedConn.Close *)

\* Faulty: no closeOnce, a connection already closed is untracked again.
CloseTwice(c) ==
    /\ pc[c] \in {"open", "closed"}
    /\ IF player[c] \in players[backend[c]]
       THEN /\ UnlistPlayer(backend[c], player[c])
            /\ Goto(c, "uncounting")
       ELSE /\ Goto(c, "closed")
            /\ UNCHANGED players
    /\ UNCHANGED <<player, cursor, available, backend, currentConns,
                   healthVars, disabled, ckVars>>

\* closeOnce lets the first Close through; RemovePlayer, first half.
Close(c) ==
    /\ pc[c] = "open"
    /\ IF player[c] \in players[backend[c]]
       THEN /\ UnlistPlayer(backend[c], player[c])
            /\ Goto(c, "uncounting")
       ELSE /\ Goto(c, "closed")
            /\ UNCHANGED players
    /\ UNCHANGED <<player, cursor, available, backend, currentConns,
                   healthVars, disabled, ckVars>>

\* Faulty: the name is removed from the map but the counter is not.
RemovePlayerForgetsCount(c) ==
    /\ pc[c] = "uncounting"
    /\ Goto(c, "closed")
    /\ UNCHANGED <<player, cursor, available, backend, backendVars, ckVars>>

\* RemovePlayer, second half.
RemovePlayerCount(c) ==
    /\ pc[c] = "uncounting"
    /\ UncountPlayer(backend[c])
    /\ Goto(c, "closed")
    /\ UNCHANGED <<player, cursor, available, backend, players, healthVars,
                   disabled, ckVars>>

-----------------------------------------------------------------------------
(* healthCheckLoop and checkAllBackends *)

\* The loop moves on to the next backend, or waits for the next tick.
NextBackend ==
    /\ IF ckAt = NumBackends
       THEN ckPC' = "wait" /\ ckAt' = 1
       ELSE ckPC' = "visit" /\ ckAt' = ckAt + 1
    /\ wasUnhealthy' = FALSE

Tick ==
    /\ ckPC = "wait"
    /\ ckPC' = "visit"
    /\ UNCHANGED <<ckAt, wasUnhealthy, backendVars, dialVars>>

\* Faulty: an unhealthy or full backend is not checked either.
SkippedWhenUnavailable(b) == ~IsAvailable(b)

Skipped(b) == disabled[b]

SkipDisabled ==
    /\ ckPC = "visit"
    /\ Skipped(ckAt)
    /\ NextBackend
    /\ UNCHANGED <<backendVars, dialVars>>

StartPing ==
    /\ ckPC = "visit"
    /\ ~Skipped(ckAt)
    /\ ckPC' = "ping"
    /\ UNCHANGED <<ckAt, wasUnhealthy, backendVars, dialVars>>

\* RecordHealthCheckFailure, first half.
PingFails ==
    /\ ckPC = "ping"
    /\ RecordFailure(ckAt)
    /\ ckPC' = "failing"
    /\ UNCHANGED <<ckAt, wasUnhealthy, connVars, disabled, dialVars>>

\* Faulty: a failed health check leaves the recovery counter alone.
CheckerKeepsSuccesses ==
    /\ ckPC = "failing"
    /\ ckPC' = "failed"
    /\ UNCHANGED <<ckAt, wasUnhealthy, backendVars, dialVars>>

\* RecordHealthCheckFailure, second half.
CheckerDropsSuccesses ==
    /\ ckPC = "failing"
    /\ ResetSuccessCount(ckAt)
    /\ ckPC' = "failed"
    /\ UNCHANGED <<ckAt, wasUnhealthy, connVars, disabled, dialVars>>

\* No "threshold > 0" guard here, unlike Dial.
CheckerChecksThreshold ==
    /\ ckPC = "failed"
    /\ IF FailThresholdReached(ckAt)
       THEN ckPC' = "marking" /\ UNCHANGED <<ckAt, wasUnhealthy>>
       ELSE NextBackend
    /\ UNCHANGED <<backendVars, dialVars>>

\* IsHealthy and SetHealthy(false): only this loop sets it to true, so the
\* outcome is the same whenever the former reads it.
CheckerMarksUnhealthy ==
    /\ ckPC = "marking"
    /\ SetHealthy(ckAt, FALSE)
    /\ NextBackend
    /\ UNCHANGED <<connVars, failCount, successCount, trustCoeff, disabled,
                   dialVars>>

PingSucceeds ==
    /\ ckPC = "ping"
    /\ wasUnhealthy' = ~healthy[ckAt]
    /\ ckPC' = "succeeding"
    /\ UNCHANGED <<ckAt, backendVars, dialVars>>

\* RecordHealthCheckSuccess, first half.
ClearFailures ==
    /\ ckPC = "succeeding"
    /\ RecordSuccess(ckAt)
    /\ ckPC' = "succeeded"
    /\ UNCHANGED <<ckAt, wasUnhealthy, connVars, disabled, dialVars>>

\* RecordHealthCheckSuccess, second half.  trustCoeff is written by this loop
\* only and read for scores, which are left open: IncreaseTrust joins the step.
CountHealthCheckSuccess ==
    /\ ckPC = "succeeded"
    /\ CountSuccess(ckAt)
    /\ IF wasUnhealthy
       THEN /\ ckPC' = "recovery"
            /\ UNCHANGED <<ckAt, wasUnhealthy, trustCoeff>>
       ELSE /\ IncreaseTrust(ckAt)
            /\ NextBackend
    /\ UNCHANGED <<connVars, disabled, dialVars>>

\* successCount is read here; the backend comes back one step later.
Recover ==
    /\ ckPC = "recovery"
    /\ IF successCount[ckAt] >= HealthyAfterSuccesses
       THEN ckPC' = "restoring" /\ UNCHANGED <<ckAt, wasUnhealthy>>
       ELSE NextBackend
    /\ UNCHANGED <<backendVars, dialVars>>

\* SetHealthy(true), and ResetTrust joins it.
CheckerMarksHealthy ==
    /\ ckPC = "restoring"
    /\ SetHealthy(ckAt, TRUE)
    /\ ResetTrust(ckAt)
    /\ ckPC' = "reset"
    /\ UNCHANGED <<ckAt, wasUnhealthy, connVars, failCount, successCount,
                   disabled, dialVars>>

CheckerResetsSuccessCount ==
    /\ ckPC = "reset"
    /\ ResetSuccessCount(ckAt)
    /\ NextBackend
    /\ UNCHANGED <<connVars, disabled, dialVars>>

-----------------------------------------------------------------------------
(* /lb disable and /lb enable *)

DisableBackend(b) ==
    /\ SetDisabled(b, TRUE)
    /\ UNCHANGED <<connVars, healthVars, dialVars, ckVars>>

EnableBackend(b) ==
    /\ SetDisabled(b, FALSE)
    /\ UNCHANGED <<connVars, healthVars, dialVars, ckVars>>

-----------------------------------------------------------------------------

DialStep(c) ==
    \/ FilterAvailable(c)
    \/ NoneAvailable(c)
    \/ SelectBackend(c)
    \/ DialSucceeds(c)
    \/ AddPlayerName(c)
    \/ AddPlayerCount(c)
    \/ DialFails(c)
    \/ DialChecksThreshold(c)
    \/ DialChecksHealthy(c)
    \/ DialMarksUnhealthy(c)
    \/ DialResetsSuccessCount(c)

CheckerStep ==
    \/ Tick
    \/ SkipDisabled
    \/ StartPing
    \/ PingFails
    \/ CheckerDropsSuccesses
    \/ CheckerChecksThreshold
    \/ CheckerMarksUnhealthy
    \/ PingSucceeds
    \/ ClearFailures
    \/ CountHealthCheckSuccess
    \/ Recover
    \/ CheckerMarksHealthy
    \/ CheckerResetsSuccessCount

Next ==
    \/ \E c \in Conns :
           \/ \E p \in Players : DialStart(c, p)
           \/ DialStep(c)
           \/ Close(c)
           \/ RemovePlayerCount(c)
    \/ CheckerStep
    \/ \E b \in Backends : DisableBackend(b) \/ EnableBackend(b)

Spec == Init /\ [][Next]_vars

(***************************************************************************)
(* A Dial in progress runs on (DialContext has a timeout) and so does the  *)
(* health check loop (a ticker, and a ping with a deadline).  Nobody is    *)
(* obliged to dial, to close a connection or to type a command.            *)
(***************************************************************************)
Fairness ==
    /\ \A c \in Conns : WF_vars(DialStep(c))
    /\ WF_vars(CheckerStep)

FairSpec == Spec /\ Fairness

-----------------------------------------------------------------------------
(* Properties *)

Counted(b) ==
    {c \in Conns : pc[c] \in {"open", "uncounting"} /\ backend[c] = b}

Listed(b) == {c \in Conns : pc[c] \in {"listed", "open"} /\ backend[c] = b}

\* Dials that saw b below its limit and have not raised the counter yet.
Pending(b) ==
    {c \in Conns :
        \/ pc[c] = "select" /\ b \in available[c]
        \/ pc[c] \in {"dialing", "connected", "listed"} /\ backend[c] = b}

(***************************************************************************)
(* However Dial and Close calls of the same or of different players        *)
(* interleave, currentConns never falls below the number of open           *)
(* connections: a backend is never believed emptier than it is.            *)
(* (AddPlayer, RemovePlayer and trackedConn.closeOnce.)                    *)
(***************************************************************************)
NeverUndercount ==
    \A b \in Backends :
        currentConns[b] >= Cardinality({c \in Conns :
                                           pc[c] = "open" /\ backend[c] = b})

(***************************************************************************)
(* If the proxy keeps to one connection per player and server, the counter *)
(* and the player map that /lb status shows are exact: no connection is    *)
(* counted twice, none is leaked, every name has its connection.           *)
(***************************************************************************)
TrackingExact ==
    OneConnPerPlayer =>
        \A b \in Backends :
            /\ currentConns[b] = Cardinality(Counted(b))
            /\ players[b] = {player[c] : c \in Listed(b)}

(***************************************************************************)
(* IsAvailable is read long before AddPlayer counts, so dials may overrun  *)
(* MaxConnections; never by more than the other dials running at the time. *)
(***************************************************************************)
OvershootBounded ==
    \A b \in Backends :
        MaxConnections[b] > 0 =>
            currentConns[b] <= MaxConnections[b] + MaxDialing - 1

PingFailsAt(b) == ckAt = b /\ PingFails
PingSucceedsAt(b) == ckAt = b /\ PingSucceeds
DialFailsAt(b) == \E c \in Conns : backend[c] = b /\ DialFails(c)
DialSucceedsAt(b) == \E c \in Conns : backend[c] = b /\ DialSucceeds(c)
StaysEnabled(b) == <>[]~disabled[b]

(***************************************************************************)
(* A backend that from some time on fails every ping and every dial ends   *)
(* up unhealthy for good, whatever stale dial was still running.           *)
(***************************************************************************)
DeadBackendDetected ==
    \A b \in Backends :
        /\ StaysEnabled(b)
        /\ <>[][~PingSucceedsAt(b) /\ ~DialSucceedsAt(b)]_vars
        => <>[]~healthy[b]

(***************************************************************************)
(* A backend that from some time on answers every ping and every dial is   *)
(* back in service for good, whatever stale failure was still in flight.   *)
(***************************************************************************)
LiveBackendRecovers ==
    \A b \in Backends :
        /\ StaysEnabled(b)
        /\ <>[][~PingFailsAt(b) /\ ~DialFailsAt(b)]_vars
        => <>[]healthy[b]

(***************************************************************************)
(* README.md:33-35: the status follows the Minecraft protocol ping, "not   *)
(* just TCP": a backend that fails every ping from some time on ends up    *)
(* unhealthy, whether or not its port still accepts connections.           *)
(***************************************************************************)
HungBackendDetected ==
    \A b \in Backends :
        StaysEnabled(b) /\ <>[][~PingSucceedsAt(b)]_vars => <>[]~healthy[b]
=============================================================================
