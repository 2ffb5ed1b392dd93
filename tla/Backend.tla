------------------------------ MODULE Backend ------------------------------
(***************************************************************************)
(* The state of the backends of one load-balanced server                   *)
(* (internal/loadbalancer/backend.go) and its methods.                     *)
(*                                                                         *)
(* Every field is a sync/atomic cell or a map under its own mutex, shared  *)
(* by the Dial calls, the health checker and the admin commands.  A method *)
(* is written as the conjuncts it contributes to the step that calls it;   *)
(* one that accesses two cells is two operators, for two steps.            *)
(*                                                                         *)
(* Left out: the latency window and everything computed from it.           *)
(***************************************************************************)
EXTENDS Integers, FiniteSets

CONSTANTS
    NumBackends,            \* length of ServerInfo.backends
    Players,                \* player names
    MaxConnections,         \* per backend, 0 = no limit
    UnhealthyAfterFailures, \* HealthCheckConfig
    HealthyAfterSuccesses,  \* HealthCheckConfig
    CounterSlack,           \* bound: values of a counter above its threshold
    TrustStep               \* 10 in the code; coarser in the larger models

Backends == 1 .. NumBackends

ASSUME BackendAssumption ==
    /\ NumBackends \in Nat \ {0}
    /\ IsFiniteSet(Players)
    /\ MaxConnections \in [Backends -> Nat]
    /\ UnhealthyAfterFailures \in Nat
    /\ HealthyAfterSuccesses \in Nat
    /\ CounterSlack \in Nat
    /\ TrustStep \in 1 .. 50

VARIABLES
    currentConns,   \* atomic counter of tracked connections
    players,        \* names in the players map
    failCount,
    successCount,
    healthy,
    disabled,
    trustCoeff      \* percentage, 50..100

backendVars == <<currentConns, players, failCount, successCount, healthy,
                 disabled, trustCoeff>>

connVars == <<currentConns, players>>
healthVars == <<failCount, successCount, healthy, trustCoeff>>

(***************************************************************************)
(* The two counters are only ever compared with their thresholds, so no    *)
(* comparison of the code tells the values apart that saturation merges.   *)
(***************************************************************************)
FailCap == UnhealthyAfterFailures + CounterSlack
SuccessCap == HealthyAfterSuccesses + CounterSlack

SatInc(n, cap) == IF n < cap THEN n + 1 ELSE n

BackendTypeOK ==
    /\ currentConns \in [Backends -> Nat]
    /\ players \in [Backends -> SUBSET Players]
    /\ failCount \in [Backends -> 0 .. FailCap]
    /\ successCount \in [Backends -> 0 .. SuccessCap]
    /\ healthy \in [Backends -> BOOLEAN]
    /\ disabled \in [Backends -> BOOLEAN]
    /\ trustCoeff \in [Backends -> 50 .. 100]

\* NewBackend: healthy and fully trusted from the start.
NewBackends ==
    /\ currentConns = [b \in Backends |-> 0]
    /\ players = [b \in Backends |-> {}]
    /\ failCount = [b \in Backends |-> 0]
    /\ successCount = [b \in Backends |-> 0]
    /\ healthy = [b \in Backends |-> TRUE]
    /\ disabled = [b \in Backends |-> FALSE]
    /\ trustCoeff = [b \in Backends |-> 100]

-----------------------------------------------------------------------------
(* Availability *)

\* Faulty: admits one connection more than the limit.
IsAvailableOffByOne(b) ==
    /\ ~disabled[b]
    /\ healthy[b]
    /\ MaxConnections[b] > 0 => currentConns[b] <= MaxConnections[b]

IsAvailable(b) ==
    /\ ~disabled[b]
    /\ healthy[b]
    /\ MaxConnections[b] > 0 => currentConns[b] < MaxConnections[b]

-----------------------------------------------------------------------------
(* Player tracking: the name under playersMu, then the atomic counter *)

ListPlayer(b, p) == players' = [players EXCEPT ![b] = @ \cup {p}]
CountPlayer(b) == currentConns' = [currentConns EXCEPT ![b] = @ + 1]

UnlistPlayer(b, p) == players' = [players EXCEPT ![b] = @ \ {p}]
UncountPlayer(b) == currentConns' = [currentConns EXCEPT ![b] = @ - 1]

-----------------------------------------------------------------------------
(* Outcomes of dials and pings *)

RecordSuccess(b) ==
    /\ failCount' = [failCount EXCEPT ![b] = 0]
    /\ UNCHANGED <<successCount, healthy, trustCoeff>>

RecordFailure(b) ==
    /\ failCount' = [failCount EXCEPT ![b] = SatInc(@, FailCap)]
    /\ UNCHANGED <<successCount, healthy, trustCoeff>>

\* RecordHealthCheckFailure is RecordFailure, then ResetSuccessCount;
\* RecordHealthCheckSuccess is RecordSuccess, then CountSuccess.
CountSuccess(b) ==
    /\ successCount' = [successCount EXCEPT ![b] = SatInc(@, SuccessCap)]
    /\ UNCHANGED <<failCount, healthy>>

SetHealthy(b, h) == healthy' = [healthy EXCEPT ![b] = h]

ResetSuccessCount(b) ==
    /\ successCount' = [successCount EXCEPT ![b] = 0]
    /\ UNCHANGED <<failCount, healthy, trustCoeff>>

\* Faulty: no cap at full trust.
IncreaseTrustUncapped(b) ==
    trustCoeff' = [trustCoeff EXCEPT ![b] = @ + TrustStep]

IncreaseTrust(b) ==
    trustCoeff' = [trustCoeff EXCEPT
        ![b] = IF @ + TrustStep > 100 THEN 100 ELSE @ + TrustStep]

ResetTrust(b) == trustCoeff' = [trustCoeff EXCEPT ![b] = 50]

SetDisabled(b, d) == disabled' = [disabled EXCEPT ![b] = d]
=============================================================================
