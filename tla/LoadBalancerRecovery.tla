------------------------ MODULE LoadBalancerRecovery ------------------------
(***************************************************************************)
(* What a backend does to get back into service.  A history variable       *)
(* counts the health checks each backend passed in a row since it went out *)
(* of service; every step of the code is LoadBalancer's.                   *)
(***************************************************************************)
EXTENDS LoadBalancer

VARIABLES
    passed, \* saturates like successCount
    raced   \* the decision under way was taken on a count a Dial was resetting

recoveryVars == <<vars, passed, raced>>

GoesDown(b) == healthy[b] /\ ~healthy'[b]
ComesBack(b) == ~healthy[b] /\ healthy'[b]

\* A ping counts as passed when RecordHealthCheckSuccess has recorded it.
CountPassed ==
    passed' = [b \in Backends |->
        IF GoesDown(b) \/ PingFailsAt(b) THEN 0
        ELSE IF ckAt = b /\ CountHealthCheckSuccess
             THEN SatInc(passed[b], SuccessCap)
             ELSE passed[b]]

\* A Dial has marked b unhealthy and has yet to reset its success counter.
Racing(b) == \E c \in Conns : pc[c] = "resetting" /\ backend[c] = b

\* Taken down when the checker reads successCount, for the step that follows.
NoteRace == raced' = IF Recover THEN Racing(ckAt) ELSE raced

RecoveryInit == Init /\ passed = [b \in Backends |-> 0] /\ raced = FALSE
RecoverySpec ==
    RecoveryInit /\ [][Next /\ CountPassed /\ NoteRace]_recoveryVars
RecoveryFairSpec == RecoverySpec /\ Fairness

(***************************************************************************)
(* HealthyAfterSuccesses ("requiredSuccesses" in the log line of           *)
(* loadbalancer.go:204-209): a backend comes back only after that many     *)
(* successful health checks in a row.  The one exception is a race: if a   *)
(* Dial that marked it unhealthy had yet to reset its success counter      *)
(* (server_info.go:80-81) when the checker read it, an old count may let   *)
(* it back early, though the reset may have come before SetHealthy(true);  *)
(* and even then it has passed a ping since it went down.                  *)
(***************************************************************************)
RecoveryEarnedOrRacing ==
    [][\A b \in Backends :
           ComesBack(b) =>
               \/ passed[b] >= HealthyAfterSuccesses
               \/ passed[b] >= 1 /\ raced
      ]_recoveryVars
=============================================================================
