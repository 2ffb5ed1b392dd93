------------------------- MODULE ServerStartHistory -------------------------
(***************************************************************************)
(* ServerStart with the history that the truth of its answers depends on.  *)
(* Every step of the code is ServerStart's.                                *)
(***************************************************************************)
EXTENDS ServerStart

VARIABLE outdated \* holders of a positive answer the server has gone down on

historyVars == <<vars, outdated>>

\* p's call will answer, or has answered, that the server is ready.
Holding(p) ==
    pc[p] \in {"publish", "delete", "woken", "started"} /\ answer[p] = "ready"

\* Whose ping p's answer rests on: its leader's from the step that tells p.
Source(p) == IF pc'[p] = "woken" /\ pc[p] # "woken" THEN startingServers ELSE p

\* An answer is new with every ping, and shared as it is.
RecordHistory ==
    outdated' = {p \in Players : /\ Holding(p)'
                                 /\ \/ accepting /\ ~accepting'
                                    \/ Source(p) \in outdated}

HistoryInit == Init /\ outdated = {}
HistorySpec == HistoryInit /\ [][Next /\ RecordHistory]_historyVars

HistoryFairSpec ==
    HistorySpec /\ \A p \in Players : WF_vars(HandlerStep(p))

(***************************************************************************)
(* A player let through by EnsureServerRunning, as leader, as waiter or by *)
(* an entry already closed, finds the server accepting, unless it has gone *)
(* down or been stopped by others since the very ping that answer is from: *)
(* no player is let through on the answer of an earlier start.             *)
(***************************************************************************)
StartedMeansAccepting ==
    \A p \in Players : pc[p] = "started" /\ p \notin outdated => accepting
=============================================================================
