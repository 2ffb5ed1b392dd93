------------------------------ MODULE Instance ------------------------------
(***************************************************************************)
(* What the dynamic server manager acts on but does not own: one MCSManager*)
(* instance, the Minecraft server running in it and the players the proxy  *)
(* has connected to it.  None of it is in the repository; it is modelled   *)
(* from the answers internal/mcsmanager/client.go and                      *)
(* internal/minecraft/ping.go are written to cope with.                    *)
(***************************************************************************)
CONSTANT Players

VARIABLES
    status,     \* as MCSManager reports it
    accepting,  \* the server answers a Minecraft ping and lets players in
    online      \* server.Players() of the proxy

instanceVars == <<status, accepting, online>>

\* 0, 1, 2 and 3 of GetInstanceStatus; "error" is every other number.
Status == {"stopped", "stopping", "starting", "running", "error"}

InstanceTypeOK ==
    /\ status \in Status
    /\ accepting \in BOOLEAN
    /\ online \in SUBSET Players

InstanceInit ==
    /\ status = "stopped"
    /\ accepting = FALSE
    /\ online = {}

-----------------------------------------------------------------------------
(* What the instance does by itself *)

Boots ==
    /\ status = "starting"
    /\ status' = "running"
    /\ UNCHANGED <<accepting, online>>

BeginsAccepting ==
    /\ status = "running"
    /\ ~accepting
    /\ accepting' = TRUE
    /\ UNCHANGED <<status, online>>

HasStopped ==
    /\ status = "stopping"
    /\ status' = "stopped"
    /\ UNCHANGED <<accepting, online>>

\* It crashes or fails to boot.
GoesDown ==
    /\ status \in {"starting", "running", "error"}
    /\ status' \in {"stopped", "error"} \ {status}
    /\ accepting' = FALSE
    /\ UNCHANGED online

InstanceStep == Boots \/ BeginsAccepting \/ HasStopped \/ GoesDown

\* The proxy takes a player off the server's list when the connection ends.
PlayerLeaves(p) ==
    /\ p \in online
    /\ online' = online \ {p}
    /\ UNCHANGED <<status, accepting>>

-----------------------------------------------------------------------------
(* Calls of the manager *)

(***************************************************************************)
(* StartInstance answers ok.  It is refused unless the instance is         *)
(* stopped; a request or its answer may get lost.                          *)
(***************************************************************************)
StartCall(ok) ==
    /\ \/ /\ status = "stopped"
          /\ status' = "starting"
       \/ /\ ~ok
          /\ UNCHANGED status
    /\ UNCHANGED <<accepting, online>>

StopDelivered == status = "running" /\ status' = "stopping" /\ accepting' = FALSE

StopCall(ok) ==
    /\ \/ StopDelivered
       \/ ~ok /\ UNCHANGED <<status, accepting>>
    /\ UNCHANGED online

\* GetInstanceStatus: failures come back as status 2, with or without err.
StatusReplies == {status, "starting"}

\* MCPing succeeds only against a server that accepts.
PingReplies == {accepting, FALSE}
=============================================================================
