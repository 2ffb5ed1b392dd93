----------------------------- MODULE SharedCall ------------------------------
(***************************************************************************)
(* What EnsureServerRunning promises its callers, without how: calls made  *)
(* while one is under way share it.  The call lands once, and everybody    *)
(* who takes part, including those who come between its landing and its    *)
(* clearing, gets that one result.                                         *)
(***************************************************************************)
CONSTANT Callers

VARIABLES
    caller,  \* what each caller is doing, or the result it was given
    flight   \* the shared call

vars == <<caller, flight>>

Result == {"yes", "no"}

Init ==
    /\ caller = [p \in Callers |-> "idle"]
    /\ flight = "none"

\* Nobody's call is under way: p makes one.
Begin(p) ==
    /\ caller[p] = "idle"
    /\ flight = "none"
    /\ flight' = "running"
    /\ caller' = [caller EXCEPT ![p] = "waiting"]

Join(p) ==
    /\ caller[p] = "idle"
    /\ flight = "running"
    /\ caller' = [caller EXCEPT ![p] = "waiting"]
    /\ UNCHANGED flight

\* The result is the same for all who wait.
Land(r) ==
    /\ flight = "running"
    /\ flight' = r
    /\ caller' = [p \in Callers |-> IF caller[p] = "waiting" THEN r
                                                             ELSE caller[p]]

JoinLanded(p) ==
    /\ caller[p] = "idle"
    /\ flight \in Result
    /\ caller' = [caller EXCEPT ![p] = flight]
    /\ UNCHANGED flight

Leave(p) ==
    /\ caller[p] \in Result
    /\ caller' = [caller EXCEPT ![p] = "idle"]
    /\ UNCHANGED flight

\* The last thing the call does is to make room for the next one.
Clear(p) ==
    /\ flight \in Result
    /\ flight' = "none"
    /\ caller[p] \in Result
    /\ caller' = [caller EXCEPT ![p] = "idle"]

Next ==
    \/ \E p \in Callers :
           Begin(p) \/ Join(p) \/ JoinLanded(p) \/ Leave(p) \/ Clear(p)
    \/ \E r \in Result : Land(r)

Spec == Init /\ [][Next]_vars
=============================================================================
