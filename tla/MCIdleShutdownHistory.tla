------------------------ MODULE MCIdleShutdownHistory ------------------------
(***************************************************************************)
(* Instances of IdleShutdownHistory for TLC.                               *)
(***************************************************************************)
EXTENDS IdleShutdownHistory, TLC

Symmetry == Permutations(Players) \cup Permutations(Timers)
=============================================================================
