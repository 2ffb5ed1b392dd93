-------------------------- MODULE MCDynamicServer ---------------------------
(***************************************************************************)
(* Instances of DynamicServer for TLC.                                     *)
(***************************************************************************)
EXTENDS DynamicServer, TLC

Symmetry == Permutations(Players) \cup Permutations(Timers)
=============================================================================
