----------------------- MODULE MCLoadBalancerRecovery -----------------------
(***************************************************************************)
(* Instances of LoadBalancerRecovery for TLC.                              *)
(***************************************************************************)
EXTENDS LoadBalancerRecovery, TLC

Unlimited == [b \in Backends |-> 0]
Symmetry == Permutations(Conns) \cup Permutations(Players)
=============================================================================
