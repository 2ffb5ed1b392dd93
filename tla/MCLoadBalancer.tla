--------------------------- MODULE MCLoadBalancer ---------------------------
(***************************************************************************)
(* Instances of LoadBalancer for TLC.                                      *)
(***************************************************************************)
EXTENDS LoadBalancer, TLC

OnePerBackend == [b \in Backends |-> 1]
Unlimited == [b \in Backends |-> 0]

\* Slots and players are interchangeable; backends are visited in order.
Symmetry == Permutations(Conns) \cup Permutations(Players)
=============================================================================
