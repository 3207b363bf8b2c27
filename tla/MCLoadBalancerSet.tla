------------------------- MODULE MCLoadBalancerSet -------------------------
(***************************************************************************)
(* Instances of LoadBalancerSet for TLC.                                   *)
(***************************************************************************)
EXTENDS LoadBalancerSet, TLC

\* Machine names are random strings, compared for equality only.
Symmetry == Permutations(Machine)

=============================================================================
