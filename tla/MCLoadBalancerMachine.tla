----------------------- MODULE MCLoadBalancerMachine -----------------------
(***************************************************************************)
(* Instances of LoadBalancerMachine for TLC.                               *)
(***************************************************************************)
EXTENDS LoadBalancerMachine

PortAndServer == {"port", "server"}

=============================================================================
