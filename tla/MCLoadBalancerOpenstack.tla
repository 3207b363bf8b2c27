---------------------- MODULE MCLoadBalancerOpenstack ----------------------
(***************************************************************************)
(* Instances of LoadBalancerOpenstack for TLC.                             *)
(***************************************************************************)
EXTENDS LoadBalancerOpenstack

NoKinds == {}
PortAndGroup == {"port", "secgroup"}
GroupAndFip == {"secgroup", "fip"}

=============================================================================
