-------------------------- MODULE MCMachineHealth --------------------------
(***************************************************************************)
(* Instances of MachineHealth for TLC.  The outage runs use the thresholds *)
(* of the code in minutes; the runs with lagging caches scale them down    *)
(* (see README.md).                                                        *)
(***************************************************************************)
EXTENDS MachineHealth

AllEnvoyConditions == {"EnvoyReady", "EnvoyUpToDate"}
OneEnvoyCondition == {"EnvoyReady"}

=============================================================================
