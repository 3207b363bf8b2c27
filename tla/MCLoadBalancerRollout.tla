----------------------- MODULE MCLoadBalancerRollout -----------------------
(***************************************************************************)
(* Instances of LoadBalancerRollout for TLC.  Hashes and machine names are *)
(* interchangeable in every property.                                      *)
(***************************************************************************)
EXTENDS LoadBalancerRollout, TLC

Symmetry == Permutations(Hash) \cup Permutations(Machine)

(***************************************************************************)
(* Start from the end of a first rollout: the old set is scaled down, the  *)
(* current one serves.  With Rollback the next change may go back.         *)
(***************************************************************************)
RolledOut(old, current, m) ==
    /\ lb = [want |-> current, replicas |-> 1, rev |-> 2,
             status |-> [replicas |-> 1, ready |-> 1]]
    /\ sets = [h \in Hash |->
                 CASE h = old -> [NoSet EXCEPT !.exists = TRUE, !.rev = 1, !.spec = old,
                                               !.hasMaster = "False", !.aged = TRUE]
                   [] h = current -> [exists |-> TRUE, rev |-> 2, spec |-> current,
                                      replicas |-> 1, statusReplicas |-> 1, ready |-> 1,
                                      hasMaster |-> "True", aged |-> TRUE]
                   [] OTHER -> NoSet]
    /\ machines = [n \in Machine |->
                     IF n = m THEN [st |-> "live", ready |-> TRUE, claim |-> TRUE, set |-> current]
                     ELSE [st |-> "absent", ready |-> FALSE, claim |-> FALSE, set |-> NoHash]]
    /\ known = [h \in Hash |-> IF sets[h].exists THEN sets[h].replicas ELSE NotCached]
    /\ lbSeen = lb /\ setsSeen = sets /\ dirty = {}
    /\ vip = m
    /\ changes = 0

InitRolledOut ==
    \E old, current \in Hash, m \in Machine : old # current /\ RolledOut(old, current, m)

RolledOutSpec == InitRolledOut /\ [][Next]_vars
RolledOutFairSpec == RolledOutSpec /\ Fairness

=============================================================================
