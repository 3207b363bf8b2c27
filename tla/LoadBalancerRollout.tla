------------------------ MODULE LoadBalancerRollout ------------------------
(***************************************************************************)
(* Rolling from one LoadBalancerSet to the next: reconcileLoadBalancerSet  *)
(* of the LoadBalancer controller (controllers/yawol-controller/           *)
(* loadbalancer/loadbalancer_controller.go) together with the controller   *)
(* of the sets, the machines and the keepalived instances on them that     *)
(* pass the virtual IP around.                                             *)
(*                                                                         *)
(* Every hash of the machine spec has at most one set, named after the     *)
(* LoadBalancer and the hash.  A new hash gets a new set with the next     *)
(* revision; when it is ready and has held the keepalived master for a     *)
(* while, all the other sets are scaled to 0.  They are kept: a spec that  *)
(* comes back finds its old set.                                           *)
(*                                                                         *)
(* The LoadBalancer controller reads from two caches (lbSeen, setsSeen),   *)
(* which catch up each on its own; the set controller knows a set's spec   *)
(* from its own cache (known).  Machines and a set's own status are up to  *)
(* date when the set controller runs, and no machine fails:                *)
(* LoadBalancerSet covers what happens otherwise.                          *)
(***************************************************************************)
EXTENDS ReplicaControl, FiniteSetsExt

CONSTANTS
    Hash,            \* hashes of the machine spec of the LoadBalancer
    MaxReplicas,     \* bound on spec.replicas
    MaxChanges,      \* bound on the changes by the user
    Rollback,        \* TRUE: the user may return to an earlier spec
    PromptCaches,    \* TRUE: the LoadBalancer controller's caches have caught
                     \* up with its own writes before it reconciles again
    ApiErrors        \* TRUE: single requests to the API server may fail

NoHash == "none"
NoMachine == "nobody"

ASSUME RolloutAssumption ==
    /\ IsFiniteSet(Hash) /\ NoHash \notin Hash
    /\ IsFiniteSet(Machine) /\ NoMachine \notin Machine
    /\ MaxReplicas \in Nat \ {0} /\ MaxChanges \in Nat
    /\ Rollback \in BOOLEAN /\ PromptCaches \in BOOLEAN /\ ApiErrors \in BOOLEAN

VARIABLES
    lb,        \* the LoadBalancer: hash of its spec, replicas, revision, status
    sets,      \* its LoadBalancerSets, by hash
    lbSeen,    \* the LoadBalancer in the cache of its controller
    setsSeen,  \* the sets in the cache of the LoadBalancer controller
    dirty,     \* those of the two that miss a write of the LoadBalancer controller
    known,     \* spec.replicas as the set controller's cache has it
    machines,  \* the LoadBalancerMachines with the hash of their set
    vip,       \* the machine that holds the virtual IP
    changes    \* changes by the user so far

caches == <<lbSeen, setsSeen, dirty>>
vars == <<lb, sets, lbSeen, setsSeen, dirty, known, machines, vip, changes>>

(***************************************************************************)
(* hasMaster is the condition HasKeepalivedMaster of a set.  aged says that*)
(* LBSetHasKeepalivedMaster would return true: the LastTransitionTime lies *)
(* 2 minutes (True) or 10 minutes (False) back, or the set is 15 minutes   *)
(* old and has no such condition.  spec is the hash of the LoadBalancer    *)
(* whose infrastructure, port and server group the template has.           *)
(***************************************************************************)
Replicas == 0 .. MaxReplicas
LBObject == [want : Hash, replicas : Replicas, rev : Nat,
             status : [replicas : Nat, ready : Nat]]
SetObject == [exists : BOOLEAN, rev : Nat, spec : Hash \cup {NoHash},
              replicas : Replicas, statusReplicas : Replicas, ready : Nat,
              hasMaster : {"unset", "True", "False"}, aged : BOOLEAN]
NotCached == -1

NoSet == [exists |-> FALSE, rev |-> 0, spec |-> NoHash, replicas |-> 0,
          statusReplicas |-> 0, ready |-> 0, hasMaster |-> "unset", aged |-> FALSE]

TypeOK ==
    /\ lb \in LBObject /\ lbSeen \in LBObject
    /\ sets \in [Hash -> SetObject] /\ setsSeen \in [Hash -> SetObject]
    /\ dirty \subseteq {"lb", "sets"}
    /\ known \in [Hash -> Replicas \cup {NotCached}]
    /\ machines \in [Machine -> [st : {"absent", "live", "deleting"}, ready : BOOLEAN,
                                 claim : BOOLEAN, set : Hash \cup {NoHash}]]
    /\ vip \in Machine \cup {NoMachine}
    /\ changes \in 0 .. MaxChanges

-----------------------------------------------------------------------------
(***************************************************************************)
(* reconcileLoadBalancerSet                                                *)
(***************************************************************************)
LBReconciles == PromptCaches => dirty = {}

Written == dirty \cup {k \in {"lb"} : lb' # lb} \cup {k \in {"sets"} : sets' # sets}

SeenSets == {h \in Hash : setsSeen[h].exists}

UnincrementedRevisions ==
    {n \in {1} \cup {setsSeen[h].rev : h \in SeenSets} : \A h \in SeenSets : setsSeen[h].rev <= n}

\* GetNextRevisionForLoadBalancer: one more than the highest revision listed
NextRevisions ==
    {n \in {1} \cup {setsSeen[h].rev + 1 : h \in SeenSets} :
        \A h \in SeenSets : setsSeen[h].rev < n}

PatchLoadBalancerRevisionOnce(rev) == IF lb.rev = 0 THEN [lb EXCEPT !.rev = rev] ELSE lb

PatchLoadBalancerRevision(rev) == [lb EXCEPT !.rev = rev]

\* A LoadBalancer without a revision only gets one.
InitRevision ==
    /\ LBReconciles
    /\ lbSeen.rev = 0
    /\ lb' = PatchLoadBalancerRevision(1) /\ UNCHANGED sets
    /\ dirty' = Written
    /\ UNCHANGED <<lbSeen, setsSeen, known, machines, vip, changes>>

StatusReplicasFromSetList ==
    [replicas |-> MapThenSumSet(LAMBDA h : setsSeen[h].statusReplicas, SeenSets),
     ready |-> MapThenSumSet(LAMBDA h : setsSeen[h].ready, SeenSets)]

PatchedStatus(cached) ==
    [replicas |-> Patched(lb.status.replicas, cached.replicas, StatusReplicasFromSetList.replicas),
     ready |-> Patched(lb.status.ready, cached.ready, StatusReplicasFromSetList.ready)]

NewSetWithSurge(rev) ==
    [NoSet EXCEPT !.exists = TRUE, !.rev = rev, !.spec = lb.want, !.replicas = lb.replicas + 1]

NewSetLikeLast(rev) ==
    [NoSet EXCEPT !.exists = TRUE, !.rev = rev, !.replicas = lb.replicas,
                  !.spec = IF SeenSets = {} THEN lb.want
                           ELSE setsSeen[CHOOSE h \in SeenSets : setsSeen[h].rev = rev - 1].spec]

\* The patches of the revision and of the status return the LoadBalancer as it
\* is in the API server, and the reconcile goes on with that machine spec and those
\* replicas; the hash was computed from the cached one.
NewLoadBalancerSetForLoadBalancer(rev) ==
    [NoSet EXCEPT !.exists = TRUE, !.rev = rev, !.spec = lb.want, !.replicas = lb.replicas]

\* No set for the hash is listed: patch the revision and create the set.  The
\* creation fails when there is a set of that name.  The new set has no status
\* yet, so the reconcile ends when the status of the LoadBalancer is patched.
CreateSet ==
    /\ LBReconciles
    /\ lbSeen.rev # 0 /\ ~setsSeen[lbSeen.want].exists
    /\ \E rev \in NextRevisions :
        \/ /\ ~sets[lbSeen.want].exists
           /\ sets' = [sets EXCEPT ![lbSeen.want] = NewLoadBalancerSetForLoadBalancer(rev)]
           /\ lb' = [PatchLoadBalancerRevision(rev) EXCEPT !.status = PatchedStatus(lb.status)]
        \/ /\ sets[lbSeen.want].exists \/ ApiErrors
           /\ lb' = PatchLoadBalancerRevision(rev)
           /\ UNCHANGED sets
    /\ dirty' = Written
    /\ UNCHANGED <<lbSeen, setsSeen, known, machines, vip, changes>>

\* The current set after its replicas were set if they differ from the desired
\* ones: the answer to that patch replaces the cached copy.
MustScale == setsSeen[lbSeen.want].replicas # lb.replicas
CurrentSet == IF MustScale THEN sets[lbSeen.want] ELSE setsSeen[lbSeen.want]

MasterWithoutDelay(set) == TRUE

MasterWithoutFallback(set) == set.hasMaster = "True" /\ set.aged

LBSetHasKeepalivedMaster(set) == set.aged

CurrentSetHasReplicas ==
    /\ CurrentSet.statusReplicas = lb.replicas
    /\ LBSetHasKeepalivedMaster(CurrentSet)

\* All replicas of the current set are ready and it has the keepalived master.
CurrentSetIsReady ==
    /\ CurrentSet.statusReplicas = lb.replicas
    /\ CurrentSet.ready = lb.replicas
    /\ LBSetHasKeepalivedMaster(CurrentSet)

\* ScaleDownOldLoadBalancerSets over the list from the cache; an error ends it
\* early and is not reported.
OldSets == {h \in SeenSets \ {lbSeen.want} : setsSeen[h].replicas > 0}

SetReplicas(S) ==
    sets' = [h \in Hash |->
               IF h \in S THEN [sets[h] EXCEPT !.replicas = 0]
               ELSE IF h = lbSeen.want /\ MustScale THEN [sets[h] EXCEPT !.replicas = lb.replicas]
               ELSE sets[h]]

UpdateSets(S) ==
    /\ lb' = [lb EXCEPT !.status = PatchedStatus(lbSeen.status)]
    /\ SetReplicas(S)
    /\ dirty' = Written
    /\ UNCHANGED <<lbSeen, setsSeen, known, machines, vip, changes>>

HasCurrentSet == LBReconciles /\ lbSeen.rev # 0 /\ setsSeen[lbSeen.want].exists

WaitForCurrentSet ==
    /\ HasCurrentSet
    /\ ~CurrentSetIsReady
    /\ UpdateSets({})

ScaleDownOldLoadBalancerSets ==
    /\ HasCurrentSet
    /\ CurrentSetIsReady
    /\ \E S \in IF ApiErrors THEN SUBSET OldSets ELSE {OldSets} : UpdateSets(S)

ReconcileLB == InitRevision \/ CreateSet \/ WaitForCurrentSet \/ ScaleDownOldLoadBalancerSets

-----------------------------------------------------------------------------
(***************************************************************************)
(* The set controller                                                      *)
(***************************************************************************)
MachinesOf(h) ==
    [m \in Machine |-> IF machines[m].set = h THEN machines[m] ELSE AbsentMachine]

\* The status that a reconcile of the set h writes.  A condition that changes
\* gets a new LastTransitionTime.
SetStatus(h) ==
    LET master == IF hasKeepalivedMaster(MachinesOf(h)) THEN "True" ELSE "False"
    IN  [sets[h] EXCEPT !.statusReplicas = known[h],
                        !.ready = readyMachineCount(MachinesOf(h)),
                        !.hasMaster = master,
                        !.aged = sets[h].aged /\ sets[h].hasMaster = master]

FreshNames == {m \in Machine : machines[m].st = "absent"}

NewMachine(h) == [st |-> "live", ready |-> FALSE, claim |-> FALSE, set |-> h]

ReconcileReplicas(h) ==
    \/ /\ NeedsMachine(MachinesOf(h), known[h])
       /\ \E m \in FreshNames : machines' = [machines EXCEPT ![m] = NewMachine(h)]
    \/ /\ HasSurplus(MachinesOf(h), known[h])
       /\ \E m \in MachinesForDeletion(MachinesOf(h)) :
             machines' = [machines EXCEPT ![m].st = "deleting"]
    \/ /\ ~NeedsMachine(MachinesOf(h), known[h]) /\ ~HasSurplus(MachinesOf(h), known[h])
       /\ UNCHANGED machines

ReconcileSet(h) ==
    /\ sets[h].exists /\ known[h] # NotCached
    /\ ReconcileReplicas(h)
    /\ sets' = [sets EXCEPT ![h] = SetStatus(h)]
    /\ UNCHANGED <<lb, caches, known, vip, changes>>

-----------------------------------------------------------------------------
(***************************************************************************)
(* The environment: the user, the informers, time, machines, keepalived    *)
(***************************************************************************)
ChangeSpec(h) ==
    /\ changes < MaxChanges /\ changes' = changes + 1
    /\ h # lb.want
    /\ Rollback \/ ~sets[h].exists
    /\ lb' = [lb EXCEPT !.want = h]
    /\ UNCHANGED <<sets, caches, known, machines, vip>>

ChangeReplicas(n) ==
    /\ changes < MaxChanges /\ changes' = changes + 1
    /\ n # lb.replicas
    /\ lb' = [lb EXCEPT !.replicas = n]
    /\ UNCHANGED <<sets, caches, known, machines, vip>>

RefreshLB ==
    /\ lbSeen' = lb /\ dirty' = dirty \ {"lb"}
    /\ UNCHANGED <<lb, sets, setsSeen, known, machines, vip, changes>>

RefreshSets ==
    /\ setsSeen' = sets /\ dirty' = dirty \ {"sets"}
    /\ UNCHANGED <<lb, sets, lbSeen, known, machines, vip, changes>>

RefreshSet(h) ==
    /\ sets[h].exists
    /\ known' = [known EXCEPT ![h] = sets[h].replicas]
    /\ UNCHANGED <<lb, sets, caches, machines, vip, changes>>

\* The yawollet reports that the machine works and the state of keepalived.
Report(m) ==
    /\ machines[m].st # "absent"
    /\ machines' = [machines EXCEPT ![m].ready = TRUE, ![m].claim = (vip = m)]
    /\ UNCHANGED <<lb, sets, caches, known, vip, changes>>

\* The yawollet's readyz fails unless the machine has the revision of the
\* LoadBalancer; keepalived then lacks the weight of that check.
RevisionReady(m) == machines[m].ready /\ sets[machines[m].set].rev = lb.rev

Priority(m) == IF RevisionReady(m) THEN 160 ELSE 150

\* keepalived: a machine with envoy running takes over when nobody holds the
\* virtual IP or it has a higher priority than the holder.
MayElect(m) ==
    /\ machines[m].st # "absent" /\ machines[m].ready
    /\ vip # m
    /\ vip # NoMachine => Priority(m) > Priority(vip)

Elect(m) ==
    /\ MayElect(m)
    /\ vip' = m
    /\ UNCHANGED <<lb, sets, caches, known, machines, changes>>

\* The threshold of LBSetHasKeepalivedMaster passes for the set and for the
\* cached copy, or only for a cached copy with an older condition.  keepalived
\* takes seconds to elect, the thresholds are minutes.
Age(h) ==
    /\ sets[h].exists
    /\ \A m \in Machine : ~MayElect(m)
    /\ sets' = [sets EXCEPT ![h].aged = TRUE]
    /\ setsSeen' = [setsSeen EXCEPT ![h].aged = setsSeen[h].exists]
    /\ UNCHANGED <<lb, lbSeen, dirty, known, machines, vip, changes>>

AgeCached(h) ==
    /\ setsSeen[h].exists /\ setsSeen[h].hasMaster # sets[h].hasMaster
    /\ setsSeen' = [setsSeen EXCEPT ![h].aged = TRUE]
    /\ UNCHANGED <<lb, lbSeen, dirty, sets, known, machines, vip, changes>>

MachineGone(m) ==
    /\ machines[m].st = "deleting"
    /\ machines' = [machines EXCEPT ![m] = [st |-> "absent", ready |-> FALSE,
                                            claim |-> FALSE, set |-> NoHash]]
    /\ vip' = IF vip = m THEN NoMachine ELSE vip
    /\ UNCHANGED <<lb, sets, caches, known, changes>>

-----------------------------------------------------------------------------
Init ==
    /\ \E h \in Hash, n \in Replicas \ {0} :
          lb = [want |-> h, replicas |-> n, rev |-> 0, status |-> [replicas |-> 0, ready |-> 0]]
    /\ lbSeen = lb
    /\ sets = [h \in Hash |-> NoSet] /\ setsSeen = sets
    /\ dirty = {}
    /\ known = [h \in Hash |-> NotCached]
    /\ machines = [m \in Machine |-> [st |-> "absent", ready |-> FALSE,
                                      claim |-> FALSE, set |-> NoHash]]
    /\ vip = NoMachine
    /\ changes = 0

Next ==
    \/ ReconcileLB \/ RefreshLB \/ RefreshSets
    \/ \E h \in Hash :
          ReconcileSet(h) \/ RefreshSet(h) \/ Age(h) \/ AgeCached(h) \/ ChangeSpec(h)
    \/ \E n \in Replicas \ {0} : ChangeReplicas(n)
    \/ \E m \in Machine : Report(m) \/ Elect(m) \/ MachineGone(m)

Spec == Init /\ [][Next]_vars

(***************************************************************************)
(* Controllers requeue, informers catch up, time passes, VMs boot, report  *)
(* and are removed in the end, keepalived elects.                          *)
(***************************************************************************)
Fairness ==
    /\ WF_vars(ReconcileLB) /\ WF_vars(RefreshLB) /\ WF_vars(RefreshSets)
    /\ \A h \in Hash : WF_vars(ReconcileSet(h)) /\ WF_vars(RefreshSet(h)) /\ WF_vars(Age(h))
    /\ \A m \in Machine : WF_vars(Report(m)) /\ WF_vars(Elect(m)) /\ WF_vars(MachineGone(m))

FairSpec == Spec /\ Fairness

-----------------------------------------------------------------------------
(***************************************************************************)
(* Properties                                                              *)
(***************************************************************************)
ReadyMachines == {m \in Machine : machines[m].st = "live" /\ machines[m].ready}

\* reconcileLoadBalancerSet scales the old sets down "to ensure no downtime":
\* once a machine serves, there is always one, since machines do not fail here.
NoDowntime == [][ReadyMachines # {} => ReadyMachines' # {}]_vars

\* Except for the fallback when the current set has had no master for 10
\* minutes, the set that the virtual IP is in is not scaled down: the virtual
\* IP has moved to the current set before (LBSetHasKeepalivedMaster).
Fallback == CurrentSet.hasMaster # "True" /\ CurrentSet.aged
VipIsHandedOver ==
    [][\A h \in Hash :
         sets[h].replicas > 0 /\ sets'[h].replicas = 0
         => vip = NoMachine \/ machines[vip].set # h \/ Fallback]_vars

\* When the spec does not change any more, the rollout ends: the current set
\* has the replicas asked for, the others have no machine left, and the status
\* of the LoadBalancer says so.
RolloutDone ==
    /\ sets[lb.want].exists /\ sets[lb.want].replicas = lb.replicas
    /\ \A m \in Machine : machines[m].st # "absent" => machines[m].set = lb.want
    /\ lb.status.replicas = lb.replicas /\ lb.status.ready = lb.replicas
RolloutCompletes == <>[]RolloutDone

\* main.go of the yawollet: the readyz checks pass for machines "for the latest
\* LoadBalancer revision (i.e., when the machine belongs to the current
\* LoadBalancerSet)".  So the current set, and no other, has that revision when the
\* rollout is over, although the revision comes from a cached list of sets.
CurrentSetHasLatestRevision ==
    RolloutDone => {h \in Hash : sets[h].exists /\ sets[h].rev = lb.rev} = {lb.want}

\* When the rollout is over, the machines are built from the spec of the
\* LoadBalancer, although a set gets its name from the cached LoadBalancer and its
\* template from the one that the patch of the revision returned, which may have
\* another spec.  The set with the wrong template is never the current one, unless
\* the user goes back to the spec that it is named after.
MachinesHaveCurrentSpec == RolloutDone /\ ~Rollback => sets[lb.want].spec = lb.want

=============================================================================
