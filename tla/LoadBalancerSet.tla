-------------------------- MODULE LoadBalancerSet --------------------------
(***************************************************************************)
(* The LoadBalancerSet controller and the machines of one set:             *)
(* LoadBalancerSetReconciler.Reconcile with reconcileReplicas, patchStatus *)
(* and deletionRoutine.  The controller reads the set and its machines     *)
(* from informer caches.  The LoadBalancer controller (scaling, deletion), *)
(* the LBMStatusReconciler (deletes bad machines), the LoadBalancerMachine *)
(* controller (finishes a deletion), the yawollets (readiness, keepalived  *)
(* status) and the Kubernetes garbage collector are the environment.       *)
(***************************************************************************)
EXTENDS ReplicaControl

CONSTANTS
    MaxReplicas,     \* bound on spec.replicas
    MaxChanges,      \* bound on disturbances by the environment
    ReadYourWrites,  \* TRUE: the caches have caught up with the writes of a
                     \* reconcile before the next one starts
    ApiErrors        \* TRUE: single requests to the API server may fail

ASSUME SetAssumption ==
    /\ IsFiniteSet(Machine)
    /\ MaxReplicas \in Nat /\ MaxChanges \in Nat
    /\ ReadYourWrites \in BOOLEAN /\ ApiErrors \in BOOLEAN

VARIABLES
    set,       \* the LoadBalancerSet in the API server
    machines,  \* its LoadBalancerMachines in the API server
    seenSet,   \* the set in the cache of the controller
    seen,      \* the machines in the cache of the controller
    dirty,     \* the controller has written since the last cache update
    peak,      \* history: the most replicas ever asked for
    changes    \* disturbances so far

vars == <<set, machines, seenSet, seen, dirty, peak, changes>>

SetStatus == [replicas : 0 .. MaxReplicas, ready : Nat,
              hasMaster : {"unset", "True", "False"}]
SetObject == [exists : BOOLEAN, deleting : BOOLEAN, finalizer : BOOLEAN,
              replicas : 0 .. MaxReplicas, status : SetStatus]

NewSet(n) == [exists |-> TRUE, deleting |-> FALSE, finalizer |-> FALSE, replicas |-> n,
              status |-> [replicas |-> 0, ready |-> 0, hasMaster |-> "unset"]]

TypeOK ==
    /\ set \in SetObject /\ seenSet \in SetObject
    /\ machines \in View /\ seen \in View
    /\ dirty \in BOOLEAN
    /\ peak \in 0 .. MaxReplicas
    /\ changes \in 0 .. MaxChanges

-----------------------------------------------------------------------------
(***************************************************************************)
(* Reconcile of a set that is not being deleted, as the cache shows it     *)
(***************************************************************************)
MayReconcile == seenSet.exists /\ (ReadYourWrites => ~dirty)

\* AddFinalizerIfNeeded; the error is ignored.  The API server accepts no new
\* finalizer on an object that is being deleted.
AddFinalizer(s) ==
    IF seenSet.finalizer \/ ~s.exists \/ s.deleting THEN {s}
    ELSE {[s EXCEPT !.finalizer = TRUE]} \cup (IF ApiErrors THEN {s} ELSE {})

PatchStatusOnce(s) ==
    IF ~s.exists \/ s.status.hasMaster # "unset" THEN s
    ELSE [s EXCEPT !.status = [replicas |-> seenSet.replicas,
                               ready |-> readyMachineCount(seen),
                               hasMaster |-> "False"]]

patchStatus(s) ==
    IF ~s.exists THEN s
    ELSE [s EXCEPT !.status =
        [replicas |-> Patched(s.status.replicas, seenSet.status.replicas, seenSet.replicas),
         ready |-> Patched(s.status.ready, seenSet.status.ready, readyMachineCount(seen)),
         hasMaster |-> Patched(s.status.hasMaster, seenSet.status.hasMaster,
                               IF hasKeepalivedMaster(seen) THEN "True" ELSE "False")]]

\* Names are drawn at random: the new one is not in use anywhere.
FreshNames == {m \in Machine : machines[m].st = "absent" /\ seen[m].st = "absent"}

DeleteMachine(v, m) == IF v[m].st = "live" THEN [v EXCEPT ![m].st = "deleting"] ELSE v

DeleteMachines(v, S) ==
    [m \in Machine |-> IF m \in S /\ v[m].st = "live"
                         THEN [v[m] EXCEPT !.st = "deleting"] ELSE v[m]]

\* reconcileReplicas: at most one machine is created or deleted.  Its error is
\* not returned when the status can be patched.
CreateMachine ==
    /\ NeedsMachine(seen, seenSet.replicas)
    /\ \E m \in FreshNames : machines' = [machines EXCEPT ![m] = CreatedMachine]

ScaleDown ==
    /\ HasSurplus(seen, seenSet.replicas)
    /\ \E m \in MachinesForDeletion(seen) : machines' = DeleteMachine(machines, m)

KeepReplicas ==
    /\ \/ ~NeedsMachine(seen, seenSet.replicas) /\ ~HasSurplus(seen, seenSet.replicas)
       \/ ApiErrors
    /\ UNCHANGED machines

FinishReconcile ==
    /\ \E s \in AddFinalizer(set) : set' = patchStatus(s)
    /\ dirty' = (dirty \/ set' # set \/ machines' # machines)
    /\ UNCHANGED <<seenSet, seen, peak, changes>>

ReconcileUp == MayReconcile /\ ~seenSet.deleting /\ CreateMachine /\ FinishReconcile
ReconcileDown == MayReconcile /\ ~seenSet.deleting /\ ScaleDown /\ FinishReconcile
ReconcileKeep == MayReconcile /\ ~seenSet.deleting /\ KeepReplicas /\ FinishReconcile

-----------------------------------------------------------------------------
(***************************************************************************)
(* deletionRoutine                                                         *)
(***************************************************************************)
deleteReadyMachines ==
    /\ MayReconcile /\ seenSet.deleting /\ seenSet.finalizer
    /\ machines' = DeleteMachines(machines, ReadyLive(seen))
    /\ dirty' = (dirty \/ machines' # machines)
    /\ UNCHANGED <<set, seenSet, seen, peak, changes>>

deleteAllMachines ==
    /\ MayReconcile /\ seenSet.deleting /\ seenSet.finalizer
    /\ \E S \in IF ApiErrors THEN SUBSET Existing(seen) ELSE {Existing(seen)} :
          machines' = DeleteMachines(machines, S)
    /\ dirty' = (dirty \/ machines' # machines)
    /\ UNCHANGED <<set, seenSet, seen, peak, changes>>

RemoveFinalizerAtOnce ==
    /\ MayReconcile /\ seenSet.deleting
    /\ Live(seen) = {}
    /\ set.exists /\ seenSet.finalizer
    /\ set' = [set EXCEPT !.exists = FALSE, !.finalizer = FALSE]
    /\ dirty' = TRUE
    /\ UNCHANGED <<machines, seenSet, seen, peak, changes>>

\* The list after deleteAllMachines is empty: the finalizer is removed and the
\* API server drops the object.
RemoveFinalizer ==
    /\ MayReconcile /\ seenSet.deleting
    /\ Existing(seen) = {}
    /\ set.exists /\ seenSet.finalizer
    /\ set' = [set EXCEPT !.exists = FALSE, !.finalizer = FALSE]
    /\ dirty' = TRUE
    /\ UNCHANGED <<machines, seenSet, seen, peak, changes>>

-----------------------------------------------------------------------------
(***************************************************************************)
(* The environment                                                         *)
(***************************************************************************)
Refresh ==
    /\ seenSet' = set /\ seen' = machines
    /\ dirty' = FALSE
    /\ UNCHANGED <<set, machines, peak, changes>>

Disturb == changes < MaxChanges /\ changes' = changes + 1

\* PatchLoadBalancerSetReplicas by the LoadBalancer controller
Scale(n) ==
    /\ Disturb
    /\ set.exists /\ ~set.deleting
    /\ set' = [set EXCEPT !.replicas = n]
    /\ peak' = IF n > peak THEN n ELSE peak
    /\ UNCHANGED <<machines, seenSet, seen, dirty>>

\* deletionRoutine of the LoadBalancer controller: without a finalizer the
\* object disappears at once.
DeleteSet ==
    /\ Disturb
    /\ set.exists /\ ~set.deleting
    /\ set' = [set EXCEPT !.deleting = TRUE, !.exists = set.finalizer]
    /\ UNCHANGED <<machines, seenSet, seen, dirty, peak>>

\* The yawollet reports readiness and the keepalived state.
Report(m) ==
    /\ machines[m].st # "absent"
    /\ \E master \in BOOLEAN : machines' = [machines EXCEPT ![m].ready = TRUE, ![m].claim = master]
    /\ UNCHANGED <<set, seenSet, seen, dirty, peak, changes>>

LoseReadiness(m) ==
    /\ Disturb
    /\ machines[m].st # "absent" /\ machines[m].ready
    /\ machines' = [machines EXCEPT ![m].ready = FALSE]
    /\ UNCHANGED <<set, seenSet, seen, dirty, peak>>

\* LBMStatusReconciler deletes a machine.
StatusDelete(m) ==
    /\ Disturb
    /\ machines[m].st = "live"
    /\ machines' = DeleteMachine(machines, m)
    /\ UNCHANGED <<set, seenSet, seen, dirty, peak>>

\* The LoadBalancerMachine controller has deleted server and port.
MachineGone(m) ==
    /\ machines[m].st = "deleting"
    /\ machines' = [machines EXCEPT ![m] = AbsentMachine]
    /\ UNCHANGED <<set, seenSet, seen, dirty, peak, changes>>

\* The owner reference of a machine points to a set that is gone.
GarbageCollect(m) ==
    /\ ~set.exists /\ machines[m].st = "live"
    /\ machines' = DeleteMachine(machines, m)
    /\ UNCHANGED <<set, seenSet, seen, dirty, peak, changes>>

-----------------------------------------------------------------------------
Init ==
    /\ \E n \in 0 .. MaxReplicas : set = NewSet(n) /\ seenSet = NewSet(n) /\ peak = n
    /\ machines = NoMachines /\ seen = NoMachines
    /\ dirty = FALSE /\ changes = 0

Controller ==
    ReconcileUp \/ ReconcileDown \/ ReconcileKeep \/ deleteAllMachines \/ RemoveFinalizer

Environment ==
    \/ Refresh \/ DeleteSet
    \/ \E n \in 0 .. MaxReplicas : Scale(n)
    \/ \E m \in Machine :
          Report(m) \/ LoseReadiness(m) \/ StatusDelete(m) \/ MachineGone(m) \/ GarbageCollect(m)

Next == Controller \/ Environment

Spec == Init /\ [][Next]_vars

(***************************************************************************)
(* The set is requeued every 2 or 10 seconds, informers catch up, the      *)
(* other controllers and the garbage collector finish what they started.   *)
(* Nothing is assumed of the yawollets.                                    *)
(***************************************************************************)
Fairness ==
    /\ WF_vars(Controller)
    /\ WF_vars(Refresh)
    /\ \A m \in Machine : WF_vars(MachineGone(m)) /\ WF_vars(GarbageCollect(m))

FairSpec == Spec /\ Fairness

-----------------------------------------------------------------------------
(***************************************************************************)
(* Properties                                                              *)
(***************************************************************************)

\* deletionRoutine takes the finalizer off, and so lets the set go, only when
\* the API server has no machine of the set any more, not even one that is
\* still being deleted.
FinalizerOutlivesMachines ==
    [][(set.exists /\ set.finalizer /\ ~set'.exists) => Existing(machines) = {}]_vars

\* Creating machines one by one never yields more machines, those being
\* deleted included, than were ever asked for: names are random, so nothing
\* but the list read before stops a reconcile from creating one too many.
NeverMoreThanAsked == Cardinality(Existing(machines)) <= peak

\* A scale down decided on an accurate list never takes a ready machine away
\* below the replicas asked for (findFirstMachineForDeletion).
ScaleDownKeepsReadyMachines ==
    [][(ReconcileDown /\ seen = machines /\ seenSet = set) =>
         \/ Cardinality(ReadyLive(machines')) >= set.replicas
         \/ ReadyLive(machines') = ReadyLive(machines)]_vars

\* When nothing changes any more, a set that stays ends with as many live
\* machines as asked for and a status that says so.
Settled ==
    /\ Cardinality(Live(machines)) = set.replicas
    /\ Existing(machines) = Live(machines)
    /\ set.status.replicas = set.replicas
Converges == <>[](set.exists /\ ~set.deleting => Settled)

\* The machines of a deleted set all go away in the end, also when a lagging
\* cache let the set go first: then the garbage collector follows the owner
\* reference.
DeletedSetIsCleanedUp == (~set.exists \/ set.deleting) ~> (~set.exists /\ Existing(machines) = {})

=============================================================================
