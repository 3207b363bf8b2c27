--------------------------- MODULE ReplicaControl ---------------------------
(***************************************************************************)
(* What one reconcile of a LoadBalancerSet decides, as operators on a view *)
(* of its machines (controllers/yawol-controller/loadbalancerset/          *)
(* loadbalancerset_controller.go).  A view maps every machine name to the  *)
(* LoadBalancerMachine object of that name: whether it exists and has a    *)
(* DeletionTimestamp, whether isMachineReady holds of it, and whether its  *)
(* KeepalivedMaster condition is True.  How readiness follows from the     *)
(* conditions and their timestamps is the subject of MachineHealth.        *)
(***************************************************************************)
EXTENDS Integers, FiniteSets, KubernetesApi

CONSTANT Machine    \* names of machines

MachineObject == [st : {"absent", "live", "deleting"}, ready : BOOLEAN, claim : BOOLEAN]
View == [Machine -> MachineObject]

AbsentMachine == [st |-> "absent", ready |-> FALSE, claim |-> FALSE]
CreatedMachine == [st |-> "live", ready |-> FALSE, claim |-> FALSE]
NoMachines == [m \in Machine |-> AbsentMachine]

Existing(v) == {m \in Machine : v[m].st # "absent"}
Live(v) == {m \in Machine : v[m].st = "live"}
ReadyLive(v) == {m \in Live(v) : v[m].ready}

readyMachineCountLessDeleted(v) ==
    Cardinality(ReadyLive(v)) - Cardinality(Existing(v) \ Live(v))

\* The loop of Reconcile over the child machines
readyMachineCount(v) == Cardinality(ReadyLive(v))
hasKeepalivedMaster(v) == \E m \in Live(v) : v[m].claim

NeedsMachineIgnoringDeleted(v, replicas) == Cardinality(Live(v)) < replicas

\* reconcileReplicas: machines being deleted still count for the scale up ...
NeedsMachine(v, replicas) == Cardinality(Existing(v)) < replicas

\* ... but not for the scale down
HasSurplus(v, replicas) ==
    /\ ~NeedsMachine(v, replicas)
    /\ replicas < Cardinality(Live(v))

AnyMachineForDeletion(v) == Live(v)

\* findFirstMachineForDeletion: the list comes from an informer cache, in no
\* particular order, and includes the machines being deleted already.  A ready
\* machine has the condition KeepalivedMaster: the yawollet writes it in the same
\* patch as the others.
MachinesForDeletion(v) ==
    LET unready == {m \in Existing(v) : ~v[m].ready}
        backup == {m \in Existing(v) : ~v[m].claim}
    IN  IF unready # {} THEN unready
        ELSE IF backup # {} THEN backup
        ELSE Existing(v)

=============================================================================
