----------------------- MODULE LoadBalancerSet_proofs -----------------------
(***************************************************************************)
(* For every number of machines, replicas and disturbances: type           *)
(* correctness; and, when the caches catch up with the controller's own    *)
(* writes before it reconciles again, that a set never has more machines   *)
(* than were asked for and keeps its finalizer until its last machine is   *)
(* gone.  A scale down decided on an accurate list spares ready machines.  *)
(***************************************************************************)
EXTENDS LoadBalancerSet, FiniteSetTheorems, TLAPS

\* The sets of machines the controller counts are finite.
LEMMA ExistingFinite ==
  ASSUME NEW v \in View
  PROVE  /\ IsFiniteSet(Existing(v)) /\ Cardinality(Existing(v)) \in Nat
         /\ readyMachineCount(v) \in Nat
<1>1. Existing(v) \subseteq Machine /\ ReadyLive(v) \subseteq Machine
  BY DEF Existing, ReadyLive, Live
<1>2. IsFiniteSet(Existing(v)) /\ IsFiniteSet(ReadyLive(v))
  BY <1>1, SetAssumption, FS_Subset
<1> QED BY <1>2, FS_CardinalityType DEF readyMachineCount

\* Deleting machines turns a view into a view with the same machines.
LEMMA DeleteMachinesType ==
  ASSUME NEW v \in View, NEW S
  PROVE  DeleteMachines(v, S) \in View /\ Existing(DeleteMachines(v, S)) = Existing(v)
<1>1. ASSUME NEW m \in Machine
      PROVE  /\ DeleteMachines(v, S)[m] \in MachineObject
             /\ DeleteMachines(v, S)[m].st = "absent" <=> v[m].st = "absent"
  <2>1. v[m] \in MachineObject
    BY DEF View
  <2> QED BY <2>1 DEF DeleteMachines, MachineObject
<1>2. DeleteMachines(v, S) \in View
  BY <1>1 DEF View, DeleteMachines
<1> QED BY <1>1, <1>2 DEF Existing

\* So does deleting one of them.
LEMMA DeleteMachineType ==
  ASSUME NEW v \in View, NEW m \in Machine
  PROVE  DeleteMachine(v, m) \in View /\ Existing(DeleteMachine(v, m)) = Existing(v)
<1>1. DeleteMachine(v, m) \in View
  BY DEF DeleteMachine, View, MachineObject
<1>2. ASSUME NEW n \in Machine
      PROVE  DeleteMachine(v, m)[n].st = "absent" <=> v[n].st = "absent"
  BY DEF DeleteMachine, View, MachineObject
<1> QED BY <1>1, <1>2 DEF Existing

\* The patch of the status leaves replicas and existence of the set alone.
LEMMA SetPatchType ==
  ASSUME NEW s \in SetObject, seenSet \in SetObject, seen \in View
  PROVE  patchStatus(s) \in SetObject /\ patchStatus(s).replicas = s.replicas
                /\ patchStatus(s).exists = s.exists
<1>1. readyMachineCount(seen) \in Nat
  BY ExistingFinite
<1>2. Patched(s.status.replicas, seenSet.status.replicas, seenSet.replicas) \in 0 .. MaxReplicas
  BY DEF Patched, SetObject, SetStatus
<1>3. Patched(s.status.ready, seenSet.status.ready, readyMachineCount(seen)) \in Nat
  BY <1>1 DEF Patched, SetObject, SetStatus
<1>4. Patched(s.status.hasMaster, seenSet.status.hasMaster,
              IF hasKeepalivedMaster(seen) THEN "True" ELSE "False") \in {"unset", "True", "False"}
  BY DEF Patched, SetObject, SetStatus
<1>5. CASE ~s.exists
  BY <1>5 DEF patchStatus
<1>6. CASE s.exists
  BY <1>6, <1>2, <1>3, <1>4 DEF patchStatus, SetObject, SetStatus
<1> QED BY <1>5, <1>6

\* What a reconcile does to the set object, whatever it does to machines.
LEMMA FinishType ==
  ASSUME TypeOK, FinishReconcile
  PROVE  set' \in SetObject /\ set'.replicas = set.replicas /\ set'.exists = set.exists
         /\ dirty' \in BOOLEAN
<1>1. PICK s \in AddFinalizer(set) : set' = patchStatus(s)
  BY DEF FinishReconcile
<1>2. s \in SetObject /\ s.replicas = set.replicas /\ s.exists = set.exists
  BY <1>1 DEF AddFinalizer, TypeOK, SetObject
<1>3. set' \in SetObject /\ set'.replicas = set.replicas /\ set'.exists = set.exists
  BY <1>1, <1>2, SetPatchType DEF TypeOK
<1>4. dirty' \in BOOLEAN
  BY Zenon DEF FinishReconcile
<1> QED BY <1>3, <1>4

\* What the steps of the controller do to the machines in the API server.
LEMMA ControllerMachines ==
  ASSUME TypeOK, Controller
  PROVE  /\ machines' \in View
         /\ \/ Existing(machines') = Existing(machines)
            \/ /\ MayReconcile /\ NeedsMachine(seen, seenSet.replicas)
               /\ dirty' = TRUE
               /\ \E m \in Machine : Existing(machines') = Existing(machines) \cup {m}
<1> USE DEF TypeOK
<1>1. CASE ReconcileUp
  <2>1. PICK m \in FreshNames : machines' = [machines EXCEPT ![m] = CreatedMachine]
    BY <1>1 DEF ReconcileUp, CreateMachine
  <2>2. m \in Machine /\ machines[m].st = "absent"
    BY DEF FreshNames
  <2>3. machines' \in View /\ machines'[m].st = "live"
        /\ \A n \in Machine \ {m} : machines'[n] = machines[n]
    BY <2>1, <2>2 DEF View, MachineObject, CreatedMachine
  <2>4. Existing(machines') = Existing(machines) \cup {m}
    BY <2>2, <2>3 DEF Existing
  <2>5. dirty' = TRUE
    <3>1. machines' # machines
      BY <2>2, <2>3
    <3>2. dirty' = (dirty \/ set' # set \/ machines' # machines)
      BY <1>1 DEF ReconcileUp, FinishReconcile
    <3> QED BY <3>1, <3>2, Zenon
  <2>6. MayReconcile /\ NeedsMachine(seen, seenSet.replicas)
    BY <1>1 DEF ReconcileUp, CreateMachine
  <2> QED BY <2>2, <2>3, <2>4, <2>5, <2>6
<1>2. CASE ReconcileDown
  <2>1. PICK m \in MachinesForDeletion(seen) : machines' = DeleteMachine(machines, m)
    BY <1>2 DEF ReconcileDown, ScaleDown
  <2>2. m \in Machine
    BY DEF MachinesForDeletion, Existing
  <2> QED BY <2>1, <2>2, DeleteMachineType
<1>3. CASE ReconcileKeep
  BY <1>3 DEF ReconcileKeep, KeepReplicas
<1>4. CASE deleteAllMachines
  BY <1>4, DeleteMachinesType DEF deleteAllMachines
<1>5. CASE RemoveFinalizer
  BY <1>5 DEF RemoveFinalizer
<1> QED BY <1>1, <1>2, <1>3, <1>4, <1>5 DEF Controller

\* What the steps of the environment do to the machines in the API server.
LEMMA EnvironmentMachines ==
  ASSUME TypeOK, Environment
  PROVE  machines' \in View /\ Existing(machines') \subseteq Existing(machines)
<1> USE DEF TypeOK
<1>1. CASE Refresh \/ DeleteSet \/ \E n \in 0 .. MaxReplicas : Scale(n)
  BY <1>1 DEF Refresh, DeleteSet, Scale
<1>2. ASSUME NEW m \in Machine, Report(m)
      PROVE  machines' \in View /\ Existing(machines') \subseteq Existing(machines)
  <2>1. PICK b \in BOOLEAN : machines' = [machines EXCEPT ![m].ready = TRUE, ![m].claim = b]
    BY <1>2 DEF Report
  <2>2. machines' = [machines EXCEPT ![m] = [machines[m] EXCEPT !.ready = TRUE, !.claim = b]]
    BY <2>1
  <2>3. [machines[m] EXCEPT !.ready = TRUE, !.claim = b] \in MachineObject
        /\ [machines[m] EXCEPT !.ready = TRUE, !.claim = b].st = machines[m].st
    BY DEF View, MachineObject
  <2> QED BY <2>2, <2>3 DEF View, Existing
<1>3. ASSUME NEW m \in Machine, LoseReadiness(m)
      PROVE  machines' \in View /\ Existing(machines') \subseteq Existing(machines)
  BY <1>3 DEF LoseReadiness, View, MachineObject, Existing
<1>4. ASSUME NEW m \in Machine, StatusDelete(m) \/ GarbageCollect(m)
      PROVE  machines' \in View /\ Existing(machines') \subseteq Existing(machines)
  BY <1>4, DeleteMachineType DEF StatusDelete, GarbageCollect
<1>5. ASSUME NEW m \in Machine, MachineGone(m)
      PROVE  machines' \in View /\ Existing(machines') \subseteq Existing(machines)
  BY <1>5 DEF MachineGone, View, MachineObject, AbsentMachine, Existing
<1> QED BY <1>1, <1>2, <1>3, <1>4, <1>5 DEF Environment

-----------------------------------------------------------------------------
\* Type correctness of one step.
LEMMA TypeStep == TypeOK /\ [Next]_vars => TypeOK'
<1> SUFFICES ASSUME TypeOK, [Next]_vars
             PROVE  TypeOK'
  OBVIOUS
<1>1. CASE ReconcileUp \/ ReconcileDown \/ ReconcileKeep
  <2>1. FinishReconcile
    BY <1>1 DEF ReconcileUp, ReconcileDown, ReconcileKeep
  <2>2. machines' \in View
    BY <1>1, ControllerMachines DEF Controller
  <2>3. set' \in SetObject /\ dirty' \in BOOLEAN
    BY <2>1, FinishType
  <2> QED BY <2>1, <2>2, <2>3, Zenon DEF FinishReconcile, TypeOK
<1>2. CASE deleteAllMachines
  <2>1. machines' \in View
    BY <1>2, ControllerMachines DEF Controller
  <2>2. dirty' \in BOOLEAN
    BY <1>2, Zenon DEF deleteAllMachines
  <2> QED BY <1>2, <2>1, <2>2, Zenon DEF deleteAllMachines, TypeOK
<1>3. CASE RemoveFinalizer
  <2>1. set' \in SetObject
    BY <1>3 DEF RemoveFinalizer, TypeOK, SetObject
  <2>2. dirty' \in BOOLEAN
    BY <1>3, Zenon DEF RemoveFinalizer
  <2> QED BY <1>3, <2>1, <2>2, Zenon DEF RemoveFinalizer, TypeOK
<1>4. CASE Refresh
  <2>1. dirty' \in BOOLEAN
    BY <1>4, Zenon DEF Refresh
  <2> QED BY <1>4, <2>1, Zenon DEF Refresh, TypeOK
<1>5. CASE DeleteSet
  <2>1. set' \in SetObject
    BY <1>5 DEF DeleteSet, TypeOK, SetObject
  <2>2. changes' \in 0 .. MaxChanges
    BY <1>5, SetAssumption DEF DeleteSet, Disturb, TypeOK
  <2> QED BY <1>5, <2>1, <2>2, Zenon DEF DeleteSet, TypeOK
<1>6. ASSUME NEW n \in 0 .. MaxReplicas, Scale(n)
      PROVE  TypeOK'
  <2>1. set' \in SetObject
    BY <1>6 DEF Scale, TypeOK, SetObject
  <2>2. changes' \in 0 .. MaxChanges /\ peak' \in 0 .. MaxReplicas
    BY <1>6, SetAssumption DEF Scale, Disturb, TypeOK
  <2> QED BY <1>6, <2>1, <2>2, Zenon DEF Scale, TypeOK
<1>7. ASSUME NEW m \in Machine,
             Report(m) \/ LoseReadiness(m) \/ StatusDelete(m) \/ MachineGone(m) \/ GarbageCollect(m)
      PROVE  TypeOK'
  <2>1. machines' \in View
    BY <1>7, EnvironmentMachines DEF Environment
  <2>2. changes' \in 0 .. MaxChanges
    BY <1>7, SetAssumption
       DEF Report, LoseReadiness, StatusDelete, MachineGone, GarbageCollect, Disturb, TypeOK
  <2>3. UNCHANGED <<set, seenSet, seen, dirty, peak>>
    BY <1>7 DEF Report, LoseReadiness, StatusDelete, MachineGone, GarbageCollect
  <2> QED BY <2>1, <2>2, <2>3, Zenon DEF TypeOK
<1>8. CASE UNCHANGED vars
  BY <1>8, Zenon DEF vars, TypeOK
<1> QED BY <1>1, <1>2, <1>3, <1>4, <1>5, <1>6, <1>7, <1>8 DEF Next, Controller, Environment

\* The variables keep their types in every behaviour of the set controller.
THEOREM TypeCorrect == Spec => []TypeOK
<1>1. ASSUME Init
      PROVE  TypeOK
  <2>1. PICK n \in 0 .. MaxReplicas : set = NewSet(n) /\ seenSet = NewSet(n) /\ peak = n
    BY <1>1 DEF Init
  <2>2. NewSet(n) \in SetObject
    BY SetAssumption DEF NewSet, SetObject, SetStatus
  <2>3. NoMachines \in View
    BY DEF NoMachines, View, MachineObject, AbsentMachine
  <2>4. 0 \in 0 .. MaxChanges
    BY SetAssumption
  <2>5. dirty \in BOOLEAN
    BY <1>1, Zenon DEF Init
  <2> QED BY <1>1, <2>1, <2>2, <2>3, <2>4, <2>5, Zenon DEF Init, TypeOK
<1> QED BY <1>1, TypeStep, PTL DEF Spec

-----------------------------------------------------------------------------
\* Between two reconciles the cache holds every machine of the API server: the
\* controller is the only one to create machines, and it sees its own writes.
SeesAllMachines == dirty \/ Existing(machines) \subseteq Existing(seen)

\* No replica count the controller can read is above the peak.
WithinPeak == set.replicas <= peak /\ seenSet.replicas <= peak

CountInv == SeesAllMachines /\ WithinPeak /\ NeverMoreThanAsked

\* No step breaks CountInv.
LEMMA CountStep ==
  ASSUME ReadYourWrites
  PROVE  TypeOK /\ CountInv /\ [Next]_vars => CountInv'
<1> SUFFICES ASSUME TypeOK, CountInv, [Next]_vars
             PROVE  CountInv'
  OBVIOUS
<1>1. ASSUME Existing(machines') \subseteq Existing(machines), machines' \in View, peak <= peak',
             peak' \in Nat
      PROVE  NeverMoreThanAsked'
  <2>1. Cardinality(Existing(machines')) <= Cardinality(Existing(machines))
    BY <1>1, ExistingFinite, FS_Subset DEF TypeOK
  <2>2. Cardinality(Existing(machines')) \in Nat /\ Cardinality(Existing(machines)) \in Nat
    BY <1>1, ExistingFinite DEF TypeOK
  <2> QED BY <1>1, <2>1, <2>2 DEF CountInv, NeverMoreThanAsked, TypeOK
<1>2. CASE Controller
  <2>1. UNCHANGED <<seenSet, seen, peak>> /\ set'.replicas = set.replicas
        /\ (dirty => dirty')
    <3>1. CASE ReconcileUp \/ ReconcileDown \/ ReconcileKeep
      BY <3>1, FinishType DEF ReconcileUp, ReconcileDown, ReconcileKeep, FinishReconcile
    <3>2. CASE deleteAllMachines \/ RemoveFinalizer
      BY <3>2 DEF deleteAllMachines, RemoveFinalizer, TypeOK, SetObject
    <3> QED BY <1>2, <3>1, <3>2 DEF Controller
  <2>2. WithinPeak'
    BY <2>1 DEF CountInv, WithinPeak
  <2>3. CASE Existing(machines') = Existing(machines)
    <3>1. SeesAllMachines'
      BY <2>1, <2>3 DEF CountInv, SeesAllMachines
    <3>2. NeverMoreThanAsked'
      BY <2>1, <2>3 DEF CountInv, NeverMoreThanAsked
    <3> QED BY <2>2, <3>1, <3>2 DEF CountInv
  <2>4. CASE /\ MayReconcile /\ NeedsMachine(seen, seenSet.replicas)
             /\ dirty' = TRUE
             /\ \E m \in Machine : Existing(machines') = Existing(machines) \cup {m}
    <3>1. PICK m \in Machine : Existing(machines') = Existing(machines) \cup {m}
      BY <2>4
    <3>2. Existing(machines) \subseteq Existing(seen)
      BY <2>4 DEF MayReconcile, CountInv, SeesAllMachines
    <3>3. Cardinality(Existing(machines)) <= Cardinality(Existing(seen))
      BY <3>2, ExistingFinite, FS_Subset DEF TypeOK
    <3>4. Cardinality(Existing(seen)) < seenSet.replicas
      BY <2>4 DEF NeedsMachine
    <3>5. /\ Cardinality(Existing(machines)) \in Nat /\ Cardinality(Existing(seen)) \in Nat
          /\ IsFiniteSet(Existing(machines))
      BY ExistingFinite DEF TypeOK
    <3>6. Cardinality(Existing(machines')) <= Cardinality(Existing(machines)) + 1
      <4>1. CASE m \in Existing(machines)
        <5>1. Existing(machines') = Existing(machines)
          BY <3>1, <4>1
        <5> QED BY <5>1, <3>5
      <4>2. CASE m \notin Existing(machines)
        <5>1. Cardinality(Existing(machines) \cup {m}) = Cardinality(Existing(machines)) + 1
          BY <3>5, <4>2, FS_AddElement
        <5> QED BY <3>1, <3>5, <5>1
      <4> QED BY <4>1, <4>2
    <3>7. Cardinality(Existing(machines')) \in Nat
      BY <1>2, ControllerMachines, ExistingFinite
    <3>8. seenSet.replicas \in Nat /\ peak \in Nat /\ seenSet.replicas <= peak
      BY SetAssumption DEF TypeOK, SetObject, CountInv, WithinPeak
    <3>9. NeverMoreThanAsked'
      BY <2>1, <3>3, <3>4, <3>5, <3>6, <3>7, <3>8 DEF NeverMoreThanAsked
    <3>10. SeesAllMachines'
      BY <2>4, Zenon DEF SeesAllMachines
    <3> QED BY <2>2, <3>9, <3>10 DEF CountInv
  <2> QED BY <1>2, <2>3, <2>4, ControllerMachines
<1>3. CASE Environment
  <2>1. machines' \in View /\ Existing(machines') \subseteq Existing(machines)
    BY <1>3, EnvironmentMachines
  <2>2. peak \in Nat /\ peak' \in Nat /\ peak <= peak' /\ WithinPeak'
    <3>1. CASE Refresh
      BY <3>1 DEF Refresh, CountInv, WithinPeak, TypeOK
    <3>2. CASE DeleteSet
      BY <3>2 DEF DeleteSet, CountInv, WithinPeak, TypeOK, SetObject
    <3>3. ASSUME NEW n \in 0 .. MaxReplicas, Scale(n)
          PROVE  peak \in Nat /\ peak' \in Nat /\ peak <= peak' /\ WithinPeak'
      <4>1. set'.replicas = n /\ seenSet' = seenSet
        BY <3>3 DEF Scale, TypeOK, SetObject
      <4> QED BY <3>3, <4>1, SetAssumption DEF Scale, CountInv, WithinPeak, TypeOK, SetObject
    <3>4. ASSUME NEW m \in Machine,
                 Report(m) \/ LoseReadiness(m) \/ StatusDelete(m) \/ MachineGone(m)
                 \/ GarbageCollect(m)
          PROVE  peak \in Nat /\ peak' \in Nat /\ peak <= peak' /\ WithinPeak'
      <4>1. UNCHANGED <<set, seenSet, peak>>
        BY <3>4 DEF Report, LoseReadiness, StatusDelete, MachineGone, GarbageCollect
      <4> QED BY <4>1 DEF CountInv, WithinPeak, TypeOK
    <3> QED BY <1>3, <3>1, <3>2, <3>3, <3>4 DEF Environment
  <2>3. SeesAllMachines'
    <3>1. CASE Refresh
      BY <3>1 DEF Refresh, SeesAllMachines
    <3>2. CASE DeleteSet \/ (\E n \in 0 .. MaxReplicas : Scale(n)) \/ \E m \in Machine :
                 Report(m) \/ LoseReadiness(m) \/ StatusDelete(m) \/ MachineGone(m)
                 \/ GarbageCollect(m)
      <4>1. UNCHANGED <<seen, dirty>>
        BY <3>2 DEF DeleteSet, Scale, Report, LoseReadiness, StatusDelete, MachineGone,
                    GarbageCollect
      <4> QED BY <2>1, <4>1 DEF CountInv, SeesAllMachines
    <3> QED BY <1>3, <3>1, <3>2 DEF Environment
  <2>4. NeverMoreThanAsked'
    BY <1>1, <2>1, <2>2
  <2> QED BY <2>2, <2>3, <2>4 DEF CountInv
<1>4. CASE UNCHANGED vars
  BY <1>4 DEF vars, CountInv, SeesAllMachines, WithinPeak, NeverMoreThanAsked
<1> QED BY <1>2, <1>3, <1>4 DEF Next

\* CountInv holds in every reachable state.
LEMMA CountInvariant ==
  ASSUME ReadYourWrites
  PROVE  Spec => []CountInv
<1>1. Init => CountInv
  <2> SUFFICES ASSUME Init
               PROVE  CountInv
    OBVIOUS
  <2>1. PICK n \in 0 .. MaxReplicas : set = NewSet(n) /\ seenSet = NewSet(n) /\ peak = n
    BY DEF Init
  <2>2. Existing(machines) = {}
    BY DEF Init, Existing, NoMachines, AbsentMachine
  <2>3. Cardinality(Existing(machines)) = 0
    BY <2>2, FS_EmptySet
  <2> QED BY <2>1, <2>2, <2>3, SetAssumption
          DEF CountInv, SeesAllMachines, WithinPeak, NeverMoreThanAsked, NewSet
<1> QED BY <1>1, CountStep, TypeCorrect, PTL DEF Spec

\* When caches catch up with the controller's own writes between reconciles,
\* creating machines one by one under random names never overshoots.
THEOREM MachinesBounded ==
  ASSUME ReadYourWrites
  PROVE  Spec => []NeverMoreThanAsked
<1>1. CountInv => NeverMoreThanAsked
  BY DEF CountInv
<1> QED BY <1>1, CountInvariant, PTL

\* Under the same assumption the finalizer of the set stays until the API
\* server has none of its machines left.
THEOREM FinalizerSafe ==
  ASSUME ReadYourWrites
  PROVE  Spec => FinalizerOutlivesMachines
<1>1. TypeOK /\ CountInv /\ [Next]_vars
        => [(set.exists /\ set.finalizer /\ ~set'.exists) => Existing(machines) = {}]_vars
  <2> SUFFICES ASSUME TypeOK, CountInv, Next, set.exists, set.finalizer, ~set'.exists
               PROVE  Existing(machines) = {}
    OBVIOUS
  <2>1. CASE RemoveFinalizer
    BY <2>1 DEF RemoveFinalizer, MayReconcile, CountInv, SeesAllMachines
  <2>2. CASE ReconcileUp \/ ReconcileDown \/ ReconcileKeep
    BY <2>2, FinishType DEF ReconcileUp, ReconcileDown, ReconcileKeep
  <2>3. CASE deleteAllMachines
    BY <2>3 DEF deleteAllMachines
  <2>4. CASE Environment
    BY <2>4 DEF Environment, Refresh, DeleteSet, Scale, Report, LoseReadiness, StatusDelete,
                MachineGone, GarbageCollect, TypeOK, SetObject
  <2> QED BY <2>1, <2>2, <2>3, <2>4 DEF Next, Controller
<1> QED BY <1>1, CountInvariant, TypeCorrect, PTL DEF Spec, FinalizerOutlivesMachines


\* The machine that a scale down picks leaves the ready machines alone when
\* there is one that is not ready, and takes at most one of them otherwise.
LEMMA DeletionSparesReady ==
  ASSUME NEW v \in View, NEW n \in Nat, HasSurplus(v, n), NEW m \in MachinesForDeletion(v)
  PROVE  \/ Cardinality(ReadyLive(DeleteMachine(v, m))) >= n
         \/ ReadyLive(DeleteMachine(v, m)) = ReadyLive(v)
<1>1. m \in Existing(v) /\ m \in Machine
  BY DEF MachinesForDeletion, Existing
<1>2. ReadyLive(DeleteMachine(v, m)) = ReadyLive(v) \ {m}
  <2>1. \A k \in Machine : /\ DeleteMachine(v, m)[k].st = "live" <=> v[k].st = "live" /\ k # m
                           /\ DeleteMachine(v, m)[k].ready = v[k].ready
    BY <1>1 DEF DeleteMachine, View, MachineObject
  <2> QED BY <2>1 DEF ReadyLive, Live
<1>3. CASE ~v[m].ready
  BY <1>2, <1>3 DEF ReadyLive
<1>4. CASE v[m].ready
  <2>1. \A k \in Existing(v) : v[k].ready
    BY <1>4 DEF MachinesForDeletion
  <2>2. ReadyLive(v) = Live(v)
    BY <2>1 DEF ReadyLive, Live, Existing
  <2>3. IsFiniteSet(Live(v)) /\ Cardinality(Live(v)) \in Nat /\ n < Cardinality(Live(v))
    BY SetAssumption, FS_Subset, FS_CardinalityType DEF Live, HasSurplus
  <2>4. PICK S : S = Live(v)
    OBVIOUS
  <2>5. Cardinality(S \ {m}) = IF m \in S THEN Cardinality(S) - 1 ELSE Cardinality(S)
    BY <2>3, <2>4, FS_RemoveElement
  <2> QED BY <1>2, <2>2, <2>3, <2>4, <2>5
<1> QED BY <1>3, <1>4

\* findFirstMachineForDeletion: a scale down that is decided on an accurate list
\* never takes a ready machine away below the replicas asked for.
THEOREM ReadyMachinesAreSpared == Spec => ScaleDownKeepsReadyMachines
<1>1. TypeOK /\ [Next]_vars
        => [(ReconcileDown /\ seen = machines /\ seenSet = set) =>
              \/ Cardinality(ReadyLive(machines')) >= set.replicas
              \/ ReadyLive(machines') = ReadyLive(machines)]_vars
  <2> SUFFICES ASSUME TypeOK, ReconcileDown, seen = machines, seenSet = set
               PROVE  \/ Cardinality(ReadyLive(machines')) >= set.replicas
                      \/ ReadyLive(machines') = ReadyLive(machines)
    OBVIOUS
  <2>1. HasSurplus(machines, set.replicas)
    BY DEF ReconcileDown, ScaleDown
  <2>2. PICK m \in MachinesForDeletion(machines) : machines' = DeleteMachine(machines, m)
    BY DEF ReconcileDown, ScaleDown
  <2>3. machines \in View /\ set.replicas \in Nat
    BY DEF TypeOK, SetObject
  <2> QED BY <2>1, <2>2, <2>3, DeletionSparesReady
<1> QED BY <1>1, TypeCorrect, PTL DEF Spec, ScaleDownKeepsReadyMachines

=============================================================================
