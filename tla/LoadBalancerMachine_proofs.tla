--------------------- MODULE LoadBalancerMachine_proofs ---------------------
(***************************************************************************)
(* Proofs about LoadBalancerMachine: types, at most one server and port,   *)
(* the order of the deletion, and the refinement of FinalizerProtocol.     *)
(* The last two hold while at most one request fails or the controller     *)
(* crashes once: an HTTP error of a search by name counts as nothing       *)
(* found, so that two of them may leave a resource behind.                 *)
(***************************************************************************)
EXTENDS LoadBalancerMachine, FiniteSetTheorems, TLAPS

\* Every copy of the status names only ports and servers that were created.
IdsKnown ==
    \A o \in {lbm, seen, mem} : o.portId <= made.port /\ o.serverId <= made.server

TypeInv == TypeOK /\ IdsKnown

\* Objects whose status names only the first n ports and k servers.
Known(o, n, k) == o \in LBMObject /\ o.portId <= n /\ o.serverId <= k

\* The copies of the object with the bounds of their IDs.
LEMMA TypeInvKnown ==
  TypeInv <=> /\ TypeOK
              /\ Known(lbm, made.port, made.server) /\ Known(seen, made.port, made.server)
              /\ Known(mem, made.port, made.server)
BY DEF TypeInv, IdsKnown, TypeOK, Known

\* Objects with a changed entry.
LEMMA KnownEdits ==
  ASSUME NEW n \in Nat, NEW k \in Nat, NEW o, Known(o, n, k)
  PROVE  /\ Known([o EXCEPT !.finalizer = TRUE], n, k)
         /\ Known([o EXCEPT !.secret = TRUE], n, k)
         /\ Known([o EXCEPT !.portName = TRUE], n, k)
         /\ Known([o EXCEPT !.portName = FALSE], n, k)
         /\ Known([o EXCEPT !.recent = TRUE], n, k)
         /\ Known([o EXCEPT !.recent = FALSE], n, k)
         /\ \A i \in 0 .. n : Known([o EXCEPT !.portId = i], n, k)
         /\ \A j \in 0 .. k : Known([o EXCEPT !.serverId = j], n, k)
         /\ Known([o EXCEPT !.deleting = TRUE], n, k)
         /\ Known([o EXCEPT !.finalizer = FALSE, !.exists = FALSE], n, k)
         /\ Known([o EXCEPT !.deleting = TRUE, !.exists = o.finalizer], n, k)
<1> USE DEF Known, LBMObject
<1>1. Known([o EXCEPT !.finalizer = TRUE], n, k) /\ Known([o EXCEPT !.secret = TRUE], n, k)
  OBVIOUS
<1>2. Known([o EXCEPT !.portName = TRUE], n, k) /\ Known([o EXCEPT !.portName = FALSE], n, k)
  OBVIOUS
<1>3. Known([o EXCEPT !.recent = TRUE], n, k) /\ Known([o EXCEPT !.recent = FALSE], n, k)
  OBVIOUS
<1>4. /\ \A i \in 0 .. n : Known([o EXCEPT !.portId = i], n, k)
      /\ \A j \in 0 .. k : Known([o EXCEPT !.serverId = j], n, k)
  OBVIOUS
<1>5. Known([o EXCEPT !.deleting = TRUE], n, k)
  OBVIOUS
<1>6. Known([o EXCEPT !.finalizer = FALSE, !.exists = FALSE], n, k)
  OBVIOUS
<1>7. Known([o EXCEPT !.deleting = TRUE, !.exists = o.finalizer], n, k)
  OBVIOUS
<1> QED BY <1>1, <1>2, <1>3, <1>4, <1>5, <1>6, <1>7 

\* Writing the status keeps the types of the object and of the copy.
LEMMA PatchType ==
  ASSUME NEW n, NEW k, NEW o, PatchLBMStatus(o), Known(o, n, k)
  PROVE  Known(lbm', n, k) /\ Known(mem', n, k) /\ dirty' \in BOOLEAN
<1>1. dirty' \in BOOLEAN
  BY Zenon DEF PatchLBMStatus
<1> QED BY <1>1 DEF PatchLBMStatus

-----------------------------------------------------------------------------
\* The port that reconcilePort settles on and the ports there are then.
LEMMA PortCandidatesType ==
  ASSUME TypeInv, NEW c \in PortCandidates, MakePorts(ports) \/ MakePorts(c[2])
  PROVE  /\ made' \in [port : Nat, server : Nat] /\ made'.server = made.server
         /\ made'.port >= made.port /\ ports' \subseteq 1 .. made'.port
         /\ MakePorts(c[2]) => c[1] \in 0 .. made'.port
<1> USE DEF TypeInv, TypeOK, MakePorts
<1>1. CASE MakePorts(ports)
  <2>1. made' = made /\ ports' = ports
    BY <1>1
  <2> QED BY <2>1 DEF PortCandidates, IdsKnown, LBMObject
<1>2. CASE MakePorts(c[2]) /\ mem.portId # NoId
  BY <1>2 DEF PortCandidates, IdsKnown, LBMObject
<1>3. CASE MakePorts(c[2]) /\ mem.portId = NoId /\ ports # {}
  BY <1>3 DEF PortCandidates
<1>4. CASE MakePorts(c[2]) /\ mem.portId = NoId /\ ports = {}
  BY <1>4 DEF PortCandidates
<1> QED BY <1>1, <1>2, <1>3, <1>4

\* A step that changes the objects of Kubernetes only, or the program point.
LEMMA KubernetesStepType ==
  ASSUME TypeInv, UNCHANGED openstack,
         Known(lbm', made.port, made.server), Known(seen', made.port, made.server),
         Known(mem', made.port, made.server), dirty' \in BOOLEAN,
         pc' \in Points, access' \subseteq Access,
         todo' \subseteq 1 .. made.server, target' \in 0 .. made.server,
         changes' = changes, errors' \in 0 .. MaxErrors
  PROVE  TypeInv'
<1>1. made' = made /\ ports' = ports /\ paired' = paired /\ servers' = servers
  BY DEF openstack
<1> QED BY <1>1, Zenon DEF TypeInv, TypeOK, IdsKnown, Known

\* A failed request that changes nothing.
LEMMA FailType ==
  ASSUME TypeInv, Fail
  PROVE  errors' \in 0 .. MaxErrors
BY MachineAssumption DEF Fail, TypeInv, TypeOK

\* A reconcile that stops, or goes on in Kubernetes, keeps the types.
LEMMA AccessStepType ==
  ASSUME TypeInv,
         BeginReconcile \/ BeginDeletion \/ FinishReconcile \/ deleteAccess \/ RemoveFinalizer
         \/ \E a \in Access : ReconcileAccess(a)
  PROVE  TypeInv'
<1> USE TypeInvKnown, MachineAssumption
<1>1. made.port \in Nat /\ made.server \in Nat
  BY DEF TypeOK
<1>2. dirty \in BOOLEAN /\ errors \in 0 .. MaxErrors /\ todo \subseteq 1 .. made.server
      /\ target \in 0 .. made.server /\ access \subseteq Access
      /\ {"idle", "sa", "secret", "role", "rolebinding", "port", "deleteById", "removeFinalizer"}
           \subseteq Points
  BY DEF TypeOK, Points
<1>3. CASE BeginReconcile
  <2>1. Known([lbm EXCEPT !.finalizer = TRUE], made.port, made.server)
    BY <1>1, KnownEdits
  <2>2. Known(lbm', made.port, made.server) /\ Known(mem', made.port, made.server)
        /\ dirty' \in BOOLEAN
    BY <1>2, <1>3, <2>1, PatchType DEF BeginReconcile
  <2> QED BY <1>2, <1>3, <2>2, KubernetesStepType DEF BeginReconcile, Goto, waiting
<1>4. CASE BeginDeletion
  <2>1. todo' \subseteq 1 .. made.server
    BY <1>1, <1>4 DEF BeginDeletion, NoId, Known, LBMObject
  <2> QED BY <1>2, <1>4, <2>1, KubernetesStepType DEF BeginDeletion, Goto
<1>5. CASE FinishReconcile
  <2>1. Known([lbm EXCEPT !.recent = TRUE], made.port, made.server)
    BY <1>1, KnownEdits
  <2>2. Known(lbm', made.port, made.server) /\ Known(mem', made.port, made.server)
        /\ dirty' \in BOOLEAN
    BY <1>2, <1>5, <2>1, PatchType DEF FinishReconcile, KeepStatus
  <2>3. errors' \in 0 .. MaxErrors
    BY <1>2, <1>5, FailType DEF FinishReconcile
  <2> QED BY <1>2, <1>5, <2>2, <2>3, KubernetesStepType DEF FinishReconcile, Stop, Goto, waiting
<1>6. CASE deleteAccess
  <2>1. access' \subseteq Access
    BY <1>2, <1>6 DEF deleteAccess, AfterSA
  <2>2. errors' \in 0 .. MaxErrors
    BY <1>2, <1>6, FailType DEF deleteAccess
  <2> QED BY <1>2, <1>6, <2>1, <2>2, KubernetesStepType DEF deleteAccess, Stop, Goto, waiting
<1>7. CASE RemoveFinalizer
  <2>1. Known([lbm EXCEPT !.finalizer = FALSE, !.exists = FALSE], made.port, made.server)
    BY <1>1, KnownEdits
  <2>2. Known(lbm', made.port, made.server) /\ Known(mem', made.port, made.server)
        /\ dirty' \in BOOLEAN
    BY <1>7, <2>1, PatchType DEF RemoveFinalizer
  <2> QED BY <1>2, <1>7, <2>2, KubernetesStepType DEF RemoveFinalizer, Stop, Goto, waiting
<1>8. ASSUME NEW a \in Access, ReconcileAccess(a)
      PROVE  TypeInv'
  <2>1. Known([lbm EXCEPT !.secret = TRUE], made.port, made.server)
    BY <1>1, KnownEdits
  <2>2. Known(lbm', made.port, made.server) /\ Known(mem', made.port, made.server)
        /\ dirty' \in BOOLEAN
    BY <1>2, <1>8, <2>1, PatchType DEF ReconcileAccess, KeepStatus
  <2>3. access' \subseteq Access
    BY <1>2, <1>8 DEF ReconcileAccess
  <2>4. errors' \in 0 .. MaxErrors
    BY <1>2, <1>8, FailType DEF ReconcileAccess
  <2>5. pc' \in Points
    <3>1. After(a) \in Points
      BY DEF After, Access, Points
    <3> QED BY <1>2, <1>8, <3>1 DEF ReconcileAccess, Goto, Stop
  <2> QED BY <1>2, <1>8, <2>2, <2>3, <2>4, <2>5, KubernetesStepType DEF ReconcileAccess, waiting
<1> QED BY <1>3, <1>4, <1>5, <1>6, <1>7, <1>8

\* The ports and servers that were created stay known.
LEMMA KnownLater ==
  ASSUME NEW o, NEW n \in Nat, NEW k \in Nat, Known(o, n, k),
         NEW n2 \in Nat, NEW k2 \in Nat, n <= n2, k <= k2
  PROVE  Known(o, n2, k2)
BY DEF Known, LBMObject

\* What reconcilePort may write, with the port that it settled on.
LEMMA PortStepStatus ==
  ASSUME TypeInv, reconcilePort
  PROVE  /\ Known(lbm', made'.port, made'.server) /\ Known(mem', made'.port, made'.server)
         /\ dirty' \in BOOLEAN
         /\ made' \in [port : Nat, server : Nat] /\ made'.server = made.server
         /\ made'.port >= made.port /\ ports' \subseteq 1 .. made'.port
<1>1. PICK c \in PortCandidates :
         \/ /\ MakePorts(c[2])
            /\ \/ PatchLBMStatus([Named EXCEPT !.portId = c[1]])
               \/ PatchLBMStatus([Named EXCEPT !.portId = NoId])
         \/ PortFails(c)
  BY DEF reconcilePort, PortNotFound
<1>2. MakePorts(ports) \/ MakePorts(c[2])
  BY <1>1 DEF PortFails
<1>3. /\ made' \in [port : Nat, server : Nat] /\ made'.server = made.server
      /\ made'.port >= made.port /\ ports' \subseteq 1 .. made'.port
      /\ MakePorts(c[2]) => c[1] \in 0 .. made'.port
  BY <1>2, PortCandidatesType
<1>4. made.port \in Nat /\ made.server \in Nat /\ made'.port \in Nat /\ made'.server \in Nat
  BY <1>3 DEF TypeInv, TypeOK
<1>5. Known(lbm, made'.port, made'.server)
  BY <1>3, <1>4, TypeInvKnown, KnownLater
<1>6. Known(Named, made'.port, made'.server)
  BY <1>4, <1>5, KnownEdits DEF Named
<1>7. Known([Named EXCEPT !.portId = NoId], made'.port, made'.server)
  <2>1. NoId \in 0 .. made'.port
    BY <1>4 DEF NoId
  <2> QED BY <1>4, <1>6, <2>1, KnownEdits
<1>8. ASSUME MakePorts(c[2])
      PROVE  Known([Named EXCEPT !.portId = c[1]], made'.port, made'.server)
  BY <1>3, <1>4, <1>6, <1>8, KnownEdits
<1>9. PICK o : PatchLBMStatus(o) /\ Known(o, made'.port, made'.server)
  BY <1>1, <1>5, <1>6, <1>7, <1>8 DEF PortFails, PortNotFound
<1>10. Known(lbm', made'.port, made'.server) /\ Known(mem', made'.port, made'.server)
       /\ dirty' \in BOOLEAN
  BY <1>9, PatchType
<1> QED BY <1>3, <1>10

\* reconcilePort keeps the types.
LEMMA PortStepType ==
  ASSUME TypeInv, reconcilePort
  PROVE  TypeInv'
<1>1. made.port \in Nat /\ made.server \in Nat
  BY DEF TypeInv, TypeOK
<1>2. /\ made' \in [port : Nat, server : Nat] /\ made'.server = made.server
      /\ made'.port >= made.port
  BY PortStepStatus
<1>3. Known(seen', made'.port, made'.server)
  BY <1>1, <1>2, TypeInvKnown, KnownLater DEF reconcilePort
<1>4. paired' \subseteq 1 .. made'.port
  BY <1>1, <1>2 DEF reconcilePort, TypeInv, TypeOK
<1>5. servers' \subseteq Server /\ (\A s \in servers' : s.id <= made'.server)
      /\ todo' \subseteq 1 .. made'.server /\ target' \in 0 .. made'.server
      /\ access' \subseteq Access /\ changes' \in 0 .. MaxChanges
  BY <1>2 DEF reconcilePort, waiting, TypeInv, TypeOK
<1>6. errors' \in 0 .. MaxErrors
  BY FailType DEF reconcilePort, TypeInv, TypeOK
<1>7. pc' \in Points
  BY DEF reconcilePort, Stop, Goto, Points
<1> QED BY <1>2, <1>3, <1>4, <1>5, <1>6, <1>7, PortStepStatus, Zenon
        DEF TypeInv, TypeOK, IdsKnown, Known

\* reconcilePortAddressPair keeps the types.
LEMMA PairStepType ==
  ASSUME TypeInv, reconcilePortAddressPair
  PROVE  TypeInv'
<1>1. paired' \subseteq 1 .. made.port
  BY DEF reconcilePortAddressPair, TypeInv, TypeOK
<1>2. errors' \in 0 .. MaxErrors
  BY FailType DEF reconcilePortAddressPair, TypeInv, TypeOK
<1>3. pc' \in Points
  BY DEF reconcilePortAddressPair, Stop, Goto, Points
<1> QED BY <1>1, <1>2, <1>3, Zenon
        DEF reconcilePortAddressPair, kubernetes, waiting, TypeInv, TypeOK, IdsKnown

-----------------------------------------------------------------------------
\* The steps of reconcileServer keep the types.
LEMMA ServerStepType ==
  ASSUME TypeInv, reconcileServer
  PROVE  TypeInv'
<1>1. made.port \in Nat /\ made.server \in Nat
  BY DEF TypeInv, TypeOK
<1>2. pc' \in Points
  BY DEF reconcileServer, UseServer, createServer, ServerFails, ServerIsActive, WaitActiveFails,
         Stop, Goto, Points
<1>3. errors' \in 0 .. MaxErrors
  BY FailType DEF reconcileServer, UseServer, createServer, ServerFails, ServerIsActive,
                  WaitActiveFails, TypeInv, TypeOK
<1>4. Known(lbm, made.port, made.server) /\ Known(mem, made.port, made.server)
      /\ Known(seen, made.port, made.server) /\ dirty \in BOOLEAN
      /\ todo \subseteq 1 .. made.server /\ target \in 0 .. made.server
      /\ access \subseteq Access
  BY TypeInvKnown DEF TypeOK
<1>5. CASE UseServer
  <2>1. PICK s \in servers :
           IF s.status = "ERROR" THEN DeleteFailedMachine ELSE RecordServer(s.id)
    BY <1>5 DEF UseServer, ServersByName
  <2>2. s.id \in 0 .. made.server
    BY <1>1 DEF TypeInv, TypeOK, Server, NoId
  <2>3. Known([lbm EXCEPT !.deleting = TRUE], made.port, made.server)
        /\ Known([lbm EXCEPT !.serverId = s.id], made.port, made.server)
    BY <1>1, <1>4, <2>2, KnownEdits
  <2>4. Known(lbm', made.port, made.server) /\ Known(mem', made.port, made.server)
        /\ dirty' \in BOOLEAN
    BY <1>4, <2>1, <2>3, PatchType DEF DeleteFailedMachine, RecordServer
  <2> QED BY <1>2, <1>3, <1>4, <1>5, <2>4, KubernetesStepType DEF UseServer, waiting
<1>6. CASE createServer
  <2>1. made' = [made EXCEPT !.server = made.server + 1]
        /\ servers' = servers \cup {[id |-> made.server + 1, status |-> "BUILD", doomed |-> FALSE]}
    BY <1>6 DEF createServer, NewServer
  <2>2. made' \in [port : Nat, server : Nat] /\ made'.port = made.port
        /\ made'.server = made.server + 1
    BY <2>1 DEF TypeInv, TypeOK
  <2>3. servers' \subseteq Server /\ \A s \in servers' : s.id <= made'.server
    <3> DEFINE new == [id |-> made.server + 1, status |-> "BUILD", doomed |-> FALSE]
    <3>1. new \in Server /\ new.id = made.server + 1
      BY <1>1 DEF Server, NoId
    <3>2. servers \subseteq Server /\ \A s \in servers : s.id \in Nat /\ s.id <= made.server
      BY DEF TypeInv, TypeOK, Server
    <3> HIDE DEF new
    <3>3. servers' = servers \cup {new}
      BY <2>1 DEF new
    <3> QED BY <1>1, <2>2, <3>1, <3>2, <3>3
  <2>4. Known(lbm', made'.port, made'.server) /\ Known(mem', made'.port, made'.server)
        /\ Known(seen', made'.port, made'.server)
    BY <1>1, <1>4, <1>6, <2>2, KnownLater DEF createServer, kubernetes
  <2>5. todo' \subseteq 1 .. made'.server /\ target' \in 0 .. made'.server
    BY <1>1, <1>4, <1>6, <2>2 DEF createServer
  <2>6. UNCHANGED <<dirty, access, ports, paired, changes>>
    BY <1>6 DEF createServer, kubernetes
  <2> QED BY <1>2, <1>3, <2>2, <2>3, <2>4, <2>5, <2>6, Zenon
          DEF TypeInv, TypeOK, IdsKnown, Known
<1>7. CASE ServerFails
  BY <1>2, <1>3, <1>4, <1>7, KubernetesStepType DEF ServerFails, kubernetes, waiting
<1>8. CASE ServerIsActive
  <2>1. Known([lbm EXCEPT !.serverId = target], made.port, made.server)
    BY <1>1, <1>4, KnownEdits
  <2>2. Known(lbm', made.port, made.server) /\ Known(mem', made.port, made.server)
        /\ dirty' \in BOOLEAN
    BY <1>8, <2>1, PatchType DEF ServerIsActive, RecordServer
  <2>3. target' \in 0 .. made.server
    BY <1>1, <1>8 DEF ServerIsActive, NoId
  <2> QED BY <1>2, <1>3, <1>4, <1>8, <2>2, <2>3, KubernetesStepType DEF ServerIsActive
<1>9. CASE WaitActiveFails
  <2>1. target' \in 0 .. made.server
    BY <1>1, <1>9 DEF WaitActiveFails, NoId
  <2> QED BY <1>2, <1>3, <1>4, <1>9, <2>1, KubernetesStepType DEF WaitActiveFails, kubernetes
<1> QED BY <1>5, <1>6, <1>7, <1>8, <1>9 DEF reconcileServer

\* The steps of the deletion keep the types.
LEMMA DeletionStepType ==
  ASSUME TypeInv, deleteServer \/ deletePort
  PROVE  TypeInv'
<1>1. made.port \in Nat /\ made.server \in Nat
  BY DEF TypeInv, TypeOK
<1>2. pc' \in Points
  BY DEF deleteServer, DeleteServer, ServerIsDeleted, DeleteServerFails, ListOrphans, ForgetServer,
         deletePort, DeletePort, DeletePortFails, Stop, Goto, Points, TypeInv, TypeOK
<1>3. errors' \in 0 .. MaxErrors
  BY FailType DEF deleteServer, DeleteServer, ServerIsDeleted, DeleteServerFails, ListOrphans,
                  ForgetServer, deletePort, TypeInv, TypeOK
<1>4. Known(lbm, made.port, made.server) /\ Known(mem, made.port, made.server)
      /\ Known(seen, made.port, made.server) /\ dirty \in BOOLEAN
      /\ todo \subseteq 1 .. made.server /\ target \in 0 .. made.server
      /\ access \subseteq Access /\ NoId \in 0 .. made.server /\ NoId \in 0 .. made.port
  BY <1>1, TypeInvKnown DEF TypeOK, NoId
<1>5. CASE DeleteServer
  <2>1. todo' \subseteq 1 .. made.server /\ target' \in 0 .. made.server
    BY <1>1, <1>4, <1>5 DEF DeleteServer
  <2>2. PICK id \in todo : servers' = Doom(id) \/ servers' = servers
    BY <1>5 DEF DeleteServer
  <2>3. servers' \subseteq Server /\ \A s \in servers' : s.id <= made.server
    BY <2>2 DEF Doom, Server, TypeInv, TypeOK
  <2>4. UNCHANGED <<lbm, mem, seen, pc, dirty, access, ports, paired, made, changes>>
    BY <1>5 DEF DeleteServer, kubernetes
  <2> QED BY <1>3, <2>1, <2>3, <2>4, Zenon DEF TypeInv, TypeOK, IdsKnown
<1>6. CASE ServerIsDeleted
  BY <1>2, <1>3, <1>4, <1>6, KubernetesStepType DEF ServerIsDeleted, kubernetes
<1>7. CASE DeleteServerFails
  BY <1>2, <1>3, <1>4, <1>7, KubernetesStepType DEF DeleteServerFails, kubernetes
<1>8. CASE ListOrphans
  <2>1. todo' \subseteq 1 .. made.server
    BY <1>1, <1>8 DEF ListOrphans, Ids, Server, NoId, TypeInv, TypeOK
  <2> QED BY <1>2, <1>3, <1>4, <1>8, <2>1, KubernetesStepType DEF ListOrphans, kubernetes
<1>9. CASE ForgetServer
  <2>1. Known([lbm EXCEPT !.serverId = NoId], made.port, made.server)
    BY <1>1, <1>4, KnownEdits
  <2>2. Known(lbm', made.port, made.server) /\ Known(mem', made.port, made.server)
        /\ dirty' \in BOOLEAN
    BY <1>9, <2>1, PatchType DEF ForgetServer, RecordServer
  <2> QED BY <1>2, <1>3, <1>4, <1>9, <2>2, KubernetesStepType DEF ForgetServer, waiting
<1>10. CASE deletePort
  <2>1. Known([lbm EXCEPT !.portId = NoId], made.port, made.server)
        /\ Known([lbm EXCEPT !.portName = FALSE], made.port, made.server)
    BY <1>1, <1>4, KnownEdits
  <2>2. Known(lbm', made.port, made.server) /\ Known(mem', made.port, made.server)
        /\ dirty' \in BOOLEAN
    BY <1>4, <1>10, <2>1, PatchType DEF deletePort, DeletePort, DeletePortFails, KeepStatus
  <2>3. ports' \subseteq ports
    BY <1>10 DEF deletePort, DeletePort, DeletePortFails
  <2>4. UNCHANGED <<seen, access, paired, servers, made, todo, target, changes>>
    BY <1>10 DEF deletePort, waiting
  <2> QED BY <1>2, <1>3, <2>2, <2>3, <2>4, Zenon DEF TypeInv, TypeOK, IdsKnown, Known
<1> QED BY <1>5, <1>6, <1>7, <1>8, <1>9, <1>10 DEF deleteServer

\* What OpenStack and the operator do to a server leaves its ID and its deletion.
LEMMA OpenstackServers ==
  ASSUME TypeInv, OpenstackProgress \/ OpenstackFault
  PROVE  /\ servers' \subseteq Server
         /\ \A t \in servers' : \E s \in servers : t.id = s.id /\ t.doomed = s.doomed
         /\ changes' \in 0 .. MaxChanges
<1>1. servers \subseteq Server
  BY DEF TypeInv, TypeOK
<1>2. PICK s \in servers :
         ServerStarts(s) \/ ServerGone(s) \/ ServerBreaks(s) \/ ServerVanishes(s)
  BY DEF OpenstackProgress, OpenstackFault
<1>3. changes' \in 0 .. MaxChanges
  BY <1>2, MachineAssumption
     DEF ServerStarts, ServerGone, ServerBreaks, ServerVanishes, Change, TypeInv, TypeOK
<1>4. CASE ServerGone(s) \/ ServerVanishes(s)
  BY <1>1, <1>3, <1>4 DEF ServerGone, ServerVanishes
<1>5. CASE ServerStarts(s) \/ ServerBreaks(s)
  <2>1. PICK st \in {"ACTIVE", "ERROR"} :
           servers' = (servers \ {s}) \cup {[s EXCEPT !.status = st]}
    BY <1>5 DEF ServerStarts, ServerBreaks
  <2>2. [s EXCEPT !.status = st] \in Server /\ [s EXCEPT !.status = st].id = s.id
        /\ [s EXCEPT !.status = st].doomed = s.doomed
    BY <1>1 DEF Server
  <2> QED BY <1>1, <1>3, <2>1, <2>2
<1> QED BY <1>2, <1>4, <1>5

\* OpenStack, informers, crashes and the user keep the types.
LEMMA EnvironmentStepType ==
  ASSUME TypeInv, Environment
  PROVE  TypeInv'
<1>1. made.port \in Nat /\ made.server \in Nat
  BY DEF TypeInv, TypeOK
<1>2. Known(lbm, made.port, made.server) /\ Known(mem, made.port, made.server)
      /\ Known(seen, made.port, made.server) /\ dirty \in BOOLEAN
      /\ todo \subseteq 1 .. made.server /\ target \in 0 .. made.server
      /\ access \subseteq Access /\ pc \in Points /\ errors \in 0 .. MaxErrors
  BY TypeInvKnown DEF TypeOK
<1>3. CASE DeleteLBM
  <2>1. Known([lbm EXCEPT !.deleting = TRUE, !.exists = lbm.finalizer], made.port, made.server)
    BY <1>1, <1>2, KnownEdits
  <2> QED BY <1>2, <1>3, <2>1, KubernetesStepType DEF DeleteLBM, waiting
<1>4. CASE Refresh
  <2>1. dirty' \in BOOLEAN
    BY <1>4, Zenon DEF Refresh
  <2> QED BY <1>2, <1>4, <2>1, KubernetesStepType DEF Refresh, waiting
<1>5. CASE FiveMinutesPass
  <2>1. Known([lbm EXCEPT !.recent = FALSE], made.port, made.server)
        /\ Known([seen EXCEPT !.recent = FALSE], made.port, made.server)
    BY <1>1, <1>2, KnownEdits
  <2> QED BY <1>2, <1>5, <2>1, KubernetesStepType DEF FiveMinutesPass, waiting
<1>6. CASE Crash
  <2>1. errors' \in 0 .. MaxErrors
    BY <1>6, FailType DEF Crash
  <2>2. todo' \subseteq 1 .. made.server /\ target' \in 0 .. made.server /\ pc' \in Points
    BY <1>1, <1>6 DEF Crash, NoId, Stop, Goto, Points
  <2> QED BY <1>2, <1>6, <2>1, <2>2, KubernetesStepType DEF Crash, kubernetes
<1>7. CASE OpenstackProgress \/ OpenstackFault
  <2>1. UNCHANGED <<lbm, seen, mem, pc, dirty, access, ports, paired, made, todo, target, errors>>
    BY <1>7 DEF OpenstackProgress, OpenstackFault, waiting
  <2>2. \A t \in servers' : t.id <= made.server
    BY <1>7, OpenstackServers DEF TypeInv, TypeOK
  <2> QED BY <1>7, <2>1, <2>2, OpenstackServers, Zenon DEF TypeInv, TypeOK, IdsKnown
<1>8. CASE VanishPort
  <2>1. changes' \in 0 .. MaxChanges
    BY <1>8, MachineAssumption DEF VanishPort, Change, TypeInv, TypeOK
  <2>2. ports' \subseteq 1 .. made.port
    BY <1>8 DEF VanishPort
  <2> QED BY <1>8, <2>1, <2>2, Zenon DEF VanishPort, waiting, TypeInv, TypeOK, IdsKnown
<1> QED BY <1>3, <1>4, <1>5, <1>6, <1>7, <1>8 DEF Environment

\* The typed state with the bounds on the IDs is inductive.
LEMMA TypeStep == TypeInv /\ [Next]_vars => TypeInv'
<1> SUFFICES ASSUME TypeInv, [Next]_vars
             PROVE  TypeInv'
  OBVIOUS
<1>1. CASE UNCHANGED vars
  BY <1>1, Zenon DEF vars, TypeInv, TypeOK, IdsKnown
<1> QED BY <1>1, AccessStepType, PortStepType, PairStepType, ServerStepType, DeletionStepType,
           EnvironmentStepType DEF Next, Reconcile

\* The initial states are typed.
LEMMA TypeInit == Init => TypeInv
<1> SUFFICES ASSUME Init
             PROVE  TypeInv
  OBVIOUS
<1>1. Known(NewLBM, 0, 0)
  BY DEF NewLBM, Known, LBMObject, NoId
<1>2. made \in [port : Nat, server : Nat] /\ made.port = 0 /\ made.server = 0
  BY DEF Init
<1>3. Known(lbm, made.port, made.server) /\ Known(seen, made.port, made.server)
      /\ Known(mem, made.port, made.server)
  BY <1>1, <1>2 DEF Init
<1>4. pc \in Points /\ target \in 0 .. made.server /\ changes \in 0 .. MaxChanges
      /\ errors \in 0 .. MaxErrors
  BY <1>2, MachineAssumption DEF Init, Points, NoId
<1>5. dirty \in BOOLEAN
  BY Zenon DEF Init
<1>6. access = {} /\ ports = {} /\ paired = {} /\ servers = {} /\ todo = {}
  BY DEF Init
<1> QED BY <1>2, <1>3, <1>4, <1>5, <1>6, Zenon DEF TypeInv, TypeOK, IdsKnown, Known

\* The variables keep their types, and the status names only ports and servers
\* that OpenStack has created, whatever fails, vanishes or crashes.
THEOREM TypeCorrect == Spec => []TypeOK
<1>1. TypeInv => TypeOK
  BY DEF TypeInv
<1> QED BY <1>1, TypeInit, TypeStep, PTL DEF Spec

-----------------------------------------------------------------------------

Single(S) == \A x, y \in S : x = y

\* The controller creates a server or a port only when it finds none by name.
AtMostOne == Single(servers) /\ Single(ports)

\* A set without two different elements has at most one.
LEMMA SingleCardinality ==
  ASSUME NEW S, Single(S)
  PROVE  Cardinality(S) <= 1
<1>1. CASE S = {}
  BY <1>1, FS_EmptySet
<1>2. CASE S # {}
  <2>1. PICK x : x \in S
    BY <1>2
  <2>2. S = {x}
    BY <2>1 DEF Single
  <2> QED BY <2>2, FS_Singleton
<1> QED BY <1>1, <1>2

\* What a step does to the ports: it creates one where there is none, or takes
\* some away.
LEMMA PortsStep ==
  ASSUME TypeInv, [Next]_vars
  PROVE  \/ ports' = ports
         \/ reconcilePort /\ ports = {} /\ \E p : ports' = {p}
         \/ (deletePort \/ VanishPort) /\ ports' \subseteq ports
<1>1. CASE reconcilePort
  <2>1. PICK c \in PortCandidates : ports' = c[2] \/ ports' = ports
    BY <1>1 DEF reconcilePort, PortFails, MakePorts
  <2> QED BY <1>1, <2>1, SMTT(20) DEF PortCandidates
<1>2. CASE deletePort \/ VanishPort
  BY <1>2 DEF deletePort, DeletePort, DeletePortFails, VanishPort
<1>3. CASE BeginReconcile \/ BeginDeletion \/ FinishReconcile \/ deleteAccess \/ RemoveFinalizer
           \/ \E a \in Access : ReconcileAccess(a)
  BY <1>3 DEF BeginReconcile, BeginDeletion, FinishReconcile, deleteAccess, RemoveFinalizer,
              ReconcileAccess, openstack
<1>4. CASE reconcilePortAddressPair \/ reconcileServer
  BY <1>4 DEF reconcilePortAddressPair, reconcileServer, UseServer, createServer, ServerFails,
              ServerIsActive, WaitActiveFails, openstack
<1>5. CASE deleteServer
  BY <1>5 DEF deleteServer, DeleteServer, ServerIsDeleted, DeleteServerFails, ListOrphans,
              ForgetServer, openstack
<1>6. CASE DeleteLBM \/ Refresh \/ FiveMinutesPass \/ Crash \/ OpenstackProgress \/ OpenstackFault
  BY <1>6 DEF DeleteLBM, Refresh, FiveMinutesPass, Crash, OpenstackProgress, OpenstackFault,
              openstack
<1>7. CASE UNCHANGED vars
  BY <1>7 DEF vars
<1> QED BY <1>1, <1>2, <1>3, <1>4, <1>5, <1>6, <1>7 DEF Next, Reconcile, Environment

\* What a step does to the servers: createServer adds one where there is none,
\* which is not doomed; deleteServer dooms one; OpenStack changes or removes one.
LEMMA ServersStep ==
  ASSUME TypeInv, [Next]_vars
  PROVE  \/ servers' = servers
         \/ createServer /\ servers = {} /\ \E s : servers' = {s}
         \/ DeleteServer /\ \E id \in todo : target' = id /\ servers' = Doom(id)
         \/ /\ OpenstackProgress \/ OpenstackFault
            /\ \E s \in servers :
                  \/ servers' = servers \ {s}
                  \/ \E t : servers' = (servers \ {s}) \cup {t} /\ t.id = s.id /\ t.doomed = s.doomed
<1>1. CASE createServer
  BY <1>1 DEF createServer, NewServer, ServersByName
<1>2. CASE DeleteServer
  BY <1>2 DEF DeleteServer
<1>3. CASE OpenstackProgress \/ OpenstackFault
  <2>1. PICK s \in servers :
           ServerStarts(s) \/ ServerGone(s) \/ ServerBreaks(s) \/ ServerVanishes(s)
    BY <1>3 DEF OpenstackProgress, OpenstackFault
  <2>2. CASE ServerGone(s) \/ ServerVanishes(s)
    BY <1>3, <2>2 DEF ServerGone, ServerVanishes
  <2>3. CASE ServerStarts(s) \/ ServerBreaks(s)
    <3>1. PICK st : servers' = (servers \ {s}) \cup {[s EXCEPT !.status = st]}
      BY <2>3 DEF ServerStarts, ServerBreaks
    <3>2. [s EXCEPT !.status = st].id = s.id /\ [s EXCEPT !.status = st].doomed = s.doomed
      BY DEF TypeInv, TypeOK, Server
    <3> QED BY <1>3, <3>1, <3>2
  <2> QED BY <2>1, <2>2, <2>3
<1>4. CASE BeginReconcile \/ BeginDeletion \/ FinishReconcile \/ deleteAccess \/ RemoveFinalizer
           \/ \E a \in Access : ReconcileAccess(a)
  BY <1>4 DEF BeginReconcile, BeginDeletion, FinishReconcile, deleteAccess, RemoveFinalizer,
              ReconcileAccess, openstack
<1>5. CASE reconcilePort \/ reconcilePortAddressPair \/ deletePort
  BY <1>5 DEF reconcilePort, reconcilePortAddressPair, deletePort
<1>6. CASE UseServer \/ ServerFails \/ ServerIsActive \/ WaitActiveFails
  BY <1>6 DEF UseServer, ServerFails, ServerIsActive, WaitActiveFails, openstack
<1>7. CASE ServerIsDeleted \/ DeleteServerFails \/ ListOrphans \/ ForgetServer
  BY <1>7 DEF ServerIsDeleted, DeleteServerFails, ListOrphans, ForgetServer, openstack
<1>8. CASE DeleteLBM \/ Refresh \/ FiveMinutesPass \/ Crash \/ VanishPort
  BY <1>8 DEF DeleteLBM, Refresh, FiveMinutesPass, Crash, VanishPort, openstack
<1>9. CASE UNCHANGED vars
  BY <1>9 DEF vars
<1> QED BY <1>1, <1>2, <1>3, <1>4, <1>5, <1>6, <1>7, <1>8, <1>9
        DEF Next, Reconcile, Environment, reconcileServer, deleteServer

\* No step leads to a second port or server that is not going away.
LEMMA AtMostOneStep == TypeInv /\ AtMostOne /\ [Next]_vars => AtMostOne'
<1> SUFFICES ASSUME TypeInv, AtMostOne, [Next]_vars
             PROVE  AtMostOne'
  OBVIOUS
<1>1. Single(ports')
  BY PortsStep DEF AtMostOne, Single
<1>2. Single(servers')
  <2>1. ASSUME NEW id
        PROVE  Single(Doom(id))
    BY DEF Doom, AtMostOne, Single
  <2> QED BY <2>1, ServersStep DEF AtMostOne, Single
<1> QED BY <1>1, <1>2 DEF AtMostOne

\* A machine never has two servers or two ports, for any number of crashes, lost
\* answers, failed requests and vanished resources: reconcileServer and
\* reconcilePort look for them by name before they create one.
THEOREM MachineHasOneServerAndPort == Spec => []OnePerMachine
<1>1. Init => AtMostOne
  BY DEF Init, AtMostOne, Single
<1>2. AtMostOne => OnePerMachine
  BY SingleCardinality DEF AtMostOne, OnePerMachine
<1> QED BY <1>1, <1>2, TypeInit, TypeStep, AtMostOneStep, PTL DEF Spec

-----------------------------------------------------------------------------

Deletion == {"deleteById", "deleteByName", "deletePort", "deleteAccess", "removeFinalizer"}

Agrees(o) == o.finalizer = lbm.finalizer /\ o.portName = lbm.portName

\* Whatever there is, the finalizer holds back the object; ports are found again
\* by deletePort because the status has their name.
Guarded ==
    /\ lbm.finalizer => lbm.exists
    /\ lbm.exists /\ lbm.deleting => lbm.finalizer
    /\ seen.exists /\ seen.deleting => seen.finalizer
    /\ ~lbm.finalizer => access = {} /\ ports = {} /\ \A s \in servers : s.doomed
    /\ ports # {} => lbm.portName

\* What the controller works on is current in the entries that only it writes.
Current ==
    /\ ~dirty => Agrees(seen)
    /\ pc # "idle" => Agrees(mem) /\ lbm.finalizer
    /\ seen.deleting => lbm.deleting
    /\ pc \in Deletion => lbm.deleting

\* What the deletion has achieved at each point.
Achieved ==
    /\ pc = "deleteByName" =>
          \A s \in servers : s.doomed \/ s.id \in todo \/ (s.id = target /\ errors = MaxErrors)
    /\ pc \in {"deletePort", "deleteAccess", "removeFinalizer"} => \A s \in servers : s.doomed
    /\ pc \in {"deleteAccess", "removeFinalizer"} => ports = {}
    /\ pc = "removeFinalizer" => access = {}

GuardInv == Guarded /\ Current /\ Achieved

\* reconcilePort writes the name before it creates a port.
LEMMA PortPatch ==
  ASSUME TypeInv, reconcilePort
  PROVE  /\ lbm' = mem' /\ (dirty' = (dirty \/ lbm' # lbm)) /\ lbm'.finalizer = lbm.finalizer
         /\ lbm'.deleting = lbm.deleting /\ lbm'.exists = lbm.exists
         /\ lbm'.portName = TRUE \/ (ports' = ports /\ lbm'.portName = lbm.portName)
<1> DEFINE Fit(o) == /\ o.finalizer = lbm.finalizer /\ o.deleting = lbm.deleting
                     /\ o.exists = lbm.exists
                     /\ o.portName = TRUE \/ (ports' = ports /\ o.portName = lbm.portName)
<1>1. Fit(Named)
  BY DEF Named, TypeInv, TypeOK, LBMObject
<1>2. ASSUME NEW n
      PROVE  Fit([Named EXCEPT !.portId = n])
  BY DEF Named, TypeInv, TypeOK, LBMObject
<1>3. ports' = ports => Fit(lbm)
  OBVIOUS
<1> HIDE DEF Fit
<1>4. PICK c \in PortCandidates :
        \/ /\ MakePorts(c[2])
           /\ \/ PatchLBMStatus([Named EXCEPT !.portId = c[1]])
              \/ PatchLBMStatus([Named EXCEPT !.portId = NoId])
        \/ PortFails(c)
  BY DEF reconcilePort, PortNotFound
<1>5. \/ \E n : PatchLBMStatus([Named EXCEPT !.portId = n])
      \/ PatchLBMStatus(Named)
      \/ PatchLBMStatus(lbm) /\ ports' = ports
  BY <1>4, ZenonT(30) DEF PortFails, PortNotFound, MakePorts
<1>6. PICK o : PatchLBMStatus(o) /\ Fit(o)
  BY <1>1, <1>2, <1>3, <1>5
<1> QED BY <1>6 DEF Fit, PatchLBMStatus

\* What the protocol rests on is inductive, with at most one failure.
LEMMA GuardStep ==
  ASSUME MaxErrors <= 1
  PROVE  TypeInv /\ GuardInv /\ [Next]_vars => GuardInv'
<1> SUFFICES ASSUME TypeInv, GuardInv, [Next]_vars
             PROVE  GuardInv'
  OBVIOUS
<1> USE DEF GuardInv, Guarded, Current, Achieved, Agrees, TypeInv, TypeOK, LBMObject, Deletion
<1>1. CASE BeginReconcile
  BY <1>1 DEF BeginReconcile, MayReconcile, PatchLBMStatus, Goto, openstack, waiting
<1>2. CASE BeginDeletion
  BY <1>2 DEF BeginDeletion, MayReconcile, Goto, openstack
<1>3. CASE FinishReconcile
  BY <1>3 DEF FinishReconcile, PatchLBMStatus, KeepStatus, Stop, Goto, openstack
<1>4. CASE deleteAccess
  BY <1>4 DEF deleteAccess, AfterSA, Stop, Goto, openstack
<1>5. CASE RemoveFinalizer
  BY <1>5 DEF RemoveFinalizer, PatchLBMStatus, Stop, Goto, openstack
<1>6. ASSUME NEW a \in Access, ReconcileAccess(a)
      PROVE  GuardInv'
  BY <1>6 DEF ReconcileAccess, PatchLBMStatus, KeepStatus, After, Stop, Goto, openstack, Access
<1>7. CASE reconcilePort
  <2>1. /\ lbm' = mem' /\ (dirty' = (dirty \/ lbm' # lbm)) /\ lbm'.finalizer = lbm.finalizer
        /\ lbm'.deleting = lbm.deleting /\ lbm'.exists = lbm.exists
        /\ lbm'.portName = TRUE \/ (ports' = ports /\ lbm'.portName = lbm.portName)
    BY <1>7, PortPatch
  <2>2. pc = "port" /\ pc' \in {"pair", "idle"} /\ UNCHANGED <<seen, access, servers>>
    BY <1>7 DEF reconcilePort, Stop, Goto
  <2>3. Guarded' /\ Achieved'
    BY <2>1, <2>2
  <2>4. Current'
    BY <2>1, <2>2
  <2> QED BY <2>3, <2>4
<1>8. CASE reconcilePortAddressPair
  BY <1>8 DEF reconcilePortAddressPair, kubernetes, Stop, Goto, openstack, waiting
<1>9. CASE UseServer
  BY <1>9 DEF UseServer, DeleteFailedMachine, RecordServer, PatchLBMStatus, Stop, Goto, openstack, waiting
<1>10. CASE createServer
  BY <1>10 DEF createServer, NewServer, kubernetes, Stop, Goto, openstack, waiting
<1>11. CASE ServerFails \/ WaitActiveFails
  BY <1>11 DEF ServerFails, WaitActiveFails, kubernetes, Stop, Goto, openstack, waiting
<1>12. CASE ServerIsActive
  BY <1>12 DEF ServerIsActive, RecordServer, PatchLBMStatus, Stop, Goto, openstack, waiting
<1>13. CASE DeleteServer
  <2>1. PICK id \in todo :
           /\ todo' = todo \ {id} /\ target' = id
           /\ servers' = Doom(id) \/ (Fail /\ servers' = servers)
    BY <1>13 DEF DeleteServer
  <2>2. /\ UNCHANGED <<lbm, seen, mem, dirty, access, pc, ports>> /\ target = NoId
        /\ pc \in {"deleteById", "deleteByName"}
    BY <1>13 DEF DeleteServer, BetweenServers, DeletesServers, kubernetes
  <2>3. ASSUME NEW t \in servers'
        PROVE  \E s \in servers : /\ t.id = s.id /\ (s.doomed => t.doomed)
                                  /\ t.id = id => t.doomed \/ errors' = MaxErrors
    <3>1. CASE servers' = Doom(id)
      BY <3>1 DEF Doom, Server
    <3>2. CASE Fail /\ servers' = servers
      BY <3>2, MachineAssumption DEF Fail
    <3> QED BY <2>1, <3>1, <3>2
  <2>4. ASSUME pc = "deleteByName", NEW t \in servers'
        PROVE  t.doomed \/ t.id \in todo' \/ (t.id = target' /\ errors' = MaxErrors)
    <3>1. PICK s \in servers : /\ t.id = s.id /\ (s.doomed => t.doomed)
                               /\ t.id = id => t.doomed \/ errors' = MaxErrors
      BY <2>3
    <3>2. s.id # NoId
      BY DEF Server
    <3> QED BY <2>1, <2>2, <2>4, <3>1, <3>2
  <2> QED BY <2>2, <2>3, <2>4
<1>14. CASE ServerIsDeleted
  BY <1>14 DEF ServerIsDeleted, DeletesServers, Fail, kubernetes, openstack, Ids
<1>15. CASE DeleteServerFails
  BY <1>15 DEF DeleteServerFails, Stop, Goto, kubernetes, openstack
<1>16. CASE ListOrphans
  BY <1>16 DEF ListOrphans, Ids, Goto, kubernetes, openstack
<1>17. CASE ForgetServer
  BY <1>17 DEF ForgetServer, BetweenServers, RecordServer, PatchLBMStatus, Server, NoId, Goto, openstack, waiting
<1>18. CASE deletePort
  BY <1>18, ZenonT(30) DEF deletePort, DeletePort, DeletePortFails, PatchLBMStatus, KeepStatus, Stop, Goto, waiting
<1>19. CASE DeleteLBM
  BY <1>19 DEF DeleteLBM, openstack, waiting
<1>20. CASE Refresh \/ FiveMinutesPass
  BY <1>20 DEF Refresh, FiveMinutesPass, openstack, waiting
<1>21. CASE Crash
  BY <1>21 DEF Crash, kubernetes, Stop, Goto, openstack
<1>22. CASE OpenstackProgress \/ OpenstackFault
  BY <1>22, OpenstackServers, ZenonT(30) DEF OpenstackProgress, OpenstackFault, waiting
<1>23. CASE VanishPort
  BY <1>23 DEF VanishPort, waiting
<1>24. CASE UNCHANGED vars
  BY <1>24 DEF vars
<1> QED BY <1>1, <1>2, <1>3, <1>4, <1>5, <1>6, <1>7, <1>8, <1>9, <1>10, <1>11, <1>12, <1>13,
           <1>14, <1>15, <1>16, <1>17, <1>18, <1>19, <1>20, <1>21, <1>22, <1>23, <1>24
        DEF Next, Reconcile, Environment, reconcileServer, deleteServer

\* It holds in the initial states.
LEMMA GuardInit == Init => GuardInv
BY DEF Init, NewLBM, GuardInv, Guarded, Current, Achieved, Agrees, Deletion

\* With at most one failed request or crash the port and the access of the
\* yawollet are taken away only after OpenStack has accepted to delete every
\* server: an error that deleteServerAndWait takes for success is made up for
\* by its wait and by the second pass over the servers by name.
THEOREM ServersAreDeletedFirst ==
  ASSUME MaxErrors <= 1
  PROVE  Spec => ServerGoesFirst
<1>1. ASSUME TypeInv, GuardInv, Reconcile, ports \ ports' # {} \/ access \ access' # {}
      PROVE  \A s \in servers : s.doomed
  <2>1. CASE ports \ ports' # {}
    <3>1. UNCHANGED changes
      BY <1>1
         DEF Reconcile, BeginReconcile, ReconcileAccess, reconcilePort, reconcilePortAddressPair,
             reconcileServer, UseServer, createServer, ServerFails, ServerIsActive, WaitActiveFails,
             FinishReconcile, BeginDeletion, deleteServer, DeleteServer, ServerIsDeleted,
             DeleteServerFails, ListOrphans, ForgetServer, deletePort, deleteAccess, RemoveFinalizer
    <3>2. ~VanishPort
      BY <1>1, <3>1, MachineAssumption DEF VanishPort, Change, TypeInv, TypeOK
    <3>3. deletePort
      BY <1>1, <2>1, <3>2, PortsStep DEF Next
    <3> QED BY <1>1, <3>3 DEF deletePort, GuardInv, Achieved
  <2>2. CASE access \ access' # {}
    <3>1. deleteAccess
      BY <1>1, <2>2
         DEF Reconcile, BeginReconcile, ReconcileAccess, reconcilePort, reconcilePortAddressPair,
             reconcileServer, UseServer, createServer, ServerFails, ServerIsActive, WaitActiveFails,
             FinishReconcile, BeginDeletion, deleteServer, DeleteServer, ServerIsDeleted,
             DeleteServerFails, ListOrphans, ForgetServer, deletePort, RemoveFinalizer, kubernetes
    <3> QED BY <1>1, <3>1 DEF deleteAccess, GuardInv, Achieved
  <2> QED BY <1>1, <2>1, <2>2
<1> QED BY <1>1, TypeInit, TypeStep, GuardInit, GuardStep, PTL DEF Spec, ServerGoesFirst

-----------------------------------------------------------------------------
Owner == IF ~lbm.exists THEN "gone" ELSE IF lbm.finalizer THEN "guarded" ELSE "open"

\* What a step does to the object, as the finalizer protocol sees it.
LEMMA OwnerStep ==
  ASSUME TypeInv, GuardInv, [Next]_vars
  PROVE  \/ Owner' = Owner
         \/ Owner = "open" /\ Owner' = "guarded" /\ UNCHANGED <<access, ports, servers>>
         \/ Owner = "open" /\ Owner' = "gone"
         \/ /\ Owner = "guarded" /\ Owner' = "gone" /\ UNCHANGED <<access, ports, servers>>
            /\ access = {} /\ ports = {} /\ \A s \in servers : s.doomed
<1> USE DEF Owner, TypeInv, TypeOK, LBMObject
<1>1. CASE BeginReconcile
  BY <1>1 DEF BeginReconcile, PatchLBMStatus, openstack
<1>2. CASE RemoveFinalizer
  BY <1>2 DEF RemoveFinalizer, PatchLBMStatus, openstack, GuardInv, Guarded, Current, Achieved
<1>3. CASE DeleteLBM
  BY <1>3 DEF DeleteLBM, GuardInv, Guarded
<1>4. CASE BeginDeletion \/ deleteAccess \/ reconcilePortAddressPair
  BY <1>4 DEF BeginDeletion, deleteAccess, reconcilePortAddressPair, kubernetes
<1>5. CASE FinishReconcile
  BY <1>5 DEF FinishReconcile, PatchLBMStatus, KeepStatus
<1>6. ASSUME NEW a \in Access, ReconcileAccess(a)
      PROVE  Owner' = Owner
  BY <1>6 DEF ReconcileAccess, PatchLBMStatus, KeepStatus
<1>7. CASE reconcilePort
  BY <1>7, PortPatch
<1>8. CASE reconcileServer
  BY <1>8 DEF reconcileServer, UseServer, createServer, ServerFails, ServerIsActive, WaitActiveFails,
              DeleteFailedMachine, RecordServer, PatchLBMStatus, kubernetes
<1>9. CASE deleteServer
  BY <1>9 DEF deleteServer, DeleteServer, ServerIsDeleted, DeleteServerFails, ListOrphans,
              ForgetServer, RecordServer, PatchLBMStatus, kubernetes
<1>10. CASE deletePort
  BY <1>10 DEF deletePort, DeletePort, DeletePortFails, PatchLBMStatus, KeepStatus
<1>11. CASE Refresh \/ FiveMinutesPass \/ Crash \/ OpenstackProgress \/ OpenstackFault \/ VanishPort
  BY <1>11 DEF Refresh, FiveMinutesPass, Crash, OpenstackProgress, OpenstackFault, VanishPort,
               kubernetes
<1>12. CASE UNCHANGED vars
  BY <1>12 DEF vars
<1> QED BY <1>1, <1>2, <1>3, <1>4, <1>5, <1>6, <1>7, <1>8, <1>9, <1>10, <1>11, <1>12
        DEF Next, Reconcile, Environment

\* The resources that the protocol speaks of.
Resources == ({"access"} \X Access) \cup ({"port", "server"} \X Nat)

\* What the object owns are resources of the protocol.
LEMMA ResourcesType ==
  ASSUME NEW A, A \subseteq Access, NEW P, P \subseteq Nat, NEW S, S \subseteq Server
  PROVE  ({"access"} \X A) \cup ({"port"} \X P) \cup {<<"server", s.id>> : s \in {t \in S : ~t.doomed}}
           \subseteq Resources
<1>1. {"access"} \X A \subseteq Resources
  BY DEF Resources
<1>2. {"port"} \X P \subseteq Resources
  BY DEF Resources
<1>3. {<<"server", s.id>> : s \in {t \in S : ~t.doomed}} \subseteq Resources
  BY DEF Server, Resources
<1> QED BY <1>1, <1>2, <1>3

\* Without access objects, ports and live servers nothing is owned.
LEMMA NothingOwned ==
  ASSUME access = {}, ports = {}, \A s \in servers : s.doomed
  PROVE  Owned = {}
BY DEF Owned

\* Every step is one of the protocol, or changes neither object nor resources.
LEMMA ProtocolStep ==
  ASSUME TypeInv, TypeInv', GuardInv, GuardInv', [Next]_vars
  PROVE  [Protocol!Next]_<<Owner, Owned>>
<1>1. Owned' \subseteq Resources
  <2>1. access' \subseteq Access /\ ports' \subseteq Nat /\ servers' \subseteq Server
    BY DEF TypeInv, TypeOK
  <2> QED BY <2>1, ResourcesType, ZenonT(30) DEF Owned
<1>2. Owner # "guarded" => Owned = {}
  BY NothingOwned DEF Owner, GuardInv, Guarded
<1>3. Owner' # "guarded" => Owned' = {}
  BY DEF Owner, GuardInv, Guarded, Owned
<1>4. UNCHANGED <<access, ports, servers>> => Owned' = Owned
  BY DEF Owned
<1> USE DEF Protocol!Next
<1>5. CASE Owner' = Owner /\ Owner = "guarded"
  BY <1>1, <1>5 DEF Protocol!Acquire, Owner, Resources
<1>6. CASE Owner' = Owner /\ Owner # "guarded"
  BY <1>2, <1>3, <1>6
<1>7. CASE Owner = "open" /\ Owner' = "guarded" /\ UNCHANGED <<access, ports, servers>>
  BY <1>4, <1>7 DEF Protocol!Guard, Owner
<1>8. CASE Owner = "open" /\ Owner' = "gone"
  BY <1>2, <1>3, <1>8 DEF Protocol!Delete, Owner
<1>9. CASE /\ Owner = "guarded" /\ Owner' = "gone" /\ UNCHANGED <<access, ports, servers>>
           /\ access = {} /\ ports = {} /\ \A s \in servers : s.doomed
  BY <1>4, <1>9, NothingOwned DEF Protocol!Release, Owner
<1> QED BY <1>5, <1>6, <1>7, <1>8, <1>9, OwnerStep

\* With at most one failed request or crash, and whatever the others do, the
\* controller keeps to the finalizer protocol: it creates access objects, ports
\* and servers only while the finalizer holds back the LoadBalancerMachine, and
\* gives the finalizer away when none is left but servers that OpenStack deletes.
THEOREM RefinesFinalizerProtocol ==
  ASSUME MaxErrors <= 1
  PROVE  Spec => ImplementsFinalizerProtocol
<1>1. Init => Protocol!Init
  BY DEF Init, NewLBM, Protocol!Init, Owned
<1>2. TypeInv /\ TypeInv' /\ GuardInv /\ GuardInv' /\ [Next]_vars => [Protocol!Next]_Protocol!vars
  BY ProtocolStep DEF Protocol!vars, Owner
<1> QED BY <1>1, <1>2, TypeInit, TypeStep, GuardInit, GuardStep, PTL
        DEF Spec, ImplementsFinalizerProtocol, Protocol!Spec

\* A machine that no finalizer holds back, above all one that is gone, has no
\* access object, no port and no server but one that OpenStack deletes: what
\* FinalizerGuardsResources says of the protocol, said of the controller.
THEOREM MachineLeavesNothing ==
  ASSUME MaxErrors <= 1
  PROVE  Spec => []Protocol!NothingLeft
<1> USE DEF Protocol!NothingLeft
<1>1. Protocol!Init => Protocol!NothingLeft
  BY DEF Protocol!Init
<1>2. Protocol!NothingLeft /\ [Protocol!Next]_Protocol!vars => Protocol!NothingLeft'
  BY DEF Protocol!Next, Protocol!Guard, Protocol!Acquire, Protocol!Lose, Protocol!Release,
         Protocol!Delete, Protocol!vars
<1> QED BY <1>1, <1>2, RefinesFinalizerProtocol, PTL
        DEF ImplementsFinalizerProtocol, Protocol!Spec

=============================================================================
