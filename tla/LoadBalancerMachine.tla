------------------------ MODULE LoadBalancerMachine ------------------------
(***************************************************************************)
(* The LoadBalancerMachine controller: what one machine needs in           *)
(* Kubernetes (service account, token secret, role, role binding) and in   *)
(* OpenStack (port, server), from Reconcile of controllers/                *)
(* yawol-controller/loadbalancermachine/loadbalancermachine_controller.go. *)
(*                                                                         *)
(* A step stands for one of the functions that Reconcile calls; those that *)
(* wait for a server, up to 10 minutes, take a step before the wait and    *)
(* one after it.  Meanwhile the machine may be deleted, the server may     *)
(* fail, the controller may crash and single requests may fail.  The cache *)
(* has caught up with the controller's own writes before it reconciles     *)
(* again, not with those of the others.                                    *)
(***************************************************************************)
EXTENDS Integers, FiniteSets

CONSTANTS
    Vanishing,   \* subset of {"port", "server"}: what an operator may delete
    MaxChanges,  \* bound on failing and vanishing servers and ports
    MaxErrors    \* bound on failed requests and crashes

ASSUME MachineAssumption ==
    /\ Vanishing \subseteq {"port", "server"}
    /\ MaxChanges \in Nat /\ MaxErrors \in Nat

VARIABLES
    lbm,      \* the LoadBalancerMachine in the API server
    seen,     \* the LoadBalancerMachine in the cache of the controller
    mem,      \* the copy that the current reconcile works on
    pc,       \* the function that the current reconcile has come to
    dirty,    \* the controller has written since the cache was current
    access,   \* Kubernetes: the objects that give the yawollet access
    ports,    \* OpenStack: the ports with the name of the machine
    paired,   \* OpenStack: the ports that may use the virtual IP
    servers,  \* OpenStack: the servers with the name of the machine
    made,     \* OpenStack: how many ports and servers were ever created
    todo,     \* the servers that deleteServer has still to delete
    target,   \* the server that the controller waits for
    changes, errors

kubernetes == <<lbm, mem, dirty, access>>
openstack == <<ports, paired, servers, made>>
waiting == <<todo, target>>
vars == <<lbm, seen, mem, pc, dirty, access, ports, paired, servers, made, todo, target,
          changes, errors>>

NoId == 0        \* OpenStack IDs are counted from 1
Access == {"sa", "secret", "role", "rolebinding"}

(***************************************************************************)
(* secret, portName, portId and serverId are the entries of the status;    *)
(* recent says that LastOpenstackReconcile is less than 5 minutes old.     *)
(* The names of service account and role are written but never read.  A    *)
(* doomed server is one that OpenStack has accepted to delete.             *)
(***************************************************************************)
LBMObject == [exists : BOOLEAN, deleting : BOOLEAN, finalizer : BOOLEAN, secret : BOOLEAN,
              portName : BOOLEAN, portId : Nat, serverId : Nat, recent : BOOLEAN]
Server == [id : Nat \ {NoId}, status : {"BUILD", "ACTIVE", "ERROR"}, doomed : BOOLEAN]
Points == {"idle", "sa", "secret", "role", "rolebinding", "port", "pair", "server",
           "waitActive", "finish", "deleteById", "deleteByName", "deletePort",
           "deleteAccess", "removeFinalizer"}

TypeOK ==
    /\ lbm \in LBMObject /\ seen \in LBMObject /\ mem \in LBMObject
    /\ pc \in Points /\ dirty \in BOOLEAN
    /\ access \subseteq Access
    /\ made \in [port : Nat, server : Nat]
    /\ lbm.portId <= made.port /\ lbm.serverId <= made.server
    /\ ports \subseteq 1 .. made.port /\ paired \subseteq 1 .. made.port
    /\ servers \subseteq Server /\ \A s \in servers : s.id <= made.server
    /\ todo \subseteq 1 .. made.server /\ target \in 0 .. made.server
    /\ changes \in 0 .. MaxChanges /\ errors \in 0 .. MaxErrors

-----------------------------------------------------------------------------
(***************************************************************************)
(* Steps of a reconcile                                                    *)
(***************************************************************************)
Ids == {s.id : s \in servers}

Fail == errors < MaxErrors /\ errors' = errors + 1

\* PatchLBMStatus and RemoveFromLBMStatus write the given entries without
\* regard to the copy, which they replace by the answer of the API server.
PatchLBMStatus(o) ==
    /\ lbm' = o /\ mem' = o
    /\ dirty' = (dirty \/ o # lbm)

KeepStatus == UNCHANGED <<lbm, mem, dirty>>

Goto(point) == pc' = point

\* The reconcile ends; the machine is requeued.
Stop == Goto("idle")

MayReconcile == pc = "idle" /\ seen.exists /\ ~dirty

\* The finalizer comes before anything is created; the API server accepts it
\* only before the deletion.
BeginReconcile ==
    /\ MayReconcile /\ ~seen.deleting
    /\ \/ seen.finalizer /\ mem' = seen /\ UNCHANGED <<lbm, dirty>>
       \/ ~seen.finalizer /\ lbm.exists /\ ~lbm.deleting
          /\ PatchLBMStatus([lbm EXCEPT !.finalizer = TRUE])
    /\ Goto("sa")
    /\ UNCHANGED <<seen, access, openstack, waiting, changes, errors>>

LoadBalancerMachineOpenstackReconcileIsNeeded(o) == ~o.recent

After(a) ==
    CASE a = "sa" -> "secret"
      [] a = "secret" -> "role"
      [] a = "role" -> "rolebinding"
      [] a = "rolebinding" ->
            IF LoadBalancerMachineOpenstackReconcileIsNeeded(mem) THEN "port" ELSE "idle"

\* reconcileSA, reconcileSecret, reconcileRole and reconcileRoleBinding.  A
\* secret that is in the status is not looked for again.  A failure comes
\* before or after the creation.
ReconcileAccess(a) ==
    /\ pc = a
    /\ \/ /\ access' = IF a = "secret" /\ mem.secret THEN access ELSE access \cup {a}
          /\ IF a = "secret" /\ ~mem.secret THEN PatchLBMStatus([lbm EXCEPT !.secret = TRUE]) ELSE KeepStatus
          /\ Goto(After(a))
          /\ UNCHANGED errors
       \/ Fail /\ access' \in {access, access \cup {a}} /\ KeepStatus /\ Stop
    /\ UNCHANGED <<seen, openstack, waiting, changes>>

\* The port that reconcilePort uses, with the ports there are then: the one in
\* the status, else one found by name, else a new one.
PortCandidates ==
    IF mem.portId # NoId THEN {<<mem.portId, ports>>}
    ELSE IF ports # {} THEN {<<p, ports>> : p \in ports}
    ELSE {<<made.port + 1, {made.port + 1}>>}

MakePorts(S) ==
    /\ ports' = S
    /\ made' = [made EXCEPT !.port = IF S \subseteq 1 .. @ THEN @ ELSE @ + 1]

Named == [lbm EXCEPT !.portName = TRUE]

PortNotFoundKept(p) == PatchLBMStatus([Named EXCEPT !.portId = p])

\* The lookup by ID gives an HTTP error: the ID is taken out of the status.
PortNotFound(p) == PatchLBMStatus([Named EXCEPT !.portId = NoId])

\* One request fails: the patch of the name or the list, the creation or the
\* security group, the patch of the ID, the lookup.
PortFails(c) ==
    \/ MakePorts(ports) /\ \E o \in {lbm, Named} : PatchLBMStatus(o)
    \/ MakePorts(c[2]) /\ \E o \in {Named, [Named EXCEPT !.portId = c[1]]} : PatchLBMStatus(o)
    \/ MakePorts(c[2]) /\ PortNotFound(c[1])

reconcilePort ==
    /\ pc = "port"
    /\ \E c \in PortCandidates :
        \/ /\ MakePorts(c[2])
           /\ IF c[1] \in c[2]
                THEN PatchLBMStatus([Named EXCEPT !.portId = c[1]]) /\ Goto("pair")
                ELSE PortNotFound(c[1]) /\ Stop
           /\ UNCHANGED errors
        \/ Fail /\ PortFails(c) /\ Stop
    /\ UNCHANGED <<seen, access, paired, servers, waiting, changes>>

\* The port may send with the addresses of the LoadBalancer's port.
reconcilePortAddressPair ==
    /\ pc = "pair"
    /\ \/ /\ mem.portId \in ports
          /\ paired' = paired \cup {mem.portId}
          /\ Goto("server") /\ UNCHANGED errors
       \/ mem.portId \notin ports /\ Stop /\ UNCHANGED <<paired, errors>>
       \/ Fail /\ Stop /\ UNCHANGED paired
    /\ UNCHANGED <<seen, kubernetes, ports, servers, made, waiting, changes>>

-----------------------------------------------------------------------------
(***************************************************************************)
(* reconcileServer                                                         *)
(***************************************************************************)
ServersByRecordedId == {s \in servers : s.id = mem.serverId}

ServersByName == servers

RecordPortAsServer(id) == PatchLBMStatus([lbm EXCEPT !.serverId = mem.portId])

RecordServer(id) == PatchLBMStatus([lbm EXCEPT !.serverId = id])

\* A server in state ERROR: the LoadBalancerMachine is deleted.
DeleteFailedMachine ==
    /\ lbm' = [lbm EXCEPT !.deleting = TRUE]
    /\ dirty' = TRUE
    /\ UNCHANGED mem

UseServer ==
    /\ pc = "server"
    /\ \E s \in ServersByName :
          IF s.status = "ERROR" THEN DeleteFailedMachine ELSE RecordServer(s.id)
    /\ Goto("finish")
    /\ UNCHANGED <<seen, access, openstack, waiting, changes, errors>>

NewServer ==
    /\ servers' = servers \cup {[id |-> made.server + 1, status |-> "BUILD", doomed |-> FALSE]}
    /\ made' = [made EXCEPT !.server = @ + 1]

\* createServer up to the wait.  The answer of OpenStack may get lost.
createServer ==
    /\ pc = "server"
    /\ ServersByName = {} /\ mem.portId \in ports
    /\ NewServer
    /\ \/ target' = made'.server /\ Goto("waitActive") /\ UNCHANGED errors
       \/ Fail /\ Stop /\ UNCHANGED target
    /\ UNCHANGED <<seen, kubernetes, ports, paired, todo, changes>>

\* The list, the secret, the patch fail, or the port is gone.
ServerFails ==
    /\ pc = "server"
    /\ \/ ServersByName = {} /\ mem.portId \notin ports /\ UNCHANGED errors
       \/ Fail
    /\ Stop
    /\ UNCHANGED <<seen, kubernetes, openstack, waiting, changes>>

ServerIsActive ==
    /\ pc = "waitActive"
    /\ \E s \in servers : s.id = target /\ s.status = "ACTIVE"
    /\ RecordServer(target)
    /\ target' = NoId
    /\ Goto("finish")
    /\ UNCHANGED <<seen, access, openstack, todo, changes, errors>>

\* The server fails or is gone, 10 minutes are over, or a request fails.
WaitActiveFails ==
    /\ pc = "waitActive"
    /\ \/ UNCHANGED errors /\ \A s \in servers : s.id = target => s.status # "ACTIVE"
       \/ Fail
    /\ target' = NoId
    /\ Stop
    /\ UNCHANGED <<seen, kubernetes, openstack, todo, changes>>

\* LastOpenstackReconcile
FinishReconcile ==
    /\ pc = "finish"
    /\ \/ PatchLBMStatus([lbm EXCEPT !.recent = TRUE]) /\ UNCHANGED errors
       \/ Fail /\ KeepStatus
    /\ Stop
    /\ UNCHANGED <<seen, access, openstack, waiting, changes>>

reconcileServer == UseServer \/ createServer \/ ServerFails \/ ServerIsActive \/ WaitActiveFails

-----------------------------------------------------------------------------
(***************************************************************************)
(* The deletion: server, port, access, finalizer                           *)
(***************************************************************************)
BeginDeletion ==
    /\ MayReconcile /\ seen.deleting
    /\ mem' = seen
    /\ todo' = {seen.serverId} \ {NoId}
    /\ Goto("deleteById")
    /\ UNCHANGED <<lbm, seen, dirty, access, openstack, target, changes, errors>>

\* deleteServer deletes the server in the status first and then, with a new
\* list, all servers with the name of the machine.
DeletesServers == pc \in {"deleteById", "deleteByName"}
BetweenServers == DeletesServers /\ target = NoId

Doom(id) == {IF s.id = id THEN [s EXCEPT !.doomed = TRUE] ELSE s : s \in servers}

\* deleteServerAndWait up to the wait.  An HTTP error counts as already deleted.
DeleteServer ==
    /\ BetweenServers
    /\ \E id \in todo :
        /\ todo' = todo \ {id} /\ target' = id
        /\ \/ servers' = Doom(id) /\ UNCHANGED errors
           \/ Fail /\ UNCHANGED servers
    /\ UNCHANGED <<seen, kubernetes, pc, ports, paired, made, changes>>

ServerIsDeletedAtOnce ==
    /\ DeletesServers /\ target # NoId
    /\ target' = NoId
    /\ UNCHANGED <<seen, kubernetes, pc, openstack, todo, changes, errors>>

\* waitForServerStatus: the server is not found; any HTTP error is taken for that.
ServerIsDeleted ==
    /\ DeletesServers /\ target # NoId
    /\ (target \notin Ids /\ UNCHANGED errors) \/ Fail
    /\ target' = NoId
    /\ UNCHANGED <<seen, kubernetes, pc, openstack, todo, changes>>

\* The server is still there after 10 minutes, or it is in state BUILD, which is
\* not expected; or a request fails without an HTTP status.
DeleteServerFails ==
    /\ DeletesServers
    /\ (target \in Ids /\ UNCHANGED errors) \/ Fail
    /\ Stop
    /\ todo' = {} /\ target' = NoId
    /\ UNCHANGED <<seen, kubernetes, openstack, changes>>

SkipOrphans ==
    /\ BetweenServers /\ pc = "deleteById" /\ todo = {}
    /\ Goto("deleteByName")
    /\ UNCHANGED <<seen, kubernetes, openstack, waiting, changes, errors>>

ListOrphans ==
    /\ BetweenServers /\ pc = "deleteById" /\ todo = {}
    /\ todo' = Ids
    /\ Goto("deleteByName")
    /\ UNCHANGED <<seen, kubernetes, openstack, target, changes, errors>>

ForgetServer ==
    /\ BetweenServers /\ pc = "deleteByName" /\ todo = {}
    /\ RecordServer(NoId)
    /\ Goto("deletePort")
    /\ UNCHANGED <<seen, access, openstack, waiting, changes, errors>>

deleteServer ==
    DeleteServer \/ ServerIsDeleted \/ DeleteServerFails \/ ListOrphans \/ ForgetServer

DeletePortKeepingId ==
    \/ mem.portId # NoId /\ ports' = ports \ {mem.portId} /\ KeepStatus /\ Stop
    \/ mem.portId = NoId /\ UNCHANGED ports /\ KeepStatus /\ Goto("deleteAccess")

\* deletePort: by the ID until OpenStack does not know it, then by the name,
\* one port in each reconcile.
DeletePort ==
    \/ /\ mem.portId \in ports
       /\ ports' = ports \ {mem.portId} /\ KeepStatus /\ Stop
    \/ /\ mem.portId # NoId /\ mem.portId \notin ports
       /\ PatchLBMStatus([lbm EXCEPT !.portId = NoId]) /\ UNCHANGED ports /\ Stop
    \/ /\ mem.portId = NoId /\ mem.portName /\ ports # {}
       /\ \E p \in ports : ports' = ports \ {p}
       /\ KeepStatus /\ Stop
    \/ /\ mem.portId = NoId /\ (mem.portName => ports = {})
       /\ PatchLBMStatus([lbm EXCEPT !.portName = FALSE]) /\ UNCHANGED ports
       /\ Goto("deleteAccess")

\* An HTTP error of the deletion by ID counts as not found.
DeletePortFails ==
    /\ UNCHANGED ports /\ Stop
    /\ \/ KeepStatus
       \/ mem.portId # NoId /\ PatchLBMStatus([lbm EXCEPT !.portId = NoId])

deletePort ==
    /\ pc = "deletePort"
    /\ (DeletePort /\ UNCHANGED errors) \/ (Fail /\ DeletePortFails)
    /\ UNCHANGED <<seen, access, paired, servers, made, waiting, changes>>

\* deleteSA, deleteRoleBinding, deleteRole.  Kubernetes deletes the token secret
\* of a service account that is gone.
AfterSA == access \ {"sa", "secret"}

deleteAccess ==
    /\ pc = "deleteAccess"
    /\ \/ access' = {} /\ Goto("removeFinalizer") /\ UNCHANGED errors
       \/ Fail /\ access' \in {access, AfterSA, AfterSA \ {"rolebinding"}, {}} /\ Stop
    /\ UNCHANGED <<lbm, seen, mem, dirty, openstack, waiting, changes>>

RemoveFinalizer ==
    /\ pc = "removeFinalizer"
    /\ PatchLBMStatus([lbm EXCEPT !.finalizer = FALSE, !.exists = FALSE])
    /\ Stop
    /\ UNCHANGED <<seen, access, openstack, waiting, changes, errors>>

-----------------------------------------------------------------------------
(***************************************************************************)
(* The environment: the other controllers, OpenStack, operator, crashes    *)
(***************************************************************************)
Change == changes < MaxChanges /\ changes' = changes + 1

\* By the set controller or the LBMStatusReconciler; without the finalizer the
\* object disappears at once.
DeleteLBM ==
    /\ lbm.exists /\ ~lbm.deleting
    /\ lbm' = [lbm EXCEPT !.deleting = TRUE, !.exists = lbm.finalizer]
    /\ UNCHANGED <<seen, mem, pc, dirty, access, openstack, waiting, changes, errors>>

Refresh ==
    /\ seen' = lbm /\ dirty' = FALSE
    /\ UNCHANGED <<lbm, mem, pc, access, openstack, waiting, changes, errors>>

FiveMinutesPass ==
    /\ lbm.recent
    /\ lbm' = [lbm EXCEPT !.recent = FALSE]
    /\ seen' = [seen EXCEPT !.recent = FALSE]
    /\ UNCHANGED <<mem, pc, dirty, access, openstack, waiting, changes, errors>>

ServerStarts(s) ==
    /\ s.status = "BUILD" /\ ~s.doomed
    /\ servers' = (servers \ {s}) \cup {[s EXCEPT !.status = "ACTIVE"]}
    /\ UNCHANGED changes

ServerBreaks(s) ==
    /\ Change
    /\ s.status # "ERROR"
    /\ servers' = (servers \ {s}) \cup {[s EXCEPT !.status = "ERROR"]}

ServerGone(s) ==
    /\ s.doomed
    /\ servers' = servers \ {s}
    /\ UNCHANGED changes

ServerVanishes(s) ==
    /\ Change
    /\ "server" \in Vanishing
    /\ servers' = servers \ {s}

OpenstackProgress ==
    /\ \E s \in servers : ServerStarts(s) \/ ServerGone(s)
    /\ UNCHANGED <<lbm, seen, mem, pc, dirty, access, ports, paired, made, waiting, errors>>

OpenstackFault ==
    /\ \E s \in servers : ServerBreaks(s) \/ ServerVanishes(s)
    /\ UNCHANGED <<lbm, seen, mem, pc, dirty, access, ports, paired, made, waiting, errors>>

VanishPort ==
    /\ Change
    /\ "port" \in Vanishing /\ ports # {}
    /\ ports' = {}
    /\ UNCHANGED <<lbm, seen, mem, pc, dirty, access, paired, servers, made, waiting, errors>>

Crash ==
    /\ pc # "idle" /\ Fail
    /\ Stop
    /\ todo' = {} /\ target' = NoId
    /\ UNCHANGED <<seen, kubernetes, openstack, changes>>

-----------------------------------------------------------------------------
NewLBM == [exists |-> TRUE, deleting |-> FALSE, finalizer |-> FALSE, secret |-> FALSE,
           portName |-> FALSE, portId |-> NoId, serverId |-> NoId, recent |-> FALSE]

Init ==
    /\ lbm = NewLBM /\ seen = NewLBM /\ mem = NewLBM
    /\ pc = "idle" /\ dirty = FALSE
    /\ access = {} /\ ports = {} /\ paired = {} /\ servers = {}
    /\ made = [port |-> 0, server |-> 0]
    /\ todo = {} /\ target = NoId
    /\ changes = 0 /\ errors = 0

Reconcile ==
    \/ BeginReconcile \/ \E a \in Access : ReconcileAccess(a)
    \/ reconcilePort \/ reconcilePortAddressPair \/ reconcileServer \/ FinishReconcile
    \/ BeginDeletion \/ deleteServer \/ deletePort \/ deleteAccess \/ RemoveFinalizer

Environment ==
    \/ DeleteLBM \/ Refresh \/ FiveMinutesPass \/ Crash
    \/ OpenstackProgress \/ OpenstackFault \/ VanishPort

Next == Reconcile \/ Environment

Spec == Init /\ [][Next]_vars

(***************************************************************************)
(* The machine is requeued, after an error too, and every 5 minutes; the   *)
(* informer catches up; OpenStack starts a server or gives up on it, and   *)
(* finishes the deletion of a server it has accepted.                      *)
(***************************************************************************)
Fairness ==
    /\ WF_vars(Reconcile) /\ WF_vars(Refresh) /\ WF_vars(FiveMinutesPass)
    /\ WF_vars(OpenstackProgress)

FairSpec == Spec /\ Fairness

-----------------------------------------------------------------------------
(***************************************************************************)
(* Properties                                                              *)
(***************************************************************************)

Owned ==
    ({"access"} \X access) \cup ({"port"} \X ports)
    \cup {<<"server", s.id>> : s \in {t \in servers : ~t.doomed}}

Protocol == INSTANCE FinalizerProtocol WITH
    Resource <- ({"access"} \X Access) \cup ({"port", "server"} \X Nat),
    owner <- IF ~lbm.exists THEN "gone" ELSE IF lbm.finalizer THEN "guarded" ELSE "open",
    held <- Owned

\* Access objects, ports and servers are created only while the finalizer holds
\* back the LoadBalancerMachine, and once it is gone none is left, except servers
\* that OpenStack is about to delete: also when the controller stopped between
\* creating a server or port and noting its ID, or when the machine was deleted
\* before its finalizer was set or while the controller waited for ACTIVE.
ImplementsFinalizerProtocol == Protocol!Spec

\* A machine has at most one server and one port: after a crash or a lost answer
\* reconcileServer and reconcilePort find them by name.
OnePerMachine == Cardinality(servers) <= 1 /\ Cardinality(ports) <= 1

\* The port and the access of the yawollet are taken away only after OpenStack has
\* at least accepted to delete the server, whichever request failed, although
\* deleteServerAndWait takes an HTTP error of the deletion for already deleted and
\* one of the wait for the end of it.
ServerGoesFirst ==
    [][Reconcile /\ (ports \ ports' # {} \/ access \ access' # {})
         => \A s \in servers : s.doomed]_vars

\* When nothing changes any more, a machine that stays has an active server that
\* the status names, a port for the virtual IP and access to its objects; one
\* whose server is in state ERROR does not stay.
Up ==
    /\ \E s \in servers : s.id = lbm.serverId /\ s.status = "ACTIVE"
    /\ lbm.portId \in ports \cap paired
    /\ access = Access
MachineComesUp == <>[](lbm.exists /\ ~lbm.deleting => Up)

\* A deleted LoadBalancerMachine goes away: the set controller waits for that.
DeletionCompletes == lbm.deleting ~> ~lbm.exists

=============================================================================
