----------------------- MODULE LoadBalancerOpenstack -----------------------
(***************************************************************************)
(* The OpenStack resources of one LoadBalancer: security group, floating   *)
(* IP, port and server group.  reconcileOpenStackIfNeeded and              *)
(* deletionRoutine of the LoadBalancer controller (controllers/            *)
(* yawol-controller/loadbalancer/loadbalancer_controller.go).              *)
(*                                                                         *)
(* A reconcile reads the LoadBalancer from a cache and works on that copy; *)
(* every patch refreshes the copy from the API server.  It goes through    *)
(* the resources one by one; a step stands for one of its functions.  Any  *)
(* request may fail, and the controller may crash between two steps; what  *)
(* was done in OpenStack stays.  All resources in OpenStack carry the name *)
(* of the LoadBalancer, except a floating IP of the user.  The caches have *)
(* caught up with the controller's own writes before it reconciles again,  *)
(* not with those of the user.                                             *)
(***************************************************************************)
EXTENDS Integers, FiniteSets, Sequences, KubernetesApi

CONSTANTS
    Keep,        \* kinds with an annotation that keeps them on deletion
    Vanishing,   \* kinds that an operator may delete in OpenStack
    FirstPolicies, \* policies that a new LoadBalancer may have
    MaxChanges,  \* bound on the changes by user and operator
    MaxErrors    \* bound on failed requests and crashes

Kinds == {"secgroup", "fip", "port", "servergroup"}
NoId == 0        \* OpenStack IDs are counted from 1 for every kind
Policies == {"none", "affinity", "anti-affinity"}

ASSUME OpenstackAssumption ==
    /\ Keep \subseteq {"secgroup", "fip", "port"} /\ Vanishing \subseteq Kinds
    /\ FirstPolicies \subseteq Policies
    /\ MaxChanges \in Nat /\ MaxErrors \in Nat

VARIABLES
    lb,       \* the LoadBalancer in the API server
    seen,     \* the LoadBalancer in the cache of the controller
    mem,      \* the copy that the current reconcile works on
    pc,       \* the function that the current reconcile has come to
    requeue,  \* overallRequeue
    sets,     \* the LoadBalancerSets: "none", "live" or "deleting"
    setsSeen, \* whether the cache of the controller has any
    dirty,    \* the controller has written since the caches were current
    cloud,    \* OpenStack: the resources of each kind
    created,  \* OpenStack: how many of each kind were ever created
    foreign,  \* OpenStack: the floating IPs without the name of the LoadBalancer
    affinity, \* OpenStack: the policy of every server group ever created
    rules,    \* OpenStack: the ports that the security group lets through
    bound,    \* OpenStack: floating IP and port that were bound last
    guarded,  \* OpenStack: port and security group that were bound last
    changes, errors

openstack == <<cloud, created, foreign, affinity, rules, bound, guarded>>
vars == <<lb, seen, mem, pc, requeue, sets, setsSeen, dirty, openstack, changes, errors>>

(***************************************************************************)
(* spec: ports (versions of the ports and source ranges, which become      *)
(* security group rules), internal, policy (ServerGroupPolicy), existing   *)
(* (the floating IP of the user whose address is ExistingFloatingIP).      *)
(* status: ip is the resource the ExternalIP belongs to, hash the          *)
(* OpenstackReconcileHash, recent says that LastOpenstackReconcile is less *)
(* than 5 minutes old, and res has name and ID of every resource.          *)
(***************************************************************************)
NoHash == <<-1, "none">>
NoIp == <<"none", NoId>>
LBObject == [exists : BOOLEAN, deleting : BOOLEAN, finalizer : BOOLEAN,
             ports : 0 .. MaxChanges, internal : BOOLEAN, policy : Policies, existing : Nat,
             ip : {NoIp} \cup ({"fip", "port"} \X (Nat \ {NoId})),
             hash : {NoHash} \cup ((0 .. MaxChanges) \X Policies), recent : BOOLEAN,
             res : [Kinds -> [name : BOOLEAN, id : Nat]]]

Points == {"idle", "secgroup", "fip", "port", "associate", "servergroup", "finish", "sets",
           "deleteSets", "deleteServergroup", "deleteFip", "deletePort", "deleteSecgroup",
           "removeFinalizer"}

TypeOK ==
    /\ lb \in LBObject /\ seen \in LBObject /\ mem \in LBObject
    /\ pc \in Points /\ requeue \in BOOLEAN
    /\ sets \in {"none", "live", "deleting"} /\ setsSeen \in BOOLEAN /\ dirty \in BOOLEAN
    /\ created \in [Kinds -> Nat]
    /\ \A k \in Kinds : cloud[k] \subseteq 1 .. created[k]
    /\ foreign \subseteq 1 .. created["fip"]
    /\ affinity \in Seq(Policies) /\ Len(affinity) = created["servergroup"]
    /\ rules \in -1 .. MaxChanges
    /\ bound \in Nat \X Nat /\ guarded \in Nat \X Nat
    /\ changes \in 0 .. MaxChanges /\ errors \in 0 .. MaxErrors

-----------------------------------------------------------------------------
(***************************************************************************)
(* A function that handles one kind of resource leads to an outcome: the   *)
(* name and ID in the status, the resources in OpenStack, the ExternalIP,  *)
(* and "ok", "requeue" or "error" as the result.                           *)
(***************************************************************************)
Outcome(res, resources, ip, result) ==
    [res |-> res, resources |-> resources, ip |-> ip, result |-> result]

Nothing(k, result) == Outcome(mem.res[k], cloud[k], mem.ip, result)

NextId(k) == created[k] + 1

Named(k) == [mem.res[k] EXCEPT !.name = TRUE]
WithId(r) == [name |-> TRUE, id |-> r]
WithoutId(res) == [res EXCEPT !.id = NoId]

\* What a search by name finds
Listed(k) == IF k = "fip" THEN cloud[k] \ foreign ELSE cloud[k]

\* The policy that a new server group gets: the patch of the name, if there is
\* one, has refreshed the copy.
NewPolicy == IF mem.res["servergroup"].name THEN mem.policy ELSE lb.policy

\* The address of the user that assignOrCreateFIP looks for: here too the patch of
\* the name has refreshed the copy.
ExistingFloatingIP == IF mem.res["fip"].name THEN mem.existing ELSE lb.existing

CandidatesById(k) ==
    IF mem.res[k].id # NoId THEN {<<mem.res[k].id, cloud[k]>>}
    ELSE {<<NextId(k), cloud[k] \cup {NextId(k)}>>}

\* The resource that reconcileFIP, reconcilePort, reconcileSecGroup and
\* reconcileServerGroup use, with the resources there are then: the one in the
\* status, else (floating IPs) the one with the address the user named, else one
\* found by name, else a new one.  OpenStack refuses a server group without policy.
Candidates(k) ==
    IF mem.res[k].id # NoId THEN {<<mem.res[k].id, cloud[k]>>}
    ELSE IF k = "fip" /\ ExistingFloatingIP # NoId THEN {<<ExistingFloatingIP, cloud[k]>>}
    ELSE IF Listed(k) # {} THEN {<<r, cloud[k]>> : r \in Listed(k)}
    ELSE IF k = "servergroup" /\ NewPolicy = "none" THEN {<<NoId, cloud[k]>>}
    ELSE {<<NextId(k), cloud[k] \cup {NextId(k)}>>}

NotFoundKeepsId(k, c) ==
    Outcome(WithId(c[1]), c[2], mem.ip, IF k = "secgroup" THEN "requeue" ELSE "error")

\* Looking the resource up, by its ID or by the address of the user, gives an
\* error, 404 or another one.
NotFound(k, c) ==
    CASE k = "fip" -> Outcome(Named(k), c[2], mem.ip, "error")
      [] k = "secgroup" -> Outcome(WithId(NoId), c[2], mem.ip, "requeue")
      [] OTHER -> Outcome(WithId(NoId), c[2], mem.ip, "error")

PublishedIpOfStatus(k, r) ==
    IF k = "fip" \/ (k = "port" /\ mem.internal) THEN <<k, mem.res[k].id>> ELSE mem.ip

\* The ExternalIP: that of the floating IP, for an internal LoadBalancer that of
\* the port.
PublishedIp(k, r) ==
    IF k = "fip" \/ (k = "port" /\ mem.internal) THEN <<k, r>> ELSE mem.ip

\* The port must have the security group and no other.
IsGuarded(port) == mem.res["secgroup"].id # NoId => guarded = <<port, mem.res["secgroup"].id>>

\* The policy that the server group must have: every patch refreshes the copy.
HasPolicy(r) ==
    LET policy == IF r = NextId("servergroup") THEN NewPolicy ELSE affinity[r]
    IN  policy = IF mem.res["servergroup"] = WithId(r) THEN mem.policy ELSE lb.policy

\* A server group with another policy is deleted; its ID stays in the status.
Checked(k, c) ==
    IF c[1] \notin c[2] THEN NotFound(k, c)
    ELSE IF k = "servergroup" /\ ~HasPolicy(c[1])
      THEN Outcome(WithId(c[1]), c[2] \ {c[1]}, mem.ip, "requeue")
    ELSE Outcome(WithId(c[1]), c[2], PublishedIp(k, c[1]),
                 IF /\ mem.res[k] = WithId(c[1]) /\ mem.ip = PublishedIp(k, c[1])
                    /\ k = "port" => IsGuarded(c[1])
                   THEN "ok" ELSE "requeue")

ensure(k) == {Checked(k, c) : c \in Candidates(k)}

Found(k) == {c \in Candidates(k) : c[1] \in c[2] \cup {mem.res[k].id}}

\* One request fails: the first patch, the list (assignOrCreateFIP goes on as
\* if nothing was found), the patch of the ID, the lookup by ID, with an HTTP
\* error or without, or what follows it: the patch of the ExternalIP, the deletion
\* of a server group, and the new name of a floating IP of the user.
ensureFailing(k) ==
    {Nothing(k, "error"), Outcome(Named(k), cloud[k], mem.ip, "error")}
    \cup {Outcome(Named(k), c[2], mem.ip, "error") : c \in Candidates(k)}
    \cup {Outcome(WithId(c[1]), c[2], mem.ip, "error") : c \in Found(k)}
    \cup {NotFound(k, c) : c \in Candidates(k)}
    \cup (IF k = "fip" /\ lb.existing # NoId
            THEN {[Checked(k, c) EXCEPT !.result = "error"] : c \in Candidates(k)} ELSE {})
    \cup (IF k = "fip" /\ mem.res[k].id = NoId /\ ExistingFloatingIP = NoId
            THEN {Checked(k, <<NextId(k), cloud[k] \cup {NextId(k)}>>)} ELSE {})

\* deleteFips, deletePorts, deleteSecGroups and deleteServerGroups: the resource
\* in the status goes first, then those found by name.  The status is cleared
\* when nothing is found.  Of several server groups one is deleted at a time.
RemainingById(k) == cloud[k] \ {mem.res[k].id}

deleteById(k) ==
    LET res == mem.res[k]
    IN  IF res.id = NoId
          THEN {Outcome([res EXCEPT !.name = FALSE], cloud[k], mem.ip, "ok")}
        ELSE IF res.id \notin cloud[k]
          THEN {Outcome(WithoutId(res), cloud[k], mem.ip, "requeue")}
        ELSE {Outcome(res, RemainingById(k), mem.ip, "requeue")}

deleteKeepingName(k) ==
    LET res == mem.res[k]
    IN  IF res.id # NoId /\ res.id \notin cloud[k]
          THEN {Outcome(WithoutId(res), cloud[k], mem.ip, "requeue")}
        ELSE {Outcome(res, {}, mem.ip, IF res.name THEN "requeue" ELSE "ok")}

deleteAll(k) ==
    LET res == mem.res[k]
        remaining == RemainingById(k)
        rest == Listed(k) \ {res.id}
    IN  IF res.id # NoId /\ res.id \notin cloud[k]
          THEN {Outcome(WithoutId(res), cloud[k], mem.ip, "requeue")}
        ELSE IF ~res.name
          THEN {Outcome(res, remaining, mem.ip, IF res.id = NoId THEN "ok" ELSE "requeue")}
        ELSE IF rest = {}
          THEN {Outcome([res EXCEPT !.name = FALSE], remaining, mem.ip,
                        IF k = "servergroup" THEN "requeue" ELSE "ok")}
        ELSE IF k = "servergroup"
          THEN {Outcome(res, remaining \ {r}, mem.ip, "requeue") : r \in rest}
        ELSE {Outcome(res, remaining \ rest, mem.ip, "requeue")}

\* With the annotation, and if it is the user's floating IP, the resource is only
\* released from the status.  For
\* security groups the patch clears a deprecated field and the ID stays.
release(k) ==
    LET res == mem.res[k] IN
    CASE k = "fip" /\ (res.name \/ res.id # NoId) ->
            {Outcome([name |-> FALSE, id |-> NoId], cloud[k], mem.ip, "requeue")}
      [] k = "port" /\ res.id # NoId -> {Outcome(WithoutId(res), cloud[k], mem.ip, "requeue")}
      [] OTHER -> {Nothing(k, "ok")}

IsKept(k) == k \in Keep \/ (k = "fip" /\ mem.existing # NoId)

delete(k) == IF IsKept(k) THEN release(k) ELSE deleteAll(k)

\* One request fails: what was deleted before stays deleted.  An HTTP error of
\* the lookup by ID counts as not found, for server groups one of the search by
\* name as well.
deleteFailing(k) ==
    LET res == mem.res[k] IN
    IF IsKept(k)
      THEN {Nothing(k, "error")}
           \cup (IF k = "fip" THEN {Outcome(WithoutId(res), cloud[k], mem.ip, "error")} ELSE {})
    ELSE {Outcome(res, cloud[k] \ R, mem.ip, "error") : R \in SUBSET (Listed(k) \cup {res.id})}
         \cup (IF res.id = NoId THEN {}
               ELSE {Outcome(WithoutId(res), cloud[k], mem.ip, "requeue")})
         \cup (IF k = "servergroup" /\ res.name /\ (res.id = NoId \/ res.id \in cloud[k])
                 THEN {Outcome([res EXCEPT !.name = FALSE], RemainingById(k), mem.ip, "requeue")}
                 ELSE {})

-----------------------------------------------------------------------------
(***************************************************************************)
(* Going through the functions                                             *)
(***************************************************************************)
PatchLBStatus(k, out) ==
    [lb EXCEPT !.res[k] = [name |-> Patched(@.name, mem.res[k].name, out.res.name),
                           id |-> Patched(@.id, mem.res[k].id, out.res.id)],
               !.ip = Patched(@, mem.ip, out.ip)]

\* Carry out an outcome and go on at the given points.  lb exists: it has the
\* finalizer, and only this controller removes it.
Apply(k, out, onOk, onRequeue) ==
    /\ cloud' = [cloud EXCEPT ![k] = out.resources]
    /\ created' = [created EXCEPT ![k] = IF NextId(k) \in out.resources \cup {out.res.id} THEN @ + 1 ELSE @]
    /\ IF out.res = mem.res[k] /\ out.ip = mem.ip
         THEN UNCHANGED <<lb, mem, dirty>>
         ELSE lb' = PatchLBStatus(k, out) /\ mem' = lb' /\ dirty' = TRUE
    /\ pc' = CASE out.result = "ok" -> onOk
               [] out.result = "requeue" -> onRequeue
               [] out.result = "error" -> "idle"
    /\ requeue' = (requeue \/ out.result = "requeue")

Handle(k, outcomes, failing, onOk, onRequeue) ==
    /\ \/ /\ \E out \in outcomes : Apply(k, out, onOk, onRequeue)
          /\ UNCHANGED errors
       \/ /\ errors < MaxErrors /\ errors' = errors + 1
          /\ \E out \in failing : Apply(k, out, onOk, onRequeue)
    /\ UNCHANGED <<seen, sets, setsSeen, bound, changes>>

\* A LoadBalancer without an ExternalIP has not been through yet: not recent.
LoadBalancerOpenstackReconcileIsNeeded(o) ==
    \/ ~o.recent
    \/ o.internal /\ (o.res["fip"].id # NoId \/ o.res["fip"].name)
    \/ ~o.internal /\ (o.res["fip"].id = NoId \/ ~o.res["fip"].name)
    \/ o.hash # <<o.ports, o.policy>>

\* Reconcile of a LoadBalancer that is not being deleted starts with the
\* finalizer, which the API server accepts only before the deletion.
BeginReconcile ==
    /\ pc = "idle" /\ ~dirty
    /\ seen.exists /\ ~seen.deleting
    /\ \/ seen.finalizer /\ mem' = seen /\ UNCHANGED <<lb, dirty>>
       \/ /\ ~seen.finalizer /\ lb.exists /\ ~lb.deleting
          /\ lb' = [lb EXCEPT !.finalizer = TRUE] /\ mem' = lb' /\ dirty' = TRUE
    /\ requeue' = FALSE
    /\ pc' = IF LoadBalancerOpenstackReconcileIsNeeded(mem') THEN "secgroup" ELSE "sets"
    /\ UNCHANGED <<seen, sets, setsSeen, openstack, changes, errors>>

\* The rules are brought in line with the spec once the group is there; a
\* failure may leave some of them out (-1).
reconcileSecGroup ==
    /\ pc = "secgroup"
    /\ Handle("secgroup", ensure("secgroup"), ensureFailing("secgroup"), "fip", "fip")
    /\ rules' \in CASE pc' = "fip" /\ mem'.res["secgroup"].id # NoId -> {mem'.ports}
                    [] pc' = "idle" -> {-1} \cup (IF created' = created THEN {rules} ELSE {})
                    [] OTHER -> {rules}
    /\ UNCHANGED <<foreign, affinity, guarded>>

reconcileFIP ==
    /\ pc = "fip"
    /\ IF mem.internal
         THEN Handle("fip", delete("fip"), deleteFailing("fip"), "port", "port")
         ELSE Handle("fip", ensure("fip"), ensureFailing("fip"), "port", "port")
    /\ foreign' = IF ~mem.internal /\ pc' = "port" /\ mem'.existing # NoId
                    THEN foreign \cup {mem'.res["fip"].id} ELSE foreign
    /\ UNCHANGED <<affinity, rules, guarded>>

reconcilePort ==
    /\ pc = "port"
    /\ Handle("port", ensure("port"), ensureFailing("port"), "associate", "associate")
    /\ guarded' = IF pc' = "associate" /\ mem'.res["secgroup"].id \in cloud["secgroup"]
                    THEN <<mem'.res["port"].id, mem'.res["secgroup"].id>> ELSE guarded
    /\ UNCHANGED <<foreign, affinity, rules>>

reconcileFIPAssociate ==
    LET fip == mem.res["fip"].id
        port == mem.res["port"].id
    IN
    /\ pc = "associate"
    /\ IF mem.internal THEN pc' = "servergroup" /\ UNCHANGED <<requeue, bound>>
       ELSE IF fip = NoId \/ port = NoId
         THEN pc' = "servergroup" /\ requeue' = TRUE /\ UNCHANGED bound
       ELSE IF fip \in cloud["fip"] /\ port \in cloud["port"]
         THEN pc' = "servergroup" /\ bound' = <<fip, port>> /\ UNCHANGED requeue
       ELSE pc' = "idle" /\ UNCHANGED <<requeue, bound>>
    /\ UNCHANGED <<lb, seen, mem, sets, setsSeen, dirty, cloud, created, foreign, affinity, rules,
                   guarded, changes, errors>>

reconcileServerGroup ==
    /\ pc = "servergroup"
    /\ IF mem.policy # "none"
         THEN Handle("servergroup", ensure("servergroup"), ensureFailing("servergroup"),
                     "finish", "finish")
         ELSE Handle("servergroup", delete("servergroup"), deleteFailing("servergroup"),
                     "finish", "finish")
    /\ affinity' = IF created' = created THEN affinity ELSE Append(affinity, NewPolicy)
    /\ UNCHANGED <<foreign, rules, guarded>>

\* The end of reconcileOpenStackIfNeeded and updateOpenstackReconcileHash: the
\* hash is that of the spec returned by the first patch.
FinishOpenstack ==
    /\ pc = "finish"
    /\ IF requeue
         THEN pc' = "idle" /\ UNCHANGED <<lb, mem, dirty>>
         ELSE /\ lb' = [lb EXCEPT !.recent = TRUE, !.hash = <<lb.ports, lb.policy>>]
              /\ mem' = lb' /\ dirty' = TRUE /\ pc' = "sets"
    /\ UNCHANGED <<seen, requeue, sets, setsSeen, openstack, changes, errors>>

\* reconcileLoadBalancerSet, in detail in LoadBalancerRollout
reconcileLoadBalancerSet ==
    /\ pc = "sets"
    /\ pc' = "idle"
    /\ IF setsSeen \/ mem.res["port"].id = NoId
         THEN UNCHANGED <<sets, dirty>>
         ELSE sets' = "live" /\ dirty' = TRUE
    /\ UNCHANGED <<lb, seen, mem, requeue, setsSeen, openstack, changes, errors>>

-----------------------------------------------------------------------------
(***************************************************************************)
(* deletionRoutine: every function must find nothing left to do before the *)
(* next one is called.                                                     *)
(***************************************************************************)
BeginDeletion ==
    /\ pc = "idle" /\ ~dirty
    /\ seen.exists /\ seen.deleting
    /\ mem' = seen /\ requeue' = FALSE
    /\ pc' = "deleteSets"
    /\ UNCHANGED <<lb, seen, sets, setsSeen, dirty, openstack, changes, errors>>

deleteSetsAtOnce ==
    /\ pc = "deleteSets"
    /\ pc' = "deleteServergroup"
    /\ sets' = IF setsSeen /\ sets = "live" THEN "deleting" ELSE sets
    /\ dirty' = (dirty \/ sets' # sets)
    /\ UNCHANGED <<lb, seen, mem, requeue, setsSeen, openstack, changes, errors>>

deleteSets ==
    /\ pc = "deleteSets"
    /\ IF setsSeen
         THEN /\ pc' = "idle"
              /\ sets' = IF sets = "live" THEN "deleting" ELSE sets
              /\ dirty' = (dirty \/ sets' # sets)
         ELSE pc' = "deleteServergroup" /\ UNCHANGED <<sets, dirty>>
    /\ UNCHANGED <<lb, seen, mem, requeue, setsSeen, openstack, changes, errors>>

deleteResources(k, at, next) ==
    /\ pc = at
    /\ Handle(k, delete(k), deleteFailing(k), next, "idle")
    /\ UNCHANGED <<foreign, affinity, rules, guarded>>

deletionRoutine ==
    \/ deleteResources("servergroup", "deleteServergroup", "deleteFip")
    \/ deleteResources("fip", "deleteFip", "deletePort")
    \/ deleteResources("port", "deletePort", "deleteSecgroup")
    \/ deleteResources("secgroup", "deleteSecgroup", "removeFinalizer")

RemoveFinalizer ==
    /\ pc = "removeFinalizer"
    /\ lb' = [lb EXCEPT !.finalizer = FALSE, !.exists = FALSE]
    /\ mem' = lb' /\ dirty' = TRUE
    /\ pc' = "idle"
    /\ UNCHANGED <<seen, requeue, sets, setsSeen, openstack, changes, errors>>

-----------------------------------------------------------------------------
(***************************************************************************)
(* The environment: user, operator, informers, crashes and time            *)
(***************************************************************************)
Change == changes < MaxChanges /\ changes' = changes + 1

ChangeSpec(o) ==
    /\ Change
    /\ lb.exists /\ lb' = o
    /\ UNCHANGED <<seen, mem, pc, requeue, sets, setsSeen, dirty, openstack, errors>>

UserChanges ==
    \/ ChangeSpec([lb EXCEPT !.ports = changes + 1])
    \/ ChangeSpec([lb EXCEPT !.internal = ~@])
    \/ \E p \in Policies \ {lb.policy} : ChangeSpec([lb EXCEPT !.policy = p])

\* The user takes over the floating IP: reconcileExistingFloatingIP of the
\* yawol-cloud-controller accepts no other address than the published one.
ClaimFloatingIP ==
    /\ lb.existing = NoId /\ lb.ip[1] = "fip" /\ ~lb.internal /\ ~lb.deleting
    /\ ChangeSpec([lb EXCEPT !.existing = lb.ip[2]])

\* Without the finalizer the object disappears at once.
DeleteLB ==
    /\ lb.exists /\ ~lb.deleting
    /\ lb' = [lb EXCEPT !.deleting = TRUE, !.exists = lb.finalizer]
    /\ UNCHANGED <<seen, mem, pc, requeue, sets, setsSeen, dirty, openstack, changes, errors>>

Vanish(k) ==
    /\ Change
    /\ k \in Vanishing /\ cloud[k] # {}
    /\ cloud' = [cloud EXCEPT ![k] = {}]
    /\ rules' = IF k = "secgroup" THEN -1 ELSE rules
    /\ UNCHANGED <<lb, seen, mem, pc, requeue, sets, setsSeen, dirty, created, foreign, affinity, bound,
                   guarded, errors>>

SetsGone ==
    /\ sets = "deleting"
    /\ sets' = "none"
    /\ UNCHANGED <<lb, seen, mem, pc, requeue, setsSeen, dirty, openstack, changes, errors>>

Refresh ==
    /\ seen' = lb /\ setsSeen' = (sets # "none")
    /\ dirty' = FALSE
    /\ UNCHANGED <<lb, mem, pc, requeue, sets, openstack, changes, errors>>

Crash ==
    /\ pc # "idle"
    /\ errors < MaxErrors /\ errors' = errors + 1
    /\ pc' = "idle"
    /\ UNCHANGED <<lb, seen, mem, requeue, sets, setsSeen, dirty, openstack, changes>>

FiveMinutesPass ==
    /\ lb.recent
    /\ lb' = [lb EXCEPT !.recent = FALSE]
    /\ seen' = [seen EXCEPT !.recent = FALSE]
    /\ UNCHANGED <<mem, pc, requeue, sets, setsSeen, dirty, openstack, changes, errors>>

-----------------------------------------------------------------------------
UserFip == 1

NewLB(internal, policy, existing) ==
    [exists |-> TRUE, deleting |-> FALSE, finalizer |-> FALSE, ports |-> 0,
     internal |-> internal, policy |-> policy, existing |-> existing, ip |-> NoIp, hash |-> NoHash, recent |-> FALSE,
     res |-> [k \in Kinds |-> [name |-> FALSE, id |-> NoId]]]

Init ==
    /\ \E internal \in BOOLEAN, policy \in FirstPolicies, existing \in {NoId, UserFip} :
         lb = NewLB(internal, policy, existing)
    /\ seen = lb /\ mem = lb
    /\ pc = "idle" /\ requeue = FALSE
    /\ sets = "none" /\ setsSeen = FALSE /\ dirty = FALSE
    /\ foreign = IF lb.existing = UserFip THEN {UserFip} ELSE {}
    /\ cloud = [k \in Kinds |-> IF k = "fip" THEN foreign ELSE {}]
    /\ created = [k \in Kinds |-> Cardinality(cloud[k])]
    /\ affinity = <<>>
    /\ rules = -1 /\ bound = <<NoId, NoId>> /\ guarded = <<NoId, NoId>>
    /\ changes = 0 /\ errors = 0

Reconcile ==
    \/ BeginReconcile \/ reconcileSecGroup \/ reconcileFIP \/ reconcilePort
    \/ reconcileFIPAssociate \/ reconcileServerGroup \/ FinishOpenstack
    \/ reconcileLoadBalancerSet
    \/ BeginDeletion \/ deleteSets \/ deletionRoutine \/ RemoveFinalizer

Environment ==
    \/ UserChanges \/ ClaimFloatingIP \/ DeleteLB \/ SetsGone \/ Refresh \/ Crash \/ FiveMinutesPass
    \/ \E k \in Kinds : Vanish(k)

Next == Reconcile \/ Environment

Spec == Init /\ [][Next]_vars

(***************************************************************************)
(* The LoadBalancer is requeued, after an error too, and every 5 minutes;  *)
(* informers catch up and the sets finish their deletion.                  *)
(***************************************************************************)
Fairness ==
    /\ WF_vars(Reconcile) /\ WF_vars(Refresh) /\ WF_vars(SetsGone) /\ WF_vars(FiveMinutesPass)

FairSpec == Spec /\ Fairness

-----------------------------------------------------------------------------
(***************************************************************************)
(* Properties                                                              *)
(***************************************************************************)

Owned == (UNION {{k} \X Listed(k) : k \in Kinds \ Keep}) \ {<<"fip", lb.existing>>}

Protocol == INSTANCE FinalizerProtocol WITH
    Resource <- Kinds \X Nat,
    owner <- IF ~lb.exists THEN "gone" ELSE IF lb.finalizer THEN "guarded" ELSE "open",
    held <- Owned

\* Resources in OpenStack are created only while the finalizer holds back the
\* LoadBalancer, and once it is gone none is left except those to keep and the
\* floating IP that the user named, however
\* often the controller crashed or failed between creating a resource and noting
\* its ID, and although any HTTP error of a lookup counts as already deleted.
ImplementsFinalizerProtocol == Protocol!Spec

\* A crash between the creation of a resource and the patch of its ID does not
\* lead to a second one, since resources are found by name.  Floating IPs are
\* different: an error of that search counts as not found.
NoDuplicates == \A k \in Kinds \ {"fip"} : Cardinality(cloud[k]) <= 1

\* Port and security group are deleted only when no LoadBalancerSet, hence no
\* machine, is left that uses them; a floating IP that is the user's, and marked as
\* such in OpenStack, is never deleted.
UsedResourcesStay ==
    [][cloud' # cloud /\ Reconcile =>
          /\ \A k \in {"port", "secgroup"} : cloud[k] \ cloud'[k] # {} => sets = "none"
          /\ foreign \cap cloud["fip"] \subseteq cloud'["fip"]]_vars

\* A deleted LoadBalancer goes away in the end.
DeletionCompletes == lb.deleting ~> ~lb.exists

\* When nothing changes any more, OpenStack looks as the spec of a LoadBalancer
\* that stays demands, and the status has the right ExternalIP.
Realised ==
    LET res == lb.res IN
    /\ res["port"].id \in cloud["port"] /\ res["secgroup"].id \in cloud["secgroup"]
    /\ guarded = <<res["port"].id, res["secgroup"].id>>
    /\ rules = lb.ports
    /\ IF lb.internal
         THEN ("fip" \in Keep \/ lb.existing # NoId \/ cloud["fip"] = {}) /\ lb.ip = <<"port", res["port"].id>>
         ELSE /\ res["fip"].id \in cloud["fip"] /\ lb.ip = <<"fip", res["fip"].id>>
              /\ bound = <<res["fip"].id, res["port"].id>>
              /\ lb.existing # NoId => lb.existing = res["fip"].id /\ lb.existing \in foreign
    /\ IF lb.policy = "none" THEN cloud["servergroup"] = {}
       ELSE res["servergroup"].id \in cloud["servergroup"] /\ affinity[res["servergroup"].id] = lb.policy
SpecIsRealised == <>[](lb.exists /\ ~lb.deleting => Realised)

\* The comment of InternalLB: "If set to false a FloatingIP will be assigned to
\* the LB."
FloatingIPIsAssigned ==
    <>[](lb.exists /\ ~lb.deleting /\ ~lb.internal => lb.res["fip"].id \in cloud["fip"])

=============================================================================
