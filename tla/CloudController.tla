-------------------------- MODULE CloudController --------------------------
(***************************************************************************)
(* The yawol-cloud-controllers of one cluster and one Service.  Every      *)
(* controller serves one class and keeps its LoadBalancers in a namespace  *)
(* of its own; the finalizer that they put on the Service has one name.    *)
(* A controller process runs the Service, the Node and the LoadBalancer    *)
(* controller on shared informer caches (svcSeen, nodesSeen, lbSeen).  The *)
(* users, the Kubernetes nodes and the yawol-controller, which realises    *)
(* and deletes LoadBalancers, are the environment.                         *)
(*                                                                         *)
(* A reconcile is one step, on caches that may be old; a request that      *)
(* fails leaves the requests before it done and the reconcile is retried,  *)
(* which is also what a crash of the process comes to.                     *)
(***************************************************************************)
EXTENDS ServiceSettings

CONSTANTS
    Controller,   \* the controllers, named by the class that they serve
    OtherClass,   \* a class that no controller serves
    Scenarios,    \* what happens in a behaviour: the controllers that run, the first
                  \* class of the Service, what users and nodes do and how often,
                  \* which settings change, how many requests fail, how many
                  \* versions of the Service a watch may be behind, and whether
                  \* the informers resync
    Removals      \* TRUE: the users may remove an optional member of a setting

\* "opt" stands for a member of a setting that may be left out; it is no address.
ASSUME CloudAssumption ==
    /\ Controller \subseteq Address /\ OtherClass \notin Controller
    /\ "opt" \notin Address
    /\ Scenarios \subseteq [ops : SUBSET {"delete", "clusterIP", "type", "invalid", "node"},
                            fields : SUBSET UserField, resync : BOOLEAN,
                            running : SUBSET Controller, class : Controller,
                            classes : SUBSET (Controller \cup {OtherClass}),
                            lagging : BOOLEAN, behind : Nat \ {0}, changes : Nat, errors : Nat]
    /\ Removals \in BOOLEAN

VARIABLES
    svc,        \* the Service in the API server of the target cluster
    lb,         \* the LoadBalancer of the Service, for each controller
    nodes,      \* the state of every node
    svcSeen, lbSeen, nodesSeen,   \* the caches of each controller
    unseen,     \* the versions of the Service that the watch of a controller still brings
    svcQueue, nodeQueue,          \* the work queues: is there a request?
    publishing, \* address that the LoadBalancer controller is about to publish
    scenario,   \* the scenario of this behaviour
    changes, errors

api == <<svc, lb, nodes>>
caches == <<svcSeen, lbSeen, nodesSeen>>
queues == <<svcQueue, nodeQueue>>
vars == <<api, caches, unseen, queues, publishing, scenario, changes, errors>>

NoService == [exists |-> FALSE, deleting |-> FALSE, isLB |-> FALSE, class |-> OtherClass,
              valid |-> TRUE, finalizer |-> FALSE, ingress |-> {}, want |-> Defaults]
NewService(c) == [NoService EXCEPT !.exists = TRUE, !.isLB = TRUE, !.class = c]

\* status.externalIP is set once, together with the readiness of a machine.
NoLB == [st |-> "absent", ip |-> {}, spec |-> NewSpec(Defaults, <<>>, {})]

ServiceObject ==
    [exists : BOOLEAN, deleting : BOOLEAN, isLB : BOOLEAN, class : Controller \cup {OtherClass},
     valid : BOOLEAN, finalizer : BOOLEAN, ingress : Values("existingIP"),
     want : [UserField -> SUBSET (Network \cup Address \cup {"on", "opt"})]]

IsLB(l) ==
    /\ l.st \in {"absent", "live", "deleting"}
    /\ l.ip \in Values("existingIP")
    /\ DOMAIN l.spec = Field
    /\ l.spec.endpoints \subseteq Node
    /\ ToSet(l.spec.networks) \subseteq Network /\ IsInjective(l.spec.networks)

TypeOK ==
    /\ svc \in ServiceObject /\ \A c \in Controller : svcSeen[c] \in ServiceObject
    /\ \A c \in Controller : unseen[c] \in Seq(ServiceObject) /\ Len(unseen[c]) <= scenario.behind
    /\ \A c \in Controller : IsLB(lb[c]) /\ IsLB(lbSeen[c])
    /\ nodes \in [Node -> NodeState] /\ nodesSeen \in [Controller -> [Node -> NodeState]]
    /\ \A q \in {svcQueue, nodeQueue} : q \in [Controller -> BOOLEAN]
    /\ publishing \in [Controller -> Values("existingIP")]
    /\ scenario \in Scenarios
    /\ changes \in 0 .. scenario.changes /\ errors \in 0 .. scenario.errors

Init ==
    /\ scenario \in Scenarios
    /\ svc = NewService(scenario.class)
    /\ lb = [c \in Controller |-> NoLB]
    /\ nodes = [n \in Node |-> "ready"]
    /\ svcSeen = [c \in Controller |-> NoService]
    /\ lbSeen = lb
    /\ unseen = [c \in Controller |-> IF c \in scenario.running THEN <<svc>> ELSE <<>>]
    /\ nodesSeen = [c \in Controller |-> nodes]
    /\ svcQueue = [c \in Controller |-> scenario.resync]
    /\ nodeQueue = [c \in Controller |-> FALSE]
    /\ publishing = [c \in Controller |-> {}]
    /\ changes = 0 /\ errors = 0

-----------------------------------------------------------------------------
(***************************************************************************)
(* The Service controller                                                  *)
(***************************************************************************)
\* A LoadBalancer that the controller created is in its cache before the
\* Service is reconciled again (RequeueAfter one second).
OwnCreateSeen(c) == lb[c].st # "absent" => lbSeen[c].st # "absent"

\* Unless the scenario says that they lag, the caches of LoadBalancers are up to
\* date whenever something else happens.
CachesAllow == scenario.lagging \/ lbSeen = lb

Takes(c) == svcQueue[c] /\ OwnCreateSeen(c) /\ CachesAllow

\* How a reconcile ends: with no result the request is forgotten, otherwise it
\* comes again (RequeueAfter, or a retry after an error).  The informers resync
\* from time to time: controller-runtime then hands every cached Service to the
\* controller again, so that the request is never forgotten for good.
Requeues(c, again) == svcQueue' = [svcQueue EXCEPT ![c] = again \/ scenario.resync]

CheckLoadBalancerClasses(s, c) == s.class = c

\* The watch of a running controller delivers every version of the Service, in
\* order: also one that is undone before it arrives.
Watched ==
    /\ unseen' = [c \in Controller |->
                     IF svc' = svc \/ c \notin scenario.running THEN unseen[c]
                     ELSE Append(unseen[c], svc')]
    /\ \A c \in Controller : Len(unseen'[c]) <= scenario.behind

\* A finalizer holds back the deletion; without one the object goes.
WithoutFinalizer(s) ==
    IF s.deleting THEN NoService ELSE [s EXCEPT !.finalizer = FALSE]

\* The LoadBalancer is not in the cache: deletionRoutine cleans up the Service.
\* removeIngressIPFromStatus is a JSON patch and fails when there is nothing to
\* remove.
ReleaseService(c) ==
    LET s == svcSeen[c]
        fails == \/ s.ingress # {} /\ (~svc.exists \/ svc.ingress = {})
                 \/ s.finalizer /\ ~svc.exists
        cleared == IF s.ingress = {} THEN svc ELSE [svc EXCEPT !.ingress = {}]
    IN
    /\ lbSeen[c].st = "absent"
    /\ UNCHANGED lb
    /\ \/ /\ fails
          /\ Requeues(c, TRUE)
          /\ UNCHANGED <<svc, errors>>
       \/ /\ ~fails
          /\ svc' = IF s.finalizer /\ svc.finalizer THEN WithoutFinalizer(cleared) ELSE cleared
          /\ Requeues(c, FALSE)
          /\ UNCHANGED errors
       \/ /\ ~fails /\ s.finalizer
          /\ errors < scenario.errors /\ errors' = errors + 1
          /\ svc' = cleared
          /\ Requeues(c, TRUE)

DeleteOnce(c) ==
    /\ lbSeen[c].st # "absent"
    /\ lb' = IF lb[c].st = "live" THEN [lb EXCEPT ![c].st = "deleting"] ELSE lb
    /\ Requeues(c, FALSE)
    /\ UNCHANGED <<svc, errors>>

ReleaseEarly(c) ==
    /\ lbSeen[c].st # "absent"
    /\ lb' = IF lb[c].st = "live" THEN [lb EXCEPT ![c].st = "deleting"] ELSE lb
    /\ svc' = IF lbSeen[c].st = "deleting" /\ svc.finalizer THEN WithoutFinalizer(svc) ELSE svc
    /\ Requeues(c, TRUE)
    /\ UNCHANGED errors

\* Delete once, and come back every 5 seconds until the LoadBalancer is gone.
DeleteLoadBalancer(c) ==
    /\ lbSeen[c].st # "absent"
    /\ lb' = IF lbSeen[c].st = "live" /\ lb[c].st = "live"
               THEN [lb EXCEPT ![c].st = "deleting"] ELSE lb
    /\ Requeues(c, TRUE)
    /\ UNCHANGED <<svc, errors>>

deletionRoutine(c) == ReleaseService(c) \/ DeleteLoadBalancer(c)

\* AddFinalizerIfNeeded returns the current Service when it has to patch.
Finalized(c) == IF svcSeen[c].finalizer THEN svcSeen[c] ELSE [svc EXCEPT !.finalizer = TRUE]
AddFinalizerIfNeeded(c) ==
    svc' = IF svcSeen[c].finalizer \/ ~svc.exists THEN svc ELSE [svc EXCEPT !.finalizer = TRUE]
FinalizerFails(c) == ~svcSeen[c].finalizer /\ ~svc.exists

\* The patch of the finalizer may have shown that the Service is being deleted.
\* Both the new LoadBalancer and a failed Create bring the request back.
createLoadBalancer(c) ==
    LET s == Finalized(c) IN
    /\ lbSeen[c].st = "absent"
    /\ \/ /\ s.deleting
          /\ svc' = IF svc.exists THEN WithoutFinalizer(svc) ELSE svc
          /\ Requeues(c, FALSE)
          /\ UNCHANGED <<lb, errors>>
       \/ /\ ~s.deleting
          /\ AddFinalizerIfNeeded(c)
          /\ \E networks \in getAdditionalNetworks(s.want), internal \in {{}, s.want.internal} :
                lb' = [lb EXCEPT ![c] = [st |-> "live", ip |-> {},
                                         spec |-> NewSpec(s.want, networks, internal)]]
          /\ Requeues(c, TRUE)
          /\ UNCHANGED errors
       \/ /\ ~s.deleting
          /\ errors < scenario.errors /\ errors' = errors + 1
          /\ AddFinalizerIfNeeded(c)
          /\ Requeues(c, TRUE)
          /\ UNCHANGED lb

\* The reconcile* functions; a request fails: only the patches before it are done.
SyncLoadBalancer(c) ==
    LET s == Finalized(c) IN
    /\ lbSeen[c].st # "absent"
    /\ AddFinalizerIfNeeded(c)
    /\ \E networks \in getAdditionalNetworks(s.want) :
       \E want \in {Desired(s.want, nodesSeen[c], networks)} :
       \E found \in {FoundDiffering(lbSeen[c].spec, lb[c].spec, want)} :
         LET patches == PatchedSteps(found, want, s.ingress) IN
         \/ /\ lb[c].st # "absent" \/ patches = {}
            /\ lb' = [lb EXCEPT ![c].spec = PatchedSpec(@, patches, want)]
            /\ Requeues(c, EndsWithError(found, want, s.ingress))
            /\ UNCHANGED errors
         \/ /\ lb[c].st = "absent" /\ patches # {}
            /\ Requeues(c, TRUE)
            /\ UNCHANGED <<lb, errors>>
         \/ /\ errors < scenario.errors /\ errors' = errors + 1
            /\ lb[c].st # "absent"
            /\ \E i \in patches :
                 lb' = [lb EXCEPT ![c].spec = PatchedSpec(@, {j \in patches : j < i}, want)]
            /\ Requeues(c, TRUE)

reconcileLoadBalancer(c) ==
    \/ /\ FinalizerFails(c) \/ ~Finalized(c).valid
       /\ AddFinalizerIfNeeded(c)
       /\ Requeues(c, TRUE)
       /\ UNCHANGED <<lb, errors>>
    \/ /\ ~FinalizerFails(c) /\ Finalized(c).valid
       /\ \/ createLoadBalancer(c)
          \/ SyncLoadBalancer(c)

ForgetForeignClass(c) == Requeues(c, FALSE) /\ UNCHANGED <<svc, lb, errors>>

\* deletionRoutine only if there is still a LoadBalancer: without one it would
\* leave the Service alone, because the class is another's.
ForeignClass(c) ==
    \/ /\ lbSeen[c].st = "absent"
       /\ Requeues(c, FALSE)
       /\ UNCHANGED <<svc, lb, errors>>
    \/ DeleteLoadBalancer(c)

ServiceReconcile(c) ==
    LET s == svcSeen[c] IN
    /\ Takes(c)
    /\ CASE ~s.exists -> Requeues(c, FALSE) /\ UNCHANGED <<svc, lb, errors>>
         [] s.exists /\ ~CheckLoadBalancerClasses(s, c) -> ForeignClass(c)
         [] s.exists /\ CheckLoadBalancerClasses(s, c) /\ (~s.isLB \/ s.deleting) -> deletionRoutine(c)
         [] OTHER -> reconcileLoadBalancer(c)
    /\ Watched
    /\ UNCHANGED <<nodes, caches, nodeQueue, publishing, scenario, changes>>

-----------------------------------------------------------------------------
(***************************************************************************)
(* The LoadBalancer controller publishes the address on the Service; it    *)
(* looks at neither the class nor the deletion of what it reads.           *)
(***************************************************************************)
PublishFirstOnly(c) ==
    /\ publishing[c] = {} /\ svcSeen[c].exists
    /\ lbSeen[c].ip # {} /\ svcSeen[c].ingress = {}
    /\ publishing' = [publishing EXCEPT ![c] = lbSeen[c].ip]
    /\ UNCHANGED <<api, caches, unseen, queues, scenario, changes, errors>>

\* Reads and compares: at any time, because the status of a LoadBalancer is
\* written every few minutes.  Without the Service it is an error.
LoadBalancerRead(c) ==
    /\ CachesAllow
    /\ publishing[c] = {} /\ svcSeen[c].exists
    /\ lbSeen[c].ip # {} /\ lbSeen[c].ip # svcSeen[c].ingress
    /\ publishing' = [publishing EXCEPT ![c] = lbSeen[c].ip]
    /\ UNCHANGED <<api, caches, unseen, queues, scenario, changes, errors>>

PatchServiceStatus(c) ==
    /\ CachesAllow
    /\ publishing[c] # {}
    /\ svc' = IF svc.exists THEN [svc EXCEPT !.ingress = publishing[c]] ELSE svc
    /\ Watched
    /\ publishing' = [publishing EXCEPT ![c] = {}]
    /\ UNCHANGED <<lb, nodes, caches, queues, scenario, changes, errors>>

LoadBalancerReconcile(c) == LoadBalancerRead(c) \/ PatchServiceStatus(c)

-----------------------------------------------------------------------------
(***************************************************************************)
(* The Node controller writes the endpoints of every LoadBalancer.         *)
(***************************************************************************)
NodeReconcile(c) ==
    LET endpoints == getEndpointsFromNodes(nodesSeen[c]) IN
    /\ nodeQueue[c] /\ CachesAllow
    /\ lbSeen[c].st = "absent" \/ svcSeen[c].exists
    /\ IF lbSeen[c].st = "absent" \/ lbSeen[c].spec.endpoints = endpoints
         THEN nodeQueue' = [nodeQueue EXCEPT ![c] = FALSE] /\ UNCHANGED lb
         ELSE /\ lb' = IF lb[c].st = "absent" THEN lb
                       ELSE [lb EXCEPT ![c].spec.endpoints = endpoints]
              /\ nodeQueue' = [nodeQueue EXCEPT ![c] = lb[c].st = "absent"]
    /\ UNCHANGED <<svc, nodes, caches, unseen, svcQueue, publishing, scenario, changes, errors>>

-----------------------------------------------------------------------------
(***************************************************************************)
(* Informers: a change reaches the cache and the work queue.  Services are *)
(* the only events of the Service controller.                              *)
(***************************************************************************)
ServiceEvent(c) ==
    /\ CachesAllow
    /\ unseen[c] # <<>>
    /\ unseen' = [unseen EXCEPT ![c] = Tail(@)]
    /\ svcSeen' = [svcSeen EXCEPT ![c] = Head(unseen[c])]
    /\ svcQueue' = [svcQueue EXCEPT ![c] = TRUE]
    /\ UNCHANGED <<api, lbSeen, nodesSeen, nodeQueue, publishing, scenario, changes, errors>>

LoadBalancerEvent(c) ==
    /\ lbSeen[c] # lb[c]
    /\ lbSeen' = [lbSeen EXCEPT ![c] = lb[c]]
    /\ UNCHANGED <<api, svcSeen, nodesSeen, unseen, queues, publishing, scenario, changes, errors>>

\* yawolNodePredicate lets every change of NodeState through.
NodeEvent(c) ==
    /\ CachesAllow
    /\ nodesSeen[c] # nodes
    /\ nodesSeen' = [nodesSeen EXCEPT ![c] = nodes]
    /\ nodeQueue' = [nodeQueue EXCEPT ![c] = TRUE]
    /\ UNCHANGED <<api, svcSeen, lbSeen, unseen, svcQueue, publishing, scenario, changes, errors>>

-----------------------------------------------------------------------------
(***************************************************************************)
(* The yawol-controller: a LoadBalancer gets its address and is ready;    *)
(* once deleted it goes.                                                   *)
(***************************************************************************)
LoadBalancerIsReady(c) ==
    /\ CachesAllow
    /\ lb[c].st = "live" /\ lb[c].ip = {}
    /\ lb' = [lb EXCEPT ![c].ip = IF lb[c].spec.existingIP # {} THEN lb[c].spec.existingIP ELSE {c}]
    /\ UNCHANGED <<svc, nodes, caches, unseen, queues, publishing, scenario, changes, errors>>

LoadBalancerIsGone(c) ==
    /\ CachesAllow
    /\ lb[c].st = "deleting"
    /\ lb' = [lb EXCEPT ![c] = NoLB]
    /\ UNCHANGED <<svc, nodes, caches, unseen, queues, publishing, scenario, changes, errors>>

-----------------------------------------------------------------------------
(***************************************************************************)
(* Users and nodes                                                         *)
(***************************************************************************)
UserStep(allowed, new) ==
    /\ allowed /\ CachesAllow
    /\ svc.exists /\ ~svc.deleting
    /\ new # svc
    /\ changes < scenario.changes /\ changes' = changes + 1
    /\ svc' = new
    /\ Watched
    /\ UNCHANGED <<lb, nodes, caches, queues, publishing, scenario, errors>>

DeleteService ==
    UserStep("delete" \in scenario.ops, IF svc.finalizer THEN [svc EXCEPT !.deleting = TRUE] ELSE NoService)
ChangeType ==
    UserStep("type" \in scenario.ops \/ ("clusterIP" \in scenario.ops /\ svc.isLB),
             [svc EXCEPT !.isLB = ~@])
ChangeClass ==
    \E c \in scenario.classes : UserStep(TRUE, [svc EXCEPT !.class = c])
ChangePorts == UserStep("invalid" \in scenario.ops, [svc EXCEPT !.valid = ~@])

\* One update may change several settings.
ChangeSettings ==
    /\ CachesAllow
    /\ changes < scenario.changes /\ changes' = changes + 1
    /\ svc.exists /\ ~svc.deleting
    /\ \E F \in SUBSET scenario.fields \ {{}} :
         \E want \in [F -> UNION {Values(f) : f \in F}] :
            /\ \A f \in F : /\ want[f] \in Values(f) \ {svc.want[f]}
                            /\ "opt" \in svc.want[f] \ WhenOn(want[f]) => Removals
            /\ svc' = [svc EXCEPT !.want = [f \in UserField |-> IF f \in F THEN want[f] ELSE @[f]]]
    /\ Watched
    /\ UNCHANGED <<lb, nodes, caches, queues, publishing, scenario, errors>>

ChangeNode(n) ==
    /\ "node" \in scenario.ops /\ CachesAllow
    /\ changes < scenario.changes /\ changes' = changes + 1
    /\ \E st \in NodeState \ {nodes[n]} : nodes' = [nodes EXCEPT ![n] = st]
    /\ UNCHANGED <<svc, lb, caches, unseen, queues, publishing, scenario, errors>>

-----------------------------------------------------------------------------
Next ==
    \/ DeleteService \/ ChangeType \/ ChangeClass \/ ChangePorts \/ ChangeSettings
    \/ \E n \in Node : ChangeNode(n)
    \/ \E c \in scenario.running :
         \/ ServiceReconcile(c) \/ LoadBalancerReconcile(c) \/ NodeReconcile(c)
         \/ ServiceEvent(c) \/ LoadBalancerEvent(c) \/ NodeEvent(c)
         \/ LoadBalancerIsReady(c) \/ LoadBalancerIsGone(c)

Spec == Init /\ [][Next]_vars

\* Informers and workers keep running and the yawol-controller does its work
\* (LoadBalancerOpenstack, LoadBalancerRollout).
Runs(c) == c \in scenario.running

Fairness ==
    \A c \in Controller :
        /\ WF_vars(Runs(c) /\ ServiceReconcile(c))
        /\ WF_vars(Runs(c) /\ LoadBalancerReconcile(c))
        /\ WF_vars(Runs(c) /\ NodeReconcile(c))
        /\ WF_vars(Runs(c) /\ ServiceEvent(c))
        /\ WF_vars(Runs(c) /\ LoadBalancerEvent(c))
        /\ WF_vars(Runs(c) /\ NodeEvent(c))
        /\ WF_vars(Runs(c) /\ LoadBalancerIsReady(c))
        /\ WF_vars(Runs(c) /\ LoadBalancerIsGone(c))

FairSpec == Spec /\ Fairness

-----------------------------------------------------------------------------
(***************************************************************************)
(* Properties                                                              *)
(***************************************************************************)
ClassIsFixed == scenario.classes = {}

ComesBack == "type" \in scenario.ops

\* The Service disappears only after its LoadBalancer: the finalizer that
\* Reconcile adds before it creates the LoadBalancer is removed by
\* deletionRoutine only once the LoadBalancer is gone, also when the Service
\* becomes one of type ClusterIP, is broken and deleted meanwhile.  It does not
\* hold when the class changes, nor when the Service becomes one of type
\* LoadBalancer again: a cached version from before the removal of the finalizer
\* then lets Reconcile create a LoadBalancer that no finalizer guards.
ServiceOutlivesLoadBalancer ==
    [][ClassIsFixed /\ ~ComesBack /\ svc.exists /\ ~svc'.exists
        => \A c \in Controller : lb[c].st = "absent"]_vars

\* A deleted Service goes, unless its class is one that no controller serves:
\* deletionRoutine keeps coming back until the LoadBalancer is gone, also when
\* the class changed and requests failed, and without any resync.
DeletedServiceGoes ==
    svc.deleting ~> (~svc.exists \/ svc.class = OtherClass)

Wanted(c) ==
    svc.exists /\ ~svc.deleting /\ svc.isLB /\ svc.class = c /\ svc.valid

\* A Service of type LoadBalancer ends up with a LoadBalancer, guarded by the
\* finalizer, and publishes the address of that one, although the LoadBalancer
\* controller of a class that the Service left may still publish its own, although
\* the Service may come back while its LoadBalancer is being deleted (then it takes
\* a resync), and although AddFinalizerIfNeeded trusts a cached version from before
\* the finalizer was removed: the LoadBalancer is unguarded only for a while.
ServiceIsPublished ==
    \A c \in Controller :
        scenario.resync /\ <>[]Wanted(c) => <>[](lb[c].st = "live" /\ svc.ingress = lb[c].ip
                                                      /\ svc.finalizer)

\* A controller gets rid of its LoadBalancer when the Service is no longer of
\* its class, no longer of type LoadBalancer, or deleted; a Service that is not of
\* type LoadBalancer keeps neither an address nor the finalizer.
UnwantedLoadBalancerGoes ==
    \A c \in Controller :
        /\ <>[](svc.exists /\ svc.class # c) => <>[](lb[c].st = "absent")
        /\ <>[](svc.exists /\ svc.class = c /\ ~svc.isLB)
             => <>[](lb[c].st = "absent" /\ svc.ingress = {} /\ ~svc.finalizer)

\* The endpoints end up as the nodes are, although the Node controller compares
\* them with a LoadBalancer from its cache: a node that goes and comes back before
\* the cache shows the first patch leaves the wrong endpoints behind, and the next
\* reconcile of the Service repairs them.
EndpointsFollowNodes ==
    \A c \in Controller :
        scenario.resync /\ <>[]Wanted(c)
            => <>[](lb[c].spec.endpoints = getEndpointsFromNodes(nodes))

SameSettings(spec, want) ==
    LET desired == Desired(want, nodes, spec.networks) IN
    /\ \A f \in UserField \ {"existingIP"} : spec[f] = desired[f]
    /\ ToSet(spec.networks) = want.networks

\* The spec of the LoadBalancer ends up as the annotations of the Service say, in
\* whatever order the networks come and although reconcileOptions stops at the
\* first patch: as long as the project stays.
SettingsFollowService ==
    \A c \in Controller :
        scenario.resync /\ <>[](Wanted(c) /\ svc.want.project = lb[c].spec.project)
            => <>[]SameSettings(lb[c].spec, svc.want)

=============================================================================
