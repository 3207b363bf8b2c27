----------------------- MODULE CloudController_proofs -----------------------
(***************************************************************************)
(* Proofs about CloudController, for every set of controllers, nodes,      *)
(* networks, addresses and scenarios: TypeOK, and that the Service         *)
(* outlives its LoadBalancer.                                              *)
(*                                                                         *)
(* The second one is a statement about caches.  The controller decides on  *)
(* a version of the Service that may be old, and trusts the finalizer that *)
(* it finds there.  It is right because the finalizer is removed only for  *)
(* a version that no longer wants a LoadBalancer, and the versions that    *)
(* are on their way to the cache after such a one want none either: they   *)
(* arrive in order, and the Service never comes back (Quiet).              *)
(***************************************************************************)
EXTENDS CloudController, SequenceTheorems, TLAPS

-----------------------------------------------------------------------------
(***************************************************************************)
(* Types                                                                   *)
(***************************************************************************)
\* A Service whose networks and address can be written into a LoadBalancer
Service ==
    {s \in ServiceObject : /\ s.want["networks"] \subseteq Network
                           /\ s.want["existingIP"] \in Values("existingIP")}

IsSpec(s) ==
    /\ s = [f \in Field |-> s[f]]
    /\ s["endpoints"] \subseteq Node
    /\ s["existingIP"] \in Values("existingIP")
    /\ ToSet(s["networks"]) \subseteq Network /\ IsInjective(s["networks"])

IsLoadBalancer(l) ==
    /\ l = [st |-> l.st, ip |-> l.ip, spec |-> l.spec]
    /\ l.st \in {"absent", "live", "deleting"}
    /\ l.ip \in Values("existingIP")
    /\ IsSpec(l.spec)

\* The two settings whose values matter
LEMMA ValuesOfSettings ==
    /\ Values("networks") = SUBSET Network
    /\ Values("existingIP") = {{}} \cup {{a} : a \in Address}
BY DEF Values

\* The other values of settings
LEMMA ValuesAreSubsets ==
    \A f \in UserField : Values(f) \subseteq SUBSET (Network \cup Address \cup {"on", "opt"})
<1> SUFFICES ASSUME NEW f \in UserField, NEW v \in Values(f)
             PROVE  v \subseteq Network \cup Address \cup {"on", "opt"}
  OBVIOUS
<1>1. CASE f = "networks"
  BY <1>1 DEF Values
<1>2. CASE f = "existingIP"
  BY <1>2 DEF Values
<1>3. CASE f \in {"infra", "debug", "logForward"}
  BY <1>3 DEF Values
<1>4. CASE f \notin {"networks", "existingIP", "infra", "debug", "logForward"}
  BY <1>4 DEF Values
<1> QED  BY <1>1, <1>2, <1>3, <1>4

\* What the controllers and the users do to a Service leaves a Service.
LEMMA ServiceTypes ==
    ASSUME NEW s \in Service
    PROVE  /\ NoService \in Service
           /\ [s EXCEPT !.finalizer = TRUE] \in Service
           /\ [s EXCEPT !.finalizer = FALSE] \in Service
           /\ [s EXCEPT !.deleting = TRUE] \in Service
           /\ \A c \in Controller \cup {OtherClass} : [s EXCEPT !.class = c] \in Service
           /\ \A v \in Values("existingIP") : [s EXCEPT !.ingress = v] \in Service
<1>1. /\ s.want["networks"] \subseteq Network /\ s.want["existingIP"] \in Values("existingIP")
      /\ s \in ServiceObject
  BY DEF Service
<1>2. NoService \in ServiceObject
  BY ValuesOfSettings, CloudAssumption DEF NoService, ServiceObject, Defaults
<1>3. NoService \in Service
  <2>1. NoService.want["networks"] = {} /\ NoService.want["existingIP"] = {}
    BY DEF NoService, Defaults, UserField
  <2> QED  BY <1>2, <2>1, ValuesOfSettings DEF Service
<1>4. /\ [s EXCEPT !.finalizer = TRUE] \in ServiceObject
      /\ [s EXCEPT !.finalizer = FALSE] \in ServiceObject
      /\ [s EXCEPT !.deleting = TRUE] \in ServiceObject
      /\ \A c \in Controller \cup {OtherClass} : [s EXCEPT !.class = c] \in ServiceObject
      /\ \A v \in Values("existingIP") : [s EXCEPT !.ingress = v] \in ServiceObject
  BY <1>1 DEF ServiceObject
<1>5. /\ [s EXCEPT !.finalizer = TRUE].want = s.want
      /\ [s EXCEPT !.finalizer = FALSE].want = s.want
      /\ [s EXCEPT !.deleting = TRUE].want = s.want
      /\ \A c \in Controller \cup {OtherClass} : [s EXCEPT !.class = c].want = s.want
      /\ \A v \in Values("existingIP") : [s EXCEPT !.ingress = v].want = s.want
  BY <1>1 DEF ServiceObject
<1> QED  BY <1>1, <1>3, <1>4, <1>5 DEF Service

\* The users change the type of a Service or break its ports.
LEMMA ServiceFlips ==
    ASSUME NEW s \in Service
    PROVE  /\ [s EXCEPT !.isLB = ~@] \in Service
           /\ [s EXCEPT !.valid = ~@] \in Service
<1>1. /\ s.want["networks"] \subseteq Network /\ s.want["existingIP"] \in Values("existingIP")
      /\ s \in ServiceObject
  BY DEF Service
<1>2. \A b \in BOOLEAN : /\ [s EXCEPT !.isLB = b] \in ServiceObject
                         /\ [s EXCEPT !.isLB = b].want = s.want
                         /\ [s EXCEPT !.valid = b] \in ServiceObject
                         /\ [s EXCEPT !.valid = b].want = s.want
  BY <1>1 DEF ServiceObject
<1>3. (~s.isLB) \in BOOLEAN /\ (~s.valid) \in BOOLEAN
  OBVIOUS
<1>4. /\ [s EXCEPT !.isLB = ~s.isLB] \in Service
      /\ [s EXCEPT !.valid = ~s.valid] \in Service
  BY <1>1, <1>2, <1>3, Zenon DEF Service
<1> QED  BY <1>4

\* The users change settings.
LEMMA ServiceSettingsType ==
    ASSUME NEW s \in Service, NEW w \in [UserField -> SUBSET (Network \cup Address \cup {"on", "opt"})],
           w["networks"] \subseteq Network, w["existingIP"] \in Values("existingIP")
    PROVE  [s EXCEPT !.want = w] \in Service
<1>1. [s EXCEPT !.want = w] \in ServiceObject /\ [s EXCEPT !.want = w].want = w
  BY DEF Service, ServiceObject
<1> QED  BY <1>1 DEF Service

\* getAdditionalNetworks names every network once, in any order.
LEMMA NetworksInAnyOrder ==
    ASSUME NEW s \in Service, NEW networks \in getAdditionalNetworks(s.want)
    PROVE  ToSet(networks) \subseteq Network /\ IsInjective(networks)
<1>1. s.want.networks \subseteq Network
  BY DEF Service
<1>2. PICK n : /\ networks \in [1 .. n -> s.want.networks]
               /\ \A i, j \in 1 .. n : i # j => networks[i] # networks[j]
  BY DEF getAdditionalNetworks, SetToSeqs
<1> QED  BY <1>1, <1>2 DEF ToSet, IsInjective

\* createLoadBalancer writes a spec.
LEMMA NewSpecType ==
    ASSUME NEW s \in Service, NEW networks, ToSet(networks) \subseteq Network, IsInjective(networks),
           NEW internal
    PROVE  IsSpec(NewSpec(s.want, networks, internal))
<1> DEFINE new == NewSpec(s.want, networks, internal)
<1>1. new = [f \in Field |-> new[f]]
  BY DEF NewSpec
<1>2. /\ new["endpoints"] = {} /\ new["networks"] = networks
      /\ new["existingIP"] = s.want["existingIP"]
  BY DEF NewSpec, Field, UserField
<1> QED  BY <1>1, <1>2 DEF IsSpec, Service

\* The spec that Reconcile compares with is one.
LEMMA DesiredType ==
    ASSUME NEW s \in Service, NEW networks, ToSet(networks) \subseteq Network, IsInjective(networks),
           NEW ns
    PROVE  IsSpec(Desired(s.want, ns, networks))
<1> DEFINE new == Desired(s.want, ns, networks)
<1>1. new = [f \in Field |-> new[f]]
  BY DEF Desired
<1>2. /\ new["endpoints"] = getEndpointsFromNodes(ns) /\ new["networks"] = networks
      /\ new["existingIP"] = s.want["existingIP"]
  BY DEF Desired, Field, UserField
<1>3. getEndpointsFromNodes(ns) \subseteq Node
  BY DEF getEndpointsFromNodes, readyNodes, nonTerminatingNodes
<1> QED  BY <1>1, <1>2, <1>3 DEF IsSpec, Service

\* Any of the patches of a reconcile leave a spec: a merge patch keeps no address.
LEMMA PatchedType ==
    ASSUME NEW old, IsSpec(old), NEW want, IsSpec(want), NEW patches
    PROVE  IsSpec(PatchedSpec(old, patches, want))
<1> DEFINE new == PatchedSpec(old, patches, want)
<1>1. new = [f \in Field |-> new[f]]
  BY DEF PatchedSpec
<1>2. \A f \in Field : new[f] \in {MergePatch(f, old[f], want[f]), old[f]}
  BY DEF PatchedSpec
<1>3. {"endpoints", "networks", "existingIP"} \subseteq Field
  BY DEF Field, UserField
<1>4. /\ new["endpoints"] \in {want["endpoints"] \cup (old["endpoints"] \cap {"opt"}), old["endpoints"]}
      /\ new["existingIP"] \in {want["existingIP"] \cup (old["existingIP"] \cap {"opt"}), old["existingIP"]}
      /\ new["networks"] \in {want["networks"], old["networks"]}
  BY <1>2, <1>3 DEF MergePatch
<1> HIDE DEF new
<1>5. old["existingIP"] \cap {"opt"} = {}
  BY ValuesOfSettings, CloudAssumption DEF IsSpec
<1>6. new["existingIP"] \in Values("existingIP")
  BY <1>4, <1>5 DEF IsSpec
<1>7. new["endpoints"] \subseteq Node
  BY <1>4 DEF IsSpec
<1>8. ToSet(new["networks"]) \subseteq Network /\ IsInjective(new["networks"])
  BY <1>4 DEF IsSpec
<1>9. IsSpec(new)
  BY <1>1, <1>6, <1>7, <1>8, Zenon DEF IsSpec
<1> QED  BY <1>9 DEF new

\* The Node controller changes the endpoints.
LEMMA EndpointsType ==
    ASSUME NEW l, IsLoadBalancer(l), NEW ns
    PROVE  IsLoadBalancer([l EXCEPT !.spec.endpoints = getEndpointsFromNodes(ns)])
<1>1. getEndpointsFromNodes(ns) \subseteq Node
  BY DEF getEndpointsFromNodes, readyNodes, nonTerminatingNodes
<1>2. "endpoints" \in Field
  BY DEF Field
<1>3. IsSpec([l.spec EXCEPT !.endpoints = getEndpointsFromNodes(ns)])
  BY <1>1, <1>2 DEF IsLoadBalancer, IsSpec
<1> QED  BY <1>3 DEF IsLoadBalancer

\* What a scenario consists of.
LEMMA ScenarioType ==
    ASSUME NEW s \in Scenarios
    PROVE  /\ s.running \subseteq Controller /\ s.class \in Controller
           /\ s.classes \subseteq Controller \cup {OtherClass}
           /\ s.fields \subseteq UserField /\ s.resync \in BOOLEAN
           /\ s.behind \in Nat \ {0} /\ s.changes \in Nat /\ s.errors \in Nat
<1> DEFINE S == [ops : SUBSET {"delete", "clusterIP", "type", "invalid", "node"},
                 fields : SUBSET UserField, resync : BOOLEAN,
                 running : SUBSET Controller, class : Controller,
                 classes : SUBSET (Controller \cup {OtherClass}),
                 lagging : BOOLEAN, behind : Nat \ {0}, changes : Nat, errors : Nat]
<1>1. s \in S
  BY CloudAssumption
<1> QED  BY <1>1

-----------------------------------------------------------------------------
(***************************************************************************)
(* Type correctness                                                        *)
(***************************************************************************)
ServicesTyped ==
    /\ svc \in Service /\ svcSeen \in [Controller -> Service]
    /\ unseen \in [Controller -> Seq(Service)]
    /\ \A c \in Controller : Len(unseen[c]) <= scenario.behind

IsFleet(l) == l = [c \in Controller |-> l[c]] /\ \A c \in Controller : IsLoadBalancer(l[c])

Counted ==
    /\ nodes \in [Node -> NodeState] /\ nodesSeen \in [Controller -> [Node -> NodeState]]
    /\ svcQueue \in [Controller -> BOOLEAN] /\ nodeQueue \in [Controller -> BOOLEAN]
    /\ publishing \in [Controller -> Values("existingIP")]
    /\ scenario \in Scenarios
    /\ changes \in 0 .. scenario.changes /\ errors \in 0 .. scenario.errors

TypeInv == ServicesTyped /\ IsFleet(lb) /\ IsFleet(lbSeen) /\ Counted

\* TypeInv is stronger than TypeOK.
LEMMA TypeInvImplies == TypeInv => TypeOK
<1> SUFFICES ASSUME TypeInv PROVE TypeOK
  OBVIOUS
<1>1. svc \in ServiceObject /\ \A c \in Controller : svcSeen[c] \in ServiceObject
  BY DEF TypeInv, ServicesTyped, Service
<1>2. ASSUME NEW c \in Controller
      PROVE  unseen[c] \in Seq(ServiceObject) /\ Len(unseen[c]) <= scenario.behind
  <2>1. unseen[c] \in Seq(Service) /\ Len(unseen[c]) <= scenario.behind
    BY DEF TypeInv, ServicesTyped
  <2>2. Service \subseteq ServiceObject
    BY DEF Service
  <2>3. Seq(Service) \subseteq Seq(ServiceObject)
    BY <2>2, SeqMonotonic
  <2> QED  BY <2>1, <2>3
<1>3. ASSUME NEW c \in Controller
      PROVE  IsLB(lb[c]) /\ IsLB(lbSeen[c])
  <2>1. ASSUME NEW l, IsLoadBalancer(l) PROVE IsLB(l)
    BY <2>1 DEF IsLoadBalancer, IsLB, IsSpec
  <2> QED  BY <2>1 DEF TypeInv, IsFleet
<1>4. \A q \in {svcQueue, nodeQueue} : q \in [Controller -> BOOLEAN]
  BY Zenon DEF TypeInv, Counted
<1> QED  BY <1>1, <1>2, <1>3, <1>4, Zenon DEF TypeOK, TypeInv, Counted

\* The absent LoadBalancer.
LEMMA NoLBType == IsLoadBalancer(NoLB)
<1>1. NoService \in ServiceObject /\ NoService.want = Defaults
  BY ValuesOfSettings, CloudAssumption DEF NoService, ServiceObject, Defaults
<1>2. Defaults["networks"] = {} /\ Defaults["existingIP"] = {}
  BY DEF Defaults, UserField
<1>3. NoService \in Service
  BY <1>1, <1>2, ValuesOfSettings DEF Service
<1>4. ToSet(<<>>) \subseteq Network /\ IsInjective(<<>>)
  BY DEF ToSet, IsInjective
<1>5. IsSpec(NewSpec(Defaults, <<>>, {}))
  BY <1>1, <1>3, <1>4, NewSpecType
<1> QED  BY <1>5, ValuesOfSettings DEF NoLB, IsLoadBalancer

\* TypeInv holds in the initial states.
LEMMA TypeInit == Init => TypeInv
<1> SUFFICES ASSUME Init PROVE TypeInv
  OBVIOUS
<1>1. scenario \in Scenarios
  BY DEF Init
<1>2. /\ scenario.class \in Controller /\ scenario.behind \in Nat \ {0}
      /\ scenario.changes \in Nat /\ scenario.errors \in Nat /\ scenario.resync \in BOOLEAN
  BY <1>1, ScenarioType
<1>3. NoService \in ServiceObject /\ NoService.want = Defaults
  BY ValuesOfSettings, CloudAssumption DEF NoService, ServiceObject, Defaults
<1>4. Defaults["networks"] = {} /\ Defaults["existingIP"] = {}
  BY DEF Defaults, UserField
<1>5. NoService \in Service
  BY <1>3, <1>4, ValuesOfSettings DEF Service
<1>6. NewService(scenario.class) \in Service
  <2>1. /\ NewService(scenario.class) \in ServiceObject
        /\ NewService(scenario.class).want = Defaults
    BY <1>2, <1>3, CloudAssumption DEF NewService, ServiceObject
  <2> QED  BY <2>1, <1>4, ValuesOfSettings DEF Service
<1>7. ServicesTyped
  <2>1. svc \in Service /\ svcSeen \in [Controller -> Service]
    BY <1>5, <1>6 DEF Init
  <2>2. <<>> \in Seq(Service) /\ <<svc>> \in Seq(Service) /\ Len(<<svc>>) = 1
    BY <2>1
  <2>3. /\ unseen \in [Controller -> Seq(Service)]
        /\ \A c \in Controller : Len(unseen[c]) <= scenario.behind
    BY <2>2, <1>2 DEF Init
  <2> QED  BY <2>1, <2>3 DEF ServicesTyped
<1>8. IsFleet(lb) /\ IsFleet(lbSeen)
  BY NoLBType DEF Init, IsFleet
<1>9. Counted
  <2>1. nodes \in [Node -> NodeState] /\ nodesSeen \in [Controller -> [Node -> NodeState]]
    BY DEF Init, NodeState
  <2>2. svcQueue \in [Controller -> BOOLEAN] /\ nodeQueue \in [Controller -> BOOLEAN]
    BY <1>2 DEF Init
  <2>3. publishing \in [Controller -> Values("existingIP")]
    BY ValuesOfSettings DEF Init
  <2>4. changes \in 0 .. scenario.changes /\ errors \in 0 .. scenario.errors
    BY <1>2 DEF Init
  <2> QED  BY <1>1, <2>1, <2>2, <2>3, <2>4 DEF Counted
<1> QED  BY <1>7, <1>8, <1>9 DEF TypeInv

\* The watches bring Services, and no more than the scenario allows.
LEMMA WatchedType ==
    ASSUME TypeInv, svc' \in Service, svcSeen' = svcSeen, Watched, UNCHANGED scenario
    PROVE  ServicesTyped'
<1>1. ASSUME NEW c \in Controller
      PROVE  /\ IF svc' = svc \/ c \notin scenario.running THEN unseen'[c] = unseen[c]
                ELSE unseen'[c] = Append(unseen[c], svc')
             /\ Len(unseen'[c]) <= scenario.behind
             /\ unseen[c] \in Seq(Service)
  BY DEF Watched, TypeInv, ServicesTyped
<1>2. ASSUME NEW c \in Controller
      PROVE  unseen'[c] \in Seq(Service) /\ Len(unseen'[c]) <= scenario.behind
  BY <1>1, AppendProperties, SMTT(20)
<1>3. unseen' = [c \in Controller |-> unseen'[c]]
  BY DEF Watched
<1>4. unseen' \in [Controller -> Seq(Service)]
  BY <1>2, <1>3
<1> QED  BY <1>2, <1>4 DEF ServicesTyped, TypeInv

\* A request that comes again or does not.
LEMMA RequeuesType ==
    ASSUME TypeInv, NEW c \in Controller, NEW again, Requeues(c, again)
    PROVE  svcQueue' \in [Controller -> BOOLEAN]
<1>1. (again \/ scenario.resync) \in BOOLEAN
  OBVIOUS
<1>2. \A b \in BOOLEAN : [svcQueue EXCEPT ![c] = b] \in [Controller -> BOOLEAN]
  BY DEF TypeInv, Counted
<1> QED  BY <1>1, <1>2, Zenon DEF Requeues

\* What a reconcile of the Service leaves behind
Reconciled ==
    /\ svc' \in Service /\ IsFleet(lb')
    /\ svcQueue' \in [Controller -> BOOLEAN]
    /\ errors' \in 0 .. scenario.errors

\* One controller changes its LoadBalancer.
LEMMA FleetExcept ==
    ASSUME NEW l, IsFleet(l), NEW c \in Controller, NEW x, IsLoadBalancer(x)
    PROVE  IsFleet([l EXCEPT ![c] = x])
BY DEF IsFleet

\* What happens to a LoadBalancer: deletion, patches of the spec, its address.
LEMMA LoadBalancerExcept ==
    ASSUME NEW l, IsLoadBalancer(l)
    PROVE  /\ IsLoadBalancer([l EXCEPT !.st = "deleting"])
           /\ \A s : IsSpec(s) => IsLoadBalancer([l EXCEPT !.spec = s])
           /\ \A v \in Values("existingIP") : IsLoadBalancer([l EXCEPT !.ip = v])
BY DEF IsLoadBalancer

\* A request fails only as often as the scenario allows.
LEMMA MoreErrors ==
    ASSUME TypeInv, errors' = errors \/ (errors < scenario.errors /\ errors' = errors + 1)
    PROVE  errors' \in 0 .. scenario.errors
<1>1. errors \in 0 .. scenario.errors /\ scenario.errors \in Nat
  BY ScenarioType DEF TypeInv, Counted
<1> QED  BY <1>1

\* The removal of the finalizer leaves a Service, or none.
LEMMA WithoutFinalizerType ==
    ASSUME NEW s \in Service
    PROVE  WithoutFinalizer(s) \in Service
BY ServiceTypes DEF WithoutFinalizer

\* DeleteLoadBalancer keeps the types.
LEMMA DeleteType ==
    ASSUME TypeInv, NEW c \in Controller, DeleteLoadBalancer(c)
    PROVE  Reconciled
<1>1. IsFleet(lb') 
  <2>1. IsLoadBalancer(lb[c])
    BY DEF TypeInv, IsFleet
  <2>2. IsFleet([lb EXCEPT ![c] = [lb[c] EXCEPT !.st = "deleting"]])
    BY <2>1, FleetExcept, LoadBalancerExcept DEF TypeInv
  <2> QED  BY <2>2 DEF DeleteLoadBalancer, TypeInv
<1>2. svcQueue' \in [Controller -> BOOLEAN]
  BY RequeuesType DEF DeleteLoadBalancer
<1> QED  BY <1>1, <1>2 DEF DeleteLoadBalancer, Reconciled, TypeInv, ServicesTyped, Counted

\* ReleaseService keeps the types.
LEMMA ReleaseType ==
    ASSUME TypeInv, NEW c \in Controller, ReleaseService(c)
    PROVE  Reconciled
<1> DEFINE cleared == IF svcSeen[c].ingress = {} THEN svc ELSE [svc EXCEPT !.ingress = {}]
<1>1. svc \in Service
  BY DEF TypeInv, ServicesTyped
<1>2. cleared \in Service
  BY <1>1, ServiceTypes, ValuesOfSettings
<1>3. svc' \in {svc, cleared, WithoutFinalizer(cleared)}
  BY DEF ReleaseService
<1>4. svc' \in Service
  BY <1>1, <1>2, <1>3, WithoutFinalizerType
<1>5. svcQueue' \in [Controller -> BOOLEAN]
  BY RequeuesType DEF ReleaseService
<1>6. errors' \in 0 .. scenario.errors
  BY MoreErrors DEF ReleaseService
<1>7. IsFleet(lb')
  BY DEF ReleaseService, TypeInv
<1> QED  BY <1>4, <1>5, <1>6, <1>7 DEF Reconciled

\* AddFinalizerIfNeeded keeps the types.
LEMMA FinalizedType ==
    ASSUME TypeInv, NEW c \in Controller
    PROVE  /\ Finalized(c) \in Service
           /\ AddFinalizerIfNeeded(c) => svc' \in Service
BY ServiceTypes DEF TypeInv, ServicesTyped, Finalized, AddFinalizerIfNeeded

\* createLoadBalancer keeps the types.
LEMMA CreateType ==
    ASSUME TypeInv, NEW c \in Controller, createLoadBalancer(c)
    PROVE  Reconciled
<1> DEFINE s == Finalized(c)
<1>1. s \in Service /\ svc \in Service
  BY FinalizedType DEF TypeInv, ServicesTyped
<1>2. svc' \in Service
  <2>1. CASE AddFinalizerIfNeeded(c)
    BY <2>1, FinalizedType
  <2>2. CASE svc' = IF svc.exists THEN WithoutFinalizer(svc) ELSE svc
    BY <1>1, <2>2, WithoutFinalizerType
  <2> QED  BY <2>1, <2>2 DEF createLoadBalancer
<1>3. IsFleet(lb')
  <2>1. ASSUME NEW networks \in getAdditionalNetworks(s.want), NEW internal,
               lb' = [lb EXCEPT ![c] = [st |-> "live", ip |-> {},
                                        spec |-> NewSpec(s.want, networks, internal)]]
        PROVE  IsFleet(lb')
    <3>1. IsSpec(NewSpec(s.want, networks, internal))
      BY <1>1, NetworksInAnyOrder, NewSpecType
    <3>2. IsLoadBalancer([st |-> "live", ip |-> {}, spec |-> NewSpec(s.want, networks, internal)])
      BY <3>1, ValuesOfSettings DEF IsLoadBalancer
    <3> QED  BY <2>1, <3>2, FleetExcept DEF TypeInv
  <2>2. CASE lb' = lb
    BY <2>2 DEF TypeInv
  <2> QED  BY <2>1, <2>2 DEF createLoadBalancer
<1>4. svcQueue' \in [Controller -> BOOLEAN]
  BY RequeuesType DEF createLoadBalancer
<1>5. errors' \in 0 .. scenario.errors
  BY MoreErrors DEF createLoadBalancer
<1> QED  BY <1>2, <1>3, <1>4, <1>5 DEF Reconciled

\* SyncLoadBalancer keeps the types.
LEMMA SyncType ==
    ASSUME TypeInv, NEW c \in Controller, SyncLoadBalancer(c)
    PROVE  Reconciled
<1> DEFINE s == Finalized(c)
<1>1. s \in Service /\ svc' \in Service
  BY FinalizedType DEF SyncLoadBalancer
<1>2. PICK networks \in getAdditionalNetworks(s.want) :
        /\ \/ lb' = lb
           \/ \E patches : lb' = [lb EXCEPT ![c].spec = PatchedSpec(@, patches,
                                                Desired(s.want, nodesSeen[c], networks))]
        /\ \E again : Requeues(c, again)
        /\ errors' = errors \/ (errors < scenario.errors /\ errors' = errors + 1)
  BY DEF SyncLoadBalancer
<1>3. IsSpec(Desired(s.want, nodesSeen[c], networks))
  BY <1>1, <1>2, NetworksInAnyOrder, DesiredType
<1>4. IsFleet(lb')
  <2>1. IsLoadBalancer(lb[c]) /\ IsSpec(lb[c].spec)
    BY DEF TypeInv, IsFleet, IsLoadBalancer
  <2>2. ASSUME NEW patches,
               lb' = [lb EXCEPT ![c].spec = PatchedSpec(@, patches,
                                                Desired(s.want, nodesSeen[c], networks))]
        PROVE  IsFleet(lb')
    <3> DEFINE new == PatchedSpec(lb[c].spec, patches, Desired(s.want, nodesSeen[c], networks))
    <3>1. IsSpec(new)
      BY <1>3, <2>1, PatchedType
    <3>2. lb' = [lb EXCEPT ![c] = [lb[c] EXCEPT !.spec = new]]
      BY <2>2
    <3> HIDE DEF new
    <3>3. IsLoadBalancer([lb[c] EXCEPT !.spec = new])
      BY <2>1, <3>1, LoadBalancerExcept
    <3> QED  BY <3>2, <3>3, FleetExcept DEF TypeInv
  <2> QED  BY <1>2, <2>2 DEF TypeInv
<1>5. svcQueue' \in [Controller -> BOOLEAN]
  BY <1>2, RequeuesType
<1>6. errors' \in 0 .. scenario.errors
  BY <1>2, MoreErrors
<1> QED  BY <1>1, <1>4, <1>5, <1>6 DEF Reconciled

\* A reconcile of the Service preserves TypeInv.
LEMMA ServiceReconcileType ==
    ASSUME TypeInv, NEW c \in Controller, ServiceReconcile(c)
    PROVE  TypeInv'
<1>1. ASSUME NEW again, Requeues(c, again), UNCHANGED <<lb, errors>>, svc' \in Service
      PROVE  Reconciled
  BY <1>1, RequeuesType DEF Reconciled, TypeInv, Counted
<1>2. ASSUME NEW again, Requeues(c, again), UNCHANGED <<svc, lb, errors>>
      PROVE  Reconciled
  BY <1>1, <1>2 DEF TypeInv, ServicesTyped
<1>3. ASSUME ForeignClass(c) PROVE Reconciled
  BY <1>2, <1>3, DeleteType DEF ForeignClass
<1>4. ASSUME deletionRoutine(c) PROVE Reconciled
  BY <1>4, ReleaseType, DeleteType DEF deletionRoutine
<1>5. ASSUME reconcileLoadBalancer(c) PROVE Reconciled
  <2>1. CASE AddFinalizerIfNeeded(c) /\ Requeues(c, TRUE) /\ UNCHANGED <<lb, errors>>
    BY <2>1, <1>1, FinalizedType
  <2> QED  BY <1>5, <2>1, CreateType, SyncType DEF reconcileLoadBalancer
<1>6. Reconciled
  BY <1>2, <1>3, <1>4, <1>5 DEF ServiceReconcile
<1>7. /\ svcSeen' = svcSeen /\ Watched /\ lbSeen' = lbSeen
      /\ UNCHANGED <<nodes, nodesSeen, nodeQueue, publishing, scenario, changes>>
  BY DEF ServiceReconcile, caches
<1>8. ServicesTyped'
  BY <1>6, <1>7, WatchedType DEF Reconciled
<1>9. Counted'
  BY <1>6, <1>7 DEF Reconciled, TypeInv, Counted
<1> QED  BY <1>6, <1>7, <1>8, <1>9 DEF TypeInv, Reconciled

\* A reconcile of the LoadBalancer preserves TypeInv.
LEMMA LoadBalancerReconcileType ==
    ASSUME TypeInv, NEW c \in Controller, LoadBalancerReconcile(c)
    PROVE  TypeInv'
<1>0. lbSeen[c].ip \in Values("existingIP")
  BY DEF TypeInv, IsFleet, IsLoadBalancer
<1>1. CASE LoadBalancerRead(c)
  <2>1. publishing' \in [Controller -> Values("existingIP")]
    BY <1>0, <1>1 DEF LoadBalancerRead, TypeInv, Counted
  <2>2. UNCHANGED <<svc, svcSeen, unseen, lb, lbSeen, nodes, nodesSeen, svcQueue, nodeQueue,
                    scenario, changes, errors>>
    BY <1>1 DEF LoadBalancerRead, api, caches, queues
  <2> QED  BY <2>1, <2>2 DEF TypeInv, ServicesTyped, Counted
<1>2. CASE PatchServiceStatus(c)
  <2>1. publishing' \in [Controller -> Values("existingIP")]
    BY <1>2, ValuesOfSettings DEF PatchServiceStatus, TypeInv, Counted
  <2>2. UNCHANGED <<svcSeen, lb, lbSeen, nodes, nodesSeen, svcQueue, nodeQueue,
                    scenario, changes, errors>>
    BY <1>2 DEF PatchServiceStatus, caches, queues
  <2>3. svc' \in Service
    <3>1. publishing[c] \in Values("existingIP") /\ svc \in Service
      BY DEF TypeInv, Counted, ServicesTyped
    <3> QED  BY <1>2, <3>1, ServiceTypes DEF PatchServiceStatus
  <2>4. ServicesTyped'
    BY <1>2, <2>2, <2>3, WatchedType DEF PatchServiceStatus
  <2> QED  BY <2>1, <2>2, <2>4 DEF TypeInv, Counted
<1> QED  BY <1>1, <1>2 DEF LoadBalancerReconcile

\* A reconcile of the nodes preserves TypeInv.
LEMMA NodeReconcileType ==
    ASSUME TypeInv, NEW c \in Controller, NodeReconcile(c)
    PROVE  TypeInv'
<1>1. UNCHANGED <<svc, svcSeen, unseen, lbSeen, nodes, nodesSeen, svcQueue, publishing,
                  scenario, changes, errors>>
  BY DEF NodeReconcile, caches
<1>2. nodeQueue' \in [Controller -> BOOLEAN]
  <2>1. \A b \in BOOLEAN : [nodeQueue EXCEPT ![c] = b] \in [Controller -> BOOLEAN]
    BY DEF TypeInv, Counted
  <2>2. (lb[c].st = "absent") \in BOOLEAN /\ FALSE \in BOOLEAN
    OBVIOUS
  <2> QED  BY <2>1, <2>2, Zenon DEF NodeReconcile
<1>3. IsFleet(lb')
  <2> DEFINE new == [lb[c] EXCEPT !.spec.endpoints = getEndpointsFromNodes(nodesSeen[c])]
  <2>1. IsLoadBalancer(lb[c]) /\ IsFleet(lb)
    BY DEF TypeInv, IsFleet
  <2>2. IsLoadBalancer(new)
    BY <2>1, EndpointsType
  <2>3. lb' \in {lb, [lb EXCEPT ![c] = new]}
    BY DEF NodeReconcile
  <2> HIDE DEF new
  <2> QED  BY <2>1, <2>2, <2>3, FleetExcept
<1> QED  BY <1>1, <1>2, <1>3 DEF TypeInv, ServicesTyped, Counted

\* The informers preserve TypeInv.
LEMMA EventType ==
    ASSUME TypeInv, NEW c \in Controller,
           ServiceEvent(c) \/ LoadBalancerEvent(c) \/ NodeEvent(c)
    PROVE  TypeInv'
<1>1. CASE ServiceEvent(c)
  <2>1. unseen[c] \in Seq(Service) /\ unseen[c] # <<>> /\ Len(unseen[c]) <= scenario.behind
    BY <1>1 DEF ServiceEvent, TypeInv, ServicesTyped
  <2>2. /\ Head(unseen[c]) \in Service /\ Tail(unseen[c]) \in Seq(Service)
        /\ Len(Tail(unseen[c])) = Len(unseen[c]) - 1 /\ Len(unseen[c]) \in Nat
    BY <2>1, HeadTailProperties
  <2>3. UNCHANGED <<svc, lb, nodes, lbSeen, nodesSeen, nodeQueue, publishing, scenario, changes, errors>>
    BY <1>1 DEF ServiceEvent, api
  <2>4. svcQueue' \in [Controller -> BOOLEAN]
    BY <1>1 DEF ServiceEvent, TypeInv, Counted
  <2>5. svcSeen' \in [Controller -> Service] /\ unseen' \in [Controller -> Seq(Service)]
    BY <1>1, <2>2 DEF ServiceEvent, TypeInv, ServicesTyped
  <2>6. \A d \in Controller : Len(unseen'[d]) <= scenario.behind
    <3>1. unseen'[c] = Tail(unseen[c]) /\ \A d \in Controller \ {c} : unseen'[d] = unseen[d]
      BY <1>1 DEF ServiceEvent, TypeInv, ServicesTyped
    <3>2. scenario.behind \in Nat
      BY ScenarioType DEF TypeInv, Counted
    <3>3. Len(unseen'[c]) <= scenario.behind
      BY <2>1, <2>2, <3>1, <3>2
    <3> QED  BY <3>1, <3>3 DEF TypeInv, ServicesTyped
  <2> QED  BY <2>3, <2>4, <2>5, <2>6 DEF TypeInv, ServicesTyped, Counted
<1>2. CASE LoadBalancerEvent(c)
  <2>1. UNCHANGED <<svc, svcSeen, unseen, lb, nodes, nodesSeen, svcQueue, nodeQueue, publishing,
                    scenario, changes, errors>>
    BY <1>2 DEF LoadBalancerEvent, api, queues
  <2>2. IsFleet(lbSeen')
    BY <1>2, FleetExcept DEF LoadBalancerEvent, TypeInv, IsFleet
  <2> QED  BY <2>1, <2>2 DEF TypeInv, ServicesTyped, Counted
<1>3. CASE NodeEvent(c)
  <2>1. UNCHANGED <<svc, svcSeen, unseen, lb, lbSeen, nodes, svcQueue, publishing,
                    scenario, changes, errors>>
    BY <1>3 DEF NodeEvent, api
  <2>2. nodesSeen' \in [Controller -> [Node -> NodeState]] /\ nodeQueue' \in [Controller -> BOOLEAN]
    BY <1>3 DEF NodeEvent, TypeInv, Counted
  <2> QED  BY <2>1, <2>2 DEF TypeInv, ServicesTyped, Counted
<1> QED  BY <1>1, <1>2, <1>3

\* The yawol-controller preserves TypeInv.
LEMMA YawolType ==
    ASSUME TypeInv, NEW c \in Controller, LoadBalancerIsReady(c) \/ LoadBalancerIsGone(c)
    PROVE  TypeInv'
<1>1. UNCHANGED <<svc, svcSeen, unseen, lbSeen, nodes, nodesSeen, svcQueue, nodeQueue, publishing,
                  scenario, changes, errors>>
  BY DEF LoadBalancerIsReady, LoadBalancerIsGone, caches, queues
<1>2. IsLoadBalancer(lb[c]) /\ IsFleet(lb)
  BY DEF TypeInv, IsFleet
<1>3. IsFleet(lb')
  <2>1. CASE LoadBalancerIsReady(c)
    <3> DEFINE ip == IF lb[c].spec.existingIP # {} THEN lb[c].spec.existingIP ELSE {c}
    <3>1. lb[c].spec.existingIP \in Values("existingIP")
      BY <1>2 DEF IsLoadBalancer, IsSpec
    <3>2. ip \in Values("existingIP")
      BY <3>1, ValuesOfSettings, CloudAssumption
    <3>3. lb' = [lb EXCEPT ![c] = [lb[c] EXCEPT !.ip = ip]]
      BY <2>1 DEF LoadBalancerIsReady
    <3> HIDE DEF ip
    <3>4. IsLoadBalancer([lb[c] EXCEPT !.ip = ip])
      BY <1>2, <3>2, LoadBalancerExcept
    <3> QED  BY <1>2, <3>3, <3>4, FleetExcept
  <2>2. CASE LoadBalancerIsGone(c)
    BY <2>2, <1>2, FleetExcept, NoLBType DEF LoadBalancerIsGone
  <2> QED  BY <2>1, <2>2
<1> QED  BY <1>1, <1>3 DEF TypeInv, ServicesTyped, Counted

\* Users and nodes change only as often as the scenario allows.
LEMMA MoreChanges ==
    ASSUME TypeInv, changes < scenario.changes, changes' = changes + 1
    PROVE  changes' \in 0 .. scenario.changes
<1>1. changes \in 0 .. scenario.changes /\ scenario.changes \in Nat
  BY ScenarioType DEF TypeInv, Counted
<1> QED  BY <1>1

\* A change of the Service preserves TypeInv.
LEMMA UserStepType ==
    ASSUME TypeInv, NEW allowed, NEW new \in Service, UserStep(allowed, new)
    PROVE  TypeInv'
<1>1. UNCHANGED <<svcSeen, lb, lbSeen, nodes, nodesSeen, svcQueue, nodeQueue, publishing,
                  scenario, errors>>
  BY DEF UserStep, caches, queues
<1>2. ServicesTyped'
  BY <1>1, WatchedType DEF UserStep
<1>3. changes' \in 0 .. scenario.changes
  BY MoreChanges DEF UserStep
<1> QED  BY <1>1, <1>2, <1>3 DEF TypeInv, Counted

\* Users and nodes preserve TypeInv.
LEMMA UserType ==
    ASSUME TypeInv,
           \/ DeleteService \/ ChangeType \/ ChangeClass \/ ChangePorts \/ ChangeSettings
           \/ \E n \in Node : ChangeNode(n)
    PROVE  TypeInv'
<1>0. svc \in Service
  BY DEF TypeInv, ServicesTyped
<1>1. CASE DeleteService
  <2>1. (IF svc.finalizer THEN [svc EXCEPT !.deleting = TRUE] ELSE NoService) \in Service
    BY <1>0, ServiceTypes
  <2> QED  BY <1>1, <2>1, UserStepType, Zenon DEF DeleteService
<1>2. CASE ChangeType
  BY <1>0, <1>2, ServiceFlips, UserStepType DEF ChangeType
<1>3. CASE ChangeClass
  <2>1. scenario.classes \subseteq Controller \cup {OtherClass}
    BY ScenarioType DEF TypeInv, Counted
  <2> QED  BY <1>0, <1>3, <2>1, ServiceTypes, UserStepType DEF ChangeClass
<1>4. CASE ChangePorts
  BY <1>0, <1>4, ServiceFlips, UserStepType DEF ChangePorts
<1>5. CASE ChangeSettings
  <2>1. PICK F \in SUBSET scenario.fields : \E want \in [F -> UNION {Values(f) : f \in F}] :
          /\ \A f \in F : want[f] \in Values(f)
          /\ svc' = [svc EXCEPT !.want = [f \in UserField |-> IF f \in F THEN want[f] ELSE @[f]]]
    BY <1>5 DEF ChangeSettings
  <2>0. PICK want \in [F -> UNION {Values(f) : f \in F}] :
          /\ \A f \in F : want[f] \in Values(f)
          /\ svc' = [svc EXCEPT !.want = [f \in UserField |-> IF f \in F THEN want[f] ELSE @[f]]]
    BY <2>1
  <2> DEFINE w == [f \in UserField |-> IF f \in F THEN want[f] ELSE svc.want[f]]
  <2>2. svc' = [svc EXCEPT !.want = w]
    BY <2>0
  <2>3. F \subseteq UserField
    BY ScenarioType DEF TypeInv, Counted
  <2>4. \A f \in F : want[f] \in SUBSET (Network \cup Address \cup {"on", "opt"})
    BY <2>0, <2>3, ValuesAreSubsets
  <2>5. /\ svc.want \in [UserField -> SUBSET (Network \cup Address \cup {"on", "opt"})]
        /\ svc.want["networks"] \subseteq Network /\ svc.want["existingIP"] \in Values("existingIP")
    BY <1>0 DEF Service, ServiceObject
  <2>6. w \in [UserField -> SUBSET (Network \cup Address \cup {"on", "opt"})]
    BY <2>4, <2>5
  <2>7. w["networks"] \subseteq Network
    <3>1. "networks" \in UserField
      BY DEF UserField
    <3> QED  BY <2>0, <2>5, <3>1, ValuesOfSettings
  <2>8. w["existingIP"] \in Values("existingIP")
    <3>1. "existingIP" \in UserField
      BY DEF UserField
    <3> QED  BY <2>0, <2>5, <3>1
  <2> HIDE DEF w
  <2>9. svc' \in Service
    BY <1>0, <2>2, <2>6, <2>7, <2>8, ServiceSettingsType
  <2>10. UNCHANGED <<svcSeen, lb, lbSeen, nodes, nodesSeen, svcQueue, nodeQueue, publishing,
                     scenario, errors>>
    BY <1>5 DEF ChangeSettings, caches, queues
  <2>11. ServicesTyped'
    BY <1>5, <2>9, <2>10, WatchedType DEF ChangeSettings
  <2>12. changes' \in 0 .. scenario.changes
    BY <1>5, MoreChanges DEF ChangeSettings
  <2> QED  BY <2>10, <2>11, <2>12 DEF TypeInv, Counted
<1>6. ASSUME NEW n \in Node, ChangeNode(n)
      PROVE  TypeInv'
  <2>1. UNCHANGED <<svc, svcSeen, unseen, lb, lbSeen, nodesSeen, svcQueue, nodeQueue, publishing,
                    scenario, errors>>
    BY <1>6 DEF ChangeNode, caches, queues
  <2>2. nodes' \in [Node -> NodeState]
    BY <1>6 DEF ChangeNode, TypeInv, Counted
  <2>3. changes' \in 0 .. scenario.changes
    BY <1>6, MoreChanges DEF ChangeNode
  <2> QED  BY <2>1, <2>2, <2>3 DEF TypeInv, ServicesTyped, Counted
<1> QED  BY <1>1, <1>2, <1>3, <1>4, <1>5, <1>6

\* Every step preserves TypeInv.
LEMMA TypeStep == TypeInv /\ [Next]_vars => TypeInv'
<1> SUFFICES ASSUME TypeInv, [Next]_vars
             PROVE  TypeInv'
  OBVIOUS
<1>1. CASE \/ DeleteService \/ ChangeType \/ ChangeClass \/ ChangePorts \/ ChangeSettings
           \/ \E n \in Node : ChangeNode(n)
  BY <1>1, UserType
<1>2. scenario.running \subseteq Controller
  BY ScenarioType DEF TypeInv, Counted
<1>3. ASSUME NEW c \in Controller,
             \/ ServiceReconcile(c) \/ LoadBalancerReconcile(c) \/ NodeReconcile(c)
             \/ ServiceEvent(c) \/ LoadBalancerEvent(c) \/ NodeEvent(c)
             \/ LoadBalancerIsReady(c) \/ LoadBalancerIsGone(c)
      PROVE  TypeInv'
  BY <1>3, ServiceReconcileType, LoadBalancerReconcileType, NodeReconcileType, EventType, YawolType
<1>4. CASE UNCHANGED vars
  BY <1>4 DEF vars, api, caches, queues, TypeInv, ServicesTyped, Counted
<1> QED  BY <1>1, <1>2, <1>3, <1>4 DEF Next

\* Type correctness: in particular a LoadBalancer never names a network twice, nor
\* has an endpoint that is no node or an address that is none, whatever is patched.
THEOREM TypeCorrect == Spec => []TypeOK
<1>1. Spec => []TypeInv
  BY TypeInit, TypeStep, PTL DEF Spec
<1> QED  BY <1>1, TypeInvImplies, PTL

-----------------------------------------------------------------------------
(***************************************************************************)
(* The Service outlives its LoadBalancer                                   *)
(***************************************************************************)
\* What ServiceOutlivesLoadBalancer presumes of the users
Quiet == ClassIsFixed /\ ~ComesBack

\* A version of the Service for which deletionRoutine runs, or that is gone
Released(v) == ~v.isLB \/ v.deleting

\* The controller has a version of its class, and no LoadBalancer.
MayRelease(c) == svcSeen[c].exists /\ svcSeen[c].class = c /\ lb[c].st = "absent"

\* The controller creates a LoadBalancer, after it made sure of the finalizer.
MayCreate(c) ==
    /\ svcSeen[c].exists /\ svcSeen[c].class = c /\ ~Released(svcSeen[c])
    /\ AddFinalizerIfNeeded(c)

\* What any step may do to the Service
ServiceStep ==
    /\ Released(svc) => Released(svc')
    /\ svc'.exists => svc.exists /\ svc'.class = svc.class
    /\ svc.exists /\ ~svc'.exists => ~svc.finalizer \/ \E c \in Controller : MayRelease(c)
    /\ svc'.exists /\ svc.finalizer /\ ~svc'.finalizer
         => \E c \in Controller : MayRelease(c) /\ Released(svcSeen[c])

LoadBalancerStep ==
    \A c \in Controller : lb[c].st = "absent" /\ lb'[c].st # "absent" => MayCreate(c)

\* A step that leaves the Service alone.
LEMMA SameService ==
    ASSUME svc' = svc
    PROVE  ServiceStep
BY DEF ServiceStep, Released

\* A step that leaves the LoadBalancers alone.
LEMMA SameLoadBalancers ==
    ASSUME lb' = lb
    PROVE  LoadBalancerStep
BY DEF LoadBalancerStep

\* deletionRoutine removes the finalizer, or with it the Service, when there is no
\* LoadBalancer.
LEMMA ReleaseStep ==
    ASSUME TypeInv, NEW c \in Controller, MayRelease(c), Released(svcSeen[c]), ReleaseService(c)
    PROVE  ServiceStep
<1> DEFINE cleared == IF svcSeen[c].ingress = {} THEN svc ELSE [svc EXCEPT !.ingress = {}]
<1>1. svc \in ServiceObject
  BY DEF TypeInv, ServicesTyped, Service
<1>2. /\ cleared \in ServiceObject
      /\ cleared.exists = svc.exists /\ cleared.isLB = svc.isLB /\ cleared.class = svc.class
      /\ cleared.deleting = svc.deleting /\ cleared.finalizer = svc.finalizer
  BY <1>1, ValuesOfSettings DEF ServiceObject
<1>3. svc' \in {svc, cleared, WithoutFinalizer(cleared)}
  BY DEF ReleaseService
<1> HIDE DEF cleared
<1>4. CASE svc' = svc
  BY <1>4, SameService
<1>5. CASE svc' = cleared
  BY <1>2, <1>5 DEF ServiceStep, Released
<1>6. CASE svc' = WithoutFinalizer(cleared)
  <2>1. CASE cleared.deleting
    BY <1>6, <2>1 DEF WithoutFinalizer, NoService, ServiceStep, Released
  <2>2. CASE ~cleared.deleting
    <3>1. svc' = [cleared EXCEPT !.finalizer = FALSE]
      BY <1>6, <2>2 DEF WithoutFinalizer
    <3>2. /\ svc'.exists = svc.exists /\ svc'.isLB = svc.isLB /\ svc'.class = svc.class
          /\ svc'.deleting = svc.deleting
      BY <1>2, <3>1 DEF ServiceObject
    <3> QED  BY <3>2 DEF ServiceStep, Released
  <2> QED  BY <2>1, <2>2
<1> QED  BY <1>3, <1>4, <1>5, <1>6

\* AddFinalizerIfNeeded never takes the finalizer away.
LEMMA AddFinalizerStep ==
    ASSUME TypeInv, NEW c \in Controller, AddFinalizerIfNeeded(c)
    PROVE  ServiceStep
<1>1. svc \in ServiceObject
  BY DEF TypeInv, ServicesTyped, Service
<1>2. svc' \in {svc, [svc EXCEPT !.finalizer = TRUE]}
  BY DEF AddFinalizerIfNeeded
<1>3. /\ svc'.exists = svc.exists /\ svc'.isLB = svc.isLB /\ svc'.class = svc.class
      /\ svc'.deleting = svc.deleting /\ (svc.finalizer => svc'.finalizer)
  BY <1>1, <1>2 DEF ServiceObject
<1> QED  BY <1>3 DEF ServiceStep, Released

\* DeleteLoadBalancer creates nothing and leaves the Service alone.
LEMMA DeleteStep ==
    ASSUME TypeInv, NEW c \in Controller, DeleteLoadBalancer(c)
    PROVE  ServiceStep /\ LoadBalancerStep
<1>1. lb' \in {lb, [lb EXCEPT ![c].st = "deleting"]} /\ (lb' # lb => lb[c].st = "live")
  BY DEF DeleteLoadBalancer
<1>2. LoadBalancerStep
  BY <1>1 DEF LoadBalancerStep, TypeInv, IsFleet
<1> QED  BY <1>2, SameService DEF DeleteLoadBalancer

\* createLoadBalancer creates with the finalizer, or finds the Service deleted and
\* lets it go, which has no LoadBalancer.
LEMMA CreateStep ==
    ASSUME TypeInv, NEW c \in Controller, MayRelease(c), ~Released(svcSeen[c]), createLoadBalancer(c)
    PROVE  ServiceStep /\ LoadBalancerStep
<1>1. svc \in ServiceObject
  BY DEF TypeInv, ServicesTyped, Service
<1>2. CASE Finalized(c).deleting /\ lb' = lb /\ svc' = IF svc.exists THEN WithoutFinalizer(svc) ELSE svc
  <2>1. svc.deleting
    BY <1>1, <1>2 DEF Finalized, Released, ServiceObject
  <2>2. svc' \in {svc, NoService}
    BY <1>2, <2>1 DEF WithoutFinalizer
  <2>3. ServiceStep
    BY <2>2 DEF ServiceStep, Released, NoService
  <2> QED  BY <1>2, <2>3, SameLoadBalancers
<1>3. CASE AddFinalizerIfNeeded(c)
  <2>1. \A d \in Controller \ {c} : lb'[d] = lb[d]
    BY DEF createLoadBalancer, TypeInv, IsFleet
  <2>2. LoadBalancerStep
    BY <1>3, <2>1 DEF LoadBalancerStep, MayCreate, MayRelease
  <2> QED  BY <1>3, <2>2, AddFinalizerStep
<1> QED  BY <1>2, <1>3 DEF createLoadBalancer

\* SyncLoadBalancer creates nothing.
LEMMA SyncStep ==
    ASSUME TypeInv, NEW c \in Controller, SyncLoadBalancer(c)
    PROVE  ServiceStep /\ LoadBalancerStep
<1>1. \/ lb' = lb
      \/ \E s : lb' = [lb EXCEPT ![c].spec = s]
  BY DEF SyncLoadBalancer
<1>2. \A d \in Controller : lb'[d].st = lb[d].st
  BY <1>1 DEF TypeInv, IsFleet, IsLoadBalancer
<1> QED  BY <1>2, AddFinalizerStep DEF LoadBalancerStep, SyncLoadBalancer

\* A reconcile of the Service removes the finalizer only without a LoadBalancer,
\* and creates a LoadBalancer only with the finalizer.
LEMMA ServiceReconcileStep ==
    ASSUME TypeInv, NEW c \in Controller, ServiceReconcile(c)
    PROVE  ServiceStep /\ LoadBalancerStep
<1> DEFINE s == svcSeen[c]
<1>1. ASSUME UNCHANGED <<svc, lb>>
      PROVE  ServiceStep /\ LoadBalancerStep
  BY <1>1, SameService, SameLoadBalancers
<1>2. CASE ForeignClass(c)
  BY <1>1, <1>2, DeleteStep DEF ForeignClass
<1>3. CASE s.exists /\ s.class = c /\ Released(s) /\ deletionRoutine(c)
  <2>1. CASE ReleaseService(c)
    <3>1. MayRelease(c)
      BY <1>3, <2>1 DEF ServiceReconcile, Takes, OwnCreateSeen, ReleaseService, MayRelease
    <3> QED  BY <1>3, <2>1, <3>1, ReleaseStep, SameLoadBalancers DEF ReleaseService
  <2> QED  BY <1>3, <2>1, DeleteStep DEF deletionRoutine
<1>4. CASE s.exists /\ s.class = c /\ ~Released(s) /\ reconcileLoadBalancer(c)
  <2>1. CASE AddFinalizerIfNeeded(c) /\ UNCHANGED lb
    BY <2>1, AddFinalizerStep, SameLoadBalancers
  <2>2. CASE createLoadBalancer(c)
    <3>1. MayRelease(c)
      BY <1>4, <2>2 DEF ServiceReconcile, Takes, OwnCreateSeen, createLoadBalancer, MayRelease
    <3> QED  BY <1>4, <2>2, <3>1, CreateStep
  <2> QED  BY <1>4, <2>1, <2>2, SyncStep DEF reconcileLoadBalancer
<1> QED  BY <1>1, <1>2, <1>3, <1>4 DEF ServiceReconcile, CheckLoadBalancerClasses, Released

\* No other step of a controller touches the finalizer or creates a LoadBalancer.
LEMMA ControllerStep ==
    ASSUME TypeInv, NEW c \in Controller,
           \/ LoadBalancerReconcile(c) \/ NodeReconcile(c)
           \/ ServiceEvent(c) \/ LoadBalancerEvent(c) \/ NodeEvent(c)
           \/ LoadBalancerIsReady(c) \/ LoadBalancerIsGone(c)
    PROVE  ServiceStep /\ LoadBalancerStep
<1>1. CASE UNCHANGED <<svc, lb>>
  BY <1>1, SameService, SameLoadBalancers
<1>2. CASE LoadBalancerRead(c) \/ ServiceEvent(c) \/ LoadBalancerEvent(c) \/ NodeEvent(c)
  BY <1>1, <1>2 DEF LoadBalancerRead, ServiceEvent, LoadBalancerEvent, NodeEvent, api
<1>3. CASE PatchServiceStatus(c)
  <2>1. svc \in ServiceObject /\ svc' \in {svc, [svc EXCEPT !.ingress = publishing[c]]}
    BY <1>3 DEF PatchServiceStatus, TypeInv, ServicesTyped, Service
  <2>2. /\ svc'.exists = svc.exists /\ svc'.isLB = svc.isLB /\ svc'.class = svc.class
        /\ svc'.deleting = svc.deleting /\ svc'.finalizer = svc.finalizer
    BY <2>1 DEF ServiceObject
  <2>3. ServiceStep
    BY <2>2 DEF ServiceStep, Released
  <2> QED  BY <1>3, <2>3, SameLoadBalancers DEF PatchServiceStatus
<1>4. CASE NodeReconcile(c)
  <2>1. \/ lb' = lb
        \/ \E e : lb' = [lb EXCEPT ![c].spec.endpoints = e]
    BY <1>4 DEF NodeReconcile
  <2>2. \A d \in Controller : lb'[d].st = lb[d].st
    BY <2>1 DEF TypeInv, IsFleet, IsLoadBalancer
  <2> QED  BY <1>4, <2>2, SameService DEF LoadBalancerStep, NodeReconcile
<1>5. CASE LoadBalancerIsReady(c) \/ LoadBalancerIsGone(c)
  <2>1. /\ lb[c].st # "absent"
        /\ \A d \in Controller \ {c} : lb'[d] = lb[d]
    BY <1>5 DEF LoadBalancerIsReady, LoadBalancerIsGone, TypeInv, IsFleet
  <2>2. LoadBalancerStep
    BY <2>1 DEF LoadBalancerStep
  <2> QED  BY <1>5, <2>2, SameService DEF LoadBalancerIsReady, LoadBalancerIsGone
<1> QED  BY <1>2, <1>3, <1>4, <1>5 DEF LoadBalancerReconcile

\* The users delete a Service at once only if it has no finalizer, and do not make
\* it one that wants a LoadBalancer again.
LEMMA UsersStep ==
    ASSUME TypeInv, Quiet,
           \/ DeleteService \/ ChangeType \/ ChangeClass \/ ChangePorts \/ ChangeSettings
           \/ \E n \in Node : ChangeNode(n)
    PROVE  ServiceStep /\ LoadBalancerStep
<1>1. svc \in ServiceObject
  BY DEF TypeInv, ServicesTyped, Service
<1>2. lb' = lb
  BY DEF DeleteService, ChangeType, ChangeClass, ChangePorts, ChangeSettings, ChangeNode, UserStep
<1>3. CASE DeleteService
  <2>1. CASE svc.finalizer
    <3>1. svc' = [svc EXCEPT !.deleting = TRUE]
      BY <1>3, <2>1 DEF DeleteService, UserStep
    <3>2. /\ svc'.exists = svc.exists /\ svc'.class = svc.class
          /\ svc'.deleting /\ svc'.finalizer = svc.finalizer
      BY <1>1, <3>1 DEF ServiceObject
    <3>3. ServiceStep
      BY <3>2 DEF ServiceStep, Released
    <3> QED  BY <1>2, <3>3, SameLoadBalancers
  <2>2. CASE ~svc.finalizer
    <3>1. svc' = NoService
      BY <1>3, <2>2 DEF DeleteService, UserStep
    <3>2. ServiceStep
      BY <2>2, <3>1 DEF ServiceStep, Released, NoService
    <3> QED  BY <1>2, <3>2, SameLoadBalancers
  <2> QED  BY <2>1, <2>2
<1>4. CASE ChangeType
  <2>1. svc.isLB /\ svc' = [svc EXCEPT !.isLB = ~@] /\ ~svc.deleting
    BY <1>4 DEF ChangeType, UserStep, Quiet, ComesBack
  <2>2. /\ svc'.exists = svc.exists /\ svc'.class = svc.class /\ svc'.finalizer = svc.finalizer
    BY <1>1, <2>1 DEF ServiceObject
  <2>3. ServiceStep
    BY <2>1, <2>2 DEF ServiceStep, Released
  <2> QED  BY <1>2, <2>3, SameLoadBalancers
<1>5. CASE ChangeClass
  BY <1>5 DEF ChangeClass, Quiet, ClassIsFixed
<1>6. CASE ChangePorts \/ ChangeSettings
  <2>1. \/ \E v : svc' = [svc EXCEPT !.valid = v]
        \/ \E w : svc' = [svc EXCEPT !.want = w]
    BY <1>6 DEF ChangePorts, ChangeSettings, UserStep
  <2>2. /\ svc'.exists = svc.exists /\ svc'.class = svc.class /\ svc'.finalizer = svc.finalizer
        /\ svc'.isLB = svc.isLB /\ svc'.deleting = svc.deleting
    BY <1>1, <2>1 DEF ServiceObject
  <2>3. ServiceStep
    BY <2>2 DEF ServiceStep, Released
  <2> QED  BY <1>2, <2>3, SameLoadBalancers
<1>7. CASE \E n \in Node : ChangeNode(n)
  BY <1>2, <1>7, SameService, SameLoadBalancers DEF ChangeNode
<1> QED  BY <1>3, <1>4, <1>5, <1>6, <1>7

\* Every step is one that ServiceStep and LoadBalancerStep allow.
LEMMA EveryStep ==
    ASSUME TypeInv, Quiet, Next
    PROVE  ServiceStep /\ LoadBalancerStep
<1>1. scenario.running \subseteq Controller
  BY ScenarioType DEF TypeInv, Counted
<1> QED  BY <1>1, UsersStep, ServiceReconcileStep, ControllerStep DEF Next

-----------------------------------------------------------------------------
\* From one version of the Service to the next: once released, always released
Ordered(seen, later, now) ==
    /\ seen.exists /\ Released(seen)
         => Released(now) /\ \A i \in 1 .. Len(later) : Released(later[i])
    /\ \A i \in 1 .. Len(later) :
         later[i].exists /\ Released(later[i])
           => Released(now) /\ \A j \in i .. Len(later) : Released(later[j])

OfClass(v, class) == v.exists => v.class = class

\* A version that lets the controller create a LoadBalancer, and that has the
\* finalizer
Trusts(v) == v.exists /\ ~Released(v) /\ v.finalizer

\* Every version of the Service that a controller has or will have is of the first
\* class, and never becomes one that wants a LoadBalancer again.
VersionsInv ==
    /\ OfClass(svc, scenario.class)
    /\ \A c \in Controller :
         /\ OfClass(svcSeen[c], scenario.class)
         /\ \A i \in 1 .. Len(unseen[c]) : OfClass(unseen[c][i], scenario.class)
         /\ Ordered(svcSeen[c], unseen[c], svc)

\* Only the controller of the class has a LoadBalancer.
OthersAbsent == \A c \in Controller \ {scenario.class} : lb[c].st = "absent"

\* As long as a version in the cache or on its way says that the finalizer is there,
\* it is; and so it is as long as there is a LoadBalancer.
FinalizerInv ==
    svc.exists => \/ svc.finalizer
                  \/ /\ lb[scenario.class].st = "absent"
                     /\ ~Trusts(svcSeen[scenario.class])
                     /\ \A i \in 1 .. Len(unseen[scenario.class]) : ~Trusts(unseen[scenario.class][i])

SafetyInv == Quiet => VersionsInv /\ OthersAbsent /\ FinalizerInv

\* How the versions move on: a new one comes, or the controller sees the next one.
VersionsStep ==
    \A c \in Controller :
       \/ svcSeen'[c] = svcSeen[c] /\ unseen'[c] \in {unseen[c], Append(unseen[c], svc')}
       \/ /\ unseen[c] # <<>> /\ svc' = svc
          /\ svcSeen'[c] = Head(unseen[c]) /\ unseen'[c] = Tail(unseen[c])

\* Every step moves the versions in this way, in the same scenario.
LEMMA EveryVersionsStep ==
    ASSUME TypeInv, Next
    PROVE  VersionsStep /\ scenario' = scenario
<1>0. scenario.running \subseteq Controller
  BY ScenarioType DEF TypeInv, Counted
<1>1. CASE Watched /\ UNCHANGED <<svcSeen, scenario>>
  BY <1>1 DEF Watched, VersionsStep
<1>2. CASE UNCHANGED <<svcSeen, unseen, scenario>>
  BY <1>2 DEF VersionsStep
<1>3. ASSUME NEW c \in Controller, ServiceEvent(c)
      PROVE  VersionsStep /\ scenario' = scenario
  BY <1>3 DEF ServiceEvent, VersionsStep, api, TypeInv, ServicesTyped
<1>4. ASSUME NEW c \in Controller,
             \/ ServiceReconcile(c) \/ LoadBalancerReconcile(c) \/ NodeReconcile(c)
             \/ LoadBalancerEvent(c) \/ NodeEvent(c)
             \/ LoadBalancerIsReady(c) \/ LoadBalancerIsGone(c)
      PROVE  VersionsStep /\ scenario' = scenario
  BY <1>1, <1>2, <1>4 DEF ServiceReconcile, LoadBalancerReconcile, LoadBalancerRead,
       PatchServiceStatus, NodeReconcile, LoadBalancerEvent, NodeEvent, LoadBalancerIsReady,
       LoadBalancerIsGone, caches
<1>5. CASE \/ DeleteService \/ ChangeType \/ ChangeClass \/ ChangePorts \/ ChangeSettings
           \/ \E n \in Node : ChangeNode(n)
  BY <1>1, <1>2, <1>5 DEF DeleteService, ChangeType, ChangeClass, ChangePorts, ChangeSettings,
       ChangeNode, UserStep, caches
<1> QED  BY <1>0, <1>3, <1>4, <1>5 DEF Next

\* The Service moves on without the controller.
LEMMA OrderedStays ==
    ASSUME NEW seen, NEW later, NEW now, NEW next, Ordered(seen, later, now),
           Released(now) => Released(next)
    PROVE  Ordered(seen, later, next)
BY DEF Ordered

\* A new version comes.
LEMMA OrderedAppend ==
    ASSUME NEW seen, NEW later \in Seq(Service), NEW now, NEW next \in Service,
           Ordered(seen, later, now), Released(now) => Released(next)
    PROVE  Ordered(seen, Append(later, next), next)
<1> DEFINE new == Append(later, next)
<1>1. /\ Len(new) = Len(later) + 1 /\ Len(later) \in Nat
      /\ \A i \in 1 .. Len(later) : new[i] = later[i]
      /\ new[Len(later) + 1] = next
  BY AppendProperties
<1> HIDE DEF new
<1>2. ASSUME seen.exists, Released(seen)
      PROVE  Released(next) /\ \A i \in 1 .. Len(new) : Released(new[i])
  <2>1. Released(next) /\ \A i \in 1 .. Len(later) : Released(later[i])
    BY <1>2 DEF Ordered
  <2>2. ASSUME NEW i \in 1 .. Len(new) PROVE Released(new[i])
    <3>1. i \in 1 .. Len(later) \/ i = Len(later) + 1
      BY <1>1
    <3> QED  BY <1>1, <2>1, <3>1
  <2> QED  BY <2>1, <2>2
<1>3. ASSUME NEW i \in 1 .. Len(new), new[i].exists, Released(new[i])
      PROVE  Released(next) /\ \A j \in i .. Len(new) : Released(new[j])
  <2>1. CASE i = Len(later) + 1
    <3>1. \A j \in i .. Len(new) : j = i
      BY <1>1, <2>1
    <3> QED  BY <1>1, <1>3, <2>1, <3>1
  <2>2. CASE i \in 1 .. Len(later)
    <3>1. Released(next) /\ \A j \in i .. Len(later) : Released(later[j])
      BY <1>1, <1>3, <2>2 DEF Ordered
    <3>2. ASSUME NEW j \in i .. Len(new) PROVE Released(new[j])
      <4>1. j = Len(later) + 1 \/ (j \in i .. Len(later) /\ j \in 1 .. Len(later))
        BY <1>1, <2>2
      <4> QED  BY <1>1, <3>1, <4>1
    <3> QED  BY <3>1, <3>2
  <2>3. i = Len(later) + 1 \/ i \in 1 .. Len(later)
    BY <1>1
  <2> QED  BY <2>1, <2>2, <2>3
<1>4. Ordered(seen, new, next)
  BY <1>2, <1>3 DEF Ordered
<1> QED  BY <1>4 DEF new

\* The controller sees the next version.
LEMMA OrderedTail ==
    ASSUME NEW seen, NEW later \in Seq(Service), later # <<>>, NEW now, Ordered(seen, later, now)
    PROVE  Ordered(Head(later), Tail(later), now)
<1> DEFINE new == Tail(later)
<1>1. /\ Len(new) = Len(later) - 1 /\ Len(later) \in Nat /\ Len(later) >= 1
      /\ \A i \in 1 .. Len(new) : new[i] = later[i + 1]
      /\ Head(later) = later[1]
  BY HeadTailProperties
<1> HIDE DEF new
<1>2. \A i \in 1 .. Len(new) : i + 1 \in 1 .. Len(later) /\ 1 \in 1 .. Len(later)
  BY <1>1
<1>3. ASSUME Head(later).exists, Released(Head(later))
      PROVE  Released(now) /\ \A i \in 1 .. Len(new) : Released(new[i])
  <2>1. 1 \in 1 .. Len(later)
    BY <1>1
  <2>2. Released(now) /\ \A j \in 1 .. Len(later) : Released(later[j])
    BY <1>1, <1>3, <2>1 DEF Ordered
  <2> QED  BY <1>1, <1>2, <2>2
<1>4. ASSUME NEW i \in 1 .. Len(new), new[i].exists, Released(new[i])
      PROVE  Released(now) /\ \A j \in i .. Len(new) : Released(new[j])
  <2>1. Released(now) /\ \A j \in i + 1 .. Len(later) : Released(later[j])
    BY <1>1, <1>2, <1>4 DEF Ordered
  <2>2. \A j \in i .. Len(new) : j \in 1 .. Len(new) /\ j + 1 \in i + 1 .. Len(later)
    BY <1>1
  <2> QED  BY <1>1, <2>1, <2>2
<1>5. Ordered(Head(later), new, now)
  BY <1>3, <1>4 DEF Ordered
<1> QED  BY <1>5 DEF new

\* No version comes from nowhere.
LEMMA OldVersions ==
    ASSUME TypeInv, VersionsStep, svc' \in Service, NEW c \in Controller
    PROVE  /\ \/ svcSeen'[c] = svcSeen[c]
              \/ \E i \in 1 .. Len(unseen[c]) : svcSeen'[c] = unseen[c][i]
           /\ \A i \in 1 .. Len(unseen'[c]) :
                \/ unseen'[c][i] = svc'
                \/ \E j \in 1 .. Len(unseen[c]) : unseen'[c][i] = unseen[c][j]
<1>1. unseen[c] \in Seq(Service)
  BY DEF TypeInv, ServicesTyped
<1>2. CASE svcSeen'[c] = svcSeen[c] /\ unseen'[c] = unseen[c]
  BY <1>2
<1>3. CASE svcSeen'[c] = svcSeen[c] /\ unseen'[c] = Append(unseen[c], svc')
  <2>1. /\ Len(unseen'[c]) = Len(unseen[c]) + 1 /\ Len(unseen[c]) \in Nat
        /\ \A i \in 1 .. Len(unseen[c]) : unseen'[c][i] = unseen[c][i]
        /\ unseen'[c][Len(unseen[c]) + 1] = svc'
    BY <1>1, <1>3, AppendProperties
  <2>2. \A i \in 1 .. Len(unseen'[c]) : i \in 1 .. Len(unseen[c]) \/ i = Len(unseen[c]) + 1
    BY <2>1
  <2> QED  BY <1>3, <2>1, <2>2
<1>4. CASE unseen[c] # <<>> /\ svcSeen'[c] = Head(unseen[c]) /\ unseen'[c] = Tail(unseen[c])
  <2>1. /\ Len(unseen'[c]) = Len(unseen[c]) - 1 /\ Len(unseen[c]) \in Nat /\ Len(unseen[c]) >= 1
        /\ \A i \in 1 .. Len(unseen'[c]) : unseen'[c][i] = unseen[c][i + 1]
        /\ svcSeen'[c] = unseen[c][1]
    BY <1>1, <1>4, HeadTailProperties
  <2>2. 1 \in 1 .. Len(unseen[c]) /\ \A i \in 1 .. Len(unseen'[c]) : i + 1 \in 1 .. Len(unseen[c])
    BY <2>1
  <2> QED  BY <2>1, <2>2
<1> QED  BY <1>2, <1>3, <1>4 DEF VersionsStep

\* Every step preserves VersionsInv.
LEMMA VersionsInvStep ==
    ASSUME TypeInv, Quiet, VersionsInv, Next, svc' \in Service
    PROVE  VersionsInv'
<1>1. VersionsStep /\ scenario' = scenario /\ ServiceStep
  BY EveryVersionsStep, EveryStep
<1>2. OfClass(svc', scenario.class)
  BY <1>1 DEF ServiceStep, VersionsInv, OfClass
<1>3. ASSUME NEW c \in Controller
      PROVE  /\ OfClass(svcSeen'[c], scenario.class)
             /\ \A i \in 1 .. Len(unseen'[c]) : OfClass(unseen'[c][i], scenario.class)
  BY <1>1, <1>2, OldVersions DEF VersionsInv
<1>4. ASSUME NEW c \in Controller
      PROVE  Ordered(svcSeen'[c], unseen'[c], svc')
  <2>1. Ordered(svcSeen[c], unseen[c], svc) /\ unseen[c] \in Seq(Service)
    BY DEF VersionsInv, TypeInv, ServicesTyped
  <2>2. Released(svc) => Released(svc')
    BY <1>1 DEF ServiceStep
  <2>3. CASE svcSeen'[c] = svcSeen[c] /\ unseen'[c] = unseen[c]
    BY <2>1, <2>2, <2>3, OrderedStays
  <2>4. CASE svcSeen'[c] = svcSeen[c] /\ unseen'[c] = Append(unseen[c], svc')
    BY <2>1, <2>2, <2>4, OrderedAppend
  <2>5. CASE /\ unseen[c] # <<>> /\ svc' = svc
             /\ svcSeen'[c] = Head(unseen[c]) /\ unseen'[c] = Tail(unseen[c])
    BY <2>1, <2>5, OrderedTail
  <2> QED  BY <1>1, <2>3, <2>4, <2>5 DEF VersionsStep
<1> QED  BY <1>1, <1>2, <1>3, <1>4 DEF VersionsInv

\* Every step preserves OthersAbsent.
LEMMA OthersAbsentStep ==
    ASSUME TypeInv, Quiet, VersionsInv, OthersAbsent, Next
    PROVE  OthersAbsent'
<1>1. scenario' = scenario /\ LoadBalancerStep
  BY EveryVersionsStep, EveryStep
<1>2. ASSUME NEW c \in Controller, c # scenario.class
      PROVE  lb'[c].st = "absent"
  <2>1. lb[c].st = "absent" /\ OfClass(svcSeen[c], scenario.class)
    BY <1>2 DEF OthersAbsent, VersionsInv
  <2> QED  BY <1>1, <1>2, <2>1 DEF LoadBalancerStep, MayCreate, OfClass
<1> QED  BY <1>1, <1>2 DEF OthersAbsent

\* Every step preserves FinalizerInv: a finalizer that goes while the Service stays
\* goes for a version that is released, and so is every version after it.
LEMMA FinalizerInvStep ==
    ASSUME TypeInv, Quiet, VersionsInv, FinalizerInv, Next, svc' \in Service
    PROVE  FinalizerInv'
<1> DEFINE c == scenario.class
<1>1. VersionsStep /\ scenario' = scenario /\ ServiceStep /\ LoadBalancerStep
  BY EveryVersionsStep, EveryStep
<1>2. c \in Controller
  BY ScenarioType DEF TypeInv, Counted
<1>3. SUFFICES ASSUME svc'.exists, ~svc'.finalizer
               PROVE  /\ lb'[c].st = "absent" /\ ~Trusts(svcSeen'[c])
                      /\ \A i \in 1 .. Len(unseen'[c]) : ~Trusts(unseen'[c][i])
  BY <1>1 DEF FinalizerInv, Trusts, Released
<1>4. svc.exists
  BY <1>1, <1>3 DEF ServiceStep
<1>5. /\ lb[c].st = "absent" /\ ~Trusts(svcSeen[c])
      /\ \A i \in 1 .. Len(unseen[c]) : ~Trusts(unseen[c][i])
  <2>1. CASE ~svc.finalizer
    BY <1>4, <2>1 DEF FinalizerInv
  <2>2. CASE svc.finalizer
    <3>1. PICK d \in Controller : MayRelease(d) /\ Released(svcSeen[d])
      BY <1>1, <1>3, <2>2 DEF ServiceStep
    <3>2. d = c
      BY <3>1 DEF MayRelease, VersionsInv, OfClass
    <3>3. svcSeen[c].exists /\ Released(svcSeen[c]) /\ Ordered(svcSeen[c], unseen[c], svc)
      BY <1>2, <3>1, <3>2 DEF MayRelease, VersionsInv
    <3>4. \A i \in 1 .. Len(unseen[c]) : Released(unseen[c][i])
      BY <3>3 DEF Ordered
    <3> QED  BY <3>1, <3>2, <3>3, <3>4 DEF MayRelease, Trusts
  <2> QED  BY <2>1, <2>2
<1>6. ~Trusts(svc')
  BY <1>3 DEF Trusts
<1>7. /\ ~Trusts(svcSeen'[c])
      /\ \A i \in 1 .. Len(unseen'[c]) : ~Trusts(unseen'[c][i])
  BY <1>1, <1>2, <1>5, <1>6, OldVersions
<1>8. lb'[c].st = "absent"
  <2> SUFFICES ASSUME lb'[c].st # "absent" PROVE FALSE
    OBVIOUS
  <2>1. MayCreate(c)
    BY <1>1, <1>2, <1>5 DEF LoadBalancerStep
  <2>2. ~svcSeen[c].finalizer
    BY <1>5, <2>1 DEF MayCreate, Trusts
  <2>3. svc' = [svc EXCEPT !.finalizer = TRUE] /\ svc \in ServiceObject
    BY <1>4, <2>1, <2>2 DEF MayCreate, AddFinalizerIfNeeded, TypeInv, ServicesTyped, Service
  <2>4. svc'.finalizer
    BY <2>3 DEF ServiceObject
  <2> QED  BY <1>3, <2>4
<1> QED  BY <1>7, <1>8

\* SafetyInv holds in the initial states.
LEMMA SafetyInit == Init => SafetyInv
<1> SUFFICES ASSUME Init, Quiet PROVE VersionsInv /\ OthersAbsent /\ FinalizerInv
  BY DEF SafetyInv
<1>1. scenario.class \in Controller
  BY ScenarioType DEF Init
<1>2. svc.class = scenario.class /\ svc.exists /\ svc.isLB /\ ~svc.deleting /\ ~svc.finalizer
  BY DEF Init, NewService, NoService
<1>3. ASSUME NEW c \in Controller
      PROVE  /\ ~svcSeen[c].exists /\ lb[c].st = "absent"
             /\ \A i \in 1 .. Len(unseen[c]) : unseen[c][i] = svc
  <2>1. svcSeen[c] = NoService /\ lb[c] = NoLB /\ unseen[c] \in {<<svc>>, <<>>}
    BY DEF Init
  <2>2. ~NoService.exists /\ NoLB.st = "absent"
    BY DEF NoService, NoLB
  <2>3. \A i \in 1 .. Len(unseen[c]) : unseen[c][i] = svc
    BY <2>1
  <2> QED  BY <2>1, <2>2, <2>3
<1>4. VersionsInv
  BY <1>2, <1>3 DEF VersionsInv, OfClass, Ordered, Released
<1>5. OthersAbsent
  BY <1>3 DEF OthersAbsent
<1>6. FinalizerInv
  BY <1>1, <1>2, <1>3 DEF FinalizerInv, Trusts
<1> QED  BY <1>4, <1>5, <1>6

\* Every step preserves SafetyInv.
LEMMA SafetyStep == TypeInv /\ TypeInv' /\ SafetyInv /\ [Next]_vars => SafetyInv'
<1> SUFFICES ASSUME TypeInv, TypeInv', SafetyInv, [Next]_vars, Quiet'
             PROVE  (VersionsInv /\ OthersAbsent /\ FinalizerInv)'
  BY DEF SafetyInv
<1>1. CASE Next
  <2>1. scenario' = scenario /\ svc' \in Service
    BY <1>1, EveryVersionsStep DEF TypeInv, ServicesTyped
  <2>2. Quiet
    BY <2>1 DEF Quiet, ClassIsFixed, ComesBack
  <2>3. VersionsInv /\ OthersAbsent /\ FinalizerInv
    BY <2>2 DEF SafetyInv
  <2> QED  BY <1>1, <2>1, <2>2, <2>3, VersionsInvStep, OthersAbsentStep, FinalizerInvStep
<1>2. CASE UNCHANGED vars
  <2>1. UNCHANGED <<svc, lb, svcSeen, unseen, scenario>>
    BY <1>2 DEF vars, api, caches
  <2> QED  BY <2>1 DEF SafetyInv, Quiet, ClassIsFixed, ComesBack, VersionsInv, OthersAbsent,
                       FinalizerInv, OfClass, Ordered, Released, Trusts
<1> QED  BY <1>1, <1>2

\* The Service disappears only after its LoadBalancer (if its class is fixed and it
\* never becomes one of type LoadBalancer again): the finalizer holds it back from
\* before the LoadBalancer is created until it is gone, whatever the caches show,
\* which requests fail and how far the watches are behind.
THEOREM LoadBalancersGoFirst == Spec => ServiceOutlivesLoadBalancer
<1>1. Spec => [](TypeInv /\ SafetyInv)
  BY TypeInit, TypeStep, SafetyInit, SafetyStep, PTL DEF Spec
<1>2. TypeInv /\ SafetyInv /\ [Next]_vars
        => [ClassIsFixed /\ ~ComesBack /\ svc.exists /\ ~svc'.exists
             => \A c \in Controller : lb[c].st = "absent"]_vars
  <2> SUFFICES ASSUME TypeInv, SafetyInv, Next, Quiet, svc.exists, ~svc'.exists,
                      NEW c \in Controller
               PROVE  lb[c].st = "absent"
    BY DEF vars, api, Quiet
  <2>1. VersionsInv /\ OthersAbsent /\ FinalizerInv /\ ServiceStep
    BY EveryStep DEF SafetyInv
  <2>2. CASE c # scenario.class
    BY <2>1, <2>2 DEF OthersAbsent
  <2>3. CASE ~svc.finalizer
    BY <2>1, <2>2, <2>3 DEF FinalizerInv
  <2>4. ASSUME NEW d \in Controller, MayRelease(d)
        PROVE  lb[c].st = "absent"
    BY <2>1, <2>2, <2>4 DEF MayRelease, VersionsInv, OfClass
  <2> QED  BY <2>1, <2>3, <2>4 DEF ServiceStep
<1> QED  BY <1>1, <1>2, PTL DEF Spec, ServiceOutlivesLoadBalancer

=============================================================================
