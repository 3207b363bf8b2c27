-------------------------- MODULE ServiceSettings --------------------------
(***************************************************************************)
(* What the Service controller of the yawol-cloud-controller writes into   *)
(* the spec of a LoadBalancer, as operators (controllers/                  *)
(* yawol-cloud-controller/targetcontroller/service_controller.go).         *)
(*                                                                         *)
(* A setting is a set: {} is its default.  "on" and "opt" stand for its    *)
(* members; "opt" is a member whose Go field is tagged omitempty inside a  *)
(* larger structure: the subnet of infra, the SSH key of debug, the proxy  *)
(* URL (and, while forwarding is on, every label) of logForward.           *)
(***************************************************************************)
EXTENDS Integers, FiniteSets, SequencesExt

CONSTANTS
    Node,      \* names of Kubernetes nodes
    Network,   \* OpenStack networks named by the annotations
    Address    \* IP addresses

Options == <<{"ranges"}, {"proxy"}, {"filter"}, {"logForward"}, {"tcpIdle"}, {"udpIdle"},
             {"policy"}>>

\* The order of Reconcile; the settings of one step share a patch.
Steps == <<{"ports"}, {"replicas"}, {"endpoints"}, {"project"}, {"infra", "networks"},
           {"internal"}, {"debug"}>> \o Options \o <<{"existingIP"}>>

\* reconcileOptions returns with the patch of one of these.
ReturnsWithPatch == {"filter", "logForward", "tcpIdle", "udpIdle", "policy"}

UserField == {"ports", "replicas", "project", "infra", "networks", "internal", "debug", "ranges",
              "proxy", "filter", "logForward", "tcpIdle", "udpIdle", "policy", "existingIP"}
Field == UserField \cup {"endpoints"}

Values(f) ==
    CASE f = "networks" -> SUBSET Network
      [] f = "existingIP" -> {{}} \cup {{a} : a \in Address}
      [] f \in {"infra", "debug", "logForward"} -> SUBSET {"on", "opt"}
      [] OTHER -> {{}, {"on"}}

Defaults == [f \in UserField |-> {}]

-----------------------------------------------------------------------------
(***************************************************************************)
(* Nodes and endpoints (node_controller.go)                                *)
(***************************************************************************)
NodeState == {"ready", "notReady", "terminating", "gone"}

readyNodes(nodes) == {n \in Node : nodes[n] = "ready"}
nonTerminatingNodes(nodes) == {n \in Node : nodes[n] \in {"ready", "notReady"}}

\* With no node ready, the health checks are assumed to be wrong.
getEndpointsFromNodes(nodes) ==
    IF readyNodes(nodes) = {} THEN nonTerminatingNodes(nodes) ELSE readyNodes(nodes)

-----------------------------------------------------------------------------
(***************************************************************************)
(* From the annotations and the spec of a Service to the spec of a         *)
(* LoadBalancer                                                            *)
(***************************************************************************)
\* GetDebugSettings, GetOptions: the other members count only when "on"
WhenOn(v) == IF "on" \in v THEN v ELSE {}

NetworksInAList(want) ==
    {IF s = <<>> THEN s ELSE Append(s, s[1]) : s \in SetToSeqs(want.networks)}

\* getAdditionalNetworks iterates over a map: any order may come out.
getAdditionalNetworks(want) == SetToSeqs(want.networks)

\* The spec that Reconcile compares the LoadBalancer with
Desired(want, nodes, networks) ==
    [f \in Field |->
        CASE f = "networks" -> networks
          [] f = "endpoints" -> getEndpointsFromNodes(nodes)
          [] f \in {"debug", "logForward"} -> WhenOn(want[f])
          [] OTHER -> want[f]]

NoPorts == {"none"}

\* createLoadBalancer: no ports and no endpoints yet; internalLB only from the
\* annotation, not from the default of the controller.
NewSpec(want, networks, internal) ==
    [f \in Field |->
        CASE f = "ports" -> NoPorts
          [] f = "endpoints" -> {}
          [] f = "internal" -> internal
          [] f = "networks" -> networks
          [] f \in {"debug", "logForward"} -> WhenOn(want[f])
          [] OTHER -> want[f]]

-----------------------------------------------------------------------------
(***************************************************************************)
(* The reconcile* functions                                                *)
(***************************************************************************)
OmitsNoNetworks(f, old, new) ==
    IF f = "networks" THEN (IF new = <<>> THEN old ELSE new) ELSE new \cup (old \cap {"opt"})

\* A merge patch keeps the members that it does not mention.
MergePatch(f, old, new) ==
    IF f = "networks" THEN new ELSE new \cup (old \cap {"opt"})

Project == CHOOSE i \in DOMAIN Steps : Steps[i] = {"project"}

FirstEndpointsOnly(spec, want) ==
    {i \in DOMAIN Steps : \E f \in Steps[i] : spec[f] # want[f] /\ (f = "endpoints" => spec[f] = {})}

Differing(spec, want) == {i \in DOMAIN Steps : \E f \in Steps[i] : spec[f] # want[f]}

\* The steps that find a difference: they compare with the cached object until a
\* patch returns the current one.  (reconcileInfrastructure never patches the
\* project.)
FoundDiffering(cached, api, want) ==
    LET old == Differing(cached, want)
        Touched(i) == \E j \in old \ {Project} : j < i
    IN  {i \in old : ~Touched(i)} \cup {i \in Differing(api, want) : Touched(i)}

\* Another project ends the reconcile with an error; an option whose patch is
\* returned hides the options after it; reconcileExistingFloatingIP takes only the
\* address that is published already.
PatchedSteps(found, want, ingress) ==
    {i \in found \ {Project} :
        /\ Project \in found => i < Project
        /\ Steps[i] \subseteq ReturnsWithPatch =>
             \A j \in found : Steps[j] \subseteq ReturnsWithPatch => i <= j
        /\ Steps[i] = {"existingIP"} => want.existingIP # {} /\ want.existingIP = ingress}

EndsWithError(found, want, ingress) ==
    Project \in found \/ (ingress # {} /\ want.existingIP \notin {{}, ingress})

PatchedSpec(api, patches, want) ==
    [f \in Field |-> IF \E i \in patches : f \in Steps[i]
                       THEN MergePatch(f, api[f], want[f]) ELSE api[f]]

=============================================================================
