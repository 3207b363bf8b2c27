------------------------------ MODULE DataPath ------------------------------
(***************************************************************************)
(* What lets a packet through to the nodes: the rules of the security      *)
(* group, which the LoadBalancer controller writes in OpenStack            *)
(* (internal/helper/loadbalancer.go, internal/helper/openstack/            *)
(* secgroup.go), and the configuration that the yawollet of a machine      *)
(* serves to its envoy (controllers/yawollet/loadbalancer_controller.go,   *)
(* internal/helper/yawollet.go).  Both follow the spec of the LoadBalancer *)
(* at their own pace; TCP is filtered by both, UDP by OpenStack only.      *)
(*                                                                         *)
(* OpenStack and envoy are external.  A request to OpenStack that fails    *)
(* ends a reconcile after the requests before it, which is also what a     *)
(* crash of the controller does.  A cache that lags delays a reconcile;    *)
(* nothing else depends on when the spec was read.                         *)
(***************************************************************************)
EXTENDS Integers, SequencesExt

CONSTANTS
    Specs,       \* the specs that users choose from
    V4, V6,      \* addresses of clients
    Covers,      \* the addresses of each source range that ParseCIDR accepts
    MaxChanges,  \* bound on changes of the spec
    MaxFaults    \* bound on failing requests, rules lost in OpenStack, and
                 \* restarts of envoy and the yawollet

Any4 == "0.0.0.0/0"
Any6 == "::/0"

\* A spec: ports <<protocol, number>>, source ranges in order, endpoints, debug
\* (in the spec or ad hoc), proxy protocol and its port filter; ok says whether
\* CreateEnvoyConfig accepts its ports and addresses.
Spec0 == [ports |-> <<>>, ranges |-> <<>>, eps |-> {}, debug |-> FALSE, proxy |-> FALSE,
          filter |-> {}, ok |-> TRUE]

ASSUME DataPathAssumption ==
    /\ \A s \in Specs : /\ DOMAIN s = DOMAIN Spec0
                        /\ s.ports \in Seq({"TCP", "UDP"} \X Nat) /\ s.ranges \in Seq(STRING)
    /\ {Any4, Any6} \subseteq DOMAIN Covers
    /\ Covers[Any4] = V4 /\ Covers[Any6] = V6 /\ {"any", "group"} \cap DOMAIN Covers = {}
    /\ {MaxChanges, MaxFaults} \subseteq Nat

VARIABLES
    spec,      \* spec of the LoadBalancer
    group,     \* OpenStack: the rules of the security group
    pc, work,  \* the controller: where it is; the spec and the rules it works with
    snapshot,  \* the snapshot in the cache of the yawollet
    checking,  \* the yawollet: has it still to look at envoy?
    envoy,     \* envoy: the clusters and listeners that it runs, with their versions
    conditions,
    restarted, \* has the yawollet been restarted?
    changes, faults

control == <<group, pc, work>>
machine == <<snapshot, checking, envoy, conditions, restarted>>
bounds == <<changes, faults>>
vars == <<spec, control, machine, bounds>>

-----------------------------------------------------------------------------
(***************************************************************************)
(* Security group rules                                                    *)
(***************************************************************************)
SecGroupRule ==
    [v : {4, 6}, proto : {"egress", "vrrp", "icmp", "ipv6-icmp", "TCP", "UDP"}, num : Nat,
     remote : {"any", "group"} \cup DOMAIN Covers]
Rule(v, proto, num, remote) == [v |-> v, proto |-> proto, num |-> num, remote |-> remote]
Family(range) == IF Covers[range] \subseteq V4 THEN 4 ELSE 6
ParseCIDR(range) == range \in DOMAIN Covers

AnyIPv4(s) == IF s.ranges = <<>> THEN <<Any4>> ELSE s.ranges

GetLoadBalancerSourceRanges(s) == IF s.ranges = <<>> THEN <<Any4, Any6>> ELSE s.ranges

IcmpForBoth ==
    <<Rule(4, "egress", 0, "any"), Rule(4, "vrrp", 0, "group"), Rule(4, "icmp", 0, "any"),
      Rule(6, "egress", 0, "any"), Rule(6, "vrrp", 0, "group"), Rule(6, "icmp", 0, "any")>>

BaseRules ==
    <<Rule(4, "egress", 0, "any"), Rule(4, "vrrp", 0, "group"), Rule(4, "icmp", 0, "any"),
      Rule(6, "egress", 0, "any"), Rule(6, "vrrp", 0, "group"), Rule(6, "ipv6-icmp", 0, "any")>>

\* Invalid ranges are skipped; a range that is named twice gives two rules.
RulesForPort(s, p) ==
    LET ranges == GetLoadBalancerSourceRanges(s)
    IN  FlattenSeq([i \in DOMAIN ranges |->
            IF ParseCIDR(ranges[i]) THEN <<Rule(Family(ranges[i]), p[1], p[2], ranges[i])>> ELSE <<>>])

getSecGroupRulesForPorts(s) ==
    FlattenSeq([i \in DOMAIN s.ports |-> RulesForPort(s, s.ports[i])])

getSecGroupRulesForDebugSettings(s) ==
    IF s.debug /\ \A i \in DOMAIN s.ports : s.ports[i][2] # 22
      THEN <<Rule(4, "TCP", 22, Any4), Rule(6, "TCP", 22, Any6)>> ELSE <<>>

GetDesiredSecGroupRulesForLoadBalancer ==
    [s \in Specs |->
        BaseRules \o getSecGroupRulesForPorts(s) \o getSecGroupRulesForDebugSettings(s)]

\* OpenStack renames the protocol of a rule for IPv6, and comes with two rules in
\* a new group.
Stored(r) == IF r.v = 6 /\ r.proto = "icmp" THEN [r EXCEPT !.proto = "ipv6-icmp"] ELSE r
NewGroup == {Rule(4, "egress", 0, "any"), Rule(6, "egress", 0, "any")}

DesiredRules(s) == ToSet(GetDesiredSecGroupRulesForLoadBalancer[s])
Unused(s, rules) == rules \ DesiredRules(s)

\* Where in the list of wanted rules the missing ones are
NonExisting(s, rules) ==
    LET desired == GetDesiredSecGroupRulesForLoadBalancer[s]
    IN  {i \in DOMAIN desired : desired[i] \notin rules}

-----------------------------------------------------------------------------
(***************************************************************************)
(* Envoy configuration                                                     *)
(***************************************************************************)
proxyProtocolEnabled(s, p) == p[1] = "TCP" /\ s.proxy /\ (s.filter = {} \/ p[2] \in s.filter)

createEnvoyCluster(s) ==
    {[port |-> p, eps |-> s.eps, proxied |-> proxyProtocolEnabled(s, p)] : p \in ToSet(s.ports)}

\* createEnvoyRBACRules: an access list only for TCP, without the invalid ranges
createEnvoyListener(s) ==
    {[port |-> p, rbac |-> p[1] = "TCP" /\ s.ranges # <<>>,
      from |-> IF p[1] = "TCP" THEN ToSet(s.ranges) \cap DOMAIN Covers ELSE {}] : p \in ToSet(s.ports)}

Resources(s) == [clusters |-> createEnvoyCluster(s), listeners |-> createEnvoyListener(s)]
Type == {"clusters", "listeners"}

\* cmd/yawollet/main.go sets an empty snapshot before it serves envoy.
FirstSnapshot == [version |-> 1, resources |-> Resources(Spec0)]
NewEnvoy == [t \in Type |-> [version |-> 0, content |-> {}]]

AlwaysNewVersion(old, s) == [version |-> old.version + 1, resources |-> Resources(s)]

\* The version changes with the clusters or the listeners.
CreateEnvoyConfig(old, s) ==
    IF Resources(s) = old.resources THEN old
    ELSE [version |-> old.version + 1, resources |-> Resources(s)]

-----------------------------------------------------------------------------
TypeOK ==
    /\ spec \in Specs
    /\ pc \in {"idle", "delete", "create"}
    /\ group \cup work.rules \subseteq SecGroupRule
    /\ work.spec \in Specs \cup {Spec0}
    /\ snapshot.version \in 1 .. 2 + changes
    /\ DOMAIN envoy = Type /\ \A t \in Type : envoy[t].version \in 0 .. 2 + changes
    /\ {checking, restarted} \subseteq BOOLEAN
    /\ conditions \in [{"ConfigReady", "EnvoyUpToDate"} -> BOOLEAN]
    /\ changes \in 0 .. MaxChanges /\ faults \in 0 .. MaxFaults

NoWork == [spec |-> Spec0, rules |-> {}]

Init ==
    /\ spec \in Specs
    /\ group = NewGroup
    /\ pc = "idle" /\ work = NoWork
    /\ snapshot = FirstSnapshot /\ checking = FALSE
    /\ envoy = NewEnvoy
    /\ conditions = [c \in {"ConfigReady", "EnvoyUpToDate"} |-> FALSE]
    /\ restarted = FALSE /\ changes = 0 /\ faults = 0

-----------------------------------------------------------------------------
(***************************************************************************)
(* The LoadBalancer controller: reconcileSecGroup                          *)
(***************************************************************************)
\* A change of the spec, or five minutes since the last time, start it.
FetchSecGroup ==
    /\ pc = "idle"
    /\ pc' = "delete" /\ work' = [spec |-> spec, rules |-> group]
    /\ UNCHANGED <<spec, group, machine, bounds>>

Fault == faults < MaxFaults /\ faults' = faults + 1

CreateFirst ==
    /\ pc = "delete"
    /\ group' = group \cup {Stored(r) : r \in DesiredRules(work.spec) \ work.rules}
    /\ pc' = "create"
    /\ UNCHANGED <<spec, work, machine, bounds>>

\* The list of OpenStack has no order: some of the requests may have been sent.  The
\* deletion of a rule that is gone meanwhile is answered by 404, an error.
DeleteUnusedSecGroupRulesFromSecGroup ==
    LET unused == Unused(work.spec, work.rules) IN
    /\ pc = "delete"
    /\ \/ /\ unused \subseteq group
          /\ group' = group \ unused
          /\ pc' = "create"
          /\ UNCHANGED <<work, faults>>
       \/ /\ Fault \/ (~(unused \subseteq group) /\ UNCHANGED faults)
          /\ \E sent \in SUBSET unused : group' = group \ sent
          /\ pc' = "idle" /\ work' = NoWork
    /\ UNCHANGED <<spec, machine, changes>>

\* OpenStack refuses a rule that it has: the second of two equal rules ends the
\* reconcile with an error.
CreateNonExistingSecGroupRules ==
    LET desired == GetDesiredSecGroupRulesForLoadBalancer[work.spec]
        new == NonExisting(work.spec, work.rules)
        Created(before) == {Stored(desired[j]) : j \in {k \in new : k < before}}
        Refused(i) == Stored(desired[i]) \in group \cup Created(i)
    IN
    /\ pc = "create"
    /\ \E end \in new \cup {Len(desired) + 1} :
         /\ \A i \in new : i < end => ~Refused(i)
         /\ group' = group \cup Created(end)
         /\ \/ (end \in new => Refused(end)) /\ UNCHANGED faults
            \/ end \in new /\ Fault
    /\ pc' = "idle" /\ work' = NoWork
    /\ UNCHANGED <<spec, machine, changes>>

reconcileSecGroup ==
    FetchSecGroup \/ DeleteUnusedSecGroupRulesFromSecGroup \/ CreateNonExistingSecGroupRules

-----------------------------------------------------------------------------
(***************************************************************************)
(* The yawollet                                                            *)
(***************************************************************************)
YawolletReconcile ==
    /\ ~checking
    /\ \/ /\ spec.ok
          /\ snapshot' = CreateEnvoyConfig(snapshot, spec)
          /\ checking' = TRUE
          /\ conditions' = [conditions EXCEPT !["ConfigReady"] = TRUE]
       \/ /\ ~spec.ok
          /\ conditions' = [conditions EXCEPT !["ConfigReady"] = FALSE]
          /\ UNCHANGED <<snapshot, checking>>
    /\ UNCHANGED <<spec, control, envoy, restarted, bounds>>

SameClusterVersion == envoy["clusters"].version = snapshot.version

SameVersion == \A t \in Type : envoy[t].version = snapshot.version

CheckEnvoyVersion ==
    /\ checking /\ checking' = FALSE
    /\ conditions' = [conditions EXCEPT !["EnvoyUpToDate"] = SameVersion]
    /\ UNCHANGED <<spec, control, snapshot, envoy, restarted, bounds>>

\* A restart: the snapshot starts again with version 1, envoy keeps what it has.
YawolletRestarts ==
    /\ Fault /\ restarted' = TRUE
    /\ snapshot' = FirstSnapshot /\ checking' = FALSE
    /\ UNCHANGED <<spec, control, envoy, conditions, changes>>

-----------------------------------------------------------------------------
(***************************************************************************)
(* Envoy fetches clusters and listeners each on its own; it names the      *)
(* version that it has and gets an answer if the snapshot has another one. *)
(***************************************************************************)
EnvoyFetches(t) ==
    /\ envoy[t].version # snapshot.version
    /\ envoy' = [envoy EXCEPT ![t] = [version |-> snapshot.version, content |-> snapshot.resources[t]]]
    /\ UNCHANGED <<spec, control, snapshot, checking, conditions, restarted, bounds>>

EnvoyRestarts ==
    /\ Fault
    /\ envoy' = NewEnvoy
    /\ UNCHANGED <<spec, control, snapshot, checking, conditions, restarted, changes>>

-----------------------------------------------------------------------------
(***************************************************************************)
(* Users                                                                   *)
(***************************************************************************)
ChangeSpec ==
    /\ changes < MaxChanges /\ changes' = changes + 1
    /\ spec' \in Specs \ {spec}
    /\ UNCHANGED <<control, machine, faults>>

\* Somebody deletes a rule in OpenStack.
LoseRule ==
    /\ Fault
    /\ \E r \in group : r.remote \in DOMAIN Covers /\ group' = group \ {r}
    /\ UNCHANGED <<spec, pc, work, machine, changes>>

Next ==
    \/ reconcileSecGroup
    \/ YawolletReconcile \/ CheckEnvoyVersion \/ YawolletRestarts
    \/ (\E t \in Type : EnvoyFetches(t)) \/ EnvoyRestarts
    \/ ChangeSpec \/ LoseRule

Spec == Init /\ [][Next]_vars

\* Both controllers come back (after five minutes, or at once after an error), and
\* envoy asks again for what it does not have.
Fairness ==
    /\ WF_vars(reconcileSecGroup)
    /\ WF_vars(YawolletReconcile \/ CheckEnvoyVersion)
    /\ \A t \in Type : WF_vars(EnvoyFetches(t))

FairSpec == Spec /\ Fairness

-----------------------------------------------------------------------------
(***************************************************************************)
(* Properties                                                              *)
(***************************************************************************)
\* What a spec asks for: from which client which port leads where.
Allowed(s, src) == s.ranges = <<>> \/ \E i \in DOMAIN s.ranges :
                                         ParseCIDR(s.ranges[i]) /\ src \in Covers[s.ranges[i]]
Asked(s) == {x \in ToSet(s.ports) \X (V4 \cup V6) \X s.eps : Allowed(s, x[2])}

\* What gets through: the rules, then the listeners, then the clusters.
PassesGroup(p, src) ==
    \E r \in group : /\ <<r.proto, r.num>> = p
                     /\ r.remote \in DOMAIN Covers /\ src \in Covers[r.remote]
PassesEnvoy(p, src, e) ==
    /\ \E l \in envoy["listeners"].content :
         l.port = p /\ (l.rbac => \E range \in l.from : src \in Covers[range])
    /\ \E c \in envoy["clusters"].content : c.port = p /\ e \in c.eps
Forwarded(s) ==
    {x \in ToSet(s.ports) \X (V4 \cup V6) \X s.eps : PassesGroup(x[1], x[2]) /\ PassesEnvoy(x[1], x[2], x[3])}

OpenInGroup == {x \in ((UNION {ToSet(s.ports) : s \in Specs}) \cup {<<"TCP", 22>>}) \X (V4 \cup V6) :
                  PassesGroup(x[1], x[2])}
OpenAsked(s) ==
    {x \in ToSet(s.ports) \X (V4 \cup V6) : Allowed(s, x[2])}
      \cup (IF s.debug /\ 22 \notin {p[2] : p \in ToSet(s.ports)}
              THEN {<<"TCP", 22>>} \X (V4 \cup V6) ELSE {})

\* A version of the snapshot that stands for two configurations
AmbiguousVersion ==
    \E t \in Type : /\ envoy[t].version = snapshot.version
                    /\ envoy[t].content # snapshot.resources[t]

\* Once the spec stays, the security group is open for exactly the ports and
\* sources of the spec (and SSH for debugging), and if the yawollet accepts the
\* spec, security group and envoy together forward exactly what it asks for:
\* although rules are lost by hand, requests fail half way, a source range is named
\* twice or is no CIDR, and UDP has no filter in envoy.  The exception is a
\* snapshot of a restarted yawollet that has the version of an older one.
ForwardingFollowsSpec ==
    <>[](/\ OpenInGroup = OpenAsked(spec)
         /\ spec.ok => Forwarded(spec) = Asked(spec) \/ AmbiguousVersion)

\* The rules come to rest: no reconcile deletes what the next one creates, as the
\* renamed protocol of ICMP for IPv6 made it happen.
RulesSettle == <>[][group' = group]_vars

\* No rule is created while a rule that the spec does not want is there
\* (DeleteUnusedSecGroupRulesFromSecGroup: "Deletion must happen before creation in
\* order to not have temporary duplicated / overlapping rules"), and no rule is
\* created that the next reconcile would delete for the name that OpenStack gives it.
NoOverlap ==
    [][group' \ group # {} => group \cup group' \subseteq DesiredRules(work.spec)]_vars

\* Whenever the yawollet has checked and reports EnvoyUpToDate, again or for the
\* first time, envoy runs the clusters and the listeners of the spec that it has
\* seen: envoy takes them one by one and late.  After a restart of the yawollet the
\* versions say nothing.
UpToDateIsTrue ==
    [][(checking /\ ~checking') \/ ~conditions["EnvoyUpToDate"]
         => (conditions'["EnvoyUpToDate"] /\ ~restarted'
               => \A t \in Type : envoy[t].content = snapshot.resources[t])]_vars

=============================================================================
