# yawol in TLA+

yawol turns Kubernetes Services of type LoadBalancer into OpenStack virtual
machines that run envoy and keepalived. This directory holds TLA+
specifications of its controllers, written from the code, the TLC
configurations that check them on small instances, and theorems that TLAPS
proves for all instances. Paths below are relative to the repository.

## The system

Three programs share no memory. They talk through objects in Kubernetes API
servers, which each of them reads from informer caches and writes with patches
or updates, and through OpenStack.

| Program | Component | State it keeps | Operations |
| --- | --- | --- | --- |
| yawol-cloud-controller (one per target cluster) | Service controller | LoadBalancer spec, finalizer of the Service | create, update or delete the LoadBalancer of a Service, class changes |
| | Node controller | endpoints of all LoadBalancers | ready nodes to endpoints |
| | LoadBalancer and event controllers | status of the Service, events | publish the ExternalIP, forward events |
| yawol-controller | LoadBalancer controller, OpenStack part | names, IDs, ExternalIP, hash and time of the last reconcile in `LoadBalancer.status` | `reconcileOpenStackIfNeeded`, `deletionRoutine` |
| | LoadBalancer controller, rollout part | revision, replicas; one LoadBalancerSet per hash of the machine spec | `reconcileLoadBalancerSet`, `ScaleDownOldLoadBalancerSets` |
| | LoadBalancerSet controller | LoadBalancerMachines of a set, status of the set | `reconcileReplicas`, `patchStatus`, `deletionRoutine` |
| | LBMStatusReconciler | the condition that marks a machine for deletion | `markForDeletion`, `handleMarkedMachine` |
| | LoadBalancerMachine controller | service account, secret, role, port and server of a machine | create, reconcile, delete |
| yawollet (one per VM) | LoadBalancer reconciler | envoy snapshot, conditions and heartbeats of its machine | build the envoy config, report the state of envoy and keepalived |
| | readyz, keepalived | priority of this machine for the virtual IP | revision, heartbeat and informer checks |

How they interact: the LoadBalancer controller creates sets and waits for the
status that the set controller writes; the set controller creates machines and
counts the ones whose conditions, written by the yawollets, are good; the
LBMStatusReconciler deletes machines whose conditions are not; the set
controller replaces them. keepalived moves the virtual IP between the machines
of old and new sets, and the conditions about it decide when old sets may go.
Objects that are being deleted wait for finalizers. The yawol-cloud-controllers
copy the settings of a Service and the ready nodes into the spec of its
LoadBalancer and the address of the LoadBalancer into the Service. A packet
passes two filters that follow the spec each at its own pace: the security
group, which the LoadBalancer controller writes, and envoy, which the yawollet
configures.

What is hard: every decision is made on a cached copy that may be old; a merge
patch has no precondition; several writers change the same list of conditions;
requests to the API server and to OpenStack fail one by one, and a controller
can crash between creating a resource and noting its ID; heartbeats, grace
periods, requeues and API server outages race with each other; a rollout has
to overlap two sets without losing all ready machines or the virtual IP, also
when the user changes their mind in the middle; several controllers share the
finalizer of a Service, which moves between them with its class; a merge patch
cannot remove what the new value leaves out; a restarted yawollet counts its
versions from 1 again.

What makes the components correct:

- health: a working machine is kept through an API server outage, a dead one
  is replaced, and no machine is marked that was never bad;
- sets: never more machines than asked for, no machine orphaned by an early
  removal of the finalizer, ready machines are spared by a scale down, the set
  converges;
- rollout: no downtime, the virtual IP is handed over before its set goes,
  the current set alone has the latest revision and the current spec, the
  rollout completes;
- machines and OpenStack resources: owned only under a finalizer, none left
  behind, none doubled, nothing removed under a running machine, the spec is
  realised, a deletion completes;
- Services: a Service outlives its LoadBalancer, publishes the right address,
  goes when it is deleted; settings and endpoints follow; a LoadBalancer that is
  not wanted goes;
- data path: in the end exactly what the spec asks for is forwarded, a reconcile
  opens nothing that its spec does not ask for, the rules come to rest, and a
  machine that reports its envoy as up to date says the truth.

## Modules

| Module | Models | Uses |
| --- | --- | --- |
| `KubernetesApi` | merge patches | |
| `ReplicaControl` | what a reconcile of a set decides, as operators on a list of machines | `KubernetesApi` |
| `MachineHealth` | LBMStatusReconciler, conditions and heartbeats of the yawollet, one machine | |
| `LoadBalancerSet` | LoadBalancerSet controller, one set | `ReplicaControl` |
| `LoadBalancerRollout` | `reconcileLoadBalancerSet` composed with the set controller, machines, readyz and keepalived | `ReplicaControl` |
| `LoadBalancerMachine` | LoadBalancerMachine controller, one machine | implements `FinalizerProtocol` |
| `LoadBalancerOpenstack` | `reconcileOpenStackIfNeeded` and `deletionRoutine` of the LoadBalancer controller | `KubernetesApi`, implements `FinalizerProtocol` |
| `FinalizerProtocol` | abstract specification of an object that owns resources elsewhere | |
| `ServiceSettings` | what the Service and Node controllers write into the spec of a LoadBalancer, as operators | |
| `CloudController` | Service, Node and LoadBalancer controllers of the yawol-cloud-controllers, one Service | `ServiceSettings` |
| `DataPath` | security group rules, the snapshot of the yawollet and envoy | |
| `..._proofs` (of `MachineHealth`, `LoadBalancerSet`, `LoadBalancerRollout`, `LoadBalancerMachine`, `LoadBalancerOpenstack`, `FinalizerProtocol`, `CloudController`, `DataPath`) | theorems | the module they are named after |
| `MC...` | instances for TLC | |

`PROJECT.json` maps every definition to the lines it models. Operators such as
`NeedsMachineIgnoringDeleted` or `deleteById` that precede the definition
they resemble are faulty variants of it: put in its place, each must make a
property fail, which shows that the property depends on that piece of code.

### MachineHealth

`api` is the LoadBalancerMachine in the API server, `ctl` and `let` are the
copies in the caches of the yawol-controller and of the yawollet. A timestamp
is kept as its age in minutes, cut off at `AgeCap`, since the code only asks
whether it is older than a threshold. `MarkForDeletion`, `RemoveMark` and
`DeleteMarked` are the three outcomes of `LBMStatusReconciler.Reconcile`; the
first two use `Update`, which the API server refuses for an old copy, the third
has no precondition. `YawolletReconcile` computes new conditions from its cached
ones and replaces the whole list, the mark included, as the merge patch of
`Status().Patch` does; when the envoy config is bad, only `ConfigReady` is
written. `lastBad` is a history variable: the time since the object last
satisfied `shouldMachineBeDeleted`.

### ReplicaControl and LoadBalancerSet

A view maps machine names to objects: absent, live or being deleted, ready or
not, with the `KeepalivedMaster` condition or not. `ReconcileUp`,
`ReconcileDown` and `ReconcileKeep` are a whole reconcile each: finalizer (its
error is ignored), at most one machine created or deleted, status patch.
`deleteAllMachines` and `RemoveFinalizer` are the two outcomes of
`deletionRoutine`. All decisions use `seenSet` and `seen`, the caches, which
`Refresh` updates. With `ReadYourWrites` the caches show the controller's own
writes before the next reconcile (it comes 2 seconds later); without it they
may be arbitrarily old. With `ApiErrors` any request may fail.

### LoadBalancerRollout

Every hash of the machine spec has at most one set. `InitRevision`, `CreateSet`,
`WaitForCurrentSet` and `ScaleDownOldLoadBalancerSets` are the outcomes of
`reconcileLoadBalancerSet`. The model keeps apart the hash, computed from the
cached LoadBalancer, and the replicas, which are those of the object returned by
the revision or status patch; and the cached set and the set returned by the
replicas patch. A set remembers in `spec` from which spec its template was
built, which need not be the one of its hash. The caches of LoadBalancers
(`RefreshLB`) and of sets (`RefreshSets`) come from two watches and catch up
independently of each other; `dirty` holds those that miss a write of the
controller. `ReconcileSet` is the set controller
with the operators of `ReplicaControl`. `Elect` is keepalived: a machine takes
the virtual IP over when nobody holds it or when its priority is higher, which
depends on the revision check of readyz. `aged` stands for the thresholds of
`LBSetHasKeepalivedMaster`.

### LoadBalancerMachine

`pc` says which function a reconcile has come to. `ReconcileAccess` covers
`reconcileSA` to `reconcileRoleBinding`, `reconcilePort` and
`reconcilePortAddressPair` are single steps. `createServer` and
`deleteServerAndWait` wait up to 10 minutes, so they are split: the request, then
`ServerIsActive` or `WaitActiveFails`, `ServerIsDeleted` or `DeleteServerFails`;
in between the object may be deleted and servers start, break or vanish. A
deletion asked for by ID is followed by a new list by name (`ListOrphans`).
A server is doomed when OpenStack has accepted its deletion. As in the code, an
HTTP error of a deletion or of the wait for it counts as "gone".

### LoadBalancerOpenstack

`pc` says which function a reconcile has come to, `mem` is the copy it works
on. For every kind of resource, `ensure` and `delete` give the possible
outcomes of the functions (`reconcileFIP`, `reconcilePort`, ... and
`deleteFips`, `deletePorts`, ...): the name and ID patched into the status, the
resources in OpenStack, and whether the reconcile goes on, requeues or ends
with an error. `ensureFailing` and `deleteFailing` are the outcomes when one
request fails, with the code's habit of taking HTTP errors for "not found".
`Crash` ends a reconcile between two steps. Security group rules are reduced to
the version of the ports they were made from; `DataPath` has the rules. `foreign`
are the floating IPs that do not carry the name of the LoadBalancer: one that
exists from the start or one that the user takes over (`ClaimFloatingIP`) and
`reconcileFIP` renames. `assignOrCreateFIP` looks for the address in the copy that
the patch of the name has refreshed, if there was one (`ExistingFloatingIP`). `affinity` is the policy of every server group.

### FinalizerProtocol

An object is open to deletion, guarded by its finalizer, or gone; it acquires
resources only while it is guarded and is released only when it holds none.
`LoadBalancerMachine` and `LoadBalancerOpenstack` implement this
(`ImplementsFinalizerProtocol`): `owner` is read off the existence and the
finalizer of the object in the API server, `held` is what is really there: service
account, secret and roles, ports, and servers whose deletion OpenStack has not
accepted; for the LoadBalancer the security group, floating IP, port and server
group, without the kinds that the keep annotations exclude. The IDs in the
status are not part of the mapping, so the refinement says that what the
controllers noted is enough to find what they created.

### ServiceSettings and CloudController

Every controller serves one class and has its own LoadBalancer for the Service;
all of them use the same finalizer. A process runs its three controllers on
shared caches: `svcSeen`, `lbSeen`, `nodesSeen`. `unseen` holds the versions of
the Service that the watch has still to bring, in order, also those that were
undone meanwhile. `ServiceReconcile` is a whole reconcile on these caches: class,
type and deletion, finalizer, validation, creation, or the settings in the order
of `Steps`. A setting is a set with `{}` for its default. `FoundDiffering` says
which steps see a difference (they compare with the cached object until a patch
returns the current one), `PatchedSteps` which of them patch, since
`reconcileOptions` returns with its first patch and another project ends the
reconcile, and `MergePatch` what the patch leaves. When a request fails, the ones
before it are done and the reconcile is retried; a crash comes to the same.
`LoadBalancerRead` and `LoadBalancerReconcile` are apart: what is published may be
old. `NodeReconcile` has the predicate of the node watch and compares endpoints
with the cached LoadBalancer. `scenario` restricts what happens in a behaviour and
never changes.

The address of the LoadBalancer and its end come from the environment
(`LoadBalancerIsReady`, `LoadBalancerIsGone`): they stand for the yawol-controller
and for what the other modules show about it. A resync hands every Service to
its controller again; it is part of `Requeues`.

### DataPath

`spec` is the LoadBalancer's. `FetchSecGroup`, `DeleteUnusedSecGroupRulesFromSecGroup`
and `CreateNonExistingSecGroupRules` are the steps of `reconcileSecGroup`, each of
which may fail after any of its requests; OpenStack refuses a rule that it has and
stores ICMP for IPv6 under another name. `YawolletReconcile` makes the snapshot
with `CreateEnvoyConfig` and `CheckEnvoyVersion` compares its version with the two
that envoy reports; envoy fetches clusters and listeners one by one. `Forwarded`
is what passes both filters, `Asked` what the spec says. The rules that a spec wants
are a list, since the requests are sent in its order and the second of two equal
rules is refused; `NonExisting` holds the positions in it of the missing ones.

## Runs

| Run | Checks | Result |
| --- | --- | --- |
| `health_races` | `TypeOK`, `MarksAreEarned`, `DeadMachineIsDeleted` | hold |
| `health_outage` | `WorkingMachineIsKept`, one outage | holds |
| `set_scaling` | `TypeOK`, `NeverMoreThanAsked`, `FinalizerOutlivesMachines`, `ScaleDownKeepsReadyMachines`, `Converges` | hold |
| `set_lagging` | `DeletedSetIsCleanedUp` with arbitrarily old caches and failing requests | holds |
| `rollout_forward` | `TypeOK`, `CurrentSetHasLatestRevision`, `MachinesHaveCurrentSpec`, `NoDowntime`, `VipIsHandedOver` | hold |
| `rollout_converges` | `RolloutCompletes` with rollbacks | holds |
| `machine` | `TypeOK`, `ImplementsFinalizerProtocol`, `OnePerMachine`, `ServerGoesFirst`, `MachineComesUp`, `DeletionCompletes` | hold |
| `openstack_safety` | `TypeOK`, `ImplementsFinalizerProtocol`, `NoDuplicates`, `UsedResourcesStay` | hold |
| `openstack_realised` | `SpecIsRealised`, `DeletionCompletes` | hold |
| `openstack_external` | `FloatingIPIsAssigned` | violated |
| `cloud` | `TypeOK`, `ServiceOutlivesLoadBalancer`, `DeletedServiceGoes`, `ServiceIsPublished`, `UnwantedLoadBalancerGoes`, `EndpointsFollowNodes`, `SettingsFollowService` | hold |
| `datapath` | `TypeOK`, `ForwardingFollowsSpec`, `RulesSettle`, `NoOverlap`, `UpToDateIsTrue` | hold |

To repeat one: `tlc -config MachineHealth_outage.cfg MCMachineHealth`, with the
module and configuration that `PROJECT.json` names.

### Bounds

- `health_outage` uses the thresholds of the code in
  minutes: 3 (stale), 2 (grace), 10 (creation). An outage may last as long as it
  likes, since ages above the largest threshold are all the same to the code.
  `health_races` scales the thresholds down to 1, 1 and 2: only their order
  matters for the races between the caches, and `MarksAreEarned` is proved for
  all thresholds.
- Three machines for at most two replicas leave one name for the machine that
  is being deleted while its replacement starts. Scaling, deletion, lost
  readiness and deletion by the status controller together happen twice, in any
  order: enough for a machine that fails during a scale down, or a deletion
  during a replacement.
- The rollout needs two hashes: old and new. With one change of spec or
  replicas and two replicas, `rollout_forward` covers the first rollout and the
  one after it. `rollout_converges` allows two changes, to the other spec and
  back, and starts from a finished rollout so that both
  sets exist and both changes happen in the middle of others.
- `machine`: three servers or ports that break or vanish and one failing request
  or crash anywhere; a server can fail, be recreated under a new ID and be lost
  again while the machine is deleted.
- OpenStack: one failing request or crash anywhere in a behaviour; two changes
  by user or operator for safety (internal, external and back, a vanished port,
  a policy and another, a floating IP taken over), one for liveness. A new
  LoadBalancer has a policy in `openstack_safety`, and may have none in the others
  (`FirstPolicies`). The deletion is not counted.
- `cloud` is the union of scenarios, each of which asks one question with one or
  two controllers, two nodes and two networks. `Lifecycle` deletes the
  Service, makes it a ClusterIP and breaks it, in any order, with a failing
  request, old caches, a watch that is up to 3 versions behind, and no resync.
  `TypeFlips` goes to ClusterIP and back; `HandOver` and `Abandoned` change the
  class to one that is served or not and back; `Nodes` changes the state of nodes,
  also of one that goes and comes back before the cached LoadBalancer shows the first
  patch of the endpoints; `Networks`, `TwoOptions`, `ProjectChange`,
  `ExistingIP`, `OtherSettings` and `PlainSettings` change settings, one or several in one update. Two or three changes suffice for
  one that overtakes another; the settings are independent of each other except
  where the scenarios put them together. Deadlock is not checked, since a
  Service at rest has nothing to do.
- `datapath`: four specs with TCP and UDP on the same port, an invalid and a
  repeated source range, IPv4 and IPv6, debugging with and without a port 22 of
  the user, and one that the yawollet refuses; one change from any of them to any
  other, two faults anywhere.

### Fairness

Controllers requeue: the status controller every 15 seconds, the set controller
every 2 or 10 seconds, the LoadBalancer controller after each error and every 5
minutes; so their steps are weakly fair. Informers catch up, time passes,
outages end, and the other controllers and the garbage collector finish a
deletion they have begun. Nothing is assumed of the VM in `MachineHealth` nor
of the yawollets in `LoadBalancerSet`. In `LoadBalancerMachine` OpenStack starts
a server or gives up on it, and finishes a deletion that it has accepted. In `LoadBalancerRollout` machines report
and keepalived elects, since a rollout can only complete if the new machines
come up. In `CloudController` the informers of the controllers that run deliver,
their workers take requests, and the yawol-controller realises and deletes
LoadBalancers; there is no fairness for a controller that does not run. A resync
is assumed only in the scenarios that say so (controller-runtime resyncs about
every 10 hours), and the properties that need it say `scenario.resync`. In
`DataPath` both controllers come back and envoy fetches what it does not have.
Failing requests and crashes have no fairness: liveness is checked
with a bounded number of them, or without them where nothing bounds them.

Two assumptions on the caches are stated as constants. `ReadYourWrites` and
`PromptCaches`: a controller sees its own writes in the next reconcile. Nothing
in the code enforces this; it holds as long as a watch event arrives within the
requeue time. `LoadBalancerMachine` and `LoadBalancerOpenstack` assume the same
throughout: a status that misses the name just written would leave a resource
behind. `NeverMoreThanAsked`, `FinalizerOutlivesMachines` and `Converges`
need it: names of machines are random, so a reconcile that does not see the
machine created before creates another one. `PromptWatch`: a reachable API
server updates caches in less than a minute; `WorkingMachineIsKept` needs it,
because a deletion has no precondition. `CloudController` assumes that a
LoadBalancer is in the cache of the controller that created it before the next
reconcile of the Service, one second later (`OwnCreateSeen`); without it a
Service that is deleted right then would leave the LoadBalancer behind. In the
scenarios that are not `lagging` its caches of LoadBalancers are prompt.

## Theorems

All proofs are checked by TLAPS, for all values of the constants that satisfy
the assumptions named in the modules: thresholds are naturals below `AgeCap`
(`ThresholdAssumption`), bounds are naturals (`BoundAssumption`,
`MachineAssumption`, `OpenstackAssumption`, `DataPathAssumption`), sets of machines and
hashes are finite (`SetAssumption`, `RolloutAssumption`), controllers are named by
addresses and no address is the placeholder `"opt"` (`CloudAssumption`), ports of a spec
are TCP or UDP with a number and its source ranges a list, of which those in
`DOMAIN Covers` are valid (`DataPathAssumption`). A hypothesis of a single theorem is
stated there; without it the property fails, as the observations below say.

Every safety property of every run that holds is proved. Where a theorem has a
hypothesis, the constants of the run satisfy it, with one exception: the run
`openstack_safety` checks `ImplementsFinalizerProtocol` with `MaxErrors = 1` and
floating IPs that are not kept. It holds there with the two changes of the run, but not
with five (see the observations), so the theorem excludes this combination and that part
is only model-checked.

Two kinds of data in the properties are computed by recursion, the sums in the status of
a LoadBalancer and the lists of rules. What recursion returns is shown without an
induction rule: a counterexample would have a first position, or a smallest set, where
it fails (`LeastNumber`), and there it cannot fail. That gives the type of a result and
what it preserves for every element, which is all that the theorems need.

### Machine health

- `TypeCorrect`: `Spec => []TypeOK`.
- `MarksEarned`: `Spec => []MarksAreEarned`. Together with `TypeOK` the invariant is
  inductive as it stands, because `lastBad` remembers
  when the object was last bad: it grows at most as fast as the age of any copy
  of a mark (`OlderMonotone`), a mark is set only when it is 0 (`StatusUpdate`
  requires the cached copy to be the current one), and the yawollet only moves
  a mark between copies.
- `OutageSparesWorkingMachine`: `Spec => []WorkingMachineIsKept`, for one outage of any
  length. `KeptAssumption` has four parts: `PromptWatch`, `MaxOutages <= 1`,
  `YawolletPeriod <= StaleAfter` and `YawolletPeriod <= GracePeriod`. `KeptInv` says
  phase by phase how old the heartbeats can be: while the API server answers they
  are younger than the period of the yawollet, so nothing is marked; after the
  outage a mark cannot outlive the grace period before the yawollet has written. TLC
  refutes the theorem without any one of the four parts.

### Sets and rollout

- `LoadBalancerSet_proofs!TypeCorrect`.
- `MachinesBounded`: with `ReadYourWrites`,
  `Spec => []NeverMoreThanAsked`. The invariant itself is not inductive: a
  reconcile looks at its cache, not at the machines. `CountInv` adds that the
  cache holds every machine of the API server unless the controller has just
  written (`SeesAllMachines`), which is true since nobody else creates
  machines, and that neither the set nor its cached copy asks for more than
  the peak (`WithinPeak`).
- `FinalizerSafe`: with `ReadYourWrites`, `Spec => FinalizerOutlivesMachines`, an
  action property that follows from
  `CountInv`: the empty list that `RemoveFinalizer` sees is the true one.
- `ReadyMachinesAreSpared`: `Spec => ScaleDownKeepsReadyMachines`, from the lemma
  `DeletionSparesReady` about `findFirstMachineForDeletion`.
- `MachinesFollowSpec`: `Spec => []MachinesHaveCurrentSpec`, however old the caches
  are. `SpecInv`: the set of the wanted hash, if it exists, was built from the wanted
  spec. A set that is built from another spec than it is named after is not the
  wanted one at that moment and, without a rollback, does not become it.
- `LatestRevisionIsCurrent`: with `PromptCaches` and without `Rollback`,
  `Spec => []CurrentSetHasLatestRevision`. `RevisionInv` has four parts: caches that
  miss no write of the controller agree with the API server on existence and
  revisions (`CachesCurrent`); no revision is above the one of the LoadBalancer
  (`RevisionsBounded`); the set of the wanted hash exists only once the
  controller has seen that hash (`WantedIsSeen`); and then it alone has the latest
  revision (`WantedIsLatest`). Both hypotheses are needed, see the observations.
- `LoadBalancerRollout_proofs!TypeCorrect`: `Spec => []TypeOK`, which says that the sums
  in the status are numbers (`SumIsNatural`).
- `SomeMachineServes`: without `Rollback`, `Spec => NoDowntime`, however old the caches
  are. `ReplicaInv`: a set whose controller knows of 0 replicas has 0 and keeps them
  (`ZeroStays`); where it does not know of 0, a status with a ready machine, cached or
  not, is true (`ReadyIsTrue`), because it leaves such a set a ready machine
  (`ReconcileSparesReady`); and as soon as some set has been scaled down to 0, one that
  asks for machines has a ready one (`SuccessorServes`). `Rollback` must be
  excluded: a set that comes back from 0 is believed to be ready by its old status
  (see the observations).
- `VipMovesFirst`: without `Rollback`, `Spec => VipIsHandedOver`. `KnownRevision`: the set of
  the wanted hash has the revision of the LoadBalancer while the controller works on
  it, so none of its machines is outbid. `MasterInv`: a machine of this set that claims
  the virtual IP holds it and works (`ClaimsAreTrue`); where the status of the set,
  cached or not, reports a keepalived master, one of its machines does
  (`MasterHolds`), and its set controller does not choose it for deletion
  (`HolderIsSpared`). Neither theorem needs `PromptCaches`.

### Machines, OpenStack resources and finalizers

- `TypeCorrect` of `LoadBalancerMachine` and `LoadBalancerOpenstack`, with the bound on
  the IDs that copies of the status may name.
- `MachineHasOneServerAndPort`: `Spec => []OnePerMachine`, and `NoSecondResource`:
  `Spec => []NoDuplicates`, for any number of failing requests and crashes. What is
  inductive is that a copy of the status which names no resource is followed by a
  search by name before anything is created.
- `ServersAreDeletedFirst`: `Spec => ServerGoesFirst` with `MaxErrors <= 1`. With two
  errors it is false (see the observations).
- `NothingInUseIsDeleted`: `Spec => UsedResourcesStay`, without a bound on errors. It
  rests on `SetsKnown`: the cache that `deleteSets` looks at is not behind the
  controller's own creation of sets; and on `ForeignKnown`: a floating IP that is
  marked as the user's is known to be so by every copy that could delete it.
- `RefinesFinalizerProtocol` of both modules: `Spec => ImplementsFinalizerProtocol`.
  Initial states map to initial states and every step to a step of
  `FinalizerProtocol` or a stutter. The inductive invariants (`Guarded`, `Noted`, `Achieved`) say that
  resources exist only under the finalizer and that whatever exists is
  noted by name from before it was created; when a reconcile of the deletion has
  passed a kind, none of it is left. For machines `MaxErrors <= 1` is
  assumed; for LoadBalancers also `MaxErrors = 0 \/ "fip" \in Keep`. Both are
  properties of the code: HTTP errors count as "not found", and a floating IP can be
  left behind after one error (see the observations).
- `FinalizerProtocol_proofs!FinalizerGuardsResources`: every implementation of the
  protocol leaves nothing behind, `Spec => []NothingLeft`. `MachineLeavesNothing` and
  `LoadBalancerLeavesNothing` draw the conclusion from the two refinements,
  `Spec => []Protocol!NothingLeft`: no machine and no LoadBalancer leaves a resource
  behind, under the hypotheses of the refinements.

### Services and data path

- `CloudController_proofs!TypeCorrect`: `Spec => []TypeOK`. `TypeInv` needs to know of
  every version of the Service on its way to a cache that its networks and
  addresses can be written into a LoadBalancer.
- `LoadBalancersGoFirst`: `Spec => ServiceOutlivesLoadBalancer`. `SafetyInv`: in the
  sequence of versions that are on their way to a cache, the finalizer is missing
  only before it was set or after the Service stopped wanting a LoadBalancer, and
  no version after such a one wants one (`VersionsInv`); controllers of other classes
  have no LoadBalancer (`OthersAbsent`); and a LoadBalancer exists only with the
  finalizer (`FinalizerInv`).
- `DeletionComesBeforeCreation`: `Spec => NoOverlap`. `KnowsRules`: the rules that
  `FetchSecGroup` has listed include those that are there until the unused ones are
  deleted; afterwards only wanted ones are left, whatever the rules are. That the
  rules which are created count as wanted by the next reconcile depends on what they
  are: `WantedRule` says of one rule that OpenStack stores it as it is and that the
  spec asks for all it lets in; `FlattenSeqType` carries that over to the lists
  (`DesiredRulesWanted`).
- `NothingElseIsOpened`: after rules have been created, the security group is open
  for no port and no client that the spec does not ask for, whatever was open before:
  invalid source ranges open nothing, and SSH is open for debugging only. It follows
  from `NoOverlap` and `DesiredRulesWanted`; no run checks it.
- `ReportedEnvoyIsUpToDate`: `Spec => UpToDateIsTrue`. `VersionsAreTrue`: until the
  yawollet is restarted, whoever has a version has its content.
- `DataPath_proofs!TypeCorrect`: `Spec => []TypeOK`. The version of the snapshot grows no
  faster than the spec changes: each change gives at most one version, and the one
  beyond that stands for the present spec, which gives no other (`MachineTyped`).

### Only model-checked

All liveness properties: the proof system has no rules for fairness and `ENABLED`. That
the rules come to rest (`RulesSettle`) and are complete (`ForwardingFollowsSpec`) is
liveness, too; the theorems say that what is there is right. What `getSecGroupRulesForPorts`
or a sum returns exactly, for all arguments, is not stated: `DesiredRulesWanted` says that
every rule is wanted, not that every wanted rule is there.

## Findings

The violated run shows behaviour of the code that its own comments exclude;
`PROJECT.json` quotes both.

- `openstack_external`: internal and then external again before the ID of the
  deleted floating IP is cleared: `reconcileFIP` gets a 404 for ever.

### Observations

Met while modelling, without a run of their own. Those that name constants can
be repeated by changing them in a `.cfg` file.

- A mark set after a first outage survives into a second one and is older than
  the grace period when that one ends, so a working machine is deleted before
  its yawollet can write (`loadbalancermachine_status_controller.go`, lines 24 to
  28, gives the grace period this very purpose): `WorkingMachineIsKept` fails with
  `MaxOutages = 2` in `MachineHealth_outage.cfg`.
- Going back to a spec whose set was scaled to 0 a moment ago, the answer to the
  replicas patch still has the ready count from before, and the set that serves
  is scaled down at once: `NoDowntime` fails in `LoadBalancerRollout_forward.cfg`
  with `Rollback = TRUE`, `MaxChanges = 2` and `MaxReplicas = 1`.
- After a rollback the current set keeps its old revision while the
  LoadBalancer keeps the newer one, so no machine passes the revision check
  (`reconcileLoadBalancerSet` patches the revision only when it creates a set);
  `CurrentSetHasLatestRevision` fails when `Rollback` is TRUE.
- The next revision is computed from the cached list of sets
  (`GetNextRevisionForLoadBalancer`). A reconcile that sees the new spec and not yet the
  set that was created for the old one gives both sets the same revision, and the
  machines of both pass the revision check: `CurrentSetHasLatestRevision` fails with
  `PromptCaches = FALSE`.
- A spec change between the read of the cache and the revision patch yields a
  set that is labelled with the hash of the old spec
  (`loadbalancer_controller.go`, line 967) and built from the new one (line 994);
  a later return to the old spec uses that set, and `MachinesHaveCurrentSpec`
  fails with `Rollback = TRUE` and `MaxChanges = 2`.
- `deleteServerAndWait` takes any HTTP error of the deletion and of the wait for
  "deleted": with `MaxErrors = 2`, `ServerGoesFirst` fails, and
  `ImplementsFinalizerProtocol` too when the port is already gone.
- `reconcileRoleBinding` compares with `status.roleName` instead of
  `status.roleBindingName`; the names are equal, so `roleBindingName` is never
  written. Nothing reads it.
- `updateOpenstackReconcileHash` hashes the LoadBalancer returned by the status
  patch: a change of the ports during the reconcile is recorded as done and its
  rules are missing until the 5 minute timer runs out.
- The finalizer is removed by a merge patch without a precondition
  (`finalizer.go`, line 40). A LoadBalancer is deleted while a reconcile is on its way
  to write the names and IDs of what it creates; if the next reconcile gets a copy
  that is already marked for deletion but older than these patches, it searches for
  nothing and removes the finalizer. `ImplementsFinalizerProtocol` fails when
  `~dirty` is taken out of `BeginDeletion` in `LoadBalancerOpenstack`, even with
  `MaxErrors = 0`.
- Any HTTP error of the list of server groups counts as "already deleted": with
  `MaxErrors = 2`, `ImplementsFinalizerProtocol` fails for server groups.
- A floating IP that the user takes over gets its new name only while the
  LoadBalancer is external, at its next OpenStack reconcile. If it is deleted or
  made internal first, the floating IP keeps the name, and a later LoadBalancer
  with that name finds it, uses it and deletes it. Taken over in the same update
  that makes the Service internal, it is deleted: the Service controller patches
  `internalLB` before `existingFloatingIP`.
- With an existing floating IP `deleteFips` skips the search by name: with
  `MaxErrors = 2` a floating IP that was created twice stays behind when the second
  one has been taken over.
- One failed patch of the ExternalIP is enough for the same effect, after two changes
  from internal to external: the old address stays published, the user claims it
  just before the LoadBalancer is deleted, and the floating IP that yawol created is
  left behind (`MaxErrors = 1`, `MaxChanges = 5`; `deleteFips` trusts
  `spec.existingFloatingIP`).
- The yawollet accepts a requeue time of up to 170 seconds, more than the grace
  period: with `YawolletPeriod = 3`, `WorkingMachineIsKept` fails after a single
  outage.
- `shouldMachineBeDeleted` uses 3 minutes where its comment and
  `docs/components.md` say 5.

About Services and LoadBalancers:

- A Service that becomes a ClusterIP and then a LoadBalancer again can be cached
  from before its finalizer was removed: `AddFinalizerIfNeeded` does nothing and a
  LoadBalancer is created that no finalizer guards. `ServiceOutlivesLoadBalancer`
  excludes this (`ComesBack`), and `CloudController` does not implement
  `FinalizerProtocol` because of it.
- A Service that changes from class A to B and is then deleted loses the common
  finalizer to B, whose controller has no LoadBalancer to wait for; A finds no
  Service any more and its LoadBalancer stays. A class that nobody serves keeps
  the finalizer for ever. Tests expect the two halves of this
  (`service_controller_test.go`, lines 1762 and 1774).
- A Service that comes back while its LoadBalancer is being deleted: `Reconcile`
  syncs the settings of the one that is going and returns without requeue, so the
  Service has no LoadBalancer until its next event or the resync.
- Several options changed in one update are written one per reconcile and nothing
  requeues: the others wait for an event. A merge patch cannot remove a member
  tagged omitempty, so after the removal of a log label or proxy URL
  `reconcileOptions` returns at line 405 every time and never gets to the idle
  timeouts and the policy: `SettingsFollowService` fails with `Removals = TRUE`.
  A changed project ends every reconcile with an error at line 237, before the
  settings that follow.
- `getAdditionalNetworks` ranges over a map (line 623): an unchanged Service can
  patch another order of the networks, which is another hash and so a rollout.
- A node that goes and comes back while the cached LoadBalancer is old leaves the
  wrong endpoints until the Service is reconciled. The LoadBalancer controller can
  publish an address that was just removed; the patch of the status is an event
  of the Service, which heals it.

About the data path:

- A restarted yawollet first serves an empty snapshot with version 1, which takes
  the listeners from a running envoy until the first reconcile, and may then
  reach a version that envoy already has for another content: envoy does not
  fetch it, and `CheckEnvoyVersion` reports it as up to date. Without
  `AmbiguousVersion` and `~restarted`, `ForwardingFollowsSpec` and `UpToDateIsTrue`
  fail.
- A change of the source ranges interrupts traffic that both the old and the new
  spec allow, because unused rules go before new ones come (deliberate, see
  `NoOverlap`).
- A rule that somebody deletes between the list and its deletion by the controller
  makes the deletion fail with 404, which ends the reconcile; the next one goes on.
- A source range that is named twice makes OpenStack refuse the second rule; the
  reconcile ends with an error and the next one finds everything there.
- A spec that the yawollet refuses leaves `EnvoyUpToDate` as it was.

## Not modelled

OpenStack clients (thin wrappers with a timeout; their failures are the failing
requests above), metrics, user data templates, the event controller and the
wiring in `cmd/`: no state that a controller reads back. Of the OpenStack part:
`migrateAPI`, and usages of the security group by foreign ports. Of the machine:
the deprecated `portID`, clusters before Kubernetes 1.24, and a token secret
deleted by hand (the yawollet then loses its access and the machine is replaced).
Timestamps in the rollout are reduced to "old enough". Of the
yawol-cloud-controller: the annotation that LoadBalancers of old versions lack
(`addAnnotation`), the clearing of the deprecated `networkID` and `floatingNetID`,
and IP families. Of the data path: OpenStack's normal form of a CIDR, timeouts,
health checks and metrics of envoy, source ranges none of which is valid, and the
sshd that `EnableAdHocDebugging` starts. Of readyz: the heartbeat and informer
checks, which a ready machine is taken to pass.

## What is left

All controllers are modelled, and all safety properties of the runs that hold are proved
(under the hypotheses that the section on theorems names).
`LoadBalancerOpenstack` and `LoadBalancerMachine` without the assumption that the
controller sees its own writes would need a weaker property than
`ImplementsFinalizerProtocol` (see the observations), and requests for objects that
are gone already.
