--------------------------- MODULE MachineHealth ---------------------------
(***************************************************************************)
(* The health protocol around one LoadBalancerMachine (LBM) object:        *)
(*                                                                         *)
(*  - the yawollet on the VM writes the conditions ConfigReady, EnvoyReady *)
(*    and EnvoyUpToDate with a heartbeat                                   *)
(*    (controllers/yawollet/loadbalancer_controller.go);                   *)
(*  - the LBMStatusReconciler marks a machine whose conditions are stale   *)
(*    or bad, takes the mark back, or deletes the machine once the mark is *)
(*    older than DeletionGracePeriod                                       *)
(*    (controllers/yawol-controller/loadbalancerset/                       *)
(*     loadbalancermachine_status_controller.go).                          *)
(*                                                                         *)
(* Both read the object from an informer cache that may lag behind the API *)
(* server.  The controller writes with Update (refused when its copy is    *)
(* not the newest one), the yawollet with a merge patch that replaces the  *)
(* whole list of conditions, the deletion mark included.                   *)
(*                                                                         *)
(* Time is discrete (one unit stands for a minute).  A timestamp t is kept *)
(* as its age, now - t, cut off at AgeCap: the code only ever asks whether *)
(* a timestamp lies before now - threshold.                                *)
(***************************************************************************)
EXTENDS Integers, FiniteSets

CONSTANTS
    EnvoyConditions,  \* EnvoyReady, EnvoyUpToDate: written after the config
    StaleAfter,       \* 3 minutes, shouldMachineBeDeleted
    GracePeriod,      \* DeletionGracePeriod, 2 minutes by default
    CreationTimeout,  \* 10 minutes without any condition are tolerated
    AgeCap,           \* ages are not counted beyond this bound
    YawolletPeriod,   \* RequeueDuration of the yawollet, rounded up
    PromptWatch,      \* TRUE: a reachable API server updates caches in time
    MaxOutages,       \* bound on the API server outages
    MaxFaults         \* bound on the times envoy or its config break

ConfigReady == "ConfigReady"

ASSUME ThresholdAssumption ==
    /\ StaleAfter \in Nat /\ GracePeriod \in Nat /\ CreationTimeout \in Nat
    /\ AgeCap \in Nat
    /\ AgeCap > StaleAfter /\ AgeCap > GracePeriod /\ AgeCap >= CreationTimeout

ASSUME BoundAssumption ==
    /\ YawolletPeriod \in Nat \ {0}
    /\ MaxOutages \in Nat /\ MaxFaults \in Nat
    /\ PromptWatch \in BOOLEAN
    /\ IsFiniteSet(EnvoyConditions)

VARIABLES
    api,      \* the LBM object in the API server
    ctl,      \* the copy in the cache of the yawol-controller
    let,      \* the copy in the cache of the yawollet
    created,  \* age of the object, the same in every copy
    apiUp,    \* whether the API server can be reached
    outages,  \* outages so far
    vm,       \* "booting", "running" (the yawollet runs) or "dead"
    faulty,   \* envoy or its configuration does not work
    faults,   \* faults so far
    late,     \* the yawollet came up less than a period before CreationTimeout
    idle,     \* time with a reachable API server since the last heartbeat
    lastBad   \* history: age of the last moment at which the object in the
              \* API server satisfied shouldMachineBeDeleted

vars == <<api, ctl, let, created, apiUp, outages, vm, faulty, faults, late,
          idle, lastBad>>

machine == <<created, vm, faulty, faults, late>>

Types == EnvoyConditions \cup {ConfigReady}
Age == 0 .. AgeCap

(* A condition that is True needs no LastTransitionTime: the code reads it *)
(* only together with a status other than True.                            *)
Condition == [present : BOOLEAN, ok : BOOLEAN, since : Age, beat : Age]
Mark == [on : BOOLEAN, since : Age]
Object == [conds : [Types -> Condition], mark : Mark, deleting : BOOLEAN]

NoCondition == [present |-> FALSE, ok |-> FALSE, since |-> 0, beat |-> 0]
NoMark == [on |-> FALSE, since |-> 0]
NewObject == [conds |-> [t \in Types |-> NoCondition],
              mark |-> NoMark, deleting |-> FALSE]

TypeOK ==
    /\ api \in Object /\ ctl \in Object /\ let \in Object
    /\ created \in Age
    /\ apiUp \in BOOLEAN /\ faulty \in BOOLEAN /\ late \in BOOLEAN
    /\ outages \in 0 .. MaxOutages
    /\ faults \in 0 .. MaxFaults
    /\ vm \in {"booting", "running", "dead"}
    /\ idle \in 0 .. YawolletPeriod
    /\ lastBad \in Age

-----------------------------------------------------------------------------
(***************************************************************************)
(* What the status controller looks at                                     *)
(***************************************************************************)

ConditionIsMetIfTrue(c, expiration) == c.present /\ (c.ok \/ ~(c.since > expiration))

\* One round of the loop of AreRelevantConditionsMet with stableConditions:
\* the condition is there, has not been other than True for longer than the
\* expiration, and its heartbeat is not older than the expiration.
ConditionIsMet(c, expiration) ==
    /\ c.present
    /\ c.ok \/ ~(c.since > expiration)
    /\ ~(c.beat > expiration)

AreRelevantConditionsMet(o, expiration) ==
    \A t \in Types : ConditionIsMet(o.conds[t], expiration)

HasNoConditions(o) == ~o.mark.on /\ \A t \in Types : ~o.conds[t].present

\* age is the time since the CreationTimestamp
shouldMachineBeDeleted(o, age) ==
    /\ ~(age < CreationTimeout /\ HasNoConditions(o))
    /\ ~AreRelevantConditionsMet(o, StaleAfter)

Older(age) == IF age < AgeCap THEN age + 1 ELSE age

\* The history variable after a step that leads to the object o
Observe(o, age, previous) ==
    lastBad' = IF shouldMachineBeDeleted(o, age) THEN 0 ELSE previous

-----------------------------------------------------------------------------
(***************************************************************************)
(* LBMStatusReconciler.Reconcile works on the cached copy.  An Update is   *)
(* refused unless that copy is the newest one; the reconcile then fails    *)
(* and is retried, which changes nothing.  Delete has no precondition.     *)
(***************************************************************************)
StatusUpdateUnlocked(o) == api' = [api EXCEPT !.mark = o.mark]

StatusUpdate(o) ==
    /\ ctl = api
    /\ api' = o

MarkWithDeadline ==
    /\ apiUp
    /\ ~ctl.deleting /\ ~ctl.mark.on
    /\ shouldMachineBeDeleted(ctl, created)
    /\ StatusUpdate([ctl EXCEPT !.mark = [on |-> TRUE, since |-> -GracePeriod]])
    /\ Observe(api', created, lastBad)
    /\ UNCHANGED <<ctl, let, apiUp, outages, idle, machine>>

\* markForDeletion, setDeletionCondition
MarkForDeletion ==
    /\ apiUp
    /\ ~ctl.deleting /\ ~ctl.mark.on
    /\ shouldMachineBeDeleted(ctl, created)
    /\ StatusUpdate([ctl EXCEPT !.mark = [on |-> TRUE, since |-> 0]])
    /\ Observe(api', created, lastBad)
    /\ UNCHANGED <<ctl, let, apiUp, outages, idle, machine>>

\* handleMarkedMachine for a machine that has recovered, removeDeletionCondition
RemoveMark ==
    /\ apiUp
    /\ ~ctl.deleting /\ ctl.mark.on
    /\ ~shouldMachineBeDeleted(ctl, created)
    /\ StatusUpdate([ctl EXCEPT !.mark = NoMark])
    /\ Observe(api', created, lastBad)
    /\ UNCHANGED <<ctl, let, apiUp, outages, idle, machine>>

DeleteMarkedWithoutGrace ==
    /\ apiUp
    /\ ~ctl.deleting /\ ctl.mark.on
    /\ shouldMachineBeDeleted(ctl, created)
    /\ api' = [api EXCEPT !.deleting = TRUE]
    /\ UNCHANGED <<ctl, let, apiUp, outages, idle, machine, lastBad>>

\* handleMarkedMachine for a machine that is still bad when the mark is old
DeleteMarked ==
    /\ apiUp
    /\ ~ctl.deleting /\ ctl.mark.on
    /\ shouldMachineBeDeleted(ctl, created)
    /\ ctl.mark.since > GracePeriod
    /\ api' = [api EXCEPT !.deleting = TRUE]
    /\ UNCHANGED <<ctl, let, apiUp, outages, idle, machine, lastBad>>

ReconcileStatus == MarkForDeletion \/ RemoveMark \/ DeleteMarked

-----------------------------------------------------------------------------
(***************************************************************************)
(* The yawollet.  Its reconcile starts from the cached conditions, updates *)
(* those it got to, and replaces the list in the API server by the result. *)
(***************************************************************************)

\* UpdateLBMConditions: LastTransitionTime is kept while the status stays
UpdatedCondition(old, status) ==
    [present |-> TRUE, ok |-> status, beat |-> 0,
     since |-> IF ~status /\ old.present /\ ~old.ok THEN old.since ELSE 0]

\* The conditions after reconcile: when the envoy config cannot be built or
\* set, only ConfigReady is written; otherwise envoy is asked as well.
ReconciledConditions(old, configOk, envoy) ==
    [t \in Types |->
        CASE t = ConfigReady -> UpdatedCondition(old[t], configOk)
          [] t # ConfigReady /\ configOk -> UpdatedCondition(old[t], envoy[t])
          [] OTHER -> old[t]]

\* Reconcile up to Status().Patch.  A yawollet that cannot read the keepalived
\* statistics returns before the patch; such a machine is faulty and simply
\* writes nothing.
YawolletReconcile ==
    /\ vm = "running" /\ apiUp
    /\ \E configOk \in BOOLEAN, envoy \in [EnvoyConditions -> BOOLEAN] :
        /\ faulty <=> ~(configOk /\ \A t \in EnvoyConditions : envoy[t])
        /\ api' = [api EXCEPT !.conds = ReconciledConditions(let.conds, configOk, envoy),
                              !.mark = let.mark]
    /\ idle' = 0
    /\ Observe(api', created, lastBad)
    /\ UNCHANGED <<ctl, let, apiUp, outages, machine>>

-----------------------------------------------------------------------------
(***************************************************************************)
(* The environment: informers, the API server, the VM and time             *)
(***************************************************************************)
RefreshController ==
    /\ apiUp
    /\ ctl' = api
    /\ UNCHANGED <<api, let, apiUp, outages, idle, machine, lastBad>>

RefreshYawollet ==
    /\ apiUp /\ vm = "running"
    /\ let' = api
    /\ UNCHANGED <<api, ctl, apiUp, outages, idle, machine, lastBad>>

OutageBegins ==
    /\ apiUp /\ outages < MaxOutages
    /\ apiUp' = FALSE
    /\ outages' = outages + 1
    /\ UNCHANGED <<api, ctl, let, idle, machine, lastBad>>

\* The yawollet retries with a backoff of at most one period.
OutageEnds ==
    /\ ~apiUp
    /\ apiUp' = TRUE
    /\ idle' = 0
    /\ UNCHANGED <<api, ctl, let, outages, machine, lastBad>>

\* The VM is up and the cache of the yawollet has been filled.
Boot ==
    /\ vm = "booting" /\ apiUp
    /\ vm' = "running"
    /\ late' = ~(created + YawolletPeriod < CreationTimeout)
    /\ let' = api
    /\ idle' = 0
    /\ UNCHANGED <<api, ctl, created, apiUp, outages, faulty, faults, lastBad>>

Die ==
    /\ vm # "dead" /\ faults < MaxFaults
    /\ vm' = "dead"
    /\ faults' = faults + 1
    /\ UNCHANGED <<api, ctl, let, created, apiUp, outages, faulty, late, idle, lastBad>>

Break ==
    /\ ~faulty /\ faults < MaxFaults
    /\ faulty' = TRUE
    /\ faults' = faults + 1
    /\ UNCHANGED <<api, ctl, let, created, apiUp, outages, vm, late, idle, lastBad>>

Repair ==
    /\ faulty
    /\ faulty' = FALSE
    /\ idle' = 0
    /\ UNCHANGED <<api, ctl, let, created, apiUp, outages, vm, faults, late, lastBad>>

OlderObject(o) ==
    [conds |-> [t \in Types |->
        [present |-> o.conds[t].present, ok |-> o.conds[t].ok,
         since |-> IF o.conds[t].present /\ ~o.conds[t].ok
                     THEN Older(o.conds[t].since) ELSE 0,
         beat |-> IF o.conds[t].present THEN Older(o.conds[t].beat) ELSE 0]],
     mark |-> [on |-> o.mark.on,
               since |-> IF o.mark.on THEN Older(o.mark.since) ELSE 0],
     deleting |-> o.deleting]

\* A working yawollet with a reachable API server writes at least once a
\* period, so time does not go on without it.
HeartbeatOverdue ==
    vm = "running" /\ ~faulty /\ apiUp /\ idle = YawolletPeriod

\* With PromptWatch the watches of a reachable API server lag behind by less
\* than a unit of time.
WatchOverdue ==
    PromptWatch /\ apiUp /\ (ctl # api \/ (vm = "running" /\ let # api))

Tick ==
    /\ ~HeartbeatOverdue /\ ~WatchOverdue
    /\ api' = OlderObject(api)
    /\ ctl' = OlderObject(ctl)
    /\ let' = OlderObject(let)
    /\ created' = Older(created)
    /\ idle' = IF vm = "running" /\ ~faulty /\ apiUp THEN idle + 1 ELSE idle
    /\ Observe(api', created', Older(lastBad))
    /\ UNCHANGED <<apiUp, outages, vm, faulty, faults, late>>

-----------------------------------------------------------------------------
Init ==
    /\ api = NewObject /\ ctl = NewObject /\ let = NewObject
    /\ created = 0
    /\ apiUp = TRUE /\ outages = 0
    /\ vm = "booting" /\ faulty = FALSE /\ faults = 0 /\ late = FALSE
    /\ idle = 0
    /\ lastBad = AgeCap

Next ==
    \/ ReconcileStatus
    \/ YawolletReconcile
    \/ RefreshController \/ RefreshYawollet
    \/ OutageBegins \/ OutageEnds
    \/ Boot \/ Die \/ Break \/ Repair
    \/ Tick

Spec == Init /\ [][Next]_vars

(***************************************************************************)
(* The controllers requeue every machine after 15 seconds, informers catch *)
(* up, outages end and time goes on.  Nothing is assumed of the VM.        *)
(***************************************************************************)
Fairness ==
    /\ WF_vars(MarkForDeletion) /\ WF_vars(RemoveMark) /\ WF_vars(DeleteMarked)
    /\ WF_vars(RefreshController)
    /\ WF_vars(OutageEnds)
    /\ WF_vars(Tick)

FairSpec == Spec /\ Fairness

-----------------------------------------------------------------------------
(***************************************************************************)
(* Properties                                                              *)
(***************************************************************************)

\* A deletion mark, wherever a copy of it is found, was set at a moment when
\* the object in the API server did satisfy shouldMachineBeDeleted: neither a
\* stale cache of the controller (Update is refused) nor a stale cache of the
\* yawollet (its patch replaces the list and can wipe out or bring back a
\* mark) produces a mark for a machine that was never bad.
MarksAreEarned ==
    \A o \in {api, ctl, let} : o.mark.on => lastBad <= o.mark.since

\* The promise in the comment of LBMStatusReconciler: a machine that came up
\* in time and has always worked is not deleted because of an API server
\* outage, since its yawollet gets the chance to renew the heartbeat before
\* the grace period is over.
WorkingMachine == vm = "running" /\ faults = 0 /\ ~late
WorkingMachineIsKept == WorkingMachine => ~api.deleting

\* A machine whose VM or yawollet has died is deleted in the end, whatever the
\* caches showed on the way and however many outages there were.
DeadMachineIsDeleted == (vm = "dead") ~> api.deleting

=============================================================================
