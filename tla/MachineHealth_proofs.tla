------------------------ MODULE MachineHealth_proofs ------------------------
(***************************************************************************)
(* For every number of envoy conditions, every threshold and bound: type   *)
(* correctness and, however far the caches lag, that every deletion mark   *)
(* was earned; and, with prompt caches and a single outage of the API      *)
(* server of any length, that a working machine is kept.                   *)
(***************************************************************************)
EXTENDS MachineHealth, TLAPS

\* Counting time never leaves the range of ages.
LEMMA OlderType == \A a \in Age : Older(a) \in Age
  BY ThresholdAssumption DEF Age, Older

\* Counting time keeps the order of two timestamps.
LEMMA OlderMonotone == \A a, b \in Age : a <= b => Older(a) <= Older(b)
  BY ThresholdAssumption DEF Age, Older

\* The ages that the code writes are ages.
LEMMA ZeroIsAge == 0 \in Age /\ AgeCap \in Age /\ \A a \in Age : 0 <= a
  BY ThresholdAssumption DEF Age

\* The passing of time turns an object into an object with the same mark.
LEMMA OlderObjectType ==
  ASSUME NEW o \in Object
  PROVE  /\ OlderObject(o) \in Object
         /\ OlderObject(o).mark.on = o.mark.on
         /\ o.mark.on => OlderObject(o).mark.since = Older(o.mark.since)
<1>1. ASSUME NEW t \in Types
      PROVE  [present |-> o.conds[t].present, ok |-> o.conds[t].ok,
              since |-> IF o.conds[t].present /\ ~o.conds[t].ok
                          THEN Older(o.conds[t].since) ELSE 0,
              beat |-> IF o.conds[t].present THEN Older(o.conds[t].beat) ELSE 0]
             \in Condition
  <2>1. o.conds[t] \in Condition
    BY DEF Object
  <2> QED BY <2>1, OlderType, ZeroIsAge DEF Condition
<1>2. [on |-> o.mark.on, since |-> IF o.mark.on THEN Older(o.mark.since) ELSE 0] \in Mark
  BY OlderType, ZeroIsAge DEF Object, Mark
<1> QED BY <1>1, <1>2 DEF OlderObject, Object

\* The list the yawollet writes is a list of conditions.
LEMMA ReconciledType ==
  ASSUME NEW old \in [Types -> Condition], NEW configOk \in BOOLEAN,
         NEW envoy \in [EnvoyConditions -> BOOLEAN]
  PROVE  ReconciledConditions(old, configOk, envoy) \in [Types -> Condition]
<1>1. ASSUME NEW c \in Condition, NEW s \in BOOLEAN
      PROVE  UpdatedCondition(c, s) \in Condition
  BY ZeroIsAge DEF Condition, UpdatedCondition
<1>2. ASSUME NEW t \in Types
      PROVE  (CASE t = ConfigReady -> UpdatedCondition(old[t], configOk)
                [] t # ConfigReady /\ configOk -> UpdatedCondition(old[t], envoy[t])
                [] OTHER -> old[t]) \in Condition
  <2>1. CASE t = ConfigReady
    BY <2>1, <1>1
  <2>2. CASE t # ConfigReady /\ configOk
    <3>1. envoy[t] \in BOOLEAN
      BY <2>2 DEF Types
    <3> QED BY <2>2, <3>1, <1>1
  <2>3. CASE t # ConfigReady /\ ~configOk
    BY <2>3
  <2> QED BY <2>1, <2>2, <2>3
<1> QED BY <1>2 DEF ReconciledConditions

\* A new machine is an object.
LEMMA NewObjectType == NewObject \in Object
  BY ZeroIsAge DEF NewObject, Object, NoCondition, NoMark, Condition, Mark

\* lastBad stays an age.
LEMMA ObserveType ==
  ASSUME NEW o, NEW a, NEW p \in Age, Observe(o, a, p)
  PROVE  lastBad' \in Age
  BY ZeroIsAge DEF Observe

\* The variables have their types in the initial states.
LEMMA TypeInit == Init => TypeOK
<1> SUFFICES ASSUME Init PROVE TypeOK
  OBVIOUS
<1>1. 0 \in 0 .. MaxOutages /\ 0 \in 0 .. MaxFaults /\ 0 \in 0 .. YawolletPeriod
  BY BoundAssumption
<1> QED BY <1>1, NewObjectType, ZeroIsAge, Zenon DEF Init, TypeOK

\* Type correctness of one step.
LEMMA TypeStep == TypeOK /\ [Next]_vars => TypeOK'
<1> SUFFICES ASSUME TypeOK, [Next]_vars
             PROVE  TypeOK'
  OBVIOUS
<1> USE DEF TypeOK, machine
<1>1. CASE MarkForDeletion
  <2>1. [ctl EXCEPT !.mark = [on |-> TRUE, since |-> 0]] \in Object
    BY ZeroIsAge DEF Object, Mark
  <2> QED BY <1>1, <2>1, ObserveType DEF MarkForDeletion, StatusUpdate
<1>2. CASE RemoveMark
  <2>1. [ctl EXCEPT !.mark = NoMark] \in Object
    BY ZeroIsAge DEF Object, Mark, NoMark
  <2> QED BY <1>2, <2>1, ObserveType DEF RemoveMark, StatusUpdate
<1>3. CASE DeleteMarked
  <2>1. [api EXCEPT !.deleting = TRUE] \in Object
    BY DEF Object
  <2> QED BY <1>3, <2>1 DEF DeleteMarked
<1>4. CASE YawolletReconcile
  <2>1. PICK configOk \in BOOLEAN, envoy \in [EnvoyConditions -> BOOLEAN] :
          api' = [api EXCEPT !.conds = ReconciledConditions(let.conds, configOk, envoy),
                             !.mark = let.mark]
    BY <1>4 DEF YawolletReconcile
  <2>2. ReconciledConditions(let.conds, configOk, envoy) \in [Types -> Condition]
    BY ReconciledType DEF Object
  <2>3. api' \in Object
    BY <2>1, <2>2 DEF Object
  <2>4. idle' \in 0 .. YawolletPeriod
    BY <1>4, BoundAssumption DEF YawolletReconcile
  <2> QED BY <1>4, <2>3, <2>4, ObserveType DEF YawolletReconcile
<1>5. CASE RefreshController \/ RefreshYawollet
  BY <1>5 DEF RefreshController, RefreshYawollet
<1>6. CASE OutageBegins \/ OutageEnds
  <2>1. apiUp' \in BOOLEAN
    BY <1>6, Zenon DEF OutageBegins, OutageEnds
  <2>2. outages' \in 0 .. MaxOutages /\ idle' \in 0 .. YawolletPeriod
    BY <1>6, BoundAssumption DEF OutageBegins, OutageEnds
  <2> QED BY <1>6, <2>1, <2>2, Zenon DEF OutageBegins, OutageEnds
<1>7. CASE Boot
  BY <1>7, BoundAssumption DEF Boot
<1>8. CASE Die \/ Break \/ Repair
  <2>1. faulty' \in BOOLEAN
    BY <1>8, Zenon DEF Die, Break, Repair
  <2>2. faults' \in 0 .. MaxFaults /\ idle' \in 0 .. YawolletPeriod
    BY <1>8, BoundAssumption DEF Die, Break, Repair
  <2>3. vm' \in {"booting", "running", "dead"}
    BY <1>8 DEF Die, Break, Repair
  <2> QED BY <1>8, <2>1, <2>2, <2>3, Zenon DEF Die, Break, Repair
<1>9. CASE Tick
  <2>1. api' \in Object /\ ctl' \in Object /\ let' \in Object
    BY <1>9, OlderObjectType DEF Tick
  <2>2. created' \in Age /\ Older(lastBad) \in Age
    BY <1>9, OlderType DEF Tick
  <2>3. lastBad' \in Age
    BY <1>9, <2>2, ObserveType DEF Tick
  <2>4. idle' \in 0 .. YawolletPeriod
    BY <1>9, BoundAssumption DEF Tick, HeartbeatOverdue
  <2> QED BY <1>9, <2>1, <2>2, <2>3, <2>4 DEF Tick
<1>10. CASE UNCHANGED vars
  BY <1>10 DEF vars
<1> QED BY <1>1, <1>2, <1>3, <1>4, <1>5, <1>6, <1>7, <1>8, <1>9, <1>10
        DEF Next, ReconcileStatus

\* The variables keep their types in every behaviour of the health protocol.
THEOREM TypeCorrect == Spec => []TypeOK
  BY TypeInit, TypeStep, PTL DEF Spec

-----------------------------------------------------------------------------
\* Setting or leaving the mark alone, what a step does to the history
\* variable keeps it below the age of every mark it was below of.
LEMMA ObserveBound ==
  ASSUME NEW o, NEW a, NEW p \in Age, NEW s \in Age, p <= s, Observe(o, a, p)
  PROVE  lastBad' <= s
  BY ZeroIsAge DEF Observe

\* One step keeps every mark earned, whichever copy it is in.
LEMMA MarksStep == TypeOK /\ MarksAreEarned /\ [Next]_vars => MarksAreEarned'
<1> SUFFICES ASSUME TypeOK, MarksAreEarned, [Next]_vars
             PROVE  MarksAreEarned'
  OBVIOUS
<1> USE DEF MarksAreEarned, machine
<1>t. /\ api \in Object /\ ctl \in Object /\ let \in Object /\ lastBad \in Age
      /\ api.mark.since \in Age /\ ctl.mark.since \in Age /\ let.mark.since \in Age
  BY DEF TypeOK, Object, Mark
<1>1. CASE MarkForDeletion
  <2>1. /\ api.conds = ctl.conds /\ api.mark.on = FALSE
        /\ api' = [ctl EXCEPT !.mark = [on |-> TRUE, since |-> 0]]
    BY <1>1 DEF MarkForDeletion, StatusUpdate
  <2>2. api'.mark.on = TRUE /\ api'.mark.since = 0 /\ api'.conds = ctl.conds
    BY <2>1, <1>t DEF Object
  <2>3. ~AreRelevantConditionsMet(ctl, StaleAfter)
    BY <1>1 DEF MarkForDeletion, shouldMachineBeDeleted
  <2>4. shouldMachineBeDeleted(api', created)
    BY <2>2, <2>3 DEF shouldMachineBeDeleted, AreRelevantConditionsMet, HasNoConditions
  <2>5. lastBad' = 0
    BY <1>1, <2>4 DEF MarkForDeletion, Observe
  <2> QED BY <1>1, <2>2, <2>5, <1>t, ZeroIsAge DEF MarkForDeletion
<1>2. CASE RemoveMark
  <2>1. api'.mark.on = FALSE
    BY <1>2, <1>t DEF RemoveMark, StatusUpdate, Object, NoMark
  <2>2. UNCHANGED <<ctl, let>> /\ Observe(api', created, lastBad)
    BY <1>2 DEF RemoveMark
  <2> QED BY <2>1, <2>2, <1>t, ObserveBound
<1>3. CASE DeleteMarked
  <2>1. api'.mark = api.mark
    BY <1>3, <1>t DEF DeleteMarked, Object
  <2> QED BY <1>3, <2>1 DEF DeleteMarked
<1>4. CASE YawolletReconcile
  <2>1. api'.mark = let.mark
    BY <1>4, <1>t DEF YawolletReconcile, Object
  <2>2. UNCHANGED <<ctl, let>> /\ Observe(api', created, lastBad)
    BY <1>4 DEF YawolletReconcile
  <2> QED BY <2>1, <2>2, <1>t, ObserveBound
<1>5. CASE RefreshController \/ RefreshYawollet
  BY <1>5 DEF RefreshController, RefreshYawollet
<1>6. CASE OutageBegins \/ OutageEnds \/ Boot \/ Die \/ Break \/ Repair
  BY <1>6 DEF OutageBegins, OutageEnds, Boot, Die, Break, Repair
<1>7. CASE Tick
  <2>1. ASSUME NEW o \in {api, ctl, let}, OlderObject(o).mark.on
        PROVE  lastBad' <= OlderObject(o).mark.since
    <3>1. o \in Object /\ o.mark.since \in Age
      BY <1>t
    <3>2. o.mark.on /\ OlderObject(o).mark.since = Older(o.mark.since)
      BY <2>1, <3>1, OlderObjectType
    <3>3. Older(lastBad) <= Older(o.mark.since)
      BY <3>1, <3>2, <1>t, OlderMonotone
    <3>4. Older(lastBad) \in Age /\ Older(o.mark.since) \in Age
      BY <3>1, <1>t, OlderType
    <3> QED BY <1>7, <3>2, <3>3, <3>4, ObserveBound DEF Tick
  <2> QED BY <1>7, <2>1 DEF Tick
<1>8. CASE UNCHANGED vars
  BY <1>8 DEF vars
<1> QED BY <1>1, <1>2, <1>3, <1>4, <1>5, <1>6, <1>7, <1>8
        DEF Next, ReconcileStatus

\* Whatever the caches show and whoever overwrites whom, a deletion mark goes
\* back to a moment at which the machine was bad in the API server.
THEOREM MarksEarned == Spec => []MarksAreEarned
<1>1. Init => MarksAreEarned
  BY DEF Init, MarksAreEarned, NewObject, NoMark
<1> QED BY <1>1, MarksStep, TypeCorrect, PTL DEF Spec

-----------------------------------------------------------------------------
(***************************************************************************)
(* A working machine is kept.  The invariant follows a machine that has    *)
(* not failed and came up in time, or still may.  Up to the first outage   *)
(* its heartbeats are fresh in the API server, or it is young and has none *)
(* yet; so there is no mark that could grow old during the outage.  After  *)
(* it a mark is younger than the heartbeat that is due, as far as the      *)
(* API server and the cache of the controller show no fresh one yet.       *)
(***************************************************************************)
Candidate ==
    /\ faults = 0
    /\ \/ vm = "running" /\ ~late
       \/ vm = "booting" /\ created + YawolletPeriod < CreationTimeout

None(o) == \A t \in Types : ~o.conds[t].present
Good(o, i) == \A t \in Types : o.conds[t].present /\ o.conds[t].ok /\ o.conds[t].beat <= i
Unmarked == ~api.mark.on /\ ~ctl.mark.on /\ ~let.mark.on

\* Fresh heartbeats, or no mark that is older
Recent(o, i) == Good(o, i) \/ (o.mark.on => o.mark.since <= i)

\* The first heartbeat is due before conditions are missed.
Young == None(api) /\ (vm = "running" => created + YawolletPeriod - idle < CreationTimeout)

HealthInv ==
    /\ ~api.deleting
    /\ vm = "booting" => None(api) /\ Unmarked
    /\ ~apiUp \/ outages = 0 => Unmarked
    /\ outages = 0 => apiUp /\ (Good(api, idle) \/ Young)
    /\ apiUp => Recent(api, idle) /\ Recent(ctl, YawolletPeriod)

KeptInv == (faulty \/ vm = "dead" => faults # 0) /\ (Candidate => HealthInv)

\* With fresh heartbeats a machine is not to be deleted.
LEMMA GoodIsNotBad ==
  ASSUME NEW o \in Object, NEW i \in Nat, i <= StaleAfter, Good(o, i), NEW age
  PROVE  ~shouldMachineBeDeleted(o, age)
<1>1. \A t \in Types : o.conds[t].beat \in Nat
  BY ThresholdAssumption DEF Object, Condition, Age
<1> QED  BY <1>1, ThresholdAssumption DEF Good, shouldMachineBeDeleted, AreRelevantConditionsMet,
              ConditionIsMet

\* Time makes a heartbeat and a mark older by at most one unit.
LEMMA OlderGood ==
  ASSUME NEW o \in Object, NEW i \in Nat
  PROVE  /\ Good(o, i) => Good(OlderObject(o), i + 1)
         /\ None(o) => None(OlderObject(o))
         /\ Recent(o, i) => Recent(OlderObject(o), i + 1)
         /\ ~o.mark.on => ~OlderObject(o).mark.on
         /\ OlderObject(o).deleting = o.deleting
<1>1. \A t \in Types : o.conds[t].beat \in Age
  BY DEF Object, Condition
<1>2. o.mark.since \in Age
  BY DEF Object, Mark
<1>3. \A a \in Age : Older(a) <= a + 1 /\ Older(a) \in Nat /\ a \in Nat
  BY ThresholdAssumption DEF Age, Older
<1>4. \A t \in Types : /\ OlderObject(o).conds[t].present = o.conds[t].present
                       /\ OlderObject(o).conds[t].ok = o.conds[t].ok
                       /\ o.conds[t].present => OlderObject(o).conds[t].beat = Older(o.conds[t].beat)
  BY DEF OlderObject
<1>5. /\ OlderObject(o).mark.on = o.mark.on
      /\ o.mark.on => OlderObject(o).mark.since = Older(o.mark.since)
  BY OlderObjectType
<1>6. ASSUME Good(o, i) PROVE Good(OlderObject(o), i + 1)
  BY <1>1, <1>3, <1>4, <1>6 DEF Good
<1>7. None(o) => None(OlderObject(o))
  BY <1>4 DEF None
<1>8. Recent(o, i) => Recent(OlderObject(o), i + 1)
  BY <1>2, <1>3, <1>5, <1>6 DEF Recent
<1> QED  BY <1>5, <1>6, <1>7, <1>8 DEF OlderObject

\* The yawollet of a machine that works writes fresh heartbeats.
LEMMA HeartbeatIsGood ==
  ASSUME TypeOK, YawolletReconcile, ~faulty
  PROVE  /\ Good(api', 0) /\ api'.mark = let.mark /\ api'.deleting = api.deleting
<1>1. api \in Object
  BY DEF TypeOK
<1>2. PICK configOk \in BOOLEAN, envoy \in [EnvoyConditions -> BOOLEAN] :
        /\ configOk = TRUE /\ \A t \in EnvoyConditions : envoy[t] = TRUE
        /\ api' = [api EXCEPT !.conds = ReconciledConditions(let.conds, configOk, envoy),
                              !.mark = let.mark]
  BY DEF YawolletReconcile
<1> DEFINE conds == ReconciledConditions(let.conds, configOk, envoy)
<1>3. api'.conds = conds /\ api'.mark = let.mark /\ api'.deleting = api.deleting
  BY <1>1, <1>2 DEF Object
<1>4. \A c : /\ UpdatedCondition(c, TRUE).present /\ UpdatedCondition(c, TRUE).ok
            /\ UpdatedCondition(c, TRUE).beat = 0
  BY DEF UpdatedCondition
<1>5. ASSUME NEW t \in Types
      PROVE  conds[t].present /\ conds[t].ok /\ conds[t].beat = 0
  <2>1. CASE t = ConfigReady
    <3>1. conds[t] = UpdatedCondition(let.conds[t], TRUE)
      BY <1>2, <2>1 DEF ReconciledConditions
    <3> QED  BY <1>4, <3>1
  <2>2. CASE t # ConfigReady
    <3>1. t \in EnvoyConditions
      BY <2>2 DEF Types
    <3>2. conds[t] = UpdatedCondition(let.conds[t], TRUE)
      BY <1>2, <2>2, <3>1 DEF ReconciledConditions
    <3> QED  BY <1>4, <3>2
  <2> QED  BY <2>1, <2>2
<1> QED  BY <1>3, <1>5 DEF Good

\* What the theorem below presumes: the watches of a reachable API server are in
\* time, the yawollet writes often enough, and there is one outage.
KeptAssumption ==
    /\ PromptWatch /\ MaxOutages <= 1
    /\ YawolletPeriod <= StaleAfter /\ YawolletPeriod <= GracePeriod

\* Arithmetic of ages that grow together.
LEMMA Sums ==
  ASSUME NEW a \in Nat, NEW b \in Nat, NEW p \in Nat, NEW i \in Nat, NEW k \in Nat
  PROVE  /\ a <= b /\ b + p < k => a + p < k
         /\ b <= a + 1 /\ a + p - i < k => b + p - (i + 1) < k
OBVIOUS

\* KeptInv holds in the initial states.
LEMMA KeptInit == Init => KeptInv
<1> SUFFICES ASSUME Init PROVE KeptInv
  OBVIOUS
<1>1. None(api) /\ Unmarked /\ ~api.deleting
  BY DEF Init, NewObject, NoMark, NoCondition, None, Unmarked
<1> QED  BY <1>1 DEF Init, KeptInv, HealthInv, Young, Recent, Unmarked

\* The status controller sets no mark before the first outage, and deletes nothing.
LEMMA StatusKeeps ==
  ASSUME KeptAssumption, TypeOK, Candidate, HealthInv, ReconcileStatus
  PROVE  HealthInv'
<1>1. /\ api \in Object /\ ctl \in Object /\ let \in Object
      /\ idle \in Nat /\ idle <= YawolletPeriod /\ YawolletPeriod \in Nat
      /\ api.mark.since \in Nat /\ ctl.mark.since \in Nat
      /\ created \in Nat /\ GracePeriod \in Nat
  BY BoundAssumption, ThresholdAssumption DEF TypeOK, Object, Mark, Age
<1>2. /\ UNCHANGED <<vm, created, faults, late, apiUp, outages, idle, ctl, let>> /\ apiUp
  BY DEF ReconcileStatus, MarkForDeletion, RemoveMark, DeleteMarked, machine
<1>3. CASE MarkForDeletion
  <2>1. /\ api = ctl /\ api' = [api EXCEPT !.mark = [on |-> TRUE, since |-> 0]]
        /\ shouldMachineBeDeleted(api, created)
    BY <1>3 DEF MarkForDeletion, StatusUpdate
  <2>2. /\ api'.conds = api.conds /\ api'.deleting = api.deleting
        /\ api'.mark.on /\ api'.mark.since = 0
    BY <1>1, <2>1 DEF Object
  <2>3. ~(Good(api, idle) \/ (Young /\ Unmarked))
    <3>1. ~Good(api, idle)
      <4>1. idle <= StaleAfter
        BY <1>1, ThresholdAssumption DEF KeptAssumption
      <4> QED  BY <1>1, <2>1, <4>1, GoodIsNotBad
    <3>2. ASSUME Young, Unmarked PROVE FALSE
      <4>1. created < CreationTimeout
        BY <1>1, <3>2, ThresholdAssumption DEF Young, Candidate
      <4> QED  BY <2>1, <3>2, <4>1 DEF Young, None, Unmarked, HasNoConditions, shouldMachineBeDeleted
    <3> QED  BY <3>1, <3>2
  <2>4. outages # 0
    BY <2>3 DEF HealthInv
  <2>5. vm # "booting"
    <3>1. ASSUME vm = "booting" PROVE Young /\ Unmarked
      BY <3>1 DEF HealthInv, Young
    <3> QED  BY <2>3, <3>1
  <2>6. Recent(api', idle)
    BY <1>1, <2>2 DEF Recent
  <2> QED  BY <1>1, <1>2, <2>2, <2>4, <2>5, <2>6 DEF HealthInv, Recent
<1>4. CASE RemoveMark
  <2>1. api = ctl /\ api' = [api EXCEPT !.mark = NoMark]
    BY <1>4 DEF RemoveMark, StatusUpdate
  <2>2. api'.conds = api.conds /\ api'.deleting = api.deleting /\ ~api'.mark.on
    BY <1>1, <2>1 DEF Object, NoMark
  <2> QED  BY <1>2, <2>2 DEF HealthInv, Recent, Good, None, Unmarked, Young
<1>5. CASE DeleteMarked
  <2>1. ctl.mark.on /\ ctl.mark.since > GracePeriod /\ shouldMachineBeDeleted(ctl, created)
    BY <1>5 DEF DeleteMarked
  <2>2. ~Good(ctl, YawolletPeriod)
    BY <1>1, <2>1, GoodIsNotBad DEF KeptAssumption
  <2>3. ctl.mark.since <= YawolletPeriod
    BY <1>2, <2>1, <2>2 DEF HealthInv, Recent
  <2> QED  BY <1>1, <2>1, <2>3 DEF KeptAssumption
<1> QED  BY <1>3, <1>4, <1>5 DEF ReconcileStatus

\* A heartbeat is fresh, and brings back no mark before the first outage.
LEMMA HeartbeatKeeps ==
  ASSUME TypeOK, Candidate, HealthInv, ~faulty, YawolletReconcile
  PROVE  HealthInv'
<1>1. /\ UNCHANGED <<vm, created, faults, late, apiUp, outages, ctl, let>> /\ apiUp /\ idle' = 0
      /\ vm = "running"
  BY DEF YawolletReconcile, machine
<1>2. Good(api', 0) /\ api'.mark = let.mark /\ api'.deleting = api.deleting
  BY HeartbeatIsGood
<1> QED  BY <1>1, <1>2 DEF HealthInv, Recent, Unmarked, Good

\* Time passes only with up-to-date caches and a heartbeat that is not due yet, or
\* during an outage.
LEMMA TickKeeps ==
  ASSUME KeptAssumption, TypeOK, ~faulty, Candidate, HealthInv, Tick
  PROVE  HealthInv'
<1>1. /\ api \in Object /\ ctl \in Object /\ let \in Object
      /\ idle \in Nat /\ idle <= YawolletPeriod /\ YawolletPeriod \in Nat
      /\ created \in Nat /\ created' \in Nat /\ created' <= created + 1
      /\ CreationTimeout \in Nat
  BY BoundAssumption, ThresholdAssumption DEF TypeOK, Age, Tick, Older
<1>2. /\ UNCHANGED <<vm, faults, late, apiUp, outages>>
      /\ api' = OlderObject(api) /\ ctl' = OlderObject(ctl) /\ let' = OlderObject(let)
      /\ idle' = IF vm = "running" /\ apiUp THEN idle + 1 ELSE idle
      /\ apiUp => ctl = api
      /\ vm = "running" /\ apiUp => idle # YawolletPeriod
  BY DEF Tick, HeartbeatOverdue, WatchOverdue, KeptAssumption
<1>3. Unmarked => Unmarked'
  BY <1>1, <1>2, OlderGood DEF Unmarked
<1>4. ~api'.deleting
  BY <1>1, <1>2, OlderGood DEF HealthInv
<1>5. CASE ~apiUp
  BY <1>1, <1>2, <1>3, <1>4, <1>5, OlderGood DEF HealthInv
<1>6. CASE apiUp /\ vm = "booting"
  <2>1. None(api') /\ Unmarked'
    BY <1>1, <1>2, <1>3, <1>6, OlderGood DEF HealthInv
  <2>2. Recent(api', idle') /\ Recent(ctl', YawolletPeriod)
    BY <2>1 DEF Unmarked, Recent
  <2> QED  BY <1>2, <1>4, <1>6, <2>1, <2>2 DEF HealthInv, Young
<1>7. CASE apiUp /\ vm = "running"
  <2>1. idle' = idle + 1 /\ idle + 1 <= YawolletPeriod
    BY <1>1, <1>2, <1>7
  <2>2. Recent(api', idle + 1)
    BY <1>1, <1>2, <1>7, OlderGood DEF HealthInv
  <2>3. Recent(ctl', YawolletPeriod)
    <3>1. \A t \in Types : ctl'.conds[t].beat \in Nat
      BY <1>1, <1>2, OlderObjectType DEF Object, Condition, Age
    <3>2. ctl'.mark.since \in Nat
      BY <1>1, <1>2, OlderObjectType DEF Object, Mark, Age
    <3>3. Recent(ctl', idle + 1)
      BY <1>2, <1>7, <2>2
    <3> QED  BY <1>1, <2>1, <3>1, <3>2, <3>3 DEF Recent, Good
  <2>4. Good(api, idle) => Good(api', idle + 1)
    BY <1>1, <1>2, OlderGood
  <2>5. Young => Young'
    <3>1. None(api) => None(api')
      BY <1>1, <1>2, OlderGood
    <3>2. created + YawolletPeriod - idle < CreationTimeout
            => created' + YawolletPeriod - idle' < CreationTimeout
      BY <1>1, <2>1, Sums
    <3> QED  BY <1>2, <1>7, <3>1, <3>2 DEF Young
  <2> QED  BY <1>2, <1>3, <1>4, <1>7, <2>1, <2>2, <2>3, <2>4, <2>5 DEF HealthInv
<1> QED  BY <1>5, <1>6, <1>7 DEF Candidate

\* Every step preserves KeptInv.
LEMMA KeptStep ==
  ASSUME KeptAssumption, TypeOK, KeptInv, [Next]_vars
  PROVE  KeptInv'
<1>0. /\ created \in Nat /\ created' \in Nat /\ YawolletPeriod \in Nat /\ CreationTimeout \in Nat
      /\ faults \in Nat /\ outages \in 0 .. MaxOutages /\ MaxOutages \in Nat /\ created <= created'
      /\ idle \in Nat /\ idle <= YawolletPeriod
  <2>1. created \in Nat /\ created \in Age /\ faults \in Nat
    BY BoundAssumption, ThresholdAssumption DEF TypeOK, Age
  <2>2. created' \in {created, Older(created)}
    BY DEF Next, ReconcileStatus, MarkForDeletion, RemoveMark, DeleteMarked, YawolletReconcile,
           RefreshController, RefreshYawollet, OutageBegins, OutageEnds, Boot, Die, Break, Repair,
           Tick, vars, machine
  <2>3. Older(created) \in Nat /\ created <= Older(created)
    BY <2>1 DEF Older
  <2> QED  BY <2>1, <2>2, <2>3, BoundAssumption, ThresholdAssumption DEF TypeOK
<1>1. (faulty \/ vm = "dead" => faults # 0)'
  <2>1. CASE Die \/ Break
    <3>1. faults' = faults + 1
      BY <2>1 DEF Die, Break
    <3> QED  BY <1>0, <3>1
  <2>2. CASE Boot \/ Repair
    BY <2>2 DEF Boot, Repair, KeptInv
  <2>3. CASE UNCHANGED <<faulty, vm, faults>>
    BY <2>3 DEF KeptInv
  <2>4. CASE \/ ReconcileStatus \/ YawolletReconcile \/ RefreshController \/ RefreshYawollet
             \/ OutageBegins \/ OutageEnds \/ Tick \/ UNCHANGED vars
    BY <2>3, <2>4 DEF ReconcileStatus, MarkForDeletion, RemoveMark, DeleteMarked,
       YawolletReconcile, RefreshController, RefreshYawollet, OutageBegins, OutageEnds,
       Tick, vars, machine
  <2> QED  BY <2>1, <2>2, <2>4 DEF Next
<1>2. SUFFICES ASSUME Candidate' PROVE HealthInv'
  BY <1>1 DEF KeptInv
<1>3. Candidate
  <2>1. CASE Boot
    BY <1>2, <2>1 DEF Boot, Candidate
  <2>2. CASE Die \/ Break
    BY <1>0, <1>2, <2>2 DEF Die, Break, Candidate
  <2>3. CASE UNCHANGED <<faults, vm, late>>
    <3>1. created' + YawolletPeriod < CreationTimeout => created + YawolletPeriod < CreationTimeout
      BY <1>0, Sums
    <3> QED  BY <1>2, <2>3, <3>1 DEF Candidate
  <2>4. CASE \/ ReconcileStatus \/ YawolletReconcile \/ RefreshController \/ RefreshYawollet
             \/ OutageBegins \/ OutageEnds \/ Repair \/ Tick \/ UNCHANGED vars
    BY <2>3, <2>4 DEF ReconcileStatus, MarkForDeletion, RemoveMark, DeleteMarked,
       YawolletReconcile, RefreshController, RefreshYawollet, OutageBegins, OutageEnds, Repair,
       Tick, vars, machine
  <2> QED  BY <2>1, <2>2, <2>4 DEF Next
<1>4. HealthInv /\ ~faulty
  BY <1>3 DEF KeptInv, Candidate
<1>5. CASE ReconcileStatus
  BY <1>3, <1>4, <1>5, StatusKeeps
<1>6. CASE YawolletReconcile
  BY <1>3, <1>4, <1>6, HeartbeatKeeps
<1>7. CASE Tick
  BY <1>3, <1>4, <1>7, TickKeeps
<1>8. CASE RefreshController \/ RefreshYawollet
  <2>1. UNCHANGED <<api, vm, created, late, faults, apiUp, outages, idle>> /\ apiUp
    BY <1>8 DEF RefreshController, RefreshYawollet, machine
  <2>2. ctl' \in {ctl, api} /\ let' \in {let, api}
    BY <1>8 DEF RefreshController, RefreshYawollet
  <2>3. Recent(api, idle) => Recent(api, YawolletPeriod)
    <3>1. api.mark.since \in Nat /\ \A t \in Types : api.conds[t].beat \in Nat
      BY ThresholdAssumption DEF TypeOK, Object, Mark, Condition, Age
    <3> QED  BY <1>0, <3>1 DEF Recent, Good
  <2>4. Recent(ctl', YawolletPeriod)
    BY <1>4, <2>1, <2>2, <2>3 DEF HealthInv
  <2>5. Unmarked => Unmarked'
    BY <2>1, <2>2 DEF Unmarked
  <2> QED  BY <1>4, <2>1, <2>4, <2>5 DEF HealthInv, Recent, Good, None, Young
<1>9. CASE OutageBegins
  <2>1. outages = 0 /\ outages' = 1 /\ ~apiUp'
    BY <1>0, <1>9 DEF OutageBegins, KeptAssumption
  <2>2. UNCHANGED <<api, ctl, let, vm>>
    BY <1>9 DEF OutageBegins, machine
  <2> QED  BY <1>4, <2>1, <2>2 DEF HealthInv, Unmarked, None
<1>10. CASE OutageEnds
  <2>1. ~apiUp /\ idle' = 0 /\ UNCHANGED <<api, ctl, let, vm, outages>>
    BY <1>10 DEF OutageEnds, machine
  <2>2. Unmarked /\ outages # 0
    BY <1>4, <2>1 DEF HealthInv
  <2> QED  BY <1>4, <2>1, <2>2 DEF HealthInv, Unmarked, None, Recent
<1>11. CASE Boot
  <2>1. /\ vm = "booting" /\ vm' = "running" /\ idle' = 0 /\ let' = api /\ apiUp
        /\ UNCHANGED <<api, ctl, created, apiUp, outages>>
    BY <1>11 DEF Boot
  <2>2. created + YawolletPeriod < CreationTimeout
    BY <1>3, <2>1 DEF Candidate
  <2>3. None(api) /\ Unmarked
    BY <1>4, <2>1 DEF HealthInv
  <2> QED  BY <1>0, <1>4, <2>1, <2>2, <2>3 DEF HealthInv, Unmarked, None, Recent, Young
<1>12. CASE Die \/ Break \/ Repair
  BY <1>0, <1>2, <1>4, <1>12 DEF Die, Break, Repair, Candidate
<1>13. CASE UNCHANGED vars
  BY <1>4, <1>13 DEF vars, HealthInv, Unmarked, None, Recent, Good, Young
<1> QED  BY <1>5, <1>6, <1>7, <1>8, <1>9, <1>10, <1>11, <1>12, <1>13 DEF Next

\* A machine that came up in time and has always worked survives an outage of the
\* API server of any length: with prompt watches, and a yawollet that writes more
\* often than StaleAfter and GracePeriod, its heartbeat comes before the grace
\* period of a mark is over.
THEOREM OutageSparesWorkingMachine ==
  ASSUME KeptAssumption
  PROVE  Spec => []WorkingMachineIsKept
<1>1. Init => TypeOK
  BY TypeInit
<1>2. TypeOK /\ KeptInv /\ [Next]_vars => KeptInv'
  BY KeptStep
<1>3. KeptInv => WorkingMachineIsKept
  BY DEF KeptInv, Candidate, HealthInv, WorkingMachineIsKept, WorkingMachine
<1> QED  BY <1>1, <1>2, <1>3, KeptInit, TypeStep, PTL DEF Spec

=============================================================================
