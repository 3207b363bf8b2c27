-------------------------- MODULE DataPath_proofs --------------------------
(***************************************************************************)
(* Proofs about DataPath, for every set of specs, of addresses and of      *)
(* source ranges and for any number of changes and faults: when rules of   *)
(* the security group are created there is none, before and after, that    *)
(* the spec does not want; nothing is open then but what the spec asks     *)
(* for; EnvoyUpToDate is never reported for an envoy that runs another     *)
(* configuration; and all variables keep their types.                      *)
(*                                                                         *)
(* That no unwanted rule is there follows from the order of the requests   *)
(* alone (KnowsRules); that those which are created stay, and open nothing *)
(* but what is asked for, from what the rules are (WantedRule).            *)
(***************************************************************************)
EXTENDS DataPath, FiniteSetTheorems, SequenceTheorems, WellFoundedInduction, TLAPS

\* A reconcile knows of every rule that is there until it has deleted the unused
\* ones, although rules are lost meanwhile; then only wanted ones are left.
KnowsRules ==
    /\ pc \in {"idle", "delete", "create"}
    /\ pc = "delete" => group \subseteq work.rules
    /\ pc = "create" => group \subseteq DesiredRules(work.spec)

\* KnowsRules holds in the initial states.
LEMMA RulesInit == Init => KnowsRules
BY DEF Init, KnowsRules

\* Every step preserves KnowsRules, and a step that adds rules finds only wanted
\* ones.
LEMMA RulesStep ==
    ASSUME KnowsRules, [Next]_vars
    PROVE  /\ KnowsRules'
           /\ group' \ group # {} => group \subseteq DesiredRules(work.spec)
<1> USE DEF KnowsRules
<1>1. CASE FetchSecGroup
  BY <1>1 DEF FetchSecGroup
<1>2. CASE DeleteUnusedSecGroupRulesFromSecGroup
  <2>1. CASE /\ group' = group \ Unused(work.spec, work.rules)
             /\ pc' = "create" /\ pc = "delete"
             /\ UNCHANGED work
    <3>1. group \ Unused(work.spec, work.rules) \subseteq DesiredRules(work.spec)
      BY <2>1 DEF Unused, DesiredRules
    <3>2. DesiredRules(work.spec)' = DesiredRules(work.spec)
      BY <2>1 DEF DesiredRules
    <3> QED  BY <2>1, <3>1, <3>2
  <2>2. CASE /\ \E sent \in SUBSET Unused(work.spec, work.rules) : group' = group \ sent
             /\ pc' = "idle"
    BY <2>2
  <2> QED  BY <1>2, <2>1, <2>2 DEF DeleteUnusedSecGroupRulesFromSecGroup
<1>3. CASE CreateNonExistingSecGroupRules
  BY <1>3 DEF CreateNonExistingSecGroupRules
<1>4. CASE LoseRule
  <2>1. group' \subseteq group /\ UNCHANGED <<pc, work>>
    BY <1>4 DEF LoseRule
  <2>2. DesiredRules(work.spec)' = DesiredRules(work.spec)
    BY <2>1 DEF DesiredRules
  <2> QED  BY <2>1, <2>2
<1>5. CASE UNCHANGED control
  <2>1. DesiredRules(work.spec)' = DesiredRules(work.spec)
    BY <1>5 DEF control, DesiredRules
  <2> QED  BY <1>5, <2>1 DEF control
<1>6. CASE YawolletReconcile \/ CheckEnvoyVersion \/ YawolletRestarts
  BY <1>5, <1>6 DEF YawolletReconcile, CheckEnvoyVersion, YawolletRestarts
<1>7. CASE (\E t \in Type : EnvoyFetches(t)) \/ EnvoyRestarts \/ ChangeSpec \/ UNCHANGED vars
  BY <1>5, <1>7 DEF EnvoyFetches, EnvoyRestarts, ChangeSpec, vars
<1> QED  BY <1>1, <1>2, <1>3, <1>4, <1>6, <1>7 DEF Next, reconcileSecGroup

-----------------------------------------------------------------------------
IsSnapshot(s) == s = [version |-> s.version, resources |-> s.resources] /\ s.version \in Nat \ {0}

IsEnvoy(e) ==
    /\ e = [t \in Type |-> e[t]]
    /\ \A t \in Type : e[t] = [version |-> e[t].version, content |-> e[t].content]
    /\ \A t \in Type : e[t].version \in Nat

\* As long as the yawollet runs, a version stands for one configuration: envoy has
\* no version that is newer than the snapshot, and the configuration of the
\* snapshot where it has its version.
VersionsAreTrue ==
    /\ IsSnapshot(snapshot) /\ IsEnvoy(envoy)
    /\ restarted \in BOOLEAN
    /\ conditions = [c \in {"ConfigReady", "EnvoyUpToDate"} |-> conditions[c]]
    /\ ~restarted => \A t \in Type : /\ envoy[t].version <= snapshot.version
                                     /\ envoy[t].version = snapshot.version
                                          => envoy[t].content = snapshot.resources[t]

\* VersionsAreTrue holds in the initial states.
LEMMA VersionsInit == Init => VersionsAreTrue
<1> SUFFICES ASSUME Init PROVE VersionsAreTrue
  OBVIOUS
<1>1. IsSnapshot(snapshot) /\ snapshot.version = 1
  BY DEF Init, IsSnapshot, FirstSnapshot
<1>2. IsEnvoy(envoy) /\ \A t \in Type : envoy[t].version = 0
  BY DEF Init, IsEnvoy, NewEnvoy
<1>3. /\ restarted \in BOOLEAN
      /\ conditions = [c \in {"ConfigReady", "EnvoyUpToDate"} |-> conditions[c]]
  BY DEF Init
<1> QED  BY <1>1, <1>2, <1>3 DEF VersionsAreTrue

\* A new snapshot is the old one or has a version that no envoy has yet.
LEMMA SnapshotStep ==
    ASSUME NEW old, IsSnapshot(old), NEW s
    PROVE  LET new == CreateEnvoyConfig(old, s)
           IN  IsSnapshot(new) /\ (new = old \/ new.version = old.version + 1)
BY DEF CreateEnvoyConfig, IsSnapshot

\* Every step preserves VersionsAreTrue.
LEMMA VersionsStep == VersionsAreTrue /\ [Next]_vars => VersionsAreTrue'
<1> SUFFICES ASSUME VersionsAreTrue, [Next]_vars
             PROVE  VersionsAreTrue'
  OBVIOUS
<1> USE DEF VersionsAreTrue
<1>1. CASE YawolletReconcile
  <2>1. CASE snapshot' = CreateEnvoyConfig(snapshot, spec)
    <3>1. /\ IsSnapshot(snapshot')
          /\ snapshot' = snapshot \/ snapshot'.version = snapshot.version + 1
      BY <2>1, SnapshotStep
    <3>2. /\ UNCHANGED <<envoy, restarted>>
          /\ conditions' = [c \in {"ConfigReady", "EnvoyUpToDate"} |-> conditions'[c]]
      BY <1>1 DEF YawolletReconcile
    <3> QED  BY <3>1, <3>2 DEF IsSnapshot, IsEnvoy
  <2>2. CASE UNCHANGED snapshot
    BY <1>1, <2>2 DEF YawolletReconcile
  <2> QED  BY <1>1, <2>1, <2>2 DEF YawolletReconcile
<1>2. CASE CheckEnvoyVersion
  BY <1>2 DEF CheckEnvoyVersion
<1>3. CASE YawolletRestarts
  BY <1>3 DEF YawolletRestarts, FirstSnapshot, IsSnapshot
<1>4. ASSUME NEW t \in Type, EnvoyFetches(t)
      PROVE  VersionsAreTrue'
  BY <1>4 DEF EnvoyFetches, IsSnapshot, IsEnvoy
<1>5. CASE EnvoyRestarts
  BY <1>5 DEF EnvoyRestarts, NewEnvoy, IsSnapshot, IsEnvoy, Type
<1>6. CASE UNCHANGED machine
  BY <1>6 DEF machine
<1>7. CASE reconcileSecGroup \/ ChangeSpec \/ LoseRule \/ UNCHANGED vars
  BY <1>6, <1>7 DEF reconcileSecGroup, FetchSecGroup, DeleteUnusedSecGroupRulesFromSecGroup,
                    CreateNonExistingSecGroupRules, ChangeSpec, LoseRule, vars
<1> QED  BY <1>1, <1>2, <1>3, <1>4, <1>5, <1>7 DEF Next

\* Whenever the yawollet has checked and reports EnvoyUpToDate, envoy runs the
\* clusters and the listeners of the snapshot: the version goes up with every change, so that equal
\* versions mean equal configurations until the yawollet is restarted.
THEOREM ReportedEnvoyIsUpToDate == Spec => UpToDateIsTrue
<1>1. Spec => []VersionsAreTrue
  BY VersionsInit, VersionsStep, PTL DEF Spec
<1>2. VersionsAreTrue /\ [Next]_vars
        => [(checking /\ ~checking') \/ ~conditions["EnvoyUpToDate"]
              => (conditions'["EnvoyUpToDate"] /\ ~restarted'
                    => \A t \in Type : envoy[t].content = snapshot.resources[t])]_vars
  <2> SUFFICES ASSUME VersionsAreTrue, Next,
                      (checking /\ ~checking') \/ ~conditions["EnvoyUpToDate"],
                      conditions'["EnvoyUpToDate"], ~restarted'
               PROVE  \A t \in Type : envoy[t].content = snapshot.resources[t]
    BY DEF vars, machine
  <2>1. CASE CheckEnvoyVersion
    BY <2>1 DEF CheckEnvoyVersion, SameVersion, VersionsAreTrue
  <2>2. CASE YawolletReconcile
    BY <2>2 DEF YawolletReconcile, VersionsAreTrue
  <2>3. CASE UNCHANGED <<checking, conditions>>
    BY <2>3
  <2>4. CASE (\E t \in Type : EnvoyFetches(t)) \/ EnvoyRestarts
             \/ reconcileSecGroup \/ ChangeSpec \/ LoseRule
    BY <2>3, <2>4 DEF EnvoyFetches, EnvoyRestarts, reconcileSecGroup,
         FetchSecGroup, DeleteUnusedSecGroupRulesFromSecGroup, CreateNonExistingSecGroupRules,
         ChangeSpec, LoseRule, machine
  <2>5. CASE YawolletRestarts
    BY <2>5 DEF YawolletRestarts
  <2> QED  BY <2>1, <2>2, <2>4, <2>5 DEF Next
<1> QED  BY <1>1, <1>2, PTL DEF Spec, UpToDateIsTrue

-----------------------------------------------------------------------------
(***************************************************************************)
(* The rules are records of type SecGroupRule.  The lists of them are put  *)
(* together by FlattenSeq, which goes through a sequence of sequences from *)
(* the first to the last: that there is such a function, and that it has   *)
(* sequences for values, is shown by looking at the first position where   *)
(* it fails.                                                               *)
(***************************************************************************)
\* A set of numbers that is not empty has a least one.
LEMMA LeastNumber ==
  ASSUME NEW T \in SUBSET Nat, T # {}
  PROVE  \E n \in T : \A k \in T : n <= k
<1>1. PICK b \in Nat : b \in T
  OBVIOUS
<1> DEFINE B == 1 .. b
           K == {n \in T : n <= b}
           C == {1 .. k : k \in K}
<1>2. IsFiniteSet(B)
  BY FS_Interval, b \in Int, 1 \in Int
<1>3. C \subseteq FiniteSubsetsOf(B)
  <2>1. \A k \in K : (1 .. k) \in SUBSET B
    OBVIOUS
  <2>2. C \subseteq SUBSET B
    BY <2>1
  <2> HIDE DEF B, C
  <2> QED BY <1>2, <2>2, FS_FiniteSubsetsOfFinite
<1>4. C # {}
  <2>1. b \in K
    BY <1>1
  <2> HIDE DEF K
  <2> QED BY <2>1
<1>5. \E x \in C : \A y \in C : ~(<<y, x>> \in StrictSubsetOrdering(B))
  <2>1. IsWellFoundedOn(StrictSubsetOrdering(B), FiniteSubsetsOf(B))
    BY FS_StrictSubsetOrderingWellFounded
  <2> HIDE DEF B, C
  <2> QED BY <1>3, <1>4, <2>1, WFMin
<1>6. PICK n \in T : n <= b /\ \A y \in C : ~(<<y, 1 .. n>> \in StrictSubsetOrdering(B))
  BY <1>5
<1>7. ASSUME NEW k \in T, k < n
      PROVE  FALSE
  <2>1. (1 .. k) \in C
    <3>1. k \in K
      BY <1>1, <1>6, <1>7
    <3> HIDE DEF K
    <3> QED BY <3>1
  <2>2. n \in 1 .. n /\ n \notin 1 .. k /\ (1 .. k) \subseteq (1 .. n) /\ (1 .. n) \subseteq B
    BY <1>1, <1>6, <1>7
  <2>3. <<1 .. k, 1 .. n>> \in StrictSubsetOrdering(B)
    BY <2>2 DEF StrictSubsetOrdering
  <2> QED BY <1>6, <2>1, <2>3
<1> QED BY <1>6, <1>7

\* f concatenates the first sequences of seqs, up to every position up to n.
Flattens(f, seqs, n) ==
    f = [i \in 1 .. n |-> IF i = 1 THEN seqs[i] ELSE f[i - 1] \o seqs[i]]

\* What concatenates sequences over S has sequences over S for values.
LEMMA FlattensToSeq ==
  ASSUME NEW S, NEW seqs \in Seq(Seq(S)), NEW n \in 1 .. Len(seqs), NEW f, Flattens(f, seqs, n)
  PROVE  \A i \in 1 .. n : f[i] \in Seq(S)
<1> DEFINE T == {i \in 1 .. n : f[i] \notin Seq(S)}
<1>1. SUFFICES ASSUME T # {} PROVE FALSE
  OBVIOUS
<1>2. PICK i \in T : \A k \in T : i <= k
  <2>1. T \in SUBSET Nat
    OBVIOUS
  <2> HIDE DEF T
  <2> QED BY <1>1, <2>1, LeastNumber
<1>3. \A k \in 1 .. n : seqs[k] \in Seq(S)
  BY ElementOfSeq
<1>4. i \in 1 .. n /\ f[i] \notin Seq(S)
  OBVIOUS
<1>5. f[i] = IF i = 1 THEN seqs[i] ELSE f[i - 1] \o seqs[i]
  BY <1>4 DEF Flattens
<1>6. CASE i = 1
  BY <1>3, <1>4, <1>5, <1>6
<1>7. CASE i # 1
  <2>1. i - 1 \in 1 .. n /\ ~(i <= i - 1)
    BY <1>4, <1>7
  <2>2. f[i - 1] \in Seq(S)
    BY <1>2, <2>1
  <2>3. f[i - 1] \o seqs[i] \in Seq(S)
    BY <1>3, <1>4, <2>2, ConcatProperties
  <2> QED BY <1>4, <1>5, <1>7, <2>3
<1> QED BY <1>6, <1>7

\* Sequences of sequences can be concatenated.
LEMMA FlattensExists ==
  ASSUME NEW S, NEW seqs \in Seq(Seq(S)), NEW n \in 1 .. Len(seqs)
  PROVE  \E f : Flattens(f, seqs, n)
<1> DEFINE T == {i \in 1 .. n : ~\E f : Flattens(f, seqs, i)}
<1>1. SUFFICES ASSUME T # {} PROVE FALSE
  <2>1. n \in 1 .. n
    OBVIOUS
  <2> QED BY <1>1, <2>1
<1>2. PICK i \in T : \A k \in T : i <= k
  <2>1. T \in SUBSET Nat
    OBVIOUS
  <2> HIDE DEF T
  <2> QED BY <1>1, <2>1, LeastNumber
<1>3. i \in 1 .. n /\ ~\E f : Flattens(f, seqs, i)
  OBVIOUS
<1>4. CASE i = 1
  <2> DEFINE g == [k \in 1 .. i |-> seqs[k]]
  <2>1. g = [k \in 1 .. i |-> IF k = 1 THEN seqs[k] ELSE g[k - 1] \o seqs[k]]
    BY <1>4
  <2>2. Flattens(g, seqs, i)
    BY <2>1 DEF Flattens
  <2> QED BY <1>3, <2>2
<1>5. CASE i # 1
  <2>1. i - 1 \in 1 .. n /\ ~(i <= i - 1)
    BY <1>3, <1>5
  <2>2. PICK f : Flattens(f, seqs, i - 1)
    BY <1>2, <2>1
  <2>3. f = [k \in 1 .. i - 1 |-> IF k = 1 THEN seqs[k] ELSE f[k - 1] \o seqs[k]]
    BY <2>2 DEF Flattens
  <2> DEFINE g == [k \in 1 .. i |-> IF k = i THEN f[i - 1] \o seqs[i] ELSE f[k]]
  <2>4. ASSUME NEW k \in 1 .. i
        PROVE  g[k] = IF k = 1 THEN seqs[k] ELSE g[k - 1] \o seqs[k]
    <3>1. CASE k = i
      <4>1. k - 1 \in 1 .. i /\ k - 1 # i /\ k # 1
        BY <1>3, <1>5, <3>1
      <4>2. g[k - 1] = f[i - 1] /\ g[k] = f[i - 1] \o seqs[i]
        BY <3>1, <4>1
      <4> HIDE DEF g
      <4> QED BY <3>1, <4>1, <4>2
    <3>2. CASE k = 1
      <4>1. k # i /\ k \in 1 .. i - 1
        BY <1>3, <1>5, <3>2
      <4>2. g[k] = f[k] /\ f[k] = seqs[k]
        BY <2>3, <3>2, <4>1
      <4> HIDE DEF g
      <4> QED BY <3>2, <4>2
    <3>3. CASE k # i /\ k # 1
      <4>1. k \in 1 .. i - 1 /\ k - 1 \in 1 .. i - 1 /\ k - 1 # i /\ k - 1 \in 1 .. i
        BY <1>3, <3>3
      <4>2. g[k] = f[k] /\ g[k - 1] = f[k - 1]
        BY <3>3, <4>1
      <4>3. f[k] = f[k - 1] \o seqs[k]
        BY <2>3, <3>3, <4>1
      <4> HIDE DEF g
      <4> QED BY <3>3, <4>2, <4>3
    <3> QED BY <3>1, <3>2, <3>3
  <2>5. g = [k \in 1 .. i |-> g[k]]
    OBVIOUS
  <2>6. g = [k \in 1 .. i |-> IF k = 1 THEN seqs[k] ELSE g[k - 1] \o seqs[k]]
    <3> HIDE DEF g
    <3> QED BY <2>4, <2>5
  <2>7. Flattens(g, seqs, i)
    <3> HIDE DEF g
    <3> QED BY <2>6 DEF Flattens
  <2> QED BY <1>3, <2>7
<1> QED BY <1>4, <1>5

\* FlattenSeq makes one sequence over S of a sequence of sequences over S.
LEMMA FlattenSeqType ==
  ASSUME NEW S, NEW seqs \in Seq(Seq(S))
  PROVE  FlattenSeq(seqs) \in Seq(S)
<1>1. Len(seqs) \in Nat
  OBVIOUS
<1>2. CASE Len(seqs) = 0
  <2>1. seqs = <<>>
    BY <1>2, EmptySeq
  <2>2. FlattenSeq(seqs) = seqs
    BY <1>2 DEF FlattenSeq
  <2> QED BY <2>1, <2>2, EmptySeq
<1>3. CASE Len(seqs) # 0
  <2> DEFINE n == Len(seqs)
             flatten == CHOOSE f : Flattens(f, seqs, n)
  <2>1. n \in 1 .. Len(seqs) /\ n \in 1 .. n
    BY <1>1, <1>3
  <2>2. Flattens(flatten, seqs, n)
    <3>1. \E f : Flattens(f, seqs, n)
      <4> HIDE DEF n
      <4> QED BY <2>1, FlattensExists
    <3> QED BY <3>1
  <2>3. FlattenSeq(seqs) = flatten[n]
    BY <1>3, Zenon DEF FlattenSeq, Flattens
  <2>4. \A i \in 1 .. n : flatten[i] \in Seq(S)
    <3> HIDE DEF n, flatten
    <3> QED BY <2>1, <2>2, FlattensToSeq
  <2> HIDE DEF n, flatten
  <2> QED BY <2>1, <2>3, <2>4
<1> QED BY <1>2, <1>3

\* The spec asks for what a rule opens, debugging included.
AsksFor(s, r) ==
    \/ /\ <<r.proto, r.num>> \in ToSet(s.ports)
       /\ \A src \in Covers[r.remote] : Allowed(s, src)
    \/ /\ s.debug /\ \A i \in DOMAIN s.ports : s.ports[i][2] # 22
       /\ <<r.proto, r.num>> = <<"TCP", 22>>

\* A rule that OpenStack stores as it is and that opens only what the spec asks for
WantedRule(s) ==
    {r \in SecGroupRule : Stored(r) = r /\ (r.remote \in DOMAIN Covers => AsksFor(s, r))}

\* The rules of BaseRules let no client in.
LEMMA BaseRulesWanted ==
  ASSUME NEW s
  PROVE  BaseRules \in Seq(WantedRule(s))
<1>1. ASSUME NEW v \in {4, 6}, NEW proto \in {"egress", "vrrp", "icmp", "ipv6-icmp"},
             NEW remote \in {"any", "group"}, v = 6 => proto # "icmp"
      PROVE  Rule(v, proto, 0, remote) \in WantedRule(s)
  <2> DEFINE r == Rule(v, proto, 0, remote)
  <2>1. r \in SecGroupRule
    BY DEF Rule, SecGroupRule
  <2>2. r.v = v /\ r.proto = proto /\ r.remote = remote
    BY DEF Rule
  <2>3. Stored(r) = r
    BY <1>1, <2>2 DEF Stored
  <2>4. remote \notin DOMAIN Covers
    BY DataPathAssumption
  <2> HIDE DEF r
  <2>5. r \in WantedRule(s)
    BY <2>1, <2>2, <2>3, <2>4 DEF WantedRule
  <2> QED BY <2>5 DEF r
<1>2. /\ Rule(4, "egress", 0, "any") \in WantedRule(s)
      /\ Rule(6, "egress", 0, "any") \in WantedRule(s)
  BY <1>1
<1>3. /\ Rule(4, "vrrp", 0, "group") \in WantedRule(s)
      /\ Rule(6, "vrrp", 0, "group") \in WantedRule(s)
  BY <1>1
<1>4. /\ Rule(4, "icmp", 0, "any") \in WantedRule(s)
      /\ Rule(6, "ipv6-icmp", 0, "any") \in WantedRule(s)
  BY <1>1
<1> QED BY <1>2, <1>3, <1>4 DEF BaseRules

\* A rule that lets clients in and is asked for is wanted.
LEMMA OpenRuleWanted ==
  ASSUME NEW s, NEW v \in {4, 6}, NEW proto \in {"TCP", "UDP"}, NEW num \in Nat,
         NEW remote \in DOMAIN Covers, AsksFor(s, Rule(v, proto, num, remote))
  PROVE  Rule(v, proto, num, remote) \in WantedRule(s)
<1> DEFINE r == Rule(v, proto, num, remote)
<1>1. r \in SecGroupRule
  BY DEF Rule, SecGroupRule
<1>2. r.proto = proto
  BY DEF Rule
<1>3. Stored(r) = r
  BY <1>2 DEF Stored
<1> HIDE DEF r
<1>4. AsksFor(s, r)
  BY DEF r
<1>5. r \in WantedRule(s)
  BY <1>1, <1>3, <1>4 DEF WantedRule
<1> QED BY <1>5 DEF r

\* getSecGroupRulesForDebugSettings returns rules only if debugging is on and the
\* port is free.
LEMMA DebugRulesWanted ==
  ASSUME NEW s
  PROVE  getSecGroupRulesForDebugSettings(s) \in Seq(WantedRule(s))
<1> DEFINE open == s.debug /\ \A i \in DOMAIN s.ports : s.ports[i][2] # 22
<1>1. CASE ~open
  BY <1>1 DEF getSecGroupRulesForDebugSettings
<1>2. CASE open
  <2>1. ASSUME NEW v \in {4, 6}, NEW remote \in DOMAIN Covers
        PROVE  Rule(v, "TCP", 22, remote) \in WantedRule(s)
    <3>1. AsksFor(s, Rule(v, "TCP", 22, remote))
      BY <1>2 DEF AsksFor, Rule
    <3> QED BY <3>1, OpenRuleWanted
  <2>2. Any4 \in DOMAIN Covers /\ Any6 \in DOMAIN Covers
    BY DataPathAssumption
  <2>3. Rule(4, "TCP", 22, Any4) \in WantedRule(s) /\ Rule(6, "TCP", 22, Any6) \in WantedRule(s)
    BY <2>1, <2>2
  <2> QED BY <1>2, <2>3 DEF getSecGroupRulesForDebugSettings
<1> QED BY <1>1, <1>2

\* The source ranges are those of the spec, or any if it has none.
LEMMA SourceRanges ==
  ASSUME NEW s \in Specs
  PROVE  LET ranges == GetLoadBalancerSourceRanges(s)
         IN  /\ ranges \in Seq(STRING \cup {Any4, Any6})
             /\ \A i \in DOMAIN ranges : ParseCIDR(ranges[i])
                  => \A src \in Covers[ranges[i]] : Allowed(s, src)
<1>1. s.ranges \in Seq(STRING \cup {Any4, Any6})
  BY SeqMonotonic, DataPathAssumption
<1>2. <<Any4, Any6>> \in Seq(STRING \cup {Any4, Any6})
  OBVIOUS
<1>3. CASE s.ranges = <<>>
  BY <1>2, <1>3 DEF GetLoadBalancerSourceRanges, Allowed
<1>4. CASE s.ranges # <<>>
  BY <1>1, <1>4 DEF GetLoadBalancerSourceRanges, Allowed
<1> QED BY <1>3, <1>4

\* RulesForPort returns rules for the valid source ranges only.
LEMMA PortRuleWanted ==
  ASSUME NEW s \in Specs, NEW p \in ToSet(s.ports), p \in {"TCP", "UDP"} \X Nat
  PROVE  RulesForPort(s, p) \in Seq(WantedRule(s))
<1> DEFINE ranges == GetLoadBalancerSourceRanges(s)
           rules == [i \in DOMAIN ranges |->
                       IF ParseCIDR(ranges[i]) THEN <<Rule(Family(ranges[i]), p[1], p[2], ranges[i])>>
                       ELSE <<>>]
<1>1. Len(ranges) \in Nat /\ DOMAIN ranges = 1 .. Len(ranges)
  BY SourceRanges
<1>2. ASSUME NEW i \in DOMAIN ranges, ParseCIDR(ranges[i])
      PROVE  Rule(Family(ranges[i]), p[1], p[2], ranges[i]) \in WantedRule(s)
  <2>1. PICK r : r = ranges[i]
    OBVIOUS
  <2>2. r \in DOMAIN Covers /\ \A src \in Covers[r] : Allowed(s, src)
    BY <1>2, <2>1, SourceRanges DEF ParseCIDR
  <2>3. Family(r) \in {4, 6}
    BY DEF Family
  <2>4. p[1] \in {"TCP", "UDP"} /\ p[2] \in Nat /\ p = <<p[1], p[2]>>
    OBVIOUS
  <2>5. PICK v \in {4, 6} : v = Family(r)
    BY <2>3
  <2>6. AsksFor(s, Rule(v, p[1], p[2], r))
    BY <2>2, <2>4 DEF AsksFor, Rule
  <2>7. Rule(v, p[1], p[2], r) \in WantedRule(s)
    BY <2>2, <2>4, <2>6, OpenRuleWanted
  <2> QED BY <2>1, <2>5, <2>7
<1>3. \A i \in DOMAIN ranges : rules[i] \in Seq(WantedRule(s))
  <2> HIDE DEF ranges
  <2>1. ASSUME NEW i \in DOMAIN ranges, ParseCIDR(ranges[i])
        PROVE  rules[i] \in Seq(WantedRule(s))
    <3>1. rules[i] = <<Rule(Family(ranges[i]), p[1], p[2], ranges[i])>>
      BY <2>1
    <3> HIDE DEF rules
    <3> QED BY <1>2, <2>1, <3>1
  <2>2. ASSUME NEW i \in DOMAIN ranges, ~ParseCIDR(ranges[i])
        PROVE  rules[i] \in Seq(WantedRule(s))
    BY <2>2
  <2> HIDE DEF rules
  <2> QED BY <2>1, <2>2
<1>4. rules \in Seq(Seq(WantedRule(s)))
  <2>1. rules = [i \in DOMAIN ranges |-> rules[i]]
    OBVIOUS
  <2> HIDE DEF ranges, rules
  <2> QED BY <1>1, <1>3, <2>1
<1>5. RulesForPort(s, p) = FlattenSeq(rules)
  BY DEF RulesForPort
<1> HIDE DEF rules
<1> QED BY <1>4, <1>5, FlattenSeqType

\* getSecGroupRulesForPorts returns what is asked for.
LEMMA PortRulesWanted ==
  ASSUME NEW s \in Specs
  PROVE  getSecGroupRulesForPorts(s) \in Seq(WantedRule(s))
<1> DEFINE rules == [i \in DOMAIN s.ports |-> RulesForPort(s, s.ports[i])]
<1>1. s.ports \in Seq({"TCP", "UDP"} \X Nat)
  BY DataPathAssumption
<1>2. rules \in Seq(Seq(WantedRule(s)))
  <2>1. Len(s.ports) \in Nat /\ DOMAIN s.ports = 1 .. Len(s.ports)
    BY <1>1
  <2>2. \A i \in DOMAIN s.ports : rules[i] \in Seq(WantedRule(s))
    <3>1. \A i \in DOMAIN s.ports : /\ s.ports[i] \in {"TCP", "UDP"} \X Nat
                                    /\ s.ports[i] \in ToSet(s.ports)
      BY <1>1 DEF ToSet
    <3> QED BY <3>1, PortRuleWanted
  <2>3. rules = [i \in DOMAIN s.ports |-> rules[i]]
    OBVIOUS
  <2> HIDE DEF rules
  <2> QED BY <2>1, <2>2, <2>3
<1>3. getSecGroupRulesForPorts(s) = FlattenSeq(rules)
  BY DEF getSecGroupRulesForPorts
<1> HIDE DEF rules
<1> QED BY <1>2, <1>3, FlattenSeqType

\* Every rule that is created for a spec is wanted.
LEMMA DesiredRulesWanted ==
  ASSUME NEW s \in Specs
  PROVE  DesiredRules(s) \subseteq WantedRule(s)
<1> DEFINE desired == GetDesiredSecGroupRulesForLoadBalancer[s]
<1>1. desired = BaseRules \o getSecGroupRulesForPorts(s) \o getSecGroupRulesForDebugSettings(s)
  BY DEF GetDesiredSecGroupRulesForLoadBalancer
<1>2. BaseRules \o getSecGroupRulesForPorts(s) \in Seq(WantedRule(s))
  BY BaseRulesWanted, PortRulesWanted, ConcatProperties
<1>3. desired \in Seq(WantedRule(s))
  BY <1>1, <1>2, DebugRulesWanted, ConcatProperties
<1> HIDE DEF desired
<1>4. \A i \in DOMAIN desired : desired[i] \in WantedRule(s)
  BY <1>3
<1> QED BY <1>4 DEF DesiredRules, ToSet, desired

\* A reconcile works with a spec that users choose from.
ControlTyped ==
    /\ spec \in Specs
    /\ pc \in {"idle", "delete", "create"}
    /\ group \subseteq SecGroupRule /\ work.rules \subseteq SecGroupRule
    /\ work.spec \in Specs \cup {Spec0}
    /\ work = [spec |-> work.spec, rules |-> work.rules]
    /\ pc # "idle" => work.spec \in Specs

\* Each change of the spec gives at most one version. The one beyond that stands
\* for the present spec, which gives no other.
MachineTyped ==
    /\ snapshot.version \in 1 .. 2 + changes
    /\ DOMAIN envoy = Type /\ \A t \in Type : envoy[t].version \in 0 .. 2 + changes
    /\ checking \in BOOLEAN /\ restarted \in BOOLEAN
    /\ conditions \in [{"ConfigReady", "EnvoyUpToDate"} -> BOOLEAN]
    /\ \/ snapshot.version <= 1 + changes
       \/ snapshot.version = 2 + changes /\ snapshot.resources = Resources(spec)

BoundsTyped == changes \in 0 .. MaxChanges /\ faults \in 0 .. MaxFaults

TypeInv == ControlTyped /\ MachineTyped /\ BoundsTyped

\* The initial states are typed.
LEMMA TypeInit == Init => TypeInv
<1> SUFFICES ASSUME Init PROVE TypeInv
  OBVIOUS
<1>1. ControlTyped
  <2>1. NewGroup \subseteq SecGroupRule
    BY DEF NewGroup, Rule, SecGroupRule
  <2> QED BY <2>1 DEF Init, ControlTyped, NoWork
<1>2. BoundsTyped
  BY DataPathAssumption DEF Init, BoundsTyped
<1>3. MachineTyped
  <2>1. snapshot.version = 1 /\ changes = 0
    BY DEF Init, FirstSnapshot
  <2>2. DOMAIN envoy = Type /\ \A t \in Type : envoy[t].version = 0
    BY DEF Init, NewEnvoy
  <2>3. conditions \in [{"ConfigReady", "EnvoyUpToDate"} -> BOOLEAN]
    BY DEF Init
  <2>4. checking \in BOOLEAN /\ restarted \in BOOLEAN
    BY DEF Init
  <2>5. 1 \in 1 .. 2 + changes /\ 0 \in 0 .. 2 + changes /\ 1 <= 1 + changes
    BY <2>1
  <2> QED BY <2>1, <2>2, <2>3, <2>4, <2>5 DEF MachineTyped
<1> QED BY <1>1, <1>2, <1>3 DEF TypeInv

\* The controller creates rules that are, as OpenStack stores them, desired.
LEMMA CreatedRules ==
  ASSUME ControlTyped, CreateNonExistingSecGroupRules
  PROVE  /\ group' \subseteq group \cup DesiredRules(work.spec)
         /\ work.spec \in Specs /\ DesiredRules(work.spec) \subseteq SecGroupRule
<1>1. work.spec \in Specs
  BY DEF ControlTyped, CreateNonExistingSecGroupRules
<1> DEFINE desired == GetDesiredSecGroupRulesForLoadBalancer[work.spec]
           Created(before) == {Stored(desired[j]) :
                                 j \in {k \in NonExisting(work.spec, work.rules) : k < before}}
<1>2. DesiredRules(work.spec) \subseteq WantedRule(work.spec)
  BY <1>1, DesiredRulesWanted
<1>3. \A i \in DOMAIN desired : desired[i] \in DesiredRules(work.spec)
  BY DEF DesiredRules, ToSet
<1>4. \A i \in DOMAIN desired : Stored(desired[i]) \in DesiredRules(work.spec)
  <2> HIDE DEF desired
  <2> QED BY <1>2, <1>3 DEF WantedRule
<1>5. NonExisting(work.spec, work.rules) \subseteq DOMAIN desired
  BY DEF NonExisting
<1>6. PICK end : group' = group \cup Created(end)
  BY DEF CreateNonExistingSecGroupRules
<1>7. Created(end) \subseteq DesiredRules(work.spec)
  <2> HIDE DEF desired
  <2> QED BY <1>4, <1>5
<1> HIDE DEF Created
<1> QED BY <1>1, <1>2, <1>6, <1>7 DEF WantedRule

\* Every step preserves the types of the spec, the group and the controller.
LEMMA ControlStep == ControlTyped /\ [Next]_vars => ControlTyped'
<1> SUFFICES ASSUME ControlTyped, [Next]_vars
             PROVE  ControlTyped'
  OBVIOUS
<1>1. CASE FetchSecGroup
  BY <1>1 DEF FetchSecGroup, ControlTyped
<1>2. CASE DeleteUnusedSecGroupRulesFromSecGroup
  <2>1. group' \subseteq group /\ pc = "delete" /\ spec' = spec
    BY <1>2 DEF DeleteUnusedSecGroupRulesFromSecGroup
  <2>2. \/ pc' = "create" /\ UNCHANGED work
        \/ pc' = "idle" /\ work' = NoWork
    BY <1>2 DEF DeleteUnusedSecGroupRulesFromSecGroup
  <2> QED BY <2>1, <2>2 DEF ControlTyped, NoWork
<1>3. CASE CreateNonExistingSecGroupRules
  <2>1. group' \subseteq SecGroupRule
    BY <1>3, CreatedRules DEF ControlTyped
  <2>2. pc' = "idle" /\ work' = NoWork /\ spec' = spec
    BY <1>3 DEF CreateNonExistingSecGroupRules
  <2> QED BY <2>1, <2>2 DEF ControlTyped, NoWork
<1>4. CASE LoseRule
  BY <1>4 DEF LoseRule, ControlTyped
<1>5. CASE ChangeSpec
  BY <1>5 DEF ChangeSpec, control, ControlTyped
<1>6. CASE UNCHANGED <<spec, control>>
  BY <1>6 DEF control, ControlTyped
<1>7. CASE \/ YawolletReconcile \/ CheckEnvoyVersion \/ YawolletRestarts
           \/ (\E t \in Type : EnvoyFetches(t)) \/ EnvoyRestarts \/ UNCHANGED vars
  BY <1>6, <1>7 DEF YawolletReconcile, CheckEnvoyVersion, YawolletRestarts, EnvoyFetches,
       EnvoyRestarts, vars
<1> QED BY <1>1, <1>2, <1>3, <1>4, <1>5, <1>7 DEF Next, reconcileSecGroup

\* Every step keeps the counters within their bounds.
LEMMA BoundsStep ==
  ASSUME BoundsTyped, [Next]_vars
  PROVE  BoundsTyped' /\ changes' \in Nat /\ changes <= changes'
<1>0. changes \in Nat /\ faults \in Nat /\ MaxChanges \in Nat /\ MaxFaults \in Nat
  BY DataPathAssumption DEF BoundsTyped
<1>1. CASE ChangeSpec
  BY <1>0, <1>1 DEF ChangeSpec, BoundsTyped
<1>2. CASE Fault /\ UNCHANGED changes
  BY <1>0, <1>2 DEF Fault, BoundsTyped
<1>3. CASE UNCHANGED bounds
  BY <1>0, <1>3 DEF bounds, BoundsTyped
<1>4. CASE DeleteUnusedSecGroupRulesFromSecGroup \/ CreateNonExistingSecGroupRules
  BY <1>0, <1>2, <1>3, <1>4 DEF DeleteUnusedSecGroupRulesFromSecGroup,
       CreateNonExistingSecGroupRules, bounds
<1>5. CASE YawolletRestarts \/ EnvoyRestarts \/ LoseRule
  BY <1>2, <1>5 DEF YawolletRestarts, EnvoyRestarts, LoseRule
<1>6. CASE \/ FetchSecGroup \/ YawolletReconcile \/ CheckEnvoyVersion
           \/ (\E t \in Type : EnvoyFetches(t)) \/ UNCHANGED vars
  BY <1>3, <1>6 DEF FetchSecGroup, YawolletReconcile, CheckEnvoyVersion, EnvoyFetches, vars
<1> QED BY <1>1, <1>4, <1>5, <1>6 DEF Next, reconcileSecGroup

\* Every step preserves the types of the yawollet and of envoy.
LEMMA MachineStep ==
  ASSUME MachineTyped, BoundsTyped, [Next]_vars
  PROVE  MachineTyped'
<1>0. changes \in Nat /\ changes' \in Nat /\ changes <= changes'
  BY BoundsStep DEF BoundsTyped
<1>1. CASE YawolletReconcile
  <2>1. CASE snapshot' = CreateEnvoyConfig(snapshot, spec)
    <3>1. UNCHANGED <<spec, changes, envoy, restarted>> /\ checking' \in BOOLEAN
      BY <1>1 DEF YawolletReconcile, bounds, MachineTyped
    <3>2. conditions' \in [{"ConfigReady", "EnvoyUpToDate"} -> BOOLEAN]
      BY <1>1 DEF YawolletReconcile, MachineTyped
    <3>3. CASE Resources(spec) = snapshot.resources
      <4>1. snapshot' = snapshot
        BY <2>1, <3>3 DEF CreateEnvoyConfig
      <4>2. Resources(spec)' = Resources(spec)
        BY <3>1
      <4> QED BY <3>1, <3>2, <4>1, <4>2 DEF MachineTyped
    <3>4. CASE Resources(spec) # snapshot.resources
      <4>1. snapshot' = [version |-> snapshot.version + 1, resources |-> Resources(spec)]
        BY <2>1, <3>4 DEF CreateEnvoyConfig
      <4>2. snapshot.version \in 1 .. 1 + changes
        BY <1>0, <3>4 DEF MachineTyped
      <4>3. snapshot'.resources = Resources(spec) /\ snapshot'.version = snapshot.version + 1
        BY <4>1
      <4>4. Resources(spec)' = Resources(spec)
        BY <3>1
      <4> QED BY <1>0, <3>1, <3>2, <4>2, <4>3, <4>4 DEF MachineTyped
    <3> QED BY <3>3, <3>4
  <2>2. CASE UNCHANGED <<snapshot, checking>>
    <3>1. UNCHANGED <<spec, changes, envoy, restarted>>
      BY <1>1 DEF YawolletReconcile, bounds
    <3>2. conditions' \in [{"ConfigReady", "EnvoyUpToDate"} -> BOOLEAN]
      BY <1>1 DEF YawolletReconcile, MachineTyped
    <3>3. Resources(spec)' = Resources(spec)
      BY <3>1
    <3> QED BY <2>2, <3>1, <3>2, <3>3 DEF MachineTyped
  <2> QED BY <1>1, <2>1, <2>2 DEF YawolletReconcile
<1>2. CASE CheckEnvoyVersion
  <2>1. UNCHANGED <<spec, changes, snapshot, envoy, restarted>> /\ checking' = FALSE
    BY <1>2 DEF CheckEnvoyVersion, bounds
  <2>2. SameVersion \in BOOLEAN
    BY DEF SameVersion
  <2>3. conditions' \in [{"ConfigReady", "EnvoyUpToDate"} -> BOOLEAN]
    BY <1>2, <2>2 DEF CheckEnvoyVersion, MachineTyped
  <2>4. Resources(spec)' = Resources(spec)
    BY <2>1
  <2> QED BY <2>1, <2>3, <2>4 DEF MachineTyped
<1>3. CASE YawolletRestarts
  <2>1. UNCHANGED <<changes, envoy, conditions>> /\ checking' = FALSE /\ restarted' = TRUE
    BY <1>3 DEF YawolletRestarts
  <2>2. snapshot'.version = 1
    BY <1>3 DEF YawolletRestarts, FirstSnapshot
  <2>3. 1 \in 1 .. 2 + changes /\ 1 <= 1 + changes
    BY <1>0
  <2>4. snapshot'.version \in 1 .. 2 + changes' /\ snapshot'.version <= 1 + changes'
    BY <2>1, <2>2, <2>3
  <2> QED BY <2>1, <2>4 DEF MachineTyped
<1>4. ASSUME NEW t \in Type, EnvoyFetches(t)
      PROVE  MachineTyped'
  <2>1. UNCHANGED <<spec, changes, snapshot, checking, conditions, restarted>>
    BY <1>4 DEF EnvoyFetches, bounds
  <2>2. DOMAIN envoy' = Type /\ \A u \in Type : envoy'[u].version \in 0 .. 2 + changes
    <3>1. envoy' = [envoy EXCEPT ![t] = [version |-> snapshot.version,
                                         content |-> snapshot.resources[t]]]
      BY <1>4 DEF EnvoyFetches
    <3> QED BY <1>0, <3>1 DEF MachineTyped
  <2>3. Resources(spec)' = Resources(spec)
    BY <2>1
  <2> QED BY <2>1, <2>2, <2>3 DEF MachineTyped
<1>5. CASE EnvoyRestarts
  <2>1. UNCHANGED <<spec, changes, snapshot, checking, conditions, restarted>>
    BY <1>5 DEF EnvoyRestarts
  <2>2. DOMAIN envoy' = Type /\ \A t \in Type : envoy'[t].version = 0
    BY <1>5 DEF EnvoyRestarts, NewEnvoy
  <2>3. Resources(spec)' = Resources(spec)
    BY <2>1
  <2> QED BY <1>0, <2>1, <2>2, <2>3 DEF MachineTyped
<1>6. CASE ChangeSpec
  <2>1. UNCHANGED machine /\ changes' = changes + 1
    BY <1>6 DEF ChangeSpec
  <2>2. snapshot'.version \in 1 .. 1 + changes'
    BY <1>0, <2>1 DEF MachineTyped, machine
  <2> QED BY <1>0, <2>1, <2>2 DEF MachineTyped, machine
<1>7. CASE UNCHANGED <<spec, machine, changes>>
  <2>1. Resources(spec)' = Resources(spec)
    BY <1>7
  <2> QED BY <1>7, <2>1 DEF MachineTyped, machine
<1>8. CASE reconcileSecGroup \/ LoseRule \/ UNCHANGED vars
  BY <1>7, <1>8 DEF reconcileSecGroup, FetchSecGroup, DeleteUnusedSecGroupRulesFromSecGroup,
       CreateNonExistingSecGroupRules, LoseRule, bounds, vars
<1> QED BY <1>1, <1>2, <1>3, <1>4, <1>5, <1>6, <1>8 DEF Next

\* Every step preserves TypeInv.
LEMMA TypeStep == TypeInv /\ [Next]_vars => TypeInv'
BY ControlStep, BoundsStep, MachineStep DEF TypeInv

\* Every rule is a rule, and versions grow no faster than the spec changes: the
\* yawollet gives a new version only to a configuration that is not the last one.
THEOREM TypeCorrect == Spec => []TypeOK
<1>1. TypeInv /\ [Next]_vars => TypeInv'
  BY TypeStep
<1>2. TypeInv => TypeOK
  BY DEF TypeInv, TypeOK, ControlTyped, MachineTyped, BoundsTyped
<1> QED BY TypeInit, <1>1, <1>2, PTL DEF Spec

-----------------------------------------------------------------------------
\* Rules are added by CreateNonExistingSecGroupRules only, and then there are no
\* others than desired ones, before and after.
LEMMA AddedRules ==
  ASSUME TypeInv, KnowsRules, [Next]_vars, group' \ group # {}
  PROVE  work.spec \in Specs /\ group \cup group' \subseteq DesiredRules(work.spec)
<1>1. group \subseteq DesiredRules(work.spec)
  BY RulesStep
<1>2. CreateNonExistingSecGroupRules
  <2>1. CASE UNCHANGED group
    BY <2>1
  <2>2. CASE FetchSecGroup \/ DeleteUnusedSecGroupRulesFromSecGroup \/ LoseRule
    BY <2>2 DEF FetchSecGroup, DeleteUnusedSecGroupRulesFromSecGroup, LoseRule
  <2>3. CASE \/ YawolletReconcile \/ CheckEnvoyVersion \/ YawolletRestarts
             \/ (\E t \in Type : EnvoyFetches(t)) \/ EnvoyRestarts \/ ChangeSpec \/ UNCHANGED vars
    BY <2>1, <2>3 DEF YawolletReconcile, CheckEnvoyVersion, YawolletRestarts, EnvoyFetches,
         EnvoyRestarts, ChangeSpec, vars, control
  <2> QED BY <2>2, <2>3 DEF Next, reconcileSecGroup
<1> QED BY <1>1, <1>2, CreatedRules DEF TypeInv

\* This holds in every step of a behaviour.
LEMMA AddedAlways ==
  Spec => [][group' \ group # {}
               => work.spec \in Specs /\ group \cup group' \subseteq DesiredRules(work.spec)]_vars
<1>1. Spec => []KnowsRules
  BY RulesInit, RulesStep, PTL DEF Spec
<1>2. Spec => []TypeInv
  BY TypeInit, TypeStep, PTL DEF Spec
<1>3. TypeInv /\ KnowsRules /\ [Next]_vars
        => [group' \ group # {}
              => work.spec \in Specs /\ group \cup group' \subseteq DesiredRules(work.spec)]_vars
  BY AddedRules
<1> QED BY <1>1, <1>2, <1>3, PTL DEF Spec

\* No rule is created while a rule that the spec does not want is there: the
\* deletion comes before the creation in one reconcile, works on the same list,
\* and ends the reconcile when a request fails. And what is created stays: OpenStack
\* stores the desired rules under the names that the controller gives them, the
\* ICMP rule for IPv6 included.
THEOREM DeletionComesBeforeCreation == Spec => NoOverlap
<1>1. (group' \ group # {}
         => work.spec \in Specs /\ group \cup group' \subseteq DesiredRules(work.spec))
        => (group' \ group # {} => group \cup group' \subseteq DesiredRules(work.spec))
  OBVIOUS
<1> QED BY <1>1, AddedAlways, PTL DEF NoOverlap

\* A security group with desired rules only is open for nothing else than the spec
\* asks for.
LEMMA DesiredRulesOpen ==
  ASSUME NEW s \in Specs, group' \subseteq DesiredRules(s)
  PROVE  OpenInGroup' \subseteq OpenAsked(s)
<1> SUFFICES ASSUME NEW p, NEW src \in V4 \cup V6, PassesGroup(p, src)'
             PROVE  <<p, src>> \in OpenAsked(s)
  BY DEF OpenInGroup
<1>1. PICK r \in group' : <<r.proto, r.num>> = p /\ r.remote \in DOMAIN Covers /\ src \in Covers[r.remote]
  BY DEF PassesGroup
<1>2. AsksFor(s, r)
  BY <1>1, DesiredRulesWanted DEF WantedRule
<1>3. CASE p \in ToSet(s.ports) /\ Allowed(s, src)
  BY <1>3 DEF OpenAsked
<1>4. CASE s.debug /\ (\A i \in DOMAIN s.ports : s.ports[i][2] # 22) /\ p = <<"TCP", 22>>
  <2>1. 22 \notin {q[2] : q \in ToSet(s.ports)}
    BY <1>4 DEF ToSet
  <2> QED BY <1>4, <2>1 DEF OpenAsked
<1> QED BY <1>1, <1>2, <1>3, <1>4 DEF AsksFor

\* Whenever rules have been created, no port is open, and for no client, that the
\* spec does not ask for: what the rules of an older spec or of an operator opened
\* has been closed before.
THEOREM NothingElseIsOpened ==
  Spec => [][group' \ group # {} => OpenInGroup' \subseteq OpenAsked(work.spec)]_vars
<1>1. (group' \ group # {}
         => work.spec \in Specs /\ group \cup group' \subseteq DesiredRules(work.spec))
        => (group' \ group # {} => OpenInGroup' \subseteq OpenAsked(work.spec))
  BY DesiredRulesOpen
<1> QED BY <1>1, AddedAlways, PTL

=============================================================================
