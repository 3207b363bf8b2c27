---------------------- MODULE LoadBalancerRollout_proofs ----------------------
(***************************************************************************)
(* For every number of hashes, machines, replicas and changes by the user, *)
(* however late the caches are, and as long as the user does not return to *)
(* an earlier spec: once a machine serves there is always one; the virtual *)
(* IP moves to the current set before its old set is scaled down, unless   *)
(* the current set never gets a master; and the machines at the end of a   *)
(* rollout are built from the spec of the LoadBalancer.  When the caches   *)
(* of the LoadBalancer controller have caught up with its own writes       *)
(* before it reconciles again, the current set and no other has the latest *)
(* revision.                                                               *)
(***************************************************************************)
EXTENDS LoadBalancerRollout, FiniteSetTheorems, TLAPS

-----------------------------------------------------------------------------
(***************************************************************************)
(* The types that the other invariants need; TypeCorrect at the end proves *)
(* the rest of TypeOK.                                                     *)
(***************************************************************************)
IsLB(o) ==
    /\ o = [want |-> o.want, replicas |-> o.replicas, rev |-> o.rev, status |-> o.status]
    /\ o.want \in Hash /\ o.replicas \in Replicas /\ o.rev \in Nat

TypeInv ==
    /\ IsLB(lb) /\ IsLB(lbSeen)
    /\ sets \in [Hash -> SetObject] /\ setsSeen \in [Hash -> SetObject]
    /\ known \in [Hash -> Replicas \cup {NotCached}]

(***************************************************************************)
(* A set named after the wanted hash was made from the wanted spec.        *)
(***************************************************************************)
SpecInv == sets[lb.want].exists => sets[lb.want].spec = lb.want

(***************************************************************************)
(* What the LoadBalancer controller knows when it may reconcile, which     *)
(* revisions there are, that the set of the wanted hash only exists once   *)
(* the controller has seen that hash, and that it then has the latest      *)
(* revision.                                                               *)
(***************************************************************************)
CachesCurrent ==
    /\ "lb" \notin dirty => lbSeen.rev = lb.rev
    /\ "sets" \notin dirty =>
          \A h \in Hash : setsSeen[h].exists = sets[h].exists /\ setsSeen[h].rev = sets[h].rev
RevisionsBounded == \A h \in Hash : sets[h].exists => sets[h].rev \in 1 .. lb.rev
WantedIsSeen == sets[lb.want].exists => lbSeen.want = lb.want
WantedIsLatest ==
    sets[lb.want].exists =>
        /\ sets[lb.want].rev = lb.rev
        /\ \A h \in Hash \ {lb.want} : sets[h].exists => sets[h].rev # lb.rev

RevisionInv == CachesCurrent /\ RevisionsBounded /\ WantedIsSeen /\ WantedIsLatest

-----------------------------------------------------------------------------
(***************************************************************************)
(* Sums over finite sets.  That the recursive function of the fold exists, *)
(* and that its values are numbers, is shown without an induction rule: in *)
(* the order of strict inclusion a set of finite sets has a minimal        *)
(* element, and a minimal counterexample is impossible.                    *)
(***************************************************************************)
\* Every set of natural numbers that has an element has a least one.
LEMMA LeastNumber ==
  ASSUME NEW T \in SUBSET Nat, T # {}
  PROVE  \E n \in T : \A k \in T : n <= k
<1>1. PICK b \in Nat : b \in T
  OBVIOUS
<1> DEFINE B == 1 .. b
           K == {n \in T : n <= b}
           C == {1 .. k : k \in K}
<1>2. IsFiniteSet(B)
  BY FS_Interval, b \in Int, 1 \in Int
<1>3. C \subseteq FiniteSubsetsOf(B)
  <2>1. \A k \in K : (1 .. k) \in SUBSET B
    OBVIOUS
  <2>2. C \subseteq SUBSET B
    BY <2>1
  <2> HIDE DEF B, C
  <2> QED BY <1>2, <2>2, FS_FiniteSubsetsOfFinite
<1>4. C # {}
  <2>1. b \in K
    BY <1>1
  <2> HIDE DEF K
  <2> QED BY <2>1
<1>5. \E x \in C : \A y \in C : ~(<<y, x>> \in StrictSubsetOrdering(B))
  <2>1. IsWellFoundedOn(StrictSubsetOrdering(B), FiniteSubsetsOf(B))
    BY FS_StrictSubsetOrderingWellFounded
  <2> HIDE DEF B, C
  <2> QED BY <1>3, <1>4, <2>1, WFMin
<1>6. PICK n \in T : n <= b /\ \A y \in C : ~(<<y, 1 .. n>> \in StrictSubsetOrdering(B))
  BY <1>5
<1>7. ASSUME NEW k \in T, k < n
      PROVE  FALSE
  <2>1. (1 .. k) \in C
    <3>1. k \in K
      BY <1>1, <1>6, <1>7
    <3> HIDE DEF K
    <3> QED BY <3>1
  <2>2. n \in 1 .. n /\ n \notin 1 .. k /\ (1 .. k) \subseteq (1 .. n) /\ (1 .. n) \subseteq B
    BY <1>1, <1>6, <1>7
  <2>3. <<1 .. k, 1 .. n>> \in StrictSubsetOrdering(B)
    BY <2>2 DEF StrictSubsetOrdering
  <2> QED BY <1>6, <2>1, <2>3
<1> QED BY <1>6, <1>7

Any(s) == CHOOSE x \in s : TRUE

\* g is the sum of F over the sets of D.
SumOn(D, F, g) ==
    g = [s \in D |-> IF s = {} THEN 0 ELSE F[Any(s)] + g[s \ {Any(s)}]]

\* The subsets of S with at most n elements
UpTo(S, n) == {s \in SUBSET S : Cardinality(s) <= n}

\* A sum over the sets with at most n elements extends to those with one more.
LEMMA SumExtends ==
  ASSUME NEW S, IsFiniteSet(S), NEW F, NEW n \in Nat, NEW g, SumOn(UpTo(S, n), F, g)
  PROVE  \E h : SumOn(UpTo(S, n + 1), F, h)
<1> DEFINE D == UpTo(S, n)
           E == UpTo(S, n + 1)
           h == [s \in E |-> IF s \in D THEN g[s] ELSE F[Any(s)] + g[s \ {Any(s)}]]
<1>1. ASSUME NEW s \in E
      PROVE  /\ s # {} => Any(s) \in s /\ s \ {Any(s)} \in D /\ s \ {Any(s)} \in E
             /\ s = {} => s \in D
  <2>1. IsFiniteSet(s) /\ Cardinality(s) \in Nat /\ s \in SUBSET S /\ Cardinality(s) <= n + 1
    BY FS_Subset, FS_CardinalityType DEF UpTo
  <2>2. CASE s = {}
    BY <2>2, FS_EmptySet DEF UpTo
  <2>3. CASE s # {}
    <3>1. Any(s) \in s
      BY <2>3 DEF Any
    <3>2. Cardinality(s \ {Any(s)}) = Cardinality(s) - 1
      BY <2>1, <3>1, FS_RemoveElement
    <3> QED BY <2>1, <2>3, <3>1, <3>2 DEF UpTo
  <2> QED BY <2>2, <2>3
<1>2. D \subseteq E
  <2>1. \A s \in SUBSET S : Cardinality(s) \in Nat
    BY FS_Subset, FS_CardinalityType
  <2> QED BY <2>1 DEF UpTo
<1>3. \A s \in D : h[s] = g[s]
  BY <1>2
<1>4. \A s \in D : g[s] = IF s = {} THEN 0 ELSE F[Any(s)] + g[s \ {Any(s)}]
  BY DEF SumOn
<1>5. ASSUME NEW s \in E
      PROVE  h[s] = IF s = {} THEN 0 ELSE F[Any(s)] + h[s \ {Any(s)}]
  <2>1. h[s] = IF s \in D THEN g[s] ELSE F[Any(s)] + g[s \ {Any(s)}]
    OBVIOUS
  <2> HIDE DEF D, E, h
  <2>2. CASE s = {}
    BY <1>1, <1>4, <1>5, <2>1, <2>2
  <2>3. CASE s # {}
    BY <1>1, <1>3, <1>4, <1>5, <2>1, <2>3
  <2> QED BY <2>2, <2>3
<1>6. h = [s \in E |-> h[s]]
  OBVIOUS
<1>7. h = [s \in E |-> IF s = {} THEN 0 ELSE F[Any(s)] + h[s \ {Any(s)}]]
  <2> HIDE DEF h, E
  <2> QED BY <1>5, <1>6
<1> HIDE DEF h
<1> QED BY <1>7 DEF SumOn

\* So the sum over the subsets of a finite set is defined.
LEMMA SumExists ==
  ASSUME NEW S, IsFiniteSet(S), NEW F
  PROVE  \E g : SumOn(SUBSET S, F, g)
<1> DEFINE T == {n \in Nat : ~\E g : SumOn(UpTo(S, n), F, g)}
<1>1. T = {}
  <2> SUFFICES ASSUME T # {} PROVE FALSE
    OBVIOUS
  <2>1. PICK n \in T : \A k \in T : n <= k
    <3>1. T \in SUBSET Nat
      OBVIOUS
    <3> HIDE DEF T
    <3> QED BY <3>1, LeastNumber
  <2>2. n # 0
    <3>1. UpTo(S, 0) = {{}}
      <4>1. ASSUME NEW s \in SUBSET S
            PROVE  Cardinality(s) <= 0 <=> s = {}
        <5>1. IsFiniteSet(s) /\ Cardinality(s) \in Nat
          BY FS_Subset, FS_CardinalityType
        <5>2. Cardinality(s) = 0 <=> s = {}
          BY <5>1, FS_EmptySet
        <5> QED BY <5>1, <5>2
      <4> QED BY <4>1 DEF UpTo
    <3>2. PICK g : g = [s \in {{}} |-> 0]
      OBVIOUS
    <3>3. g = [s \in {{}} |-> IF s = {} THEN 0 ELSE F[Any(s)] + g[s \ {Any(s)}]]
      BY <3>2
    <3> QED BY <3>1, <3>3 DEF SumOn
  <2>3. n - 1 \in Nat /\ n = (n - 1) + 1 /\ n - 1 \notin T
    BY <2>1, <2>2
  <2>4. PICK g : SumOn(UpTo(S, n - 1), F, g)
    BY <2>3
  <2>5. \E h : SumOn(UpTo(S, (n - 1) + 1), F, h)
    BY <2>3, <2>4, SumExtends
  <2> QED BY <2>3, <2>5
<1>2. Cardinality(S) \in Nat
  BY FS_CardinalityType
<1>3. UpTo(S, Cardinality(S)) = SUBSET S
  <2>1. \A s \in SUBSET S : Cardinality(s) <= Cardinality(S)
    BY FS_Subset
  <2> QED BY <2>1 DEF UpTo
<1>4. PICK g : SumOn(UpTo(S, Cardinality(S)), F, g)
  BY <1>1, <1>2
<1> QED BY <1>3, <1>4

\* And it is a number if F is.
LEMMA SumIsNatural ==
  ASSUME NEW S, IsFiniteSet(S), NEW F, \A x \in S : F[x] \in Nat,
         NEW g, SumOn(SUBSET S, F, g)
  PROVE  g[S] \in Nat
<1> DEFINE T == {s \in SUBSET S : g[s] \notin Nat}
<1>1. T = {}
  <2> SUFFICES ASSUME T # {} PROVE FALSE
    OBVIOUS
  <2>1. T \subseteq FiniteSubsetsOf(S) /\ IsWellFoundedOn(StrictSubsetOrdering(S), FiniteSubsetsOf(S))
    BY FS_FiniteSubsetsOfFinite, FS_StrictSubsetOrderingWellFounded
  <2>2. PICK s \in T : \A y \in T : ~(<<y, s>> \in StrictSubsetOrdering(S))
    <3> HIDE DEF T
    <3> QED BY <2>1, WFMin
  <2>3. g[s] = IF s = {} THEN 0 ELSE F[Any(s)] + g[s \ {Any(s)}]
    BY DEF SumOn
  <2>4. s # {} /\ Any(s) \in s
    BY <2>2, <2>3 DEF Any
  <2>5. <<s \ {Any(s)}, s>> \in StrictSubsetOrdering(S)
    BY <2>4 DEF StrictSubsetOrdering
  <2>6. g[s \ {Any(s)}] \in Nat /\ F[Any(s)] \in Nat
    BY <2>2, <2>4, <2>5
  <2> QED BY <2>2, <2>3, <2>4, <2>6
<1> QED BY <1>1

-----------------------------------------------------------------------------
(***************************************************************************)
(* Most steps leave alone which sets exist, from which spec and with which *)
(* revision, and which spec and revision the LoadBalancer has.             *)
(***************************************************************************)
Same(s, t) == s.exists = t.exists /\ s.rev = t.rev /\ s.spec = t.spec

SameRollout ==
    /\ lb'.want = lb.want /\ lb'.rev = lb.rev
    /\ \A h \in Hash : Same(sets'[h], sets[h]) /\ Same(setsSeen'[h], setsSeen[h])
    /\ lbSeen' = lbSeen
    /\ dirty \subseteq dirty'

\* Replacing one field of a LoadBalancer gives a LoadBalancer.
LEMMA LBRevision ==
  ASSUME NEW o, IsLB(o), NEW r \in Nat
  PROVE  /\ IsLB([o EXCEPT !.rev = r])
         /\ [o EXCEPT !.rev = r].rev = r /\ [o EXCEPT !.rev = r].want = o.want
         /\ [o EXCEPT !.rev = r].replicas = o.replicas /\ [o EXCEPT !.rev = r].status = o.status
<1>1. [o EXCEPT !.rev = r]
      = [want |-> o.want, replicas |-> o.replicas, rev |-> r, status |-> o.status]
  BY DEF IsLB
<1> QED BY <1>1 DEF IsLB

\* See LBRevision.
LEMMA LBWant ==
  ASSUME NEW o, IsLB(o), NEW h \in Hash
  PROVE  /\ IsLB([o EXCEPT !.want = h])
         /\ [o EXCEPT !.want = h].rev = o.rev /\ [o EXCEPT !.want = h].want = h
         /\ [o EXCEPT !.want = h].replicas = o.replicas /\ [o EXCEPT !.want = h].status = o.status
<1>1. [o EXCEPT !.want = h]
      = [want |-> h, replicas |-> o.replicas, rev |-> o.rev, status |-> o.status]
  BY DEF IsLB
<1> QED BY <1>1 DEF IsLB

\* See LBRevision.
LEMMA LBReplicas ==
  ASSUME NEW o, IsLB(o), NEW n \in Replicas
  PROVE  /\ IsLB([o EXCEPT !.replicas = n])
         /\ [o EXCEPT !.replicas = n].rev = o.rev /\ [o EXCEPT !.replicas = n].want = o.want
         /\ [o EXCEPT !.replicas = n].replicas = n /\ [o EXCEPT !.replicas = n].status = o.status
<1>1. [o EXCEPT !.replicas = n]
      = [want |-> o.want, replicas |-> n, rev |-> o.rev, status |-> o.status]
  BY DEF IsLB
<1> QED BY <1>1 DEF IsLB

\* See LBRevision.
LEMMA LBStatus ==
  ASSUME NEW o, IsLB(o), NEW s
  PROVE  /\ IsLB([o EXCEPT !.status = s])
         /\ [o EXCEPT !.status = s].rev = o.rev /\ [o EXCEPT !.status = s].want = o.want
         /\ [o EXCEPT !.status = s].replicas = o.replicas /\ [o EXCEPT !.status = s].status = s
<1>1. [o EXCEPT !.status = s]
      = [want |-> o.want, replicas |-> o.replicas, rev |-> o.rev, status |-> s]
  BY DEF IsLB
<1> QED BY <1>1 DEF IsLB

\* Scaling a set keeps its name, spec and revision.
LEMMA ScaledSet ==
  ASSUME NEW s \in SetObject, NEW n \in Replicas
  PROVE  [s EXCEPT !.replicas = n] \in SetObject /\ Same([s EXCEPT !.replicas = n], s)
BY DEF SetObject, Same

\* So does the passing of the threshold for its condition.
LEMMA AgedSet ==
  ASSUME NEW s \in SetObject, NEW b \in BOOLEAN
  PROVE  [s EXCEPT !.aged = b] \in SetObject /\ Same([s EXCEPT !.aged = b], s)
BY DEF SetObject, Same

\* A new set is a set with the revision and the spec it was made for.
LEMMA NewSet ==
  ASSUME TypeInv, NEW rev \in Nat
  PROVE  /\ NewLoadBalancerSetForLoadBalancer(rev) \in SetObject
         /\ NewLoadBalancerSetForLoadBalancer(rev).exists
         /\ NewLoadBalancerSetForLoadBalancer(rev).rev = rev
         /\ NewLoadBalancerSetForLoadBalancer(rev).spec = lb.want
<1>1. lb.want \in Hash /\ lb.replicas \in Replicas
  BY DEF TypeInv, IsLB
<1>2. 0 \in Replicas
  BY RolloutAssumption DEF Replicas
<1>3. NoSet \in SetObject
  BY <1>2 DEF NoSet, SetObject
<1> QED BY <1>1, <1>3 DEF SetObject, NewLoadBalancerSetForLoadBalancer

\* The controller of the sets only writes the status of a set.
LEMMA SetStatusType ==
  ASSUME TypeInv, NEW h \in Hash, known[h] # NotCached
  PROVE  SetStatus(h) \in SetObject /\ Same(SetStatus(h), sets[h])
<1> DEFINE master == IF hasKeepalivedMaster(MachinesOf(h)) THEN "True" ELSE "False"
           ready == readyMachineCount(MachinesOf(h))
           aged == sets[h].aged /\ sets[h].hasMaster = master
<1>1. sets[h] \in SetObject /\ known[h] \in Replicas
  BY DEF TypeInv
<1>2. ready \in Nat
  <2>1. ReadyLive(MachinesOf(h)) \subseteq Machine
    BY DEF ReadyLive, Live
  <2> QED BY <2>1, RolloutAssumption, FS_Subset, FS_CardinalityType DEF readyMachineCount
<1>3. master \in {"True", "False"} /\ aged \in BOOLEAN
  BY Zenon
<1>4. SetStatus(h) = [sets[h] EXCEPT !.statusReplicas = known[h], !.ready = ready,
                                     !.hasMaster = master, !.aged = aged]
  BY DEF SetStatus
<1> HIDE DEF master, ready, aged
<1> QED BY <1>1, <1>2, <1>3, <1>4 DEF SetObject, Same

\* The revision of a new set is higher than that of every set in the cache.
LEMMA NextRevisionType ==
  ASSUME TypeInv, NEW rev \in NextRevisions
  PROVE  rev \in Nat /\ rev >= 1 /\ \A h \in SeenSets : setsSeen[h].rev < rev
<1>1. \A h \in Hash : setsSeen[h].rev \in Nat
  BY DEF TypeInv, SetObject
<1> QED BY <1>1 DEF NextRevisions, SeenSets

\* The patches of the replicas that one reconcile of the LoadBalancer sends.
LEMMA UpdateSetsEffect ==
  ASSUME TypeInv, NEW S, UpdateSets(S)
  PROVE  TypeInv' /\ SameRollout
<1> USE DEF TypeInv
<1>1. IsLB(lb') /\ lb'.rev = lb.rev /\ lb'.want = lb.want
  <2>1. PICK s : s = PatchedStatus(lbSeen.status)
    OBVIOUS
  <2>2. lb' = [lb EXCEPT !.status = s]
    BY <2>1 DEF UpdateSets
  <2> QED BY <2>2, LBStatus
<1>2. ASSUME NEW h \in Hash
      PROVE  sets'[h] \in SetObject /\ Same(sets'[h], sets[h])
  <2>1. 0 \in Replicas /\ lb.replicas \in Replicas
    BY RolloutAssumption DEF Replicas, IsLB
  <2>2. \/ sets'[h] = [sets[h] EXCEPT !.replicas = 0]
        \/ sets'[h] = [sets[h] EXCEPT !.replicas = lb.replicas]
        \/ sets'[h] = sets[h]
    BY DEF UpdateSets, SetReplicas
  <2>3. sets[h] \in SetObject /\ Same(sets[h], sets[h])
    BY DEF Same
  <2>4. ASSUME NEW n \in Replicas, sets'[h] = [sets[h] EXCEPT !.replicas = n]
        PROVE  sets'[h] \in SetObject /\ Same(sets'[h], sets[h])
    BY <2>3, <2>4, ScaledSet
  <2> QED BY <2>1, <2>2, <2>3, <2>4
<1>3. sets' \in [Hash -> SetObject]
  <2>1. sets' = [h \in Hash |-> sets'[h]]
    BY DEF UpdateSets, SetReplicas
  <2> QED BY <2>1, <1>2
<1>4. dirty \subseteq dirty'
  BY DEF UpdateSets, Written
<1>5. lbSeen' = lbSeen /\ setsSeen' = setsSeen /\ known' = known
  BY DEF UpdateSets
<1>6. IsLB(lbSeen)'
  BY <1>5 DEF IsLB
<1>7. IsLB(lb)'
  BY <1>1 DEF IsLB
<1> QED BY <1>1, <1>2, <1>3, <1>4, <1>5, <1>6, <1>7 DEF SameRollout, Same

\* What a reconcile of the set h changes.
LEMMA ReconcileSetEffect ==
  ASSUME TypeInv, NEW h \in Hash, ReconcileSet(h)
  PROVE  TypeInv' /\ SameRollout
<1> USE DEF TypeInv
<1>1. PICK s : s = SetStatus(h)
  OBVIOUS
<1>2. s \in SetObject /\ Same(s, sets[h])
  BY <1>1, SetStatusType DEF ReconcileSet
<1>3. sets' = [sets EXCEPT ![h] = s]
  BY <1>1 DEF ReconcileSet
<1>4. sets' \in [Hash -> SetObject] /\ \A g \in Hash : Same(sets'[g], sets[g])
  BY <1>2, <1>3 DEF Same
<1>5. UNCHANGED <<lb, lbSeen, setsSeen, dirty, known>>
  BY DEF ReconcileSet, caches
<1> QED BY <1>4, <1>5 DEF SameRollout, Same, IsLB

\* What the passing of time changes.
LEMMA AgeEffect ==
  ASSUME TypeInv, NEW h \in Hash, Age(h) \/ AgeCached(h)
  PROVE  TypeInv' /\ SameRollout
<1> USE DEF TypeInv
<1>1. UNCHANGED <<lb, lbSeen, dirty, known>>
  BY DEF Age, AgeCached
<1>2. \A b \in BOOLEAN :
         /\ [sets[h] EXCEPT !.aged = b] \in SetObject
         /\ Same([sets[h] EXCEPT !.aged = b], sets[h])
         /\ [setsSeen[h] EXCEPT !.aged = b] \in SetObject
         /\ Same([setsSeen[h] EXCEPT !.aged = b], setsSeen[h])
  BY AgedSet
<1>3. setsSeen[h].exists \in BOOLEAN
  BY DEF SetObject
<1>4. sets' \in [Hash -> SetObject] /\ \A g \in Hash : Same(sets'[g], sets[g])
  <2>1. CASE sets' = [sets EXCEPT ![h] = [sets[h] EXCEPT !.aged = TRUE]]
    BY <2>1, <1>2 DEF Same
  <2>2. CASE sets' = sets
    BY <2>2 DEF Same
  <2> QED BY <2>1, <2>2 DEF Age, AgeCached
<1>5. setsSeen' \in [Hash -> SetObject] /\ \A g \in Hash : Same(setsSeen'[g], setsSeen[g])
  <2>1. PICK b \in BOOLEAN : setsSeen' = [setsSeen EXCEPT ![h] = [setsSeen[h] EXCEPT !.aged = b]]
    BY <1>3 DEF Age, AgeCached
  <2>2. PICK s \in SetObject : s = [setsSeen[h] EXCEPT !.aged = b] /\ Same(s, setsSeen[h])
    BY <1>2
  <2>3. setsSeen' = [setsSeen EXCEPT ![h] = s]
    BY <2>1, <2>2
  <2> QED BY <2>2, <2>3 DEF Same
<1> QED BY <1>1, <1>4, <1>5 DEF SameRollout, IsLB

\* The steps that leave the rollout where it is.
LEMMA OtherEffect ==
  ASSUME TypeInv,
         \/ \E h \in Hash : RefreshSet(h)
         \/ \E m \in Machine : Report(m) \/ Elect(m) \/ MachineGone(m)
         \/ \E n \in Replicas \ {0} : ChangeReplicas(n)
         \/ UNCHANGED vars
  PROVE  TypeInv' /\ SameRollout
<1> USE DEF TypeInv
<1>1. CASE \E h \in Hash : RefreshSet(h)
  <2>1. PICK h \in Hash : RefreshSet(h)
    BY <1>1
  <2>2. sets[h].replicas \in Replicas
    BY DEF SetObject
  <2>3. known' \in [Hash -> Replicas \cup {NotCached}]
    BY <2>1, <2>2 DEF RefreshSet
  <2>4. UNCHANGED <<lb, sets, lbSeen, setsSeen, dirty>>
    BY <2>1 DEF RefreshSet, caches
  <2> QED BY <2>3, <2>4 DEF SameRollout, Same, IsLB
<1>2. CASE UNCHANGED vars \/ \E m \in Machine : Report(m) \/ Elect(m) \/ MachineGone(m)
  <2>1. UNCHANGED <<lb, sets, lbSeen, setsSeen, dirty, known>>
    BY <1>2 DEF Report, Elect, MachineGone, caches, vars
  <2> QED BY <2>1 DEF SameRollout, Same, IsLB
<1>3. CASE \E n \in Replicas \ {0} : ChangeReplicas(n)
  <2>1. PICK n \in Replicas : lb' = [lb EXCEPT !.replicas = n]
    BY <1>3 DEF ChangeReplicas
  <2>2. UNCHANGED <<sets, lbSeen, setsSeen, dirty, known>>
    BY <1>3 DEF ChangeReplicas, caches
  <2>3. IsLB(lb)' /\ lb'.want = lb.want /\ lb'.rev = lb.rev
    BY <2>1, LBReplicas DEF IsLB
  <2> QED BY <2>2, <2>3 DEF SameRollout, Same, IsLB
<1> QED BY <1>1, <1>2, <1>3

\* A LoadBalancer without a revision gets the first one.
LEMMA InitRevisionEffect ==
  ASSUME TypeInv, InitRevision
  PROVE  /\ TypeInv'
         /\ LBReconciles /\ lbSeen.rev = 0
         /\ lb'.want = lb.want /\ lb'.rev = 1
         /\ UNCHANGED <<sets, lbSeen, setsSeen>>
         /\ dirty \subseteq dirty' /\ (lb' # lb => "lb" \in dirty')
<1> USE DEF TypeInv
<1>1. lb' = [lb EXCEPT !.rev = 1]
  BY DEF InitRevision, PatchLoadBalancerRevision
<1>2. IsLB(lb)' /\ lb'.want = lb.want /\ lb'.rev = 1
  BY <1>1, LBRevision DEF IsLB
<1>3. /\ UNCHANGED <<sets, lbSeen, setsSeen, known>>
      /\ dirty \subseteq dirty' /\ (lb' # lb => "lb" \in dirty')
  BY DEF InitRevision, Written
<1> QED BY <1>2, <1>3 DEF InitRevision, IsLB

\* The creation of a set, or the patch of the revision alone.
LEMMA CreateSetEffect ==
  ASSUME TypeInv, CreateSet
  PROVE  /\ TypeInv'
         /\ LBReconciles /\ ~setsSeen[lbSeen.want].exists
         /\ lb'.want = lb.want /\ lb'.rev \in NextRevisions
         /\ \/ sets' = sets
            \/ /\ sets'[lbSeen.want].exists /\ sets'[lbSeen.want].rev = lb'.rev
               /\ sets'[lbSeen.want].spec = lb.want
               /\ \A h \in Hash \ {lbSeen.want} : sets'[h] = sets[h]
         /\ UNCHANGED <<lbSeen, setsSeen>>
         /\ (lb' # lb => "lb" \in dirty') /\ (sets' # sets => "sets" \in dirty')
         /\ dirty \subseteq dirty'
<1> USE DEF TypeInv
<1>1. PICK rev \in NextRevisions :
        \/ /\ sets' = [sets EXCEPT ![lbSeen.want] = NewLoadBalancerSetForLoadBalancer(rev)]
           /\ lb' = [PatchLoadBalancerRevision(rev) EXCEPT !.status = PatchedStatus(lb.status)]
        \/ /\ lb' = PatchLoadBalancerRevision(rev)
           /\ UNCHANGED sets
  BY DEF CreateSet
<1>2. rev \in Nat /\ lbSeen.want \in Hash
  BY NextRevisionType DEF IsLB
<1>3. PICK o : o = PatchLoadBalancerRevision(rev)
  OBVIOUS
<1>4. IsLB(o) /\ o.rev = rev /\ o.want = lb.want
  BY <1>2, <1>3, LBRevision DEF PatchLoadBalancerRevision
<1>5. IsLB(lb') /\ lb'.rev = rev /\ lb'.want = lb.want
  <2>1. CASE lb' = o
    BY <2>1, <1>4
  <2>2. CASE lb' = [o EXCEPT !.status = PatchedStatus(lb.status)]
    <3>1. PICK s : s = PatchedStatus(lb.status)
      OBVIOUS
    <3>2. lb' = [o EXCEPT !.status = s]
      BY <3>1, <2>2
    <3> QED BY <3>2, <1>4, LBStatus
  <2> QED BY <1>1, <1>3, <2>1, <2>2
<1>6. PICK s : s = NewLoadBalancerSetForLoadBalancer(rev)
  OBVIOUS
<1>7. s \in SetObject /\ s.exists /\ s.rev = rev /\ s.spec = lb.want
  BY <1>2, <1>6, NewSet
<1>8. sets' = sets \/ sets' = [sets EXCEPT ![lbSeen.want] = s]
  BY <1>1, <1>6
<1>9. sets' \in [Hash -> SetObject]
  BY <1>2, <1>7, <1>8
<1>10. /\ UNCHANGED <<lbSeen, setsSeen, known>>
       /\ (lb' # lb => "lb" \in dirty') /\ (sets' # sets => "sets" \in dirty')
       /\ dirty \subseteq dirty'
  BY DEF CreateSet, Written
<1>11. LBReconciles /\ ~setsSeen[lbSeen.want].exists
  BY DEF CreateSet
<1>12. IsLB(lb)' /\ IsLB(lbSeen)'
  BY <1>5, <1>10 DEF IsLB
<1> QED BY <1>1, <1>2, <1>5, <1>7, <1>8, <1>9, <1>10, <1>11, <1>12

\* The user asks for another machine spec.
LEMMA ChangeSpecEffect ==
  ASSUME TypeInv, NEW h \in Hash, ChangeSpec(h)
  PROVE  /\ TypeInv'
         /\ Rollback \/ ~sets[h].exists
         /\ lb'.want = h /\ lb'.rev = lb.rev
         /\ UNCHANGED <<sets, lbSeen, setsSeen, dirty>>
<1> USE DEF TypeInv
<1>1. lb' = [lb EXCEPT !.want = h]
  BY DEF ChangeSpec
<1>2. IsLB(lb)' /\ lb'.want = h /\ lb'.rev = lb.rev
  BY <1>1, LBWant DEF IsLB
<1>3. UNCHANGED <<sets, lbSeen, setsSeen, dirty, known>>
  BY DEF ChangeSpec, caches
<1> QED BY <1>2, <1>3 DEF ChangeSpec, IsLB

\* Every step is one of these.
LEMMA Effects ==
  ASSUME TypeInv, [Next]_vars
  PROVE  \/ TypeInv' /\ SameRollout
         \/ InitRevision
         \/ CreateSet
         \/ \E h \in Hash : ChangeSpec(h)
         \/ RefreshLB \/ RefreshSets
<1>1. CASE WaitForCurrentSet \/ ScaleDownOldLoadBalancerSets
  <2>1. PICK S : UpdateSets(S)
    BY <1>1 DEF WaitForCurrentSet, ScaleDownOldLoadBalancerSets
  <2> QED BY <2>1, UpdateSetsEffect
<1>2. CASE \E h \in Hash : ReconcileSet(h)
  BY <1>2, ReconcileSetEffect
<1>3. CASE \E h \in Hash : Age(h) \/ AgeCached(h)
  BY <1>3, AgeEffect
<1>4. CASE \/ \E h \in Hash : RefreshSet(h)
           \/ \E m \in Machine : Report(m) \/ Elect(m) \/ MachineGone(m)
           \/ \E n \in Replicas \ {0} : ChangeReplicas(n)
           \/ UNCHANGED vars
  BY <1>4, OtherEffect
<1> QED BY <1>1, <1>2, <1>3, <1>4, Zenon DEF Next, ReconcileLB

\* The types at the start.
LEMMA TypeInit ==
  ASSUME Init
  PROVE  TypeInv
<1>1. PICK h \in Hash, n \in Replicas \ {0} :
        lb = [want |-> h, replicas |-> n, rev |-> 0, status |-> [replicas |-> 0, ready |-> 0]]
  BY DEF Init
<1>2. IsLB(lb) /\ IsLB(lbSeen)
  BY <1>1 DEF Init, IsLB
<1>3. NoSet \in SetObject
  <2>1. 0 \in Replicas
    BY RolloutAssumption DEF Replicas
  <2> QED BY <2>1 DEF NoSet, SetObject
<1> QED BY <1>2, <1>3 DEF Init, TypeInv

\* Every step keeps the types.
LEMMA TypeStep ==
  ASSUME TypeInv, [Next]_vars
  PROVE  TypeInv'
<1>1. CASE RefreshLB
  BY <1>1 DEF TypeInv, RefreshLB, IsLB
<1>2. CASE RefreshSets
  BY <1>2 DEF TypeInv, RefreshSets, IsLB
<1> QED BY <1>1, <1>2, Effects, InitRevisionEffect, CreateSetEffect, ChangeSpecEffect

-----------------------------------------------------------------------------
(***************************************************************************)
(* The spec of the machines, whatever the caches miss                      *)
(***************************************************************************)

\* No step makes a set of the wanted hash from another spec: a set that gets its
\* name from a stale cache is not the wanted one, and the user does not return.
LEMMA SpecStep ==
  ASSUME TypeInv, SpecInv, ~Rollback, [Next]_vars
  PROVE  SpecInv'
<1>0. lb.want \in Hash /\ lbSeen.want \in Hash
  BY DEF TypeInv, IsLB
<1>1. CASE SameRollout
  BY <1>0, <1>1 DEF SpecInv, SameRollout, Same
<1>2. CASE InitRevision
  BY <1>2, InitRevisionEffect DEF SpecInv
<1>3. CASE CreateSet
  BY <1>0, <1>3, CreateSetEffect DEF SpecInv
<1>4. ASSUME NEW h \in Hash, ChangeSpec(h)
      PROVE  SpecInv'
  BY <1>4, ChangeSpecEffect DEF SpecInv
<1>5. CASE RefreshLB \/ RefreshSets
  BY <1>5 DEF RefreshLB, RefreshSets, SpecInv
<1> QED BY <1>1, <1>2, <1>3, <1>4, <1>5, Effects

\* No set exists at the start.
LEMMA NothingExistsInitially ==
  ASSUME Init
  PROVE  \A h \in Hash : ~sets[h].exists /\ ~setsSeen[h].exists
BY DEF Init, NoSet

\* reconcileLoadBalancerSet: when the rollout is over, the machines are built
\* from the spec of the LoadBalancer, although a set gets its name from the cached
\* LoadBalancer and its template from the answer to a patch.  For every number of
\* hashes, machines and changes, and however late the caches are.
THEOREM MachinesFollowSpec == Spec => []MachinesHaveCurrentSpec
<1> DEFINE Inv == TypeInv /\ (~Rollback => SpecInv)
<1>1. Init => Inv
  <2> HAVE Init
  <2>1. TypeInv
    BY TypeInit
  <2> QED BY <2>1, NothingExistsInitially DEF SpecInv, TypeInv, IsLB
<1>2. Inv /\ [Next]_vars => Inv'
  BY TypeStep, SpecStep
<1>3. Inv => MachinesHaveCurrentSpec
  BY DEF SpecInv, MachinesHaveCurrentSpec, RolloutDone
<1> QED BY <1>1, <1>2, <1>3, PTL DEF Spec

-----------------------------------------------------------------------------
(***************************************************************************)
(* The revision of the current set, when the caches keep up                *)
(***************************************************************************)

\* Steps that leave the rollout where it is keep the invariant.
LEMMA RevisionSame ==
  ASSUME TypeInv, RevisionInv, SameRollout
  PROVE  RevisionInv'
<1>0. lb.want \in Hash
  BY DEF TypeInv, IsLB
<1> USE DEF SameRollout, Same
<1>1. CachesCurrent'
  BY DEF RevisionInv, CachesCurrent
<1>2. RevisionsBounded'
  BY DEF RevisionInv, RevisionsBounded
<1>3. WantedIsSeen'
  BY <1>0 DEF RevisionInv, WantedIsSeen
<1>4. WantedIsLatest'
  BY <1>0 DEF RevisionInv, WantedIsLatest
<1> QED BY <1>1, <1>2, <1>3, <1>4 DEF RevisionInv

\* There are no sets as long as the LoadBalancer has no revision.
LEMMA RevisionInitial ==
  ASSUME TypeInv, RevisionInv, PromptCaches, InitRevision
  PROVE  RevisionInv'
<1>0. lb.want \in Hash
  BY DEF TypeInv, IsLB
<1>1. lb.rev = 0
  BY InitRevisionEffect DEF LBReconciles, RevisionInv, CachesCurrent
<1>2. \A h \in Hash : ~sets[h].exists
  BY <1>1 DEF RevisionInv, RevisionsBounded
<1> QED BY <1>0, <1>2, InitRevisionEffect
        DEF RevisionInv, CachesCurrent, RevisionsBounded, WantedIsSeen, WantedIsLatest

\* A new set gets a revision above all others, and the wanted set is only
\* missing in a cache that has caught up when it does not exist.
LEMMA RevisionCreate ==
  ASSUME TypeInv, RevisionInv, PromptCaches, CreateSet
  PROVE  RevisionInv'
<1>1. lb.want \in Hash /\ lbSeen.want \in Hash /\ \A h \in Hash : sets[h].rev \in Nat
  BY DEF TypeInv, IsLB, SetObject
<1>2. "sets" \notin dirty
  BY CreateSetEffect DEF LBReconciles
<1>3. PICK rev \in NextRevisions : lb'.rev = rev
  BY CreateSetEffect
<1>4. rev \in Nat /\ rev >= 1
  BY NextRevisionType
<1>5. \A h \in Hash : sets[h].exists => sets[h].rev \in 1 .. rev /\ sets[h].rev # rev
  <2> SUFFICES ASSUME NEW h \in Hash, sets[h].exists
               PROVE  sets[h].rev \in 1 .. rev /\ sets[h].rev # rev
    OBVIOUS
  <2>1. h \in SeenSets /\ setsSeen[h].rev = sets[h].rev
    BY <1>2 DEF RevisionInv, CachesCurrent, SeenSets
  <2>2. sets[h].rev < rev
    BY <2>1, NextRevisionType
  <2>3. sets[h].rev >= 1
    BY <1>1 DEF RevisionInv, RevisionsBounded, TypeInv, IsLB
  <2> QED BY <2>2, <2>3, <1>1, <1>4
<1>6. ~sets[lbSeen.want].exists
  BY <1>1, <1>2, CreateSetEffect DEF RevisionInv, CachesCurrent
<1>7. ~sets[lb.want].exists
  BY <1>6 DEF RevisionInv, WantedIsSeen
<1>8. lb'.want = lb.want /\ lbSeen' = lbSeen
  BY CreateSetEffect
<1>9. CachesCurrent'
  <2>1. /\ UNCHANGED <<lbSeen, setsSeen>> /\ dirty \subseteq dirty'
        /\ (lb' # lb => "lb" \in dirty') /\ (sets' # sets => "sets" \in dirty')
    BY CreateSetEffect
  <2> QED BY <2>1 DEF RevisionInv, CachesCurrent
<1>10. CASE sets' = sets
  <2>1. RevisionsBounded' /\ WantedIsSeen' /\ WantedIsLatest'
    BY <1>3, <1>5, <1>7, <1>8, <1>10 DEF RevisionsBounded, WantedIsSeen, WantedIsLatest
  <2> QED BY <2>1, <1>9 DEF RevisionInv
<1>11. CASE /\ sets'[lbSeen.want].exists /\ sets'[lbSeen.want].rev = lb'.rev
            /\ \A h \in Hash \ {lbSeen.want} : sets'[h] = sets[h]
  <2>1. RevisionsBounded'
    BY <1>1, <1>3, <1>4, <1>5, <1>11 DEF RevisionsBounded
  <2>2. sets'[lb.want].exists => lbSeen.want = lb.want
    BY <1>1, <1>7, <1>11
  <2>3. WantedIsSeen'
    BY <2>2, <1>8 DEF WantedIsSeen
  <2>4. WantedIsLatest'
    BY <2>2, <1>1, <1>3, <1>5, <1>8, <1>11 DEF WantedIsLatest
  <2> QED BY <2>1, <2>3, <2>4, <1>9 DEF RevisionInv
<1> QED BY <1>10, <1>11, CreateSetEffect

\* No step breaks the invariant.
LEMMA RevisionStep ==
  ASSUME TypeInv, RevisionInv, PromptCaches, ~Rollback, [Next]_vars
  PROVE  RevisionInv'
<1>1. ASSUME NEW h \in Hash, ChangeSpec(h)
      PROVE  RevisionInv'
  <2>1. /\ ~sets[h].exists /\ lb'.want = h /\ lb'.rev = lb.rev
        /\ UNCHANGED <<sets, lbSeen, setsSeen, dirty>>
    BY <1>1, ChangeSpecEffect
  <2>2. CachesCurrent' /\ RevisionsBounded'
    BY <2>1 DEF RevisionInv, CachesCurrent, RevisionsBounded
  <2>3. WantedIsSeen' /\ WantedIsLatest'
    BY <2>1 DEF WantedIsSeen, WantedIsLatest
  <2> QED BY <2>2, <2>3 DEF RevisionInv
<1>2. CASE RefreshLB \/ RefreshSets
  BY <1>2 DEF RefreshLB, RefreshSets, RevisionInv, CachesCurrent, RevisionsBounded,
              WantedIsSeen, WantedIsLatest
<1> QED BY <1>1, <1>2, Effects, RevisionSame, RevisionInitial, RevisionCreate

\* main.go of the yawollet lets the machines of the latest revision pass the
\* readyz check: when a rollout is over, that revision belongs to the current
\* set and to no other.  For every number of hashes, machines, replicas and changes,
\* and whichever requests fail, when the caches of the controller have caught up
\* with its own writes before it reconciles again and no spec comes back.
THEOREM LatestRevisionIsCurrent ==
  ASSUME PromptCaches, ~Rollback
  PROVE  Spec => []CurrentSetHasLatestRevision
<1> DEFINE Inv == TypeInv /\ RevisionInv
<1>1. Init => Inv
  <2> HAVE Init
  <2>1. TypeInv
    BY TypeInit
  <2>2. lb.want \in Hash /\ lbSeen = lb /\ setsSeen = sets
    BY <2>1 DEF Init, TypeInv, IsLB
  <2> QED BY <2>1, <2>2, NothingExistsInitially
          DEF RevisionInv, CachesCurrent, RevisionsBounded, WantedIsSeen, WantedIsLatest
<1>2. Inv /\ [Next]_vars => Inv'
  BY TypeStep, RevisionStep
<1>3. Inv => CurrentSetHasLatestRevision
  BY DEF RevisionInv, WantedIsLatest, CurrentSetHasLatestRevision, RolloutDone, TypeInv, IsLB
<1> QED BY <1>1, <1>2, <1>3, PTL DEF Spec

-----------------------------------------------------------------------------
(***************************************************************************)
(* Replicas, ready counts and machines.  A set that is scaled to 0 stays   *)
(* there unless the user returns to its spec; the set controller removes   *)
(* the last ready machine only of such a set; and it is only scaled to 0   *)
(* when another set has a ready machine.                                   *)
(***************************************************************************)
MachinesTyped ==
    /\ machines \in [Machine -> [st : {"absent", "live", "deleting"}, ready : BOOLEAN,
                                 claim : BOOLEAN, set : Hash \cup {NoHash}]]
    /\ vip \in Machine \cup {NoMachine}

Serves(h) == \E m \in Machine : machines[m].set = h /\ machines[m].st = "live" /\ machines[m].ready

AskedFor == lb.replicas > 0
SeenExist == \A h \in Hash : setsSeen[h].exists => sets[h].exists
SeenSetIsScaled == sets[lbSeen.want].exists => sets[lbSeen.want].replicas > 0
ZeroStays == \A h \in Hash : known[h] = 0 => sets[h].exists /\ sets[h].replicas = 0
ReadyIsTrue ==
    \A h \in Hash : known[h] # 0 /\ (sets[h].ready > 0 \/ setsSeen[h].ready > 0) => Serves(h)
SuccessorServes ==
    (\E g \in Hash : sets[g].exists /\ sets[g].replicas = 0) =>
        \E c \in Hash : sets[c].exists /\ sets[c].replicas > 0 /\ Serves(c)

ReplicaInv ==
    AskedFor /\ SeenExist /\ SeenSetIsScaled /\ ZeroStays /\ ReadyIsTrue /\ SuccessorServes

\* All fields but the age of the condition
SameSet(s, t) ==
    /\ s.exists = t.exists /\ s.replicas = t.replicas
    /\ s.ready = t.ready /\ s.hasMaster = t.hasMaster

\* Steps that neither write the replicas or the status of a set nor read one
Quiet ==
    /\ lb'.want = lb.want /\ lb'.replicas > 0 /\ lbSeen' = lbSeen /\ known' = known
    /\ \A h \in Hash : SameSet(sets'[h], sets[h]) /\ SameSet(setsSeen'[h], setsSeen[h])

\* The patches of the replicas that one reconcile of the LoadBalancer sends.
LEMMA UpdateSetsWrites ==
  ASSUME TypeInv, SeenExist, AskedFor, WaitForCurrentSet \/ ScaleDownOldLoadBalancerSets
  PROVE  /\ lb'.want = lb.want /\ lb'.replicas = lb.replicas
         /\ setsSeen[lbSeen.want].exists
         /\ UNCHANGED <<lbSeen, setsSeen, known, machines, vip>>
         /\ \A h \in Hash : /\ sets'[h].exists = sets[h].exists /\ sets'[h].ready = sets[h].ready
                            /\ sets'[h].hasMaster = sets[h].hasMaster
         /\ \A h \in Hash \ {lbSeen.want} :
               \/ sets'[h].replicas = sets[h].replicas
               \/ sets'[h].replicas = 0 /\ CurrentSetIsReady
         /\ \/ sets'[lbSeen.want].replicas = sets[lbSeen.want].replicas
            \/ sets'[lbSeen.want].replicas = lb.replicas
<1> USE DEF TypeInv
<1>1. PICK S : UpdateSets(S) /\ S \subseteq OldSets /\ (S = {} \/ CurrentSetIsReady)
  BY DEF WaitForCurrentSet, ScaleDownOldLoadBalancerSets
<1>2. lb'.want = lb.want /\ lb'.replicas = lb.replicas
  <2>1. PICK s : s = PatchedStatus(lbSeen.status)
    OBVIOUS
  <2>2. lb' = [lb EXCEPT !.status = s]
    BY <1>1, <2>1 DEF UpdateSets
  <2> QED BY <2>2, LBStatus
<1>3. /\ setsSeen[lbSeen.want].exists
      /\ UNCHANGED <<lbSeen, setsSeen, known, machines, vip>>
  BY <1>1 DEF UpdateSets, WaitForCurrentSet, ScaleDownOldLoadBalancerSets, HasCurrentSet
<1>4. ASSUME NEW h \in Hash
      PROVE  /\ sets'[h].exists = sets[h].exists /\ sets'[h].ready = sets[h].ready
             /\ sets'[h].hasMaster = sets[h].hasMaster
             /\ h \in S => sets'[h].replicas = 0
             /\ h \notin S => \/ sets'[h].replicas = sets[h].replicas
                              \/ h = lbSeen.want /\ sets'[h].replicas = lb.replicas
  <2>1. sets'[h] = IF h \in S THEN [sets[h] EXCEPT !.replicas = 0]
                   ELSE IF h = lbSeen.want /\ MustScale THEN [sets[h] EXCEPT !.replicas = lb.replicas]
                   ELSE sets[h]
    BY <1>1 DEF UpdateSets, SetReplicas
  <2>2. sets[h] \in SetObject
    OBVIOUS
  <2>3. PICK n : n = lb.replicas
    OBVIOUS
  <2> QED BY <2>1, <2>2, <2>3 DEF SetObject
<1>5. lbSeen.want \notin S /\ lbSeen.want \in Hash
  BY <1>1 DEF OldSets, IsLB
<1> QED BY <1>1, <1>2, <1>3, <1>4, <1>5

\* The creation of a set, or the patch of the revision alone.
LEMMA CreateSetWrites ==
  ASSUME TypeInv, AskedFor, CreateSet
  PROVE  /\ lb'.want = lb.want /\ lb'.replicas = lb.replicas /\ lbSeen.rev # 0
         /\ UNCHANGED <<lbSeen, setsSeen, known, machines, vip>>
         /\ \/ sets' = sets
            \/ /\ ~sets[lbSeen.want].exists /\ sets'[lbSeen.want].exists
               /\ sets'[lbSeen.want].replicas > 0
               /\ sets'[lbSeen.want].ready = 0 /\ sets'[lbSeen.want].hasMaster = "unset"
               /\ \A h \in Hash \ {lbSeen.want} : sets'[h] = sets[h]
<1> USE DEF TypeInv
<1>1. PICK rev \in NextRevisions :
        \/ /\ ~sets[lbSeen.want].exists
           /\ sets' = [sets EXCEPT ![lbSeen.want] = NewLoadBalancerSetForLoadBalancer(rev)]
           /\ lb' = [PatchLoadBalancerRevision(rev) EXCEPT !.status = PatchedStatus(lb.status)]
        \/ /\ lb' = PatchLoadBalancerRevision(rev)
           /\ UNCHANGED sets
  BY DEF CreateSet
<1>2. rev \in Nat /\ lbSeen.want \in Hash
  BY NextRevisionType DEF IsLB
<1>3. PICK o : o = PatchLoadBalancerRevision(rev)
  OBVIOUS
<1>4. IsLB(o) /\ o.replicas = lb.replicas /\ o.want = lb.want
  BY <1>2, <1>3, LBRevision DEF PatchLoadBalancerRevision
<1>5. lb'.replicas = lb.replicas /\ lb'.want = lb.want
  <2>1. CASE lb' = o
    BY <2>1, <1>4
  <2>2. CASE lb' = [o EXCEPT !.status = PatchedStatus(lb.status)]
    <3>1. PICK s : s = PatchedStatus(lb.status)
      OBVIOUS
    <3>2. lb' = [o EXCEPT !.status = s]
      BY <3>1, <2>2
    <3> QED BY <3>2, <1>4, LBStatus
  <2> QED BY <1>1, <1>3, <2>1, <2>2
<1>6. PICK s : s = NewLoadBalancerSetForLoadBalancer(rev)
  OBVIOUS
<1>7. s.exists /\ s.replicas = lb.replicas /\ s.ready = 0 /\ s.hasMaster = "unset"
  BY <1>6 DEF NewLoadBalancerSetForLoadBalancer, NoSet
<1>8. \/ sets' = sets
      \/ ~sets[lbSeen.want].exists /\ sets' = [sets EXCEPT ![lbSeen.want] = s]
  BY <1>1, <1>6
<1>9. UNCHANGED <<lbSeen, setsSeen, known, machines, vip>> /\ lbSeen.rev # 0
  BY DEF CreateSet
<1> QED BY <1>2, <1>5, <1>7, <1>8, <1>9 DEF AskedFor

\* What a reconcile of the set h writes into its status.
LEMMA ReconcileSetWrites ==
  ASSUME TypeInv, NEW h \in Hash, ReconcileSet(h)
  PROVE  /\ UNCHANGED <<lb, lbSeen, setsSeen, known, vip>>
         /\ \A g \in Hash \ {h} : sets'[g] = sets[g]
         /\ sets[h].exists /\ sets'[h].exists
         /\ sets'[h].replicas = sets[h].replicas
         /\ sets'[h].ready = readyMachineCount(MachinesOf(h))
         /\ sets'[h].hasMaster = "True" => hasKeepalivedMaster(MachinesOf(h))
<1> USE DEF TypeInv
<1> DEFINE master == IF hasKeepalivedMaster(MachinesOf(h)) THEN "True" ELSE "False"
           ready == readyMachineCount(MachinesOf(h))
           aged == sets[h].aged /\ sets[h].hasMaster = master
<1>1. SetStatus(h) = [sets[h] EXCEPT !.statusReplicas = known[h], !.ready = ready,
                                     !.hasMaster = master, !.aged = aged]
  BY DEF SetStatus
<1>2. master = "True" => hasKeepalivedMaster(MachinesOf(h))
  BY Zenon
<1> HIDE DEF master, ready, aged
<1>3. PICK s : s = SetStatus(h)
  OBVIOUS
<1>4. sets[h] \in SetObject
  OBVIOUS
<1>5. /\ s.exists = sets[h].exists /\ s.replicas = sets[h].replicas
      /\ s.ready = ready /\ s.hasMaster = master
  BY <1>1, <1>3, <1>4 DEF SetObject
<1>6. sets' = [sets EXCEPT ![h] = s] /\ sets[h].exists
  BY <1>3 DEF ReconcileSet
<1>7. UNCHANGED <<lb, lbSeen, setsSeen, known, vip>>
  BY DEF ReconcileSet, caches
<1>8. /\ sets'[h].ready = ready
      /\ sets'[h].hasMaster = "True" => hasKeepalivedMaster(MachinesOf(h))
  BY <1>2, <1>5, <1>6
<1> QED BY <1>5, <1>6, <1>7, <1>8 DEF ready

\* The machines of a set, as its controller lists them
LEMMA MachinesOfSet ==
  ASSUME MachinesTyped, NEW h \in Hash
  PROVE  /\ Existing(MachinesOf(h)) = {m \in Machine : machines[m].set = h /\ machines[m].st # "absent"}
         /\ Live(MachinesOf(h)) = {m \in Machine : machines[m].set = h /\ machines[m].st = "live"}
         /\ \A m \in Existing(MachinesOf(h)) : /\ MachinesOf(h)[m].ready = machines[m].ready
                                               /\ MachinesOf(h)[m].claim = machines[m].claim
<1>1. \A m \in Machine : MachinesOf(h)[m] = IF machines[m].set = h THEN machines[m] ELSE AbsentMachine
  BY DEF MachinesOf
<1>2. AbsentMachine.st = "absent"
  BY DEF AbsentMachine
<1> QED BY <1>1, <1>2 DEF Existing, Live

\* What a reconcile of the set h does to the machines.
LEMMA ReconcileSetMachines ==
  ASSUME MachinesTyped, NEW h \in Hash, ReconcileSet(h)
  PROVE  /\ \A m \in Machine : machines[m].st # "absent" =>
               /\ machines'[m].set = machines[m].set
               /\ machines'[m].ready = machines[m].ready /\ machines'[m].claim = machines[m].claim
               /\ machines'[m].st = machines[m].st \/ machines'[m].st = "deleting"
         /\ \A m \in Machine : machines[m].st = "absent" =>
               machines'[m] = machines[m] \/ machines'[m] = NewMachine(h)
         /\ \/ \A m \in Machine : machines[m].st # "absent" => machines'[m].st = machines[m].st
            \/ /\ HasSurplus(MachinesOf(h), known[h])
               /\ \E d \in MachinesForDeletion(MachinesOf(h)) :
                     \A m \in Machine \ {d} : machines'[m].st = machines[m].st
         /\ MachinesTyped'
<1> USE DEF MachinesTyped
<1>0. NewMachine(h) \in [st : {"absent", "live", "deleting"}, ready : BOOLEAN,
                         claim : BOOLEAN, set : Hash \cup {NoHash}]
  BY DEF NewMachine
<1>1. CASE \E m \in FreshNames : machines' = [machines EXCEPT ![m] = NewMachine(h)]
  <2>1. PICK n : n = NewMachine(h)
    OBVIOUS
  <2>2. PICK m \in Machine : machines[m].st = "absent" /\ machines' = [machines EXCEPT ![m] = n]
    BY <1>1, <2>1 DEF FreshNames
  <2>3. vip' = vip
    BY DEF ReconcileSet
  <2> QED BY <1>0, <2>1, <2>2, <2>3
<1>2. CASE /\ HasSurplus(MachinesOf(h), known[h])
           /\ \E m \in MachinesForDeletion(MachinesOf(h)) :
                 machines' = [machines EXCEPT ![m].st = "deleting"]
  <2>1. PICK d \in MachinesForDeletion(MachinesOf(h)) : machines' = [machines EXCEPT ![d].st = "deleting"]
    BY <1>2
  <2>2. d \in Existing(MachinesOf(h))
    BY DEF MachinesForDeletion
  <2>3. d \in Machine /\ machines[d].st # "absent"
    BY <2>2, MachinesOfSet
  <2>4. vip' = vip
    BY DEF ReconcileSet
  <2>5. /\ machines'[d].set = machines[d].set /\ machines'[d].ready = machines[d].ready
        /\ machines'[d].claim = machines[d].claim /\ machines'[d].st = "deleting"
        /\ \A m \in Machine \ {d} : machines'[m] = machines[m]
    BY <2>1, <2>3
  <2>6. MachinesTyped'
    BY <2>1, <2>3, <2>4
  <2>7. \A m \in Machine \ {d} : machines'[m].st = machines[m].st
    BY <2>5
  <2> QED BY <1>2, <2>3, <2>5, <2>6, <2>7
<1>3. CASE UNCHANGED machines
  BY <1>3 DEF ReconcileSet
<1> QED BY <1>1, <1>2, <1>3 DEF ReconcileSet, ReconcileReplicas

\* As long as the set controller knows that a set should have machines, it leaves
\* it a ready one.
LEMMA ReconcileSparesReady ==
  ASSUME TypeInv, MachinesTyped, NEW h \in Hash, ReconcileSet(h), known[h] # 0, Serves(h)
  PROVE  Serves(h)'
<1>1. PICK m \in Machine : machines[m].set = h /\ machines[m].st = "live" /\ machines[m].ready
  BY DEF Serves
<1>2. known[h] \in Nat /\ known[h] >= 1
  BY DEF TypeInv, Replicas, NotCached, ReconcileSet
<1>3. CASE machines'[m].st = "live"
  BY <1>1, <1>3, ReconcileSetMachines DEF Serves
<1>4. CASE machines'[m].st # "live"
  <2>1. PICK d \in MachinesForDeletion(MachinesOf(h)) :
           \A n \in Machine \ {d} : machines'[n].st = machines[n].st
    BY <1>1, <1>4, ReconcileSetMachines
  <2>2. d = m /\ HasSurplus(MachinesOf(h), known[h])
    BY <1>1, <1>4, <2>1, ReconcileSetMachines
  <2>3. m \in Existing(MachinesOf(h)) /\ MachinesOf(h)[m].ready
    BY <1>1, MachinesOfSet
  <2>4. \A n \in Existing(MachinesOf(h)) : MachinesOf(h)[n].ready
    BY <2>2, <2>3 DEF MachinesForDeletion
  <2>5. PICK S : S = Live(MachinesOf(h))
    OBVIOUS
  <2>6. IsFiniteSet(S) /\ Cardinality(S) \in Nat /\ known[h] < Cardinality(S)
    BY <2>2, <2>5, RolloutAssumption, FS_Subset, FS_CardinalityType DEF Live, HasSurplus
  <2>7. Cardinality(S \ {m}) # 0
    <3>1. Cardinality(S \ {m}) = IF m \in S THEN Cardinality(S) - 1 ELSE Cardinality(S)
      BY <2>6, FS_RemoveElement
    <3> QED BY <1>2, <2>6, <3>1
  <2>8. PICK n \in S : n # m
    BY <2>7, FS_EmptySet
  <2>9. n \in Machine /\ machines[n].set = h /\ machines[n].st = "live" /\ machines[n].ready
    BY <2>4, <2>5, <2>8, MachinesOfSet
  <2> QED BY <2>1, <2>2, <2>8, <2>9, ReconcileSetMachines DEF Serves
<1> QED BY <1>3, <1>4

\* Only a reconcile of a set takes a machine that is alive away.
LEMMA OtherMachines ==
  ASSUME MachinesTyped, [Next]_vars
  PROVE  \/ \E h \in Hash : ReconcileSet(h)
         \/ /\ MachinesTyped'
            /\ \A m \in Machine : machines[m].st = "live" =>
                  /\ machines'[m].st = "live" /\ machines'[m].set = machines[m].set
                  /\ machines[m].ready => machines'[m].ready
<1> USE DEF MachinesTyped
<1>1. ASSUME NEW m \in Machine, Report(m)
      PROVE  /\ MachinesTyped'
             /\ \A n \in Machine : machines[n].st = "live" =>
                  /\ machines'[n].st = "live" /\ machines'[n].set = machines[n].set
                  /\ machines[n].ready => machines'[n].ready
  <2>1. PICK b \in BOOLEAN : machines' = [machines EXCEPT ![m].ready = TRUE, ![m].claim = b]
    BY <1>1 DEF Report
  <2>2. vip' = vip
    BY <1>1 DEF Report
  <2>3. MachinesTyped'
    <3>1. [machines[m] EXCEPT !.ready = TRUE, !.claim = b]
            \in [st : {"absent", "live", "deleting"}, ready : BOOLEAN,
                 claim : BOOLEAN, set : Hash \cup {NoHash}]
      OBVIOUS
    <3>2. machines' = [machines EXCEPT ![m] = [machines[m] EXCEPT !.ready = TRUE, !.claim = b]]
      BY <2>1
    <3> QED BY <2>2, <3>1, <3>2
  <2>4. /\ machines'[m].st = machines[m].st /\ machines'[m].set = machines[m].set
        /\ machines'[m].ready
        /\ \A n \in Machine \ {m} : machines'[n] = machines[n]
    BY <2>1
  <2> QED BY <2>3, <2>4
<1>2. ASSUME NEW m \in Machine, MachineGone(m)
      PROVE  /\ MachinesTyped'
             /\ \A n \in Machine : machines[n].st = "live" => machines'[n] = machines[n]
  BY <1>2 DEF MachineGone
<1>3. ASSUME NEW m \in Machine, Elect(m)
      PROVE  machines' = machines /\ vip' \in Machine \cup {NoMachine}
  BY <1>3 DEF Elect
<1>4. CASE ReconcileLB
  BY <1>4 DEF ReconcileLB, InitRevision, CreateSet, WaitForCurrentSet,
              ScaleDownOldLoadBalancerSets, UpdateSets
<1>5. CASE \/ RefreshLB \/ RefreshSets \/ UNCHANGED vars
           \/ \E n \in Replicas \ {0} : ChangeReplicas(n)
           \/ \E h \in Hash : RefreshSet(h) \/ Age(h) \/ AgeCached(h) \/ ChangeSpec(h)
  BY <1>5 DEF RefreshLB, RefreshSets, vars, ChangeReplicas, RefreshSet, Age, AgeCached, ChangeSpec
<1> QED BY <1>1, <1>2, <1>3, <1>4, <1>5, Zenon DEF Next

\* Every step is one of these.
LEMMA Steps ==
  ASSUME TypeInv, AskedFor, [Next]_vars
  PROVE  \/ Quiet
         \/ CreateSet \/ WaitForCurrentSet \/ ScaleDownOldLoadBalancerSets
         \/ RefreshLB \/ RefreshSets
         \/ \E h \in Hash : ReconcileSet(h) \/ RefreshSet(h) \/ ChangeSpec(h)
<1> USE DEF TypeInv
<1>1. ASSUME InitRevision PROVE Quiet
  <2>1. lb' = [lb EXCEPT !.rev = 1]
    BY <1>1 DEF InitRevision, PatchLoadBalancerRevision
  <2>2. lb'.want = lb.want /\ lb'.replicas = lb.replicas
    BY <2>1, LBRevision
  <2> QED BY <1>1, <2>2 DEF InitRevision, Quiet, SameSet, AskedFor
<1>2. ASSUME NEW n \in Replicas \ {0}, ChangeReplicas(n) PROVE Quiet
  <2>1. lb' = [lb EXCEPT !.replicas = n]
    BY <1>2 DEF ChangeReplicas
  <2>2. lb'.want = lb.want /\ lb'.replicas = n
    BY <2>1, LBReplicas
  <2> QED BY <1>2, <2>2 DEF ChangeReplicas, caches, Quiet, SameSet, Replicas
<1>3. ASSUME NEW m \in Machine, Report(m) \/ Elect(m) \/ MachineGone(m) PROVE Quiet
  BY <1>3 DEF Report, Elect, MachineGone, caches, Quiet, SameSet, AskedFor
<1>4. ASSUME UNCHANGED vars PROVE Quiet
  BY <1>4 DEF vars, Quiet, SameSet, AskedFor
<1>5. ASSUME NEW h \in Hash, Age(h) \/ AgeCached(h) PROVE Quiet
  <2>1. \A s \in SetObject : \A b \in BOOLEAN : SameSet([s EXCEPT !.aged = b], s)
    BY DEF SetObject, SameSet
  <2>2. setsSeen[h].exists \in BOOLEAN
    BY DEF SetObject
  <2>3. \A g \in Hash : SameSet(sets'[g], sets[g])
    <3>1. CASE sets' = [sets EXCEPT ![h] = [sets[h] EXCEPT !.aged = TRUE]]
      BY <3>1, <2>1 DEF SameSet
    <3>2. CASE sets' = sets
      BY <3>2 DEF SameSet
    <3> QED BY <1>5, <3>1, <3>2 DEF Age, AgeCached
  <2>4. \A g \in Hash : SameSet(setsSeen'[g], setsSeen[g])
    <3>1. PICK b \in BOOLEAN : setsSeen' = [setsSeen EXCEPT ![h] = [setsSeen[h] EXCEPT !.aged = b]]
      BY <1>5, <2>2 DEF Age, AgeCached
    <3>2. PICK s \in SetObject : s = [setsSeen[h] EXCEPT !.aged = b] /\ SameSet(s, setsSeen[h])
      <4>1. setsSeen[h] \in SetObject
        OBVIOUS
      <4>2. [setsSeen[h] EXCEPT !.aged = b] \in SetObject
        BY <4>1, AgedSet
      <4> QED BY <4>1, <4>2, <2>1
    <3>3. setsSeen' = [setsSeen EXCEPT ![h] = s]
      BY <3>1, <3>2
    <3> QED BY <3>2, <3>3 DEF SameSet
  <2>5. lb' = lb /\ lbSeen' = lbSeen /\ known' = known
    BY <1>5 DEF Age, AgeCached
  <2> QED BY <2>3, <2>4, <2>5 DEF Quiet, AskedFor
<1> QED BY <1>1, <1>2, <1>3, <1>4, <1>5, Zenon DEF Next, ReconcileLB

\* A set with a ready machine keeps one, unless its controller knows that it
\* should have none.
LEMMA ServesReconcile ==
  ASSUME TypeInv, MachinesTyped, NEW h \in Hash, ReconcileSet(h), NEW g \in Hash, Serves(g)
  PROVE  Serves(g)' \/ (g = h /\ known[h] = 0)
<1>1. CASE g = h
  BY <1>1, ReconcileSparesReady
<1>2. CASE g # h
  <2>1. PICK m \in Machine : machines[m].set = g /\ machines[m].st = "live" /\ machines[m].ready
    BY DEF Serves
  <2>2. m \notin MachinesForDeletion(MachinesOf(h))
    <3>1. m \notin Existing(MachinesOf(h))
      BY <1>2, <2>1, MachinesOfSet
    <3> QED BY <3>1 DEF MachinesForDeletion
  <2>3. machines'[m].st = "live" /\ machines'[m].set = g /\ machines'[m].ready
    BY <2>1, <2>2, ReconcileSetMachines
  <2> QED BY <2>3 DEF Serves
<1> QED BY <1>1, <1>2

\* Nobody else takes a ready machine away.
LEMMA ServesOther ==
  ASSUME MachinesTyped, [Next]_vars
  PROVE  (\E h \in Hash : ReconcileSet(h)) \/ (\A g \in Hash : Serves(g) => Serves(g)')
BY OtherMachines DEF Serves

\* Every step keeps the types of the machines.
LEMMA MachinesTypedStep ==
  ASSUME MachinesTyped, [Next]_vars
  PROVE  MachinesTyped'
BY OtherMachines, ReconcileSetMachines

\* The user only asks for specs without a set, and sets are only made for specs
\* that the LoadBalancer controller has seen.
LEMMA WantedStep ==
  ASSUME TypeInv, WantedIsSeen, ~Rollback, [Next]_vars
  PROVE  WantedIsSeen'
<1>0. lb.want \in Hash /\ lbSeen.want \in Hash
  BY DEF TypeInv, IsLB
<1>1. CASE SameRollout
  BY <1>0, <1>1 DEF WantedIsSeen, SameRollout, Same
<1>2. CASE InitRevision
  BY <1>2, InitRevisionEffect DEF WantedIsSeen
<1>3. CASE CreateSet
  BY <1>0, <1>3, CreateSetEffect DEF WantedIsSeen
<1>4. ASSUME NEW h \in Hash, ChangeSpec(h)
      PROVE  WantedIsSeen'
  BY <1>4, ChangeSpecEffect DEF WantedIsSeen
<1>5. CASE RefreshLB \/ RefreshSets
  BY <1>5 DEF RefreshLB, RefreshSets, WantedIsSeen
<1> QED BY <1>1, <1>2, <1>3, <1>4, <1>5, Effects

\* A set counts as ready only when it serves.
LEMMA ReadySetServes ==
  ASSUME TypeInv, ReplicaInv, setsSeen[lbSeen.want].exists, CurrentSetIsReady
  PROVE  Serves(lbSeen.want)
<1> DEFINE w == lbSeen.want
<1>1. w \in Hash /\ sets[w].exists
  BY DEF ReplicaInv, SeenExist, TypeInv, IsLB
<1>2. known[w] # 0
  BY <1>1 DEF ReplicaInv, SeenSetIsScaled, ZeroStays
<1>3. sets[w].ready > 0 \/ setsSeen[w].ready > 0
  BY DEF CurrentSetIsReady, CurrentSet, ReplicaInv, AskedFor
<1> QED BY <1>1, <1>2, <1>3 DEF ReplicaInv, ReadyIsTrue

\* Steps that neither write nor read replicas or status keep the invariant.
LEMMA ReplicaQuiet ==
  ASSUME TypeInv, ReplicaInv, Quiet, \A h \in Hash : Serves(h) => Serves(h)'
  PROVE  ReplicaInv'
<1> USE DEF ReplicaInv, Quiet, SameSet
<1>0. lbSeen.want \in Hash
  BY DEF TypeInv, IsLB
<1>1. AskedFor' /\ SeenExist' /\ SeenSetIsScaled' /\ ZeroStays'
  BY <1>0 DEF AskedFor, SeenExist, SeenSetIsScaled, ZeroStays
<1> HIDE DEF Serves
<1>2. ReadyIsTrue'
  BY DEF ReadyIsTrue
<1>3. SuccessorServes'
  BY DEF SuccessorServes
<1> QED BY <1>1, <1>2, <1>3

\* A set is scaled to 0 only when the current one serves.
LEMMA ReplicaUpdate ==
  ASSUME TypeInv, ReplicaInv, WaitForCurrentSet \/ ScaleDownOldLoadBalancerSets,
         \A h \in Hash : Serves(h) => Serves(h)'
  PROVE  ReplicaInv'
<1> DEFINE w == lbSeen.want
<1>0. w \in Hash /\ sets[w].exists
  BY UpdateSetsWrites DEF TypeInv, IsLB, ReplicaInv, SeenExist
<1>1. /\ lb'.want = lb.want /\ lb'.replicas = lb.replicas
      /\ UNCHANGED <<lbSeen, setsSeen, known>>
      /\ \A h \in Hash : sets'[h].exists = sets[h].exists /\ sets'[h].ready = sets[h].ready
  BY UpdateSetsWrites DEF ReplicaInv
<1>2. \A h \in Hash \ {w} : \/ sets'[h].replicas = sets[h].replicas
                            \/ sets'[h].replicas = 0 /\ CurrentSetIsReady
  BY UpdateSetsWrites DEF ReplicaInv
<1>3. sets[w].replicas > 0 /\ sets'[w].replicas > 0
  BY <1>0, UpdateSetsWrites DEF ReplicaInv, AskedFor, SeenSetIsScaled
<1>4. CurrentSetIsReady => Serves(w)
  BY UpdateSetsWrites, ReadySetServes DEF ReplicaInv
<1> HIDE DEF w
<1>5. AskedFor' /\ SeenExist'
  BY <1>1 DEF ReplicaInv, AskedFor, SeenExist
<1>6. SeenSetIsScaled'
  BY <1>1, <1>3 DEF SeenSetIsScaled, w
<1>7. ZeroStays'
  BY <1>0, <1>1, <1>2, <1>3 DEF ReplicaInv, ZeroStays
<1>8. ReadyIsTrue'
  BY <1>1 DEF ReplicaInv, ReadyIsTrue
<1>9. SuccessorServes'
  <2>1. CASE CurrentSetIsReady
    BY <1>0, <1>1, <1>3, <1>4, <2>1 DEF SuccessorServes
  <2>2. CASE \A h \in Hash \ {w} : sets'[h].replicas = sets[h].replicas
    <3>1. \A h \in Hash : sets'[h].replicas = 0 <=> sets[h].replicas = 0
      BY <1>3, <2>2
    <3>2. \A h \in Hash : sets[h].replicas > 0 => sets'[h].replicas > 0
      BY <1>3, <2>2
    <3> QED BY <1>1, <3>1, <3>2 DEF ReplicaInv, SuccessorServes
  <2> QED BY <1>2, <2>1, <2>2
<1> QED BY <1>5, <1>6, <1>7, <1>8, <1>9 DEF ReplicaInv

\* A new set has replicas and no status.
LEMMA ReplicaCreate ==
  ASSUME TypeInv, ReplicaInv, CreateSet, \A h \in Hash : Serves(h) => Serves(h)'
  PROVE  ReplicaInv'
<1> DEFINE w == lbSeen.want
<1>0. w \in Hash
  BY DEF TypeInv, IsLB
<1>1. /\ lb'.want = lb.want /\ lb'.replicas = lb.replicas
      /\ UNCHANGED <<lbSeen, setsSeen, known>>
  BY CreateSetWrites DEF ReplicaInv
<1>2. \/ sets' = sets
      \/ /\ ~sets[w].exists /\ sets'[w].exists /\ sets'[w].replicas > 0
         /\ sets'[w].ready = 0
         /\ \A h \in Hash \ {w} : sets'[h] = sets[h]
  BY CreateSetWrites DEF ReplicaInv
<1> HIDE DEF w
<1>3. AskedFor' /\ SeenExist'
  BY <1>0, <1>1, <1>2 DEF ReplicaInv, AskedFor, SeenExist
<1>4. SeenSetIsScaled'
  BY <1>1, <1>2 DEF ReplicaInv, SeenSetIsScaled, w
<1>5. ZeroStays'
  BY <1>0, <1>1, <1>2 DEF ReplicaInv, ZeroStays
<1>6. ReadyIsTrue'
  BY <1>0, <1>1, <1>2 DEF ReplicaInv, ReadyIsTrue
<1>7. SuccessorServes'
  BY <1>0, <1>1, <1>2 DEF ReplicaInv, SuccessorServes
<1> QED BY <1>3, <1>4, <1>5, <1>6, <1>7 DEF ReplicaInv

\* A ready count that is written is true, and stays true while the set controller
\* knows of replicas.
LEMMA ReplicaReconcile ==
  ASSUME TypeInv, MachinesTyped, ReplicaInv, NEW h \in Hash, ReconcileSet(h),
         \A g \in Hash : Serves(g) => Serves(g)' \/ (g = h /\ known[h] = 0)
  PROVE  ReplicaInv'
<1>1. /\ UNCHANGED <<lb, lbSeen, setsSeen, known>>
      /\ \A g \in Hash \ {h} : sets'[g] = sets[g]
      /\ sets[h].exists /\ sets'[h].exists /\ sets'[h].replicas = sets[h].replicas
  BY ReconcileSetWrites
<1>2. AskedFor' /\ SeenExist' /\ SeenSetIsScaled' /\ ZeroStays'
  BY <1>1 DEF ReplicaInv, AskedFor, SeenExist, SeenSetIsScaled, ZeroStays, TypeInv, IsLB
<1>3. sets'[h].ready > 0 => Serves(h)
  <2>1. PICK R : R = ReadyLive(MachinesOf(h))
    OBVIOUS
  <2>2. sets'[h].ready = Cardinality(R)
    BY <2>1, ReconcileSetWrites DEF readyMachineCount
  <2>3. HAVE sets'[h].ready > 0
  <2>4. PICK m : m \in R
    BY <2>2, <2>3, FS_EmptySet
  <2>5. m \in Live(MachinesOf(h)) /\ MachinesOf(h)[m].ready
    BY <2>1, <2>4 DEF ReadyLive
  <2>6. m \in Machine /\ machines[m].set = h /\ machines[m].st = "live" /\ machines[m].ready
    BY <2>5, MachinesOfSet
  <2> QED BY <2>6 DEF Serves
<1>4. ReadyIsTrue'
  BY <1>1, <1>3 DEF ReplicaInv, ReadyIsTrue
<1>5. SuccessorServes'
  <2> SUFFICES ASSUME NEW g \in Hash, sets'[g].exists, sets'[g].replicas = 0
               PROVE  \E c \in Hash : sets'[c].exists /\ sets'[c].replicas > 0 /\ Serves(c)'
    BY DEF SuccessorServes
  <2>1. sets[g].exists /\ sets[g].replicas = 0
    BY <1>1
  <2>2. PICK c \in Hash : sets[c].exists /\ sets[c].replicas > 0 /\ Serves(c)
    BY <2>1 DEF ReplicaInv, SuccessorServes
  <2>3. ~(c = h /\ known[h] = 0)
    BY <2>2 DEF ReplicaInv, ZeroStays
  <2> QED BY <1>1, <2>2, <2>3
<1> QED BY <1>2, <1>4, <1>5 DEF ReplicaInv

\* The caches catch up, and the user asks for another spec.
LEMMA ReplicaRefresh ==
  ASSUME TypeInv, WantedIsSeen, ReplicaInv,
         RefreshLB \/ RefreshSets \/ \E h \in Hash : RefreshSet(h) \/ ChangeSpec(h),
         \A h \in Hash : Serves(h) => Serves(h)'
  PROVE  ReplicaInv'
<1> USE DEF ReplicaInv
<1>1. CASE RefreshLB
  <2>1. /\ UNCHANGED <<lb, sets, setsSeen, known>> /\ lbSeen' = lb
    BY <1>1 DEF RefreshLB
  <2>2. SeenSetIsScaled'
    BY <2>1 DEF SeenSetIsScaled, WantedIsSeen
  <2> QED BY <2>1, <2>2 DEF AskedFor, SeenExist, ZeroStays, ReadyIsTrue, SuccessorServes
<1>2. CASE RefreshSets
  <2>1. /\ UNCHANGED <<lb, sets, lbSeen, known>> /\ setsSeen' = sets
    BY <1>2 DEF RefreshSets
  <2> QED BY <2>1 DEF AskedFor, SeenExist, SeenSetIsScaled, ZeroStays, ReadyIsTrue, SuccessorServes
<1>3. ASSUME NEW h \in Hash, RefreshSet(h)
      PROVE  ReplicaInv'
  <2>1. /\ UNCHANGED <<lb, sets, lbSeen, setsSeen>> /\ sets[h].exists
        /\ known' = [known EXCEPT ![h] = sets[h].replicas] /\ known \in [Hash -> Replicas \cup {NotCached}]
    BY <1>3 DEF RefreshSet, caches, TypeInv
  <2>2. known'[h] = sets[h].replicas /\ \A g \in Hash \ {h} : known'[g] = known[g]
    BY <2>1
  <2>3. ZeroStays'
    BY <2>1, <2>2 DEF ZeroStays
  <2>4. \A g \in Hash : known'[g] # 0 => known[g] # 0
    BY <2>2 DEF ZeroStays
  <2>5. ReadyIsTrue'
    BY <2>1, <2>4 DEF ReadyIsTrue
  <2> QED BY <2>1, <2>3, <2>5 DEF AskedFor, SeenExist, SeenSetIsScaled, SuccessorServes
<1>4. ASSUME NEW h \in Hash, ChangeSpec(h)
      PROVE  ReplicaInv'
  <2>1. lb'.replicas = lb.replicas
    BY <1>4, LBWant DEF ChangeSpec, TypeInv
  <2>2. UNCHANGED <<sets, lbSeen, setsSeen, known>>
    BY <1>4 DEF ChangeSpec, caches
  <2> QED BY <2>1, <2>2 DEF AskedFor, SeenExist, SeenSetIsScaled, ZeroStays, ReadyIsTrue, SuccessorServes
<1> QED BY <1>1, <1>2, <1>3, <1>4

\* No step breaks the invariant.
LEMMA ReplicaStep ==
  ASSUME TypeInv, MachinesTyped, WantedIsSeen, ReplicaInv, [Next]_vars
  PROVE  ReplicaInv'
<1>1. ASSUME NEW h \in Hash, ReconcileSet(h)
      PROVE  ReplicaInv'
  <2>1. \A g \in Hash : Serves(g) => Serves(g)' \/ (g = h /\ known[h] = 0)
    BY <1>1, ServesReconcile
  <2> QED BY <1>1, <2>1, ReplicaReconcile
<1>2. ASSUME \A g \in Hash : Serves(g) => Serves(g)', ~\E h \in Hash : ReconcileSet(h)
      PROVE  ReplicaInv'
  <2>1. AskedFor
    BY DEF ReplicaInv
  <2>2. \/ Quiet \/ CreateSet \/ WaitForCurrentSet \/ ScaleDownOldLoadBalancerSets
        \/ RefreshLB \/ RefreshSets
        \/ \E h \in Hash : RefreshSet(h) \/ ChangeSpec(h)
    BY <1>2, <2>1, Steps
  <2> QED BY <1>2, <2>2, ReplicaQuiet, ReplicaCreate, ReplicaUpdate, ReplicaRefresh
<1> QED BY <1>1, <1>2, ServesOther

\* The replica invariant at the start.
LEMMA ReplicaInit ==
  ASSUME Init
  PROVE  MachinesTyped /\ WantedIsSeen /\ ReplicaInv
<1>1. TypeInv
  BY TypeInit
<1>2. /\ lb.want \in Hash /\ lbSeen = lb /\ \A h \in Hash : known[h] = -1
      /\ \A h \in Hash : ~sets[h].exists /\ ~setsSeen[h].exists
      /\ \A h \in Hash : sets[h].ready = 0 /\ setsSeen[h].ready = 0
  BY <1>1 DEF Init, TypeInv, IsLB, NoSet, NotCached
<1>3. lb.replicas > 0
  BY DEF Init, Replicas
<1>4. MachinesTyped
  BY DEF Init, MachinesTyped
<1>5. ReadyIsTrue /\ ZeroStays
  BY <1>2 DEF ReadyIsTrue, ZeroStays
<1>6. SeenExist /\ SeenSetIsScaled /\ SuccessorServes /\ WantedIsSeen
  BY <1>2 DEF SeenExist, SeenSetIsScaled, SuccessorServes, WantedIsSeen
<1> QED BY <1>3, <1>4, <1>5, <1>6 DEF ReplicaInv, AskedFor

\* What every state of the rollout satisfies.
LEMMA ReplicasTrue ==
  ASSUME ~Rollback
  PROVE  Spec => [](TypeInv /\ MachinesTyped /\ WantedIsSeen /\ ReplicaInv)
<1> DEFINE Inv == TypeInv /\ MachinesTyped /\ WantedIsSeen /\ ReplicaInv
<1>1. Init => Inv
  BY TypeInit, ReplicaInit
<1>2. Inv /\ [Next]_vars => Inv'
  BY TypeStep, MachinesTypedStep, WantedStep, ReplicaStep
<1> QED BY <1>1, <1>2, PTL DEF Spec

\* reconcileLoadBalancerSet scales the old sets down after the upscale "to ensure
\* no downtime": once a machine serves there is always one.  For every number of
\* hashes, machines, replicas and changes, whatever the caches miss and whichever
\* requests fail, as long as no spec comes back.
THEOREM SomeMachineServes ==
  ASSUME ~Rollback
  PROVE  Spec => NoDowntime
<1>1. TypeInv /\ MachinesTyped /\ ReplicaInv /\ [Next]_vars
        => [ReadyMachines # {} => ReadyMachines' # {}]_vars
  <2> SUFFICES ASSUME TypeInv, MachinesTyped, ReplicaInv, [Next]_vars, ReadyMachines # {}
               PROVE  ReadyMachines' # {}
    OBVIOUS
  <2>1. PICK m \in Machine : machines[m].st = "live" /\ machines[m].ready
    BY DEF ReadyMachines
  <2>2. ASSUME NEW h \in Hash, Serves(h)'
        PROVE  ReadyMachines' # {}
    BY <2>2 DEF Serves, ReadyMachines
  <2>3. ASSUME NEW h \in Hash, ReconcileSet(h)
        PROVE  ReadyMachines' # {}
    <3>1. CASE machines'[m].st = "live"
      BY <2>1, <2>3, <3>1, ReconcileSetMachines DEF ReadyMachines
    <3>2. CASE machines'[m].st # "live"
      <4>1. m \in MachinesForDeletion(MachinesOf(h))
        BY <2>1, <2>3, <3>2, ReconcileSetMachines
      <4>2. m \in Existing(MachinesOf(h))
        BY <4>1 DEF MachinesForDeletion
      <4>3. Serves(h)
        BY <2>1, <4>2, MachinesOfSet DEF Serves
      <4>4. CASE known[h] = 0
        <5>1. PICK c \in Hash : sets[c].exists /\ sets[c].replicas > 0 /\ Serves(c)
          BY <4>4 DEF ReplicaInv, ZeroStays, SuccessorServes
        <5>2. c # h
          BY <4>4, <5>1 DEF ReplicaInv, ZeroStays
        <5> QED BY <2>2, <2>3, <5>1, <5>2, ServesReconcile
      <4>5. CASE known[h] # 0
        BY <2>2, <2>3, <4>3, <4>5, ServesReconcile
      <4> QED BY <4>4, <4>5
    <3> QED BY <3>1, <3>2
  <2>4. CASE ~\E h \in Hash : ReconcileSet(h)
    BY <2>1, <2>4, OtherMachines DEF ReadyMachines
  <2> QED BY <2>3, <2>4
<1> QED BY <1>1, ReplicasTrue, PTL DEF Spec, NoDowntime

-----------------------------------------------------------------------------
(***************************************************************************)
(* The virtual IP.  The set of the wanted hash has the revision of the     *)
(* LoadBalancer as long as the controller works on it, so a machine of it  *)
(* that holds the virtual IP and works is not outbid, and the set          *)
(* controller does not delete it.                                          *)
(***************************************************************************)
KnownRevision ==
    /\ lb.rev = 0 \/ lbSeen.rev = 0 => \A h \in Hash : ~sets[h].exists
    /\ sets[lbSeen.want].exists =>
          /\ sets[lbSeen.want].rev = lb.rev
          /\ ~setsSeen[lbSeen.want].exists => NextRevisions = {lb.rev}

MachinesHaveSets ==
    \A m \in Machine : machines[m].st # "absent" =>
        machines[m].set \in Hash /\ sets[machines[m].set].exists
StatusOfExisting ==
    \A h \in Hash : /\ sets[h].hasMaster = "True" => sets[h].exists
                    /\ setsSeen[h].hasMaster = "True" => setsSeen[h].exists
ClaimsAreTrue ==
    \A m \in Machine :
        machines[m].st # "absent" /\ machines[m].set = lbSeen.want /\ machines[m].claim
        => vip = m /\ machines[m].ready
MasterHolds ==
    sets[lbSeen.want].hasMaster = "True" \/ setsSeen[lbSeen.want].hasMaster = "True" =>
        /\ vip \in Machine /\ machines[vip].set = lbSeen.want
        /\ machines[vip].st = "live" /\ machines[vip].claim

MasterInv == MachinesHaveSets /\ StatusOfExisting /\ ClaimsAreTrue /\ MasterHolds

\* There is one next revision for a list of sets.
LEMMA NextRevisionUnique ==
  ASSUME TypeInv, NEW a \in NextRevisions, NEW b \in NextRevisions
  PROVE  a = b
<1>1. \A h \in Hash : setsSeen[h].rev \in Nat
  BY DEF TypeInv, SetObject
<1>2. \A n \in NextRevisions : n \in Nat /\ n >= 1 /\ \A h \in SeenSets : setsSeen[h].rev < n
  BY NextRevisionType
<1>3. \A n \in NextRevisions : n = 1 \/ \E h \in SeenSets : n = setsSeen[h].rev + 1
  BY DEF NextRevisions
<1>4. \A h \in SeenSets : setsSeen[h].rev \in Nat
  BY <1>1 DEF SeenSets
<1>5. a <= b
  BY <1>2, <1>3, <1>4
<1>6. b <= a
  BY <1>2, <1>3, <1>4
<1> QED BY <1>2, <1>5, <1>6

\* Steps that change neither which sets exist nor their revisions
LEMMA KnownRevisionSame ==
  ASSUME TypeInv, KnownRevision, SameRollout
  PROVE  KnownRevision'
<1> USE DEF SameRollout, Same
<1>0. lbSeen.want \in Hash
  BY DEF TypeInv, IsLB
<1>1. SeenSets' = SeenSets /\ \A h \in SeenSets : setsSeen'[h].rev = setsSeen[h].rev
  BY DEF SeenSets
<1>2. {setsSeen[h].rev + 1 : h \in SeenSets}' = {setsSeen[h].rev + 1 : h \in SeenSets}
  BY <1>1
<1>3. NextRevisions' = NextRevisions
  BY <1>1, <1>2 DEF NextRevisions
<1> QED BY <1>0, <1>3 DEF KnownRevision

\* The set that the LoadBalancer controller works on has the revision of the
\* LoadBalancer, although the next revision comes from a cache.
LEMMA KnownRevisionStep ==
  ASSUME TypeInv, WantedIsSeen, AskedFor, KnownRevision, [Next]_vars
  PROVE  KnownRevision'
<1> DEFINE w == lbSeen.want
<1>0. lb.want \in Hash /\ w \in Hash
  BY DEF TypeInv, IsLB
<1>1. CASE InitRevision
  BY <1>0, <1>1, InitRevisionEffect DEF KnownRevision
<1>2. CASE CreateSet
  <2>1. /\ lb'.want = lb.want /\ lb'.rev \in NextRevisions /\ UNCHANGED <<lbSeen, setsSeen>>
        /\ ~setsSeen[w].exists
        /\ \/ sets' = sets
           \/ sets'[w].exists /\ sets'[w].rev = lb'.rev
    BY <1>2, CreateSetEffect
  <2>2. lb'.rev # 0 /\ lbSeen.rev # 0
    BY <1>2, <2>1, NextRevisionType, CreateSetWrites
  <2>3. NextRevisions' = NextRevisions
    BY <2>1 DEF NextRevisions, SeenSets
  <2>4. NextRevisions = {lb'.rev}
    BY <2>1, NextRevisionUnique
  <2>5. sets'[w].exists => sets'[w].rev = lb'.rev
    BY <2>1, <2>4 DEF KnownRevision
  <2> HIDE DEF w
  <2>6. lbSeen'.want = w /\ lbSeen'.rev = lbSeen.rev
    BY <2>1 DEF w
  <2> QED BY <2>1, <2>2, <2>3, <2>4, <2>5, <2>6 DEF KnownRevision
<1>3. ASSUME NEW h \in Hash, ChangeSpec(h)
      PROVE  KnownRevision'
  <2>1. lb'.rev = lb.rev /\ UNCHANGED <<sets, lbSeen, setsSeen>>
    BY <1>3, ChangeSpecEffect
  <2> QED BY <2>1 DEF KnownRevision, NextRevisions, SeenSets
<1>4. CASE RefreshLB
  <2>1. UNCHANGED <<lb, sets, setsSeen>> /\ lbSeen' = lb
    BY <1>4 DEF RefreshLB
  <2>2. NextRevisions' = NextRevisions
    BY <2>1 DEF NextRevisions, SeenSets
  <2>3. sets[lb.want].exists => w = lb.want
    BY DEF WantedIsSeen
  <2> QED BY <2>1, <2>2, <2>3 DEF KnownRevision
<1>5. CASE RefreshSets
  <2>1. UNCHANGED <<lb, sets, lbSeen>> /\ setsSeen' = sets
    BY <1>5 DEF RefreshSets
  <2> QED BY <2>1 DEF KnownRevision
<1> QED BY <1>1, <1>2, <1>3, <1>4, <1>5, Effects, KnownRevisionSame

\* keepalived: nobody outbids a working machine of that set.
LEMMA HolderStays ==
  ASSUME MachinesTyped, KnownRevision, NEW m \in Machine, sets[lbSeen.want].exists,
         vip \in Machine, machines[vip].set = lbSeen.want, machines[vip].ready
  PROVE  ~MayElect(m)
<1>1. Priority(vip) = 160 /\ (Priority(m) = 160 \/ Priority(m) = 150)
  BY DEF KnownRevision, Priority, RevisionReady
<1>2. vip # NoMachine
  BY RolloutAssumption
<1> QED BY <1>1, <1>2 DEF MayElect

\* The yawollet reports, keepalived elects and machines go.
LEMMA MasterMachines ==
  ASSUME TypeInv, MachinesTyped, SeenExist, KnownRevision, MasterInv,
         NEW m \in Machine, Report(m) \/ Elect(m) \/ MachineGone(m)
  PROVE  MasterInv'
<1> DEFINE w == lbSeen.want
<1> USE DEF MachinesTyped
<1>0. w \in Hash
  BY DEF TypeInv, IsLB
<1>1. UNCHANGED <<lb, lbSeen, sets, setsSeen>>
  BY DEF Report, Elect, MachineGone, caches
<1>2. StatusOfExisting'
  BY <1>1 DEF MasterInv, StatusOfExisting
<1>3. CASE Report(m)
  <2>1. PICK b \in BOOLEAN :
          b = (vip = m) /\ machines' = [machines EXCEPT ![m].ready = TRUE, ![m].claim = b]
    BY <1>3 DEF Report
  <2>2. /\ vip' = vip
        /\ machines'[m].st = machines[m].st /\ machines'[m].set = machines[m].set
        /\ machines'[m].ready /\ (machines'[m].claim <=> vip = m)
        /\ \A n \in Machine \ {m} : machines'[n] = machines[n]
    BY <1>3, <2>1 DEF Report
  <2>3. MachinesHaveSets'
    BY <1>1, <2>2 DEF MasterInv, MachinesHaveSets
  <2>4. ClaimsAreTrue'
    BY <1>1, <2>2 DEF MasterInv, ClaimsAreTrue
  <2>5. MasterHolds'
    BY <1>1, <2>2 DEF MasterInv, MasterHolds
  <2> QED BY <1>2, <2>3, <2>4, <2>5 DEF MasterInv
<1>4. CASE Elect(m)
  <2>1. machines' = machines /\ vip' = m /\ MayElect(m)
    BY <1>4 DEF Elect
  <2>2. MachinesHaveSets'
    BY <1>1, <2>1 DEF MasterInv, MachinesHaveSets
  <2>3. ASSUME NEW n \in Machine, machines[n].st # "absent", machines[n].set = w,
               machines[n].claim
        PROVE  FALSE
    <3>1. vip = n /\ machines[n].ready /\ sets[w].exists
      BY <2>3 DEF MasterInv, ClaimsAreTrue, MachinesHaveSets
    <3> QED BY <2>1, <2>3, <3>1, HolderStays
  <2>4. ClaimsAreTrue'
    BY <1>1, <2>1, <2>3 DEF ClaimsAreTrue
  <2>5. MasterHolds'
    BY <1>1, <2>1, <2>3 DEF MasterInv, MasterHolds
  <2> QED BY <1>2, <2>2, <2>4, <2>5 DEF MasterInv
<1>5. CASE MachineGone(m)
  <2>1. /\ machines[m].st = "deleting"
        /\ machines'[m].st = "absent" /\ (vip # m => vip' = vip)
        /\ \A n \in Machine \ {m} : machines'[n] = machines[n]
    BY <1>5 DEF MachineGone
  <2>2. MachinesHaveSets'
    BY <1>1, <2>1 DEF MasterInv, MachinesHaveSets
  <2>3. ClaimsAreTrue'
    BY <1>1, <2>1 DEF MasterInv, ClaimsAreTrue
  <2>4. MasterHolds'
    BY <1>1, <2>1 DEF MasterInv, MasterHolds
  <2> QED BY <1>2, <2>2, <2>3, <2>4 DEF MasterInv
<1> QED BY <1>3, <1>4, <1>5

\* While the set controller knows that the set should have machines, it does not
\* delete the one that holds the virtual IP.
LEMMA HolderIsSpared ==
  ASSUME TypeInv, MachinesTyped, ReplicaInv, MasterInv, ReconcileSet(lbSeen.want),
         vip \in Machine, machines[vip].set = lbSeen.want,
         machines[vip].st = "live", machines[vip].claim
  PROVE  machines'[vip].st = "live"
<1> DEFINE w == lbSeen.want
<1>0. w \in Hash
  BY DEF TypeInv, IsLB
<1>1. sets[w].exists /\ known[w] # 0
  BY <1>0, ReconcileSetWrites DEF ReplicaInv, SeenSetIsScaled, ZeroStays
<1>2. known[w] \in Nat /\ known[w] >= 1
  BY <1>0, <1>1 DEF TypeInv, Replicas, NotCached, ReconcileSet
<1>3. machines[vip].ready
  BY DEF MasterInv, ClaimsAreTrue
<1> SUFFICES ASSUME machines'[vip].st # "live"
             PROVE  FALSE
  OBVIOUS
<1> HIDE DEF w
<1>4. ReconcileSet(w) /\ machines[vip].set = w
  BY DEF w
<1>5. vip \in MachinesForDeletion(MachinesOf(w)) /\ HasSurplus(MachinesOf(w), known[w])
  BY <1>0, <1>4, ReconcileSetMachines
<1>6. vip \in Existing(MachinesOf(w)) /\ MachinesOf(w)[vip].ready /\ MachinesOf(w)[vip].claim
  BY <1>0, <1>3, <1>4, MachinesOfSet
<1>7. \A n \in Existing(MachinesOf(w)) : MachinesOf(w)[n].claim
  BY <1>5, <1>6 DEF MachinesForDeletion
<1>8. PICK S : S = Live(MachinesOf(w))
  OBVIOUS
<1>9. IsFiniteSet(S) /\ Cardinality(S) \in Nat /\ known[w] < Cardinality(S)
  BY <1>5, <1>8, RolloutAssumption, FS_Subset, FS_CardinalityType DEF Live, HasSurplus
<1>10. Cardinality(S \ {vip}) # 0
  <2>1. Cardinality(S \ {vip}) = IF vip \in S THEN Cardinality(S) - 1 ELSE Cardinality(S)
    BY <1>9, FS_RemoveElement
  <2> QED BY <1>2, <1>9, <2>1
<1>11. PICK n \in S : n # vip
  BY <1>10, FS_EmptySet
<1>12. /\ n \in Machine /\ machines[n].set = w /\ machines[n].st # "absent"
       /\ machines[n].claim
  BY <1>0, <1>7, <1>8, <1>11, MachinesOfSet
<1> QED BY <1>11, <1>12 DEF MasterInv, ClaimsAreTrue, w

\* Nor does it write a condition that is not true.
LEMMA MasterReconcile ==
  ASSUME TypeInv, MachinesTyped, ReplicaInv, MasterInv, NEW h \in Hash, ReconcileSet(h)
  PROVE  MasterInv'
<1> DEFINE w == lbSeen.want
<1>0. w \in Hash
  BY DEF TypeInv, IsLB
<1>1. /\ UNCHANGED <<lb, lbSeen, setsSeen, known, vip>>
      /\ \A g \in Hash \ {h} : sets'[g] = sets[g]
      /\ sets[h].exists /\ sets'[h].exists
      /\ sets'[h].hasMaster = "True" => hasKeepalivedMaster(MachinesOf(h))
  BY ReconcileSetWrites
<1>2. /\ \A m \in Machine : machines[m].st # "absent" =>
            /\ machines'[m].set = machines[m].set
            /\ machines'[m].ready = machines[m].ready /\ machines'[m].claim = machines[m].claim
            /\ machines'[m].st = machines[m].st \/ machines'[m].st = "deleting"
      /\ \A m \in Machine : machines[m].st = "absent" =>
            \/ machines'[m] = machines[m]
            \/ machines'[m].set = h /\ ~machines'[m].claim
  <2>1. NewMachine(h).set = h /\ ~NewMachine(h).claim
    BY DEF NewMachine
  <2>2. /\ \A m \in Machine : machines[m].st # "absent" =>
              /\ machines'[m].set = machines[m].set
              /\ machines'[m].ready = machines[m].ready /\ machines'[m].claim = machines[m].claim
              /\ machines'[m].st = machines[m].st \/ machines'[m].st = "deleting"
        /\ \A m \in Machine : machines[m].st = "absent" =>
              machines'[m] = machines[m] \/ machines'[m] = NewMachine(h)
    BY ReconcileSetMachines
  <2> QED BY <2>1, <2>2, Zenon
<1>3. MachinesHaveSets'
  BY <1>1, <1>2 DEF MasterInv, MachinesHaveSets
<1>4. StatusOfExisting'
  BY <1>1 DEF MasterInv, StatusOfExisting
<1>5. ClaimsAreTrue'
  BY <1>1, <1>2 DEF MasterInv, ClaimsAreTrue
<1>6. MasterHolds'
  <2> SUFFICES ASSUME sets'[w].hasMaster = "True" \/ setsSeen[w].hasMaster = "True"
               PROVE  /\ vip \in Machine /\ machines'[vip].set = w
                      /\ machines'[vip].st = "live" /\ machines'[vip].claim
    BY <1>1 DEF MasterHolds
  <2>1. /\ vip \in Machine /\ machines[vip].set = w
        /\ machines[vip].st = "live" /\ machines[vip].claim
    <3>1. CASE h = w /\ sets'[w].hasMaster = "True"
      <4>1. PICK m \in Live(MachinesOf(h)) : MachinesOf(h)[m].claim
        BY <1>1, <3>1 DEF hasKeepalivedMaster
      <4>2. m \in Existing(MachinesOf(h))
        BY <4>1 DEF Existing, Live
      <4>3. m \in Machine /\ machines[m].set = w /\ machines[m].st = "live" /\ machines[m].claim
        BY <3>1, <4>1, <4>2, MachinesOfSet
      <4> QED BY <4>3 DEF MasterInv, ClaimsAreTrue
    <3>2. CASE h # w \/ setsSeen[w].hasMaster = "True"
      BY <1>0, <1>1, <3>2 DEF MasterInv, MasterHolds
    <3> QED BY <3>1, <3>2
  <2>2. machines'[vip].st = "live"
    <3>1. CASE h = w
      BY <2>1, <3>1, HolderIsSpared
    <3>2. CASE h # w
      <4>1. vip \notin MachinesForDeletion(MachinesOf(h))
        <5>1. vip \notin Existing(MachinesOf(h))
          BY <2>1, <3>2, MachinesOfSet
        <5> QED BY <5>1 DEF MachinesForDeletion
      <4> QED BY <2>1, <4>1, ReconcileSetMachines
    <3> QED BY <3>1, <3>2
  <2> QED BY <1>2, <2>1, <2>2
<1> QED BY <1>3, <1>4, <1>5, <1>6 DEF MasterInv

\* The other steps that change neither machines nor the holder.
LEMMA MasterSets ==
  ASSUME TypeInv, WantedIsSeen, SeenExist, AskedFor, MasterInv, UNCHANGED <<machines, vip>>,
         \/ Quiet \/ CreateSet \/ WaitForCurrentSet \/ ScaleDownOldLoadBalancerSets
         \/ RefreshLB \/ RefreshSets \/ \E h \in Hash : RefreshSet(h) \/ ChangeSpec(h)
  PROVE  MasterInv'
<1> DEFINE w == lbSeen.want
<1>0. w \in Hash /\ lb.want \in Hash
  BY DEF TypeInv, IsLB
<1>1. ASSUME lbSeen' = lbSeen,
             \A h \in Hash : sets[h].exists => sets'[h].exists,
             \A h \in Hash : sets'[h].hasMaster = "True" => sets[h].hasMaster = "True",
             \A h \in Hash : /\ setsSeen'[h].exists = setsSeen[h].exists
                             /\ setsSeen'[h].hasMaster = setsSeen[h].hasMaster
      PROVE  MasterInv'
  <2>1. MachinesHaveSets'
    BY <1>1 DEF MasterInv, MachinesHaveSets
  <2>2. StatusOfExisting'
    BY <1>1 DEF MasterInv, StatusOfExisting
  <2>3. ClaimsAreTrue'
    BY <1>1 DEF MasterInv, ClaimsAreTrue
  <2>4. MasterHolds'
    BY <1>0, <1>1 DEF MasterInv, MasterHolds
  <2> QED BY <2>1, <2>2, <2>3, <2>4 DEF MasterInv
<1>2. CASE Quiet
  BY <1>1, <1>2 DEF Quiet, SameSet
<1>3. CASE WaitForCurrentSet \/ ScaleDownOldLoadBalancerSets
  BY <1>1, <1>3, UpdateSetsWrites
<1>4. CASE CreateSet
  <2>1. /\ UNCHANGED <<lbSeen, setsSeen>>
        /\ \/ sets' = sets
           \/ /\ sets'[w].exists /\ sets'[w].hasMaster = "unset"
              /\ \A h \in Hash \ {w} : sets'[h] = sets[h]
    BY <1>4, CreateSetWrites
  <2> HIDE DEF w
  <2> QED BY <1>1, <2>1
<1>5. CASE \E h \in Hash : RefreshSet(h) \/ ChangeSpec(h)
  BY <1>1, <1>5 DEF RefreshSet, ChangeSpec, caches
<1>6. CASE RefreshLB
  <2>1. UNCHANGED <<sets, setsSeen>> /\ lbSeen' = lb
    BY <1>6 DEF RefreshLB
  <2>2. CASE sets[lb.want].exists
    <3>1. lb.want = w
      BY <2>2 DEF WantedIsSeen
    <3> QED BY <2>1, <3>1
            DEF MasterInv, MachinesHaveSets, StatusOfExisting, ClaimsAreTrue, MasterHolds
  <2>3. CASE ~sets[lb.want].exists
    <3>1. MachinesHaveSets' /\ StatusOfExisting'
      BY <2>1 DEF MasterInv, MachinesHaveSets, StatusOfExisting
    <3>2. ClaimsAreTrue'
      BY <2>1, <2>3 DEF MasterInv, MachinesHaveSets, ClaimsAreTrue
    <3>3. MasterHolds'
      BY <1>0, <2>1, <2>3 DEF MasterInv, StatusOfExisting, SeenExist, MasterHolds
    <3> QED BY <3>1, <3>2, <3>3 DEF MasterInv
  <2> QED BY <2>2, <2>3
<1>7. CASE RefreshSets
  <2>1. UNCHANGED <<sets, lbSeen>> /\ setsSeen' = sets
    BY <1>7 DEF RefreshSets
  <2> QED BY <2>1 DEF MasterInv, MachinesHaveSets, StatusOfExisting, ClaimsAreTrue, MasterHolds
<1> QED BY <1>2, <1>3, <1>4, <1>5, <1>6, <1>7

\* Only these steps change the machines or the holder.
LEMMA MachineSteps ==
  ASSUME [Next]_vars
  PROVE  \/ UNCHANGED <<machines, vip>>
         \/ \E h \in Hash : ReconcileSet(h)
         \/ \E m \in Machine : Report(m) \/ Elect(m) \/ MachineGone(m)
<1>1. CASE ReconcileLB
  BY <1>1 DEF ReconcileLB, InitRevision, CreateSet, WaitForCurrentSet,
              ScaleDownOldLoadBalancerSets, UpdateSets
<1>2. CASE \/ RefreshLB \/ RefreshSets \/ UNCHANGED vars
           \/ \E n \in Replicas \ {0} : ChangeReplicas(n)
           \/ \E h \in Hash : RefreshSet(h) \/ Age(h) \/ AgeCached(h) \/ ChangeSpec(h)
  BY <1>2 DEF RefreshLB, RefreshSets, vars, ChangeReplicas, RefreshSet, Age, AgeCached, ChangeSpec
<1> QED BY <1>1, <1>2, Zenon DEF Next

\* No step breaks the invariant.
LEMMA MasterStep ==
  ASSUME TypeInv, MachinesTyped, WantedIsSeen, ReplicaInv, KnownRevision, MasterInv, [Next]_vars
  PROVE  MasterInv'
<1>1. SeenExist /\ AskedFor
  BY DEF ReplicaInv
<1>2. CASE \E h \in Hash : ReconcileSet(h)
  BY <1>2, MasterReconcile
<1>3. CASE \E m \in Machine : Report(m) \/ Elect(m) \/ MachineGone(m)
  BY <1>1, <1>3, MasterMachines
<1>4. CASE UNCHANGED <<machines, vip>> /\ ~\E h \in Hash : ReconcileSet(h)
  BY <1>1, <1>4, Steps, MasterSets
<1> QED BY <1>2, <1>3, <1>4, MachineSteps

\* Nothing exists and nobody claims to be master at the start.
LEMMA MasterInit ==
  ASSUME Init
  PROVE  KnownRevision /\ MasterInv
<1>1. TypeInv
  BY TypeInit
<1>2. /\ lb.want \in Hash /\ lbSeen = lb
      /\ \A h \in Hash : ~sets[h].exists
      /\ \A h \in Hash : sets[h].hasMaster = "unset" /\ setsSeen[h].hasMaster = "unset"
  BY <1>1 DEF Init, TypeInv, IsLB, NoSet
<1>3. \A m \in Machine : machines[m].st = "absent"
  BY DEF Init
<1> QED BY <1>2, <1>3 DEF KnownRevision, MasterInv, MachinesHaveSets, StatusOfExisting,
                          ClaimsAreTrue, MasterHolds

\* LBSetHasKeepalivedMaster: the set that the virtual IP is in is not scaled down
\* before the virtual IP has moved to the current set, unless that has been without
\* a master for 10 minutes.  For every number of hashes, machines, replicas and
\* changes, whatever the caches miss and whichever requests fail, as long as no spec
\* comes back.
THEOREM VipMovesFirst ==
  ASSUME ~Rollback
  PROVE  Spec => VipIsHandedOver
<1> DEFINE Inv == /\ TypeInv /\ MachinesTyped /\ WantedIsSeen /\ ReplicaInv
                  /\ KnownRevision /\ MasterInv
           HandsOver == \A h \in Hash : sets[h].replicas > 0 /\ sets'[h].replicas = 0
                           => vip = NoMachine \/ machines[vip].set # h \/ Fallback
<1>1. Init => Inv
  BY TypeInit, ReplicaInit, MasterInit
<1>2. Inv /\ [Next]_vars => Inv'
  <2> HAVE Inv /\ [Next]_vars
  <2>1. AskedFor
    BY DEF ReplicaInv
  <2> QED BY <2>1, TypeStep, MachinesTypedStep, WantedStep, ReplicaStep, KnownRevisionStep, MasterStep
<1>3. Inv /\ [Next]_vars => [HandsOver]_vars
  <2> SUFFICES ASSUME Inv, [Next]_vars, NEW h \in Hash,
                      sets[h].replicas > 0, sets'[h].replicas = 0
               PROVE  vip = NoMachine \/ machines[vip].set # h \/ Fallback
    BY DEF HandsOver
  <2> DEFINE w == lbSeen.want
  <2>0. w \in Hash /\ SeenExist /\ AskedFor
    BY DEF ReplicaInv, TypeInv, IsLB
  <2>1. CASE WaitForCurrentSet \/ ScaleDownOldLoadBalancerSets
    <3>1. setsSeen[w].exists /\ sets[w].exists
      BY <2>0, <2>1, UpdateSetsWrites DEF SeenExist
    <3>2. sets'[w].replicas > 0
      BY <2>0, <2>1, <3>1, UpdateSetsWrites DEF ReplicaInv, SeenSetIsScaled, AskedFor
    <3>3. h # w
      BY <3>2
    <3>4. CurrentSetIsReady
      BY <2>0, <2>1, <3>3, UpdateSetsWrites
    <3>5. CASE CurrentSet.hasMaster # "True"
      BY <3>4, <3>5 DEF CurrentSetIsReady, LBSetHasKeepalivedMaster, Fallback
    <3>6. CASE CurrentSet.hasMaster = "True"
      <4>1. sets[w].hasMaster = "True" \/ setsSeen[w].hasMaster = "True"
        BY <3>6 DEF CurrentSet
      <4>2. machines[vip].set = w
        BY <4>1 DEF MasterInv, MasterHolds
      <4> QED BY <3>3, <4>2
    <3> QED BY <3>5, <3>6
  <2>2. CASE Quiet
    BY <2>2 DEF Quiet, SameSet
  <2>3. CASE CreateSet
    BY <2>0, <2>3, CreateSetWrites
  <2>4. CASE \/ RefreshLB \/ RefreshSets \/ \E g \in Hash : RefreshSet(g) \/ ChangeSpec(g)
    BY <2>4 DEF RefreshLB, RefreshSets, RefreshSet, ChangeSpec
  <2>5. ASSUME NEW g \in Hash, ReconcileSet(g)
        PROVE  vip = NoMachine \/ machines[vip].set # h \/ Fallback
    BY <2>5, ReconcileSetWrites
  <2> QED BY <2>0, <2>1, <2>2, <2>3, <2>4, <2>5, Steps
<1> QED BY <1>1, <1>2, <1>3, PTL DEF Spec, VipIsHandedOver

-----------------------------------------------------------------------------
(***************************************************************************)
(* What is left of TypeOK: the status of the LoadBalancer, the machines    *)
(* and the bounds.                                                         *)
(***************************************************************************)
LBStatusObject == [replicas : Nat, ready : Nat]

RestTyped ==
    /\ lb.status \in LBStatusObject /\ lbSeen.status \in LBStatusObject
    /\ dirty \subseteq {"lb", "sets"}
    /\ MachinesTyped
    /\ changes \in 0 .. MaxChanges

\* The sum of the replicas in the status of the listed sets is a number.
LEMMA ReplicasSumType ==
  ASSUME TypeInv
  PROVE  MapThenSumSet(LAMBDA h : setsSeen[h].statusReplicas, SeenSets) \in Nat
<1> DEFINE F == [h \in SeenSets |-> setsSeen[h].statusReplicas]
           iter == CHOOSE i : i = [s \in SUBSET SeenSets |->
             IF s = {} THEN 0
             ELSE setsSeen[CHOOSE x \in s : TRUE].statusReplicas + i[s \ {CHOOSE x \in s : TRUE}]]
<1>1. IsFiniteSet(SeenSets)
  BY RolloutAssumption, FS_Subset DEF SeenSets
<1>2. \A h \in SeenSets : F[h] = setsSeen[h].statusReplicas /\ F[h] \in Nat
  BY DEF SeenSets, TypeInv, SetObject, Replicas
<1>3. PICK g : SumOn(SUBSET SeenSets, F, g)
  <2> HIDE DEF F
  <2> QED BY <1>1, SumExists
<1>4. \A s \in SUBSET SeenSets : s # {} => Any(s) \in SeenSets
  BY DEF Any
<1>5. g = [s \in SUBSET SeenSets |->
             IF s = {} THEN 0
             ELSE setsSeen[CHOOSE x \in s : TRUE].statusReplicas + g[s \ {CHOOSE x \in s : TRUE}]]
  BY <1>2, <1>3, <1>4 DEF SumOn, Any
<1>6. iter = [s \in SUBSET SeenSets |->
             IF s = {} THEN 0
             ELSE setsSeen[CHOOSE x \in s : TRUE].statusReplicas + iter[s \ {CHOOSE x \in s : TRUE}]]
  BY <1>5, Zenon
<1>7. SumOn(SUBSET SeenSets, F, iter)
  <2> HIDE DEF iter
  <2> QED BY <1>2, <1>4, <1>6 DEF SumOn, Any
<1>8. MapThenSumSet(LAMBDA h : setsSeen[h].statusReplicas, SeenSets) = iter[SeenSets]
  BY Zenon DEF MapThenSumSet, MapThenFoldSet
<1> HIDE DEF iter, F
<1>9. iter[SeenSets] \in Nat
  BY <1>1, <1>2, <1>7, SumIsNatural
<1> QED BY <1>8, <1>9, Zenon

\* So is the sum of their ready machines.
LEMMA ReadySumType ==
  ASSUME TypeInv
  PROVE  MapThenSumSet(LAMBDA h : setsSeen[h].ready, SeenSets) \in Nat
<1> DEFINE F == [h \in SeenSets |-> setsSeen[h].ready]
           iter == CHOOSE i : i = [s \in SUBSET SeenSets |->
             IF s = {} THEN 0
             ELSE setsSeen[CHOOSE x \in s : TRUE].ready + i[s \ {CHOOSE x \in s : TRUE}]]
<1>1. IsFiniteSet(SeenSets)
  BY RolloutAssumption, FS_Subset DEF SeenSets
<1>2. \A h \in SeenSets : F[h] = setsSeen[h].ready /\ F[h] \in Nat
  BY DEF SeenSets, TypeInv, SetObject
<1>3. PICK g : SumOn(SUBSET SeenSets, F, g)
  <2> HIDE DEF F
  <2> QED BY <1>1, SumExists
<1>4. \A s \in SUBSET SeenSets : s # {} => Any(s) \in SeenSets
  BY DEF Any
<1>5. g = [s \in SUBSET SeenSets |->
             IF s = {} THEN 0
             ELSE setsSeen[CHOOSE x \in s : TRUE].ready + g[s \ {CHOOSE x \in s : TRUE}]]
  BY <1>2, <1>3, <1>4 DEF SumOn, Any
<1>6. iter = [s \in SUBSET SeenSets |->
             IF s = {} THEN 0
             ELSE setsSeen[CHOOSE x \in s : TRUE].ready + iter[s \ {CHOOSE x \in s : TRUE}]]
  BY <1>5, Zenon
<1>7. SumOn(SUBSET SeenSets, F, iter)
  <2> HIDE DEF iter
  <2> QED BY <1>2, <1>4, <1>6 DEF SumOn, Any
<1>8. MapThenSumSet(LAMBDA h : setsSeen[h].ready, SeenSets) = iter[SeenSets]
  BY Zenon DEF MapThenSumSet, MapThenFoldSet
<1> HIDE DEF iter, F
<1>9. iter[SeenSets] \in Nat
  BY <1>1, <1>2, <1>7, SumIsNatural
<1> QED BY <1>8, <1>9, Zenon

\* A patch of the status leaves numbers.
LEMMA PatchedStatusType ==
  ASSUME TypeInv, lb.status \in LBStatusObject, NEW cached
  PROVE  PatchedStatus(cached) \in LBStatusObject
<1>1. PICK n \in Nat : n = MapThenSumSet(LAMBDA h : setsSeen[h].statusReplicas, SeenSets)
  BY ReplicasSumType
<1>2. PICK r \in Nat : r = MapThenSumSet(LAMBDA h : setsSeen[h].ready, SeenSets)
  BY ReadySumType
<1>3. StatusReplicasFromSetList = [replicas |-> n, ready |-> r]
  BY <1>1, <1>2 DEF StatusReplicasFromSetList
<1>4. PatchedStatus(cached) = [replicas |-> Patched(lb.status.replicas, cached.replicas, n),
                               ready |-> Patched(lb.status.ready, cached.ready, r)]
  BY <1>3 DEF PatchedStatus
<1> QED BY <1>4 DEF Patched, LBStatusObject

\* Which steps write the status of the LoadBalancer
LEMMA StatusStep ==
  ASSUME TypeInv, lb.status \in LBStatusObject, [Next]_vars
  PROVE  lb'.status \in LBStatusObject
<1> USE DEF TypeInv
<1>1. CASE InitRevision
  <2>1. lb' = [lb EXCEPT !.rev = 1]
    BY <1>1 DEF InitRevision, PatchLoadBalancerRevision
  <2> QED BY <2>1, LBRevision
<1>2. CASE CreateSet
  <2>1. PICK rev \in NextRevisions :
          \/ lb' = [PatchLoadBalancerRevision(rev) EXCEPT !.status = PatchedStatus(lb.status)]
          \/ lb' = PatchLoadBalancerRevision(rev)
    BY <1>2 DEF CreateSet
  <2>2. rev \in Nat
    BY NextRevisionType
  <2>3. PICK o : o = PatchLoadBalancerRevision(rev)
    OBVIOUS
  <2>4. IsLB(o) /\ o.status = lb.status
    BY <2>2, <2>3, LBRevision DEF PatchLoadBalancerRevision
  <2>5. CASE lb' = o
    BY <2>4, <2>5
  <2>6. CASE lb' = [o EXCEPT !.status = PatchedStatus(lb.status)]
    <3>1. PICK s \in LBStatusObject : s = PatchedStatus(lb.status)
      BY PatchedStatusType
    <3>2. lb' = [o EXCEPT !.status = s]
      BY <2>6, <3>1
    <3> QED BY <2>4, <3>1, <3>2, LBStatus
  <2> QED BY <2>1, <2>3, <2>5, <2>6
<1>3. CASE WaitForCurrentSet \/ ScaleDownOldLoadBalancerSets
  <2>1. PICK s \in LBStatusObject : s = PatchedStatus(lbSeen.status)
    BY PatchedStatusType
  <2>2. lb' = [lb EXCEPT !.status = s]
    BY <1>3, <2>1 DEF WaitForCurrentSet, ScaleDownOldLoadBalancerSets, UpdateSets
  <2> QED BY <2>1, <2>2, LBStatus
<1>4. ASSUME NEW h \in Hash, ChangeSpec(h)
      PROVE  lb'.status \in LBStatusObject
  BY <1>4, LBWant DEF ChangeSpec
<1>5. ASSUME NEW n \in Replicas \ {0}, ChangeReplicas(n)
      PROVE  lb'.status \in LBStatusObject
  BY <1>5, LBReplicas DEF ChangeReplicas
<1>6. CASE \/ RefreshLB \/ RefreshSets \/ UNCHANGED vars
           \/ \E h \in Hash : ReconcileSet(h) \/ RefreshSet(h) \/ Age(h) \/ AgeCached(h)
           \/ \E m \in Machine : Report(m) \/ Elect(m) \/ MachineGone(m)
  BY <1>6 DEF RefreshLB, RefreshSets, vars, ReconcileSet, RefreshSet, Age, AgeCached,
              Report, Elect, MachineGone
<1> QED BY <1>1, <1>2, <1>3, <1>4, <1>5, <1>6, Zenon DEF Next, ReconcileLB

\* Which steps change what the caches miss and the bound
LEMMA BoundsStep ==
  ASSUME dirty \subseteq {"lb", "sets"}, changes \in 0 .. MaxChanges, [Next]_vars
  PROVE  dirty' \subseteq {"lb", "sets"} /\ changes' \in 0 .. MaxChanges
<1>1. CASE ReconcileLB
  <2>1. dirty' = Written /\ changes' = changes
    BY <1>1 DEF ReconcileLB, InitRevision, CreateSet, WaitForCurrentSet,
                ScaleDownOldLoadBalancerSets, UpdateSets
  <2> QED BY <2>1 DEF Written
<1>2. CASE \/ \E h \in Hash : ChangeSpec(h)
           \/ \E n \in Replicas \ {0} : ChangeReplicas(n)
  BY <1>2, RolloutAssumption DEF ChangeSpec, ChangeReplicas, caches
<1>3. CASE \/ RefreshLB \/ RefreshSets \/ UNCHANGED vars
           \/ \E h \in Hash : ReconcileSet(h) \/ RefreshSet(h) \/ Age(h) \/ AgeCached(h)
           \/ \E m \in Machine : Report(m) \/ Elect(m) \/ MachineGone(m)
  BY <1>3 DEF RefreshLB, RefreshSets, vars, ReconcileSet, RefreshSet, Age, AgeCached,
              Report, Elect, MachineGone, caches
<1> QED BY <1>1, <1>2, <1>3, Zenon DEF Next

\* TypeOK, for every number of hashes, machines, replicas and changes.
THEOREM TypeCorrect == Spec => []TypeOK
<1>1. Init => TypeInv /\ RestTyped
  <2> HAVE Init
  <2>1. lb.status = [replicas |-> 0, ready |-> 0] /\ lbSeen = lb
    BY DEF Init
  <2>2. changes \in 0 .. MaxChanges /\ dirty = {} /\ MachinesTyped
    BY RolloutAssumption DEF Init, MachinesTyped
  <2> QED BY <2>1, <2>2, TypeInit DEF RestTyped, LBStatusObject
<1>2. TypeInv /\ RestTyped /\ [Next]_vars => (TypeInv /\ RestTyped)'
  <2> HAVE TypeInv /\ RestTyped /\ [Next]_vars
  <2>1. lbSeen' = lbSeen \/ lbSeen' = lb
    <3>1. CASE RefreshLB
      BY <3>1 DEF RefreshLB
    <3>2. CASE ~RefreshLB
      BY <3>2, Effects, InitRevisionEffect, CreateSetEffect, ChangeSpecEffect
         DEF SameRollout, RefreshSets
    <3> QED BY <3>1, <3>2
  <2>2. lb'.status \in LBStatusObject /\ lbSeen'.status \in LBStatusObject
    BY <2>1, StatusStep DEF RestTyped
  <2>3. dirty' \subseteq {"lb", "sets"} /\ changes' \in 0 .. MaxChanges
    BY BoundsStep DEF RestTyped
  <2>4. MachinesTyped'
    BY MachinesTypedStep DEF RestTyped
  <2>5. TypeInv'
    BY TypeStep
  <2> QED BY <2>2, <2>3, <2>4, <2>5 DEF RestTyped
<1>3. TypeInv /\ RestTyped => TypeOK
  <2> HAVE TypeInv /\ RestTyped
  <2>1. ASSUME NEW o, IsLB(o), o.status \in LBStatusObject
        PROVE  o \in LBObject
    BY <2>1 DEF IsLB, LBObject, LBStatusObject
  <2>2. lb \in LBObject /\ lbSeen \in LBObject
    BY <2>1 DEF TypeInv, RestTyped
  <2> QED BY <2>2 DEF TypeInv, RestTyped, MachinesTyped, TypeOK
<1> QED BY <1>1, <1>2, <1>3, PTL DEF Spec
=============================================================================
