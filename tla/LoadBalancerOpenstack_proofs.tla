-------------------- MODULE LoadBalancerOpenstack_proofs --------------------
(***************************************************************************)
(* Proofs about LoadBalancerOpenstack: types, no duplicates, nothing in    *)
(* use is deleted, and the refinement of FinalizerProtocol.  The first     *)
(* three hold for every number of failures and changes; the refinement     *)
(* while at most one request fails (an HTTP error of the search for server *)
(* groups counts as nothing found), and none where floating IPs are        *)
(* deleted with the LoadBalancer (a floating IP whose address could not be *)
(* published is left behind when the user names the address published      *)
(* before).                                                                *)
(***************************************************************************)
EXTENDS LoadBalancerOpenstack, FiniteSetTheorems, TLAPS

Res == [name : BOOLEAN, id : Nat]
Ips == {NoIp} \cup ({"fip", "port"} \X (Nat \ {NoId}))

Agrees(o) == o.res = lb.res /\ o.ip = lb.ip /\ o.finalizer = lb.finalizer

\* What the controller works on is current in the entries that only it writes.
Current ==
    /\ ~dirty => Agrees(seen)
    /\ pc # "idle" => Agrees(mem)

CloudType == cloud \in [Kinds -> SUBSET Nat]

\* The status names only resources that OpenStack has created.
IdsKnown == \A k \in Kinds : lb.res[k].id <= created[k]

TypeInv == TypeOK /\ CloudType /\ Current /\ IdsKnown

\* An outcome of a function that handles resources of kind k: the ID that it
\* writes is that of a created resource, or the one in the status.
OutcomeOf(k) ==
    {out \in [res : Res, resources : SUBSET (1 .. NextId(k)), ip : Ips,
              result : {"ok", "requeue", "error"}] :
        out.res.id \in (1 .. NextId(k)) \cup {mem.res[k].id, NoId}}

\* The parts of the typed state that the functions read.
LEMMA Parts ==
  ASSUME TypeInv, NEW k \in Kinds
  PROVE  /\ mem.res[k] \in Res /\ mem.ip \in Ips /\ mem.existing \in Nat
         /\ lb.res[k] \in Res /\ lb.ip \in Ips /\ lb.existing \in Nat
         /\ created[k] \in Nat /\ NextId(k) = created[k] + 1
         /\ cloud[k] \subseteq 1 .. created[k] /\ cloud[k] \subseteq 1 .. NextId(k)
         /\ Listed(k) \subseteq cloud[k]
<1>1. mem.res[k] \in Res /\ mem.ip \in Ips /\ mem.existing \in Nat
  BY DEF TypeInv, TypeOK, LBObject, Res, Ips
<1>2. lb.res[k] \in Res /\ lb.ip \in Ips /\ lb.existing \in Nat
  BY DEF TypeInv, TypeOK, LBObject, Res, Ips
<1>3. created[k] \in Nat /\ cloud[k] \subseteq 1 .. created[k]
  BY DEF TypeInv, TypeOK
<1> QED BY <1>1, <1>2, <1>3 DEF NextId, Listed

\* The parts of an outcome.
LEMMA OutcomeType ==
  ASSUME NEW k, NEW res \in Res, NEW S, S \subseteq 1 .. NextId(k), NEW ip \in Ips,
         NEW result \in {"ok", "requeue", "error"},
         res.id \in (1 .. NextId(k)) \cup {mem.res[k].id, NoId}
  PROVE  Outcome(res, S, ip, result) \in OutcomeOf(k)
BY DEF Outcome, OutcomeOf

\* Edits of name and ID in the status.
LEMMA ResTypes ==
  ASSUME NEW res \in Res, NEW n \in Nat
  PROVE  /\ WithId(n) \in Res /\ WithId(n).name = TRUE /\ WithId(n).id = n
         /\ WithoutId(res) \in Res /\ WithoutId(res).name = res.name /\ WithoutId(res).id = NoId
         /\ [res EXCEPT !.name = TRUE] \in Res /\ [res EXCEPT !.name = TRUE].name = TRUE
         /\ [res EXCEPT !.name = TRUE].id = res.id
         /\ [res EXCEPT !.name = FALSE] \in Res /\ [res EXCEPT !.name = FALSE].name = FALSE
         /\ [res EXCEPT !.name = FALSE].id = res.id
BY DEF Res, WithId, WithoutId, NoId

\* What a candidate is: one of the resources there are, or a new one.
LEMMA CandidatesType ==
  ASSUME TypeInv, NEW k \in Kinds, NEW c \in Candidates(k)
  PROVE  /\ c[1] \in Nat /\ c[2] \subseteq 1 .. NextId(k) /\ cloud[k] \subseteq c[2]
         /\ \/ c[2] = cloud[k]
            \/ /\ c[1] = NextId(k) /\ c[2] = cloud[k] \cup {NextId(k)} /\ Listed(k) = {}
               /\ mem.res[k].id = NoId
<1>1. /\ mem.res[k].id \in Nat /\ ExistingFloatingIP \in Nat /\ NextId(k) \in Nat /\ NextId(k) \in 1 .. NextId(k)
      /\ cloud[k] \subseteq 1 .. NextId(k) /\ Listed(k) \subseteq cloud[k] /\ NoId \in Nat
  BY Parts DEF Res, NoId, ExistingFloatingIP
<1>2. CASE mem.res[k].id # NoId
  BY <1>1, <1>2 DEF Candidates
<1>3. CASE mem.res[k].id = NoId /\ k = "fip" /\ ExistingFloatingIP # NoId
  BY <1>1, <1>3 DEF Candidates
<1>4. CASE mem.res[k].id = NoId /\ ~(k = "fip" /\ ExistingFloatingIP # NoId) /\ Listed(k) # {}
  <2>1. PICK r \in Listed(k) : c = <<r, cloud[k]>>
    BY <1>4 DEF Candidates
  <2> QED BY <1>1, <2>1
<1>5. CASE mem.res[k].id = NoId /\ ~(k = "fip" /\ ExistingFloatingIP # NoId) /\ Listed(k) = {}
  BY <1>1, <1>5 DEF Candidates
<1> QED BY <1>2, <1>3, <1>4, <1>5

\* A resource that is not found leaves the resources as the candidate has them.
LEMMA NotFoundType ==
  ASSUME TypeInv, NEW k \in Kinds, NEW c \in Candidates(k)
  PROVE  /\ NotFound(k, c) \in OutcomeOf(k) /\ NotFound(k, c).resources = c[2]
         /\ NotFound(k, c).res.name /\ NotFound(k, c).ip = mem.ip
         /\ NotFound(k, c).result # "ok"
         /\ k = "fip" => NotFound(k, c).result = "error" /\ NotFound(k, c).res.id = mem.res[k].id
         /\ k # "fip" => NotFound(k, c).res.id = NoId
<1>1. mem.res[k] \in Res /\ mem.ip \in Ips /\ NoId \in Nat /\ c[2] \subseteq 1 .. NextId(k)
  BY Parts, CandidatesType DEF NoId
<1>2. /\ Named(k) \in Res /\ WithId(NoId) \in Res /\ Named(k).name = TRUE
      /\ Named(k).id = mem.res[k].id /\ WithId(NoId).name = TRUE /\ WithId(NoId).id = NoId
  BY <1>1, ResTypes DEF Named
<1>3. CASE k = "fip"
  BY <1>1, <1>2, <1>3, OutcomeType DEF NotFound, Outcome
<1>4. CASE k = "secgroup"
  BY <1>1, <1>2, <1>4, OutcomeType DEF NotFound, Outcome
<1>5. CASE k # "fip" /\ k # "secgroup"
  BY <1>1, <1>2, <1>5, OutcomeType DEF NotFound, Outcome
<1> QED BY <1>3, <1>4, <1>5

\* The ExternalIP is that of a resource.
LEMMA PublishedIpType ==
  ASSUME TypeInv, NEW k \in Kinds, NEW r \in Nat \ {NoId}
  PROVE  PublishedIp(k, r) \in Ips
BY Parts DEF PublishedIp, Ips

\* What the check of a candidate leads to.
LEMMA CheckedType ==
  ASSUME TypeInv, NEW k \in Kinds, NEW c, c[1] \in Nat, c[2] \subseteq 1 .. NextId(k),
         c \in Candidates(k) \/ c[1] \in c[2]
  PROVE  /\ Checked(k, c) \in OutcomeOf(k) /\ Checked(k, c).res.name
         /\ \/ Checked(k, c).resources = c[2]
            \/ k = "servergroup" /\ Checked(k, c).resources = c[2] \ {c[1]}
         /\ c[1] \in c[2] => Checked(k, c).res = WithId(c[1]) /\ Checked(k, c).result # "error"
         /\ c[1] \in c[2] /\ k # "servergroup" => Checked(k, c).ip = PublishedIp(k, c[1])
         /\ c[1] \notin c[2] => Checked(k, c) = NotFound(k, c)
<1>1. CASE c[1] \notin c[2]
  <2>1. Checked(k, c) = NotFound(k, c)
    BY <1>1 DEF Checked
  <2> QED BY <1>1, <2>1, NotFoundType
<1>2. CASE c[1] \in c[2]
  <2>1. c[1] \in Nat \ {NoId} /\ mem.ip \in Ips /\ WithId(c[1]) \in Res /\ WithId(c[1]).name = TRUE
        /\ WithId(c[1]).id = c[1] /\ c[1] \in 1 .. NextId(k)
    <3>1. c[1] \in 1 .. NextId(k) /\ NextId(k) \in Nat
      BY <1>2, Parts
    <3>2. c[1] \in Nat \ {NoId} /\ mem.ip \in Ips /\ mem.res[k] \in Res
      BY <3>1, Parts DEF NoId
    <3> QED BY <3>1, <3>2, ResTypes
  <2>2. PublishedIp(k, c[1]) \in Ips
    BY <2>1, PublishedIpType
  <2>3. CASE k = "servergroup" /\ ~HasPolicy(c[1])
    <3>1. Checked(k, c) = Outcome(WithId(c[1]), c[2] \ {c[1]}, mem.ip, "requeue")
      BY <1>2, <2>3 DEF Checked
    <3>2. Outcome(WithId(c[1]), c[2] \ {c[1]}, mem.ip, "requeue") \in OutcomeOf(k)
      BY <2>1, OutcomeType
    <3> QED BY <1>2, <2>1, <2>3, <3>1, <3>2 DEF Outcome
  <2>4. CASE ~(k = "servergroup" /\ ~HasPolicy(c[1]))
    <3>1. PICK result \in {"ok", "requeue"} :
            Checked(k, c) = Outcome(WithId(c[1]), c[2], PublishedIp(k, c[1]), result)
      BY <1>2, <2>4 DEF Checked
    <3>2. Outcome(WithId(c[1]), c[2], PublishedIp(k, c[1]), result) \in OutcomeOf(k)
      BY <2>1, <2>2, OutcomeType
    <3> QED BY <1>2, <2>1, <3>1, <3>2 DEF Outcome
  <2> QED BY <2>3, <2>4
<1> QED BY <1>1, <1>2

\* The outcomes of reconcileFIP, reconcilePort, reconcileSecGroup and
\* reconcileServerGroup: only a server group is ever taken away, a resource is
\* created only where a search by name found none (floating IPs apart), and its
\* name is written first.
LEMMA EnsureType ==
  ASSUME TypeInv, NEW k \in Kinds, NEW out \in ensure(k) \cup ensureFailing(k)
  PROVE  /\ out \in OutcomeOf(k)
         /\ k # "servergroup" => cloud[k] \subseteq out.resources
         /\ k # "fip" => out.resources \subseteq cloud[k]
                         \/ (cloud[k] = {} /\ out.resources \subseteq {NextId(k)})
         /\ out.res.name \/ (out.res = mem.res[k] /\ out.resources = cloud[k])
         /\ k = "fip" /\ out.result # "error" => out.res.id \in out.resources
<1> DEFINE Goal(o) ==
         /\ o \in OutcomeOf(k)
         /\ k # "servergroup" => cloud[k] \subseteq o.resources
         /\ k # "fip" => o.resources \subseteq cloud[k]
                         \/ (cloud[k] = {} /\ o.resources \subseteq {NextId(k)})
         /\ o.res.name \/ (o.res = mem.res[k] /\ o.resources = cloud[k])
         /\ k = "fip" /\ o.result # "error" => o.res.id \in o.resources
<1>1. /\ mem.res[k] \in Res /\ mem.ip \in Ips /\ NextId(k) \in Nat /\ NextId(k) \in 1 .. NextId(k)
      /\ cloud[k] \subseteq 1 .. NextId(k)
  BY Parts
<1>2. Named(k) \in Res /\ Named(k).name = TRUE /\ Named(k).id = mem.res[k].id /\ \A n \in Nat : WithId(n) \in Res
      /\ WithId(n).name = TRUE /\ WithId(n).id = n
  BY <1>1, ResTypes DEF Named
<1>3. ASSUME NEW c \in Candidates(k)
      PROVE  /\ c[1] \in Nat /\ c[2] \subseteq 1 .. NextId(k) /\ cloud[k] \subseteq c[2]
             /\ k # "fip" => c[2] = cloud[k] \/ (cloud[k] = {} /\ c[2] = {NextId(k)})
  <2>1. k # "fip" => Listed(k) = cloud[k]
    BY DEF Listed
  <2> QED BY <2>1, CandidatesType
<1>4. ASSUME NEW c \in Candidates(k)
      PROVE  /\ Goal(Checked(k, c)) /\ Goal(NotFound(k, c))
             /\ Goal(Outcome(Named(k), c[2], mem.ip, "error"))
             /\ c \in Found(k) => Goal(Outcome(WithId(c[1]), c[2], mem.ip, "error"))
             /\ Goal([Checked(k, c) EXCEPT !.result = "error"])
  <2>1. Goal(NotFound(k, c))
    BY <1>3, NotFoundType
  <2>2. Goal(Checked(k, c))
    <3>1. CASE c[1] \in c[2]
      BY <1>2, <1>3, <3>1, CheckedType
    <3>2. CASE c[1] \notin c[2]
      BY <1>3, <2>1, <3>2, CheckedType
    <3> QED BY <3>1, <3>2
  <2>3. Goal(Outcome(Named(k), c[2], mem.ip, "error"))
    BY <1>1, <1>2, <1>3, OutcomeType DEF Outcome
  <2>4. c \in Found(k) => Goal(Outcome(WithId(c[1]), c[2], mem.ip, "error"))
    BY <1>1, <1>2, <1>3, OutcomeType DEF Outcome, Found
  <2>5. Goal([Checked(k, c) EXCEPT !.result = "error"])
    BY <2>2 DEF OutcomeOf
  <2> QED BY <2>1, <2>2, <2>3, <2>4, <2>5
<1>5. Goal(Nothing(k, "error")) /\ Goal(Outcome(Named(k), cloud[k], mem.ip, "error"))
  BY <1>1, <1>2, OutcomeType DEF Nothing, Outcome
<1>6. k = "fip" => Goal(Checked(k, <<NextId(k), cloud[k] \cup {NextId(k)}>>))
  BY <1>1, <1>2, CheckedType
<1> HIDE DEF Goal
<1>7. ASSUME out \in ensure(k)
      PROVE  Goal(out)
  BY <1>4, <1>7 DEF ensure
<1>8. ASSUME out \in ensureFailing(k)
      PROVE  Goal(out)
  BY <1>4, <1>5, <1>6, <1>8 DEF ensureFailing, Found
<1>9. Goal(out)
  BY <1>7, <1>8
<1> QED BY <1>9 DEF Goal

\* The outcomes of deleteFips, deletePorts, deleteSecGroups and deleteServerGroups.
LEMMA DeleteType ==
  ASSUME TypeInv, NEW k \in Kinds, NEW out \in delete(k) \cup deleteFailing(k)
  PROVE  /\ out \in OutcomeOf(k) /\ out.resources \subseteq cloud[k] /\ out.ip = mem.ip
         /\ IsKept(k) => out.resources = cloud[k]
         /\ out.res.id \in {mem.res[k].id, NoId}
<1> DEFINE Goal(o) ==
         /\ o \in OutcomeOf(k) /\ o.resources \subseteq cloud[k] /\ o.ip = mem.ip
         /\ IsKept(k) => o.resources = cloud[k]
         /\ o.res.id \in {mem.res[k].id, NoId}
<1>1. /\ mem.res[k] \in Res /\ mem.ip \in Ips /\ cloud[k] \subseteq 1 .. NextId(k)
      /\ [name |-> FALSE, id |-> NoId] \in Res
  BY Parts DEF Res, NoId
<1>2. /\ WithoutId(mem.res[k]) \in Res /\ [mem.res[k] EXCEPT !.name = FALSE] \in Res
      /\ WithoutId(mem.res[k]).id = NoId /\ [mem.res[k] EXCEPT !.name = FALSE].id = mem.res[k].id
  <2>1. NoId \in Nat
    BY DEF NoId
  <2> QED BY <1>1, <2>1, ResTypes
<1>3. ASSUME NEW res \in Res, NEW S, S \subseteq cloud[k], ~IsKept(k) \/ S = cloud[k],
             res.id \in {mem.res[k].id, NoId}, NEW result \in {"ok", "requeue", "error"}
      PROVE  Goal(Outcome(res, S, mem.ip, result))
  BY <1>1, <1>3, OutcomeType DEF Outcome
<1> HIDE DEF Goal
<1>4. CASE IsKept(k)
  <2>1. ASSUME out \in delete(k)
        PROVE  Goal(out)
    BY <1>1, <1>2, <1>3, <1>4, <2>1 DEF delete, release, Nothing
  <2>2. ASSUME out \in deleteFailing(k)
        PROVE  Goal(out)
    BY <1>1, <1>2, <1>3, <1>4, <2>2 DEF deleteFailing, Nothing
  <2> QED BY <2>1, <2>2 DEF Goal
<1>5. CASE ~IsKept(k)
  <2>1. ASSUME out \in delete(k)
        PROVE  Goal(out)
    <3>1. out \in deleteAll(k)
      BY <1>5, <2>1 DEF delete
    <3> QED BY <1>1, <1>2, <1>3, <1>5, <3>1 DEF deleteAll, RemainingById
  <2>2. ASSUME out \in deleteFailing(k)
        PROVE  Goal(out)
    BY <1>1, <1>2, <1>3, <1>5, <2>2 DEF deleteFailing, RemainingById
  <2> QED BY <2>1, <2>2 DEF Goal
<1> QED BY <1>4, <1>5

-----------------------------------------------------------------------------
\* The status after an outcome: the copy is current, so that the patch writes
\* exactly what the function has computed.
LEMMA PatchResult ==
  ASSUME TypeInv, pc # "idle", NEW k \in Kinds, NEW out \in OutcomeOf(k)
  PROVE  /\ PatchLBStatus(k, out) = [lb EXCEPT !.res = [lb.res EXCEPT ![k] = out.res], !.ip = out.ip]
         /\ PatchLBStatus(k, out) \in LBObject
<1>1. mem.res = lb.res /\ mem.ip = lb.ip
  BY DEF TypeInv, Current, Agrees
<1>2. lb \in LBObject /\ lb.res \in [Kinds -> Res] /\ out.res \in Res /\ out.ip \in Ips
  BY DEF TypeInv, TypeOK, LBObject, OutcomeOf, Res
<1>3. [name |-> Patched(lb.res[k].name, mem.res[k].name, out.res.name),
       id |-> Patched(lb.res[k].id, mem.res[k].id, out.res.id)] = out.res
  BY <1>1, <1>2 DEF Patched, Res
<1>4. Patched(lb.ip, mem.ip, out.ip) = out.ip
  BY <1>1 DEF Patched
<1>5. PatchLBStatus(k, out) = [lb EXCEPT !.res = [lb.res EXCEPT ![k] = out.res], !.ip = out.ip]
  BY <1>2, <1>3, <1>4 DEF PatchLBStatus
<1>6. [lb.res EXCEPT ![k] = out.res] \in [Kinds -> Res]
  BY <1>2
<1> QED BY <1>2, <1>5, <1>6 DEF LBObject, Res, Ips

\* Carrying out an outcome.
LEMMA ApplyStep ==
  ASSUME TypeInv, pc # "idle", NEW k \in Kinds, NEW out \in OutcomeOf(k),
         NEW onOk \in Points, NEW onRequeue \in Points, Apply(k, out, onOk, onRequeue)
  PROVE  /\ cloud' \in [Kinds -> SUBSET Nat] /\ cloud' = [cloud EXCEPT ![k] = out.resources]
         /\ created' \in [Kinds -> Nat] /\ \A j \in Kinds : cloud'[j] \subseteq 1 .. created'[j]
         /\ \A j \in Kinds : created'[j] = created[j] \/ (j = k /\ created'[j] = created[j] + 1)
         /\ lb' \in LBObject /\ mem' \in LBObject
         /\ lb' = [lb EXCEPT !.res = [lb.res EXCEPT ![k] = out.res], !.ip = out.ip]
         /\ mem'.res = lb'.res /\ mem'.ip = lb'.ip /\ mem'.finalizer = lb'.finalizer
         /\ \/ mem' = lb' /\ dirty' = TRUE
            \/ mem' = mem /\ lb' = lb /\ dirty' = dirty
         /\ pc' \in {onOk, onRequeue, "idle"} /\ pc' \in Points /\ requeue' \in BOOLEAN
         /\ dirty' \in BOOLEAN
         /\ out.result = "ok" => pc' = onOk
         /\ out.result = "requeue" => pc' = onRequeue
         /\ out.result = "error" => pc' = "idle"
         /\ \A j \in Kinds : lb'.res[j].id <= created'[j]
         /\ NextId(k) \notin out.resources /\ out.res.id \in {mem.res[k].id, NoId} => created' = created
<1> USE DEF Apply
<1>1. /\ out.res \in Res /\ out.resources \subseteq 1 .. NextId(k) /\ out.ip \in Ips
      /\ out.result \in {"ok", "requeue", "error"} /\ created[k] \in Nat
      /\ NextId(k) = created[k] + 1 /\ created \in [Kinds -> Nat] /\ cloud \in [Kinds -> SUBSET Nat]
      /\ \A j \in Kinds : cloud[j] \subseteq 1 .. created[j]
  BY Parts DEF OutcomeOf, TypeInv, TypeOK, CloudType
<1>2. cloud' \in [Kinds -> SUBSET Nat] /\ cloud' = [cloud EXCEPT ![k] = out.resources]
  BY <1>1
<1>3. /\ created' \in [Kinds -> Nat]
      /\ \A j \in Kinds : created'[j] = created[j] \/ (j = k /\ created'[j] = created[j] + 1)
      /\ NextId(k) \in out.resources => created'[k] = created[k] + 1
  BY <1>1
<1>4. \A j \in Kinds : cloud'[j] \subseteq 1 .. created'[j]
  <2>1. CASE NextId(k) \in out.resources
    BY <1>1, <1>2, <1>3, <2>1
  <2>2. CASE NextId(k) \notin out.resources
    <3>1. out.resources \subseteq 1 .. created[k]
      BY <1>1, <2>2
    <3>2. out.resources \subseteq 1 .. created'[k]
      BY <1>1, <1>3, <3>1
    <3> QED BY <1>1, <1>2, <1>3, <3>2
  <2> QED BY <2>1, <2>2
<1>5. mem.res = lb.res /\ mem.ip = lb.ip /\ mem.finalizer = lb.finalizer /\ lb \in LBObject
      /\ mem \in LBObject
  BY DEF TypeInv, TypeOK, Current, Agrees
<1>6. /\ lb' \in LBObject /\ mem' \in LBObject
      /\ lb' = [lb EXCEPT !.res = [lb.res EXCEPT ![k] = out.res], !.ip = out.ip]
      /\ mem'.res = lb'.res /\ mem'.ip = lb'.ip /\ mem'.finalizer = lb'.finalizer
      /\ \/ mem' = lb' /\ dirty' = TRUE
         \/ mem' = mem /\ lb' = lb /\ dirty' = dirty
  <2>1. CASE out.res = mem.res[k] /\ out.ip = mem.ip
    <3>1. [lb.res EXCEPT ![k] = out.res] = lb.res
      BY <1>5, <2>1 DEF LBObject
    <3>2. [lb EXCEPT !.res = lb.res, !.ip = lb.ip] = lb
      BY <1>5 DEF LBObject
    <3> QED BY <1>5, <2>1, <3>1, <3>2
  <2>2. CASE ~(out.res = mem.res[k] /\ out.ip = mem.ip)
    <3>1. lb' = PatchLBStatus(k, out) /\ mem' = lb' /\ dirty' = TRUE
      BY <2>2
    <3> HIDE DEF Apply
    <3> QED BY <3>1, PatchResult
  <2> QED BY <2>1, <2>2
<1>7. pc' \in {onOk, onRequeue, "idle"} /\ pc' \in Points
  BY <1>1 DEF Points
<1>8. requeue' \in BOOLEAN /\ dirty' \in BOOLEAN
  <2>1. requeue' \in BOOLEAN
    BY Zenon
  <2>2. dirty \in BOOLEAN
    BY DEF TypeInv, TypeOK
  <2> QED BY <1>6, <2>1, <2>2
<1>9. NextId(k) \notin out.resources /\ out.res.id \in {mem.res[k].id, NoId} => created' = created
  <2>1. mem.res[k].id \in Nat /\ mem.res[k].id <= created[k]
    BY <1>5 DEF TypeInv, IdsKnown, LBObject
  <2> QED BY <1>1, <2>1 DEF NoId
<1>10. ASSUME NEW j \in Kinds
       PROVE  lb'.res[j].id <= created'[j]
  <2>1. lb.res[j].id \in Nat /\ lb.res[j].id <= created[j] /\ created[j] \in Nat
        /\ lb.res[k].id \in Nat /\ lb.res[k].id <= created[k]
    BY <1>1, <1>5 DEF TypeInv, IdsKnown, LBObject
  <2>2. lb'.res = [lb.res EXCEPT ![k] = out.res]
    BY <1>6 DEF LBObject
  <2>3. CASE j # k
    BY <1>3, <1>5, <2>1, <2>2, <2>3 DEF LBObject
  <2>4. CASE j = k
    <3>1. out.res.id \in (1 .. NextId(k)) \cup {lb.res[k].id, NoId}
      BY <1>5 DEF OutcomeOf
    <3>2. out.res.id = NextId(k) => created'[k] = created[k] + 1
      BY <1>1
    <3>3. lb'.res[j].id = out.res.id
      BY <1>5, <2>2, <2>4 DEF LBObject
    <3> QED BY <1>1, <1>3, <2>1, <2>4, <3>1, <3>2, <3>3 DEF NoId
  <2> QED BY <2>3, <2>4
<1> QED BY <1>1, <1>2, <1>3, <1>4, <1>6, <1>7, <1>8, <1>9, <1>10

\* The outcome that a function leads to, with or without a failed request.
LEMMA HandlePick ==
  ASSUME TypeInv, NEW k, NEW outcomes, NEW failing, NEW onOk, NEW onRequeue,
         Handle(k, outcomes, failing, onOk, onRequeue)
  PROVE  /\ \E out \in outcomes \cup failing :
               /\ Apply(k, out, onOk, onRequeue)
               /\ \/ out \in outcomes /\ errors' = errors
                  \/ out \in failing /\ errors < MaxErrors /\ errors' = errors + 1
         /\ UNCHANGED <<seen, sets, setsSeen, bound, changes>>
         /\ errors' \in 0 .. MaxErrors
BY OpenstackAssumption DEF Handle, TypeInv, TypeOK

\* Carrying out an outcome keeps the types, if what the caller adds to it does.
LEMMA ApplyType ==
  ASSUME TypeInv, pc # "idle", NEW k \in Kinds, NEW out \in OutcomeOf(k),
         NEW onOk \in Points, NEW onRequeue \in Points, Apply(k, out, onOk, onRequeue),
         UNCHANGED <<seen, sets, setsSeen, bound, changes>>, errors' \in 0 .. MaxErrors,
         foreign' \subseteq 1 .. created'["fip"],
         affinity' \in Seq(Policies), Len(affinity') = created'["servergroup"],
         rules' \in -1 .. MaxChanges, guarded' \in Nat \X Nat
  PROVE  TypeInv'
<1>1. TypeOK'
  <2>1. /\ lb' \in LBObject /\ mem' \in LBObject /\ pc' \in Points
        /\ created' \in [Kinds -> Nat] /\ \A j \in Kinds : cloud'[j] \subseteq 1 .. created'[j]
    BY ApplyStep
  <2>2. requeue' \in BOOLEAN /\ dirty' \in BOOLEAN
    BY ApplyStep
  <2> QED BY <2>1, <2>2, Zenon DEF TypeInv, TypeOK
<1>2. CloudType'
  BY ApplyStep DEF CloudType
<1>3. Current'
  <2>1. mem'.res = lb'.res /\ mem'.ip = lb'.ip /\ mem'.finalizer = lb'.finalizer
    BY ApplyStep
  <2>2. dirty' = TRUE \/ (lb' = lb /\ dirty' = dirty)
    BY ApplyStep
  <2> QED BY <2>1, <2>2 DEF TypeInv, Current, Agrees
<1>4. IdsKnown'
  BY ApplyStep DEF IdsKnown
<1> QED BY <1>1, <1>2, <1>3, <1>4 DEF TypeInv

\* The kinds of resources and the points of a reconcile.
LEMMA KindFacts ==
  /\ "secgroup" \in Kinds /\ "fip" \in Kinds /\ "port" \in Kinds /\ "servergroup" \in Kinds
  /\ \A p \in {"idle", "secgroup", "fip", "port", "associate", "servergroup", "finish", "sets",
               "deleteSets", "deleteServergroup", "deleteFip", "deletePort", "deleteSecgroup",
               "removeFinalizer"} : p \in Points
BY DEF Kinds, Points

\* The server groups that were created are those with a policy on record.
LEMMA KeepsAffinity ==
  ASSUME TypeInv, created'["servergroup"] = created["servergroup"], affinity' = affinity
  PROVE  affinity' \in Seq(Policies) /\ Len(affinity') = created'["servergroup"]
BY DEF TypeInv, TypeOK

\* The floating IPs of the user stay within those that were created.
LEMMA KeepsForeign ==
  ASSUME TypeInv, created' \in [Kinds -> Nat], created'["fip"] >= created["fip"], foreign' = foreign
  PROVE  foreign' \subseteq 1 .. created'["fip"]
BY KindFacts, SMTT(20) DEF TypeInv, TypeOK

\* reconcileSecGroup keeps the types.
LEMMA SecGroupStepType ==
  ASSUME TypeInv, reconcileSecGroup
  PROVE  TypeInv'
<1> DEFINE k == "secgroup"
<1> USE KindFacts
<1>1. pc # "idle"
  BY DEF reconcileSecGroup
<1>2. PICK out \in ensure(k) \cup ensureFailing(k) : Apply(k, out, "fip", "fip")
  BY HandlePick DEF reconcileSecGroup
<1>3. UNCHANGED <<seen, sets, setsSeen, bound, changes>> /\ errors' \in 0 .. MaxErrors
  BY HandlePick DEF reconcileSecGroup
<1>4. out \in OutcomeOf(k)
  BY <1>2, EnsureType
<1>5. /\ created' \in [Kinds -> Nat] /\ mem' \in LBObject
      /\ \A j \in Kinds : created'[j] = created[j] \/ (j = k /\ created'[j] = created[j] + 1)
  BY <1>1, <1>2, <1>4, ApplyStep
<1>6. created'["fip"] = created["fip"] /\ created'["servergroup"] = created["servergroup"]
      /\ created["fip"] \in Nat
  BY <1>5 DEF TypeInv, TypeOK
<1>7. rules' \in -1 .. MaxChanges
  <2>1. rules' \in {mem'.ports, -1, rules}
    BY DEF reconcileSecGroup
  <2>2. mem'.ports \in 0 .. MaxChanges /\ -1 \in -1 .. MaxChanges /\ rules \in -1 .. MaxChanges
    BY <1>5, OpenstackAssumption DEF LBObject, TypeInv, TypeOK
  <2> QED BY <2>1, <2>2, OpenstackAssumption
<1>8. foreign' = foreign /\ affinity' = affinity /\ guarded' = guarded
  BY DEF reconcileSecGroup
<1>9. foreign' \subseteq 1 .. created'["fip"]
  BY <1>5, <1>6, <1>8, KeepsForeign
<1>10. affinity' \in Seq(Policies) /\ Len(affinity') = created'["servergroup"]
  BY <1>6, <1>8, KeepsAffinity
<1>11. guarded' \in Nat \X Nat
  BY <1>8 DEF TypeInv, TypeOK
<1> QED BY <1>1, <1>2, <1>3, <1>4, <1>7, <1>9, <1>10, <1>11, ApplyType

\* reconcileFIP keeps the types: what is marked as the user's was created.
LEMMA FIPStepType ==
  ASSUME TypeInv, reconcileFIP
  PROVE  TypeInv'
<1> DEFINE k == "fip"
<1> USE KindFacts
<1>1. pc # "idle"
  BY DEF reconcileFIP
<1>2. PICK out :
        /\ Apply(k, out, "port", "port")
        /\ \/ ~mem.internal /\ out \in ensure(k) \cup ensureFailing(k)
           \/ mem.internal /\ out \in delete(k) \cup deleteFailing(k)
  BY HandlePick DEF reconcileFIP
<1>3. UNCHANGED <<seen, sets, setsSeen, bound, changes>> /\ errors' \in 0 .. MaxErrors
  BY HandlePick DEF reconcileFIP
<1>4. out \in OutcomeOf(k)
  BY <1>2, EnsureType, DeleteType
<1>5. /\ created' \in [Kinds -> Nat] /\ lb' \in LBObject /\ mem'.res = lb'.res
      /\ lb' = [lb EXCEPT !.res = [lb.res EXCEPT ![k] = out.res], !.ip = out.ip]
      /\ cloud' = [cloud EXCEPT ![k] = out.resources] /\ cloud'[k] \subseteq 1 .. created'[k]
      /\ \A j \in Kinds : created'[j] = created[j] \/ (j = k /\ created'[j] = created[j] + 1)
      /\ out.result = "error" => pc' = "idle"
  BY <1>1, <1>2, <1>4, ApplyStep
<1>6. created'["fip"] >= created["fip"] /\ created'["servergroup"] = created["servergroup"]
      /\ created["fip"] \in Nat /\ created'["fip"] \in Nat
  <2>1. created["fip"] \in Nat /\ created'["fip"] \in Nat
    BY <1>5 DEF TypeInv, TypeOK
  <2>2. created'["fip"] = created["fip"] \/ created'["fip"] = created["fip"] + 1
    BY <1>5
  <2>3. created'["servergroup"] = created["servergroup"]
    BY <1>5
  <2> QED BY <2>1, <2>2, <2>3
<1>7. foreign' \subseteq 1 .. created'["fip"]
  <2>1. CASE foreign' = foreign
    BY <1>5, <1>6, <2>1, KeepsForeign
  <2>2. CASE foreign' # foreign
    <3>1. ~mem.internal /\ pc' = "port" /\ foreign' = foreign \cup {mem'.res["fip"].id}
      BY <2>2 DEF reconcileFIP
    <3>2. out \in ensure(k) \cup ensureFailing(k) /\ out.result # "error"
      BY <1>2, <1>5, <3>1
    <3>3. out.res.id \in out.resources
      BY <3>2, EnsureType
    <3>4. mem'.res["fip"] = out.res /\ cloud'["fip"] = out.resources
      BY <1>5 DEF TypeInv, TypeOK, CloudType, LBObject
    <3>5. foreign \subseteq 1 .. created'["fip"]
      <4>1. foreign \subseteq 1 .. created["fip"]
        BY DEF TypeInv, TypeOK
      <4> QED BY <1>6, <4>1
    <3> QED BY <1>5, <3>1, <3>3, <3>4, <3>5
  <2> QED BY <2>1, <2>2
<1>8. affinity' = affinity /\ rules' = rules /\ guarded' = guarded
  BY DEF reconcileFIP
<1>9. affinity' \in Seq(Policies) /\ Len(affinity') = created'["servergroup"]
  BY <1>6, <1>8, KeepsAffinity
<1>10. rules' \in -1 .. MaxChanges /\ guarded' \in Nat \X Nat
  BY <1>8 DEF TypeInv, TypeOK
<1> QED BY <1>1, <1>2, <1>3, <1>4, <1>7, <1>9, <1>10, ApplyType

\* reconcilePort keeps the types.
LEMMA PortStepType ==
  ASSUME TypeInv, reconcilePort
  PROVE  TypeInv'
<1> DEFINE k == "port"
<1> USE KindFacts
<1>1. pc # "idle"
  BY DEF reconcilePort
<1>2. PICK out \in ensure(k) \cup ensureFailing(k) : Apply(k, out, "associate", "associate")
  BY HandlePick DEF reconcilePort
<1>3. UNCHANGED <<seen, sets, setsSeen, bound, changes>> /\ errors' \in 0 .. MaxErrors
  BY HandlePick DEF reconcilePort
<1>4. out \in OutcomeOf(k)
  BY <1>2, EnsureType
<1>5. /\ created' \in [Kinds -> Nat] /\ mem' \in LBObject
      /\ \A j \in Kinds : created'[j] = created[j] \/ (j = k /\ created'[j] = created[j] + 1)
  BY <1>1, <1>2, <1>4, ApplyStep
<1>6. created'["fip"] = created["fip"] /\ created'["servergroup"] = created["servergroup"]
      /\ created["fip"] \in Nat
  BY <1>5 DEF TypeInv, TypeOK
<1>7. guarded' \in Nat \X Nat
  BY <1>5 DEF reconcilePort, LBObject, TypeInv, TypeOK
<1>8. foreign' = foreign /\ affinity' = affinity /\ rules' = rules
  BY DEF reconcilePort
<1>9. foreign' \subseteq 1 .. created'["fip"]
  BY <1>5, <1>6, <1>8, KeepsForeign
<1>10. affinity' \in Seq(Policies) /\ Len(affinity') = created'["servergroup"]
  BY <1>6, <1>8, KeepsAffinity
<1>11. rules' \in -1 .. MaxChanges
  BY <1>8 DEF TypeInv, TypeOK
<1> QED BY <1>1, <1>2, <1>3, <1>4, <1>7, <1>9, <1>10, <1>11, ApplyType

\* reconcileServerGroup keeps the types: a new group has its policy on record.
LEMMA ServerGroupStepType ==
  ASSUME TypeInv, reconcileServerGroup
  PROVE  TypeInv'
<1> DEFINE k == "servergroup"
<1> USE KindFacts
<1>1. pc # "idle"
  BY DEF reconcileServerGroup
<1>2. PICK out :
        /\ Apply(k, out, "finish", "finish")
        /\ out \in ensure(k) \cup ensureFailing(k) \/ out \in delete(k) \cup deleteFailing(k)
  BY HandlePick DEF reconcileServerGroup
<1>3. UNCHANGED <<seen, sets, setsSeen, bound, changes>> /\ errors' \in 0 .. MaxErrors
  BY HandlePick DEF reconcileServerGroup
<1>4. out \in OutcomeOf(k)
  BY <1>2, EnsureType, DeleteType
<1>5. /\ created' \in [Kinds -> Nat]
      /\ \A j \in Kinds : created'[j] = created[j] \/ (j = k /\ created'[j] = created[j] + 1)
  BY <1>1, <1>2, <1>4, ApplyStep
<1>6. created'["fip"] = created["fip"] /\ created["fip"] \in Nat
  BY <1>5 DEF TypeInv, TypeOK
<1>7. affinity' \in Seq(Policies) /\ Len(affinity') = created'["servergroup"]
  <2>1. affinity \in Seq(Policies) /\ Len(affinity) = created["servergroup"] /\ NewPolicy \in Policies
        /\ created \in [Kinds -> Nat]
    BY DEF TypeInv, TypeOK, NewPolicy, LBObject
  <2>2. CASE created' = created
    BY <2>1, <2>2 DEF reconcileServerGroup
  <2>3. CASE created' # created
    <3>1. affinity' = Append(affinity, NewPolicy)
      BY <2>3 DEF reconcileServerGroup
    <3>2. created'["servergroup"] = created["servergroup"] + 1
      BY <1>5, <2>1, <2>3
    <3> QED BY <2>1, <3>1, <3>2
  <2> QED BY <2>2, <2>3
<1>8. foreign' = foreign /\ rules' = rules /\ guarded' = guarded
  BY DEF reconcileServerGroup
<1>9. foreign' \subseteq 1 .. created'["fip"]
  BY <1>5, <1>6, <1>8, KeepsForeign
<1>10. rules' \in -1 .. MaxChanges /\ guarded' \in Nat \X Nat
  BY <1>8 DEF TypeInv, TypeOK
<1> QED BY <1>1, <1>2, <1>3, <1>4, <1>7, <1>9, <1>10, ApplyType

\* A deletion step and the point it leads to.
LEMMA DeletionPick ==
  ASSUME TypeInv, deletionRoutine
  PROVE  \E k \in Kinds, next \in Points :
            /\ \/ k = "servergroup" /\ pc = "deleteServergroup" /\ next = "deleteFip"
               \/ k = "fip" /\ pc = "deleteFip" /\ next = "deletePort"
               \/ k = "port" /\ pc = "deletePort" /\ next = "deleteSecgroup"
               \/ k = "secgroup" /\ pc = "deleteSecgroup" /\ next = "removeFinalizer"
            /\ \E out \in delete(k) \cup deleteFailing(k) :
                  /\ Apply(k, out, next, "idle")
                  /\ \/ out \in delete(k) /\ errors' = errors
                     \/ out \in deleteFailing(k) /\ errors < MaxErrors /\ errors' = errors + 1
            /\ UNCHANGED <<seen, sets, setsSeen, bound, changes, foreign, affinity, rules, guarded>>
            /\ errors' \in 0 .. MaxErrors
<1>1. PICK k \in Kinds, at \in Points, next \in Points :
         /\ deleteResources(k, at, next)
         /\ \/ k = "servergroup" /\ at = "deleteServergroup" /\ next = "deleteFip"
            \/ k = "fip" /\ at = "deleteFip" /\ next = "deletePort"
            \/ k = "port" /\ at = "deletePort" /\ next = "deleteSecgroup"
            \/ k = "secgroup" /\ at = "deleteSecgroup" /\ next = "removeFinalizer"
  BY KindFacts DEF deletionRoutine
<1>2. pc = at /\ Handle(k, delete(k), deleteFailing(k), next, "idle")
      /\ UNCHANGED <<foreign, affinity, rules, guarded>>
  BY <1>1 DEF deleteResources
<1> QED BY <1>1, <1>2, HandlePick

\* The deletion keeps the types.
LEMMA DeletionStepType ==
  ASSUME TypeInv, deletionRoutine
  PROVE  TypeInv'
<1> USE KindFacts
<1>1. PICK k \in Kinds, next \in Points :
         /\ pc # "idle"
         /\ \E out \in delete(k) \cup deleteFailing(k) : Apply(k, out, next, "idle")
         /\ UNCHANGED <<seen, sets, setsSeen, bound, changes, foreign, affinity, rules, guarded>>
         /\ errors' \in 0 .. MaxErrors
  BY DeletionPick
<1>2. PICK out \in delete(k) \cup deleteFailing(k) : Apply(k, out, next, "idle")
  BY <1>1
<1>3. out \in OutcomeOf(k) /\ out.resources \subseteq cloud[k]
  BY <1>2, DeleteType
<1>4. created' = created
  <2>1. NextId(k) \notin out.resources
    BY <1>3, Parts
  <2> QED BY <1>1, <1>2, <1>3, <2>1, DeleteType, ApplyStep
<1>5. foreign' \subseteq 1 .. created'["fip"] /\ affinity' \in Seq(Policies)
      /\ Len(affinity') = created'["servergroup"]
      /\ rules' \in -1 .. MaxChanges /\ guarded' \in Nat \X Nat
  BY <1>1, <1>4 DEF TypeInv, TypeOK
<1> QED BY <1>1, <1>2, <1>3, <1>5, ApplyType

-----------------------------------------------------------------------------
\* An object with the same status; one that differs in the rest of the spec.
Like(e, o) == e \in LBObject /\ e.res = o.res /\ e.ip = o.ip
SpecOf(e, o) ==
    Like(e, o) /\ e.finalizer = o.finalizer /\ e.exists = o.exists /\ e.deleting = o.deleting

\* Objects with a changed entry.
LEMMA EditTypes ==
  ASSUME NEW o \in LBObject
  PROVE  /\ Like([o EXCEPT !.finalizer = TRUE], o)
         /\ Like([o EXCEPT !.recent = TRUE, !.hash = <<o.ports, o.policy>>], o)
         /\ Like([o EXCEPT !.finalizer = FALSE, !.exists = FALSE], o)
         /\ Like([o EXCEPT !.deleting = TRUE, !.exists = o.finalizer], o)
         /\ SpecOf([o EXCEPT !.recent = FALSE], o)
         /\ SpecOf([o EXCEPT !.internal = ~o.internal], o)
         /\ \A n \in 0 .. MaxChanges : SpecOf([o EXCEPT !.ports = n], o)
         /\ \A p \in Policies : SpecOf([o EXCEPT !.policy = p], o)
         /\ \A n \in Nat : SpecOf([o EXCEPT !.existing = n], o)
<1> USE DEF Like, SpecOf, LBObject
<1>1. Like([o EXCEPT !.finalizer = TRUE], o)
  OBVIOUS
<1>2. Like([o EXCEPT !.recent = TRUE, !.hash = <<o.ports, o.policy>>], o)
  OBVIOUS
<1>3. Like([o EXCEPT !.finalizer = FALSE, !.exists = FALSE], o)
  OBVIOUS
<1>4. Like([o EXCEPT !.deleting = TRUE, !.exists = o.finalizer], o)
  OBVIOUS
<1>5. SpecOf([o EXCEPT !.recent = FALSE], o)
  OBVIOUS
<1>6. SpecOf([o EXCEPT !.internal = ~o.internal], o)
  OBVIOUS
<1>7. \A n \in 0 .. MaxChanges : SpecOf([o EXCEPT !.ports = n], o)
  OBVIOUS
<1>8. \A p \in Policies : SpecOf([o EXCEPT !.policy = p], o)
  OBVIOUS
<1>9. \A n \in Nat : SpecOf([o EXCEPT !.existing = n], o)
  OBVIOUS
<1> HIDE DEF Like, SpecOf, LBObject
<1> QED BY <1>1, <1>2, <1>3, <1>4, <1>5, <1>6, <1>7, <1>8, <1>9

\* A step that does nothing in OpenStack.
LEMMA QuietType ==
  ASSUME TypeInv, UNCHANGED openstack,
         lb' \in LBObject, seen' \in LBObject, mem' \in LBObject, lb'.res = lb.res,
         pc' \in Points, requeue' \in BOOLEAN, sets' \in {"none", "live", "deleting"},
         setsSeen' \in BOOLEAN, dirty' \in BOOLEAN,
         changes' \in 0 .. MaxChanges, errors' \in 0 .. MaxErrors,
         Current'
  PROVE  TypeInv'
<1>1. UNCHANGED <<cloud, created, foreign, affinity, rules, bound, guarded>>
  BY DEF openstack
<1>2. TypeOK'
  BY <1>1, Zenon DEF TypeInv, TypeOK
<1>3. CloudType' /\ IdsKnown'
  BY <1>1 DEF TypeInv, CloudType, IdsKnown
<1> QED BY <1>2, <1>3 DEF TypeInv

\* What the status looks like in the steps that write other entries only.
LEMMA ReconcileStepType ==
  ASSUME TypeInv,
         BeginReconcile \/ FinishOpenstack \/ reconcileLoadBalancerSet \/ BeginDeletion
         \/ deleteSets \/ RemoveFinalizer
  PROVE  TypeInv'
<1> USE KindFacts
<1>1. lb \in LBObject /\ seen \in LBObject /\ mem \in LBObject /\ changes \in 0 .. MaxChanges
      /\ errors \in 0 .. MaxErrors /\ sets \in {"none", "live", "deleting"}
  BY DEF TypeInv, TypeOK
<1>2. requeue \in BOOLEAN /\ dirty \in BOOLEAN /\ setsSeen \in BOOLEAN
  BY DEF TypeInv, TypeOK
<1>3. CASE BeginReconcile
  <2>1. lb' \in LBObject /\ mem' \in LBObject /\ lb'.res = lb.res /\ lb'.ip = lb.ip
        /\ mem'.res = lb'.res /\ mem'.ip = lb'.ip /\ mem'.finalizer = lb'.finalizer
        /\ (dirty' = TRUE \/ (dirty' = dirty /\ lb' = lb))
    <3>1. CASE seen.finalizer /\ mem' = seen /\ UNCHANGED <<lb, dirty>>
      BY <1>1, <1>3, <3>1 DEF BeginReconcile, TypeInv, Current, Agrees
    <3>2. CASE lb' = [lb EXCEPT !.finalizer = TRUE] /\ mem' = lb' /\ dirty' = TRUE
      BY <1>1, <3>2, EditTypes DEF Like
    <3> QED BY <1>3, <3>1, <3>2 DEF BeginReconcile
  <2>2. requeue' \in BOOLEAN /\ dirty' \in BOOLEAN /\ pc' \in Points
    <3>1. requeue' \in BOOLEAN
      BY <1>3, Zenon DEF BeginReconcile
    <3>2. dirty' \in BOOLEAN
      BY <1>2, <2>1
    <3> QED BY <1>3, <3>1, <3>2 DEF BeginReconcile
  <2>3. UNCHANGED <<seen, sets, setsSeen, openstack, changes, errors>>
    BY <1>3 DEF BeginReconcile
  <2>4. Current'
    BY <2>1, <2>3 DEF TypeInv, Current, Agrees
  <2> QED BY <1>1, <1>2, <2>1, <2>2, <2>3, <2>4, QuietType
<1>4. CASE FinishOpenstack
  <2>1. lb' \in LBObject /\ mem' \in LBObject /\ lb'.res = lb.res /\ pc' \in Points
    <3>1. CASE lb' = lb /\ mem' = mem /\ pc' = "idle"
      BY <1>1, <3>1, KindFacts
    <3>2. CASE /\ lb' = [lb EXCEPT !.recent = TRUE, !.hash = <<lb.ports, lb.policy>>]
               /\ mem' = lb' /\ pc' = "sets"
      <4>1. Like(lb', lb)
        BY <1>1, <3>2, EditTypes
      <4> QED BY <3>2, <4>1, KindFacts DEF Like
    <3> QED BY <1>4, <3>1, <3>2, Zenon DEF FinishOpenstack
  <2>2. dirty' \in BOOLEAN
    BY <1>2, <1>4 DEF FinishOpenstack
  <2>3. Current'
    BY <1>4 DEF FinishOpenstack, TypeInv, Current, Agrees
  <2>4. UNCHANGED <<seen, requeue, sets, setsSeen, openstack, changes, errors>>
    BY <1>4 DEF FinishOpenstack
  <2> QED BY <1>1, <1>2, <2>1, <2>2, <2>3, <2>4, QuietType
<1>5. CASE reconcileLoadBalancerSet
  <2>1. dirty' \in BOOLEAN /\ sets' \in {"none", "live", "deleting"}
    BY <1>1, <1>2, <1>5 DEF reconcileLoadBalancerSet
  <2>2. Current'
    BY <1>5 DEF reconcileLoadBalancerSet, TypeInv, Current, Agrees
  <2> QED BY <1>1, <1>2, <1>5, <2>1, <2>2, QuietType DEF reconcileLoadBalancerSet
<1>6. CASE BeginDeletion
  <2>1. requeue' \in BOOLEAN
    BY <1>6, Zenon DEF BeginDeletion
  <2>2. Current'
    BY <1>6 DEF BeginDeletion, TypeInv, Current, Agrees
  <2> QED BY <1>1, <1>2, <1>6, <2>1, <2>2, QuietType DEF BeginDeletion
<1>7. CASE deleteSets
  <2>1. dirty' \in BOOLEAN
    <3>1. dirty' = dirty \/ dirty' = (dirty \/ sets' # sets)
      BY <1>7 DEF deleteSets
    <3> QED BY <1>2, <3>1, Zenon
  <2>2. sets' \in {"none", "live", "deleting"} /\ pc' \in Points
    BY <1>1, <1>7 DEF deleteSets
  <2>3. Current'
    BY <1>7 DEF deleteSets, TypeInv, Current, Agrees
  <2> QED BY <1>1, <1>2, <1>7, <2>1, <2>2, <2>3, QuietType DEF deleteSets
<1>8. CASE RemoveFinalizer
  <2>1. lb' \in LBObject /\ mem' \in LBObject /\ lb'.res = lb.res
    BY <1>1, <1>8, EditTypes DEF RemoveFinalizer, Like
  <2>2. dirty' \in BOOLEAN
    BY <1>8, Zenon DEF RemoveFinalizer
  <2>3. Current'
    BY <1>8 DEF RemoveFinalizer, TypeInv, Current, Agrees
  <2> QED BY <1>1, <1>2, <1>8, <2>1, <2>2, <2>3, QuietType DEF RemoveFinalizer
<1> QED BY <1>3, <1>4, <1>5, <1>6, <1>7, <1>8

\* reconcileFIPAssociate keeps the types.
LEMMA AssociateStepType ==
  ASSUME TypeInv, reconcileFIPAssociate
  PROVE  TypeInv'
<1>1. bound' \in Nat \X Nat
  <2>1. mem.res["fip"].id \in Nat /\ mem.res["port"].id \in Nat
    BY KindFacts, Parts DEF Res
  <2>2. bound' = bound \/ bound' = <<mem.res["fip"].id, mem.res["port"].id>>
    BY DEF reconcileFIPAssociate
  <2> QED BY <2>1, <2>2 DEF TypeInv, TypeOK
<1>2. pc' \in Points
  BY KindFacts DEF reconcileFIPAssociate
<1>3. requeue' \in BOOLEAN
  <2>1. requeue' = requeue \/ requeue' = TRUE
    BY DEF reconcileFIPAssociate
  <2> QED BY <2>1, Zenon DEF TypeInv, TypeOK
<1>4. UNCHANGED <<lb, seen, mem, sets, setsSeen, dirty, cloud, created, foreign, affinity, rules,
                  guarded, changes, errors>> /\ pc # "idle"
  BY DEF reconcileFIPAssociate
<1>5. TypeOK'
  BY <1>1, <1>2, <1>3, <1>4, Zenon DEF TypeInv, TypeOK
<1> QED BY <1>4, <1>5 DEF TypeInv, CloudType, Current, Agrees, IdsKnown

\* User, operator, informers, crashes and time keep the types.
LEMMA EnvironmentStepType ==
  ASSUME TypeInv, Environment
  PROVE  TypeInv'
<1> USE KindFacts
<1>1. lb \in LBObject /\ seen \in LBObject /\ mem \in LBObject /\ changes \in 0 .. MaxChanges
      /\ errors \in 0 .. MaxErrors /\ sets \in {"none", "live", "deleting"} /\ pc \in Points
  BY DEF TypeInv, TypeOK
<1>2. requeue \in BOOLEAN /\ dirty \in BOOLEAN /\ setsSeen \in BOOLEAN
  BY DEF TypeInv, TypeOK
<1>3. ASSUME NEW o, ChangeSpec(o), SpecOf(o, lb)
      PROVE  TypeInv'
  <2>1. changes' \in 0 .. MaxChanges
    BY <1>1, <1>3, OpenstackAssumption DEF ChangeSpec, Change
  <2>2. Current' /\ lb' = o /\ lb' \in LBObject /\ lb'.res = lb.res
    BY <1>3 DEF ChangeSpec, SpecOf, Like, TypeInv, Current, Agrees
  <2> QED BY <1>1, <1>2, <1>3, <2>1, <2>2, QuietType DEF ChangeSpec
<1>4. CASE UserChanges
  <2>1. CASE ChangeSpec([lb EXCEPT !.ports = changes + 1])
    <3>1. changes + 1 \in 0 .. MaxChanges
      BY <1>1, <2>1, OpenstackAssumption DEF ChangeSpec, Change
    <3> QED BY <1>1, <1>3, <2>1, <3>1, EditTypes
  <2>2. CASE ChangeSpec([lb EXCEPT !.internal = ~lb.internal])
    BY <1>1, <1>3, <2>2, EditTypes
  <2>3. ASSUME NEW p \in Policies, ChangeSpec([lb EXCEPT !.policy = p])
        PROVE  TypeInv'
    BY <1>1, <1>3, <2>3, EditTypes
  <2> QED BY <1>4, <2>1, <2>2, <2>3 DEF UserChanges
<1>5. CASE ClaimFloatingIP
  <2>1. lb.ip[2] \in Nat /\ ChangeSpec([lb EXCEPT !.existing = lb.ip[2]])
    BY <1>1, <1>5 DEF ClaimFloatingIP, LBObject, NoIp, NoId
  <2> QED BY <1>1, <1>3, <2>1, EditTypes
<1>6. CASE DeleteLB
  <2>1. lb' \in LBObject /\ lb'.res = lb.res
    BY <1>1, <1>6, EditTypes DEF DeleteLB, Like
  <2>2. Current'
    BY <1>1, <1>6 DEF DeleteLB, TypeInv, Current, Agrees, LBObject
  <2> QED BY <1>1, <1>2, <1>6, <2>1, <2>2, QuietType DEF DeleteLB
<1>7. CASE SetsGone
  <2>1. Current'
    BY <1>7 DEF SetsGone, TypeInv, Current, Agrees
  <2> QED BY <1>1, <1>2, <1>7, <2>1, QuietType DEF SetsGone
<1>8. CASE Refresh
  <2>1. setsSeen' \in BOOLEAN /\ dirty' \in BOOLEAN
    BY <1>8, Zenon DEF Refresh
  <2>2. Current'
    BY <1>8 DEF Refresh, TypeInv, Current, Agrees
  <2> QED BY <1>1, <1>2, <1>8, <2>1, <2>2, QuietType DEF Refresh
<1>9. CASE Crash
  <2>1. errors' \in 0 .. MaxErrors
    BY <1>1, <1>9, OpenstackAssumption DEF Crash
  <2>2. Current'
    BY <1>9 DEF Crash, TypeInv, Current, Agrees
  <2> QED BY <1>1, <1>2, <1>9, <2>1, <2>2, QuietType DEF Crash
<1>10. CASE FiveMinutesPass
  <2>1. lb' \in LBObject /\ seen' \in LBObject /\ lb'.res = lb.res
    BY <1>1, <1>10, EditTypes DEF FiveMinutesPass, SpecOf, Like
  <2>2. Current'
    BY <1>1, <1>10 DEF FiveMinutesPass, TypeInv, Current, Agrees, LBObject
  <2> QED BY <1>1, <1>2, <1>10, <2>1, <2>2, QuietType DEF FiveMinutesPass
<1>11. ASSUME NEW k \in Kinds, Vanish(k)
       PROVE  TypeInv'
  <2>1. changes' \in 0 .. MaxChanges
    BY <1>1, <1>11, OpenstackAssumption DEF Vanish, Change
  <2>2. rules' \in -1 .. MaxChanges
    BY <1>11, OpenstackAssumption DEF Vanish, TypeInv, TypeOK
  <2>3. CloudType' /\ \A j \in Kinds : cloud'[j] \subseteq 1 .. created[j]
    BY <1>11 DEF Vanish, TypeInv, TypeOK, CloudType
  <2>4. UNCHANGED <<lb, seen, mem, pc, requeue, sets, setsSeen, dirty, created, foreign, affinity,
                    bound, guarded, errors>>
    BY <1>11 DEF Vanish
  <2>5. TypeOK'
    BY <2>1, <2>2, <2>3, <2>4, Zenon DEF TypeInv, TypeOK
  <2> QED BY <2>3, <2>4, <2>5 DEF TypeInv, Current, Agrees, IdsKnown
<1> QED BY <1>4, <1>5, <1>6, <1>7, <1>8, <1>9, <1>10, <1>11 DEF Environment

\* The typed state with a current copy and bounded IDs is inductive.
LEMMA TypeStep == TypeInv /\ [Next]_vars => TypeInv'
<1> SUFFICES ASSUME TypeInv, [Next]_vars
             PROVE  TypeInv'
  OBVIOUS
<1>1. CASE UNCHANGED vars
  <2>1. UNCHANGED <<lb, seen, mem, pc, requeue, sets, setsSeen, dirty, cloud, created, foreign,
                    affinity, rules, bound, guarded, changes, errors>>
    BY <1>1 DEF vars, openstack
  <2>2. TypeOK'
    BY <2>1, Zenon DEF TypeInv, TypeOK
  <2> QED BY <2>1, <2>2 DEF TypeInv, CloudType, Current, Agrees, IdsKnown
<1> QED BY <1>1, ReconcileStepType, SecGroupStepType, FIPStepType, PortStepType, AssociateStepType,
           ServerGroupStepType, DeletionStepType, EnvironmentStepType DEF Next, Reconcile

\* The initial states are typed.
LEMMA TypeInit == Init => TypeInv
<1> SUFFICES ASSUME Init
             PROVE  TypeInv
  OBVIOUS
<1> USE KindFacts
<1>1. PICK internal \in BOOLEAN, policy \in FirstPolicies, existing \in {NoId, UserFip} :
         lb = NewLB(internal, policy, existing)
  BY DEF Init
<1>2. lb \in LBObject /\ \A k \in Kinds : lb.res[k].id = 0
  BY <1>1, OpenstackAssumption DEF NewLB, LBObject, NoId, UserFip, NoIp, NoHash
<1>3. foreign = {} \/ foreign = {1}
  BY DEF Init, UserFip
<1>4. ASSUME NEW k \in Kinds
      PROVE  /\ cloud[k] = IF k = "fip" THEN foreign ELSE {}
             /\ created[k] \in Nat /\ cloud[k] \subseteq 1 .. created[k]
             /\ created[k] = IF cloud[k] = {} THEN 0 ELSE 1
  <2>1. cloud[k] = (IF k = "fip" THEN foreign ELSE {}) /\ created[k] = Cardinality(cloud[k])
    BY DEF Init
  <2>2. CASE cloud[k] = {}
    BY <2>1, <2>2, FS_EmptySet
  <2>3. CASE cloud[k] = {1}
    <3>1. Cardinality({1}) = 1
      BY FS_Singleton
    <3> QED BY <2>1, <2>3, <3>1
  <2> QED BY <1>3, <2>1, <2>2, <2>3
<1>5. created \in [Kinds -> Nat] /\ CloudType
  BY <1>3, <1>4, ZenonT(30) DEF Init, CloudType
<1>6. foreign \subseteq 1 .. created["fip"] /\ created["servergroup"] = 0
  BY <1>4
<1>7. affinity \in Seq(Policies) /\ Len(affinity) = created["servergroup"]
  BY <1>6 DEF Init
<1>8. rules \in -1 .. MaxChanges /\ bound \in Nat \X Nat /\ guarded \in Nat \X Nat
      /\ changes \in 0 .. MaxChanges /\ errors \in 0 .. MaxErrors
      /\ sets \in {"none", "live", "deleting"} /\ pc \in Points /\ seen = lb /\ mem = lb
  BY OpenstackAssumption DEF Init, NoId
<1>9. requeue \in BOOLEAN /\ setsSeen \in BOOLEAN /\ dirty \in BOOLEAN
  BY Zenon DEF Init
<1>10. TypeOK
  BY <1>2, <1>4, <1>5, <1>6, <1>7, <1>8, <1>9, Zenon DEF TypeOK
<1>11. Current /\ IdsKnown
  BY <1>2, <1>4, <1>8 DEF Current, Agrees, IdsKnown
<1> QED BY <1>5, <1>10, <1>11 DEF TypeInv

\* The variables keep their types, and the policy of every server group that was
\* created is on record, whatever fails, vanishes or crashes.
THEOREM TypeCorrect == Spec => []TypeOK
<1>1. TypeInv => TypeOK
  BY DEF TypeInv
<1> QED BY <1>1, TypeInit, TypeStep, PTL DEF Spec

-----------------------------------------------------------------------------
Single(S) == \A x, y \in S : x = y

\* A resource other than a floating IP is created only when none has its name.
AtMostOne == \A k \in Kinds \ {"fip"} : Single(cloud[k])

\* A set without two different elements has at most one.
LEMMA SingleCardinality ==
  ASSUME NEW S, Single(S)
  PROVE  Cardinality(S) <= 1
<1>1. CASE S = {}
  BY <1>1, FS_EmptySet
<1>2. CASE S # {}
  <2>1. PICK x : x \in S
    BY <1>2
  <2>2. S = {x}
    BY <2>1 DEF Single
  <2> QED BY <2>2, FS_Singleton
<1> QED BY <1>1, <1>2

\* The functions that handle resources, and where.
Ensures(k) == pc = k /\ (k = "fip" => ~mem.internal)
Deletes(k) ==
    <<k, pc>> \in {<<"fip", "fip">>, <<"servergroup", "servergroup">>,
                   <<"servergroup", "deleteServergroup">>, <<"fip", "deleteFip">>,
                   <<"port", "deletePort">>, <<"secgroup", "deleteSecgroup">>}

ResourceFunction ==
    \/ reconcileSecGroup \/ reconcileFIP \/ reconcilePort \/ reconcileServerGroup
    \/ deletionRoutine

\* Where a function goes on: at the next one, in the deletion only when nothing
\* was left to do.
OnOk ==
    IF pc = "secgroup" THEN "fip"
    ELSE IF pc = "fip" THEN "port"
    ELSE IF pc = "port" THEN "associate"
    ELSE IF pc = "servergroup" THEN "finish"
    ELSE IF pc = "deleteServergroup" THEN "deleteFip"
    ELSE IF pc = "deleteFip" THEN "deletePort"
    ELSE IF pc = "deletePort" THEN "deleteSecgroup"
    ELSE "removeFinalizer"
OnRequeue ==
    IF pc \in {"secgroup", "fip", "port", "servergroup"} THEN OnOk ELSE "idle"

\* The outcome of such a function.
LEMMA ResourcePick ==
  ASSUME TypeInv, ResourceFunction
  PROVE  \E k \in Kinds : \E out \in OutcomeOf(k) :
            /\ \/ Ensures(k) /\ out \in ensure(k) /\ errors' = errors
               \/ Ensures(k) /\ out \in ensureFailing(k) /\ errors < MaxErrors /\ errors' = errors + 1
               \/ Deletes(k) /\ out \in delete(k) /\ errors' = errors
               \/ Deletes(k) /\ out \in deleteFailing(k) /\ errors < MaxErrors /\ errors' = errors + 1
            /\ Apply(k, out, OnOk, OnRequeue) /\ OnOk \in Points /\ OnRequeue \in Points
            /\ pc # "idle"
            /\ UNCHANGED <<seen, sets, setsSeen, changes>>
<1>1. CASE reconcileSecGroup
  <2>1. OnOk = "fip" /\ OnRequeue = "fip" /\ Ensures("secgroup") /\ pc # "idle"
    <3>1. pc = "secgroup"
      BY <1>1 DEF reconcileSecGroup
    <3> QED BY <3>1 DEF OnOk, OnRequeue, Ensures
  <2>2. Handle("secgroup", ensure("secgroup"), ensureFailing("secgroup"), "fip", "fip")
    BY <1>1 DEF reconcileSecGroup
  <2> QED BY <2>1, <2>2, KindFacts, HandlePick, EnsureType, DeleteType
<1>2. CASE reconcileFIP
  <2>1. OnOk = "port" /\ OnRequeue = "port" /\ Deletes("fip") /\ pc # "idle"
        /\ (~mem.internal => Ensures("fip"))
    <3>1. pc = "fip"
      BY <1>2 DEF reconcileFIP
    <3> QED BY <3>1 DEF OnOk, OnRequeue, Ensures, Deletes
  <2>2. CASE mem.internal
    <3>1. Handle("fip", delete("fip"), deleteFailing("fip"), "port", "port")
      BY <1>2, <2>2 DEF reconcileFIP
    <3> QED BY <2>1, <3>1, KindFacts, HandlePick, DeleteType
  <2>3. CASE ~mem.internal
    <3>1. Handle("fip", ensure("fip"), ensureFailing("fip"), "port", "port")
      BY <1>2, <2>3 DEF reconcileFIP
    <3> QED BY <2>1, <2>3, <3>1, KindFacts, HandlePick, EnsureType
  <2> QED BY <2>2, <2>3
<1>3. CASE reconcilePort
  <2>1. OnOk = "associate" /\ OnRequeue = "associate" /\ Ensures("port") /\ pc # "idle"
    <3>1. pc = "port"
      BY <1>3 DEF reconcilePort
    <3> QED BY <3>1 DEF OnOk, OnRequeue, Ensures
  <2>2. Handle("port", ensure("port"), ensureFailing("port"), "associate", "associate")
    BY <1>3 DEF reconcilePort
  <2> QED BY <2>1, <2>2, KindFacts, HandlePick, EnsureType, DeleteType
<1>4. CASE reconcileServerGroup
  <2>1. OnOk = "finish" /\ OnRequeue = "finish" /\ Ensures("servergroup")
        /\ Deletes("servergroup") /\ pc # "idle"
    <3>1. pc = "servergroup"
      BY <1>4 DEF reconcileServerGroup
    <3> QED BY <3>1 DEF OnOk, OnRequeue, Ensures, Deletes
  <2>2. \/ Handle("servergroup", ensure("servergroup"), ensureFailing("servergroup"), "finish", "finish")
        \/ Handle("servergroup", delete("servergroup"), deleteFailing("servergroup"), "finish", "finish")
    BY <1>4 DEF reconcileServerGroup
  <2> QED BY <2>1, <2>2, KindFacts, HandlePick, EnsureType, DeleteType
<1>5. CASE deletionRoutine
  <2>1. PICK k \in Kinds, next \in Points :
           /\ \/ k = "servergroup" /\ pc = "deleteServergroup" /\ next = "deleteFip"
              \/ k = "fip" /\ pc = "deleteFip" /\ next = "deletePort"
              \/ k = "port" /\ pc = "deletePort" /\ next = "deleteSecgroup"
              \/ k = "secgroup" /\ pc = "deleteSecgroup" /\ next = "removeFinalizer"
           /\ \E out \in delete(k) \cup deleteFailing(k) :
                 /\ Apply(k, out, next, "idle")
                 /\ \/ out \in delete(k) /\ errors' = errors
                    \/ out \in deleteFailing(k) /\ errors < MaxErrors /\ errors' = errors + 1
           /\ UNCHANGED <<seen, sets, setsSeen, changes>>
    BY <1>5, DeletionPick
  <2>2. OnOk = next /\ OnRequeue = "idle" /\ Deletes(k) /\ pc # "idle"
    <3>1. CASE k = "servergroup" /\ pc = "deleteServergroup" /\ next = "deleteFip"
      BY <3>1 DEF OnOk, OnRequeue, Deletes
    <3>2. CASE k = "fip" /\ pc = "deleteFip" /\ next = "deletePort"
      BY <3>2 DEF OnOk, OnRequeue, Deletes
    <3>3. CASE k = "port" /\ pc = "deletePort" /\ next = "deleteSecgroup"
      BY <3>3 DEF OnOk, OnRequeue, Deletes
    <3>4. CASE k = "secgroup" /\ pc = "deleteSecgroup" /\ next = "removeFinalizer"
      BY <3>4 DEF OnOk, OnRequeue, Deletes
    <3> QED BY <2>1, <3>1, <3>2, <3>3, <3>4
  <2> QED BY <2>1, <2>2, KindFacts, DeleteType
<1> QED BY <1>1, <1>2, <1>3, <1>4, <1>5 DEF ResourceFunction

\* Every other step leaves OpenStack's resources alone, or is the operator's.
LEMMA OtherSteps ==
  ASSUME [Next]_vars, ~ResourceFunction, ~\E k \in Kinds : Vanish(k)
  PROVE  UNCHANGED <<cloud, foreign, created>>
BY DEF Next, Reconcile, Environment, ResourceFunction, vars, openstack, BeginReconcile,
       reconcileFIPAssociate, FinishOpenstack, reconcileLoadBalancerSet, BeginDeletion, deleteSets,
       RemoveFinalizer, UserChanges, ClaimFloatingIP, ChangeSpec, DeleteLB, SetsGone, Refresh,
       Crash, FiveMinutesPass

\* A search by name precedes every creation, so that a crash in between does not
\* lead to a second resource.
LEMMA AtMostOneStep == TypeInv /\ AtMostOne /\ [Next]_vars => AtMostOne'
<1> SUFFICES ASSUME TypeInv, AtMostOne, [Next]_vars, NEW j \in Kinds \ {"fip"}
             PROVE  Single(cloud'[j])
  BY DEF AtMostOne
<1>1. Single(cloud[j]) /\ cloud \in [Kinds -> SUBSET Nat]
  BY DEF AtMostOne, TypeInv, CloudType
<1>2. CASE ResourceFunction
  <2>1. PICK k \in Kinds : \E out \in OutcomeOf(k) :
          /\ out \in ensure(k) \cup ensureFailing(k) \/ out \in delete(k) \cup deleteFailing(k)
          /\ Apply(k, out, OnOk, OnRequeue)
    BY <1>2, ResourcePick
  <2>2. PICK out \in OutcomeOf(k) :
          /\ out \in ensure(k) \cup ensureFailing(k) \/ out \in delete(k) \cup deleteFailing(k)
          /\ Apply(k, out, OnOk, OnRequeue)
    BY <2>1
  <2>3. cloud' = [cloud EXCEPT ![k] = out.resources]
    BY <2>2 DEF Apply
  <2>4. k # "fip" => \/ out.resources \subseteq cloud[k]
                     \/ out.resources \subseteq {NextId(k)}
    BY <2>2, EnsureType, DeleteType
  <2>5. CASE j = k
    BY <1>1, <2>3, <2>4, <2>5 DEF Single
  <2>6. CASE j # k
    BY <1>1, <2>3, <2>6 DEF Single
  <2> QED BY <2>5, <2>6
<1>3. ASSUME NEW k \in Kinds, Vanish(k)
      PROVE  Single(cloud'[j])
  BY <1>1, <1>3 DEF Vanish, Single
<1>4. CASE ~ResourceFunction /\ ~\E k \in Kinds : Vanish(k)
  BY <1>1, <1>4, OtherSteps
<1> QED BY <1>2, <1>3, <1>4

\* At no time are there two security groups, ports or server groups of the
\* LoadBalancer in OpenStack: whichever requests fail and wherever the controller
\* crashes, the next reconcile finds by name what it created and did not note.
THEOREM NoSecondResource == Spec => []NoDuplicates
<1>1. Init => AtMostOne
  BY DEF Init, AtMostOne, Single
<1>2. AtMostOne => NoDuplicates
  BY SingleCardinality DEF AtMostOne, NoDuplicates
<1> QED BY <1>1, <1>2, TypeInit, TypeStep, AtMostOneStep, PTL DEF Spec

-----------------------------------------------------------------------------
\* Once a floating IP is marked as the user's, every copy of the LoadBalancer
\* that the controller may work on says so.
ForeignKnown ==
    /\ foreign # {} => /\ lb.existing # NoId /\ (dirty \/ seen.existing # NoId)
                       /\ pc = "idle" \/ mem.existing # NoId
    /\ mem.existing # NoId => lb.existing # NoId /\ (dirty \/ seen.existing # NoId)
    /\ seen.existing # NoId => lb.existing # NoId

\* Past deleteSets there are no LoadBalancerSets: the cache may miss their end,
\* but not their creation.
SetsKnown ==
    /\ ~dirty => setsSeen \/ sets = "none"
    /\ pc = "deleteSets" => ~dirty
    /\ pc \in {"deleteServergroup", "deleteFip", "deletePort", "deleteSecgroup", "removeFinalizer"}
         => sets = "none"

\* A function that handles resources learns of the user's floating IP with every
\* patch, and marks it only when it knows.
LEMMA ResourceStepKnown ==
  ASSUME TypeInv, ForeignKnown, SetsKnown, ResourceFunction
  PROVE  ForeignKnown' /\ SetsKnown'
<1>1. PICK k \in Kinds : \E out \in OutcomeOf(k) :
          /\ Apply(k, out, OnOk, OnRequeue) /\ OnOk \in Points /\ OnRequeue \in Points /\ pc # "idle"
          /\ UNCHANGED <<seen, sets, setsSeen, changes>>
  BY ResourcePick
<1>2. PICK out \in OutcomeOf(k) :
          /\ Apply(k, out, OnOk, OnRequeue) /\ OnOk \in Points /\ OnRequeue \in Points /\ pc # "idle"
          /\ UNCHANGED <<seen, sets, setsSeen, changes>>
  BY <1>1
<1>3. lb' = [lb EXCEPT !.res = [lb.res EXCEPT ![k] = out.res], !.ip = out.ip]
  BY <1>2, ApplyStep
<1>4. \/ mem' = lb' /\ dirty' = TRUE
      \/ mem' = mem /\ lb' = lb /\ dirty' = dirty
  BY <1>2, ApplyStep
<1>5. pc' \in {OnOk, OnRequeue, "idle"}
  BY <1>2, ApplyStep
<1>6. lb'.existing = lb.existing
  BY <1>3 DEF TypeInv, TypeOK, LBObject
<1>7. foreign' = foreign \/ (foreign # {} /\ foreign' # {}) \/ mem'.existing # NoId
  BY DEF ResourceFunction, reconcileSecGroup, reconcileFIP, reconcilePort, reconcileServerGroup,
         deletionRoutine, deleteResources
<1>8. ForeignKnown'
  BY <1>2, <1>4, <1>6, <1>7 DEF ForeignKnown
<1>9. SetsKnown'
  <2>1. pc \in {"secgroup", "fip", "port", "servergroup"}
        \/ pc \in {"deleteServergroup", "deleteFip", "deletePort", "deleteSecgroup"}
    BY DEF ResourceFunction, reconcileSecGroup, reconcileFIP, reconcilePort, reconcileServerGroup,
           deletionRoutine, deleteResources
  <2>2. CASE pc \in {"secgroup", "fip", "port", "servergroup"}
    <3>1. pc' \in {"fip", "port", "associate", "finish", "idle"}
      BY <1>5, <2>2 DEF OnOk, OnRequeue
    <3> QED BY <1>2, <1>4, <3>1 DEF SetsKnown
  <2>3. CASE pc \in {"deleteServergroup", "deleteFip", "deletePort", "deleteSecgroup"}
    <3>1. pc' \in {"deleteFip", "deletePort", "deleteSecgroup", "removeFinalizer", "idle"}
      BY <1>5, <2>3 DEF OnOk, OnRequeue
    <3> QED BY <1>2, <1>4, <2>3, <3>1 DEF SetsKnown
  <2> QED BY <2>1, <2>2, <2>3
<1> QED BY <1>8, <1>9

\* No step lets the controller forget the user's floating IP or the sets.
LEMMA KnownStep == TypeInv /\ ForeignKnown /\ SetsKnown /\ [Next]_vars => ForeignKnown' /\ SetsKnown'
<1> SUFFICES ASSUME TypeInv, ForeignKnown, SetsKnown, [Next]_vars
             PROVE  ForeignKnown' /\ SetsKnown'
  OBVIOUS
<1> USE DEF ForeignKnown, SetsKnown
<1>0. lb \in LBObject /\ seen \in LBObject
  BY DEF TypeInv, TypeOK
<1>1. CASE ResourceFunction
  BY <1>1, ResourceStepKnown
<1>2. CASE BeginReconcile
  <2>1. lb'.existing = lb.existing /\ seen' = seen /\ foreign' = foreign /\ sets' = sets
        /\ setsSeen' = setsSeen /\ pc' \in {"secgroup", "sets"}
    BY <1>0, <1>2 DEF BeginReconcile, openstack, LBObject
  <2>2. ~dirty /\ ((mem' = seen /\ dirty' = dirty) \/ (mem' = lb' /\ dirty' = TRUE))
    BY <1>2 DEF BeginReconcile
  <2> QED BY <2>1, <2>2
<1>3. CASE FinishOpenstack
  <2>1. lb'.existing = lb.existing /\ seen' = seen /\ foreign' = foreign /\ sets' = sets
        /\ setsSeen' = setsSeen /\ pc' \in {"idle", "sets"} /\ pc = "finish"
    BY <1>0, <1>3 DEF FinishOpenstack, openstack, LBObject
  <2>2. (mem' = mem /\ dirty' = dirty) \/ (mem' = lb' /\ dirty' = TRUE)
    BY <1>3 DEF FinishOpenstack
  <2> QED BY <2>1, <2>2
<1>4. CASE reconcileFIPAssociate \/ reconcileLoadBalancerSet \/ BeginDeletion \/ deleteSets
  BY <1>4 DEF reconcileFIPAssociate, reconcileLoadBalancerSet, BeginDeletion, deleteSets, openstack
<1>5. CASE RemoveFinalizer
  <2>1. lb'.existing = lb.existing
    BY <1>0, <1>5 DEF RemoveFinalizer, LBObject
  <2> QED BY <1>5, <2>1 DEF RemoveFinalizer, openstack
<1>6. CASE SetsGone \/ Refresh \/ Crash
  <2>1. CASE SetsGone \/ Crash
    BY <2>1 DEF SetsGone, Crash, openstack
  <2>2. CASE Refresh
    <3>1. setsSeen' \/ sets' = "none"
      BY <2>2, Zenon DEF Refresh
    <3>2. dirty' = FALSE
      BY <2>2 DEF Refresh
    <3>3. UNCHANGED <<lb, mem, pc, sets, foreign>> /\ seen' = lb
      BY <2>2 DEF Refresh, openstack
    <3> QED BY <3>1, <3>2, <3>3
  <2> QED BY <1>6, <2>1, <2>2
<1>7. CASE UserChanges \/ ClaimFloatingIP
  <2>1. lb'.existing = lb.existing \/ lb'.existing # NoId
    <3>1. CASE UserChanges
      BY <1>0, <3>1 DEF UserChanges, ChangeSpec, LBObject
    <3>2. CASE ClaimFloatingIP
      <4>1. lb.ip[2] # NoId
        BY <1>0, <3>2 DEF ClaimFloatingIP, LBObject, NoIp
      <4> QED BY <1>0, <3>2, <4>1 DEF ClaimFloatingIP, ChangeSpec, LBObject
    <3> QED BY <1>7, <3>1, <3>2
  <2>2. UNCHANGED <<seen, mem, pc, requeue, sets, setsSeen, dirty, openstack, errors>>
    BY <1>7 DEF UserChanges, ClaimFloatingIP, ChangeSpec
  <2> QED BY <2>1, <2>2 DEF openstack
<1>8. CASE DeleteLB \/ FiveMinutesPass
  <2>1. lb'.existing = lb.existing /\ seen'.existing = seen.existing
    BY <1>0, <1>8 DEF DeleteLB, FiveMinutesPass, LBObject
  <2> QED BY <1>8, <2>1 DEF DeleteLB, FiveMinutesPass, openstack
<1>9. CASE \E k \in Kinds : Vanish(k)
  BY <1>9 DEF Vanish
<1>10. CASE UNCHANGED vars
  BY <1>10 DEF vars, openstack
<1> QED BY <1>1, <1>2, <1>3, <1>4, <1>5, <1>6, <1>7, <1>8, <1>9, <1>10
        DEF Next, Reconcile, Environment, ResourceFunction

\* What the deletion removes is not in use: no LoadBalancerSet is left, and the
\* copy it works on names the floating IP of the user.
LEMMA StayStep ==
  ASSUME TypeInv, ForeignKnown, SetsKnown, Reconcile
  PROVE  /\ \A j \in {"port", "secgroup"} : cloud[j] \ cloud'[j] # {} => sets = "none"
         /\ foreign \cap cloud["fip"] \subseteq cloud'["fip"]
<1>1. CASE ResourceFunction
  <2>1. PICK k \in Kinds : \E out \in OutcomeOf(k) :
          /\ \/ Ensures(k) /\ out \in ensure(k) \cup ensureFailing(k)
             \/ Deletes(k) /\ out \in delete(k) \cup deleteFailing(k)
          /\ Apply(k, out, OnOk, OnRequeue) /\ pc # "idle"
    BY <1>1, ResourcePick
  <2>2. PICK out \in OutcomeOf(k) :
          /\ \/ Ensures(k) /\ out \in ensure(k) \cup ensureFailing(k)
             \/ Deletes(k) /\ out \in delete(k) \cup deleteFailing(k)
          /\ Apply(k, out, OnOk, OnRequeue) /\ pc # "idle"
    BY <2>1
  <2>3. cloud' = [cloud EXCEPT ![k] = out.resources] /\ cloud \in [Kinds -> SUBSET Nat]
    BY <2>2 DEF Apply, TypeInv, CloudType
  <2>4. CASE Ensures(k) /\ out \in ensure(k) \cup ensureFailing(k)
    <3>1. k # "servergroup" => cloud[k] \subseteq out.resources
      BY <2>4, EnsureType
    <3> QED BY <2>3, <3>1, KindFacts
  <2>5. CASE Deletes(k) /\ out \in delete(k) \cup deleteFailing(k)
    <3>1. foreign = {} \/ (k = "fip" => out.resources = cloud[k])
      <4>1. k = "fip" /\ foreign # {} => IsKept(k)
        BY <2>2 DEF IsKept, ForeignKnown
      <4> QED BY <2>5, <4>1, DeleteType
    <3>2. k \in {"port", "secgroup"} => sets = "none"
      BY <2>5 DEF Deletes, SetsKnown
    <3> QED BY <2>3, <3>1, <3>2, KindFacts
  <2> QED BY <2>2, <2>4, <2>5
<1>2. CASE ~ResourceFunction
  <2>1. UNCHANGED cloud
    BY <1>2 DEF Reconcile, ResourceFunction, openstack, BeginReconcile,
       reconcileFIPAssociate, FinishOpenstack, reconcileLoadBalancerSet, BeginDeletion, deleteSets,
       RemoveFinalizer
  <2> QED BY <2>1
<1> QED BY <1>1, <1>2

\* Whatever fails, crashes or is read from an old cache: port and security group
\* stay while a LoadBalancerSet uses them, and a floating IP marked as the user's
\* is never deleted, neither with the LoadBalancer nor when it becomes internal.
THEOREM NothingInUseIsDeleted == Spec => UsedResourcesStay
<1>1. Init => ForeignKnown /\ SetsKnown
  <2> SUFFICES ASSUME Init
               PROVE  ForeignKnown /\ SetsKnown
    OBVIOUS
  <2>1. foreign # {} => lb.existing = UserFip
    BY DEF Init
  <2> QED BY <2>1 DEF Init, ForeignKnown, SetsKnown, NoId, UserFip
<1>2. TypeInv /\ ForeignKnown /\ SetsKnown /\ [Next]_vars
        => [cloud' # cloud /\ Reconcile =>
              /\ \A k \in {"port", "secgroup"} : cloud[k] \ cloud'[k] # {} => sets = "none"
              /\ foreign \cap cloud["fip"] \subseteq cloud'["fip"]]_vars
  BY StayStep
<1> QED BY <1>1, <1>2, TypeInit, TypeStep, KnownStep, PTL DEF Spec, UsedResourcesStay

-----------------------------------------------------------------------------
\* The deletion of what is not kept: it reports success only when a search by name
\* finds nothing, or there is no name to search for; it forgets the name only
\* then, except when the search for server groups fails; and it forgets the ID
\* only of what it does not find.
LEMMA DeleteOutcome ==
  ASSUME TypeInv, NEW k \in Kinds, ~IsKept(k), NEW out \in delete(k) \cup deleteFailing(k)
  PROVE  /\ out \in delete(k) =>
              /\ out.result = "ok" => out.resources \cap Listed(k) = {} \/ ~mem.res[k].name
              /\ out.res.name = mem.res[k].name \/ out.resources \cap Listed(k) = {}
              /\ out.res.id = mem.res[k].id \/ mem.res[k].id \notin cloud[k]
         /\ out \in deleteFailing(k) =>
              /\ out.result # "ok"
              /\ \/ out.res.name = mem.res[k].name
                 \/ k = "servergroup" /\ out.resources = cloud[k] \ {mem.res[k].id}
<1> DEFINE res == mem.res[k]
<1>1. /\ res \in Res /\ WithoutId(res).name = res.name /\ WithoutId(res).id = NoId
      /\ [res EXCEPT !.name = FALSE].name = FALSE /\ [res EXCEPT !.name = FALSE].id = res.id
      /\ Listed(k) \subseteq cloud[k]
  <2>1. NoId \in Nat
    BY DEF NoId
  <2> QED BY <2>1, Parts, ResTypes
<1>2. ASSUME out \in delete(k)
      PROVE  /\ out.result = "ok" => out.resources \cap Listed(k) = {} \/ ~res.name
             /\ out.res.name = res.name \/ out.resources \cap Listed(k) = {}
             /\ out.res.id = res.id \/ res.id \notin cloud[k]
  <2>1. out \in deleteAll(k)
    BY <1>2 DEF delete
  <2>2. CASE res.id # NoId /\ res.id \notin cloud[k]
    <3>1. out = Outcome(WithoutId(res), cloud[k], mem.ip, "requeue")
      BY <2>1, <2>2 DEF deleteAll
    <3> QED BY <1>1, <2>2, <3>1 DEF Outcome
  <2>3. CASE ~(res.id # NoId /\ res.id \notin cloud[k]) /\ ~res.name
    <3>1. PICK result : out = Outcome(res, RemainingById(k), mem.ip, result)
      BY <2>1, <2>3 DEF deleteAll
    <3> QED BY <2>3, <3>1 DEF Outcome
  <2>4. CASE ~(res.id # NoId /\ res.id \notin cloud[k]) /\ res.name /\ Listed(k) \ {res.id} = {}
    <3>1. PICK result : out = Outcome([res EXCEPT !.name = FALSE], RemainingById(k), mem.ip, result)
      BY <2>1, <2>4 DEF deleteAll
    <3> QED BY <1>1, <2>4, <3>1 DEF Outcome, RemainingById
  <2>5. CASE ~(res.id # NoId /\ res.id \notin cloud[k]) /\ res.name /\ Listed(k) \ {res.id} # {}
    <3>1. PICK S : out = Outcome(res, S, mem.ip, "requeue")
      BY <2>1, <2>5 DEF deleteAll
    <3> QED BY <3>1 DEF Outcome
  <2> QED BY <2>2, <2>3, <2>4, <2>5
<1>3. ASSUME out \in deleteFailing(k)
      PROVE  /\ out.result # "ok"
             /\ \/ out.res.name = res.name
                \/ k = "servergroup" /\ out.resources = cloud[k] \ {res.id}
  <2>1. \/ \E R : out = Outcome(res, cloud[k] \ R, mem.ip, "error")
        \/ out = Outcome(WithoutId(res), cloud[k], mem.ip, "requeue")
        \/ /\ k = "servergroup"
           /\ out = Outcome([res EXCEPT !.name = FALSE], RemainingById(k), mem.ip, "requeue")
    BY <1>3 DEF deleteFailing
  <2> QED BY <1>1, <2>1 DEF Outcome, RemainingById
<1> QED BY <1>2, <1>3

\* A server group without a failed request: what there is has its ID noted.
LEMMA EnsureGroup ==
  ASSUME TypeInv, AtMostOne, cloud["servergroup"] \subseteq {mem.res["servergroup"].id},
         NEW out \in ensure("servergroup")
  PROVE  out.resources \subseteq {out.res.id}
<1> DEFINE k == "servergroup"
<1>1. k \in Kinds /\ Single(cloud[k]) /\ cloud[k] \subseteq 1 .. created[k] /\ created[k] \in Nat
  BY KindFacts, Parts DEF AtMostOne
<1>2. PICK c \in Candidates(k) : out = Checked(k, c)
  BY DEF ensure
<1>3. /\ c[1] \in Nat /\ c[2] \subseteq 1 .. NextId(k)
      /\ \/ c[2] = cloud[k]
         \/ c[1] = NextId(k) /\ c[2] = cloud[k] \cup {NextId(k)} /\ cloud[k] = {}
  BY <1>1, CandidatesType DEF Listed
<1>4. CASE c[1] \in c[2]
  <2>1. out.res.id = c[1] /\ out.resources \subseteq c[2]
    <3>1. out.res = WithId(c[1]) /\ (out.resources = c[2] \/ out.resources = c[2] \ {c[1]})
      BY <1>1, <1>2, <1>3, <1>4, CheckedType
    <3> QED BY <3>1 DEF WithId
  <2>2. c[2] \subseteq {c[1]}
    BY <1>1, <1>3, <1>4 DEF Single
  <2> QED BY <2>1, <2>2
<1>5. CASE c[1] \notin c[2]
  <2>1. out.resources = cloud[k] /\ c[2] = cloud[k]
    BY <1>1, <1>2, <1>3, <1>5, CheckedType, NotFoundType
  <2>2. CASE mem.res[k].id # NoId
    <3>1. c[1] = mem.res[k].id
      BY <2>2 DEF Candidates
    <3> QED BY <1>5, <2>1, <3>1
  <2>3. CASE mem.res[k].id = NoId
    BY <1>1, <2>1, <2>3 DEF NoId
  <2> QED BY <2>2, <2>3
<1> QED BY <1>4, <1>5

\* A floating IP without a failed request: one that is there, or a new one where a
\* search by name finds none.
LEMMA EnsureFip ==
  ASSUME TypeInv, NEW out \in ensure("fip")
  PROVE  \/ /\ out.resources = cloud["fip"]
            /\ \/ mem.res["fip"].id = NoId
               \/ /\ out.res.id = mem.res["fip"].id
                  /\ out.ip = mem.ip \/ out.ip = <<"fip", out.res.id>>
         \/ /\ out.resources = cloud["fip"] \cup {NextId("fip")} /\ Listed("fip") = {}
            /\ mem.res["fip"].id = NoId /\ out.res.id = NextId("fip")
            /\ out.ip = <<"fip", NextId("fip")>> /\ out.result # "error"
<1> DEFINE k == "fip"
<1>1. k \in Kinds
  BY KindFacts
<1>2. PICK c \in Candidates(k) : out = Checked(k, c)
  BY DEF ensure
<1>3. /\ c[1] \in Nat /\ c[2] \subseteq 1 .. NextId(k)
      /\ \/ c[2] = cloud[k]
         \/ /\ c[1] = NextId(k) /\ c[2] = cloud[k] \cup {NextId(k)} /\ Listed(k) = {}
            /\ mem.res[k].id = NoId
  BY <1>1, CandidatesType
<1>4. out.resources = c[2]
  BY <1>1, <1>2, <1>3, CheckedType
<1>5. CASE c[1] \in c[2]
  <2>1. out.res = WithId(c[1]) /\ out.ip = <<"fip", c[1]>> /\ out.result # "error"
    BY <1>1, <1>2, <1>3, <1>5, CheckedType DEF PublishedIp
  <2>2. out.res.id = c[1]
    BY <2>1 DEF WithId
  <2>3. mem.res[k].id # NoId => c[1] = mem.res[k].id
    BY DEF Candidates
  <2> QED BY <1>3, <1>4, <2>1, <2>2, <2>3
<1>6. CASE c[1] \notin c[2]
  <2>1. out.res.id = mem.res[k].id /\ out.ip = mem.ip
    BY <1>1, <1>2, <1>3, <1>6, CheckedType, NotFoundType
  <2>2. c[2] = cloud[k]
    BY <1>3, <1>6
  <2> QED BY <1>4, <2>1, <2>2
<1> QED BY <1>5, <1>6

\* The other functions publish no floating IP.
LEMMA EnsureIp ==
  ASSUME TypeInv, NEW k \in Kinds \ {"fip"}, NEW out \in ensure(k)
  PROVE  out.ip = mem.ip \/ out.ip[1] = "port"
<1>1. PICK c \in Candidates(k) : out = Checked(k, c)
  BY DEF ensure
<1>2. CASE c[1] \notin c[2]
  BY <1>1, <1>2, NotFoundType DEF Checked
<1>3. CASE c[1] \in c[2]
  BY <1>1, <1>3 DEF Checked, Outcome, PublishedIp
<1> QED BY <1>2, <1>3

-----------------------------------------------------------------------------
(***************************************************************************)
(* The finalizer protocol.  What keeps the controller from losing track of *)
(* a resource is its name in the status, which is written before the       *)
(* resource is created and forgotten after the last one is gone.           *)
(***************************************************************************)

\* The resources of kind k that must go before the LoadBalancer does.
Left(k) == IF k = "fip" THEN Listed(k) \ {lb.existing} ELSE cloud[k]

Guarded ==
    /\ lb.finalizer => lb.exists
    /\ lb.exists /\ lb.deleting => lb.finalizer
    /\ seen.exists /\ seen.deleting => seen.finalizer
    /\ pc # "idle" => lb.finalizer

NamesNoted == \A k \in Kinds \ Keep : Left(k) # {} => lb.res[k].name /\ lb.finalizer

\* While no request has failed the status has the ID of the server group, so that
\* a failed search by name does no harm.
GroupNoted == errors = 0 => cloud["servergroup"] \subseteq {lb.res["servergroup"].id}

\* The only floating IP that must go is the noted and published one, and there is
\* none once the user has named one.
FipNoted ==
    \/ "fip" \in Keep \/ Left("fip") = {}
    \/ /\ lb.existing = NoId /\ Left("fip") = {lb.res["fip"].id}
       /\ lb.ip[1] = "fip" => Left("fip") = {lb.ip[2]}

\* The kinds that are gone when the deletion has come to a point.
Done ==
    ({"servergroup"} \X {"deleteFip", "deletePort", "deleteSecgroup", "removeFinalizer"})
    \cup ({"fip"} \X {"deletePort", "deleteSecgroup", "removeFinalizer"})
    \cup ({"port"} \X {"deleteSecgroup", "removeFinalizer"}) \cup {<<"secgroup", "removeFinalizer">>}

Achieved == \A k \in Kinds \ Keep : <<k, pc>> \in Done => Left(k) = {}

Noted == NamesNoted /\ GroupNoted /\ FipNoted /\ Achieved

\* A step that leaves the resources and their status alone.
LEMMA QuietNoted ==
  ASSUME Noted, UNCHANGED <<cloud, foreign>>, lb'.res = lb.res, lb'.ip = lb.ip,
         lb'.existing = lb.existing, lb.finalizer => lb'.finalizer,
         errors' = errors \/ errors' # 0,
         pc' = pc \/ pc' \notin {"deleteFip", "deletePort", "deleteSecgroup", "removeFinalizer"}
  PROVE  Noted'
<1>1. \A k \in Kinds : Left(k)' = Left(k)
  BY DEF Left, Listed
<1>2. NamesNoted'
  BY <1>1 DEF Noted, NamesNoted
<1>3. GroupNoted'
  BY DEF Noted, GroupNoted
<1>4. FipNoted'
  BY <1>1, KindFacts DEF Noted, FipNoted
<1>5. Achieved'
  <2>1. \A k \in Kinds : <<k, pc'>> \in Done => <<k, pc>> \in Done
    BY DEF Done
  <2> QED BY <1>1, <2>1 DEF Noted, Achieved
<1> QED BY <1>2, <1>3, <1>4, <1>5 DEF Noted

\* A step that only takes resources away, or leaves some of them to the user.
LEMMA LossNoted ==
  ASSUME Noted, \A k \in Kinds : Left(k)' \subseteq Left(k),
         Left("fip")' = {} \/ (Left("fip")' = Left("fip") /\ lb'.existing = lb.existing),
         cloud'["servergroup"] \subseteq cloud["servergroup"],
         lb'.res = lb.res, lb'.ip = lb.ip, lb'.finalizer = lb.finalizer, UNCHANGED <<pc, errors>>
  PROVE  Noted'
<1>2. NamesNoted'
  BY DEF Noted, NamesNoted
<1>3. GroupNoted'
  BY DEF Noted, GroupNoted
<1>4. FipNoted'
  BY DEF Noted, FipNoted
<1>5. Achieved'
  BY DEF Noted, Achieved, Done
<1> QED BY <1>2, <1>3, <1>4, <1>5 DEF Noted

\* What a function that handles resources leaves: of the other kinds what was
\* there, of its own kind what the outcome says.
LEMMA ResourceStepLeft ==
  ASSUME TypeInv, ResourceFunction, pc # "idle", NEW k \in Kinds, NEW out \in OutcomeOf(k),
         Ensures(k) \/ Deletes(k), Apply(k, out, OnOk, OnRequeue), OnOk \in Points, OnRequeue \in Points
  PROVE  /\ \A j \in Kinds \ {k} : Left(j)' = Left(j) /\ lb'.res[j] = lb.res[j] /\ cloud'[j] = cloud[j]
         /\ lb'.existing = lb.existing /\ lb'.finalizer = lb.finalizer
         /\ lb'.res[k] = out.res /\ lb'.ip = out.ip /\ cloud'[k] = out.resources
         /\ lb.res = mem.res /\ lb.ip = mem.ip
         /\ Left(k)' \subseteq out.resources
         /\ k = "fip" => Left(k)' \cap (foreign \cup {lb.existing}) = {}
         /\ out.resources \subseteq cloud[k] => Left(k)' \subseteq Left(k)
         /\ out.resources \subseteq cloud[k] /\ out.resources \cap Listed(k) = {} => Left(k)' = {}
<1>1. /\ cloud' = [cloud EXCEPT ![k] = out.resources] /\ cloud \in [Kinds -> SUBSET Nat]
      /\ lb' = [lb EXCEPT !.res = [lb.res EXCEPT ![k] = out.res], !.ip = out.ip]
  BY ApplyStep DEF TypeInv, CloudType
<1>2. /\ lb'.res = [lb.res EXCEPT ![k] = out.res] /\ lb'.ip = out.ip /\ lb'.existing = lb.existing
      /\ lb'.finalizer = lb.finalizer /\ lb.res \in [Kinds -> Res]
  BY <1>1 DEF TypeInv, TypeOK, LBObject, Res
<1>3. foreign \subseteq foreign' /\ (k # "fip" => foreign' = foreign)
  BY DEF ResourceFunction, reconcileSecGroup, reconcileFIP, reconcilePort, reconcileServerGroup,
         deletionRoutine, deleteResources, Ensures, Deletes
<1>4. lb.res = mem.res /\ lb.ip = mem.ip
  BY DEF TypeInv, Current, Agrees
<1>5. \A j \in Kinds \ {k} : Left(j)' = Left(j) /\ lb'.res[j] = lb.res[j] /\ cloud'[j] = cloud[j]
  BY <1>1, <1>2, <1>3, KindFacts, ZenonT(30) DEF Left, Listed
<1>6. Left(k)' = IF k = "fip" THEN (out.resources \ foreign') \ {lb.existing} ELSE out.resources
  BY <1>1, <1>2, KindFacts DEF Left, Listed
<1>7. Left(k)' \subseteq out.resources /\ (k = "fip" => Left(k)' \cap (foreign \cup {lb.existing}) = {})
  BY <1>3, <1>6
<1>8. out.resources \subseteq cloud[k] => Left(k)' \subseteq Left(k)
  BY <1>7 DEF Left, Listed
<1>9. out.resources \subseteq cloud[k] /\ out.resources \cap Listed(k) = {} => Left(k)' = {}
  BY <1>7 DEF Listed
<1> QED BY <1>1, <1>2, <1>4, <1>5, <1>7, <1>8, <1>9

\* Where the deletion has gone on, the kind it has handled is reported as gone.
LEMMA ResourceStepDone ==
  ASSUME TypeInv, pc # "idle", NEW k \in Kinds, NEW out \in OutcomeOf(k),
         Ensures(k) \/ Deletes(k), Apply(k, out, OnOk, OnRequeue), OnOk \in Points, OnRequeue \in Points,
         NEW j \in Kinds, <<j, pc'>> \in Done
  PROVE  \/ j # k /\ <<j, pc>> \in Done
         \/ j = k /\ Deletes(k) /\ out.result = "ok"
<1>1. /\ pc' \in {OnOk, OnRequeue, "idle"} /\ (out.result = "requeue" => pc' = OnRequeue)
      /\ (out.result = "error" => pc' = "idle") /\ out.result \in {"ok", "requeue", "error"}
  <2>1. out.result \in {"ok", "requeue", "error"}
    BY DEF OutcomeOf
  <2>2. pc' \in {OnOk, OnRequeue, "idle"}
    BY ApplyStep
  <2>3. out.result = "requeue" => pc' = OnRequeue
    BY DEF Apply
  <2>4. out.result = "error" => pc' = "idle"
    BY ApplyStep
  <2> QED BY <2>1, <2>2, <2>3, <2>4
<1>2. CASE pc \in {"secgroup", "fip", "port", "servergroup"}
  <2>1. pc' \in {"fip", "port", "associate", "finish", "idle"}
    BY <1>1, <1>2 DEF OnOk, OnRequeue
  <2> QED BY <2>1 DEF Done
<1>3. CASE pc \notin {"secgroup", "fip", "port", "servergroup"}
  <2>1. Deletes(k) /\ OnRequeue = "idle"
    BY <1>3 DEF Ensures, Deletes, OnRequeue, Kinds
  <2>2. out.result = "ok" /\ pc' = OnOk
    BY <1>1, <2>1 DEF Done
  <2>3. CASE k = "servergroup" /\ pc = "deleteServergroup"
    BY <2>1, <2>2, <2>3 DEF OnOk, Done
  <2>4. CASE k = "fip" /\ pc = "deleteFip"
    BY <2>1, <2>2, <2>4 DEF OnOk, Done
  <2>5. CASE k = "port" /\ pc = "deletePort"
    BY <2>1, <2>2, <2>5 DEF OnOk, Done
  <2>6. CASE k = "secgroup" /\ pc = "deleteSecgroup"
    BY <2>1, <2>2, <2>6 DEF OnOk, Done
  <2> QED BY <1>3, <2>1, <2>3, <2>4, <2>5, <2>6 DEF Deletes
<1> QED BY <1>2, <1>3

\* The functions that handle resources keep track of them, with at most one
\* failed request in all, and none where floating IPs must go.
LEMMA ResourceStepNoted ==
  ASSUME TypeInv, AtMostOne, ForeignKnown, Guarded, Noted, ResourceFunction,
         MaxErrors <= 1, MaxErrors = 0 \/ "fip" \in Keep
  PROVE  Noted'
<1>1. PICK k \in Kinds : \E out \in OutcomeOf(k) :
            /\ \/ Ensures(k) /\ out \in ensure(k) /\ errors' = errors
               \/ Ensures(k) /\ out \in ensureFailing(k) /\ errors < MaxErrors /\ errors' = errors + 1
               \/ Deletes(k) /\ out \in delete(k) /\ errors' = errors
               \/ Deletes(k) /\ out \in deleteFailing(k) /\ errors < MaxErrors /\ errors' = errors + 1
            /\ Apply(k, out, OnOk, OnRequeue) /\ OnOk \in Points /\ OnRequeue \in Points
            /\ pc # "idle"
  BY ResourcePick
<1>2. PICK out \in OutcomeOf(k) :
            /\ \/ Ensures(k) /\ out \in ensure(k) /\ errors' = errors
               \/ Ensures(k) /\ out \in ensureFailing(k) /\ errors < MaxErrors /\ errors' = errors + 1
               \/ Deletes(k) /\ out \in delete(k) /\ errors' = errors
               \/ Deletes(k) /\ out \in deleteFailing(k) /\ errors < MaxErrors /\ errors' = errors + 1
            /\ Apply(k, out, OnOk, OnRequeue) /\ OnOk \in Points /\ OnRequeue \in Points
            /\ pc # "idle"
  BY <1>1
<1>3. /\ \A j \in Kinds \ {k} : Left(j)' = Left(j) /\ lb'.res[j] = lb.res[j] /\ cloud'[j] = cloud[j]
      /\ lb'.existing = lb.existing /\ lb'.finalizer = lb.finalizer
      /\ lb'.res[k] = out.res /\ lb'.ip = out.ip /\ cloud'[k] = out.resources
      /\ lb.res = mem.res /\ lb.ip = mem.ip
      /\ Left(k)' \subseteq out.resources
      /\ k = "fip" => Left(k)' \cap (foreign \cup {lb.existing}) = {}
      /\ out.resources \subseteq cloud[k] => Left(k)' \subseteq Left(k)
      /\ out.resources \subseteq cloud[k] /\ out.resources \cap Listed(k) = {} => Left(k)' = {}
  BY <1>2, ResourceStepLeft
<1>4. errors \in Nat /\ MaxErrors \in Nat /\ MaxErrors <= 1 /\ lb.finalizer /\ lb'.finalizer
  BY <1>2, <1>3, OpenstackAssumption DEF TypeInv, TypeOK, Guarded
<1>5. IsKept(k) /\ k \notin Keep => k = "fip" /\ lb.existing # NoId /\ Left(k) = {}
  BY DEF IsKept, ForeignKnown, Noted, FipNoted
<1>6. Deletes(k) /\ out \in delete(k) \cup deleteFailing(k) =>
        /\ out.resources \subseteq cloud[k] /\ out.ip = mem.ip
        /\ out.res.id \in {mem.res[k].id, NoId} /\ Left(k)' \subseteq Left(k)
  BY <1>3, DeleteType
<1>7. NamesNoted'
  <2>1. k \notin Keep /\ Left(k)' # {} => out.res.name
    <3>1. CASE out \in ensure(k) \cup ensureFailing(k)
      <4>1. out.res.name \/ (out.res = mem.res[k] /\ out.resources = cloud[k])
        BY <3>1, EnsureType
      <4> QED BY <1>3, <4>1 DEF Noted, NamesNoted
    <3>2. CASE Deletes(k) /\ out \in delete(k) \cup deleteFailing(k) /\ IsKept(k)
      BY <1>5, <1>6, <3>2
    <3>3. CASE Deletes(k) /\ out \in delete(k) /\ ~IsKept(k)
      BY <1>3, <1>6, <3>3, DeleteOutcome DEF Noted, NamesNoted
    <3>4. CASE Deletes(k) /\ out \in deleteFailing(k) /\ ~IsKept(k) /\ errors < MaxErrors
      <4>1. errors = 0
        BY <1>4, <3>4
      <4>2. CASE out.res.name = mem.res[k].name
        BY <1>3, <1>6, <3>4, <4>2 DEF Noted, NamesNoted
      <4>3. CASE k = "servergroup" /\ out.resources = cloud[k] \ {mem.res[k].id}
        BY <1>3, <4>1, <4>3 DEF Noted, GroupNoted
      <4> QED BY <3>4, <4>2, <4>3, DeleteOutcome
    <3> QED BY <1>2, <3>1, <3>2, <3>3, <3>4
  <2> QED BY <1>3, <1>4, <2>1 DEF Noted, NamesNoted
<1>8. GroupNoted'
  <2>1. CASE k # "servergroup"
    BY <1>2, <1>3, <1>4, <2>1, KindFacts DEF Noted, GroupNoted
  <2>2. CASE k = "servergroup" /\ errors' = 0
    <3>1. errors = 0 /\ cloud[k] \subseteq {mem.res[k].id}
      BY <1>2, <1>3, <1>4, <2>2 DEF Noted, GroupNoted
    <3>2. CASE out \in ensure(k)
      BY <1>3, <2>2, <3>1, <3>2, EnsureGroup DEF GroupNoted
    <3>3. CASE Deletes(k) /\ out \in delete(k)
      <4>1. ~IsKept(k)
        BY <2>2, OpenstackAssumption DEF IsKept
      <4> QED BY <1>3, <1>6, <2>2, <3>1, <3>3, <4>1, DeleteOutcome DEF GroupNoted
    <3> QED BY <1>2, <1>4, <2>2, <3>1, <3>2, <3>3
  <2> QED BY <2>1, <2>2 DEF GroupNoted
<1>9. FipNoted'
  <2> SUFFICES ASSUME "fip" \notin Keep
               PROVE  FipNoted'
    BY DEF FipNoted
  <2>1. MaxErrors = 0 /\ ~(errors < MaxErrors)
    BY <1>4
  <2>2. mem.res["fip"].id \in Nat /\ cloud["fip"] \subseteq 1 .. created["fip"]
        /\ created["fip"] \in Nat /\ NextId("fip") = created["fip"] + 1
        /\ Left("fip") \subseteq cloud["fip"]
    BY Parts, KindFacts DEF Res, Left
  <2>3. CASE k # "fip"
    <3>1. Left("fip")' = Left("fip") /\ lb'.res["fip"] = lb.res["fip"]
      BY <1>3, <2>3, KindFacts
    <3>2. out.ip = lb.ip \/ out.ip[1] = "port"
      BY <1>2, <1>3, <1>6, <2>1, <2>3, EnsureIp
    <3> QED BY <1>3, <3>1, <3>2 DEF Noted, FipNoted
  <2>4. CASE k = "fip" /\ Ensures(k) /\ out \in ensure(k)
    <3>1. CASE out.resources = cloud["fip"]
      <4>1. Left("fip")' \subseteq Left("fip")
        BY <1>3, <2>4, <3>1
      <4>2. CASE mem.res["fip"].id = NoId
        <5>1. Left("fip") = {}
          BY <1>3, <2>2, <4>2 DEF Noted, FipNoted, NoId
        <5> QED BY <4>1, <5>1 DEF FipNoted
      <4>3. CASE out.res.id = mem.res["fip"].id /\ (out.ip = mem.ip \/ out.ip = <<"fip", out.res.id>>)
        BY <1>3, <2>4, <4>1, <4>3 DEF Noted, FipNoted
      <4> QED BY <2>2, <2>4, <3>1, <4>2, <4>3, EnsureFip
    <3>2. CASE out.resources # cloud["fip"]
      <4>1. /\ out.resources = cloud["fip"] \cup {NextId("fip")} /\ Listed("fip") = {}
            /\ mem.res["fip"].id = NoId /\ out.res.id = NextId("fip")
            /\ out.ip = <<"fip", NextId("fip")>> /\ out.result # "error"
        BY <2>4, <3>2, EnsureFip
      <4>2. Left("fip")' \subseteq {NextId("fip")}
        BY <1>3, <2>4, <4>1 DEF Listed
      <4>3. CASE lb.existing = NoId
        <5>1. Left("fip")' = {} \/ Left("fip")' = {NextId("fip")}
          BY <4>2
        <5> QED BY <1>3, <2>4, <4>1, <4>3, <5>1 DEF FipNoted
      <4>4. CASE lb.existing # NoId
        <5>1. foreign' = foreign \cup {NextId("fip")}
          <6>1. reconcileFIP /\ ~mem.internal
            BY <2>4 DEF ResourceFunction, Ensures, reconcileSecGroup, reconcilePort,
                  reconcileServerGroup, deletionRoutine, deleteResources
          <6>2. pc' = "port"
            <7>1. OnOk = "port" /\ OnRequeue = "port" /\ out.result \in {"ok", "requeue"}
              BY <4>1, <6>1 DEF OnOk, OnRequeue, reconcileFIP, OutcomeOf
            <7> QED BY <1>2, <7>1 DEF Apply
          <6>3. mem' = lb'
            BY <1>2, <1>3, <2>2, <2>4, <4>1 DEF Apply, NoId
          <6> QED BY <1>3, <2>4, <4>1, <4>4, <6>1, <6>2, <6>3 DEF reconcileFIP
        <5>2. Left("fip")' = (cloud'["fip"] \ foreign') \ {lb'.existing}
          BY DEF Left, Listed
        <5> QED BY <4>2, <5>1, <5>2 DEF FipNoted
      <4> QED BY <4>3, <4>4
    <3> QED BY <3>1, <3>2
  <2>5. CASE k = "fip" /\ Deletes(k) /\ out \in delete(k)
    <3>1. CASE IsKept(k)
      BY <1>5, <1>6, <2>5, <3>1 DEF FipNoted
    <3>2. CASE ~IsKept(k)
      <4>1. out.res.id = mem.res[k].id \/ mem.res[k].id \notin cloud[k]
        BY <2>5, <3>2, DeleteOutcome
      <4> QED BY <1>3, <1>6, <2>2, <2>5, <4>1 DEF Noted, FipNoted
    <3> QED BY <3>1, <3>2
  <2> QED BY <1>2, <2>1, <2>3, <2>4, <2>5
<1>10. Achieved'
  <2> SUFFICES ASSUME NEW j \in Kinds \ Keep, <<j, pc'>> \in Done
               PROVE  Left(j)' = {}
    BY DEF Achieved
  <2>1. \/ j # k /\ <<j, pc>> \in Done
        \/ j = k /\ Deletes(k) /\ out.result = "ok"
    BY <1>2, ResourceStepDone
  <2>2. CASE j # k /\ <<j, pc>> \in Done
    BY <1>3, <2>2 DEF Noted, Achieved
  <2>3. CASE j = k /\ Deletes(k) /\ out.result = "ok" /\ out \in delete(k) \cup deleteFailing(k)
    <3>1. CASE IsKept(k)
      BY <1>5, <1>6, <2>3, <3>1
    <3>2. CASE ~IsKept(k)
      <4>1. out.resources \cap Listed(k) = {} \/ ~mem.res[k].name
        BY <2>3, <3>2, DeleteOutcome
      <4> QED BY <1>3, <1>6, <2>3, <4>1 DEF Noted, NamesNoted
    <3> QED BY <3>1, <3>2
  <2>4. CASE j = k /\ out \in ensure(k) \cup ensureFailing(k) /\ Ensures(k)
    <3>1. pc' \in {"fip", "port", "associate", "finish", "idle"}
      <4>1. pc' \in {OnOk, OnRequeue, "idle"}
        BY <1>2, ApplyStep
      <4> QED BY <2>4, <4>1 DEF OnOk, OnRequeue, Ensures, Kinds
    <3> QED BY <3>1 DEF Done
  <2> QED BY <1>2, <2>1, <2>2, <2>3, <2>4
<1> QED BY <1>7, <1>8, <1>9, <1>10 DEF Noted

\* The finalizer is there before the first resource is created, and stays while
\* the controller works on the LoadBalancer.
LEMMA GuardedStep == TypeInv /\ Guarded /\ [Next]_vars => Guarded'
<1> SUFFICES ASSUME TypeInv, Guarded, [Next]_vars
             PROVE  Guarded'
  OBVIOUS
<1> USE DEF Guarded
<1>0. lb \in LBObject /\ seen \in LBObject /\ (~dirty => seen.finalizer = lb.finalizer)
  BY DEF TypeInv, TypeOK, Current, Agrees
<1>1. CASE ResourceFunction
  <2>1. PICK k \in Kinds : \E out \in OutcomeOf(k) :
          /\ Apply(k, out, OnOk, OnRequeue) /\ OnOk \in Points /\ OnRequeue \in Points /\ pc # "idle"
          /\ seen' = seen
    BY <1>1, ResourcePick
  <2>2. PICK out \in OutcomeOf(k) :
          /\ Apply(k, out, OnOk, OnRequeue) /\ OnOk \in Points /\ OnRequeue \in Points /\ pc # "idle"
          /\ seen' = seen
    BY <2>1
  <2>3. lb' = [lb EXCEPT !.res = [lb.res EXCEPT ![k] = out.res], !.ip = out.ip]
    BY <2>2, ApplyStep
  <2>4. lb'.exists = lb.exists /\ lb'.deleting = lb.deleting /\ lb'.finalizer = lb.finalizer
    BY <1>0, <2>3 DEF LBObject
  <2> QED BY <2>2, <2>4
<1>2. CASE BeginReconcile
  BY <1>0, <1>2 DEF BeginReconcile, LBObject
<1>3. CASE FinishOpenstack
  BY <1>0, <1>3 DEF FinishOpenstack, LBObject
<1>4. CASE reconcileFIPAssociate \/ reconcileLoadBalancerSet \/ BeginDeletion \/ deleteSets
  BY <1>0, <1>4 DEF reconcileFIPAssociate, reconcileLoadBalancerSet, BeginDeletion, deleteSets
<1>5. CASE RemoveFinalizer
  BY <1>0, <1>5 DEF RemoveFinalizer, LBObject
<1>6. CASE SetsGone \/ Refresh \/ Crash \/ \E k \in Kinds : Vanish(k)
  BY <1>6 DEF SetsGone, Refresh, Crash, Vanish
<1>7. CASE UserChanges \/ ClaimFloatingIP
  BY <1>0, <1>7 DEF UserChanges, ClaimFloatingIP, ChangeSpec, LBObject
<1>8. CASE DeleteLB
  BY <1>0, <1>8 DEF DeleteLB, LBObject
<1>9. CASE FiveMinutesPass
  BY <1>0, <1>9 DEF FiveMinutesPass, LBObject
<1>10. CASE UNCHANGED vars
  BY <1>10 DEF vars
<1> QED BY <1>1, <1>2, <1>3, <1>4, <1>5, <1>6, <1>7, <1>8, <1>9, <1>10
        DEF Next, Reconcile, Environment, ResourceFunction

\* Everything else keeps track of the resources too: the finalizer goes when none
\* is left, and the user can only claim the one that is published.
LEMMA NotedStep ==
  ASSUME TypeInv, AtMostOne, ForeignKnown, Guarded, Noted, [Next]_vars,
         MaxErrors <= 1, MaxErrors = 0 \/ "fip" \in Keep
  PROVE  Noted'
<1>0. lb \in LBObject /\ errors \in Nat
  BY OpenstackAssumption DEF TypeInv, TypeOK
<1>1. CASE ResourceFunction
  BY <1>1, ResourceStepNoted
<1>2. CASE BeginReconcile
  <2>1. /\ lb'.res = lb.res /\ lb'.ip = lb.ip /\ lb'.existing = lb.existing
        /\ (lb.finalizer => lb'.finalizer) /\ pc' \in {"secgroup", "sets"}
    BY <1>0, <1>2 DEF BeginReconcile, LBObject
  <2>2. UNCHANGED <<cloud, foreign, errors>>
    BY <1>2 DEF BeginReconcile, openstack
  <2> QED BY <2>1, <2>2, QuietNoted
<1>3. CASE FinishOpenstack
  <2>1. /\ lb'.res = lb.res /\ lb'.ip = lb.ip /\ lb'.existing = lb.existing
        /\ (lb.finalizer => lb'.finalizer) /\ pc' \in {"idle", "sets"}
    BY <1>0, <1>3 DEF FinishOpenstack, LBObject
  <2>2. UNCHANGED <<cloud, foreign, errors>>
    BY <1>3 DEF FinishOpenstack, openstack
  <2> QED BY <2>1, <2>2, QuietNoted
<1>4. CASE reconcileFIPAssociate \/ reconcileLoadBalancerSet \/ BeginDeletion \/ deleteSets
  <2>1. UNCHANGED <<lb, cloud, foreign, errors>> /\ pc' \in {"servergroup", "idle", "deleteSets", "deleteServergroup"}
    BY <1>4 DEF reconcileFIPAssociate, reconcileLoadBalancerSet, BeginDeletion, deleteSets, openstack
  <2> QED BY <2>1, QuietNoted
<1>5. CASE RemoveFinalizer
  <2>1. /\ lb'.res = lb.res /\ lb'.ip = lb.ip /\ lb'.existing = lb.existing /\ pc' = "idle"
        /\ UNCHANGED <<cloud, foreign, errors>> /\ pc = "removeFinalizer"
    BY <1>0, <1>5 DEF RemoveFinalizer, LBObject, openstack
  <2>2. \A k \in Kinds : Left(k)' = Left(k)
    BY <2>1 DEF Left, Listed
  <2>3. \A k \in Kinds \ Keep : Left(k) = {}
    BY <2>1 DEF Noted, Achieved, Done, Kinds
  <2>4. NamesNoted' /\ Achieved'
    BY <2>2, <2>3 DEF NamesNoted, Achieved
  <2>5. GroupNoted'
    BY <2>1 DEF Noted, GroupNoted
  <2>6. FipNoted'
    BY <2>2, <2>3, KindFacts DEF FipNoted
  <2> QED BY <2>4, <2>5, <2>6 DEF Noted
<1>6. CASE SetsGone \/ Refresh
  BY <1>6, QuietNoted DEF SetsGone, Refresh, openstack
<1>7. CASE Crash
  BY <1>0, <1>7, QuietNoted DEF Crash, openstack
<1>8. CASE UserChanges
  <2>1. /\ lb'.res = lb.res /\ lb'.ip = lb.ip /\ lb'.existing = lb.existing
        /\ lb'.finalizer = lb.finalizer
    BY <1>0, <1>8 DEF UserChanges, ChangeSpec, LBObject
  <2>2. UNCHANGED <<cloud, foreign, errors, pc>>
    BY <1>8 DEF UserChanges, ChangeSpec, openstack
  <2> QED BY <2>1, <2>2, QuietNoted
<1>9. CASE ClaimFloatingIP
  <2>1. /\ lb'.res = lb.res /\ lb'.ip = lb.ip /\ lb'.existing = lb.ip[2]
        /\ lb'.finalizer = lb.finalizer /\ lb.existing = NoId /\ lb.ip[1] = "fip"
    BY <1>0, <1>9 DEF ClaimFloatingIP, ChangeSpec, LBObject
  <2>2. UNCHANGED <<cloud, foreign, errors, pc>>
    BY <1>9 DEF ClaimFloatingIP, ChangeSpec, openstack
  <2>3. NoId \notin cloud["fip"]
    BY Parts, KindFacts DEF NoId
  <2>4. Left("fip")' = Listed("fip") \ {lb.ip[2]} /\ Left("fip") = Listed("fip")
    BY <2>1, <2>2, <2>3 DEF Left, Listed
  <2>5. \A k \in Kinds : Left(k)' \subseteq Left(k)
    BY <2>2, <2>4 DEF Left
  <2>6. NamesNoted' /\ Achieved'
    BY <2>1, <2>2, <2>5 DEF Noted, NamesNoted, Achieved
  <2>7. GroupNoted'
    BY <2>1, <2>2 DEF Noted, GroupNoted
  <2>8. FipNoted'
    BY <2>1, <2>4 DEF Noted, FipNoted
  <2> QED BY <2>6, <2>7, <2>8 DEF Noted
<1>10. CASE DeleteLB \/ FiveMinutesPass
  <2>1. /\ lb'.res = lb.res /\ lb'.ip = lb.ip /\ lb'.existing = lb.existing
        /\ lb'.finalizer = lb.finalizer
    BY <1>0, <1>10 DEF DeleteLB, FiveMinutesPass, LBObject
  <2>2. UNCHANGED <<cloud, foreign, errors, pc>>
    BY <1>10 DEF DeleteLB, FiveMinutesPass, openstack
  <2> QED BY <2>1, <2>2, QuietNoted
<1>11. ASSUME NEW k \in Kinds, Vanish(k)
       PROVE  Noted'
  <2>1. cloud' = [cloud EXCEPT ![k] = {}] /\ cloud \in [Kinds -> SUBSET Nat]
        /\ UNCHANGED <<lb, foreign, errors, pc>>
    BY <1>11 DEF Vanish, TypeInv, CloudType
  <2>2. \A j \in Kinds : cloud'[j] \subseteq cloud[j]
    BY <2>1
  <2>3. \A j \in Kinds : Left(j)' \subseteq Left(j)
    BY <2>1, <2>2 DEF Left, Listed
  <2>4. Left("fip")' = {} \/ Left("fip")' = Left("fip")
    BY <2>1, KindFacts DEF Left, Listed
  <2> QED BY <2>1, <2>2, <2>3, <2>4, LossNoted, KindFacts
<1>12. CASE UNCHANGED vars
  BY <1>12, QuietNoted DEF vars, openstack
<1> QED BY <1>1, <1>2, <1>3, <1>4, <1>5, <1>6, <1>7, <1>8, <1>9, <1>10, <1>11, <1>12
        DEF Next, Reconcile, Environment, ResourceFunction

\* In the initial states there is nothing to keep track of.
LEMMA NotedInit == Init => Guarded /\ Noted
<1> SUFFICES ASSUME Init
             PROVE  Guarded /\ Noted
  OBVIOUS
<1>1. PICK internal \in BOOLEAN, policy \in FirstPolicies, existing \in {NoId, UserFip} :
         lb = NewLB(internal, policy, existing)
  BY DEF Init
<1>2. lb.exists /\ ~lb.deleting /\ ~lb.finalizer /\ seen = lb /\ pc = "idle"
  BY <1>1 DEF Init, NewLB
<1>3. \A k \in Kinds : Left(k) = {}
  BY DEF Init, Left, Listed
<1>4. cloud["servergroup"] = {}
  BY KindFacts DEF Init
<1> QED BY <1>2, <1>3, <1>4, KindFacts DEF Guarded, Noted, NamesNoted, GroupNoted, FipNoted, Achieved

Owner == IF ~lb.exists THEN "gone" ELSE IF lb.finalizer THEN "guarded" ELSE "open"

\* What a step does to the object, as the finalizer protocol sees it.
LEMMA OwnerStep ==
  ASSUME TypeInv, Guarded, Noted, [Next]_vars
  PROVE  \/ Owner' = Owner
         \/ Owner = "open" /\ Owner' = "guarded" /\ UNCHANGED <<cloud, foreign>> /\ lb'.existing = lb.existing
         \/ Owner = "open" /\ Owner' = "gone"
         \/ /\ Owner = "guarded" /\ Owner' = "gone" /\ UNCHANGED <<cloud, foreign>>
            /\ lb'.existing = lb.existing /\ \A k \in Kinds \ Keep : Left(k) = {}
<1> USE DEF Owner
<1>0. lb \in LBObject
  BY DEF TypeInv, TypeOK
<1>1. CASE ResourceFunction
  <2>1. PICK k \in Kinds : \E out \in OutcomeOf(k) :
          Apply(k, out, OnOk, OnRequeue) /\ OnOk \in Points /\ OnRequeue \in Points /\ pc # "idle"
    BY <1>1, ResourcePick
  <2>2. PICK out \in OutcomeOf(k) :
          Apply(k, out, OnOk, OnRequeue) /\ OnOk \in Points /\ OnRequeue \in Points /\ pc # "idle"
    BY <2>1
  <2>3. lb' = [lb EXCEPT !.res = [lb.res EXCEPT ![k] = out.res], !.ip = out.ip]
    BY <2>2, ApplyStep
  <2> QED BY <1>0, <2>3 DEF LBObject
<1>2. CASE BeginReconcile
  BY <1>0, <1>2 DEF BeginReconcile, LBObject, openstack
<1>3. CASE RemoveFinalizer
  <2>1. \A k \in Kinds \ Keep : Left(k) = {}
    BY <1>3 DEF RemoveFinalizer, Noted, Achieved, Done, Kinds
  <2> QED BY <1>0, <1>3, <2>1 DEF RemoveFinalizer, LBObject, openstack, Guarded
<1>4. CASE FinishOpenstack
  BY <1>0, <1>4 DEF FinishOpenstack, LBObject
<1>5. CASE UserChanges \/ ClaimFloatingIP
  BY <1>0, <1>5 DEF UserChanges, ClaimFloatingIP, ChangeSpec, LBObject
<1>6. CASE DeleteLB \/ FiveMinutesPass
  BY <1>0, <1>6 DEF DeleteLB, FiveMinutesPass, LBObject
<1>7. CASE reconcileFIPAssociate \/ reconcileLoadBalancerSet \/ BeginDeletion \/ deleteSets
           \/ SetsGone \/ Refresh \/ Crash \/ \E k \in Kinds : Vanish(k)
  BY <1>7 DEF reconcileFIPAssociate, reconcileLoadBalancerSet, BeginDeletion, deleteSets,
              SetsGone, Refresh, Crash, Vanish
<1>8. CASE UNCHANGED vars
  BY <1>8 DEF vars
<1> QED BY <1>1, <1>2, <1>3, <1>4, <1>5, <1>6, <1>7, <1>8
        DEF Next, Reconcile, Environment, ResourceFunction

\* A step that is not the controller's creation of resources only takes them away,
\* or hands them to the user.
LEMMA ProtocolStep ==
  ASSUME TypeInv, TypeInv', Guarded, Guarded', Noted, Noted', [Next]_vars
  PROVE  [Protocol!Next]_<<Owner, Owned>>
<1>1. Owned' \subseteq Kinds \X Nat
  <2>1. cloud' \in [Kinds -> SUBSET Nat]
    BY DEF TypeInv, CloudType
  <2> QED BY <2>1 DEF Owned, Listed
<1>2. (\A k \in Kinds \ Keep : Left(k) = {}) => Owned = {}
  <2> SUFFICES ASSUME \A k \in Kinds \ Keep : Left(k) = {}, NEW x \in Owned
               PROVE  FALSE
    OBVIOUS
  <2>1. PICK k \in Kinds \ Keep : x \in {k} \X Listed(k)
    BY DEF Owned
  <2>2. PICK r \in Listed(k) : x = <<k, r>>
    BY <2>1
  <2>3. x # <<"fip", lb.existing>>
    BY DEF Owned
  <2>4. r \in Left(k)
    BY <2>2, <2>3 DEF Left, Listed
  <2> QED BY <2>4
<1>3. (\A k \in Kinds \ Keep : Left(k)' = {}) => Owned' = {}
  <2> SUFFICES ASSUME \A k \in Kinds \ Keep : Left(k)' = {}, NEW x \in Owned'
               PROVE  FALSE
    OBVIOUS
  <2>1. PICK k \in Kinds \ Keep : x \in {k} \X Listed(k)'
    BY DEF Owned
  <2>2. PICK r \in Listed(k)' : x = <<k, r>>
    BY <2>1
  <2>3. x # <<"fip", lb'.existing>>
    BY DEF Owned
  <2>4. r \in Left(k)'
    BY <2>2, <2>3 DEF Left, Listed
  <2> QED BY <2>4
<1>4. Owner # "guarded" => Owned = {}
  BY <1>2 DEF Owner, Guarded, Noted, NamesNoted
<1>5. Owner' # "guarded" => Owned' = {}
  BY <1>3 DEF Owner, Guarded, Noted, NamesNoted
<1>6. UNCHANGED <<cloud, foreign>> /\ lb'.existing = lb.existing => Owned' = Owned
  BY DEF Owned, Listed
<1> USE DEF Protocol!Next
<1>7. CASE Owner' = Owner /\ Owner = "guarded"
  BY <1>1, <1>7 DEF Protocol!Acquire, Owner
<1>8. CASE Owner' = Owner /\ Owner # "guarded"
  BY <1>4, <1>5, <1>8
<1>9. CASE Owner = "open" /\ Owner' = "guarded" /\ UNCHANGED <<cloud, foreign>> /\ lb'.existing = lb.existing
  BY <1>6, <1>9 DEF Protocol!Guard, Owner
<1>10. CASE Owner = "open" /\ Owner' = "gone"
  BY <1>4, <1>5, <1>10 DEF Protocol!Delete, Owner
<1>11. CASE /\ Owner = "guarded" /\ Owner' = "gone" /\ UNCHANGED <<cloud, foreign>>
            /\ lb'.existing = lb.existing /\ \A k \in Kinds \ Keep : Left(k) = {}
  BY <1>2, <1>6, <1>11 DEF Protocol!Release, Owner
<1> QED BY <1>7, <1>8, <1>9, <1>10, <1>11, OwnerStep

\* With at most one failed request or crash, and none where floating IPs must go,
\* the LoadBalancer controller keeps to the finalizer protocol, whatever user and
\* operator do: it creates resources only while the finalizer holds back the
\* LoadBalancer, and gives the finalizer away when none is left but those to keep
\* and the floating IP of the user.
THEOREM RefinesFinalizerProtocol ==
  ASSUME MaxErrors <= 1, MaxErrors = 0 \/ "fip" \in Keep
  PROVE  Spec => ImplementsFinalizerProtocol
<1>1. Init => AtMostOne /\ ForeignKnown /\ SetsKnown
  <2> SUFFICES ASSUME Init
               PROVE  AtMostOne /\ ForeignKnown /\ SetsKnown
    OBVIOUS
  <2>1. foreign # {} => lb.existing = UserFip
    BY DEF Init
  <2> QED BY <2>1 DEF Init, AtMostOne, Single, ForeignKnown, SetsKnown, NoId, UserFip
<1>2. Init => Protocol!Init
  <2> SUFFICES ASSUME Init
               PROVE  Protocol!Init
    OBVIOUS
  <2>1. Owner = "open"
    BY DEF Init, NewLB, Owner
  <2>2. Owned = {}
    BY DEF Init, Owned, Listed
  <2> QED BY <2>1, <2>2 DEF Protocol!Init, Owner
<1>3. TypeInv /\ AtMostOne /\ ForeignKnown /\ Guarded /\ Noted /\ [Next]_vars => Noted'
  BY NotedStep
<1>4. TypeInv /\ TypeInv' /\ Guarded /\ Guarded' /\ Noted /\ Noted' /\ [Next]_vars
        => [Protocol!Next]_Protocol!vars
  BY ProtocolStep DEF Protocol!vars, Owner
<1> QED BY <1>1, <1>2, <1>3, <1>4, TypeInit, TypeStep, AtMostOneStep, KnownStep, NotedInit,
           GuardedStep, PTL DEF Spec, ImplementsFinalizerProtocol, Protocol!Spec

\* A LoadBalancer that no finalizer holds back, above all one that is gone, has no
\* resource in OpenStack but those to keep and the floating IP of the user: what
\* FinalizerGuardsResources says of the protocol, said of the controller.
THEOREM LoadBalancerLeavesNothing ==
  ASSUME MaxErrors <= 1, MaxErrors = 0 \/ "fip" \in Keep
  PROVE  Spec => []Protocol!NothingLeft
<1> USE DEF Protocol!NothingLeft
<1>1. Protocol!Init => Protocol!NothingLeft
  BY DEF Protocol!Init
<1>2. Protocol!NothingLeft /\ [Protocol!Next]_Protocol!vars => Protocol!NothingLeft'
  BY DEF Protocol!Next, Protocol!Guard, Protocol!Acquire, Protocol!Lose, Protocol!Release,
         Protocol!Delete, Protocol!vars
<1> QED BY <1>1, <1>2, RefinesFinalizerProtocol, PTL
        DEF ImplementsFinalizerProtocol, Protocol!Spec

=============================================================================
