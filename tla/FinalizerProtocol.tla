------------------------- MODULE FinalizerProtocol -------------------------
(***************************************************************************)
(* What a finalizer promises: an object owns resources elsewhere (in       *)
(* OpenStack, in Kubernetes) only while its finalizer holds back its       *)
(* deletion, and gives the finalizer away only when it owns nothing.       *)
(* LoadBalancerMachine and LoadBalancerOpenstack implement this.           *)
(***************************************************************************)
CONSTANT Resource

VARIABLES
    owner,   \* the object: "open" to deletion, "guarded" by its finalizer, "gone"
    held     \* the resources that it owns

vars == <<owner, held>>

TypeOK == owner \in {"open", "guarded", "gone"} /\ held \subseteq Resource

Init == owner = "open" /\ held = {}

Guard == owner = "open" /\ owner' = "guarded" /\ UNCHANGED held

\* The controller creates resources; some may go at the same time.
Acquire ==
    /\ owner = "guarded"
    /\ held' \in SUBSET Resource
    /\ UNCHANGED owner

\* Resources go at any time: the controller or an operator deletes them.
Lose == held' \in SUBSET held /\ UNCHANGED owner

\* The finalizer is removed, and the deleted object goes with it.
Release == owner = "guarded" /\ held = {} /\ owner' = "gone" /\ UNCHANGED held

\* Without a finalizer the deletion takes effect at once.
Delete == owner = "open" /\ owner' = "gone" /\ UNCHANGED held

Next == Guard \/ Acquire \/ Lose \/ Release \/ Delete

Spec == Init /\ [][Next]_vars

\* An object that no finalizer holds back owns nothing: neither before the
\* controller sets the finalizer nor after it has taken it away.
NothingLeft == owner # "guarded" => held = {}

=============================================================================
