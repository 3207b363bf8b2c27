---------------------- MODULE FinalizerProtocol_proofs ----------------------
(***************************************************************************)
(* What every implementation of FinalizerProtocol promises.                *)
(***************************************************************************)
EXTENDS FinalizerProtocol, TLAPS

\* Whatever is created and deleted, and in whatever order, an object without its
\* finalizer owns nothing: nothing is left behind when it is gone.  Whatever
\* implements the protocol (LoadBalancerMachine, LoadBalancerOpenstack) inherits it.
THEOREM FinalizerGuardsResources == Spec => []NothingLeft
<1>1. Init => NothingLeft
  BY DEF Init, NothingLeft
<1>2. NothingLeft /\ [Next]_vars => NothingLeft'
  <2> SUFFICES ASSUME NothingLeft, [Next]_vars
               PROVE  NothingLeft'
    OBVIOUS
  <2>1. CASE Guard
    BY <2>1 DEF Guard, NothingLeft
  <2>2. CASE Acquire
    BY <2>2 DEF Acquire, NothingLeft
  <2>3. CASE Lose
    BY <2>3 DEF Lose, NothingLeft
  <2>4. CASE Release
    BY <2>4 DEF Release, NothingLeft
  <2>5. CASE Delete
    BY <2>5 DEF Delete, NothingLeft
  <2>6. CASE UNCHANGED vars
    BY <2>6 DEF vars, NothingLeft
  <2> QED
    BY <2>1, <2>2, <2>3, <2>4, <2>5, <2>6 DEF Next
<1> QED
  BY <1>1, <1>2, PTL DEF Spec

=============================================================================
