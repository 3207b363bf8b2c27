--------------------------- MODULE KubernetesApi ---------------------------
(***************************************************************************)
(* How the controllers write to objects in the Kubernetes API server.      *)
(***************************************************************************)

\* One field of a merge patch: the patch holds only the fields that the
\* controller changed with respect to the copy it works on.
Patched(current, copy, computed) == IF computed = copy THEN current ELSE computed

=============================================================================
