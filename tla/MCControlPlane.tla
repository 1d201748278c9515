--------------------------- MODULE MCControlPlane ---------------------------
(* ControlPlane for TLC: ids, models and sessions are interchangeable. *)
EXTENDS ControlPlane, TLC

Symmetry ==
  Permutations(Deployments) \cup Permutations(Models) \cup Permutations(Sessions)
=============================================================================
