----------------------------- MODULE MCRollouts -----------------------------
(* Rollouts and its refinement of DesiredRouting for TLC: deployment ids and *)
(* models are interchangeable.                                               *)
EXTENDS RolloutsRouting, TLC

Symmetry == Permutations(Deployments) \cup Permutations(Models)
=============================================================================
