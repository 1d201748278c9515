-------------------------- MODULE RolloutsRouting --------------------------
(***************************************************************************)
(* The control plane's database as the router sees it: the allocation that *)
(* get_authoritative_allocation yields for each model, queried from the    *)
(* rows, behaves as the desired routing of DesiredRouting.                 *)
(***************************************************************************)
EXTENDS Rollouts

AllocationOf(m) ==
  IF generation[m] = 0
  THEN [model |-> m, d |-> None, rev |-> 0, weight |-> 0]
  ELSE LET d == CHOOSE e \in Deployments : IsAuthoritative(e, m)
       IN [model |-> m, d |-> d, rev |-> dep[d].rev, weight |-> dep[d].weight]

Desired == INSTANCE DesiredRouting WITH
  Weights <- InitialWeights \cup TRAFFIC_STAGES \cup {0},
  desired <- [m \in Models |-> AllocationOf(m)],
  past <- [m \in Models |-> {d \in Deployments : dep[d].model = m}]

\* What the database offers for routing changes only to a fresh revision of the
\* deployment in charge, or of a deployment that was never routed before: no
\* query of get_authoritative_allocation ever falls back on an earlier rollout,
\* and none changes weights under a revision that was already handed out.  The weights
\* are the ones asked for, the stages, and all or nothing once a rollout has ended.
RoutesForward == Desired!DesiredSpec
=============================================================================
