--------------------------- MODULE DesiredRouting ---------------------------
(***************************************************************************)
(* The desired routing of every model, as the router and the reconciler    *)
(* depend on it: which deployment's allocation is authoritative, with      *)
(* which canary weight and which revision.  Rollouts is shown to implement *)
(* this specification (RolloutsRouting), RoutingSync builds on it.         *)
(*                                                                         *)
(* An allocation is what is pushed to the router: the deployment, its      *)
(* revision and the weights, which the canary's weight stands for.         *)
(***************************************************************************)
EXTENDS Integers

CONSTANTS Deployments, Models,
          Weights,  \* the canary weights that can be desired, in percent
          None      \* no deployment yet

ASSUME NoneIsNotADeployment == None \notin Deployments
ASSUME WeightsAreShares == Weights \subseteq 0..100

VARIABLES desired,  \* the authoritative allocation of each model
          past      \* the deployments each model has ever routed

desiredvars == <<desired, past>>

Allocation == [model: Models, d: Deployments \cup {None}, rev: Nat, weight: 0..100]

NoAllocation(m) == [model |-> m, d |-> None, rev |-> 0, weight |-> 0]

DesiredTypeOK ==
  /\ desired \in [Models -> Allocation]
  /\ past \in [Models -> SUBSET Deployments]

DesiredInit ==
  /\ desired = [m \in Models |-> NoAllocation(m)]
  /\ past = [m \in Models |-> {}]

\* A new weight is desired, from the deployment in charge or from a new one, with
\* the model's next revision.  A deployment that was replaced never comes back.
Route(m, d, w) ==
  /\ d = desired[m].d \/ \A n \in Models : d \notin past[n]
  /\ desired' = [desired EXCEPT ![m] =
       [model |-> m, d |-> d, rev |-> @.rev + 1, weight |-> w]]
  /\ past' = [past EXCEPT ![m] = @ \cup {d}]

DesiredNext ==
  \E m \in Models, d \in Deployments, w \in Weights : Route(m, d, w)

DesiredSpec == DesiredInit /\ [][DesiredNext]_desiredvars
=============================================================================
