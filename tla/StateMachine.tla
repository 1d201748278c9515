---------------------------- MODULE StateMachine ----------------------------
(***************************************************************************)
(* The rollout state machine of src/backend/app/control_plane: the status  *)
(* vocabulary of models.py, the transition table of state_machine.py, the  *)
(* status classes that service.py builds from it, and the traffic stages.  *)
(* Everything here is constant: no variables, no actions.                  *)
(* Weights are whole percentages, 0..100, of the canary version; the       *)
(* stable version always gets the rest.                                    *)
(***************************************************************************)
EXTENDS Integers

DeploymentStatus ==
  {"PENDING", "DEPLOYING", "CANARY_RUNNING", "EVALUATING", "PROMOTING",
   "PROMOTED", "ROLLING_BACK", "ROLLED_BACK", "FAILED", "INCONCLUSIVE"}

TERMINAL_STATUSES == {"PROMOTED", "ROLLED_BACK", "FAILED"}

ACTIVE_STATUSES == {"CANARY_RUNNING", "EVALUATING"}

\* The predicate of the partial unique index uq_deployments_active_per_model.
IN_FLIGHT_STATUSES == DeploymentStatus \ TERMINAL_STATUSES

\* Statuses get_authoritative_allocation looks for first, and falls back on.
\* (RoutingStatusesMutant forgets the frozen rollout.)
RoutingStatusesMutant == ACTIVE_STATUSES
ROUTING_STATUSES == ACTIVE_STATUSES \cup {"INCONCLUSIVE"}
AUTHORITATIVE_TERMINAL_STATUSES == {"PROMOTED", "ROLLED_BACK"}

ALLOWED_TRANSITIONS ==
  [s \in DeploymentStatus |->
     CASE s = "PENDING"        -> {"DEPLOYING", "FAILED"}
       [] s = "DEPLOYING"      -> {"CANARY_RUNNING", "FAILED"}
       [] s = "CANARY_RUNNING" -> {"EVALUATING", "FAILED"}
       [] s = "EVALUATING"     -> {"PROMOTING", "ROLLING_BACK",
                                   "INCONCLUSIVE", "FAILED"}
       [] s = "PROMOTING"      -> {"PROMOTED", "FAILED"}
       [] s = "ROLLING_BACK"   -> {"ROLLED_BACK", "FAILED"}
       [] s = "INCONCLUSIVE"   -> {"PROMOTING", "ROLLING_BACK"}
       [] OTHER                -> {}]

\* validate_transition(current, target) does not raise.
Allowed(current, target) == target \in ALLOWED_TRANSITIONS[current]

(***************************************************************************)
(* The handlers that end or freeze a rollout first move CANARY_RUNNING to  *)
(* EVALUATING ("auto-advancing before ..."), then walk on from there.      *)
(***************************************************************************)
AutoAdvanced(s) == IF s = "CANARY_RUNNING" THEN "EVALUATING" ELSE s

CanAutoAdvanceTo(s, target) ==
  /\ s = "CANARY_RUNNING" => Allowed(s, "EVALUATING")
  /\ Allowed(AutoAdvanced(s), target)

\* promote_deployment and rollback_deployment walk two more transitions.
CanFinish(s, through, target) ==
  /\ CanAutoAdvanceTo(s, through)
  /\ Allowed(through, target)

-----------------------------------------------------------------------------

TRAFFIC_STAGES == {10, 25, 50, 100}

AtFinalStage(weight) == \A w \in TRAFFIC_STAGES : w <= weight

\* The first stage above the current canary weight.
NextStage(weight) ==
  CHOOSE w \in TRAFFIC_STAGES :
    /\ w > weight
    /\ \A v \in TRAFFIC_STAGES : v > weight => w <= v
=============================================================================
