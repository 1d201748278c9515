--------------------------- MODULE WorkerDecision ---------------------------
(***************************************************************************)
(* What the worker does with a verdict (worker/decide.py and the end of    *)
(* process_deployment), on the database of Rollouts.                       *)
(***************************************************************************)
EXTENDS Rollouts

Active(d) == dep[d].status \in ACTIVE_STATUSES

\* Mutant: full traffic one stage too early.
AtFullTrafficMutant(r) == r.weight >= 50

\* _canary_at_full_traffic
AtFullTraffic(r) == r.weight >= 100

\* Mutant: at full traffic the canary is advanced (409), not promoted.
decide_action_mutant(result, full) ==
  CASE result = "FAIL"         -> "ROLLBACK"
    [] result = "INCONCLUSIVE" -> "RECORD_INCONCLUSIVE"
    [] OTHER                   -> "ADVANCE_TRAFFIC"

decide_action(result, full) ==
  CASE result = "FAIL"         -> "ROLLBACK"
    [] result = "INCONCLUSIVE" -> "RECORD_INCONCLUSIVE"
    [] OTHER                   -> IF full THEN "PROMOTE" ELSE "ADVANCE_TRAFFIC"

\* A 409 is an ActionConflictError: the deployment is skipped.
Attempt(accepted, Operation) == IF accepted THEN Operation ELSE UNCHANGED dbvars

\* process_deployment: d is the deployment, full its copy's _canary_at_full_traffic.
TakeAction(d, verdict, full) ==
  LET action == decide_action(verdict, full)
  IN \/ /\ action = "ROLLBACK"
        /\ Attempt(CanFinish(dep[d].status, "ROLLING_BACK", "ROLLED_BACK"), RollbackDB(d))
     \/ /\ action = "PROMOTE"
        /\ Attempt(CanFinish(dep[d].status, "PROMOTING", "PROMOTED"), PromoteDB(d))
     \/ /\ action = "ADVANCE_TRAFFIC"
        /\ Attempt(Active(d) /\ ~AtFinalStage(dep[d].weight), AdvanceDB(d))
     \/ /\ action = "RECORD_INCONCLUSIVE"
        /\ Attempt(Active(d), RecordInconclusiveDB(d))
=============================================================================
