------------------------------- MODULE Worker -------------------------------
(***************************************************************************)
(* The automation worker (app/worker): a stateless loop that lists the     *)
(* running rollouts, evaluates those whose evaluation window has passed    *)
(* and advances, promotes, rolls back or counts an inconclusive cycle.     *)
(* Every call it makes is a request of its own, so operators act between   *)
(* any two of them.  A request is one step of Rollouts here (ControlPlane  *)
(* shows that it may be); what it returns is remembered in work.           *)
(*                                                                         *)
(* The verdict of an evaluation depends on the metrics and is any of the   *)
(* three results.  advance_traffic and record_inconclusive are called by   *)
(* the worker only; operators create, promote, roll back, pause, resume    *)
(* and evaluate.  One worker runs, as in docker-compose.yml.               *)
(***************************************************************************)
EXTENDS WorkerDecision

CONSTANTS MaxManual,  \* bound: requests of operators on existing deployments
          MaxFaults   \* bound: failed calls and restarts of the worker

ASSUME NobodyIsNoDeployment == None \notin Deployments
ASSUME BoundsAssumption == MaxManual \in Nat /\ MaxFaults \in Nat

VARIABLES recent,   \* deployments evaluated less than their window ago
          work,     \* where the worker is in its sweep
          held,     \* history: paused since before the sweep began
          verdicts, \* history: inconclusive verdicts the worker got
          manual, faults  \* bound counters

workvars == <<recent, work, verdicts, manual, faults>>
vars == <<dbvars, workvars, held>>

Results == {"PASS", "FAIL", "INCONCLUSIVE"}

\* todo is active_ids, d the deployment in hand, full _canary_at_full_traffic of
\* the copy that get_deployment returned.
Work == [pc: {"list", "get", "due", "evaluate", "act"}, todo: SUBSET Deployments,
         d: Deployments \cup {None}, full: BOOLEAN, verdict: Results]

Start == [pc |-> "list", todo |-> {}, d |-> None, full |-> FALSE, verdict |-> "PASS"]

TypeOK ==
  /\ TypeOKDB
  /\ recent \subseteq Deployments
  /\ work \in Work
  /\ held \subseteq Deployments
  /\ verdicts \in [Deployments -> Nat]
  /\ manual \in 0..MaxManual
  /\ faults \in 0..MaxFaults

Init ==
  /\ InitDB
  /\ recent = {}
  /\ work = Start
  /\ held = {}
  /\ verdicts = [d \in Deployments |-> 0]
  /\ manual = 0
  /\ faults = 0

Goto(pc) == work' = [work EXCEPT !.pc = pc]

\* Back to the loop over active_ids.
Done == Goto("get")

-----------------------------------------------------------------------------
(***************************************************************************)
(* One sweep: run_once.                                                    *)
(***************************************************************************)
\* Mutant: the hold is not looked at.
ListedAnyway(d) == Active(d)

Listed(d) == Active(d) /\ ~dep[d].paused

ListActive ==
  /\ work.pc = "list"
  /\ work' = [Start EXCEPT !.pc = "get", !.todo = {d \in Deployments : Listed(d)}]
  /\ UNCHANGED <<dbvars, recent, verdicts, manual, faults>>

EndSweep ==
  /\ work.pc = "get"
  /\ work.todo = {}
  /\ Goto("list")
  /\ UNCHANGED <<dbvars, recent, verdicts, manual, faults>>

GetDeployment(d) ==
  /\ work.pc = "get"
  /\ d \in work.todo
  /\ work' = [work EXCEPT !.todo = @ \ {d}, !.d = d, !.full = AtFullTraffic(dep[d]),
                          !.pc = IF Active(d) THEN "due" ELSE "get"]
  /\ UNCHANGED <<dbvars, recent, verdicts, manual, faults>>

CheckDue ==
  /\ work.pc = "due"
  /\ IF work.d \in recent THEN Done ELSE Goto("evaluate")
  /\ UNCHANGED <<dbvars, recent, verdicts, manual, faults>>

Counted(c, v) ==
  IF v = "INCONCLUSIVE" THEN c + 1 ELSE c

\* POST /evaluate: 409 unless active; the rows it commits make d recent.
Evaluate(v) ==
  /\ work.pc = "evaluate"
  /\ IF Active(work.d)
     THEN /\ recent' = recent \cup {work.d}
          /\ verdicts' = [verdicts EXCEPT ![work.d] = Counted(@, v)]
          /\ work' = [work EXCEPT !.pc = "act", !.verdict = v]
     ELSE Done /\ UNCHANGED <<recent, verdicts>>
  /\ UNCHANGED <<dbvars, manual, faults>>

Act ==
  /\ work.pc = "act"
  /\ TakeAction(work.d, work.verdict, work.full)
  /\ Done
  /\ UNCHANGED <<recent, verdicts, manual, faults>>

-----------------------------------------------------------------------------
(***************************************************************************)
(* Failures: a call raises and the deployment (or the sweep) is given up;  *)
(* an evaluation whose answer is lost has been recorded all the same.  The *)
(* worker restarts: it has nothing in memory to recover.                   *)
(***************************************************************************)
Fault == faults < MaxFaults /\ faults' = faults + 1

CallFails ==
  /\ Fault
  /\ \/ /\ work.pc = "get"
        /\ \E d \in work.todo : work' = [work EXCEPT !.todo = @ \ {d}]
        /\ UNCHANGED recent
     \/ work.pc \in {"due", "evaluate", "act"} /\ Done /\ UNCHANGED recent
     \/ /\ work.pc = "evaluate" /\ Active(work.d) /\ Done
        /\ recent' = recent \cup {work.d}
  /\ UNCHANGED <<dbvars, verdicts, manual>>

Restart ==
  /\ Fault
  /\ work # Start
  /\ work' = Start
  /\ UNCHANGED <<dbvars, recent, verdicts, manual>>

\* evaluation_window_seconds have passed since d's last evaluation.
WindowPasses(d) ==
  /\ d \in recent
  /\ recent' = recent \ {d}
  /\ UNCHANGED <<dbvars, work, verdicts, manual, faults>>

-----------------------------------------------------------------------------
(***************************************************************************)
(* Operators, through the dashboard.                                       *)
(***************************************************************************)
Create(d, m, key, w, paused) ==
  /\ CreateDB(d, m, key, w, paused)
  /\ UNCHANGED workvars

Operate(d) ==
  /\ manual < MaxManual
  /\ manual' = manual + 1
  /\ \/ /\ PromoteDB(d) \/ RollbackDB(d) \/ \E p \in BOOLEAN : SetPausedDB(d, p)
        /\ UNCHANGED recent
     \/ Active(d) /\ recent' = recent \cup {d} /\ UNCHANGED dbvars
  /\ UNCHANGED <<work, verdicts, faults>>

WorkerStep ==
  \/ EndSweep
  \/ \E d \in Deployments : GetDeployment(d)
  \/ CheckDue
  \/ \E v \in Results : Evaluate(v)
  \/ Act

Others ==
  \/ WorkerStep
  \/ CallFails
  \/ Restart
  \/ \E d \in Deployments :
       \/ WindowPasses(d)
       \/ Operate(d)
       \/ \E m \in Models, key \in Keys \cup {None}, w \in InitialWeights,
             paused \in BOOLEAN : Create(d, m, key, w, paused)

Next ==
  \/ ListActive /\ held' = {d \in Deployments : dep[d].paused}
  \/ Others /\ held' = {d \in held : dep'[d].paused}

Spec == Init /\ [][Next]_vars

\* The loop never stops (run_forever catches everything), and time passes.
Fairness ==
  /\ WF_vars(Next /\ (ListActive \/ WorkerStep))
  /\ \A d \in Deployments : WF_vars(Next /\ WindowPasses(d))

FairSpec == Spec /\ Fairness

-----------------------------------------------------------------------------
(***************************************************************************)
(* Properties.                                                             *)
(***************************************************************************)
InHand == IF work.pc \in {"due", "evaluate", "act"} THEN {work.d} ELSE {}

\* The hold works for whoever sets it in time: a sweep never gets to a deployment
\* that has been paused since before the sweep began, or was created paused.
HoldHonoured == (work.todo \cup InHand) \cap held = {}

\* Counting survives operators, restarts and lost answers: the persisted retry
\* counter never runs ahead of the inconclusive verdicts the worker really got, so
\* no rollout is frozen before it had more than MaxRetries of them.
RetriesEarned ==
  \A d \in Deployments :
    /\ dep[d].retries <= verdicts[d]
    /\ dep[d].status = "INCONCLUSIVE" => verdicts[d] > MaxRetries

WorkerActs == work.pc = "act" /\ work'.pc # "act" /\ dep' # dep

\* The worker promotes only a canary that takes all the traffic, although it
\* decides on a copy it read two requests earlier.
PromotesAtFullTraffic ==
  [][\A d \in Deployments :
       WorkerActs /\ dep'[d].status # dep[d].status /\ dep'[d].status = "PROMOTED"
         => dep[d].weight = 100]_vars

\* A rollout that is left to the worker does not run for ever: it is promoted,
\* rolled back or frozen, whatever the verdicts are.
RolloutsEnd ==
  \A d \in Deployments :
    <>[](Exists(d) /\ ~dep[d].paused) => <>[](Exists(d) /\ ~Active(d))
=============================================================================
