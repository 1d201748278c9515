----------------------------- MODULE Evaluation -----------------------------
(***************************************************************************)
(* One rollout judged on its traffic.  Predictions are recorded while time *)
(* passes and their labels arrive late; the worker evaluates the rollout   *)
(* when a window has passed: three queries for the window summaries, each  *)
(* with a "now" of its own, the verdict, the rows, and the action the      *)
(* verdict leads to.  Worker has any verdict; here it has to be earned.    *)
(*                                                                         *)
(* Time is counted in ticks, and a row carries its age, so that behaviours *)
(* are unbounded and states are not.                                       *)
(***************************************************************************)
EXTENDS WorkerDecision, PolicyEngine

CONSTANTS Rollout,        \* the deployment
          Window,         \* evaluation_window_seconds, in ticks
          Maturity,       \* label_maturity_seconds, in ticks
          Config,         \* the rest of policy_config
          Traffic,        \* what a tick may bring: rows of each side
          Normal,         \* the latency of a healthy answer
          HealthChecks    \* somebody records rows for a stable version without traffic

\* What a prediction may be answered with, and what was true.
Answer == [latency: Nat, status: Nat, prediction: {Missing, 0, 1}, truth: {0, 1}]

ASSUME RolloutAssumption == Rollout \in Deployments
ASSUME WindowAssumption == Window \in Nat \ {0} /\ Maturity \in Nat
ASSUME ConfigAssumption == Config \in PolicyConfig
ASSUME TrafficAssumption ==
  \A t \in Traffic : \A side \in {"stable", "canary"} :
    IsFiniteSet(t[side]) /\ t[side] \subseteq Answer
\* A latency is normal, not slow, if the policy tolerates it next to every answer of the
\* stable version.
ASSUME NormalAssumption ==
  /\ Normal \in Nat
  /\ \A t \in Traffic : \A r \in t.stable :
       100 * Normal <= (100 + Config.p95_max_increase_percent) * r.latency

VARIABLES rows,       \* per side: the recorded rows that a window still covers
          call,       \* the worker's evaluation
          since,      \* ticks since the rollout was evaluated, up to Window
          harmed,     \* history: the canary produced a bad row
          confirmed,  \* history: a label confirmed a positive prediction of the canary
          healthy     \* history: nothing but good rows and labels in time so far,
                      \* no failed call, no operator

history == <<harmed, confirmed, healthy>>
vars == <<dbvars, rows, call, since, history>>

Sides == {"stable", "canary"}

\* The age at which no query finds a row any more: only the canary's are looked at late.
Oldest(side) == IF side = "stable" THEN Window ELSE Window + Maturity

\* A row and the label it finds in the join, which is the truth or not there yet.
PredictionRow(side) ==
  {r \in [age: 0..Oldest(side), latency: Nat, status: Nat, prediction: {Missing, 0, 1},
          truth: {0, 1}, label: {Missing, 0, 1}] : r.label \in {Missing, r.truth}}

Idle == [pc |-> "idle", full |-> FALSE, stable |-> Summarize({}), canary |-> Summarize({}),
         verdict |-> "INCONCLUSIVE"]

Call == [pc: {"idle", "stable", "canary", "quality", "act"}, full: BOOLEAN,
         stable: Summary, canary: Summary, verdict: Results]

TypeOK ==
  /\ TypeOKDB
  /\ DOMAIN rows = Sides
  /\ \A side \in Sides : IsFiniteSet(rows[side]) /\ rows[side] \subseteq PredictionRow(side)
  /\ call \in Call
  /\ since \in 0..Window
  /\ {harmed, confirmed, healthy} \subseteq BOOLEAN

Init ==
  /\ InitDB
  /\ rows = [side \in Sides |-> {}]
  /\ call = Idle
  /\ since = Window
  /\ harmed = FALSE
  /\ confirmed = FALSE
  /\ healthy = TRUE

-----------------------------------------------------------------------------
(***************************************************************************)
(* Traffic, labels and time.                                               *)
(***************************************************************************)
\* Mutant: no health checks.
StableFed_mutant(w) == w < 100

\* The router sends the stable version what the canary leaves; at full traffic only
\* _feed_stable_side_health_checks still records rows for it.
StableFed(w) == w < 100 \/ HealthChecks

Fed(side) == side = "canary" \/ StableFed(dep[Rollout].weight)

\* A row as it is recorded: its label, if it ever gets one, comes later.
Recorded(r) == [age |-> 0, latency |-> r.latency, status |-> r.status,
                prediction |-> r.prediction, truth |-> r.truth, label |-> Missing]

Bad(r) == r.status >= 400 \/ r.latency > Normal \/ r.prediction # r.truth

Aged(r) == [r EXCEPT !.age = @ + 1]

\* A tick: what was recorded gets older, and new rows are recorded.  The traffic of a
\* rollout that ended is left out: whatever the worker reads of it, it can't act on it.
Tick(t) ==
  /\ Active(Rollout)
  /\ UNCHANGED <<dbvars, call, confirmed>>
  /\ since' = IF since < Window THEN since + 1 ELSE since
  /\ harmed' = (harmed \/ \E r \in t.canary : Bad(r))
  /\ healthy' = /\ healthy
                /\ t.stable # {} /\ t.canary # {}
                /\ \A r \in t.stable \cup t.canary : ~Bad(r)
                /\ \A r \in rows["canary"] : r.age + 1 >= Maturity => r.label # Missing
  /\ rows' = [side \in Sides |->
                {Aged(r) : r \in {q \in rows[side] : q.age < Oldest(side)}}
                  \cup {Recorded(r) : r \in IF Fed(side) THEN t[side] ELSE {}}]

\* ingest_label: the row finds its label in the join.  An answer without a
\* prediction has no prediction_id and is never labelled.
LabelArrives(r) ==
  /\ Active(Rollout)
  /\ r.label = Missing
  /\ r.prediction # Missing
  /\ rows' = [rows EXCEPT !["canary"] = (@ \ {r}) \cup {[r EXCEPT !.label = r.truth]}]
  /\ confirmed' = (confirmed \/ (r.prediction = 1 /\ r.truth = 1))
  /\ UNCHANGED <<dbvars, call, since, harmed, healthy>>

-----------------------------------------------------------------------------
(***************************************************************************)
(* The worker: process_deployment, with run_evaluation query by query.     *)
(***************************************************************************)
Begin ==
  /\ call.pc = "idle"
  /\ Active(Rollout)
  /\ since >= Window
  /\ UNCHANGED <<dbvars, rows, since, history>>
  /\ call' = [Idle EXCEPT !.pc = "stable", !.full = AtFullTraffic(dep[Rollout])]

\* created_at between window_start and window_end, both included.
Covered(side, offset) == {r \in rows[side] : r.age \in offset..(offset + Window)}

\* The answer of one query, all of it read at once.
Answers(side, offset) == {Summarize(covered) : covered \in {Covered(side, offset)}}

QueryStable ==
  /\ call.pc = "stable"
  /\ UNCHANGED <<dbvars, rows, since, history>>
  /\ \E s \in Answers("stable", 0) : call' = [call EXCEPT !.pc = "canary", !.stable = s]

QueryCanary ==
  /\ call.pc = "canary"
  /\ UNCHANGED <<dbvars, rows, since, history>>
  /\ \E s \in Answers("canary", 0) : call' = [call EXCEPT !.pc = "quality", !.canary = s]

\* The quality window is the last to be read; verdict and rows follow from the three
\* summaries, and the rows are committed whatever the rollout's status is by now.
QueryQuality ==
  /\ call.pc = "quality"
  /\ UNCHANGED <<dbvars, rows, history>>
  /\ since' = 0
  /\ \E s \in Answers("canary", Maturity) :
       call' = [Idle EXCEPT !.pc = "act", !.full = call.full,
         !.verdict = overall_result(evaluate_policies(call.stable, call.canary, s, Config))]

Act ==
  /\ call.pc = "act"
  /\ UNCHANGED <<rows, since, history>>
  /\ TakeAction(Rollout, call.verdict, call.full)
  /\ call' = Idle

\* A request fails, before the rows are committed or after.
CallFails ==
  /\ call.pc # "idle"
  /\ call' = Idle
  /\ healthy' = FALSE
  /\ UNCHANGED <<dbvars, rows, since, harmed, confirmed>>

-----------------------------------------------------------------------------
(***************************************************************************)
(* Operators: they start the rollout, end it by hand or evaluate it.       *)
(***************************************************************************)
Create ==
  /\ \E m \in Models, w \in InitialWeights : CreateDB(Rollout, m, None, w, FALSE)
  /\ UNCHANGED <<rows, call, since, history>>

Operate ==
  /\ \/ /\ PromoteDB(Rollout) \/ RollbackDB(Rollout)
        /\ UNCHANGED since
     \/ Active(Rollout) /\ since' = 0 /\ UNCHANGED dbvars
  /\ healthy' = FALSE
  /\ UNCHANGED <<rows, call, harmed, confirmed>>

WorkerStep == Begin \/ QueryStable \/ QueryCanary \/ QueryQuality \/ Act

TimePasses == \E t \in Traffic : Tick(t)

Next ==
  \/ Create
  \/ TimePasses
  \/ \E r \in rows["canary"] : LabelArrives(r)
  \/ WorkerStep
  \/ CallFails
  \/ Operate

Spec == Init /\ [][Next]_vars

\* Time passes, and the worker's loop never stops.
FairSpec == Spec /\ WF_vars(TimePasses) /\ WF_vars(WorkerStep) /\ WF_vars(Create)

-----------------------------------------------------------------------------
(***************************************************************************)
(* Properties.                                                             *)
(***************************************************************************)

\* The list of checks, with its gates and its early return, adds up to the verdict
\* the data deserve.
VerdictJustified ==
  [][call.pc = "quality" /\ call'.pc = "act" =>
       call'.verdict = Verdict(call.stable, call.canary,
                               Summarize(Covered("canary", Maturity)), Config)]_vars

\* The interpolated percentiles of whatever is recorded stay in order and within
\* the latencies measured.
PercentilesOrdered ==
  \A side \in Sides : rows[side] # {} =>
    LET measured == {100 * r.latency : r \in rows[side]}
        p50 == Percentile(rows[side], 50)
        p95 == Percentile(rows[side], 95)
        p99 == Percentile(rows[side], 99)
    IN /\ p50 <= p95 /\ p95 <= p99
       /\ \E low, high \in measured : low <= p50 /\ p99 <= high

WorkerActs == call.pc = "act" /\ call'.pc = "idle" /\ dep' # dep

\* A verdict computed from a window that missed its data, mixed three moments or came
\* after labels were lost never costs a canary its rollout that did nothing wrong.
RollbackEarned ==
  [][WorkerActs /\ dep'[Rollout].status = "ROLLED_BACK" => harmed]_vars

\* The worker never gives a canary more traffic, nor promotes it, before a label has
\* confirmed one of its predictions.
AdvanceEarned ==
  [][WorkerActs /\ (dep'[Rollout].weight > dep[Rollout].weight
                    \/ dep'[Rollout].status = "PROMOTED") => confirmed]_vars

\* A rollout that is healthy, and whose stable side is fed at full traffic, is
\* promoted: it is neither starved of samples nor judged before its labels matured.
HealthyIsPromoted == []healthy => <>(dep[Rollout].status = "PROMOTED")
=============================================================================
