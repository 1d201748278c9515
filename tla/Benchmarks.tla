----------------------------- MODULE Benchmarks -----------------------------
(***************************************************************************)
(* The benchmark API, the runners it starts as subprocesses and the fault  *)
(* injection of the serving containers they switch on and off.  The API    *)
(* handles a request between two awaits at once; a task of its own waits   *)
(* for the subprocess.  Runners are started by hand as well, they talk to  *)
(* the containers over HTTP, and every process can be restarted or killed. *)
(***************************************************************************)
EXTENDS FiniteSets

CONSTANTS Runs,        \* ids of runs, each with its runner
          ByHand,      \* the runs started from the command line, without a row
          Scenarios,
          Targets,     \* the containers faults are injected into
          Target,      \* fault_target of each scenario, None if it has none
          Production,  \* the containers with environment = production
          None

ASSUME RunsAssumption == ByHand \subseteq Runs /\ None \notin Runs
ASSUME TargetsAssumption ==
  /\ None \notin Targets
  /\ Target \in [Scenarios -> Targets \cup {None}]
  /\ Production \subseteq Targets

VARIABLES row,      \* benchmark_runs
          monitor,  \* per run: the task that spawns it and waits for it
          runner,   \* the subprocesses
          puts,     \* PUT /fault-injection requests on their way
          knob,     \* per container: the run whose fault is injected, or None
          report,   \* RESULTS_DIR/<scenario>.json: the run that wrote it
          unclean,  \* history: runs killed before their reset, or whose PUT went unanswered
          orphans   \* history: runs whose monitor never came up or was lost

vars == <<row, monitor, runner, puts, knob, report, unclean, orphans>>

NoRun == [status |-> "ABSENT", s |-> None, result |-> None]

NoRunner == [pc |-> "none", s |-> None, outcome |-> "raised"]

RowState == [status: {"ABSENT", "RUNNING", "COMPLETED", "FAILED"},
             s: Scenarios \cup {None}, result: Runs \cup {None}]

RunnerState ==
  [pc: {"none", "setting", "set", "running", "clearing", "reporting", "exited"},
   s: Scenarios \cup {None}, outcome: {"raised", "killed", "matches", "differs"}]

TypeOK ==
  /\ row \in [Runs -> RowState]
  /\ monitor \in [Runs -> {"none", "spawning", "waiting"}]
  /\ runner \in [Runs -> RunnerState]
  /\ puts \subseteq [by: Runs, t: Targets, on: BOOLEAN]
  /\ knob \in [Targets -> Runs \cup {None}]
  /\ \A t \in Production : knob[t] = None
  /\ report \in [Scenarios -> Runs \cup {None}]
  /\ unclean \subseteq Runs
  /\ orphans \subseteq Runs

Init ==
  /\ row = [r \in Runs |-> NoRun]
  /\ monitor = [r \in Runs |-> "none"]
  /\ runner = [r \in Runs |-> NoRunner]
  /\ puts = {}
  /\ knob = [t \in Targets |-> None]
  /\ report = [s \in Scenarios |-> None]
  /\ unclean = {}
  /\ orphans = {}

-----------------------------------------------------------------------------
(***************************************************************************)
(* start_benchmark_run and _monitor_run.                                   *)
(***************************************************************************)
\* Mutant: no look at the runs in progress.
NoneRunning_mutant == TRUE

\* get_running_run is None
NoneRunning == \A r \in Runs : row[r].status # "RUNNING"

\* Up to the await of the subprocess nothing else runs in the API's event loop.
Start(r, s) ==
  /\ r \notin ByHand
  /\ row[r].status = "ABSENT"
  /\ NoneRunning
  /\ row' = [row EXCEPT ![r] = [status |-> "RUNNING", s |-> s, result |-> None]]
  /\ monitor' = [monitor EXCEPT ![r] = "spawning"]
  /\ UNCHANGED <<runner, puts, knob, report, unclean, orphans>>

\* run_scenario up to its try block: the PUT that switches the fault on.
Launch(r, s) ==
  /\ runner' = [runner EXCEPT ![r] = [NoRunner EXCEPT !.s = s,
       !.pc = IF Target[s] = None THEN "running" ELSE "setting"]]
  /\ puts' = puts \cup {[by |-> r, t |-> t, on |-> TRUE] : t \in {Target[s]} \ {None}}

Spawn(r) ==
  /\ monitor[r] = "spawning"
  /\ monitor' = [monitor EXCEPT ![r] = "waiting"]
  /\ Launch(r, row[r].s)
  /\ UNCHANGED <<row, knob, report, unclean, orphans>>

\* create_subprocess_exec raises: a 500, and a row that says RUNNING.
SpawnFails(r) ==
  /\ monitor[r] = "spawning"
  /\ monitor' = [monitor EXCEPT ![r] = "none"]
  /\ orphans' = orphans \cup {r}
  /\ UNCHANGED <<row, runner, puts, knob, report, unclean>>

\* Another runner is halfway through writing the report of the scenario.
Torn(r) == \E q \in Runs \ {r} : runner[q].pc = "reporting" /\ runner[q].s = row[r].s

\* Mutants: the exit of the subprocess not told from its failure, the row left alone
\* when it failed.
Outcome_mutant(r) == {[row[r] EXCEPT !.status = "COMPLETED", !.result = report[row[r].s]]}
Outcome_silent(r) ==
  IF runner[r].outcome = "matches"
  THEN {[row[r] EXCEPT !.status = "COMPLETED", !.result = report[row[r].s]]}
  ELSE {row[r]}

\* The exit code is 0 if the report was written and the outcome is the expected one.
Outcome(r) ==
  IF runner[r].outcome = "matches"
  THEN {[row[r] EXCEPT !.status = "COMPLETED", !.result = found] :
          found \in {report[row[r].s]} \cup (IF Torn(r) THEN {None} ELSE {})}
  ELSE {[row[r] EXCEPT !.status = "FAILED"]}

Monitor(r) ==
  /\ monitor[r] = "waiting"
  /\ runner[r].pc = "exited"
  /\ \E outcome \in Outcome(r) : row' = [row EXCEPT ![r] = outcome]
  /\ monitor' = [monitor EXCEPT ![r] = "none"]
  /\ UNCHANGED <<runner, puts, knob, report, unclean, orphans>>

-----------------------------------------------------------------------------
(***************************************************************************)
(* run_benchmark: main and run_scenario.                                   *)
(***************************************************************************)
RunByHand(r, s) ==
  /\ r \in ByHand
  /\ runner[r].pc = "none"
  /\ Launch(r, s)
  /\ UNCHANGED <<row, monitor, knob, report, unclean, orphans>>

\* The PUT was answered: into the try block.
Enter(r) ==
  /\ runner[r].pc = "set"
  /\ runner' = [runner EXCEPT ![r].pc = "running"]
  /\ UNCHANGED <<row, monitor, puts, knob, report, unclean, orphans>>

\* No answer within 10 seconds, whatever became of the PUT: run_scenario raises before
\* its try block.
SetTimesOut(r) ==
  /\ runner[r].pc \in {"setting", "set"}
  /\ runner' = [runner EXCEPT ![r].pc = "exited"]
  /\ unclean' = unclean \cup {r}
  /\ UNCHANGED <<row, monitor, puts, knob, report, orphans>>

\* main writes the report if run_scenario returned, and exits.
AfterReset(x) ==
  [x EXCEPT !.pc = IF x.outcome \in {"matches", "differs"} THEN "reporting" ELSE "exited"]

\* Mutant: no finally.
Leave_mutant(r, outcome) ==
  /\ runner' = [runner EXCEPT ![r] = AfterReset([@ EXCEPT !.outcome = outcome])]
  /\ UNCHANGED puts

\* The try block ends with an outcome or an exception, and finally resets.
Leave(r, outcome) ==
  IF Target[runner[r].s] = None
  THEN /\ runner' = [runner EXCEPT ![r] = AfterReset([@ EXCEPT !.outcome = outcome])]
       /\ UNCHANGED puts
  ELSE /\ runner' = [runner EXCEPT ![r].pc = "clearing", ![r].outcome = outcome]
       /\ puts' = puts \cup {[by |-> r, t |-> Target[runner[r].s], on |-> FALSE]}

\* Deployment, load, wait for the outcome within max_wait_seconds, locust's report.
Work(r, outcome) ==
  /\ runner[r].pc = "running"
  /\ Leave(r, outcome)
  /\ UNCHANGED <<row, monitor, knob, report, unclean, orphans>>

\* _reset_fault_injection logs an HTTPError and goes on.
ClearTimesOut(r) ==
  /\ runner[r].pc = "clearing"
  /\ runner' = [runner EXCEPT ![r] = AfterReset(@)]
  /\ UNCHANGED <<row, monitor, puts, knob, report, unclean, orphans>>

WriteReport(r) ==
  /\ runner[r].pc = "reporting"
  /\ report' = [report EXCEPT ![runner[r].s] = r]
  /\ runner' = [runner EXCEPT ![r].pc = "exited"]
  /\ UNCHANGED <<row, monitor, puts, knob, unclean, orphans>>

\* SIGKILL, or a SIGTERM nobody handles: no finally.
Kill(r) ==
  /\ runner[r].pc \notin {"none", "exited"}
  /\ runner' = [runner EXCEPT ![r].pc = "exited", ![r].outcome = "killed"]
  /\ unclean' = unclean \cup
       (IF Target[runner[r].s] # None /\ runner[r].pc \in {"setting", "set", "running"}
        THEN {r} ELSE {})
  /\ UNCHANGED <<row, monitor, puts, knob, report, orphans>>

-----------------------------------------------------------------------------
(***************************************************************************)
(* The serving containers, and failures.                                   *)
(***************************************************************************)
\* Mutant: no guard for production.
Knob_mutant(m) == IF m.on THEN m.by ELSE None

\* set_fault_injection
Knob(m) == IF m.t \in Production \/ ~m.on THEN None ELSE m.by

\* What the answer makes of the runner, if it still waits for it: a 403 for a fault in
\* production raises, and so far nothing was switched on; a 403 for the reset doesn't.
Answered(x, m) ==
  IF m.on /\ x.pc = "setting"
  THEN [x EXCEPT !.pc = IF m.t \in Production THEN "exited" ELSE "set"]
  ELSE IF ~m.on /\ x.pc = "clearing" THEN AfterReset(x) ELSE x

PutFaultInjection(m) ==
  /\ puts' = puts \ {m}
  /\ knob' = [knob EXCEPT ![m.t] = Knob(m)]
  /\ runner' = [runner EXCEPT ![m.by] = Answered(@, m)]
  /\ UNCHANGED <<row, monitor, report, unclean, orphans>>

LosePut(m) ==
  /\ puts' = puts \ {m}
  /\ unclean' = unclean \cup (IF m.on THEN {} ELSE {m.by})
  /\ UNCHANGED <<row, monitor, runner, knob, report, orphans>>

\* A container comes back without faults.
ServingRestart(t) ==
  /\ knob' = [knob EXCEPT ![t] = None]
  /\ puts' = {m \in puts : m.t # t}
  /\ UNCHANGED <<row, monitor, runner, report, unclean, orphans>>

\* Monitors are gone; the subprocesses live on, or are killed one by one.
BackendRestart ==
  /\ monitor' = [r \in Runs |-> "none"]
  /\ orphans' = orphans \cup {r \in Runs : monitor[r] # "none"}
  /\ UNCHANGED <<row, runner, puts, knob, report, unclean>>

-----------------------------------------------------------------------------
RunnerStep(r) ==
  \/ Enter(r)
  \/ SetTimesOut(r)
  \/ \E outcome \in {"raised", "matches", "differs"} : Work(r, outcome)
  \/ ClearTimesOut(r)
  \/ WriteReport(r)

ApiStep(r) == Spawn(r) \/ SpawnFails(r) \/ Monitor(r)

Next ==
  \/ \E r \in Runs, s \in Scenarios : Start(r, s) \/ RunByHand(r, s)
  \/ \E r \in Runs : ApiStep(r) \/ RunnerStep(r) \/ Kill(r)
  \/ \E m \in puts : PutFaultInjection(m) \/ LosePut(m)
  \/ \E t \in Targets : ServingRestart(t)
  \/ BackendRestart

Spec == Init /\ [][Next]_vars

\* Every wait of a runner has a deadline, and so has its load; tasks run on.
FairSpec == Spec /\ \A r \in Runs : WF_vars(ApiStep(r)) /\ WF_vars(RunnerStep(r))

-----------------------------------------------------------------------------
(***************************************************************************)
(* Properties.                                                             *)
(***************************************************************************)
Api == INSTANCE BenchmarkRuns WITH
  Ends <- {"COMPLETED", "FAILED"},
  status <- [r \in Runs |-> row[r].status]

\* However requests to start, exits of runners and restarts interleave, the API has
\* at most one run in progress, and a run's end is recorded at most once.
OneAtATime == Api!RunsSpec

\* The report file belongs to the scenario, not to the run: a completed run still never
\* shows the result of an earlier run of the API, only its own, or that of a run
\* somebody started by hand in the meantime.
ResultIsOwn ==
  \A r \in Runs :
    row[r].status = "COMPLETED" => row[r].result \in {r, None} \cup ByHand

\* A fault is injected only while its run goes on or its reset is on the way; all that
\* can leave one behind is a killed runner or a PUT without an answer.  None
\* ever shows in production.
FaultsConfined ==
  \A t \in Targets : \A r \in Runs : knob[t] = r =>
    /\ t \notin Production
    /\ \/ runner[r].pc \in {"setting", "set", "running"}
       \/ [by |-> r, t |-> t, on |-> FALSE] \in puts
       \/ r \in unclean

\* A run doesn't stay RUNNING, unless the API lost the task that watches it.
RunsEnd ==
  \A r \in Runs : row[r].status = "RUNNING" ~> row[r].status # "RUNNING" \/ r \in orphans

\* docs/DESIGN_NOTES.md and _reset_fault_injection: whatever a run raises, its fault
\* is not left on.
NoFaultLeftByAnException ==
  \A r \in Runs : runner[r].pc = "exited" /\ runner[r].outcome = "raised"
    => \A t \in Targets : knob[t] # r \/ [by |-> r, t |-> t, on |-> FALSE] \in puts
=============================================================================
