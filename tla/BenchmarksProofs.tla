-------------------------- MODULE BenchmarksProofs --------------------------
(***************************************************************************)
(* Proofs about Benchmarks: the API's runs implement BenchmarkRuns, a      *)
(* completed run shows its own result, faults stay with their runs.        *)
(***************************************************************************)
EXTENDS Benchmarks, TLAPS

-----------------------------------------------------------------------------
(***************************************************************************)
(* The inductive invariant.                                                *)
(***************************************************************************)
\* Up to the end of the try block.
Injecting == {"setting", "set", "running"}
USE DEF Injecting

\* A run of the API: its row, its monitor and its runner.
RunInv ==
  /\ \A q, r \in Runs : row[q].status = "RUNNING" /\ row[r].status = "RUNNING" => q = r
  /\ \A r \in Runs : row[r].status = "RUNNING" => row[r].s \in Scenarios
  /\ \A r \in Runs : monitor[r] # "none" => row[r].status = "RUNNING" /\ r \notin ByHand
  /\ \A r \in Runs : monitor[r] = "spawning" => runner[r].pc = "none"
  /\ \A r \in Runs : runner[r].pc # "none" => runner[r].s \in Scenarios
  /\ \A r \in Runs \ ByHand :
       runner[r].pc # "none" => row[r].status # "ABSENT" /\ runner[r].s = row[r].s
  /\ \A r \in Runs \ ByHand :
       runner[r].pc \notin {"none", "exited"} => row[r].status = "RUNNING"

\* The report of a run that exited with the outcome it was meant to have is its own as
\* long as its row is RUNNING: no other run of the API can have written since.
ResultInv ==
  /\ \A r \in Runs : runner[r].pc \in Injecting
       => runner[r].outcome = "raised"
  /\ \A r \in Runs \ ByHand :
       row[r].status = "RUNNING" /\ runner[r].pc = "exited" /\ runner[r].outcome = "matches"
         => report[runner[r].s] \in {r} \cup ByHand
  /\ ResultIsOwn

\* Every PUT and every fault belongs to a run and to the target of its scenario.
FaultInv ==
  /\ \A m \in puts : runner[m.by].pc # "none" /\ m.t = Target[runner[m.by].s]
  /\ \A m \in puts : m.on => runner[m.by].pc = "setting" \/ m.by \in unclean
  /\ \A t \in Targets : \A r \in Runs : knob[t] = r =>
       /\ t \notin Production
       /\ runner[r].pc # "none" /\ t = Target[runner[r].s]
       /\ \/ runner[r].pc \in Injecting
          \/ [by |-> r, t |-> t, on |-> FALSE] \in puts
          \/ r \in unclean

BenchInv == TypeOK /\ RunInv /\ ResultInv /\ FaultInv

-----------------------------------------------------------------------------
(***************************************************************************)
(* Records, field by field.                                                *)
(***************************************************************************)
LEMMA RunnerMoves ==
  ASSUME NEW x \in RunnerState
  PROVE  /\ \A pc \in {"none", "setting", "set", "running", "clearing", "reporting",
                       "exited"} : [x EXCEPT !.pc = pc] \in RunnerState
         /\ \A o \in {"raised", "killed", "matches", "differs"} :
              [x EXCEPT !.outcome = o] \in RunnerState
         /\ x.outcome \in {"raised", "killed", "matches", "differs"}
<1>1. \A pc \in {"none", "setting", "set", "running", "clearing", "reporting", "exited"} :
        [x EXCEPT !.pc = pc] \in RunnerState
  BY SMT DEF RunnerState
<1>2. \A o \in {"raised", "killed", "matches", "differs"} :
        [x EXCEPT !.outcome = o] \in RunnerState
  BY SMT DEF RunnerState
<1>3. x.outcome \in {"raised", "killed", "matches", "differs"}
  BY SMT DEF RunnerState
<1> QED BY <1>1, <1>2, <1>3

LEMMA RunnerFields ==
  ASSUME NEW x \in RunnerState, NEW new
  PROVE  /\ LET y == [x EXCEPT !.pc = new]
            IN  y.pc = new /\ y.s = x.s /\ y.outcome = x.outcome
         /\ LET y == [x EXCEPT !.outcome = new]
            IN  y.pc = x.pc /\ y.s = x.s /\ y.outcome = new
  BY SMT DEF RunnerState

LEMMA ResetRunner ==
  ASSUME NEW x \in RunnerState
  PROVE  /\ AfterReset(x) \in RunnerState
         /\ AfterReset(x).s = x.s /\ AfterReset(x).outcome = x.outcome
         /\ AfterReset(x).pc \in {"reporting", "exited"}
         /\ AfterReset(x).pc = "exited" => x.outcome \notin {"matches", "differs"}
<1>1. CASE x.outcome \in {"matches", "differs"}
  <2> DEFINE y == [x EXCEPT !.pc = "reporting"]
  <2>1. AfterReset(x) = y
    BY <1>1 DEF AfterReset
  <2>2. y \in RunnerState
    BY RunnerMoves
  <2>3. y.pc = "reporting" /\ y.s = x.s /\ y.outcome = x.outcome
    BY RunnerFields
  <2> HIDE DEF y
  <2> QED BY <2>1, <2>2, <2>3
<1>2. CASE x.outcome \notin {"matches", "differs"}
  <2> DEFINE y == [x EXCEPT !.pc = "exited"]
  <2>1. AfterReset(x) = y
    BY <1>2 DEF AfterReset
  <2>2. y \in RunnerState
    BY RunnerMoves
  <2>3. y.pc = "exited" /\ y.s = x.s /\ y.outcome = x.outcome
    BY RunnerFields
  <2> HIDE DEF y
  <2> QED BY <1>2, <2>1, <2>2, <2>3
<1> QED BY <1>1, <1>2

-----------------------------------------------------------------------------
(***************************************************************************)
(* What the steps of one runner have in common.                            *)
(***************************************************************************)
LEMMA OneRunnerTypes ==
  ASSUME TypeOK, NEW r \in Runs, NEW x \in RunnerState, runner' = [runner EXCEPT ![r] = x]
  PROVE  /\ runner' \in [Runs -> RunnerState]
         /\ runner'[r] = x /\ \A q \in Runs \ {r} : runner'[q] = runner[q]
  BY DEF TypeOK

LEMMA RunnerChanges ==
  ASSUME BenchInv, NEW r \in Runs, NEW x \in RunnerState,
         runner' = [runner EXCEPT ![r] = x], UNCHANGED <<row, monitor, report>>,
         runner[r].pc # "none", x.pc # "none", x.s = runner[r].s,
         runner[r].pc = "exited" => x.pc = "exited",
         x.pc \in Injecting => x.outcome = "raised",
         x.pc = "exited" /\ x.outcome = "matches"
           => runner[r].pc = "exited" /\ runner[r].outcome = "matches"
  PROVE  RunInv' /\ ResultInv'
<1>1. runner'[r] = x /\ \A q \in Runs \ {r} : runner'[q] = runner[q]
  BY OneRunnerTypes DEF BenchInv
<1>2. RunInv'
  BY <1>1 DEF BenchInv, RunInv
<1>3. ResultInv'
  BY <1>1 DEF BenchInv, ResultInv, ResultIsOwn
<1> QED BY <1>2, <1>3

LEMMA FaultsFollow ==
  ASSUME BenchInv, NEW r \in Runs, NEW x \in RunnerState,
         runner' = [runner EXCEPT ![r] = x], knob' = knob, unclean \subseteq unclean',
         runner[r].pc # "none", x.pc # "none", x.s = runner[r].s,
         puts \subseteq puts',
         \A m \in puts' \ puts : m.by = r /\ ~m.on /\ m.t = Target[x.s],
         runner[r].pc = "setting" /\ x.pc # "setting"
           => r \in unclean' \/ Target[x.s] = None,
         (runner[r].pc \in Injecting /\ x.pc \notin Injecting)
           => \/ r \in unclean' \/ Target[x.s] = None
              \/ [by |-> r, t |-> Target[x.s], on |-> FALSE] \in puts'
  PROVE  FaultInv'
<1>1. runner'[r] = x /\ \A q \in Runs \ {r} : runner'[q] = runner[q]
  BY OneRunnerTypes DEF BenchInv
<1>0. FaultInv
  BY DEF BenchInv
<1>2. \A m \in puts : m.by \in Runs /\ m.t \in Targets
  BY DEF BenchInv, TypeOK
<1>3. \A m \in puts' : runner'[m.by].pc # "none" /\ m.t = Target[runner'[m.by].s]
  BY <1>0, <1>1, <1>2 DEF FaultInv
<1>4. \A m \in puts' : m.on => runner'[m.by].pc = "setting" \/ m.by \in unclean'
  <2> SUFFICES ASSUME NEW m \in puts', m.on
               PROVE  runner'[m.by].pc = "setting" \/ m.by \in unclean'
    OBVIOUS
  <2>1. m \in puts
    OBVIOUS
  <2>2. runner[m.by].pc = "setting" \/ m.by \in unclean
    BY <1>0, <2>1 DEF FaultInv
  <2>3. m.t = Target[runner[m.by].s] /\ m.t # None
    BY <1>0, <1>2, <2>1, TargetsAssumption DEF FaultInv
  <2>4. CASE m.by = r
    BY <1>1, <2>2, <2>3, <2>4
  <2>5. CASE m.by # r
    BY <1>1, <1>2, <2>1, <2>2, <2>5
  <2> QED BY <2>4, <2>5
<1>5. ASSUME NEW t \in Targets, NEW q \in Runs, knob'[t] = q
      PROVE  /\ t \notin Production
             /\ runner'[q].pc # "none" /\ t = Target[runner'[q].s]
             /\ \/ runner'[q].pc \in Injecting
                \/ [by |-> q, t |-> t, on |-> FALSE] \in puts'
                \/ q \in unclean'
  <2>1. /\ t \notin Production /\ runner[q].pc # "none" /\ t = Target[runner[q].s]
        /\ \/ runner[q].pc \in Injecting
           \/ [by |-> q, t |-> t, on |-> FALSE] \in puts
           \/ q \in unclean
    BY <1>0, <1>5 DEF FaultInv
  <2>2. t # None
    BY TargetsAssumption
  <2>3. CASE q = r
    BY <1>1, <2>1, <2>2, <2>3
  <2>4. CASE q # r
    BY <1>1, <2>1, <2>4
  <2> QED BY <2>3, <2>4
<1> QED BY <1>3, <1>4, <1>5 DEF FaultInv

LEMMA LaunchInv ==
  ASSUME BenchInv, NEW r \in Runs, NEW s \in Scenarios, Launch(r, s),
         runner[r].pc = "none", UNCHANGED <<row, report, knob, unclean>>,
         r \in ByHand \/ (row[r].status = "RUNNING" /\ row[r].s = s),
         \A q \in Runs \ {r} : monitor'[q] = monitor[q],
         \/ monitor[r] = "none" /\ monitor'[r] = "none"
         \/ monitor[r] = "spawning" /\ monitor'[r] = "waiting"
  PROVE  /\ runner' \in [Runs -> RunnerState] /\ puts' \subseteq [by: Runs, t: Targets, on: BOOLEAN]
         /\ RunInv' /\ ResultInv' /\ FaultInv'
<1>1. PICK x \in RunnerState :
        /\ runner' = [runner EXCEPT ![r] = x]
        /\ x.pc = (IF Target[s] = None THEN "running" ELSE "setting")
        /\ x.s = s /\ x.outcome = "raised"
  <2> DEFINE pc == IF Target[s] = None THEN "running" ELSE "setting"
             x == [NoRunner EXCEPT !.s = s, !.pc = pc]
  <2>1. pc \in {"running", "setting"}
    OBVIOUS
  <2> HIDE DEF pc
  <2>2. x.pc = pc /\ x.s = s /\ x.outcome = "raised"
    BY DEF NoRunner
  <2>4. x \in RunnerState
    <3>1. NoRunner \in RunnerState
      BY SMT DEF NoRunner, RunnerState
    <3>2. [NoRunner EXCEPT !.s = s] \in RunnerState
      BY <3>1, SMT DEF RunnerState
    <3> DEFINE y == [NoRunner EXCEPT !.s = s]
    <3> HIDE DEF y
    <3>3. [y EXCEPT !.pc = pc] \in RunnerState
      BY <2>1, <3>2, RunnerMoves DEF y
    <3> QED BY <3>3 DEF y
  <2>3. runner' = [runner EXCEPT ![r] = x]
    BY DEF Launch, pc
  <2> HIDE DEF x
  <2> QED BY <2>2, <2>3, <2>4 DEF pc
<1>2. /\ runner' \in [Runs -> RunnerState]
      /\ runner'[r] = x /\ \A q \in Runs \ {r} : runner'[q] = runner[q]
  BY <1>1, OneRunnerTypes DEF BenchInv
<1>3. \A m \in puts' \ puts : /\ m.by = r /\ m.t = Target[s] /\ m.t # None
                             /\ m \in [by: Runs, t: Targets, on: BOOLEAN]
  <2> SUFFICES ASSUME NEW m \in puts' \ puts
               PROVE  /\ m.by = r /\ m.t = Target[s] /\ m.t # None
                      /\ m \in [by: Runs, t: Targets, on: BOOLEAN]
    OBVIOUS
  <2>1. PICK t \in {Target[s]} \ {None} : m = [by |-> r, t |-> t, on |-> TRUE]
    BY DEF Launch
  <2>2. t \in Targets /\ t = Target[s] /\ t # None
    BY TargetsAssumption
  <2> QED BY <2>1, <2>2
<1>4. puts \subseteq puts' /\ puts' \subseteq [by: Runs, t: Targets, on: BOOLEAN]
  <2>1. puts \subseteq puts'
    BY DEF Launch
  <2>2. puts \subseteq [by: Runs, t: Targets, on: BOOLEAN]
    BY DEF BenchInv, TypeOK
  <2> QED BY <1>3, <2>1, <2>2
<1>5. RunInv'
  BY <1>1, <1>2 DEF BenchInv, RunInv
<1>6. ResultInv'
  BY <1>1, <1>2 DEF BenchInv, ResultInv, ResultIsOwn
<1>7. FaultInv'
  <2>0. FaultInv /\ \A m \in puts : m.by \in Runs
    BY DEF BenchInv, TypeOK
  <2>1. \A m \in puts : m.by # r
    BY <2>0 DEF FaultInv
  <2>2. \A m \in puts' : runner'[m.by].pc # "none" /\ m.t = Target[runner'[m.by].s]
    BY <1>1, <1>2, <1>3, <2>0, <2>1 DEF FaultInv
  <2>3. \A m \in puts' : m.on => runner'[m.by].pc = "setting" \/ m.by \in unclean'
    BY <1>1, <1>2, <1>3, <2>0, <2>1 DEF FaultInv
  <2>4. \A t \in Targets : knob[t] # r
    BY <2>0 DEF FaultInv
  <2> QED BY <1>2, <1>4, <2>0, <2>2, <2>3, <2>4 DEF FaultInv
<1> QED BY <1>2, <1>4, <1>5, <1>6, <1>7

-----------------------------------------------------------------------------
(***************************************************************************)
(* One lemma per process: the API, the runners, the containers.            *)
(***************************************************************************)
LEMMA FaultsElsewhere ==
  ASSUME FaultInv, UNCHANGED <<runner, puts, knob, unclean>>
  PROVE  FaultInv'
  BY DEF FaultInv

LEMMA ApiInv ==
  ASSUME BenchInv, NEW r \in Runs, NEW s \in Scenarios,
         Start(r, s) \/ SpawnFails(r) \/ Monitor(r) \/ BackendRestart
  PROVE  BenchInv'
<1> USE DEF BenchInv
<1>1. CASE Start(r, s)
  <2>0. FaultInv'
    BY <1>1, FaultsElsewhere DEF Start
  <2> DEFINE x == [status |-> "RUNNING", s |-> s, result |-> None]
  <2>1. x \in RowState
    BY SMT DEF RowState
  <2>2. /\ row' = [row EXCEPT ![r] = x] /\ monitor' = [monitor EXCEPT ![r] = "spawning"]
        /\ UNCHANGED <<runner, puts, knob, report, unclean, orphans>>
    BY <1>1 DEF Start
  <2>3. x.status = "RUNNING" /\ x.s = s
    OBVIOUS
  <2> HIDE DEF x
  <2>4. TypeOK'
    BY <2>1, <2>2 DEF TypeOK
  <2>5. /\ row'[r] = x /\ \A q \in Runs \ {r} : row'[q] = row[q]
        /\ monitor'[r] = "spawning" /\ \A q \in Runs \ {r} : monitor'[q] = monitor[q]
    BY <2>2 DEF TypeOK
  <2>6. /\ r \notin ByHand /\ row[r].status = "ABSENT"
        /\ \A q \in Runs : row[q].status # "RUNNING"
    BY <1>1 DEF Start, NoneRunning
  <2>7. runner[r].pc = "none"
    BY <2>6 DEF RunInv
  <2>8. RunInv'
    BY <2>2, <2>3, <2>5, <2>6, <2>7 DEF RunInv
  <2>9. ResultInv'
    BY <2>2, <2>3, <2>5, <2>7 DEF ResultInv, ResultIsOwn
  <2> QED BY <2>0, <2>4, <2>8, <2>9
<1>2. CASE SpawnFails(r) \/ BackendRestart
  <2>0. FaultInv'
    BY <1>2, FaultsElsewhere DEF SpawnFails, BackendRestart
  <2>1. UNCHANGED <<row, runner, puts, knob, report, unclean>>
    BY <1>2 DEF SpawnFails, BackendRestart
  <2>2. \A q \in Runs : monitor'[q] \in {monitor[q], "none"}
    BY <1>2 DEF SpawnFails, BackendRestart, TypeOK
  <2>3. TypeOK'
    BY <1>2, <2>1 DEF SpawnFails, BackendRestart, TypeOK
  <2>4. RunInv'
    BY <2>1, <2>2 DEF RunInv
  <2>5. ResultInv'
    BY <2>1 DEF ResultInv, ResultIsOwn
  <2> QED BY <2>0, <2>3, <2>4, <2>5
<1>3. CASE Monitor(r)
  <2>0. FaultInv'
    BY <1>3, FaultsElsewhere DEF Monitor
  <2>1. r \notin ByHand /\ row[r].status = "RUNNING" /\ runner[r].pc = "exited"
    BY <1>3 DEF Monitor, RunInv
  <2>2. row[r] \in RowState /\ row[r].s \in Scenarios /\ report[row[r].s] \in Runs \cup {None}
    BY <2>1 DEF RunInv, TypeOK
  <2>3. PICK x \in RowState :
          /\ row' = [row EXCEPT ![r] = x]
          /\ \/ x.status = "COMPLETED" /\ runner[r].outcome = "matches"
                /\ x.result \in {report[row[r].s], None}
             \/ x.status = "FAILED"
          /\ x.s = row[r].s
    <3>1. PICK x \in Outcome(r) : row' = [row EXCEPT ![r] = x]
      BY <1>3 DEF Monitor
    <3>2. CASE runner[r].outcome = "matches"
      <4>1. PICK found \in {report[row[r].s], None} :
              x = [row[r] EXCEPT !.status = "COMPLETED", !.result = found]
        BY <3>1, <3>2 DEF Outcome
      <4> DEFINE y == [row[r] EXCEPT !.status = "COMPLETED"]
      <4>2. y \in RowState
        BY <2>2, SMT DEF RowState
      <4>3. y.status = "COMPLETED" /\ y.s = row[r].s
        BY <2>2, SMT DEF RowState
      <4>4. x = [y EXCEPT !.result = found] /\ found \in Runs \cup {None}
        BY <2>2, <4>1
      <4> HIDE DEF y
      <4>5. x \in RowState
        BY <4>2, <4>4, SMT DEF RowState
      <4>6. x.status = "COMPLETED" /\ x.s = row[r].s /\ x.result = found
        BY <4>2, <4>3, <4>4, SMT DEF RowState
      <4> QED BY <3>1, <3>2, <4>1, <4>5, <4>6
    <3>3. CASE runner[r].outcome # "matches"
      <4>1. x = [row[r] EXCEPT !.status = "FAILED"]
        BY <3>1, <3>3 DEF Outcome
      <4>2. x \in RowState
        BY <2>2, <4>1, SMT DEF RowState
      <4>3. x.status = "FAILED" /\ x.s = row[r].s
        BY <2>2, <4>1, SMT DEF RowState
      <4> QED BY <3>1, <4>2, <4>3
    <3> QED BY <3>2, <3>3
  <2>4. /\ monitor' = [monitor EXCEPT ![r] = "none"]
        /\ UNCHANGED <<runner, puts, knob, report, unclean, orphans>>
    BY <1>3 DEF Monitor
  <2>5. TypeOK'
    BY <2>3, <2>4 DEF TypeOK
  <2>6. /\ row'[r] = x /\ \A q \in Runs \ {r} : row'[q] = row[q]
        /\ monitor'[r] = "none" /\ \A q \in Runs \ {r} : monitor'[q] = monitor[q]
    BY <2>3, <2>4 DEF TypeOK
  <2>7. RunInv'
    BY <2>1, <2>3, <2>4, <2>6 DEF RunInv
  <2>8. runner[r].outcome = "matches" => report[row[r].s] \in {r} \cup ByHand
    BY <2>1 DEF ResultInv, RunInv
  <2>9. ResultInv'
    BY <2>1, <2>3, <2>4, <2>6, <2>8 DEF ResultInv, ResultIsOwn
  <2> QED BY <2>0, <2>5, <2>7, <2>9
<1> QED BY <1>1, <1>2, <1>3

LEMMA LaunchesInv ==
  ASSUME BenchInv, NEW r \in Runs, NEW s \in Scenarios, RunByHand(r, s) \/ Spawn(r)
  PROVE  BenchInv'
<1> USE DEF BenchInv
<1>1. CASE RunByHand(r, s)
  <2>1. monitor[r] = "none" /\ runner[r].pc = "none" /\ r \in ByHand
    BY <1>1 DEF RunByHand, RunInv, TypeOK
  <2>2. UNCHANGED <<row, monitor, knob, report, unclean, orphans>> /\ Launch(r, s)
    BY <1>1 DEF RunByHand
  <2>3. /\ runner' \in [Runs -> RunnerState] /\ puts' \subseteq [by: Runs, t: Targets, on: BOOLEAN]
        /\ RunInv' /\ ResultInv' /\ FaultInv'
    BY <2>1, <2>2, LaunchInv
  <2> QED BY <2>2, <2>3 DEF TypeOK
<1>2. CASE Spawn(r)
  <2>1. /\ monitor[r] = "spawning" /\ runner[r].pc = "none"
        /\ row[r].status = "RUNNING" /\ row[r].s \in Scenarios
    BY <1>2 DEF Spawn, RunInv
  <2>2. /\ UNCHANGED <<row, knob, report, unclean, orphans>> /\ Launch(r, row[r].s)
        /\ monitor' = [monitor EXCEPT ![r] = "waiting"]
    BY <1>2 DEF Spawn
  <2>3. monitor'[r] = "waiting" /\ \A q \in Runs \ {r} : monitor'[q] = monitor[q]
    BY <2>2 DEF TypeOK
  <2>4. /\ runner' \in [Runs -> RunnerState] /\ puts' \subseteq [by: Runs, t: Targets, on: BOOLEAN]
        /\ RunInv' /\ ResultInv' /\ FaultInv'
    BY <2>1, <2>2, <2>3, LaunchInv
  <2> QED BY <2>2, <2>4 DEF TypeOK
<1> QED BY <1>1, <1>2

\* A runner's step that leaves everything but its record, its PUTs and unclean alone.
LEMMA RunnerAlone ==
  ASSUME BenchInv, UNCHANGED <<row, monitor, knob, report, orphans>>,
         runner' \in [Runs -> RunnerState],
         puts' \subseteq [by: Runs, t: Targets, on: BOOLEAN], unclean' \subseteq Runs,
         RunInv', ResultInv', FaultInv'
  PROVE  BenchInv'
  BY DEF BenchInv, TypeOK

LEMMA RunnerTypes ==
  ASSUME BenchInv, NEW r \in Runs, NEW x \in RunnerState, runner' = [runner EXCEPT ![r] = x]
  PROVE  /\ runner' \in [Runs -> RunnerState]
         /\ runner[r] \in RunnerState
         /\ puts \subseteq [by: Runs, t: Targets, on: BOOLEAN] /\ unclean \subseteq Runs
  BY DEF BenchInv, TypeOK

LEMMA StepInv ==
  ASSUME BenchInv, NEW r \in Runs, Enter(r) \/ SetTimesOut(r) \/ ClearTimesOut(r) \/ Kill(r)
  PROVE  BenchInv'
<1>0. runner[r] \in RunnerState
  BY DEF BenchInv, TypeOK
<1>1. PICK x \in RunnerState :
        /\ runner' = [runner EXCEPT ![r] = x] /\ x.s = runner[r].s
        /\ runner[r].pc \notin {"none", "exited"} /\ x.pc # "none"
        /\ x.pc \in Injecting => x.outcome = "raised"
        /\ x.pc = "exited" => x.outcome # "matches"
        /\ (runner[r].pc \in Injecting /\ x.pc \notin Injecting) \/ runner[r].pc = "setting"
             => r \in unclean' \/ Target[x.s] = None
  <2>1. CASE Enter(r)
    <3> DEFINE x == [runner[r] EXCEPT !.pc = "running"]
    <3>1. runner' = [runner EXCEPT ![r] = x] /\ runner[r].pc = "set"
      BY <2>1 DEF Enter
    <3>2. x \in RunnerState
      BY <1>0, RunnerMoves
    <3>4. x.pc = "running" /\ x.s = runner[r].s /\ x.outcome = runner[r].outcome
      BY <1>0, RunnerFields
    <3>3. runner[r].outcome = "raised"
      BY <3>1 DEF BenchInv, ResultInv
    <3> HIDE DEF x
    <3> QED BY <3>1, <3>2, <3>3, <3>4
  <2>2. CASE SetTimesOut(r)
    <3> DEFINE x == [runner[r] EXCEPT !.pc = "exited"]
    <3>1. /\ runner' = [runner EXCEPT ![r] = x] /\ runner[r].pc \in {"setting", "set"}
          /\ r \in unclean'
      BY <2>2 DEF SetTimesOut
    <3>2. x \in RunnerState
      BY <1>0, RunnerMoves
    <3>4. x.pc = "exited" /\ x.s = runner[r].s /\ x.outcome = runner[r].outcome
      BY <1>0, RunnerFields
    <3>3. runner[r].outcome = "raised"
      BY <3>1 DEF BenchInv, ResultInv
    <3> HIDE DEF x
    <3> QED BY <3>1, <3>2, <3>3, <3>4
  <2>3. CASE ClearTimesOut(r)
    <3>1. runner' = [runner EXCEPT ![r] = AfterReset(runner[r])] /\ runner[r].pc = "clearing"
      BY <2>3 DEF ClearTimesOut
    <3> QED BY <1>0, <3>1, ResetRunner
  <2>4. CASE Kill(r)
    <3> DEFINE y == [runner[r] EXCEPT !.pc = "exited"]
               x == [y EXCEPT !.outcome = "killed"]
    <3>1. runner' = [runner EXCEPT ![r] = x] /\ runner[r].pc \notin {"none", "exited"}
      BY <2>4 DEF Kill, BenchInv, TypeOK
    <3>2. y \in RunnerState
      BY <1>0, RunnerMoves
    <3>6. y.pc = "exited" /\ y.s = runner[r].s
      BY <1>0, RunnerFields
    <3> HIDE DEF y
    <3>3. x.pc = "exited" /\ x.s = runner[r].s /\ x.outcome = "killed"
      BY <3>2, <3>6, RunnerFields
    <3>5. x \in RunnerState
      BY <3>2, RunnerMoves
    <3>4. runner[r].pc \in Injecting
            => r \in unclean' \/ Target[runner[r].s] = None
      BY <2>4 DEF Kill
    <3> HIDE DEF x
    <3> QED BY <3>1, <3>3, <3>4, <3>5
  <2> QED BY <2>1, <2>2, <2>3, <2>4
<1>2. /\ UNCHANGED <<row, monitor, puts, knob, report, orphans>>
      /\ unclean \subseteq unclean' /\ unclean' \subseteq Runs
  BY DEF Enter, SetTimesOut, ClearTimesOut, Kill, BenchInv, TypeOK
<1>3. RunInv' /\ ResultInv'
  BY <1>1, <1>2, RunnerChanges
<1>4. FaultInv'
  BY <1>1, <1>2, FaultsFollow
<1> QED BY <1>1, <1>2, <1>3, <1>4, RunnerTypes, RunnerAlone

\* The end of the try block: with a target, the reset is on its way before anything else.
LEMMA WorkInv ==
  ASSUME BenchInv, NEW r \in Runs, NEW o \in {"raised", "matches", "differs"}, Work(r, o)
  PROVE  BenchInv'
<1>0. runner[r] \in RunnerState /\ runner[r].pc = "running" /\ runner[r].s \in Scenarios
  BY DEF BenchInv, RunInv, TypeOK, Work
<1> DEFINE y == [runner[r] EXCEPT !.outcome = o]
           z == [runner[r] EXCEPT !.pc = "clearing"]
           w == [z EXCEPT !.outcome = o]
<1>1. y \in RunnerState /\ y.s = runner[r].s /\ y.outcome = o
  <2>1. y \in RunnerState
    BY <1>0, RunnerMoves
  <2>2. y.s = runner[r].s /\ y.outcome = o
    BY <1>0, RunnerFields
  <2> QED BY <2>1, <2>2
<1>2. z \in RunnerState /\ z.pc = "clearing" /\ z.s = runner[r].s
  <2>1. z \in RunnerState
    BY <1>0, RunnerMoves
  <2>2. z.pc = "clearing" /\ z.s = runner[r].s
    BY <1>0, RunnerFields
  <2> QED BY <2>1, <2>2
<1>3. w \in RunnerState
  BY <1>2, RunnerMoves
<1>4. w.pc = "clearing" /\ w.s = runner[r].s
  <2> HIDE DEF z
  <2> QED BY <1>2, RunnerFields
<1>5. PICK x \in RunnerState :
        /\ runner' = [runner EXCEPT ![r] = x] /\ x.s = runner[r].s
        /\ x.pc \in {"clearing", "reporting", "exited"}
        /\ x.pc = "exited" => x.outcome # "matches"
        /\ \/ Target[x.s] = None /\ puts' = puts
           \/ Target[x.s] # None
              /\ puts' = puts \cup {[by |-> r, t |-> Target[x.s], on |-> FALSE]}
  <2>1. CASE Target[runner[r].s] = None
    <3>1. runner' = [runner EXCEPT ![r] = AfterReset(y)] /\ puts' = puts
      BY <2>1 DEF Work, Leave
    <3> HIDE DEF y
    <3> QED BY <1>1, <2>1, <3>1, ResetRunner
  <2>2. CASE Target[runner[r].s] # None
    <3>1. /\ runner' = [runner EXCEPT ![r] = w]
          /\ puts' = puts \cup {[by |-> r, t |-> Target[runner[r].s], on |-> FALSE]}
      BY <2>2 DEF Work, Leave, BenchInv, TypeOK
    <3> HIDE DEF w
    <3> QED BY <1>3, <1>4, <2>2, <3>1
  <2> QED BY <2>1, <2>2
<1> HIDE DEF y, z, w
<1>6. UNCHANGED <<row, monitor, knob, report, unclean, orphans>>
  BY DEF Work
<1>7. RunInv' /\ ResultInv'
  BY <1>0, <1>5, <1>6, RunnerChanges
<1>8. /\ puts \subseteq puts'
      /\ \A m \in puts' \ puts : m.by = r /\ ~m.on /\ m.t = Target[x.s]
      /\ Target[x.s] = None \/ [by |-> r, t |-> Target[x.s], on |-> FALSE] \in puts'
  BY <1>5
<1>9. FaultInv'
  BY <1>0, <1>5, <1>6, <1>8, FaultsFollow
<1>10. puts' \subseteq [by: Runs, t: Targets, on: BOOLEAN]
  <2>1. Target[x.s] = None \/ Target[x.s] \in Targets
    BY <1>0, <1>5, TargetsAssumption
  <2>2. puts \subseteq [by: Runs, t: Targets, on: BOOLEAN]
    BY DEF BenchInv, TypeOK
  <2>3. CASE Target[x.s] = None
    BY <1>5, <2>2, <2>3
  <2>4. CASE Target[x.s] \in Targets
    <3>1. [by |-> r, t |-> Target[x.s], on |-> FALSE] \in [by: Runs, t: Targets, on: BOOLEAN]
      BY <2>4
    <3> QED BY <1>5, <2>2, <3>1
  <2> QED BY <2>1, <2>3, <2>4
<1> QED BY <1>5, <1>6, <1>7, <1>9, <1>10, RunnerTypes, RunnerAlone

\* The row of an API run that writes its report is the one RUNNING row, so the report of
\* no other run of the API is overwritten while somebody waits for it.
LEMMA WriteReportInv ==
  ASSUME BenchInv, NEW r \in Runs, WriteReport(r)
  PROVE  BenchInv'
<1> DEFINE x == [runner[r] EXCEPT !.pc = "exited"]
<1>0. runner[r] \in RunnerState /\ runner[r].pc = "reporting" /\ runner[r].s \in Scenarios
  BY DEF BenchInv, RunInv, TypeOK, WriteReport
<1>1. x \in RunnerState /\ x.pc = "exited" /\ x.s = runner[r].s /\ x.outcome = runner[r].outcome
  <2>1. x \in RunnerState
    BY <1>0, RunnerMoves
  <2>2. x.pc = "exited" /\ x.s = runner[r].s /\ x.outcome = runner[r].outcome
    BY <1>0, RunnerFields
  <2> QED BY <2>1, <2>2
<1>2. /\ runner' = [runner EXCEPT ![r] = x]
      /\ report' = [report EXCEPT ![runner[r].s] = r]
      /\ UNCHANGED <<row, monitor, puts, knob, unclean, orphans>>
  BY DEF WriteReport
<1> HIDE DEF x
<1>3. /\ runner' \in [Runs -> RunnerState]
      /\ runner'[r] = x /\ \A q \in Runs \ {r} : runner'[q] = runner[q]
  BY <1>1, <1>2, OneRunnerTypes DEF BenchInv
<1>4. TypeOK'
  BY <1>0, <1>2, <1>3 DEF BenchInv, TypeOK
<1>5. RunInv'
  BY <1>0, <1>1, <1>2, <1>3 DEF BenchInv, RunInv
<1>6. /\ \A s \in Scenarios : report'[s] = IF s = runner[r].s THEN r ELSE report[s]
      /\ r \notin ByHand => \A q \in Runs : row[q].status = "RUNNING" => q = r
  BY <1>0, <1>2 DEF BenchInv, RunInv, TypeOK
<1>7. ResultInv'
  <2>1. ASSUME NEW q \in Runs \ ByHand, row'[q].status = "RUNNING",
               runner'[q].pc = "exited", runner'[q].outcome = "matches"
        PROVE  report'[runner'[q].s] \in {q} \cup ByHand
    <3>1. CASE q = r
      BY <1>0, <1>1, <1>3, <1>6, <3>1
    <3>2. CASE q # r
      <4>1. runner'[q] = runner[q] /\ row[q].status = "RUNNING" /\ r \in ByHand
        BY <1>2, <1>3, <1>6, <2>1, <3>2
      <4>2. report[runner[q].s] \in {q} \cup ByHand /\ runner[q].s \in Scenarios
        BY <2>1, <4>1 DEF BenchInv, ResultInv, RunInv
      <4> QED BY <1>6, <4>1, <4>2
    <3> QED BY <3>1, <3>2
  <2>2. \A q \in Runs : runner'[q].pc \in Injecting => runner'[q].outcome = "raised"
    BY <1>1, <1>3 DEF BenchInv, ResultInv
  <2>3. ResultIsOwn'
    BY <1>2 DEF BenchInv, ResultInv, ResultIsOwn
  <2> QED BY <2>1, <2>2, <2>3 DEF ResultInv
<1>8. FaultInv'
  BY <1>0, <1>1, <1>2, FaultsFollow
<1> QED BY <1>4, <1>5, <1>7, <1>8 DEF BenchInv

LEMMA PutTypes ==
  ASSUME BenchInv, NEW m \in puts
  PROVE  /\ m.by \in Runs /\ m.t \in Targets /\ m.on \in BOOLEAN
         /\ m = [by |-> m.by, t |-> m.t, on |-> m.on]
         /\ runner[m.by] \in RunnerState /\ runner[m.by].pc # "none"
         /\ m.t = Target[runner[m.by].s]
<1>1. m \in [by: Runs, t: Targets, on: BOOLEAN]
  BY DEF BenchInv, TypeOK
<1>2. m.by \in Runs /\ m.t \in Targets /\ m.on \in BOOLEAN
  BY <1>1
<1>3. m = [by |-> m.by, t |-> m.t, on |-> m.on]
  BY <1>1
<1>4. runner[m.by] \in RunnerState
  BY <1>2 DEF BenchInv, TypeOK
<1> QED BY <1>2, <1>3, <1>4 DEF BenchInv, FaultInv

\* A PUT reaches its container: the runner that waits for the answer moves on with it.
LEMMA PutInv ==
  ASSUME BenchInv, NEW m \in puts, PutFaultInjection(m)
  PROVE  BenchInv'
<1> DEFINE p == m.by
           x == Answered(runner[p], m)
<1>0. /\ p \in Runs /\ m.t \in Targets /\ m.on \in BOOLEAN
      /\ runner[p] \in RunnerState /\ runner[p].pc # "none" /\ m.t = Target[runner[p].s]
  BY PutTypes
<1>1. /\ puts' = puts \ {m} /\ knob' = [knob EXCEPT ![m.t] = Knob(m)]
      /\ runner' = [runner EXCEPT ![p] = x]
      /\ UNCHANGED <<row, monitor, report, unclean, orphans>>
  BY DEF PutFaultInjection
<1>2. /\ x \in RunnerState /\ x.s = runner[p].s /\ x.pc # "none"
      /\ \/ x = runner[p] /\ (m.on => runner[p].pc # "setting")
         \/ /\ m.on /\ runner[p].pc = "setting" /\ x.outcome = "raised"
            /\ x.pc = IF m.t \in Production THEN "exited" ELSE "set"
         \/ /\ ~m.on /\ runner[p].pc = "clearing"
            /\ x.pc \in {"reporting", "exited"}
            /\ x.pc = "exited" => x.outcome # "matches"
  <2>1. CASE m.on /\ runner[p].pc = "setting"
    <3> DEFINE pc == IF m.t \in Production THEN "exited" ELSE "set"
               y == [runner[p] EXCEPT !.pc = pc]
    <3>1. x = y
      BY <2>1 DEF Answered
    <3>2. pc \in {"exited", "set"}
      OBVIOUS
    <3>5. pc = IF m.t \in Production THEN "exited" ELSE "set"
      OBVIOUS
    <3> HIDE DEF pc
    <3>3. y \in RunnerState
      BY <1>0, <3>2, RunnerMoves
    <3>4. y.pc = pc /\ y.s = runner[p].s /\ y.outcome = runner[p].outcome
      BY <1>0, RunnerFields
    <3>6. runner[p].outcome = "raised"
      BY <1>0, <2>1 DEF BenchInv, ResultInv
    <3> HIDE DEF y, x
    <3> QED BY <2>1, <3>1, <3>2, <3>3, <3>4, <3>5, <3>6
  <2>2. CASE ~m.on /\ runner[p].pc = "clearing"
    <3>1. x = AfterReset(runner[p])
      BY <2>2 DEF Answered
    <3> HIDE DEF x
    <3> QED BY <1>0, <2>2, <3>1, ResetRunner
  <2>3. CASE ~(m.on /\ runner[p].pc = "setting") /\ ~(~m.on /\ runner[p].pc = "clearing")
    <3>1. x = runner[p]
      BY <2>3 DEF Answered
    <3> HIDE DEF x
    <3> QED BY <1>0, <2>3, <3>1
  <2> QED BY <2>1, <2>2, <2>3
<1> HIDE DEF x
<1>3. RunInv' /\ ResultInv'
  <2>1. x.pc \in Injecting => x.outcome = "raised"
    BY <1>0, <1>2 DEF BenchInv, ResultInv
  <2> QED BY <1>0, <1>1, <1>2, <2>1, RunnerChanges
<1>4. /\ runner' \in [Runs -> RunnerState]
      /\ runner'[p] = x /\ \A q \in Runs \ {p} : runner'[q] = runner[q]
  BY <1>0, <1>1, <1>2, OneRunnerTypes DEF BenchInv
<1>5. Knob(m) \in {p, None} /\ (Knob(m) = p => m.on /\ m.t \notin Production)
  BY <1>0, RunsAssumption DEF Knob
<1>6. \A t \in Targets : knob'[t] = IF t = m.t THEN Knob(m) ELSE knob[t]
  BY <1>0, <1>1 DEF BenchInv, TypeOK
<1>7. TypeOK'
  BY <1>0, <1>1, <1>4, <1>5, RunsAssumption, TargetsAssumption DEF BenchInv, TypeOK
<1>8. FaultInv'
  <2>0. FaultInv
    BY DEF BenchInv
  <2>1. \A n \in puts' : runner'[n.by].pc # "none" /\ n.t = Target[runner'[n.by].s]
    BY <1>1, <1>2, <1>4, <2>0, PutTypes DEF FaultInv
  <2>2. ASSUME NEW n \in puts', n.on
        PROVE  runner'[n.by].pc = "setting" \/ n.by \in unclean'
    <3>1. n \in puts /\ n # m
      BY <1>1
    <3>2. runner[n.by].pc = "setting" \/ n.by \in unclean
      BY <2>0, <2>2, <3>1 DEF FaultInv
    <3>3. n.by \in Runs /\ n.t = Target[runner[n.by].s]
          /\ n = [by |-> n.by, t |-> n.t, on |-> n.on] /\ n.on \in BOOLEAN
      BY <3>1, PutTypes
    <3>4. m = [by |-> p, t |-> m.t, on |-> m.on]
      BY PutTypes
    <3>5. CASE n.by = p
      <4>1. ~m.on
        BY <1>0, <2>2, <3>1, <3>3, <3>4, <3>5
      <4>2. runner[p].pc = "setting" => x = runner[p]
        BY <1>2, <4>1
      <4> QED BY <1>1, <1>4, <3>2, <3>5, <4>2
    <3>6. CASE n.by # p
      BY <1>1, <1>4, <3>2, <3>3, <3>6
    <3> QED BY <3>5, <3>6
  <2>3. ASSUME NEW t \in Targets, NEW q \in Runs, knob'[t] = q
        PROVE  /\ t \notin Production
               /\ runner'[q].pc # "none" /\ t = Target[runner'[q].s]
               /\ \/ runner'[q].pc \in Injecting
                  \/ [by |-> q, t |-> t, on |-> FALSE] \in puts'
                  \/ q \in unclean'
    <3>1. CASE t = m.t
      <4>1. q = p /\ m.on /\ t \notin Production
        BY <1>5, <1>6, <2>3, <3>1, RunsAssumption
      <4>2. runner[p].pc = "setting" \/ p \in unclean
        BY <2>0, <4>1 DEF FaultInv
      <4>3. x.pc = "set" \/ p \in unclean
        BY <1>2, <3>1, <4>1, <4>2
      <4> QED BY <1>0, <1>1, <1>2, <1>4, <3>1, <4>1, <4>3
    <3>2. CASE t # m.t
      <4>1. /\ t \notin Production /\ runner[q].pc # "none" /\ t = Target[runner[q].s]
            /\ \/ runner[q].pc \in Injecting
               \/ [by |-> q, t |-> t, on |-> FALSE] \in puts
               \/ q \in unclean
        BY <1>6, <2>0, <2>3, <3>2 DEF FaultInv
      <4>2. q # p /\ runner'[q] = runner[q]
        BY <1>0, <1>4, <3>2, <4>1
      <4>3. [by |-> q, t |-> t, on |-> FALSE] # m
        BY <3>2
      <4> QED BY <1>1, <4>1, <4>2, <4>3
    <3> QED BY <3>1, <3>2
  <2> QED BY <2>1, <2>2, <2>3 DEF FaultInv
<1> QED BY <1>3, <1>7, <1>8 DEF BenchInv

LEMMA ContainerInv ==
  ASSUME BenchInv,
         (\E m \in puts : LosePut(m)) \/ (\E t \in Targets : ServingRestart(t))
  PROVE  BenchInv'
<1>0. FaultInv /\ TypeOK
  BY DEF BenchInv
<1>1. ASSUME NEW m \in puts, LosePut(m)
      PROVE  BenchInv'
  <2>1. /\ puts' = puts \ {m} /\ UNCHANGED <<row, monitor, runner, knob, report, orphans>>
        /\ unclean \subseteq unclean' /\ unclean' \subseteq Runs
        /\ ~m.on => m.by \in unclean'
    BY <1>0, <1>1, PutTypes DEF LosePut, TypeOK
  <2>2. \A q \in Runs, t \in Targets :
          [by |-> q, t |-> t, on |-> FALSE] \in puts \ puts' => q \in unclean'
    BY <2>1
  <2>3. FaultInv'
    BY <1>0, <2>1, <2>2 DEF FaultInv
  <2>4. TypeOK' /\ RunInv' /\ ResultInv'
    BY <2>1 DEF BenchInv, TypeOK, RunInv, ResultInv, ResultIsOwn
  <2> QED BY <2>3, <2>4 DEF BenchInv
<1>2. ASSUME NEW u \in Targets, ServingRestart(u)
      PROVE  BenchInv'
  <2>1. /\ puts' = {m \in puts : m.t # u} /\ knob' = [knob EXCEPT ![u] = None]
        /\ UNCHANGED <<row, monitor, runner, report, unclean, orphans>>
    BY <1>2 DEF ServingRestart
  <2>2. \A t \in Targets : knob'[t] = IF t = u THEN None ELSE knob[t]
    BY <1>0, <2>1 DEF TypeOK
  <2>3. \A q \in Runs, t \in Targets \ {u} :
          [by |-> q, t |-> t, on |-> FALSE] \in puts
            => [by |-> q, t |-> t, on |-> FALSE] \in puts'
    BY <2>1
  <2>4. FaultInv'
    BY <1>0, <2>1, <2>2, <2>3, RunsAssumption DEF FaultInv
  <2>5. TypeOK'
    BY <1>0, <2>1 DEF TypeOK
  <2>6. RunInv' /\ ResultInv'
    BY <2>1 DEF BenchInv, RunInv, ResultInv, ResultIsOwn
  <2> QED BY <2>4, <2>5, <2>6 DEF BenchInv
<1> QED BY <1>1, <1>2

-----------------------------------------------------------------------------
(***************************************************************************)
(* Theorems.                                                               *)
(***************************************************************************)
LEMMA BenchInit == Init => BenchInv
<1> SUFFICES ASSUME Init PROVE BenchInv
  OBVIOUS
<1>1. NoRun \in RowState /\ NoRun.status = "ABSENT"
  BY SMT DEF NoRun, RowState
<1>2. NoRunner \in RunnerState /\ NoRunner.pc = "none"
  BY SMT DEF NoRunner, RunnerState
<1>3. /\ \A r \in Runs : row[r] = NoRun /\ runner[r] = NoRunner /\ monitor[r] = "none"
      /\ puts = {} /\ \A t \in Targets : knob[t] = None
  BY DEF Init
<1>4. TypeOK
  BY <1>1, <1>2, TargetsAssumption DEF Init, TypeOK
<1>5. RunInv
  BY <1>1, <1>2, <1>3 DEF RunInv
<1>6. ResultInv
  BY <1>1, <1>2, <1>3 DEF ResultInv, ResultIsOwn
<1>7. FaultInv
  BY <1>3, RunsAssumption DEF FaultInv
<1> QED BY <1>4, <1>5, <1>6, <1>7 DEF BenchInv

LEMMA BenchStep == BenchInv /\ [Next]_vars => BenchInv'
<1> SUFFICES ASSUME BenchInv, [Next]_vars PROVE BenchInv'
  OBVIOUS
<1>1. ASSUME NEW r \in Runs, NEW s \in Scenarios, Start(r, s) \/ RunByHand(r, s)
      PROVE  BenchInv'
  BY <1>1, ApiInv, LaunchesInv
<1>2. ASSUME NEW r \in Runs, ApiStep(r)
      PROVE  BenchInv'
  <2>1. PICK s \in Scenarios : TRUE
    BY <1>2 DEF ApiStep, Spawn, SpawnFails, Monitor, BenchInv, RunInv
  <2> QED BY <1>2, ApiInv, LaunchesInv DEF ApiStep
<1>3. ASSUME NEW r \in Runs, RunnerStep(r) \/ Kill(r)
      PROVE  BenchInv'
  BY <1>3, StepInv, WorkInv, WriteReportInv DEF RunnerStep
<1>4. ASSUME NEW m \in puts, PutFaultInjection(m) \/ LosePut(m)
      PROVE  BenchInv'
  BY <1>4, PutInv, ContainerInv
<1>5. ASSUME NEW t \in Targets, ServingRestart(t)
      PROVE  BenchInv'
  BY <1>5, ContainerInv
<1>6. CASE BackendRestart
  <2>1. UNCHANGED <<row, runner, puts, knob, report, unclean>>
        /\ \A q \in Runs : monitor'[q] = "none"
    BY <1>6 DEF BackendRestart
  <2>2. TypeOK'
    BY <1>6, <2>1 DEF BackendRestart, BenchInv, TypeOK
  <2>3. RunInv' /\ ResultInv' /\ FaultInv'
    BY <2>1 DEF BenchInv, RunInv, ResultInv, ResultIsOwn, FaultInv
  <2> QED BY <2>2, <2>3 DEF BenchInv
<1>7. CASE UNCHANGED vars
  BY <1>7 DEF vars, BenchInv, TypeOK, RunInv, ResultInv, ResultIsOwn, FaultInv
<1> QED BY <1>1, <1>2, <1>3, <1>4, <1>5, <1>6, <1>7 DEF Next

LEMMA BenchInvariant == Spec => []BenchInv
  BY BenchInit, BenchStep, PTL DEF Spec

\* Every reachable state is type correct: rows, monitors, runners, PUTs, knobs and
\* reports, and no container in production ever injects a fault.
THEOREM BenchmarksTypeCorrect == Spec => []TypeOK
<1>1. BenchInv => TypeOK
  BY DEF BenchInv
<1> QED BY <1>1, BenchInvariant, PTL

\* RESULTS_DIR/<scenario>.json is overwritten by every run of the scenario: what
\* _monitor_run stores as the result of a completed run is still the run's own report,
\* unless somebody ran the scenario by hand in between or the file was half written.
THEOREM ResultIsOwnTheorem == Spec => []ResultIsOwn
<1>1. BenchInv => ResultIsOwn
  BY DEF BenchInv, ResultInv
<1> QED BY <1>1, BenchInvariant, PTL

\* A fault that a container injects is that of a run still at work, or its reset is on
\* its way, or its runner was killed or one of its PUTs went unanswered.
THEOREM FaultsConfinedTheorem == Spec => []FaultsConfined
<1>1. BenchInv => FaultsConfined
  BY DEF BenchInv, FaultInv, FaultsConfined, Injecting
<1> QED BY <1>1, BenchInvariant, PTL

\* start_benchmark_run, _monitor_run and a restart of the backend, whatever the
\* runners do: at most one run in progress, started once, ended at most once.
THEOREM OneAtATimeTheorem == Spec => OneAtATime
<1> DEFINE status == [r \in Runs |-> row[r].status]
<1>1. Init => Api!RunsInit
  BY DEF Init, NoRun, Api!RunsInit
<1>2. BenchInv /\ [Next]_vars => [Api!RunsNext]_status
  <2> SUFFICES ASSUME BenchInv, [Next]_vars
               PROVE  Api!RunsNext \/ status' = status
    OBVIOUS
  <2>1. CASE row' = row
    BY <2>1
  <2>2. ASSUME NEW r \in Runs, NEW s \in Scenarios, Start(r, s)
        PROVE  Api!RunsNext
    <3> DEFINE x == [status |-> "RUNNING", s |-> s, result |-> None]
    <3>1. row' = [row EXCEPT ![r] = x] /\ x.status = "RUNNING"
      BY <2>2 DEF Start
    <3> HIDE DEF x
    <3>2. status' = [status EXCEPT ![r] = "RUNNING"]
      BY <3>1 DEF BenchInv, TypeOK
    <3>3. status[r] = "ABSENT" /\ Api!Running = {}
      BY <2>2 DEF Start, NoneRunning, Api!Running
    <3> QED BY <3>2, <3>3 DEF Api!RunsNext, Api!BeginRun
  <2>3. ASSUME NEW r \in Runs, Monitor(r)
        PROVE  Api!RunsNext
    <3>1. status[r] = "RUNNING" /\ row[r] \in RowState
      BY <2>3 DEF Monitor, BenchInv, RunInv, TypeOK
    <3>2. PICK x : row' = [row EXCEPT ![r] = x] /\ x \in Outcome(r)
      BY <2>3 DEF Monitor
    <3>3. x.status \in {"COMPLETED", "FAILED"}
      <4>1. \A found : [row[r] EXCEPT !.status = "COMPLETED", !.result = found].status
                         = "COMPLETED"
        BY <3>1, SMT DEF RowState
      <4>2. [row[r] EXCEPT !.status = "FAILED"].status = "FAILED"
        BY <3>1, SMT DEF RowState
      <4> QED BY <3>2, <4>1, <4>2 DEF Outcome
    <3>4. status' = [status EXCEPT ![r] = x.status]
      BY <3>2 DEF BenchInv, TypeOK
    <3> QED BY <3>1, <3>3, <3>4 DEF Api!RunsNext, Api!EndRun
  <2>4. CASE Next
    <3>1. ASSUME row' # row
          PROVE  \/ \E r \in Runs, s \in Scenarios : Start(r, s)
                 \/ \E r \in Runs : Monitor(r)
      BY <2>4, <3>1 DEF Next, RunByHand, ApiStep, Spawn, SpawnFails, RunnerStep, Enter,
           SetTimesOut, Work, ClearTimesOut, WriteReport, Kill, PutFaultInjection, LosePut,
           ServingRestart, BackendRestart
    <3> QED BY <2>1, <2>2, <2>3, <3>1
  <2>5. CASE UNCHANGED vars
    BY <2>1, <2>5 DEF vars
  <2> QED BY <2>4, <2>5
<1> QED BY <1>1, <1>2, BenchInvariant, PTL DEF Spec, OneAtATime, Api!RunsSpec
=============================================================================
