--------------------------- MODULE BenchmarkRuns ---------------------------
(***************************************************************************)
(* What the benchmark API promises of its runs, and all the dashboard      *)
(* relies on: one at a time, started once, ended once.  Benchmarks is      *)
(* shown to implement this specification, BenchmarksPage builds on it.     *)
(***************************************************************************)
CONSTANTS Runs,   \* ids of benchmark_runs
          Ends    \* the terminal statuses worth telling apart

ASSUME EndsAssumption == Ends \subseteq {"COMPLETED", "FAILED"}

VARIABLE status   \* of each run; ABSENT: not inserted yet

Ended(s) == s \in Ends

Running == {r \in Runs : status[r] = "RUNNING"}

RunsInit == status = [r \in Runs |-> "ABSENT"]

BeginRun(r) ==
  /\ Running = {}
  /\ status[r] = "ABSENT"
  /\ status' = [status EXCEPT ![r] = "RUNNING"]

EndRun(r, s) ==
  /\ status[r] = "RUNNING"
  /\ status' = [status EXCEPT ![r] = s]

RunsNext ==
  \E r \in Runs : BeginRun(r) \/ \E s \in Ends : EndRun(r, s)

RunsSpec == RunsInit /\ [][RunsNext]_status
=============================================================================
