---------------------------- MODULE GroundTruth ----------------------------
(***************************************************************************)
(* What a label feeder is promised: the true outcome of a prediction is    *)
(* decided once, by one of the reports made of it; a report is accepted    *)
(* only if it agrees with the outcome, refused only if it contradicts it.  *)
(* Telemetry is shown to implement this specification.                     *)
(***************************************************************************)
EXTENDS Integers

CONSTANTS Predictions, Feeders,
          Undecided   \* no outcome yet; neither 0 nor 1

VARIABLES truth,    \* the outcome of each prediction
          report    \* what each feeder last reported, with its answer

truthvars == <<truth, report>>

NoReport == [open |-> FALSE, accepted |-> FALSE, pid |-> {}, actual |-> Undecided]

TruthInit ==
  /\ truth = [p \in Predictions |-> Undecided]
  /\ report = [f \in Feeders |-> NoReport]

Answered(r, accepted) ==
  [open |-> FALSE, accepted |-> accepted, pid |-> r.pid, actual |-> r.actual]

\* pid holds the one prediction the report is about.
Ask(f, p, a) ==
  /\ ~report[f].open
  /\ report' = [report EXCEPT ![f] =
       [open |-> TRUE, accepted |-> FALSE, pid |-> {p}, actual |-> a]]
  /\ UNCHANGED truth

Decide(f, p) ==
  /\ report[f].open
  /\ report[f].pid = {p}
  /\ truth[p] = Undecided
  /\ truth' = [truth EXCEPT ![p] = report[f].actual]
  /\ UNCHANGED report

Accept(f, p) ==
  /\ report[f].open
  /\ report[f].pid = {p}
  /\ truth[p] = report[f].actual
  /\ report' = [report EXCEPT ![f] = Answered(@, TRUE)]
  /\ UNCHANGED truth

Refuse(f, p) ==
  /\ report[f].open
  /\ report[f].pid = {p}
  /\ truth[p] \notin {Undecided, report[f].actual}
  /\ report' = [report EXCEPT ![f] = Answered(@, FALSE)]
  /\ UNCHANGED truth

\* Some reports are never answered.
Forget ==
  /\ report' \in [Feeders -> {NoReport}]
  /\ UNCHANGED truth

TruthNext ==
  \/ \E f \in Feeders, p \in Predictions, a \in {0, 1} : Ask(f, p, a)
  \/ \E f \in Feeders, p \in Predictions : Decide(f, p) \/ Accept(f, p) \/ Refuse(f, p)
  \/ Forget

TruthSpec == TruthInit /\ [][TruthNext]_truthvars
=============================================================================
