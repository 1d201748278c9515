---------------------------- MODULE MCEvaluation ----------------------------
(* Evaluation for TLC: policies and rows small enough to meet every boundary. *)
EXTENDS Evaluation

Policy == [minimum_requests |-> 1, p95_max_increase_percent |-> 95,
           max_error_rate_percent |-> 50, minimum_labeled_samples |-> 1,
           minimum_label_coverage |-> 60, minimum_positive_labels |-> 1,
           minimum_recall |-> 60]

Reply(latency, status, prediction, truth) ==
  [latency |-> latency, status |-> status, prediction |-> prediction, truth |-> truth]

Good == Reply(2, 200, 1, 1)

Pair(canary) == [stable |-> {Good}, canary |-> {canary}]

\* A quiet tick, or one answer of each side; the canary's is good, fails slowly or
\* misses a positive.
Ticks == {[stable |-> {}, canary |-> {}], Pair(Good),
          Pair(Reply(4, 500, Missing, 0)), Pair(Reply(2, 200, 0, 1))}
=============================================================================
