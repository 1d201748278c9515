---------------------------- MODULE PolicyEngine ----------------------------
(***************************************************************************)
(* policy/engine.py: the checks of one evaluation and the verdict they add *)
(* up to.  Thresholds are whole percent; a comparison of a rate with a     *)
(* threshold is multiplied out, so it is exact at the boundary.            *)
(***************************************************************************)
EXTENDS Metrics

PolicyConfig ==
  [minimum_requests: Nat, p95_max_increase_percent: Nat, max_error_rate_percent: Nat,
   minimum_labeled_samples: Nat, minimum_label_coverage: 0..100,
   minimum_positive_labels: Nat, minimum_recall: 0..100]

Results == {"PASS", "FAIL", "INCONCLUSIVE"}

Check(policy, result) == [policy |-> policy, result |-> result]

\* A gate asks whether there is enough data, and never fails.
Gate(policy, open) == Check(policy, IF open THEN "PASS" ELSE "INCONCLUSIVE")

minimum_requests(stable, canary, config) ==
  Gate("minimum_requests",
       stable.samples >= config.minimum_requests /\ canary.samples >= config.minimum_requests)

\* "not stable.p95_latency_ms" is true of None and of 0.
latency_p95_increase(stable, canary, config) ==
  Check("latency_p95_increase",
    CASE stable.p95 \in {Missing, 0} \/ canary.p95 = Missing -> "INCONCLUSIVE"
      [] OTHER ->
           IF (canary.p95 - stable.p95) * 100 > config.p95_max_increase_percent * stable.p95
           THEN "FAIL" ELSE "PASS")

max_error_rate(canary, config) ==
  Check("max_error_rate",
    CASE canary.samples = 0 -> "INCONCLUSIVE"
      [] OTHER -> IF canary.errors * 100 > config.max_error_rate_percent * canary.samples
                  THEN "FAIL" ELSE "PASS")

quality_gates(quality, config) ==
  {Gate("minimum_labeled_samples", quality.labeled >= config.minimum_labeled_samples),
   Gate("minimum_label_coverage",
        /\ quality.samples # 0
        /\ quality.labeled * 100 >= config.minimum_label_coverage * quality.samples),
   Gate("minimum_positive_labels", Positives(quality) >= config.minimum_positive_labels)}

minimum_recall(quality, config) ==
  Check("minimum_recall",
    CASE Positives(quality) = 0 -> "INCONCLUSIVE"
      [] OTHER -> IF quality.tp * 100 < config.minimum_recall * Positives(quality)
                  THEN "FAIL" ELSE "PASS")

\* Mutant: recall is looked at although a gate is closed.
evaluate_quality_policies_mutant(quality, config) ==
  quality_gates(quality, config) \cup {minimum_recall(quality, config)}

evaluate_quality_policies(quality, config) ==
  LET gates == quality_gates(quality, config)
  IN IF \E c \in gates : c.result # "PASS" THEN gates
     ELSE gates \cup {minimum_recall(quality, config)}

evaluate_policies(stable, canary, quality, config) ==
  LET requests == minimum_requests(stable, canary, config)
  IN IF requests.result # "PASS" THEN {requests}
     ELSE {requests, latency_p95_increase(stable, canary, config),
           max_error_rate(canary, config)} \cup evaluate_quality_policies(quality, config)

\* Mutants: the majority wins over an inconclusive check; no data is bad data.
overall_result_lenient(checks) ==
  IF \E c \in checks : c.result = "FAIL" THEN "FAIL"
  ELSE IF \E c \in checks : c.result = "PASS" THEN "PASS" ELSE "INCONCLUSIVE"
overall_result_strict(checks) ==
  IF \E c \in checks : c.result # "PASS" THEN "FAIL" ELSE "PASS"

\* FAIL beats INCONCLUSIVE beats PASS.
overall_result(checks) ==
  IF \E c \in checks : c.result = "FAIL" THEN "FAIL"
  ELSE IF \E c \in checks : c.result = "INCONCLUSIVE" THEN "INCONCLUSIVE" ELSE "PASS"

-----------------------------------------------------------------------------
(***************************************************************************)
(* What the verdict should be, said of the data instead of the checks.     *)
(***************************************************************************)
EnoughTraffic(stable, canary, config) ==
  \A s \in {stable, canary} : s.samples >= config.minimum_requests

Comparable(stable, canary) == stable.p95 > 0 /\ canary.p95 >= 0

EnoughLabels(quality, config) ==
  /\ quality.samples > 0
  /\ quality.labeled >= config.minimum_labeled_samples
  /\ quality.labeled * 100 >= config.minimum_label_coverage * quality.samples
  /\ Positives(quality) >= config.minimum_positive_labels

Slower(stable, canary, config) ==
  /\ stable.p95 > 0
  /\ canary.p95 * 100 > (100 + config.p95_max_increase_percent) * stable.p95

Flaky(canary, config) ==
  canary.samples > 0 /\ canary.errors * 100 > config.max_error_rate_percent * canary.samples

Misses(quality, config) ==
  Positives(quality) > 0 /\ quality.tp * 100 < config.minimum_recall * Positives(quality)

\* Harm needs evidence, and so does health: a rollout fails only on enough traffic
\* and a figure that was measured, and passes only if all of them were.
Verdict(stable, canary, quality, config) ==
  LET harm == \/ Slower(stable, canary, config)
              \/ Flaky(canary, config)
              \/ EnoughLabels(quality, config) /\ Misses(quality, config)
      measured == /\ Comparable(stable, canary)
                  /\ canary.samples > 0
                  /\ EnoughLabels(quality, config)
                  /\ Positives(quality) > 0
  IN CASE ~EnoughTraffic(stable, canary, config) -> "INCONCLUSIVE"
       [] EnoughTraffic(stable, canary, config) /\ harm -> "FAIL"
       [] EnoughTraffic(stable, canary, config) /\ ~harm ->
            IF measured THEN "PASS" ELSE "INCONCLUSIVE"
=============================================================================
