------------------------------ MODULE Metrics ------------------------------
(***************************************************************************)
(* What compute_version_summary makes of the prediction metrics of one     *)
(* version and window, joined with their labels.  A row is a record with   *)
(* at least the fields latency, status, prediction and label; whatever     *)
(* else it holds keeps rows apart.  Rates stay pairs of counts: error_rate *)
(* is errors / samples, label_coverage labeled / samples, recall           *)
(* tp / (tp + fn), each None when its denominator is 0.                    *)
(***************************************************************************)
EXTENDS Integers, FiniteSets

\* SQL NULL in an integer column, and Python's None for a missing figure.
Missing == -1

Summary == [samples: Nat, p95: Nat \cup {Missing}, errors: Nat, labeled: Nat,
            tp: Nat, fp: Nat, fn: Nat, tn: Nat]

\* The k-th smallest latency, from 0.
OrderStatistic(rows, k) ==
  CHOOSE v \in {r.latency : r \in rows} :
    /\ Cardinality({r \in rows : r.latency < v}) <= k
    /\ Cardinality({r \in rows : r.latency <= v}) > k

\* Mutant: the two neighbours' shares swapped.
Interpolated_mutant(low, high, share) == low * share + high * (100 - share)

Interpolated(low, high, share) == low * (100 - share) + high * share

\* _percentile, in hundredths of a unit: it interpolates between two neighbours.
Percentile(rows, pct) ==
  LET k == (Cardinality(rows) - 1) * pct
      f == k \div 100
  IN IF k % 100 = 0 THEN 100 * OrderStatistic(rows, f)
     ELSE Interpolated(OrderStatistic(rows, f), OrderStatistic(rows, f + 1), k % 100)

\* A labelled row without a prediction (an error answer) counts as labelled only.
Outcomes(rows, p, a) == Cardinality({r \in rows : r.prediction = p /\ r.label = a})

Summarize(rows) ==
  [samples |-> Cardinality(rows),
   p95     |-> IF rows = {} THEN Missing ELSE Percentile(rows, 95),
   errors  |-> Cardinality({r \in rows : r.status >= 400}),
   labeled |-> Cardinality({r \in rows : r.label # Missing}),
   tp |-> Outcomes(rows, 1, 1), fp |-> Outcomes(rows, 1, 0),
   fn |-> Outcomes(rows, 0, 1), tn |-> Outcomes(rows, 0, 0)]

\* positive_label_count
Positives(s) == s.tp + s.fn
=============================================================================
