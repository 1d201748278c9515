-------------------------- MODULE EvaluationProofs --------------------------
(***************************************************************************)
(* Proofs about Evaluation and the operators it is built from: the         *)
(* percentiles of any set of rows, the verdict of any policy on any        *)
(* windows, and what the actions of the worker rest on, for every          *)
(* workload, window, maturity and policy.                                  *)
(***************************************************************************)
EXTENDS Evaluation, RolloutsProofs, FiniteSetTheorems

-----------------------------------------------------------------------------
(***************************************************************************)
(* Counting rows.                                                          *)
(***************************************************************************)

\* A set enumerated by a finite one is finite.
LEMMA FiniteImage ==
  ASSUME NEW S, IsFiniteSet(S), NEW f, f = [x \in S |-> f[x]]
  PROVE  IsFiniteSet({f[x] : x \in S})
<1> DEFINE T == {f[x] : x \in S}
<1>1. f \in Surjection(S, T)
  BY DEF Surjection
<1> HIDE DEF T
<1> QED BY <1>1, FS_Surjection DEF T

\* A part of the rows can be counted.
LEMMA Countable ==
  ASSUME NEW rs, IsFiniteSet(rs), NEW part, part \subseteq rs
  PROVE  /\ IsFiniteSet(part) /\ Cardinality(part) \in Nat
         /\ part = {} <=> Cardinality(part) = 0
<1>1. IsFiniteSet(part)
  BY FS_Subset
<1> QED BY <1>1, FS_CardinalityType, FS_EmptySet

\* Sets of naturals have a least element.
LEMMA LeastNat ==
  ASSUME NEW T, T \subseteq Nat, T # {}
  PROVE  \E x \in T : \A y \in T : x <= y
<1> DEFINE R == OpToRel(<, Nat)
<1>1. IsWellFoundedOn(R, Nat)
  BY NatLessThanWellFounded
<1>2. \A x, y \in Nat : <<x, y>> \in R <=> x < y
  BY DEF OpToRel
<1> HIDE DEF R
<1>3. PICK x \in T : \A y \in T : ~(<<y, x>> \in R)
  BY <1>1, WFMin
<1>4. ASSUME NEW y \in T
      PROVE  x <= y
  <2>1. x \in Nat /\ y \in Nat
    OBVIOUS
  <2>2. ~(y < x)
    BY <1>2, <1>3, <2>1
  <2> QED BY <2>1, <2>2
<1> QED BY <1>4

\* Finitely many rs, each with a latency.
Timed(rs) == IsFiniteSet(rs) /\ \A r \in rs : r.latency \in Nat

\* The rows that are faster, and those that are not slower, than v.
Below(rs, v) == {r \in rs : r.latency < v}
UpTo(rs, v) == {r \in rs : r.latency <= v}

\* Both can be counted.
LEMMA RowCounts ==
  ASSUME NEW rs, Timed(rs), NEW v
  PROVE  /\ Cardinality(rs) \in Nat
         /\ IsFiniteSet(Below(rs, v)) /\ IsFiniteSet(UpTo(rs, v))
         /\ Cardinality(Below(rs, v)) \in Nat /\ Cardinality(UpTo(rs, v)) \in Nat
         /\ Cardinality(UpTo(rs, v)) <= Cardinality(rs)
<1>1. Below(rs, v) \in SUBSET rs /\ UpTo(rs, v) \in SUBSET rs
  BY DEF Below, UpTo
<1>2. IsFiniteSet(rs)
  BY DEF Timed
<1>3. IsFiniteSet(Below(rs, v)) /\ IsFiniteSet(UpTo(rs, v))
      /\ Cardinality(UpTo(rs, v)) <= Cardinality(rs)
  BY <1>1, <1>2, FS_Subset
<1> QED BY <1>2, <1>3, FS_CardinalityType

\* One of them is the slowest.
LEMMA Slowest ==
  ASSUME NEW rs, Timed(rs), rs # {}
  PROVE  \E m \in rs : \A r \in rs : r.latency <= m.latency
<1> DEFINE n == Cardinality(rs)
           Rest(r) == n - Cardinality(UpTo(rs, r.latency))
           T == {Rest(r) : r \in rs}
<1>1. \A r \in rs : /\ n \in Nat /\ Rest(r) \in Nat /\ r.latency \in Nat
                      /\ Cardinality(UpTo(rs, r.latency)) \in Nat
                      /\ IsFiniteSet(UpTo(rs, r.latency))
  BY RowCounts DEF Timed
<1>2. T \subseteq Nat /\ T # {}
  BY <1>1
<1> HIDE DEF T
<1>3. PICK x \in T : \A y \in T : x <= y
  BY <1>2, LeastNat
<1>4. PICK m \in rs : x = Rest(m)
  BY <1>3 DEF T
<1>5. ASSUME NEW r \in rs, m.latency < r.latency
      PROVE  FALSE
  <2> DEFINE A == UpTo(rs, m.latency)
             B == UpTo(rs, r.latency)
  <2>1. A \in SUBSET B
    BY <1>5 DEF UpTo, Timed
  <2>2. A # B
    <3>1. r \in B /\ r \notin A
      BY <1>5 DEF UpTo, Timed
    <3> QED BY <3>1
  <2>3. IsFiniteSet(B) /\ Cardinality(A) \in Nat /\ Cardinality(B) \in Nat
    BY <1>1
  <2> HIDE DEF A, B
  <2>4. Cardinality(A) < Cardinality(B)
    BY <2>1, <2>2, <2>3, FS_Subset
  <2>5. Rest(m) <= Rest(r)
    BY <1>3, <1>4 DEF T
  <2> QED BY <1>1, <2>3, <2>4, <2>5 DEF A, B
<1> QED BY <1>1, <1>5

\* The k-th smallest latency exists: at most k rs are faster, and more than k are
\* not slower.
LEMMA OrderStatisticExists ==
  ASSUME NEW rs, Timed(rs), NEW k \in Nat, k < Cardinality(rs)
  PROVE  LET v == OrderStatistic(rs, k) IN
         /\ v \in Nat /\ \E r \in rs : r.latency = v
         /\ Cardinality(Below(rs, v)) <= k
         /\ Cardinality(UpTo(rs, v)) > k
<1> DEFINE W == {v \in Nat : /\ \E r \in rs : r.latency = v
                             /\ Cardinality(UpTo(rs, v)) > k}
<1>1. rs # {}
  <2>1. rs = {} => Cardinality(rs) = 0
    BY FS_EmptySet
  <2> QED BY <2>1
<1>2. W # {}
  <2>1. PICK m \in rs : \A r \in rs : r.latency <= m.latency
    BY <1>1, Slowest
  <2>2. UpTo(rs, m.latency) = rs
    BY <2>1 DEF UpTo
  <2>3. m.latency \in W
    BY <2>2 DEF Timed
  <2> QED BY <2>3
<1>3. PICK v \in W : \A u \in W : v <= u
  <2>1. W \subseteq Nat
    OBVIOUS
  <2> HIDE DEF W
  <2> QED BY <1>2, <2>1, LeastNat
<1>4. Cardinality(Below(rs, v)) <= k
  <2> SUFFICES ASSUME ~(Cardinality(Below(rs, v)) <= k) PROVE FALSE
    OBVIOUS
  <2> DEFINE B == Below(rs, v)
  <2>1. Timed(B) /\ Cardinality(B) \in Nat
    BY RowCounts DEF Timed, Below
  <2>2. B # {}
    <3>1. B = {} => Cardinality(B) = 0
      BY FS_EmptySet
    <3> QED BY <2>1, <3>1
  <2>3. PICK m \in B : \A r \in B : r.latency <= m.latency
    <3> HIDE DEF B
    <3> QED BY <2>1, <2>2, Slowest
  <2>4. m \in rs /\ m.latency \in Nat /\ m.latency < v
    BY DEF Below, Timed
  <2>5. UpTo(rs, m.latency) = B
    <3>1. \A r \in rs : r.latency <= m.latency <=> r.latency < v
      BY <2>3, <2>4 DEF Below, Timed
    <3> QED BY <3>1 DEF UpTo, Below
  <2>6. m.latency \in W
    BY <2>1, <2>4, <2>5
  <2>7. v \in Nat /\ v <= m.latency
    BY <1>3, <2>6
  <2> QED BY <2>4, <2>7
<1>5. OrderStatistic(rs, k) =
        CHOOSE u \in {r.latency : r \in rs} :
          Cardinality(Below(rs, u)) <= k /\ Cardinality(UpTo(rs, u)) > k
  BY DEF OrderStatistic, Below, UpTo
<1>6. v \in {r.latency : r \in rs} /\ Cardinality(UpTo(rs, v)) > k
  OBVIOUS
<1>7. \E u \in {r.latency : r \in rs} :
          Cardinality(Below(rs, u)) <= k /\ Cardinality(UpTo(rs, u)) > k
  BY <1>4, <1>6
<1> HIDE DEF W
<1>8. /\ OrderStatistic(rs, k) \in {r.latency : r \in rs}
      /\ Cardinality(Below(rs, OrderStatistic(rs, k))) <= k
      /\ Cardinality(UpTo(rs, OrderStatistic(rs, k))) > k
  BY <1>5, <1>7
<1> QED BY <1>8 DEF Timed

\* A larger k never finds a smaller latency: ties, gaps and all.
LEMMA OrderStatisticMonotone ==
  ASSUME NEW rs, Timed(rs), NEW j \in Nat, NEW k \in Nat,
         j <= k, k < Cardinality(rs)
  PROVE  OrderStatistic(rs, j) <= OrderStatistic(rs, k)
<1> DEFINE v == OrderStatistic(rs, j)
           w == OrderStatistic(rs, k)
<1>0. Cardinality(rs) \in Nat
  BY RowCounts
<1>1. v \in Nat /\ Cardinality(Below(rs, v)) <= j
  BY <1>0, OrderStatisticExists
<1>2. w \in Nat /\ Cardinality(UpTo(rs, w)) > k
  BY OrderStatisticExists
<1> HIDE DEF v, w
<1>3. ASSUME w < v PROVE FALSE
  <2>1. UpTo(rs, w) \in SUBSET Below(rs, v)
    BY <1>1, <1>2, <1>3 DEF UpTo, Below, Timed
  <2>2. IsFiniteSet(Below(rs, v)) /\ Cardinality(Below(rs, v)) \in Nat
        /\ Cardinality(UpTo(rs, w)) \in Nat
    BY RowCounts
  <2>3. Cardinality(UpTo(rs, w)) <= Cardinality(Below(rs, v))
    BY <2>1, <2>2, FS_Subset
  <2> QED BY <1>1, <1>2, <2>2, <2>3
<1> QED BY <1>1, <1>2, <1>3 DEF v, w

-----------------------------------------------------------------------------
(***************************************************************************)
(* Percentiles.                                                            *)
(***************************************************************************)

\* The percentile at k hundredths of the distance between the fastest row and the slowest.
At(rs, k) ==
  IF k % 100 = 0 THEN 100 * OrderStatistic(rs, k \div 100)
  ELSE Interpolated(OrderStatistic(rs, k \div 100), OrderStatistic(rs, k \div 100 + 1),
                    k % 100)

\* The whole part and the share of a position in hundredths.
LEMMA Hundredths ==
  ASSUME NEW k \in Nat
  PROVE  /\ k \div 100 \in Nat /\ k % 100 \in 0..99
         /\ k = 100 * (k \div 100) + (k % 100)
  OBVIOUS

\* A share of the way from low to high, and a larger one.
LEMMA Interpolates ==
  ASSUME NEW low \in Nat, NEW high \in Nat, low <= high, NEW s \in 0..100
  PROVE  /\ Interpolated(low, high, s) \in Nat
         /\ 100 * low <= Interpolated(low, high, s)
         /\ Interpolated(low, high, s) <= 100 * high
         /\ \A t \in s..100 : Interpolated(low, high, s) <= Interpolated(low, high, t)
         /\ Interpolated(low, high, 0) = 100 * low
<1> DEFINE d == high - low
<1>1. d \in Nat
  OBVIOUS
<1>2. ASSUME NEW t \in 0..100
      PROVE  Interpolated(low, high, t) = 100 * low + d * t /\ d * t \in Nat
  BY DEF Interpolated
<1>3. ASSUME NEW t \in s..100
      PROVE  d * s <= d * t
  <2>1. PICK e \in Nat : t = s + e
    <3>1. t - s \in Nat /\ t = s + (t - s)
      OBVIOUS
    <3> QED BY <3>1
  <2> HIDE DEF d
  <2>2. d * (s + e) = d * s + d * e /\ d * e \in Nat /\ d * s \in Nat
    BY <1>1
  <2> QED BY <2>1, <2>2
<1>4. d * 0 = 0 /\ d * 100 = 100 * high - 100 * low
  OBVIOUS
<1>5. ASSUME NEW t \in s..100
      PROVE  Interpolated(low, high, s) <= Interpolated(low, high, t)
  <2>1. t \in 0..100
    OBVIOUS
  <2> HIDE DEF d
  <2>2. /\ Interpolated(low, high, s) = 100 * low + d * s /\ d * s \in Nat
        /\ Interpolated(low, high, t) = 100 * low + d * t /\ d * t \in Nat
    BY <1>2, <2>1
  <2> QED BY <1>3, <2>2
<1>6. Interpolated(low, high, 0) = 100 * low /\ Interpolated(low, high, 100) = 100 * high
  BY DEF Interpolated
<1>7. Interpolated(low, high, s) = 100 * low + d * s /\ d * s \in Nat
  BY <1>2
<1> HIDE DEF d
<1>8. Interpolated(low, high, s) \in Nat /\ 100 * low <= Interpolated(low, high, s)
  BY <1>7
<1> QED BY <1>5, <1>6, <1>8

\* Where the percentile lies between its neighbours.
LEMMA Neighbours ==
  ASSUME NEW rs, Timed(rs), rs # {}, NEW k \in Nat,
         k <= 100 * (Cardinality(rs) - 1)
  PROVE  LET f == k \div 100
             n == Cardinality(rs)
         IN  /\ n \in Nat /\ f \in Nat /\ f <= n - 1
             /\ At(rs, k) \in Nat
             /\ 100 * OrderStatistic(rs, f) <= At(rs, k)
             /\ k % 100 = 0 => At(rs, k) = 100 * OrderStatistic(rs, f)
             /\ k % 100 # 0 => /\ f + 1 <= n - 1
                               /\ At(rs, k) <= 100 * OrderStatistic(rs, f + 1)
<1> DEFINE f == k \div 100
           n == Cardinality(rs)
           s == k % 100
<1>1. n \in Nat /\ f \in Nat /\ s \in 0..99 /\ k = 100 * f + s
  BY RowCounts, Hundredths
<1> HIDE DEF f, n, s
<1>2. k <= 100 * (n - 1)
  BY DEF n
<1>3. f <= n - 1 /\ (s # 0 => f + 1 <= n - 1)
  BY <1>1, <1>2
<1>4. OrderStatistic(rs, f) \in Nat
  BY <1>1, <1>3, OrderStatisticExists DEF n
<1>5. CASE s = 0
  <2>1. At(rs, k) = 100 * OrderStatistic(rs, f)
    BY <1>5 DEF At, f, s
  <2> QED BY <1>1, <1>3, <1>4, <1>5, <2>1 DEF f, n, s
<1>6. CASE s # 0
  <2> DEFINE low == OrderStatistic(rs, f)
             high == OrderStatistic(rs, f + 1)
  <2>1. At(rs, k) = Interpolated(low, high, s)
    BY <1>6 DEF At, f, s
  <2>2. low \in Nat /\ high \in Nat /\ low <= high
    <3>1. f + 1 \in Nat /\ f + 1 < n
      BY <1>1, <1>3, <1>6
    <3> QED BY <1>1, <1>4, <3>1, OrderStatisticExists, OrderStatisticMonotone DEF n
  <2>3. s \in 0..100
    BY <1>1
  <2> HIDE DEF low, high
  <2>4. At(rs, k) \in Nat /\ 100 * low <= At(rs, k) /\ At(rs, k) <= 100 * high
    <3>1. /\ Interpolated(low, high, s) \in Nat
          /\ 100 * low <= Interpolated(low, high, s)
          /\ Interpolated(low, high, s) <= 100 * high
      BY <2>2, <2>3, Interpolates
    <3> QED BY <2>1, <3>1
  <2> QED BY <1>1, <1>3, <1>6, <2>4 DEF f, n, s, low, high
<1> QED BY <1>5, <1>6

\* The further, the slower.
LEMMA PercentileMonotone ==
  ASSUME NEW rs, Timed(rs), rs # {}, NEW j \in Nat, NEW k \in Nat, j <= k,
         k <= 100 * (Cardinality(rs) - 1)
  PROVE  At(rs, j) <= At(rs, k)
<1> DEFINE f == j \div 100
           g == k \div 100
           s == j % 100
           t == k % 100
           n == Cardinality(rs)
<1>1. /\ f \in Nat /\ s \in 0..99 /\ j = 100 * f + s
      /\ g \in Nat /\ t \in 0..99 /\ k = 100 * g + t
      /\ n \in Nat
  BY Hundredths, RowCounts
<1>2. j <= 100 * (n - 1) /\ k <= 100 * (n - 1)
  BY <1>1
<1>3. /\ g <= n - 1 /\ At(rs, k) \in Nat /\ 100 * OrderStatistic(rs, g) <= At(rs, k)
      /\ t # 0 => g + 1 <= n - 1
  BY <1>2, Neighbours
<1>4. /\ f <= n - 1 /\ At(rs, j) \in Nat
      /\ s = 0 => At(rs, j) = 100 * OrderStatistic(rs, f)
      /\ s # 0 => /\ f + 1 <= n - 1
                  /\ At(rs, j) <= 100 * OrderStatistic(rs, f + 1)
  BY <1>2, Neighbours
<1> HIDE DEF f, g, s, t, n
<1>5. f < g \/ (f = g /\ s <= t)
  BY <1>1
<1>6. \A i \in Nat : i <= n - 1 => OrderStatistic(rs, i) \in Nat
  BY <1>1, OrderStatisticExists DEF n
<1>7. \A h \in Nat : h <= g => OrderStatistic(rs, h) <= OrderStatistic(rs, g)
  <2>1. g < n
    BY <1>1, <1>3
  <2> QED BY <1>1, <2>1, OrderStatisticMonotone DEF n
<1>8. CASE f < g /\ s # 0
  <2>1. f + 1 \in Nat /\ f + 1 <= g /\ f + 1 <= n - 1
    BY <1>1, <1>4, <1>8
  <2>2. OrderStatistic(rs, f + 1) <= OrderStatistic(rs, g)
    BY <2>1, <1>7
  <2>3. OrderStatistic(rs, f + 1) \in Nat /\ OrderStatistic(rs, g) \in Nat
    BY <2>1, <1>1, <1>3, <1>6
  <2> QED BY <1>3, <1>4, <1>8, <2>2, <2>3
<1>9. CASE s = 0
  <2>1. OrderStatistic(rs, f) <= OrderStatistic(rs, g)
    BY <1>1, <1>5, <1>7
  <2>2. OrderStatistic(rs, f) \in Nat /\ OrderStatistic(rs, g) \in Nat
    BY <1>1, <1>3, <1>4, <1>6
  <2> QED BY <1>3, <1>4, <1>9, <2>1, <2>2
<1>10. CASE f = g /\ s <= t /\ s # 0
  <2> DEFINE low == OrderStatistic(rs, g)
             high == OrderStatistic(rs, g + 1)
  <2>1. t # 0 /\ g + 1 \in Nat /\ g + 1 <= n - 1
    BY <1>1, <1>3, <1>10
  <2>2. low \in Nat /\ high \in Nat
    BY <1>1, <1>3, <1>6, <2>1
  <2>3. low <= high
    <3>1. g + 1 < n
      BY <1>1, <2>1
    <3> QED BY <1>1, <2>1, <3>1, OrderStatisticMonotone DEF n
  <2>4. At(rs, j) = Interpolated(low, high, s) /\ At(rs, k) = Interpolated(low, high, t)
    BY <1>10, <2>1 DEF At, f, g, s, t
  <2>5. s \in 0..100 /\ t \in s..100
    BY <1>1, <1>10
  <2> HIDE DEF low, high
  <2>6. Interpolated(low, high, s) <= Interpolated(low, high, t)
    BY <2>2, <2>3, <2>5, Interpolates
  <2> QED BY <2>4, <2>6
<1> QED BY <1>5, <1>8, <1>9, <1>10

\* The ranks of the percentiles that are computed stay between the fastest and the
\* slowest row.
LEMMA Ranks ==
  ASSUME NEW n \in Nat, n > 0, NEW pct \in {50, 95, 99}
  PROVE  (n - 1) * pct \in Nat /\ (n - 1) * pct <= 100 * (n - 1)
<1>1. CASE pct = 50
  BY <1>1
<1>2. CASE pct = 95
  BY <1>2
<1>3. CASE pct = 99
  BY <1>3
<1> QED BY <1>1, <1>2, <1>3

\* The percentile of the code is the one at its rank.
LEMMA RankOf ==
  ASSUME NEW rs, Timed(rs), rs # {}, NEW pct \in {50, 95, 99}
  PROVE  LET k == (Cardinality(rs) - 1) * pct IN
         /\ Cardinality(rs) \in Nat /\ Cardinality(rs) > 0
         /\ k \in Nat /\ k <= 100 * (Cardinality(rs) - 1)
         /\ Percentile(rs, pct) = At(rs, k)
<1>1. Cardinality(rs) \in Nat /\ Cardinality(rs) > 0
  <2>1. Cardinality(rs) \in Nat /\ IsFiniteSet(rs)
    BY RowCounts DEF Timed
  <2>2. Cardinality(rs) # 0
    BY <2>1, FS_EmptySet
  <2> QED BY <2>1, <2>2
<1> QED BY <1>1, Ranks DEF Percentile, At

\* The percentiles lie within what was measured, ...
LEMMA PercentileMeasured ==
  ASSUME NEW rs, Timed(rs), rs # {}, NEW pct \in {50, 95, 99}
  PROVE  /\ Percentile(rs, pct) \in Nat
         /\ \E r \in rs : 100 * r.latency <= Percentile(rs, pct)
         /\ \E r \in rs : Percentile(rs, pct) <= 100 * r.latency
<1> DEFINE n == Cardinality(rs)
           k == (n - 1) * pct
           f == k \div 100
<1>1. /\ n \in Nat /\ n > 0 /\ k \in Nat /\ k <= 100 * (n - 1)
      /\ Percentile(rs, pct) = At(rs, k)
  BY RankOf
<1>2. /\ f \in Nat /\ f <= n - 1
      /\ At(rs, k) \in Nat
      /\ 100 * OrderStatistic(rs, f) <= At(rs, k)
      /\ k % 100 = 0 => At(rs, k) = 100 * OrderStatistic(rs, f)
      /\ k % 100 # 0 => /\ f + 1 <= n - 1
                        /\ At(rs, k) <= 100 * OrderStatistic(rs, f + 1)
  <2> HIDE DEF k
  <2> QED BY <1>1, Neighbours
<1> HIDE DEF k, f
<1>3. \A i \in Nat : i <= n - 1 =>
        \E r \in rs : r.latency = OrderStatistic(rs, i)
  <2> SUFFICES ASSUME NEW i \in Nat, i <= n - 1
               PROVE  \E r \in rs : r.latency = OrderStatistic(rs, i)
    OBVIOUS
  <2>1. i < n
    <3> HIDE DEF n
    <3> QED BY <1>1
  <2> QED BY <2>1, OrderStatisticExists
<1> HIDE DEF n
<1>4. PICK r \in rs : r.latency = OrderStatistic(rs, f)
  BY <1>2, <1>3
<1>5. CASE k % 100 = 0
  BY <1>1, <1>2, <1>4, <1>5 DEF Timed
<1>6. CASE k % 100 # 0
  <2>1. f + 1 \in Nat /\ f + 1 <= n - 1
    BY <1>2, <1>6
  <2>2. PICK q \in rs : q.latency = OrderStatistic(rs, f + 1)
    BY <1>3, <2>1
  <2> QED BY <1>1, <1>2, <1>4, <1>6, <2>2 DEF Timed
<1> QED BY <1>5, <1>6

\* ... and in order.
LEMMA PercentilesInOrder ==
  ASSUME NEW rs, Timed(rs), rs # {},
         NEW p \in {50, 95, 99}, NEW q \in {50, 95, 99}, p <= q
  PROVE  Percentile(rs, p) <= Percentile(rs, q)
<1> DEFINE n == Cardinality(rs)
<1>1. /\ n \in Nat /\ n > 0
      /\ (n - 1) * p \in Nat /\ (n - 1) * q \in Nat /\ (n - 1) * q <= 100 * (n - 1)
      /\ Percentile(rs, p) = At(rs, (n - 1) * p)
      /\ Percentile(rs, q) = At(rs, (n - 1) * q)
  BY RankOf
<1>2. (n - 1) * p <= (n - 1) * q
  <2> HIDE DEF n
  <2>1. CASE p = q
    BY <1>1, <2>1
  <2>2. CASE p = 50 /\ q = 95
    BY <1>1, <2>2
  <2>3. CASE p = 50 /\ q = 99
    BY <1>1, <2>3
  <2>4. CASE p = 95 /\ q = 99
    BY <1>1, <2>4
  <2> QED BY <2>1, <2>2, <2>3, <2>4
<1> DEFINE j == (n - 1) * p
           k == (n - 1) * q
<1> HIDE DEF j, k
<1>3. At(rs, j) <= At(rs, k)
  BY <1>1, <1>2, PercentileMonotone DEF j, k
<1> QED BY <1>1, <1>3 DEF j, k

-----------------------------------------------------------------------------
(***************************************************************************)
(* Summaries.                                                              *)
(***************************************************************************)

\* Whatever rows are summarised, the figures are figures.
LEMMA SummaryType ==
  ASSUME NEW rs, Timed(rs)
  PROVE  Summarize(rs) \in Summary
<1>1. IsFiniteSet(rs) /\ Cardinality(rs) \in Nat
  BY FS_CardinalityType DEF Timed
<1>2. (IF rs = {} THEN Missing ELSE Percentile(rs, 95)) \in Nat \cup {Missing}
  BY PercentileMeasured
<1>3. \A p, a : Outcomes(rs, p, a) \in Nat
  <2> SUFFICES ASSUME NEW p, NEW a PROVE Outcomes(rs, p, a) \in Nat
    OBVIOUS
  <2> DEFINE part == {r \in rs : r.prediction = p /\ r.label = a}
  <2>1. part \subseteq rs
    OBVIOUS
  <2> HIDE DEF part
  <2>2. Cardinality(part) \in Nat
    BY <1>1, <2>1, Countable
  <2> QED BY <2>2 DEF Outcomes, part
<1>4. Cardinality({r \in rs : r.status >= 400}) \in Nat
  <2> DEFINE part == {r \in rs : r.status >= 400}
  <2>1. part \subseteq rs
    OBVIOUS
  <2> HIDE DEF part
  <2>2. Cardinality(part) \in Nat
    BY <1>1, <2>1, Countable
  <2> QED BY <2>2 DEF part
<1>5. Cardinality({r \in rs : r.label # Missing}) \in Nat
  <2> DEFINE part == {r \in rs : r.label # Missing}
  <2>1. part \subseteq rs
    OBVIOUS
  <2> HIDE DEF part
  <2>2. Cardinality(part) \in Nat
    BY <1>1, <2>1, Countable
  <2> QED BY <2>2 DEF part
<1> DEFINE p95 == IF rs = {} THEN Missing ELSE Percentile(rs, 95)
           errors == Cardinality({r \in rs : r.status >= 400})
           labeled == Cardinality({r \in rs : r.label # Missing})
<1>6. Summarize(rs) =
        [samples |-> Cardinality(rs), p95 |-> p95, errors |-> errors, labeled |-> labeled,
         tp |-> Outcomes(rs, 1, 1), fp |-> Outcomes(rs, 1, 0),
         fn |-> Outcomes(rs, 0, 1), tn |-> Outcomes(rs, 0, 0)]
  BY DEF Summarize
<1>7. p95 \in Nat \cup {Missing} /\ errors \in Nat /\ labeled \in Nat
  BY <1>2, <1>4, <1>5
<1> HIDE DEF p95, errors, labeled
<1> QED BY <1>1, <1>3, <1>6, <1>7 DEF Summary

\* The figures the worker decides on.
LEMMA SummaryFields ==
  ASSUME NEW rs
  PROVE  /\ Summarize(rs).samples = Cardinality(rs)
         /\ Summarize(rs).p95 = IF rs = {} THEN Missing ELSE Percentile(rs, 95)
         /\ Summarize(rs).errors = Cardinality({r \in rs : r.status >= 400})
         /\ Summarize(rs).tp = Outcomes(rs, 1, 1)
         /\ Summarize(rs).fn = Outcomes(rs, 0, 1)
BY DEF Summarize

-----------------------------------------------------------------------------
(***************************************************************************)
(* The checks, one by one.                                                 *)
(***************************************************************************)

\* A product taken apart, so that the comparisons below stay linear.
LEMMA Distributes ==
  ASSUME NEW m \in Nat, NEW s \in Int
  PROVE  m * s \in Int /\ (100 + m) * s = 100 * s + m * s
OBVIOUS

\* The latency check fails exactly on a slower canary, and is inconclusive exactly
\* when there is nothing to compare.
LEMMA LatencyCheck ==
  ASSUME NEW stable \in Summary, NEW canary \in Summary, NEW config \in PolicyConfig
  PROVE  LET r == latency_p95_increase(stable, canary, config).result IN
         /\ r \in Results
         /\ r = "FAIL" <=> Slower(stable, canary, config)
         /\ r = "PASS" => Comparable(stable, canary)
         /\ r = "INCONCLUSIVE" <=> ~Comparable(stable, canary)
<1>1. /\ stable.p95 \in Int /\ stable.p95 >= -1
      /\ canary.p95 \in Int /\ canary.p95 >= -1
      /\ config.p95_max_increase_percent \in Nat
  BY DEF Summary, PolicyConfig, Missing
<1> DEFINE s == stable.p95
           c == canary.p95
           m == config.p95_max_increase_percent
<1>2. CASE s \in {Missing, 0} \/ c = Missing
  <2>1. latency_p95_increase(stable, canary, config).result = "INCONCLUSIVE"
    BY <1>2 DEF latency_p95_increase, Check
  <2>2. ~Comparable(stable, canary) /\ ~Slower(stable, canary, config)
    BY <1>1, <1>2 DEF Comparable, Slower, Missing
  <2> QED BY <2>1, <2>2 DEF Results
<1>3. CASE ~(s \in {Missing, 0} \/ c = Missing)
  <2>1. s > 0 /\ c >= 0
    BY <1>1, <1>3 DEF Missing
  <2>2. Comparable(stable, canary)
    BY <2>1 DEF Comparable
  <2>3. latency_p95_increase(stable, canary, config).result
          = IF (c - s) * 100 > m * s THEN "FAIL" ELSE "PASS"
    BY <1>3 DEF latency_p95_increase, Check
  <2>4. (c - s) * 100 > m * s <=> c * 100 > (100 + m) * s
    <3> DEFINE p == m * s
               q == (100 + m) * s
    <3>1. p \in Int /\ q = 100 * s + p
      BY <1>1, Distributes
    <3> HIDE DEF p, q
    <3>2. (c - s) * 100 > p <=> c * 100 > q
      BY <3>1, <1>1
    <3> QED BY <3>2 DEF p, q
  <2>5. Slower(stable, canary, config) <=> (c - s) * 100 > m * s
    BY <2>1, <2>4 DEF Slower
  <2> QED BY <2>2, <2>3, <2>5 DEF Results
<1> QED BY <1>2, <1>3

\* So do the error-rate check ...
LEMMA ErrorCheck ==
  ASSUME NEW canary \in Summary, NEW config \in PolicyConfig
  PROVE  LET r == max_error_rate(canary, config).result IN
         /\ r \in Results
         /\ r = "FAIL" <=> Flaky(canary, config)
         /\ r = "INCONCLUSIVE" <=> ~(canary.samples > 0)
<1>1. canary.samples # 0 <=> canary.samples > 0
  BY DEF Summary
<1> QED BY <1>1 DEF max_error_rate, Check, Flaky, Results

\* ... and the recall check.
LEMMA RecallCheck ==
  ASSUME NEW quality \in Summary, NEW config \in PolicyConfig
  PROVE  LET r == minimum_recall(quality, config).result IN
         /\ r \in Results
         /\ r = "FAIL" <=> Misses(quality, config)
         /\ r = "INCONCLUSIVE" <=> ~(Positives(quality) > 0)
<1>1. Positives(quality) \in Nat
  BY DEF Positives, Summary
<1> QED BY <1>1 DEF minimum_recall, Check, Misses, Results

\* The three gates are open together exactly when there are enough labels.
LEMMA Gates ==
  ASSUME NEW quality \in Summary, NEW config \in PolicyConfig
  PROVE  /\ \A c \in quality_gates(quality, config) : c.result \in {"PASS", "INCONCLUSIVE"}
         /\ (\A c \in quality_gates(quality, config) : c.result = "PASS")
              <=> EnoughLabels(quality, config)
<1> DEFINE enough  == quality.labeled >= config.minimum_labeled_samples
           covered == /\ quality.samples # 0
                      /\ quality.labeled * 100
                           >= config.minimum_label_coverage * quality.samples
           seen    == Positives(quality) >= config.minimum_positive_labels
           g1 == Gate("minimum_labeled_samples", enough)
           g2 == Gate("minimum_label_coverage", covered)
           g3 == Gate("minimum_positive_labels", seen)
<1>1. quality_gates(quality, config) = {g1, g2, g3}
  BY DEF quality_gates
<1>2. /\ g1.result = IF enough THEN "PASS" ELSE "INCONCLUSIVE"
      /\ g2.result = IF covered THEN "PASS" ELSE "INCONCLUSIVE"
      /\ g3.result = IF seen THEN "PASS" ELSE "INCONCLUSIVE"
  BY DEF Gate, Check
<1>3. EnoughLabels(quality, config) <=> enough /\ covered /\ seen
  BY DEF EnoughLabels, Summary
<1> HIDE DEF enough, covered, seen, g1, g2, g3
<1> QED BY <1>1, <1>2, <1>3

\* overall_result in terms of the results present.
LEMMA Overall ==
  ASSUME NEW checks, \A c \in checks : c.result \in Results
  PROVE  /\ overall_result(checks) = "FAIL" <=> \E c \in checks : c.result = "FAIL"
         /\ overall_result(checks) = "PASS" <=> \A c \in checks : c.result = "PASS"
         /\ overall_result(checks) \in Results
BY DEF overall_result, Results

\* For every pair of windows, every quality window and every policy, the verdict of
\* the engine - gates, early return, precedence and all - is the one the data
\* deserve: harm and health are both found on evidence only.
THEOREM VerdictTheorem ==
  ASSUME NEW stable \in Summary, NEW canary \in Summary, NEW quality \in Summary,
         NEW config \in PolicyConfig
  PROVE  overall_result(evaluate_policies(stable, canary, quality, config))
           = Verdict(stable, canary, quality, config)
<1> DEFINE requests == minimum_requests(stable, canary, config)
           latency  == latency_p95_increase(stable, canary, config)
           errors   == max_error_rate(canary, config)
           recall   == minimum_recall(quality, config)
           gates    == quality_gates(quality, config)
           checks   == evaluate_policies(stable, canary, quality, config)
<1>1. requests.result = IF EnoughTraffic(stable, canary, config)
                        THEN "PASS" ELSE "INCONCLUSIVE"
  BY DEF minimum_requests, Gate, Check, EnoughTraffic
<1>2. CASE ~EnoughTraffic(stable, canary, config)
  <2>1. checks = {requests}
    BY <1>1, <1>2 DEF evaluate_policies
  <2>2. overall_result(checks) = "INCONCLUSIVE"
    BY <2>1, <1>1, <1>2 DEF overall_result
  <2>3. Verdict(stable, canary, quality, config) = "INCONCLUSIVE"
    BY <1>2 DEF Verdict
  <2> QED BY <2>2, <2>3
<1>3. CASE EnoughTraffic(stable, canary, config)
  <2> DEFINE harm == \/ Slower(stable, canary, config)
                     \/ Flaky(canary, config)
                     \/ EnoughLabels(quality, config) /\ Misses(quality, config)
             measured == /\ Comparable(stable, canary)
                         /\ canary.samples > 0
                         /\ EnoughLabels(quality, config)
                         /\ Positives(quality) > 0
  <2>1. Verdict(stable, canary, quality, config)
          = IF harm THEN "FAIL" ELSE IF measured THEN "PASS" ELSE "INCONCLUSIVE"
    BY <1>3 DEF Verdict
  <2>2. /\ latency.result \in Results
        /\ latency.result = "FAIL" <=> Slower(stable, canary, config)
        /\ latency.result = "INCONCLUSIVE" <=> ~Comparable(stable, canary)
    BY LatencyCheck
  <2>3. /\ errors.result \in Results
        /\ errors.result = "FAIL" <=> Flaky(canary, config)
        /\ errors.result = "INCONCLUSIVE" <=> ~(canary.samples > 0)
    BY ErrorCheck
  <2>4. /\ \A c \in gates : c.result \in {"PASS", "INCONCLUSIVE"}
        /\ (\A c \in gates : c.result = "PASS") <=> EnoughLabels(quality, config)
    BY Gates
  <2>5. /\ recall.result \in Results
        /\ recall.result = "FAIL" <=> Misses(quality, config)
        /\ recall.result = "INCONCLUSIVE" <=> ~(Positives(quality) > 0)
    BY RecallCheck
  <2>6. CASE EnoughLabels(quality, config)
    <3>1. checks = {requests, latency, errors} \cup (gates \cup {recall})
      BY <1>1, <1>3, <2>4, <2>6 DEF evaluate_policies, evaluate_quality_policies
    <3> HIDE DEF requests, latency, errors, gates, recall, checks
    <3>2. \A c \in checks : c.result \in Results
      BY <3>1, <1>1, <1>3, <2>2, <2>3, <2>4, <2>5 DEF Results
    <3>3. (\E c \in checks : c.result = "FAIL") <=> harm
      BY <3>1, <1>1, <1>3, <2>2, <2>3, <2>4, <2>5, <2>6
    <3>4. (\A c \in checks : c.result = "PASS") <=> measured /\ ~harm
      BY <3>1, <1>1, <1>3, <2>2, <2>3, <2>4, <2>5, <2>6 DEF Results
    <3> QED BY <2>1, <3>2, <3>3, <3>4, Overall DEF Results, checks
  <2>7. CASE ~EnoughLabels(quality, config)
    <3>1. checks = {requests, latency, errors} \cup gates
      BY <1>1, <1>3, <2>4, <2>7 DEF evaluate_policies, evaluate_quality_policies
    <3> HIDE DEF requests, latency, errors, gates, recall, checks
    <3>2. \A c \in checks : c.result \in Results
      BY <3>1, <1>1, <1>3, <2>2, <2>3, <2>4 DEF Results
    <3>3. (\E c \in checks : c.result = "FAIL") <=> harm
      BY <3>1, <1>1, <1>3, <2>2, <2>3, <2>4, <2>7
    <3>4. \E c \in checks : c.result # "PASS"
      BY <3>1, <2>4, <2>7
    <3> QED BY <2>1, <2>7, <3>2, <3>3, <3>4, Overall DEF Results, checks
  <2> QED BY <2>6, <2>7
<1> QED BY <1>2, <1>3

-----------------------------------------------------------------------------
(***************************************************************************)
(* Rows: they age, they are recorded, they find their label.               *)
(***************************************************************************)

\* A recorded row, field by field.
LEMMA RowFields ==
  ASSUME NEW side, NEW r \in PredictionRow(side)
  PROVE  /\ r.age \in 0..Oldest(side) /\ r.latency \in Nat /\ r.status \in Nat
         /\ r.prediction \in {Missing, 0, 1} /\ r.truth \in {0, 1}
         /\ r.label \in {Missing, r.truth}
BY DEF PredictionRow

\* Getting older changes nothing else, as long as a query still finds the row.
LEMMA AgedRow ==
  ASSUME NEW side \in Sides, NEW r \in PredictionRow(side), r.age < Oldest(side)
  PROVE  /\ Aged(r) \in PredictionRow(side)
         /\ Aged(r).latency = r.latency /\ Aged(r).status = r.status
         /\ Aged(r).prediction = r.prediction /\ Aged(r).truth = r.truth
         /\ Aged(r).label = r.label
<1>1. Oldest(side) \in Nat
  BY WindowAssumption DEF Oldest
<1>2. r.age + 1 \in 0..Oldest(side)
  BY <1>1, RowFields
<1> QED BY <1>2 DEF Aged, PredictionRow

\* What is recorded is the answer, without a label.
LEMMA RecordedRow ==
  ASSUME NEW side \in Sides, NEW a \in Answer
  PROVE  /\ Recorded(a) \in PredictionRow(side)
         /\ Recorded(a).latency = a.latency /\ Recorded(a).status = a.status
         /\ Recorded(a).prediction = a.prediction /\ Recorded(a).truth = a.truth
         /\ Recorded(a).label = Missing
<1>1. Oldest(side) \in Nat
  BY WindowAssumption DEF Oldest
<1>2. 0 \in 0..Oldest(side)
  BY <1>1
<1> QED BY <1>2 DEF Recorded, PredictionRow, Answer

\* A tick only leaves rows that got older and rows it brought.
LEMMA TickRows ==
  ASSUME TypeOK, NEW t \in Traffic, Tick(t), NEW side \in Sides
  PROVE  /\ IsFiniteSet(rows'[side])
         /\ \A q \in rows'[side] :
              \/ \E r \in rows[side] : r.age < Oldest(side) /\ q = Aged(r)
              \/ \E a \in t[side] : q = Recorded(a)
<1> DEFINE old == {r \in rows[side] : r.age < Oldest(side)}
           new == IF Fed(side) THEN t[side] ELSE {}
           older == {Aged(r) : r \in old}
           fresh == {Recorded(a) : a \in new}
<1>1. rows'[side] = older \cup fresh
  BY DEF Tick
<1>2. IsFiniteSet(rows[side]) /\ IsFiniteSet(t[side])
  BY TrafficAssumption DEF TypeOK, Sides
<1>3. IsFiniteSet(older)
  <2>1. IsFiniteSet(old)
    BY <1>2, FS_Subset
  <2> DEFINE f == [r \in old |-> Aged(r)]
  <2> HIDE DEF old
  <2>2. f = [r \in old |-> f[r]] /\ older = {f[r] : r \in old}
    OBVIOUS
  <2> HIDE DEF f
  <2> QED BY <2>1, <2>2, FiniteImage
<1>4. IsFiniteSet(fresh)
  <2>1. IsFiniteSet(new)
    BY <1>2, FS_EmptySet
  <2> DEFINE f == [a \in new |-> Recorded(a)]
  <2> HIDE DEF new
  <2>2. f = [a \in new |-> f[a]] /\ fresh = {f[a] : a \in new}
    OBVIOUS
  <2> HIDE DEF f
  <2> QED BY <2>1, <2>2, FiniteImage
<1>5. \A q \in older : \E r \in rows[side] : r.age < Oldest(side) /\ q = Aged(r)
  OBVIOUS
<1>6. \A q \in fresh : \E a \in t[side] : q = Recorded(a)
  OBVIOUS
<1> HIDE DEF older, fresh
<1>7. IsFiniteSet(older \cup fresh)
  BY <1>3, <1>4, FS_Union
<1> QED BY <1>1, <1>5, <1>6, <1>7

\* ingest_label: the truth, and nothing else.
Labeled(r) == [r EXCEPT !.label = r.truth]

\* The row that found its label is the row it was.
LEMMA LabelledRow ==
  ASSUME NEW side, NEW r \in PredictionRow(side)
  PROVE  /\ Labeled(r) \in PredictionRow(side)
         /\ Labeled(r).latency = r.latency /\ Labeled(r).status = r.status
         /\ Labeled(r).prediction = r.prediction /\ Labeled(r).truth = r.truth
         /\ Labeled(r).label = r.truth
BY DEF Labeled, PredictionRow

\* One row finds its label, the others and those of the stable version stay.
LEMMA LabelRows ==
  ASSUME TypeOK, NEW r \in rows["canary"], LabelArrives(r)
  PROVE  /\ DOMAIN rows' = Sides
         /\ rows'["stable"] = rows["stable"]
         /\ rows'["canary"] = (rows["canary"] \ {r}) \cup {Labeled(r)}
         /\ IsFiniteSet(rows'["canary"])
<1>1. rows'["canary"] = (rows["canary"] \ {r}) \cup {Labeled(r)}
  BY DEF LabelArrives, TypeOK, Sides, Labeled
<1>2. DOMAIN rows' = Sides /\ rows'["stable"] = rows["stable"]
  BY DEF LabelArrives, TypeOK, Sides
<1>3. IsFiniteSet(rows["canary"])
  BY DEF TypeOK, Sides
<1>4. IsFiniteSet(rows["canary"] \ {r})
  BY <1>3, FS_RemoveElement
<1>5. IsFiniteSet((rows["canary"] \ {r}) \cup {Labeled(r)})
  BY <1>4, FS_AddElement
<1> QED BY <1>1, <1>2, <1>5

\* What a window covers can be summarised.
LEMMA CoveredTimed ==
  ASSUME TypeOK, NEW side \in Sides, NEW offset
  PROVE  Timed(Covered(side, offset)) /\ Covered(side, offset) \subseteq rows[side]
<1>1. Covered(side, offset) \subseteq rows[side] /\ IsFiniteSet(rows[side])
  BY DEF Covered, TypeOK
<1>2. IsFiniteSet(Covered(side, offset))
  BY <1>1, FS_Subset
<1>3. \A r \in rows[side] : r.latency \in Nat
  BY RowFields DEF TypeOK
<1> QED BY <1>1, <1>2, <1>3 DEF Timed

-----------------------------------------------------------------------------
(***************************************************************************)
(* The worker's call, query by query, and its action.                      *)
(***************************************************************************)

\* No evaluation runs.
LEMMA IdleFields ==
  Idle \in Call /\ Idle.pc = "idle"
<1>1. Timed({})
  BY FS_EmptySet DEF Timed
<1>2. Summarize({}) \in Summary
  BY <1>1, SummaryType
<1> QED BY <1>2 DEF Idle, Call, Results

\* The records a call goes through.
Begun(c, full) == [c EXCEPT !.pc = "stable", !.full = full]
StableRead(c, s) == [c EXCEPT !.pc = "canary", !.stable = s]
CanaryRead(c, s) == [c EXCEPT !.pc = "quality", !.canary = s]
Judged(c, full, verdict) == [c EXCEPT !.pc = "act", !.full = full, !.verdict = verdict]

\* An evaluation began.
LEMMA BegunFields ==
  ASSUME NEW c \in Call, NEW full \in BOOLEAN
  PROVE  Begun(c, full) \in Call /\ Begun(c, full).pc = "stable"
BY DEF Begun, Call

\* The first summary was read ...
LEMMA StableReadFields ==
  ASSUME NEW c \in Call, NEW s \in Summary
  PROVE  /\ StableRead(c, s) \in Call /\ StableRead(c, s).pc = "canary"
         /\ StableRead(c, s).stable = s
BY DEF StableRead, Call

\* ... the second one, which leaves the first ...
LEMMA CanaryReadFields ==
  ASSUME NEW c \in Call, NEW s \in Summary
  PROVE  /\ CanaryRead(c, s) \in Call /\ CanaryRead(c, s).pc = "quality"
         /\ CanaryRead(c, s).stable = c.stable /\ CanaryRead(c, s).canary = s
BY DEF CanaryRead, Call

\* ... and the verdict is there.
LEMMA JudgedFields ==
  ASSUME NEW c \in Call, NEW full \in BOOLEAN, NEW verdict \in Results
  PROVE  /\ Judged(c, full, verdict) \in Call /\ Judged(c, full, verdict).pc = "act"
         /\ Judged(c, full, verdict).verdict = verdict
BY DEF Judged, Call

\* What a query answers is the summary of what it covers.
LEMMA AnswersOne ==
  ASSUME TypeOK, NEW side \in Sides, NEW offset, NEW s \in Answers(side, offset)
  PROVE  s = Summarize(Covered(side, offset)) /\ s \in Summary
<1>1. s = Summarize(Covered(side, offset))
  BY DEF Answers
<1> QED BY <1>1, CoveredTimed, SummaryType

\* Every step of the call: the summaries it keeps are those of the rows at the time of
\* the query, and the verdict is the one VerdictTheorem says.
LEMMA CallSteps ==
  ASSUME TypeOK
  PROVE  /\ Begin => call' \in Call /\ call'.pc = "stable"
         /\ QueryStable =>
              /\ call' \in Call /\ call'.pc = "canary"
              /\ call'.stable = Summarize(Covered("stable", 0))
         /\ QueryCanary =>
              /\ call' \in Call /\ call'.pc = "quality" /\ call'.stable = call.stable
              /\ call'.canary = Summarize(Covered("canary", 0))
         /\ QueryQuality =>
              /\ call' \in Call /\ call'.pc = "act"
              /\ call'.verdict = Verdict(call.stable, call.canary,
                                         Summarize(Covered("canary", Maturity)), Config)
         /\ Act \/ CallFails => call' \in Call /\ call'.pc = "idle"
<1>0. /\ call \in Call /\ call.full \in BOOLEAN
      /\ call.stable \in Summary /\ call.canary \in Summary
      /\ "stable" \in Sides /\ "canary" \in Sides
  BY DEF TypeOK, Call, Sides
<1>1. ASSUME Begin PROVE call' \in Call /\ call'.pc = "stable"
  <2>1. call' = Begun(Idle, AtFullTraffic(dep[Rollout]))
    BY <1>1 DEF Begin, Begun
  <2>2. AtFullTraffic(dep[Rollout]) \in BOOLEAN
    BY DEF AtFullTraffic
  <2> QED BY <2>1, <2>2, IdleFields, BegunFields
<1>2. ASSUME QueryStable
      PROVE  /\ call' \in Call /\ call'.pc = "canary"
             /\ call'.stable = Summarize(Covered("stable", 0))
  <2>1. PICK s \in Answers("stable", 0) : call' = StableRead(call, s)
    BY <1>2 DEF QueryStable, StableRead
  <2>2. s = Summarize(Covered("stable", 0)) /\ s \in Summary
    BY <1>0, AnswersOne
  <2> QED BY <1>0, <2>1, <2>2, StableReadFields
<1>3. ASSUME QueryCanary
      PROVE  /\ call' \in Call /\ call'.pc = "quality" /\ call'.stable = call.stable
             /\ call'.canary = Summarize(Covered("canary", 0))
  <2>1. PICK s \in Answers("canary", 0) : call' = CanaryRead(call, s)
    BY <1>3 DEF QueryCanary, CanaryRead
  <2>2. s = Summarize(Covered("canary", 0)) /\ s \in Summary
    BY <1>0, AnswersOne
  <2> QED BY <1>0, <2>1, <2>2, CanaryReadFields
<1>4. ASSUME QueryQuality
      PROVE  /\ call' \in Call /\ call'.pc = "act"
             /\ call'.verdict = Verdict(call.stable, call.canary,
                                        Summarize(Covered("canary", Maturity)), Config)
  <2>1. PICK s \in Answers("canary", Maturity) :
          call' = [Idle EXCEPT !.pc = "act", !.full = call.full,
            !.verdict = overall_result(evaluate_policies(call.stable, call.canary, s, Config))]
    BY <1>4 DEF QueryQuality
  <2> DEFINE v == overall_result(evaluate_policies(call.stable, call.canary, s, Config))
  <2>2. s = Summarize(Covered("canary", Maturity)) /\ s \in Summary
    BY <1>0, AnswersOne
  <2>3. v = Verdict(call.stable, call.canary, s, Config)
    BY <1>0, <2>2, ConfigAssumption, VerdictTheorem
  <2>4. v \in Results
    BY DEF overall_result, Results
  <2>5. call' = Judged(Idle, call.full, v)
    BY <2>1 DEF Judged
  <2> HIDE DEF v
  <2>6. call' \in Call /\ call'.pc = "act" /\ call'.verdict = v
    BY <1>0, <2>4, <2>5, IdleFields, JudgedFields
  <2> QED BY <2>2, <2>3, <2>6
<1>5. ASSUME Act \/ CallFails PROVE call' \in Call /\ call'.pc = "idle"
  BY <1>5, IdleFields DEF Act, CallFails
<1> QED BY <1>1, <1>2, <1>3, <1>4, <1>5

\* Rows stay rows, finitely many on each side.

LEMMA TakeActionFacts ==
  ASSUME NEW d \in Deployments, NEW verdict \in Results, NEW full \in BOOLEAN,
         TakeAction(d, verdict, full)
  PROVE  \/ UNCHANGED dbvars
         \/ verdict = "FAIL" /\ RollbackDB(d)
         \/ verdict = "PASS" /\ full /\ PromoteDB(d)
         \/ verdict = "PASS" /\ ~full /\ AdvanceDB(d)
         \/ verdict = "INCONCLUSIVE" /\ RecordInconclusiveDB(d)
<1>1. CASE verdict = "FAIL"
  <2>1. decide_action(verdict, full) = "ROLLBACK"
    BY <1>1 DEF decide_action
  <2>2. Attempt(CanFinish(dep[d].status, "ROLLING_BACK", "ROLLED_BACK"), RollbackDB(d))
    BY <2>1 DEF TakeAction
  <2> QED BY <2>2, <1>1 DEF Attempt
<1>2. CASE verdict = "INCONCLUSIVE"
  <2>1. decide_action(verdict, full) = "RECORD_INCONCLUSIVE"
    BY <1>2 DEF decide_action
  <2>2. Attempt(Active(d), RecordInconclusiveDB(d))
    BY <2>1 DEF TakeAction
  <2> QED BY <2>2, <1>2 DEF Attempt
<1>3. CASE verdict = "PASS" /\ full
  <2>1. decide_action(verdict, full) = "PROMOTE"
    BY <1>3 DEF decide_action
  <2>2. Attempt(CanFinish(dep[d].status, "PROMOTING", "PROMOTED"), PromoteDB(d))
    BY <2>1 DEF TakeAction
  <2> QED BY <2>2, <1>3 DEF Attempt
<1>4. CASE verdict = "PASS" /\ ~full
  <2>1. decide_action(verdict, full) = "ADVANCE_TRAFFIC"
    BY <1>4 DEF decide_action
  <2>2. Attempt(Active(d) /\ ~AtFinalStage(dep[d].weight), AdvanceDB(d))
    BY <2>1 DEF TakeAction
  <2> QED BY <2>2, <1>4 DEF Attempt
<1> QED BY <1>1, <1>2, <1>3, <1>4 DEF Results

\* A step of the worker, of an operator, of traffic or of a failure is an operation
\* of the database or leaves it alone.
LEMMA StepIsOperation == TypeOK /\ [Next]_vars => [NextDB]_dbvars
<1> SUFFICES ASSUME TypeOK, Next PROVE NextDB \/ UNCHANGED dbvars
  BY DEF vars
<1> USE RolloutAssumption
<1>1. CASE Act
  <2>1. TakeAction(Rollout, call.verdict, call.full)
    BY <1>1 DEF Act
  <2>2. call.verdict \in Results /\ call.full \in BOOLEAN
    BY DEF TypeOK, Call
  <2> QED BY <2>1, <2>2, TakeActionFacts DEF NextDB, UpdateDB
<1>2. CASE Begin \/ QueryStable \/ QueryCanary \/ QueryQuality
  BY <1>2 DEF Begin, QueryStable, QueryCanary, QueryQuality
<1>3. CASE TimePasses
  BY <1>3 DEF TimePasses, Tick
<1>4. CASE \E r \in rows["canary"] : LabelArrives(r)
  BY <1>4 DEF LabelArrives
<1>5. CASE CallFails
  BY <1>5 DEF CallFails
<1>6. CASE Operate
  BY <1>6 DEF Operate, NextDB, UpdateDB
<1>7. CASE Create
  BY <1>7 DEF Create, NextDB
<1> QED BY <1>1, <1>2, <1>3, <1>4, <1>5, <1>6, <1>7 DEF Next, WorkerStep

-----------------------------------------------------------------------------
(***************************************************************************)
(* Types, the ledger behind the rollout, the percentiles and the verdict.  *)
(***************************************************************************)

LEMMA RowsType ==
  ASSUME TypeOK, [Next]_vars
  PROVE  /\ DOMAIN rows' = Sides
         /\ \A side \in Sides :
              IsFiniteSet(rows'[side]) /\ rows'[side] \subseteq PredictionRow(side)
<1> DEFINE Typed == /\ DOMAIN rows' = Sides
                    /\ \A side \in Sides : /\ IsFiniteSet(rows'[side])
                                           /\ rows'[side] \subseteq PredictionRow(side)
<1> SUFFICES Typed
  OBVIOUS
<1>1. CASE UNCHANGED rows
  BY <1>1 DEF TypeOK
<1>2. ASSUME NEW t \in Traffic, Tick(t)
      PROVE  Typed
  <2>1. DOMAIN rows' = Sides
    BY <1>2 DEF Tick
  <2>2. ASSUME NEW side \in Sides
        PROVE  IsFiniteSet(rows'[side]) /\ rows'[side] \subseteq PredictionRow(side)
    <3>1. t[side] \subseteq Answer /\ rows[side] \subseteq PredictionRow(side)
      BY TrafficAssumption DEF Sides, TypeOK
    <3> QED BY <1>2, <3>1, TickRows, AgedRow, RecordedRow
  <2> QED BY <2>1, <2>2
<1>3. ASSUME NEW r \in rows["canary"], LabelArrives(r)
      PROVE  Typed
  <2>1. /\ Labeled(r) \in PredictionRow("canary")
        /\ rows["canary"] \subseteq PredictionRow("canary")
    BY LabelledRow DEF TypeOK, Sides
  <2> QED BY <1>3, <2>1, LabelRows DEF TypeOK, Sides
<1> HIDE DEF Typed
<1>4. CASE UNCHANGED vars
  BY <1>1, <1>4 DEF vars
<1>5. CASE Create \/ WorkerStep \/ CallFails \/ Operate
  BY <1>1, <1>5 DEF Create, WorkerStep, Begin, QueryStable, QueryCanary, QueryQuality, Act,
                    CallFails, Operate
<1>6. CASE TimePasses
  BY <1>2, <1>6 DEF TimePasses
<1>7. CASE \E r \in rows["canary"] : LabelArrives(r)
  BY <1>3, <1>7
<1> QED BY <1>4, <1>5, <1>6, <1>7 DEF Next

LEMMA HistoryType ==
  ASSUME TypeOK, [Next]_vars
  PROVE  since' \in 0..Window /\ harmed' \in BOOLEAN /\ confirmed' \in BOOLEAN
         /\ healthy' \in BOOLEAN
<1> DEFINE Typed == since' \in 0..Window /\ harmed' \in BOOLEAN /\ confirmed' \in BOOLEAN
                    /\ healthy' \in BOOLEAN
<1> SUFFICES Typed
  OBVIOUS
<1>0. /\ since \in 0..Window /\ Window \in Nat
      /\ harmed \in BOOLEAN /\ confirmed \in BOOLEAN /\ healthy \in BOOLEAN
  BY WindowAssumption DEF TypeOK
<1>1. ASSUME UNCHANGED history, since' \in {0, since}
      PROVE  Typed
  BY <1>0, <1>1 DEF history
<1>2. CASE UNCHANGED vars
  BY <1>1, <1>2 DEF vars
<1>3. CASE Create \/ WorkerStep
  BY <1>1, <1>3 DEF Create, WorkerStep, Begin, QueryStable, QueryCanary, QueryQuality, Act
<1>4. CASE CallFails
  BY <1>0, <1>4 DEF CallFails
<1>5. CASE Operate
  <2>1. since' \in {0, since}
    BY <1>5 DEF Operate
  <2>2. since' \in 0..Window
    BY <1>0, <2>1
  <2>3. healthy' = FALSE /\ harmed' = harmed /\ confirmed' = confirmed
    BY <1>5 DEF Operate
  <2> QED BY <1>0, <2>2, <2>3
<1>6. ASSUME NEW r \in rows["canary"], LabelArrives(r)
      PROVE  Typed
  <2>1. since' = since /\ harmed' = harmed /\ healthy' = healthy
    BY <1>6 DEF LabelArrives
  <2>2. confirmed' \in BOOLEAN
    BY <1>6, Zenon DEF LabelArrives
  <2> QED BY <1>0, <2>1, <2>2
<1>7. ASSUME NEW t \in Traffic, Tick(t)
      PROVE  Typed
  <2>1. since' \in 0..Window
    BY <1>0, <1>7 DEF Tick
  <2>2. confirmed' = confirmed
    BY <1>7 DEF Tick
  <2>3. harmed' \in BOOLEAN
    BY <1>7, Zenon DEF Tick
  <2>4. healthy' \in BOOLEAN
    BY <1>7, Zenon DEF Tick
  <2> QED BY <1>0, <2>1, <2>2, <2>3, <2>4
<1> HIDE DEF Typed
<1> QED BY <1>2, <1>3, <1>4, <1>5, <1>6, <1>7 DEF Next, TimePasses

\* The call.
LEMMA CallType ==
  ASSUME TypeOK, [Next]_vars
  PROVE  call' \in Call
<1>1. CASE UNCHANGED call
  BY <1>1 DEF TypeOK
<1>2. CASE WorkerStep \/ CallFails
  BY <1>2, CallSteps DEF WorkerStep
<1>3. CASE Create \/ Operate
  BY <1>1, <1>3 DEF Create, Operate
<1>4. CASE TimePasses
  BY <1>1, <1>4 DEF TimePasses, Tick
<1>5. CASE \E r \in rows["canary"] : LabelArrives(r)
  BY <1>1, <1>5 DEF LabelArrives
<1> QED BY <1>1, <1>2, <1>3, <1>4, <1>5 DEF Next, vars

\* Before the rollout is created.
LEMMA TypeInit == Init => LedgerInv /\ TypeOK
<1> SUFFICES ASSUME Init PROVE LedgerInv /\ TypeOK
  OBVIOUS
<1>1. LedgerInv
  BY LedgerInit DEF Init
<1>2. call \in Call
  BY IdleFields DEF Init
<1>3. rows = [side \in Sides |-> {}] /\ \A side \in Sides : IsFiniteSet(rows[side])
  BY FS_EmptySet DEF Init
<1>4. since \in 0..Window
  BY WindowAssumption DEF Init
<1> QED BY <1>1, <1>2, <1>3, <1>4 DEF Init, TypeOK, LedgerInv

\* Every step keeps the types, and the ledger the invariant of Rollouts.
LEMMA TypeStep == LedgerInv /\ TypeOK /\ [Next]_vars => LedgerInv' /\ TypeOK'
<1> SUFFICES ASSUME LedgerInv, TypeOK, [Next]_vars PROVE LedgerInv' /\ TypeOK'
  OBVIOUS
<1>1. LedgerInv'
  BY StepIsOperation, LedgerStep
<1>2. /\ DOMAIN rows' = Sides
      /\ \A side \in Sides :
           IsFiniteSet(rows'[side]) /\ rows'[side] \subseteq PredictionRow(side)
  BY RowsType
<1>3. since' \in 0..Window /\ {harmed', confirmed', healthy'} \subseteq BOOLEAN
  BY HistoryType
<1> QED BY <1>1, <1>2, <1>3, CallType DEF TypeOK, LedgerInv

\* Rows, the call and the history have their types in every reachable state: no row is
\* kept beyond the age at which a query may find it, and there are finitely many.
THEOREM TypeOKTheorem == Spec => []TypeOK
BY TypeInit, TypeStep, PTL DEF Spec

\* Judged on its traffic, a rollout still moves by the operations of Rollouts only:
\* what is proved of the ledger holds for it.
THEOREM EvaluationImplementsRollouts == Spec => SpecDB
<1>1. Init => InitDB
  BY DEF Init
<1> QED BY <1>1, TypeInit, TypeStep, StepIsOperation, PTL DEF Spec, SpecDB

\* p50 <= p95 <= p99, all of them between two measured latencies, for any finite set of
\* rows: one row, ties, ranks that fall between two rows.
THEOREM PercentilesOrderedTheorem == Spec => []PercentilesOrdered
<1>1. TypeOK => PercentilesOrdered
  <2> SUFFICES ASSUME TypeOK, NEW side \in Sides, rows[side] # {}
               PROVE  PercentilesOrdered!(side)!2
    BY DEF PercentilesOrdered
  <2> DEFINE rs == rows[side]
  <2>1. Timed(rs)
    BY RowFields DEF TypeOK, Timed
  <2> HIDE DEF rs
  <2>2. rs # {}
    BY DEF rs
  <2>3. /\ Percentile(rs, 50) <= Percentile(rs, 95)
        /\ Percentile(rs, 95) <= Percentile(rs, 99)
    BY <2>1, <2>2, PercentilesInOrder
  <2>4. PICK a \in rs : 100 * a.latency <= Percentile(rs, 50)
    BY <2>1, <2>2, PercentileMeasured
  <2>5. PICK b \in rs : Percentile(rs, 99) <= 100 * b.latency
    BY <2>1, <2>2, PercentileMeasured
  <2>6. 100 * a.latency \in {100 * r.latency : r \in rs}
        /\ 100 * b.latency \in {100 * r.latency : r \in rs}
    OBVIOUS
  <2> QED BY <2>3, <2>4, <2>5, <2>6 DEF rs
<1> QED BY <1>1, TypeInit, TypeStep, PTL DEF Spec

\* The verdict that run_evaluation hands to the action is the one that the three
\* summaries deserve, the last of them read from the rows as they are at that moment.
THEOREM VerdictJustifiedTheorem == Spec => VerdictJustified
<1> DEFINE Justified ==
      call.pc = "quality" /\ call'.pc = "act" =>
        call'.verdict = Verdict(call.stable, call.canary,
                                Summarize(Covered("canary", Maturity)), Config)
<1>1. TypeOK /\ [Next]_vars => [Justified]_vars
  <2> SUFFICES ASSUME TypeOK, Next, call.pc = "quality", call'.pc = "act"
               PROVE  QueryQuality
    BY CallSteps
  <2>1. CASE UNCHANGED call
    BY <2>1
  <2>2. CASE WorkerStep \/ CallFails
    BY <2>2, CallSteps DEF WorkerStep
  <2>3. CASE Create \/ Operate \/ TimePasses \/ \E r \in rows["canary"] : LabelArrives(r)
    BY <2>1, <2>3 DEF Create, Operate, TimePasses, Tick, LabelArrives
  <2> QED BY <2>2, <2>3 DEF Next
<1> QED BY <1>1, TypeInit, TypeStep, PTL DEF Spec, VerdictJustified

-----------------------------------------------------------------------------
(***************************************************************************)
(* What the worker's actions are earned by.                                *)
(***************************************************************************)

\* What the p95 of the stable version may be exceeded by, in percent.
Tolerance == 100 + Config.p95_max_increase_percent

\* A p95 of the stable version next to which a normal answer is not slow.
Tolerated(p95) == p95 = Missing \/ 100 * (100 * Normal) <= Tolerance * p95

\* What the recorded rows show ...
RowsEvidence ==
  /\ \A r \in rows["stable"] : 100 * Normal <= Tolerance * r.latency
  /\ ~harmed => \A r \in rows["canary"] : ~Bad(r)
  /\ (\E r \in rows["canary"] : r.prediction = 1 /\ r.label = 1) => confirmed

\* ... and what a call has read of them.
CallEvidence ==
  /\ call.pc \in {"canary", "quality"} => Tolerated(call.stable.p95)
  /\ call.pc = "quality" /\ ~harmed =>
       call.canary.errors = 0 /\ call.canary.p95 <= 100 * Normal
  /\ call.pc = "act" /\ call.verdict = "FAIL" => harmed
  /\ call.pc = "act" /\ call.verdict = "PASS" => Config.minimum_recall = 0 \/ confirmed

\* A summary outlives the rows it was read from: the invariant carries their evidence
\* along with the call until the action, while ticks age the rows and drop them, labels
\* change them, and operators move the rollout.
EarnedInv == RowsEvidence /\ CallEvidence

\* Products of naturals, which the provers have to be told about, ...
LEMMA Product ==
  ASSUME NEW a \in Nat, NEW b \in Nat
  PROVE  a * b \in Nat /\ (a > 0 /\ b > 0 => a * b > 0)
OBVIOUS

\* ... their order ...
LEMMA ProductMonotone ==
  ASSUME NEW a \in Nat, NEW b \in Nat, NEW c \in Nat, b <= c
  PROVE  a * b <= a * c
<1>1. PICK e \in Nat : c = b + e
  <2>1. c - b \in Nat /\ c = b + (c - b)
    OBVIOUS
  <2> QED BY <2>1
<1>2. a * (b + e) = a * b + a * e /\ a * b \in Nat /\ a * e \in Nat
  OBVIOUS
<1> QED BY <1>1, <1>2

\* ... and a factor of 100 in them.
LEMMA ThreeFactors ==
  ASSUME NEW a \in Nat, NEW b \in Nat
  PROVE  a * (100 * b) = 100 * (a * b)
OBVIOUS

\* The policy, as far as the verdicts of harm and health depend on it.
LEMMA ConfigTypes ==
  /\ Tolerance \in Nat /\ Normal \in Nat
  /\ Config.p95_max_increase_percent \in Nat /\ Config.max_error_rate_percent \in Nat
  /\ Config.minimum_recall \in 0..100
BY ConfigAssumption, NormalAssumption DEF PolicyConfig, Tolerance

\* Whatever the window covers, the stable version looks at least as slow as tolerated.
LEMMA StableTolerated ==
  ASSUME TypeOK, EarnedInv
  PROVE  Tolerated(Summarize(Covered("stable", 0)).p95)
<1> DEFINE rs == Covered("stable", 0)
<1>1. Timed(rs) /\ rs \subseteq rows["stable"]
  BY CoveredTimed DEF Sides
<1> HIDE DEF rs
<1>2. Summarize(rs).p95 = IF rs = {} THEN Missing ELSE Percentile(rs, 95)
  BY SummaryFields
<1>3. CASE rs = {}
  BY <1>2, <1>3 DEF Tolerated, rs
<1>4. CASE rs # {}
  <2> DEFINE p == Percentile(rs, 95)
  <2>1. p \in Nat
    BY <1>1, <1>4, PercentileMeasured
  <2>2. PICK r \in rs : 100 * r.latency <= p
    BY <1>1, <1>4, PercentileMeasured
  <2>3. r.latency \in Nat /\ 100 * Normal <= Tolerance * r.latency
    BY <1>1 DEF Timed, EarnedInv, RowsEvidence
  <2>4. Summarize(rs).p95 = p
    BY <1>2, <1>4
  <2> HIDE DEF p
  <2>5. Tolerance * (100 * r.latency) <= Tolerance * p
    BY <2>1, <2>2, <2>3, ConfigTypes, ProductMonotone
  <2>6. Tolerance * (100 * r.latency) = 100 * (Tolerance * r.latency)
    BY <2>3, ConfigTypes, ThreeFactors
  <2>7. Tolerance * r.latency \in Nat /\ Tolerance * p \in Nat
    BY <2>1, <2>3, ConfigTypes, Product
  <2>8. 100 * (100 * Normal) <= Tolerance * p
    BY <2>3, <2>5, <2>6, <2>7, ConfigTypes
  <2> QED BY <2>4, <2>8 DEF Tolerated, rs
<1> QED BY <1>3, <1>4

\* As long as the canary did no harm it has no errors, and is not slow.
LEMMA HealthyCanary ==
  ASSUME TypeOK, EarnedInv, ~harmed
  PROVE  LET s == Summarize(Covered("canary", 0)) IN
         s.errors = 0 /\ s.p95 <= 100 * Normal
<1> DEFINE rs == Covered("canary", 0)
<1>1. Timed(rs) /\ rs \subseteq rows["canary"]
  BY CoveredTimed DEF Sides
<1>0. \A r \in rs : r.status \in Nat /\ r.latency \in Nat
  BY <1>1, RowFields DEF TypeOK, Sides
<1>2. \A r \in rs : ~(r.status >= 400) /\ r.latency <= Normal
  BY <1>0, <1>1, ConfigTypes DEF EarnedInv, RowsEvidence, Bad
<1> HIDE DEF rs
<1>3. Summarize(rs).errors = 0
  <2>1. {r \in rs : r.status >= 400} = {}
    BY <1>2
  <2> QED BY <2>1, SummaryFields, FS_EmptySet
<1>4. Summarize(rs).p95 = IF rs = {} THEN Missing ELSE Percentile(rs, 95)
  BY SummaryFields
<1>5. CASE rs = {}
  BY <1>3, <1>4, <1>5, ConfigTypes DEF Missing, rs
<1>6. CASE rs # {}
  <2>1. Percentile(rs, 95) \in Nat
    BY <1>1, <1>6, PercentileMeasured
  <2>2. PICK r \in rs : Percentile(rs, 95) <= 100 * r.latency
    BY <1>1, <1>6, PercentileMeasured
  <2>3. Percentile(rs, 95) <= 100 * Normal
    BY <1>0, <1>2, <2>1, <2>2, ConfigTypes
  <2> QED BY <1>3, <1>4, <1>6, <2>3 DEF rs
<1> QED BY <1>5, <1>6

\* As long as it did no harm it misses no positive either, in whatever part of its rows
\* the labels have arrived.
LEMMA HealthyQuality ==
  ASSUME TypeOK, EarnedInv, ~harmed
  PROVE  ~Misses(Summarize(Covered("canary", Maturity)), Config)
<1> DEFINE rs == Covered("canary", Maturity)
           s == Summarize(rs)
<1>1. Timed(rs) /\ rs \subseteq rows["canary"]
  BY CoveredTimed DEF Sides
<1>2. \A r \in rs : ~(r.prediction = 0 /\ r.label = 1)
  <2> SUFFICES ASSUME NEW r \in rs, r.prediction = 0, r.label = 1 PROVE FALSE
    OBVIOUS
  <2>1. r \in rows["canary"] /\ r \in PredictionRow("canary")
    BY <1>1 DEF TypeOK, Sides
  <2>2. r.truth \in {0, 1} /\ r.label \in {Missing, r.truth}
    BY <2>1, RowFields
  <2>3. r.prediction = r.truth
    BY <2>1 DEF EarnedInv, RowsEvidence, Bad
  <2> QED BY <2>2, <2>3 DEF Missing
<1> HIDE DEF rs
<1>3. s.fn = 0
  <2>1. {r \in rs : r.prediction = 0 /\ r.label = 1} = {}
    BY <1>2
  <2>2. Outcomes(rs, 0, 1) = 0
    BY <2>1, FS_EmptySet DEF Outcomes
  <2> QED BY <2>2, SummaryFields
<1>4. s \in Summary
  BY <1>1, SummaryType
<1> HIDE DEF s
<1>5. s.tp \in Nat
  BY <1>4 DEF Summary
<1>6. Positives(s) = s.tp
  BY <1>3, <1>5 DEF Positives
<1>7. s.tp * Config.minimum_recall <= s.tp * 100
  BY <1>5, ConfigTypes, ProductMonotone
<1>8. s.tp * Config.minimum_recall = Config.minimum_recall * s.tp
      /\ Config.minimum_recall * s.tp \in Nat
  BY <1>5, ConfigTypes
<1>9. ~(s.tp * 100 < Config.minimum_recall * s.tp)
  BY <1>5, <1>7, <1>8
<1>10. ~Misses(s, Config)
  BY <1>6, <1>9 DEF Misses
<1> QED BY <1>10 DEF s, rs

\* Without harm no verdict of harm.
LEMMA FailureEarned ==
  ASSUME TypeOK, EarnedInv, call.pc = "quality", ~harmed
  PROVE  Verdict(call.stable, call.canary,
                 Summarize(Covered("canary", Maturity)), Config) # "FAIL"
<1> DEFINE quality == Summarize(Covered("canary", Maturity))
<1>1. /\ call.stable \in Summary /\ call.canary \in Summary
      /\ Tolerated(call.stable.p95)
      /\ call.canary.errors = 0 /\ call.canary.p95 <= 100 * Normal
  BY DEF TypeOK, Call, EarnedInv, CallEvidence
<1>2. /\ call.stable.p95 \in Nat \cup {Missing} /\ call.canary.p95 \in Nat \cup {Missing}
      /\ call.canary.samples \in Nat
  BY <1>1 DEF Summary
<1>3. ~Slower(call.stable, call.canary, Config)
  <2> SUFFICES ASSUME call.stable.p95 > 0,
                      call.canary.p95 * 100 > Tolerance * call.stable.p95
               PROVE  FALSE
    BY DEF Slower, Tolerance
  <2>1. call.stable.p95 \in Nat /\ call.stable.p95 # Missing
    BY <1>2 DEF Missing
  <2>2. 100 * (100 * Normal) <= Tolerance * call.stable.p95
    BY <1>1, <2>1 DEF Tolerated
  <2>3. Tolerance * call.stable.p95 \in Nat
    BY <2>1, ConfigTypes, Product
  <2> QED BY <1>1, <1>2, <2>2, <2>3, ConfigTypes DEF Missing
<1>4. ~Flaky(call.canary, Config)
  <2>1. Config.max_error_rate_percent * call.canary.samples \in Nat
    BY <1>2, ConfigTypes, Product
  <2> QED BY <1>1, <2>1 DEF Flaky
<1>5. ~Misses(quality, Config)
  BY HealthyQuality
<1> HIDE DEF quality
<1>6. Verdict(call.stable, call.canary, quality, Config) # "FAIL"
  <2>1. CASE ~EnoughTraffic(call.stable, call.canary, Config)
    BY <2>1 DEF Verdict
  <2>2. CASE EnoughTraffic(call.stable, call.canary, Config)
    BY <1>3, <1>4, <1>5, <2>2 DEF Verdict
  <2> QED BY <2>1, <2>2
<1> QED BY <1>6 DEF quality

\* A verdict of health needs a confirmed prediction: recall is above 0 only with one.
LEMMA SuccessEarned ==
  ASSUME TypeOK, EarnedInv, Config.minimum_recall # 0,
         Verdict(call.stable, call.canary,
                 Summarize(Covered("canary", Maturity)), Config) = "PASS"
  PROVE  confirmed
<1> DEFINE rs == Covered("canary", Maturity)
           s == Summarize(rs)
<1>1. Timed(rs) /\ rs \subseteq rows["canary"]
  BY CoveredTimed DEF Sides
<1>2. EnoughLabels(s, Config) /\ Positives(s) > 0 /\ ~Misses(s, Config)
  <2> HIDE DEF s
  <2>1. Verdict(call.stable, call.canary, s, Config) = "PASS"
    BY DEF s
  <2>2. EnoughTraffic(call.stable, call.canary, Config)
    BY <2>1 DEF Verdict
  <2> QED BY <2>1, <2>2 DEF Verdict
<1> HIDE DEF rs
<1>3. s \in Summary
  BY <1>1, SummaryType
<1>4. s.tp = Outcomes(rs, 1, 1)
  BY SummaryFields
<1> HIDE DEF s
<1>5. s.tp \in Nat /\ Positives(s) \in Nat
  BY <1>3 DEF Summary, Positives
<1>6. Config.minimum_recall * Positives(s) > 0
  BY <1>2, <1>5, ConfigTypes, Product
<1>7. s.tp # 0
  BY <1>2, <1>5, <1>6 DEF Misses
<1>8. \E r \in rs : r.prediction = 1 /\ r.label = 1
  <2>1. {r \in rs : r.prediction = 1 /\ r.label = 1} # {}
    BY <1>4, <1>7, FS_EmptySet DEF Outcomes
  <2> QED BY <2>1
<1> QED BY <1>1, <1>8 DEF EarnedInv, RowsEvidence

\* The evidence in the rows: rows of a tick, ...
LEMMA TickEarned ==
  ASSUME TypeOK, EarnedInv, NEW t \in Traffic, Tick(t)
  PROVE  RowsEvidence'
<1>0. /\ "stable" \in Sides /\ "canary" \in Sides /\ confirmed' = confirmed
      /\ \A side \in Sides : rows[side] \subseteq PredictionRow(side)
      /\ \A side \in Sides : t[side] \subseteq Answer
  BY TrafficAssumption DEF TypeOK, Sides, Tick
<1>1. ASSUME NEW q \in rows'["stable"]
      PROVE  100 * Normal <= Tolerance * q.latency
  <2>1. CASE \E r \in rows["stable"] : r.age < Oldest("stable") /\ q = Aged(r)
    <3>1. PICK r \in rows["stable"] : r.age < Oldest("stable") /\ q = Aged(r)
      BY <2>1
    <3>2. q.latency = r.latency
      BY <1>0, <3>1, AgedRow
    <3> QED BY <3>2 DEF EarnedInv, RowsEvidence
  <2>2. CASE \E a \in t["stable"] : q = Recorded(a)
    <3>1. PICK a \in t["stable"] : q = Recorded(a)
      BY <2>2
    <3>2. q.latency = a.latency
      BY <1>0, <3>1, RecordedRow
    <3>3. 100 * Normal <= Tolerance * a.latency
      BY NormalAssumption DEF Tolerance
    <3> QED BY <3>2, <3>3
  <2> QED BY <1>0, <2>1, <2>2, TickRows
<1>2. ASSUME ~harmed', NEW q \in rows'["canary"]
      PROVE  ~Bad(q)
  <2>1. ~harmed /\ \A a \in t.canary : ~Bad(a)
    BY <1>2 DEF Tick
  <2>2. CASE \E r \in rows["canary"] : r.age < Oldest("canary") /\ q = Aged(r)
    <3>1. PICK r \in rows["canary"] : r.age < Oldest("canary") /\ q = Aged(r)
      BY <2>2
    <3>2. /\ q.latency = r.latency /\ q.status = r.status
          /\ q.prediction = r.prediction /\ q.truth = r.truth
      BY <1>0, <3>1, AgedRow
    <3>3. ~Bad(r)
      BY <2>1 DEF EarnedInv, RowsEvidence
    <3> QED BY <3>2, <3>3 DEF Bad
  <2>3. CASE \E a \in t["canary"] : q = Recorded(a)
    <3>1. PICK a \in t["canary"] : q = Recorded(a)
      BY <2>3
    <3>2. /\ q.latency = a.latency /\ q.status = a.status
          /\ q.prediction = a.prediction /\ q.truth = a.truth
      BY <1>0, <3>1, RecordedRow
    <3>3. ~Bad(a)
      BY <2>1
    <3> QED BY <3>2, <3>3 DEF Bad
  <2> QED BY <1>0, <2>2, <2>3, TickRows
<1>3. ASSUME NEW q \in rows'["canary"], q.prediction = 1, q.label = 1
      PROVE  confirmed'
  <2>1. CASE \E r \in rows["canary"] : r.age < Oldest("canary") /\ q = Aged(r)
    <3>1. PICK r \in rows["canary"] : r.age < Oldest("canary") /\ q = Aged(r)
      BY <2>1
    <3>2. q.prediction = r.prediction /\ q.label = r.label
      BY <1>0, <3>1, AgedRow
    <3> QED BY <1>0, <1>3, <3>2 DEF EarnedInv, RowsEvidence
  <2>2. CASE \E a \in t["canary"] : q = Recorded(a)
    <3>1. PICK a \in t["canary"] : q = Recorded(a)
      BY <2>2
    <3>2. q.label = Missing
      BY <1>0, <3>1, RecordedRow
    <3> QED BY <1>3, <3>2 DEF Missing
  <2> QED BY <1>0, <2>1, <2>2, TickRows
<1> QED BY <1>1, <1>2, <1>3 DEF RowsEvidence

\* ... rows of which one found its label, ...
LEMMA LabelEarned ==
  ASSUME TypeOK, EarnedInv, NEW r \in rows["canary"], LabelArrives(r)
  PROVE  RowsEvidence'
<1>0. /\ r \in PredictionRow("canary") /\ harmed' = harmed
      /\ confirmed' <=> confirmed \/ (r.prediction = 1 /\ r.truth = 1)
  BY DEF TypeOK, Sides, LabelArrives
<1>1. rows'["stable"] = rows["stable"]
      /\ rows'["canary"] = (rows["canary"] \ {r}) \cup {Labeled(r)}
  BY LabelRows
<1>2. /\ Labeled(r).latency = r.latency /\ Labeled(r).status = r.status
      /\ Labeled(r).prediction = r.prediction /\ Labeled(r).truth = r.truth
      /\ Labeled(r).label = r.truth
  BY <1>0, LabelledRow
<1>3. Bad(Labeled(r)) <=> Bad(r)
  BY <1>2 DEF Bad
<1>4. \A q \in rows'["canary"] : q \in rows["canary"] \/ q = Labeled(r)
  BY <1>1
<1>5. \A q \in rows'["stable"] : 100 * Normal <= Tolerance * q.latency
  BY <1>1 DEF EarnedInv, RowsEvidence
<1>6. ASSUME ~harmed', NEW q \in rows'["canary"]
      PROVE  ~Bad(q)
  BY <1>0, <1>3, <1>4, <1>6 DEF EarnedInv, RowsEvidence
<1>7. ASSUME NEW q \in rows'["canary"], q.prediction = 1, q.label = 1
      PROVE  confirmed'
  <2>1. CASE q \in rows["canary"]
    BY <1>0, <1>7, <2>1 DEF EarnedInv, RowsEvidence
  <2>2. CASE q = Labeled(r)
    BY <1>0, <1>2, <1>7, <2>2
  <2> QED BY <1>4, <2>1, <2>2
<1> QED BY <1>5, <1>6, <1>7 DEF RowsEvidence

\* Nothing recorded, nothing read.
LEMMA EarnedInit == Init => EarnedInv
<1> SUFFICES ASSUME Init PROVE EarnedInv
  OBVIOUS
<1>1. rows["stable"] = {} /\ rows["canary"] = {}
  BY DEF Init, Sides
<1>2. call.pc = "idle"
  BY IdleFields DEF Init
<1> QED BY <1>1, <1>2 DEF EarnedInv, RowsEvidence, CallEvidence

\* ... and the same rows.
LEMMA RowsEarned ==
  ASSUME EarnedInv, UNCHANGED <<rows, harmed, confirmed>>
  PROVE  RowsEvidence'
BY DEF EarnedInv, RowsEvidence

\* Nor does a call that reads nothing lose its own: what was harmed or confirmed stays so.
LEMMA CallStaysEarned ==
  ASSUME EarnedInv, UNCHANGED call, harmed => harmed', confirmed => confirmed'
  PROVE  CallEvidence'
BY DEF EarnedInv, CallEvidence

\* The invariant is inductive.
LEMMA EarnedStep == TypeOK /\ EarnedInv /\ [Next]_vars => EarnedInv'
<1> SUFFICES ASSUME TypeOK, EarnedInv, [Next]_vars PROVE RowsEvidence' /\ CallEvidence'
  BY DEF EarnedInv
<1>1. CASE UNCHANGED vars \/ Create \/ Operate
  <2>1. UNCHANGED <<rows, harmed, confirmed, call>>
    BY <1>1 DEF vars, history, Create, Operate
  <2> QED BY <2>1, RowsEarned, CallStaysEarned
<1>2. ASSUME NEW t \in Traffic, Tick(t) PROVE RowsEvidence' /\ CallEvidence'
  <2>1. UNCHANGED call /\ (harmed => harmed') /\ (confirmed => confirmed')
    BY <1>2 DEF Tick
  <2> QED BY <1>2, <2>1, TickEarned, CallStaysEarned
<1>3. ASSUME NEW q \in rows["canary"], LabelArrives(q) PROVE RowsEvidence' /\ CallEvidence'
  <2>1. UNCHANGED call /\ (harmed => harmed') /\ (confirmed => confirmed')
    BY <1>3 DEF LabelArrives
  <2> QED BY <1>3, <2>1, LabelEarned, CallStaysEarned
<1>4. CASE Begin
  <2>1. UNCHANGED <<rows, harmed, confirmed>> /\ call'.pc = "stable"
    BY <1>4, CallSteps DEF Begin, history
  <2> QED BY <2>1, RowsEarned DEF CallEvidence
<1>5. CASE QueryStable
  <2>1. UNCHANGED <<rows, harmed, confirmed>>
    BY <1>5 DEF QueryStable, history
  <2>2. call'.pc = "canary" /\ call'.stable = Summarize(Covered("stable", 0))
    BY <1>5, CallSteps
  <2>3. Tolerated(call'.stable.p95)
    BY <2>2, StableTolerated
  <2>4. CallEvidence'
    BY <2>2, <2>3 DEF CallEvidence, Tolerated
  <2> QED BY <2>1, <2>4, RowsEarned
<1>6. CASE QueryCanary
  <2>1. UNCHANGED <<rows, harmed, confirmed>> /\ call.pc = "canary"
    BY <1>6 DEF QueryCanary, history
  <2>2. /\ call'.pc = "quality" /\ call'.stable = call.stable
        /\ call'.canary = Summarize(Covered("canary", 0))
    BY <1>6, CallSteps
  <2>3. Tolerated(call'.stable.p95)
    BY <2>1, <2>2 DEF EarnedInv, CallEvidence
  <2>4. ~harmed' => call'.canary.errors = 0 /\ call'.canary.p95 <= 100 * Normal
    BY <2>1, <2>2, HealthyCanary
  <2>5. CallEvidence'
    BY <2>2, <2>3, <2>4 DEF CallEvidence, Tolerated
  <2> QED BY <2>1, <2>5, RowsEarned
<1>7. CASE QueryQuality
  <2>1. UNCHANGED <<rows, harmed, confirmed>> /\ call.pc = "quality"
    BY <1>7 DEF QueryQuality, history
  <2>2. /\ call'.pc = "act"
        /\ call'.verdict = Verdict(call.stable, call.canary,
                                   Summarize(Covered("canary", Maturity)), Config)
    BY <1>7, CallSteps
  <2>3. call'.verdict = "FAIL" => harmed'
    BY <2>1, <2>2, FailureEarned
  <2>4. call'.verdict = "PASS" => Config.minimum_recall = 0 \/ confirmed'
    BY <2>1, <2>2, SuccessEarned
  <2>5. CallEvidence'
    BY <2>2, <2>3, <2>4 DEF CallEvidence
  <2> QED BY <2>1, <2>5, RowsEarned
<1>8. CASE Act \/ CallFails
  <2>1. UNCHANGED <<rows, harmed, confirmed>> /\ call'.pc = "idle"
    BY <1>8, CallSteps DEF Act, CallFails, history
  <2> QED BY <2>1, RowsEarned DEF CallEvidence
<1> QED BY <1>1, <1>2, <1>3, <1>4, <1>5, <1>6, <1>7, <1>8 DEF Next, TimePasses, WorkerStep

\* What the four actions of the worker leave of the row they are about.
LEMMA ActionFacts ==
  ASSUME LedgerInv, NEW d \in Deployments
  PROVE  /\ PromoteDB(d) => dep'[d].status # "ROLLED_BACK"
         /\ RollbackDB(d) => dep'[d].status # "PROMOTED" /\ dep'[d].weight = 0
         /\ AdvanceDB(d) => dep'[d].status # "ROLLED_BACK"
         /\ RecordInconclusiveDB(d) =>
              /\ dep'[d].status \notin {"ROLLED_BACK", "PROMOTED"}
              /\ dep'[d].weight = dep[d].weight
<1> USE DEF LedgerInv
<1>1. dep[d] \in Row /\ generation \in [Models -> Nat] /\ clock \in Nat
  BY DEF TypeOKDB
<1>2. ASSUME PromoteDB(d)
      PROVE  dep'[d].status # "ROLLED_BACK"
  <2>1. PICK g, t : dep' = [dep EXCEPT ![d] = Finished(@, "PROMOTED", 100, g, t)]
    BY <1>2 DEF PromoteDB, FinishDB
  <2>2. dep'[d].status = "PROMOTED"
    BY <2>1, <1>1 DEF Finished, Advanced, Touched, TypeOKDB, Row
  <2> QED BY <2>2
<1>3. ASSUME RollbackDB(d)
      PROVE  dep'[d].status # "PROMOTED" /\ dep'[d].weight = 0
  <2>1. PICK g, t : dep' = [dep EXCEPT ![d] = Finished(@, "ROLLED_BACK", 0, g, t)]
    BY <1>3 DEF RollbackDB, FinishDB
  <2>2. dep'[d].status = "ROLLED_BACK" /\ dep'[d].weight = 0
    BY <2>1, <1>1 DEF Finished, Advanced, Touched, TypeOKDB, Row
  <2> QED BY <2>2
<1>4. ASSUME AdvanceDB(d)
      PROVE  dep'[d].status # "ROLLED_BACK"
  <2> DEFINE g == generation[dep[d].model] + 1
             w == NextStage(dep[d].weight)
  <2>1. dep' = [dep EXCEPT ![d] = Advanced(@, w, g)]
    BY <1>4 DEF AdvanceDB
  <2> HIDE DEF g, w
  <2>2. dep'[d].status = dep[d].status
    BY <2>1, <1>1 DEF Advanced, Touched, TypeOKDB, Row
  <2>3. dep[d].status \in ACTIVE_STATUSES
    BY <1>4 DEF AdvanceDB
  <2> QED BY <2>2, <2>3 DEF ACTIVE_STATUSES
<1>5. ASSUME RecordInconclusiveDB(d)
      PROVE  /\ dep'[d].status \notin {"ROLLED_BACK", "PROMOTED"}
             /\ dep'[d].weight = dep[d].weight
  <2>1. PICK t \in Stamps(d) : dep' = [dep EXCEPT ![d] = Retried(@, dep[d].retries + 1, t)]
    BY <1>5 DEF RecordInconclusiveDB
  <2> DEFINE n == dep[d].retries + 1
  <2>2. n \in Nat /\ t \in Nat
    BY <1>1 DEF Row, Stamps
  <2>3. dep'[d] = Retried(dep[d], n, t)
    BY <2>1 DEF TypeOKDB
  <2> HIDE DEF n
  <2>4. /\ dep'[d].status \in {dep[d].status, "INCONCLUSIVE"}
        /\ dep'[d].weight = dep[d].weight
    BY <1>1, <2>2, <2>3, RetriedFacts
  <2>5. dep[d].status \in ACTIVE_STATUSES
    BY <1>5 DEF RecordInconclusiveDB
  <2> QED BY <2>4, <2>5 DEF ACTIVE_STATUSES
<1> QED BY <1>2, <1>3, <1>4, <1>5

\* No other step ends a call and changes the rollout.
LEMMA OnlyActActs ==
  ASSUME TypeOK, [Next]_vars, WorkerActs
  PROVE  Act
<1>1. call.pc = "act" /\ call'.pc = "idle" /\ dep' # dep /\ call' # call
  BY DEF WorkerActs
<1>2. ~(UNCHANGED vars) /\ ~Create /\ ~Operate /\ ~TimePasses
  BY <1>1 DEF vars, Create, Operate, TimePasses, Tick
<1>3. ~(\E r \in rows["canary"] : LabelArrives(r))
  BY <1>1 DEF LabelArrives
<1>4. ~CallFails
  BY <1>1 DEF CallFails, dbvars
<1>5. ~Begin /\ ~QueryStable /\ ~QueryCanary /\ ~QueryQuality
  BY <1>1, CallSteps
<1> QED BY <1>2, <1>3, <1>4, <1>5 DEF Next, WorkerStep

\* The action has the evidence its verdict was read with.
LEMMA ActEarned ==
  ASSUME LedgerInv, TypeOK, EarnedInv, [Next]_vars, WorkerActs
  PROVE  /\ dep'[Rollout].status = "ROLLED_BACK" => harmed
         /\ dep'[Rollout].weight > dep[Rollout].weight \/ dep'[Rollout].status = "PROMOTED"
              => Config.minimum_recall = 0 \/ confirmed
<1> USE RolloutAssumption
<1>1. TakeAction(Rollout, call.verdict, call.full) /\ call.pc = "act" /\ dep' # dep
  BY OnlyActActs DEF Act, WorkerActs
<1>2. call.verdict \in Results /\ call.full \in BOOLEAN
  BY DEF TypeOK, Call
<1>3. /\ call.verdict = "FAIL" => harmed
      /\ call.verdict = "PASS" => Config.minimum_recall = 0 \/ confirmed
  BY <1>1 DEF EarnedInv, CallEvidence
<1>4. dep[Rollout].weight \in Nat
  BY DEF LedgerInv, TypeOKDB, Row
<1>5. \/ call.verdict = "FAIL" /\ RollbackDB(Rollout)
      \/ call.verdict = "PASS" /\ (PromoteDB(Rollout) \/ AdvanceDB(Rollout))
      \/ RecordInconclusiveDB(Rollout)
  BY <1>1, <1>2, TakeActionFacts DEF dbvars
<1> QED BY <1>3, <1>4, <1>5, ActionFacts

\* All of it in every reachable state.
LEMMA EarnedInvariant == Spec => [](LedgerInv /\ TypeOK /\ EarnedInv)
BY TypeInit, TypeStep, EarnedInit, EarnedStep, PTL DEF Spec

\* However the three queries, the labels, the ticks and the operators interleave, the
\* worker rolls nothing back that did no harm.
THEOREM RollbackEarnedTheorem == Spec => RollbackEarned
<1> DEFINE Earned == WorkerActs /\ dep'[Rollout].status = "ROLLED_BACK" => harmed
<1>1. LedgerInv /\ TypeOK /\ EarnedInv /\ [Next]_vars => [Earned]_vars
  BY ActEarned
<1> QED BY <1>1, EarnedInvariant, PTL DEF Spec, RollbackEarned

\* With any minimum_recall but 0 the worker gives no canary more traffic, and promotes
\* none, before one of its positive predictions was confirmed.  With 0, which the policy
\* allows, a recall of 0 passes and the property fails.
THEOREM AdvanceEarnedTheorem ==
  ASSUME Config.minimum_recall # 0
  PROVE  Spec => AdvanceEarned
<1> DEFINE Earned == WorkerActs /\ (dep'[Rollout].weight > dep[Rollout].weight
                                    \/ dep'[Rollout].status = "PROMOTED") => confirmed
<1>1. LedgerInv /\ TypeOK /\ EarnedInv /\ [Next]_vars => [Earned]_vars
  BY ActEarned
<1> QED BY <1>1, EarnedInvariant, PTL DEF Spec, AdvanceEarned
=============================================================================
