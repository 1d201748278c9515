--------------------------- MODULE RolloutsProofs ---------------------------
(***************************************************************************)
(* The ledger of rollouts, proved for every set of deployments, models,    *)
(* keys and initial weights: LedgerInv is inductive, it implies what the   *)
(* router and the reconciler rely on, and the query of the authoritative   *)
(* allocation implements DesiredRouting.                                   *)
(***************************************************************************)
EXTENDS RolloutsRouting, TLAPS

\* The status classes, spelled out once.
LEMMA StatusFacts ==
  /\ IN_FLIGHT_STATUSES = {"PENDING", "DEPLOYING", "CANARY_RUNNING", "EVALUATING",
                           "PROMOTING", "ROLLING_BACK", "INCONCLUSIVE"}
  /\ \A s \in DURABLE_STATUSES \cup {"ABSENT"} :
       /\ s \in TERMINAL_STATUSES <=> s \in {"PROMOTED", "ROLLED_BACK"}
       /\ s \in IN_FLIGHT_STATUSES <=> s \in {"CANARY_RUNNING", "INCONCLUSIVE"}
       /\ s \in ACTIVE_STATUSES <=> s = "CANARY_RUNNING"
BY DEF IN_FLIGHT_STATUSES, DeploymentStatus, TERMINAL_STATUSES, ACTIVE_STATUSES,
       DURABLE_STATUSES

\* A rollout can only be finished while it is running or frozen.
LEMMA FinishFacts ==
  ASSUME NEW s \in DURABLE_STATUSES \cup {"ABSENT"}, s # "ABSENT",
         \/ CanFinish(s, "PROMOTING", "PROMOTED")
         \/ CanFinish(s, "ROLLING_BACK", "ROLLED_BACK")
  PROVE  s \in {"CANARY_RUNNING", "INCONCLUSIVE"}
BY DEF DURABLE_STATUSES, CanFinish, CanAutoAdvanceTo, AutoAdvanced, Allowed,
       ALLOWED_TRANSITIONS, DeploymentStatus

\* The next stage exists while the ramp is not over, and is a percentage above.
LEMMA NextStageFacts ==
  ASSUME NEW w \in 0..100, ~AtFinalStage(w)
  PROVE  NextStage(w) \in TRAFFIC_STAGES \cap 0..100 /\ NextStage(w) > w
<1> DEFINE P(x) == x > w /\ \A v \in TRAFFIC_STAGES : v > w => x <= v
<1>1. \E x \in TRAFFIC_STAGES : P(x)
  <2>1. CASE w < 10
    BY <2>1 DEF TRAFFIC_STAGES
  <2>2. CASE w >= 10 /\ w < 25
    BY <2>2 DEF TRAFFIC_STAGES
  <2>3. CASE w >= 25 /\ w < 50
    BY <2>3 DEF TRAFFIC_STAGES
  <2>4. CASE w >= 50
    BY <2>4 DEF TRAFFIC_STAGES, AtFinalStage
  <2> QED BY <2>1, <2>2, <2>3, <2>4
<1>2. NextStage(w) \in TRAFFIC_STAGES /\ P(NextStage(w))
  <2> HIDE DEF P
  <2>1. NextStage(w) = CHOOSE x \in TRAFFIC_STAGES : P(x)
    BY DEF NextStage, P
  <2> QED BY <1>1, <2>1
<1> QED BY <1>2 DEF TRAFFIC_STAGES

-----------------------------------------------------------------------------
LEMMA LedgerInit == InitDB => LedgerInv
<1> SUFFICES ASSUME InitDB PROVE LedgerInv
  OBVIOUS
<1>1. \A d \in Deployments : dep[d] = NoRow
  BY DEF InitDB
<1>2. \A d \in Deployments :
        dep[d].status = "ABSENT" /\ dep[d].key = None /\ ~InFlight(d)
  BY <1>1 DEF InFlight, NoRow, IN_FLIGHT_STATUSES, DeploymentStatus
<1>3. TypeOKDB
  BY DEF InitDB, TypeOKDB, Row, NoRow
<1>4. RowsWellFormed
  BY <1>1, <1>2 DEF RowsWellFormed, Exists
<1>5. NewestExists
  BY DEF InitDB, NewestExists
<1> QED
  BY <1>2, <1>3, <1>4, <1>5 DEF LedgerInv, OneInFlight, RowsChained, SameModel,
     Exists, KeysUnique

\* Inserting a row for a model that has none in flight: it becomes the last of
\* the model's chain.
LEMMA CreatePreserves ==
  ASSUME LedgerInv,
         NEW d \in Deployments, NEW m \in Models, NEW key \in Keys \cup {None},
         NEW w \in InitialWeights, NEW paused \in BOOLEAN,
         CreateDB(d, m, key, w, paused)
  PROVE  LedgerInv'
<1> DEFINE g == generation[m] + 1
           r == NewRow(m, key, w, paused, g)
<1> USE DEF LedgerInv
<1>1. /\ dep' = [dep EXCEPT ![d] = r]
      /\ generation' = [generation EXCEPT ![m] = g]
      /\ clock' = clock + 1
      /\ ~Exists(d)
      /\ Rows(m, IN_FLIGHT_STATUSES) = {}
      /\ ~KeyTaken(key)
  BY DEF CreateDB, MayInsert
<1>2. g \in Nat /\ r \in Row /\ g > 0 /\ clock \in Nat /\ generation[m] \in Nat
  BY WeightsAssumption DEF TypeOKDB, Row, NewRow, DeploymentStatus
<1>3. /\ dep'[d] = r
      /\ \A e \in Deployments : e # d => dep'[e] = dep[e]
      /\ \A e \in Deployments : dep[e] \in Row
  BY <1>1 DEF TypeOKDB
<1>4. /\ r.model = m /\ r.key = key /\ r.status = "CANARY_RUNNING"
      /\ r.rev = g /\ r.created = clock
  BY DEF NewRow
<1>5. \A e \in Deployments : Exists(e) /\ dep[e].model = m =>
        /\ dep[e].status \in TERMINAL_STATUSES
        /\ dep[e].created < clock
        /\ dep[e].completed < clock
        /\ dep[e].rev < g
  <2> SUFFICES ASSUME NEW e \in Deployments, Exists(e), dep[e].model = m
               PROVE  /\ dep[e].status \in TERMINAL_STATUSES
                      /\ dep[e].created < clock
                      /\ dep[e].completed < clock
                      /\ dep[e].rev < g
    OBVIOUS
  <2>1. dep[e].status \in DURABLE_STATUSES
    BY DEF RowsWellFormed, Exists
  <2>2. dep[e].status \notin IN_FLIGHT_STATUSES
    BY <1>1 DEF Rows
  <2>3. dep[e].status \in TERMINAL_STATUSES
    BY <2>1, <2>2, StatusFacts DEF DURABLE_STATUSES
  <2> HIDE DEF r, g
  <2>4. dep[e].created \in Nat /\ dep[e].rev \in 1..generation[m]
    BY <1>3 DEF RowsWellFormed, Row
  <2> QED BY <1>2, <2>3, <2>4 DEF RowsWellFormed, g
<1>6. dep[d] = NoRow /\ dep[d].status = "ABSENT" /\ dep[d].model = None
  <2>1. dep[d] = NoRow
    BY <1>1 DEF RowsWellFormed
  <2> QED BY <2>1 DEF NoRow
<1> HIDE DEF r, g
<1>7. TypeOKDB'
  BY <1>1, <1>2 DEF TypeOKDB
<1>8. OneInFlight'
  BY <1>1, <1>3, <1>4 DEF OneInFlight, InFlight, Rows
<1>9. RowsWellFormed'
  <2> SUFFICES ASSUME NEW e \in Deployments
               PROVE  RowsWellFormed!(e)'
    BY DEF RowsWellFormed
  <2>1. CASE e = d
    BY <2>1, <1>1, <1>2, <1>3, <1>4
       DEF Exists, DURABLE_STATUSES, TERMINAL_STATUSES, TypeOKDB, Row
  <2>2. CASE e # d
    <3>1. dep'[e] = dep[e] /\ RowsWellFormed!(e)
      BY <2>2, <1>3 DEF RowsWellFormed
    <3>2. dep[e].model \in Models => generation'[dep[e].model] >= generation[dep[e].model]
                                     /\ generation[dep[e].model] \in Nat
                                     /\ generation'[dep[e].model] \in Nat
      BY <1>1, <1>2 DEF TypeOKDB, g
    <3> QED BY <3>1, <3>2, <1>1, <1>2, <1>3 DEF Exists, Row
  <2> QED BY <2>1, <2>2
<1>10. RowsChained'
  <2> SUFFICES ASSUME NEW e \in Deployments, NEW f \in Deployments,
                      SameModel(e, f)'
               PROVE  RowsChained!(e, f)!2'
    BY DEF RowsChained
  <2>1. CASE e # d /\ f # d
    BY <2>1, <1>3 DEF RowsChained, SameModel, Exists
  <2>2. CASE e = d
    BY <2>2, <1>2, <1>3, <1>4, <1>5 DEF SameModel, Exists, Row
  <2>3. CASE f = d
    BY <2>3, <1>2, <1>3, <1>4, <1>5 DEF SameModel, Exists, Row
  <2> QED BY <2>1, <2>2, <2>3
<1>11. NewestExists'
  <2> SUFFICES ASSUME NEW n \in Models, generation'[n] > 0
               PROVE  \E e \in Deployments : dep'[e].model = n /\ dep'[e].rev = generation'[n]
    BY DEF NewestExists
  <2>1. CASE n = m
    BY <2>1, <1>1, <1>3, <1>4 DEF TypeOKDB
  <2>2. CASE n # m
    <3>1. generation'[n] = generation[n]
      BY <2>2, <1>1 DEF TypeOKDB
    <3>2. PICK e \in Deployments : dep[e].model = n /\ dep[e].rev = generation[n]
      BY <3>1 DEF NewestExists
    <3> QED BY <3>1, <3>2, <1>3, <1>6, NoneAssumption
  <2> QED BY <2>1, <2>2
<1>12. KeysUnique'
  BY <1>1, <1>3, <1>4 DEF KeysUnique, KeyTaken
<1> QED BY <1>7, <1>8, <1>9, <1>10, <1>11, <1>12

\* An update of a row in flight that keeps its identity columns, and either
\* leaves its revision alone or stamps it with the model's next generation.  The
\* row stays the last one of its model's chain.
IsUpdateOf(d, r) ==
  /\ r \in Row
  /\ r.model = dep[d].model /\ r.key = dep[d].key /\ r.created = dep[d].created
  /\ r.version = dep[d].version + 1
  /\ r.status \in DURABLE_STATUSES
  /\ dep' = [dep EXCEPT ![d] = r]
  /\ clock' \in {clock, clock + 1}
  /\ r.status \in TERMINAL_STATUSES =>
       r.completed \in Stamps(d) /\ clock' = clock + 1
  /\ \/ r.rev = dep[d].rev /\ r.weight = dep[d].weight /\ generation' = generation
     \/ /\ r.rev = generation[dep[d].model] + 1
        /\ generation' = [generation EXCEPT ![dep[d].model] = r.rev]

LEMMA UpdatePreserves ==
  ASSUME LedgerInv, NEW d \in Deployments, Exists(d), InFlight(d),
         NEW r, IsUpdateOf(d, r)
  PROVE  LedgerInv'
<1> DEFINE m == dep[d].model
<1> USE DEF LedgerInv
<1>1. /\ dep'[d] = r
      /\ \A e \in Deployments : e # d => dep'[e] = dep[e]
      /\ \A e \in Deployments : dep[e] \in Row
      /\ r \in Row /\ r.model = m /\ r.key = dep[d].key /\ r.created = dep[d].created
      /\ r.status \in DURABLE_STATUSES
  BY DEF TypeOKDB, IsUpdateOf
<1>2. /\ m \in Models /\ generation[m] \in Nat
      /\ clock \in Nat /\ clock' \in Nat /\ clock <= clock'
      /\ dep[d].rev \in 1..generation[m] /\ dep[d].created < clock
  BY DEF RowsWellFormed, IsUpdateOf, TypeOKDB
<1>3. /\ generation' \in [Models -> Nat]
      /\ \A n \in Models : generation[n] <= generation'[n]
      /\ \A n \in Models : n # m => generation'[n] = generation[n]
      /\ r.rev \in Nat /\ dep[d].rev <= r.rev /\ r.rev \in 1..generation'[m]
  BY <1>2 DEF IsUpdateOf, TypeOKDB
<1>4. /\ ~(dep[d].status \in TERMINAL_STATUSES)
      /\ r.status # "ABSENT"
      /\ r.status \in TERMINAL_STATUSES =>
           r.completed \in (r.created + 1)..(clock' - 1)
  BY <1>1, <1>2 DEF InFlight, IN_FLIGHT_STATUSES, DURABLE_STATUSES, IsUpdateOf,
     Stamps, Row
<1>5. TypeOKDB'
  BY <1>1, <1>2, <1>3 DEF TypeOKDB, IsUpdateOf
<1>6. OneInFlight'
  BY <1>1 DEF OneInFlight, InFlight
<1>7. RowsWellFormed'
  <2> SUFFICES ASSUME NEW e \in Deployments
               PROVE  RowsWellFormed!(e)'
    BY DEF RowsWellFormed
  <2>1. CASE e = d
    <3>1. /\ dep'[e] = r /\ r.status # "ABSENT" /\ r.created \in Nat
          /\ r.created < clock'
      BY <2>1, <1>1, <1>2, <1>4 DEF Row
    <3> QED BY <2>1, <3>1, <1>1, <1>2, <1>3, <1>4 DEF Exists
  <2>2. CASE e # d
    <3>1. dep'[e] = dep[e] /\ RowsWellFormed!(e)
      BY <2>2, <1>1 DEF RowsWellFormed
    <3>2. dep[e].model \in Models =>
            /\ generation[dep[e].model] \in Nat
            /\ generation'[dep[e].model] \in Nat
            /\ generation[dep[e].model] <= generation'[dep[e].model]
      BY <1>3 DEF TypeOKDB
    <3> QED BY <3>1, <3>2, <1>1, <1>2 DEF Exists, Row
  <2> QED BY <2>1, <2>2
<1>8. RowsChained'
  <2> SUFFICES ASSUME NEW e \in Deployments, NEW f \in Deployments,
                      SameModel(e, f)'
               PROVE  RowsChained!(e, f)!2'
    BY DEF RowsChained
  <2>1. SameModel(e, f)
    BY <1>1 DEF SameModel, Exists
  <2>2. RowsChained!(e, f)!2
    BY <2>1 DEF RowsChained
  <2>3. CASE e # d /\ f # d
    BY <2>2, <2>3, <1>1
  <2>4. CASE e = d
    BY <2>1, <2>2, <2>4, <1>1, <1>4 DEF SameModel
  <2>5. CASE f = d
    BY <2>1, <2>2, <2>5, <1>1, <1>3 DEF SameModel, Row
  <2> QED BY <2>3, <2>4, <2>5
<1>9. NewestExists'
  <2> SUFFICES ASSUME NEW n \in Models, generation'[n] > 0
               PROVE  \E e \in Deployments : dep'[e].model = n /\ dep'[e].rev = generation'[n]
    BY DEF NewestExists
  <2>1. CASE generation' = generation /\ r.rev = dep[d].rev
    <3>1. PICK e \in Deployments : dep[e].model = n /\ dep[e].rev = generation[n]
      BY <2>1 DEF NewestExists
    <3> QED BY <2>1, <3>1, <1>1
  <2>2. CASE generation' = [generation EXCEPT ![m] = r.rev]
    <3>1. CASE n = m
      BY <2>2, <3>1, <1>1, <1>2 DEF TypeOKDB
    <3>2. CASE n # m
      <4>1. generation'[n] = generation[n]
        BY <3>2, <1>3
      <4>2. PICK e \in Deployments : dep[e].model = n /\ dep[e].rev = generation[n]
        BY <4>1 DEF NewestExists
      <4> QED BY <4>1, <4>2, <3>2, <1>1
    <3> QED BY <3>1, <3>2
  <2> QED BY <2>1, <2>2 DEF IsUpdateOf
<1>10. KeysUnique'
  BY <1>1 DEF KeysUnique
<1> QED BY <1>5, <1>6, <1>7, <1>8, <1>9, <1>10

-----------------------------------------------------------------------------
\* What the row transformers keep and what they write.
NextVersion(r, q) ==
  /\ q.model = r.model /\ q.key = r.key /\ q.created = r.created
  /\ q.version = r.version + 1

LEMMA TouchedFacts ==
  ASSUME NEW r \in Row
  PROVE  /\ Touched(r) \in Row /\ NextVersion(r, Touched(r))
         /\ Touched(r).status = r.status /\ Touched(r).rev = r.rev
         /\ Touched(r).weight = r.weight
BY DEF Touched, Row, NextVersion

LEMMA AdvancedFacts ==
  ASSUME NEW r \in Row, NEW w \in 0..100, NEW g \in Nat
  PROVE  LET q == Advanced(r, w, g) IN
         /\ q \in Row /\ NextVersion(r, q)
         /\ q.status = r.status /\ q.rev = g
<1> DEFINE x == Touched(r)
<1>1. x \in Row /\ NextVersion(r, x) /\ x.status = r.status
  BY TouchedFacts
<1> HIDE DEF x
<1>2. LET q == [x EXCEPT !.weight = w, !.rev = g] IN
      q \in Row /\ NextVersion(r, q) /\ q.status = r.status /\ q.rev = g
  BY <1>1 DEF Row, NextVersion
<1> QED BY <1>2 DEF Advanced, x

LEMMA RetriedFacts ==
  ASSUME NEW r \in Row, NEW n \in Nat, NEW t \in Nat
  PROVE  LET q == Retried(r, n, t) IN
         /\ q \in Row /\ NextVersion(r, q)
         /\ q.status \in {r.status, "INCONCLUSIVE"}
         /\ q.rev = r.rev /\ q.weight = r.weight
<1> DEFINE x == Touched(r)
<1>1. /\ x \in Row /\ NextVersion(r, x) /\ x.status = r.status
      /\ x.rev = r.rev /\ x.weight = r.weight
  BY TouchedFacts
<1> HIDE DEF x
<1>2. LET q == [x EXCEPT !.retries = n, !.status = "INCONCLUSIVE", !.completed = t] IN
      /\ q \in Row /\ NextVersion(r, q) /\ q.status = "INCONCLUSIVE"
      /\ q.rev = r.rev /\ q.weight = r.weight
  BY <1>1 DEF Row, NextVersion, DeploymentStatus
<1>3. LET q == [x EXCEPT !.retries = n] IN
      /\ q \in Row /\ NextVersion(r, q) /\ q.status = r.status
      /\ q.rev = r.rev /\ q.weight = r.weight
  BY <1>1 DEF Row, NextVersion
<1>4. CASE n > MaxRetries
  BY <1>2, <1>4 DEF Retried, x
<1>5. CASE ~(n > MaxRetries)
  BY <1>3, <1>5 DEF Retried, x
<1> QED BY <1>4, <1>5

LEMMA PausedFacts ==
  ASSUME NEW r \in Row, NEW p \in BOOLEAN
  PROVE  LET q == WithPaused(r, p) IN
         /\ q \in Row /\ NextVersion(r, q)
         /\ q.status = r.status /\ q.rev = r.rev /\ q.weight = r.weight
<1> DEFINE x == Touched(r)
<1>1. /\ x \in Row /\ NextVersion(r, x) /\ x.status = r.status
      /\ x.rev = r.rev /\ x.weight = r.weight
  BY TouchedFacts
<1> HIDE DEF x
<1>2. LET q == [x EXCEPT !.paused = p] IN
      /\ q \in Row /\ NextVersion(r, q) /\ q.status = r.status
      /\ q.rev = r.rev /\ q.weight = r.weight
  BY <1>1 DEF Row, NextVersion
<1> QED BY <1>2 DEF WithPaused, x

-----------------------------------------------------------------------------
\* Ending a rollout is such an update.
LEMMA FinishIsUpdate ==
  ASSUME LedgerInv, NEW d \in Deployments, NEW through,
         NEW s \in {"PROMOTED", "ROLLED_BACK"}, NEW w \in 0..100,
         FinishDB(d, through, s, w)
  PROVE  \E r : IsUpdateOf(d, r)
<1> PICK t \in Stamps(d) :
      /\ dep' = [dep EXCEPT ![d] = Finished(@, s, w, generation[dep[d].model] + 1, t)]
      /\ generation' = [generation EXCEPT ![dep[d].model] =
                          generation[dep[d].model] + 1]
  BY DEF FinishDB
<1> DEFINE g == generation[dep[d].model] + 1
           x == Advanced(dep[d], w, g)
           r == [x EXCEPT !.status = s, !.completed = t]
<1>1. /\ Exists(d) /\ dep[d] \in Row /\ dep[d].model \in Models
      /\ g \in Nat /\ clock \in Nat /\ clock' = clock + 1
  BY DEF LedgerInv, RowsWellFormed, TypeOKDB, FinishDB, MayUpdate, Exists
<1>2. s \in DeploymentStatus /\ s \in DURABLE_STATUSES /\ t \in Nat
  BY <1>1 DEF DeploymentStatus, DURABLE_STATUSES, Stamps, Row
<1>3. dep' = [dep EXCEPT ![d] = r] /\ generation' = [generation EXCEPT ![dep[d].model] = g]
  BY DEF Finished
<1> HIDE DEF g
<1>4. x \in Row /\ NextVersion(dep[d], x) /\ x.rev = g
  BY <1>1, AdvancedFacts
<1> HIDE DEF x
<1>5. /\ r \in Row /\ NextVersion(dep[d], r)
      /\ r.status = s /\ r.rev = g /\ r.completed = t
  BY <1>2, <1>4 DEF Row, NextVersion
<1> HIDE DEF r
<1>6. IsUpdateOf(d, r)
  BY <1>1, <1>2, <1>3, <1>5 DEF NextVersion, IsUpdateOf, g
<1> QED BY <1>6

\* Every update operation of the control plane is such an update.
LEMMA UpdateIsUpdate ==
  ASSUME LedgerInv, NEW d \in Deployments, UpdateDB(d)
  PROVE  /\ Exists(d) /\ InFlight(d)
         /\ \E r : IsUpdateOf(d, r)
<1> DEFINE g == generation[dep[d].model] + 1
<1> USE DEF LedgerInv
<1>1. /\ Exists(d) /\ dep[d] \in Row /\ dep[d].status \in DURABLE_STATUSES
      /\ dep[d].model \in Models /\ g \in Nat /\ clock \in Nat
  BY DEF UpdateDB, PromoteDB, RollbackDB, FinishDB, AdvanceDB, RecordInconclusiveDB,
     SetPausedDB, MayUpdate, RowsWellFormed, TypeOKDB, Exists
<1>2. \A t \in Stamps(d) : t \in Nat
  BY <1>1 DEF Stamps, Row
<1>3. CASE PromoteDB(d)
  <2>1. \E r : IsUpdateOf(d, r)
    BY <1>1, <1>3, FinishIsUpdate DEF PromoteDB
  <2>2. InFlight(d)
    BY <1>1, <1>3, FinishFacts, StatusFacts
       DEF PromoteDB, FinishDB, InFlight, Exists
  <2> QED BY <1>1, <2>1, <2>2
<1>4. CASE RollbackDB(d)
  <2>1. \E r : IsUpdateOf(d, r)
    BY <1>1, <1>4, FinishIsUpdate DEF RollbackDB
  <2>2. InFlight(d)
    BY <1>1, <1>4, FinishFacts, StatusFacts
       DEF RollbackDB, FinishDB, InFlight, Exists
  <2> QED BY <1>1, <2>1, <2>2
<1> HIDE DEF g
<1>5. CASE AdvanceDB(d)
  <2> DEFINE r == Advanced(dep[d], NextStage(dep[d].weight), g)
  <2>1. NextStage(dep[d].weight) \in 0..100
    BY <1>1, <1>5, NextStageFacts DEF AdvanceDB, Row
  <2>2. /\ r \in Row
        /\ NextVersion(dep[d], r)
        /\ r.status = dep[d].status /\ r.rev = g
    BY <1>1, <2>1, AdvancedFacts
  <2>3. dep[d].status \notin TERMINAL_STATUSES /\ InFlight(d)
    BY <1>1, <1>5, StatusFacts DEF AdvanceDB, InFlight
  <2>4. IsUpdateOf(d, r)
    BY <1>1, <1>5, <2>2, <2>3 DEF NextVersion, IsUpdateOf, AdvanceDB, TypeOKDB, g
  <2> QED BY <1>1, <2>3, <2>4
<1>6. CASE RecordInconclusiveDB(d)
  <2>1. PICK t \in Stamps(d) : dep' = [dep EXCEPT ![d] = Retried(@, dep[d].retries + 1, t)]
    BY <1>6 DEF RecordInconclusiveDB
  <2> DEFINE n == dep[d].retries + 1
             r == Retried(dep[d], n, t)
  <2>2. /\ r \in Row
        /\ NextVersion(dep[d], r)
        /\ r.status \in {dep[d].status, "INCONCLUSIVE"}
        /\ r.rev = dep[d].rev /\ r.weight = dep[d].weight
    <3>1. n \in Nat /\ t \in Nat
      BY <1>1, <1>2 DEF Row
    <3> HIDE DEF n
    <3> QED BY <1>1, <3>1, RetriedFacts
  <2>3. /\ dep[d].status \notin TERMINAL_STATUSES /\ InFlight(d)
        /\ r.status \notin TERMINAL_STATUSES
    BY <1>1, <1>6, <2>2, StatusFacts
       DEF RecordInconclusiveDB, InFlight, TERMINAL_STATUSES
  <2>4. IsUpdateOf(d, r)
    BY <1>1, <1>6, <2>1, <2>2, <2>3
       DEF NextVersion, IsUpdateOf, RecordInconclusiveDB, DURABLE_STATUSES, TypeOKDB
  <2> QED BY <1>1, <2>3, <2>4
<1>7. ASSUME NEW p \in BOOLEAN, SetPausedDB(d, p)
      PROVE  InFlight(d) /\ \E r : IsUpdateOf(d, r)
  <2> DEFINE r == WithPaused(dep[d], p)
  <2>1. /\ r \in Row
        /\ NextVersion(dep[d], r)
        /\ r.status = dep[d].status
        /\ r.rev = dep[d].rev /\ r.weight = dep[d].weight
    BY <1>1, PausedFacts
  <2>2. InFlight(d) /\ dep[d].status \notin TERMINAL_STATUSES
    BY <1>7 DEF SetPausedDB, InFlight, IN_FLIGHT_STATUSES
  <2>3. IsUpdateOf(d, r)
    BY <1>1, <1>7, <2>1, <2>2 DEF NextVersion, IsUpdateOf, SetPausedDB, TypeOKDB
  <2> QED BY <2>2, <2>3
<1> QED BY <1>1, <1>3, <1>4, <1>5, <1>6, <1>7 DEF UpdateDB

LEMMA LedgerStep == LedgerInv /\ [NextDB]_dbvars => LedgerInv'
<1> SUFFICES ASSUME LedgerInv, [NextDB]_dbvars PROVE LedgerInv'
  OBVIOUS
<1>1. CASE UNCHANGED dbvars
  BY <1>1 DEF dbvars, LedgerInv, TypeOKDB, OneInFlight, InFlight, RowsWellFormed,
     Exists, RowsChained, SameModel, NewestExists, KeysUnique
<1>2. ASSUME NEW d \in Deployments, NEW m \in Models, NEW key \in Keys \cup {None},
             NEW w \in InitialWeights, NEW paused \in BOOLEAN,
             CreateDB(d, m, key, w, paused)
      PROVE  LedgerInv'
  BY <1>2, CreatePreserves
<1>3. ASSUME NEW d \in Deployments, UpdateDB(d)
      PROVE  LedgerInv'
  BY <1>3, UpdateIsUpdate, UpdatePreserves
<1> QED BY <1>1, <1>2, <1>3 DEF NextDB

\* The ledger invariant holds in every reachable state: types, one rollout in
\* flight per model, only durable statuses committed, one chain of rows per model.
THEOREM LedgerInvariant == SpecDB => []LedgerInv
BY LedgerInit, LedgerStep, PTL DEF SpecDB

-----------------------------------------------------------------------------
\* Seen from one row: every change of it bumps its version, and while it is in
\* flight its model's generation only moves with such a change.
LEMMA StepSeenFromRow ==
  ASSUME LedgerInv, [NextDB]_dbvars, NEW d \in Deployments, Exists(d)
  PROVE  /\ clock \in Nat /\ clock' \in Nat /\ clock <= clock'
         /\ \/ /\ dep'[d].version = dep[d].version + 1
               /\ InFlight(d) /\ dep'[d].status \in DURABLE_STATUSES
            \/ /\ dep'[d] = dep[d]
               /\ InFlight(d) =>
                    generation'[dep[d].model] = generation[dep[d].model]
<1> USE DEF LedgerInv
<1>1. dep[d].model \in Models /\ clock \in Nat
  BY DEF RowsWellFormed, TypeOKDB
<1>2. CASE UNCHANGED dbvars
  BY <1>1, <1>2 DEF dbvars
<1>3. ASSUME NEW c \in Deployments, NEW m \in Models, NEW key \in Keys \cup {None},
             NEW w \in InitialWeights, NEW paused \in BOOLEAN,
             CreateDB(c, m, key, w, paused)
      PROVE  /\ clock' \in Nat /\ clock <= clock' /\ dep'[d] = dep[d]
             /\ InFlight(d) => generation'[dep[d].model] = generation[dep[d].model]
  <2>1. c # d
    BY <1>3 DEF CreateDB
  <2>2. dep'[d] = dep[d] /\ clock' = clock + 1
    BY <1>3, <2>1 DEF CreateDB, TypeOKDB
  <2>3. InFlight(d) => dep[d].model # m
    BY <1>3 DEF CreateDB, MayInsert, Rows, InFlight
  <2> QED BY <1>1, <1>3, <2>2, <2>3 DEF CreateDB, TypeOKDB
<1>4. ASSUME NEW c \in Deployments, UpdateDB(c)
      PROVE  /\ clock' \in Nat /\ clock <= clock'
             /\ \/ /\ dep'[d].version = dep[d].version + 1
                   /\ InFlight(d) /\ dep'[d].status \in DURABLE_STATUSES
                \/ /\ dep'[d] = dep[d]
                   /\ InFlight(d) =>
                        generation'[dep[d].model] = generation[dep[d].model]
  <2>1. Exists(c) /\ InFlight(c)
    BY <1>4, UpdateIsUpdate
  <2>2. PICK r : IsUpdateOf(c, r)
    BY <1>4, UpdateIsUpdate
  <2>3. clock' \in Nat /\ clock <= clock'
    BY <1>1, <2>2 DEF IsUpdateOf
  <2>4. CASE c = d
    BY <2>1, <2>2, <2>3, <2>4 DEF IsUpdateOf, TypeOKDB
  <2>5. CASE c # d
    <3>1. dep'[d] = dep[d]
      BY <2>2, <2>5 DEF IsUpdateOf, TypeOKDB
    <3>2. InFlight(d) => dep[d].model # dep[c].model
      BY <2>1, <2>5 DEF OneInFlight
    <3>3. InFlight(d) => generation'[dep[d].model] = generation[dep[d].model]
      BY <1>1, <2>2, <3>2 DEF IsUpdateOf, TypeOKDB
    <3> QED BY <2>3, <3>1, <3>3
  <2> QED BY <2>4, <2>5
<1> QED BY <1>1, <1>2, <1>3, <1>4 DEF NextDB

-----------------------------------------------------------------------------
\* The row that was created last holds its model's generation.
LEMMA LatestIsNewest ==
  ASSUME LedgerInv, NEW d \in Deployments, Exists(d),
         \A e \in Deployments : SameModel(d, e) => dep[e].created < dep[d].created
  PROVE  dep[d].rev = generation[dep[d].model]
<1> USE DEF LedgerInv
<1>1. /\ dep[d].model \in Models /\ dep[d].rev \in 1..generation[dep[d].model]
      /\ generation[dep[d].model] \in Nat
  BY DEF RowsWellFormed, TypeOKDB
<1>2. PICK n \in Deployments :
        dep[n].model = dep[d].model /\ dep[n].rev = generation[dep[d].model]
  BY <1>1 DEF NewestExists
<1>3. CASE n = d
  BY <1>2, <1>3
<1>4. CASE n # d
  <2>1. Exists(n)
    BY <1>1, <1>2, NoneAssumption DEF RowsWellFormed, NoRow
  <2>2. SameModel(n, d) /\ SameModel(d, n)
    BY <1>2, <1>4, <2>1 DEF SameModel
  <2>3. dep[n].rev < dep[d].rev
    BY <2>2 DEF RowsChained
  <2> QED BY <1>1, <1>2, <2>3
<1> QED BY <1>3, <1>4

\* Whatever get_authoritative_allocation picks was created last: a row in flight
\* because every earlier one has ended, an ended row because the last one ended
\* after all the others had.
LEMMA AuthoritativeIsLatest ==
  ASSUME LedgerInv, NEW m \in Models, NEW d \in Deployments, IsAuthoritative(d, m)
  PROVE  /\ Exists(d) /\ dep[d].model = m
         /\ \A e \in Deployments : SameModel(d, e) => dep[e].created < dep[d].created
<1> USE DEF LedgerInv
<1>1. /\ dep[d].model = m
      /\ dep[d].status \in ROUTING_STATUSES \cup AUTHORITATIVE_TERMINAL_STATUSES
  BY DEF IsAuthoritative, Rows
<1>2. Exists(d)
  BY <1>1 DEF Exists, ROUTING_STATUSES, ACTIVE_STATUSES,
     AUTHORITATIVE_TERMINAL_STATUSES
<1>3. ASSUME NEW e \in Deployments, SameModel(d, e)
      PROVE  dep[e].created < dep[d].created
  <2>1. SUFFICES ASSUME dep[d].created < dep[e].created PROVE FALSE
    BY <1>3 DEF RowsChained, TypeOKDB, Row
  <2>2. /\ dep[d].status \in TERMINAL_STATUSES
        /\ dep[d].completed < dep[e].created
    BY <1>3, <2>1 DEF RowsChained
  <2>3. d \notin Rows(m, ROUTING_STATUSES)
    BY <2>2 DEF Rows, ROUTING_STATUSES, ACTIVE_STATUSES, TERMINAL_STATUSES
  <2>4. /\ Rows(m, ROUTING_STATUSES) = {}
        /\ \A f \in Rows(m, AUTHORITATIVE_TERMINAL_STATUSES) : CompletedNoLater(f, d)
    BY <2>3 DEF IsAuthoritative
  <2>5. /\ dep[e].model = m /\ dep[e].status \in DURABLE_STATUSES
        /\ Exists(e)
    BY <1>1, <1>3 DEF SameModel, RowsWellFormed, Exists
  <2>6. e \in Rows(m, AUTHORITATIVE_TERMINAL_STATUSES)
    BY <2>4, <2>5 DEF Rows, DURABLE_STATUSES, ROUTING_STATUSES, ACTIVE_STATUSES,
       AUTHORITATIVE_TERMINAL_STATUSES
  <2>7. dep[e].completed \in (dep[e].created + 1)..(clock - 1)
    BY <2>5, <2>6 DEF RowsWellFormed, Rows, AUTHORITATIVE_TERMINAL_STATUSES,
       TERMINAL_STATUSES
  <2>8. CompletedNoLater(e, d)
    BY <2>4, <2>6
  <2>9. /\ dep[e].created \in Nat /\ dep[e].completed \in Nat
        /\ dep[d].created \in Nat /\ dep[d].completed \in Nat /\ clock \in Nat
    BY DEF TypeOKDB, Row
  <2> QED BY <2>2, <2>7, <2>8, <2>9 DEF CompletedNoLater
<1> QED BY <1>1, <1>2, <1>3

\* What the router syncs from and the reconciler enforces was routed last.
THEOREM AuthoritativeIsNewestTheorem == SpecDB => []AuthoritativeIsNewest
<1>1. LedgerInv => AuthoritativeIsNewest
  BY AuthoritativeIsLatest, LatestIsNewest DEF AuthoritativeIsNewest
<1> QED BY <1>1, LedgerInvariant, PTL

\* The row with the model's generation is one get_authoritative_allocation may pick.
LEMMA NewestIsAuthoritative ==
  ASSUME LedgerInv, NEW m \in Models, generation[m] > 0
  PROVE  \E d \in Deployments : IsAuthoritative(d, m)
<1> USE DEF LedgerInv
<1>1. PICK d \in Deployments : dep[d].model = m /\ dep[d].rev = generation[m]
  BY DEF NewestExists
<1>2. Exists(d) /\ dep[d].status \in DURABLE_STATUSES
  BY <1>1, NoneAssumption DEF RowsWellFormed, NoRow, Exists
<1>3. ASSUME NEW e \in Deployments, SameModel(d, e)
      PROVE  /\ dep[e].created < dep[d].created
             /\ dep[e].status \in TERMINAL_STATUSES
             /\ dep[e].completed < dep[d].created
  <2>1. SameModel(e, d)
    BY <1>3 DEF SameModel
  <2>2. dep[e].rev \in 1..generation[m] /\ generation[m] \in Nat
    BY <1>1, <1>3 DEF SameModel, RowsWellFormed, TypeOKDB
  <2>3. ~(dep[d].created < dep[e].created)
    BY <1>1, <1>3, <2>2 DEF RowsChained
  <2>4. dep[e].created < dep[d].created
    BY <1>3, <2>3 DEF RowsChained, TypeOKDB, Row
  <2> QED BY <2>1, <2>4 DEF RowsChained
<1>4. \A e \in Deployments : dep[e].created \in Nat /\ dep[e].completed \in Nat
  BY DEF TypeOKDB, Row
<1>5. ASSUME NEW e \in Deployments, dep[e].model = m, e # d
      PROVE  SameModel(d, e)
  BY <1>1, <1>2, <1>5, NoneAssumption
     DEF SameModel, RowsWellFormed, NoRow, Exists
<1>6. CASE dep[d].status \in ROUTING_STATUSES
  <2>1. d \in Rows(m, ROUTING_STATUSES)
    BY <1>1, <1>6 DEF Rows
  <2>2. \A e \in Rows(m, ROUTING_STATUSES) : dep[e].created <= dep[d].created
    BY <1>3, <1>4, <1>5 DEF Rows
  <2> QED BY <2>1, <2>2 DEF IsAuthoritative
<1>7. CASE dep[d].status \notin ROUTING_STATUSES
  <2>1. d \in Rows(m, AUTHORITATIVE_TERMINAL_STATUSES)
    BY <1>1, <1>2, <1>7 DEF Rows, DURABLE_STATUSES, ROUTING_STATUSES,
       ACTIVE_STATUSES, AUTHORITATIVE_TERMINAL_STATUSES
  <2>2. Rows(m, ROUTING_STATUSES) = {}
    <3>1. \A e \in Deployments : dep[e].status \in TERMINAL_STATUSES =>
            dep[e].status \notin ROUTING_STATUSES
      BY DEF TERMINAL_STATUSES, ROUTING_STATUSES, ACTIVE_STATUSES
    <3> QED BY <1>3, <1>5, <1>7, <3>1 DEF Rows
  <2>3. dep[d].completed > dep[d].created
    <3>1. dep[d].status \in TERMINAL_STATUSES
      BY <2>1 DEF Rows, AUTHORITATIVE_TERMINAL_STATUSES, TERMINAL_STATUSES
    <3>2. dep[d].completed \in (dep[d].created + 1)..(clock - 1)
      BY <1>2, <3>1 DEF RowsWellFormed
    <3> QED BY <1>4, <3>2 DEF TypeOKDB
  <2>4. \A e \in Rows(m, AUTHORITATIVE_TERMINAL_STATUSES) : CompletedNoLater(e, d)
    BY <1>3, <1>4, <1>5, <2>3 DEF Rows, CompletedNoLater
  <2> QED BY <2>1, <2>2, <2>4 DEF IsAuthoritative
<1> QED BY <1>6, <1>7

\* A model that was ever routed always has something to route.
THEOREM AlwaysAuthoritativeTheorem == SpecDB => []AlwaysAuthoritative
<1>1. LedgerInv => AlwaysAuthoritative
  BY NewestIsAuthoritative DEF AlwaysAuthoritative
<1> QED BY <1>1, LedgerInvariant, PTL

\* A weight is only ever written with a revision above all the model has used.
THEOREM RevisionsOnlyGrowTheorem == SpecDB => RevisionsOnlyGrow
<1> DEFINE Routed(d) == dep'[d].rev # dep[d].rev \/ dep'[d].weight # dep[d].weight
<1>1. ASSUME LedgerInv, [NextDB]_dbvars, NEW d \in Deployments, NEW e \in Deployments,
             Routed(d), dep[e].model = dep'[d].model
      PROVE  dep'[d].rev > dep[e].rev
  <2> USE <1>1 DEF LedgerInv
  <2>1. ASSUME NEW m \in Models, dep'[d].model = m,
               dep'[d].rev = generation[m] + 1
        PROVE  dep'[d].rev > dep[e].rev
    <3>1. dep[e].model \in Models /\ generation[m] \in Nat
      BY <2>1 DEF TypeOKDB
    <3>2. dep[e].rev \in 1..generation[m]
      BY <2>1, <3>1, NoneAssumption DEF RowsWellFormed, NoRow
    <3> QED BY <2>1, <3>1, <3>2
  <2>2. CASE UNCHANGED dbvars
    BY <2>2 DEF dbvars
  <2>3. ASSUME NEW c \in Deployments, NEW m \in Models, NEW key \in Keys \cup {None},
               NEW w \in InitialWeights, NEW paused \in BOOLEAN,
               CreateDB(c, m, key, w, paused)
        PROVE  dep'[d].rev > dep[e].rev
    <3>1. d = c
      BY <2>3 DEF CreateDB, TypeOKDB
    <3>2. dep'[d].model = m /\ dep'[d].rev = generation[m] + 1
      BY <2>3, <3>1 DEF CreateDB, TypeOKDB, NewRow
    <3> QED BY <2>1, <3>2
  <2>4. ASSUME NEW c \in Deployments, UpdateDB(c)
        PROVE  dep'[d].rev > dep[e].rev
    <3>1. PICK r : IsUpdateOf(c, r)
      BY <2>4, UpdateIsUpdate
    <3>2. d = c /\ dep'[d] = r
      BY <3>1 DEF IsUpdateOf, TypeOKDB
    <3>3. Exists(c) /\ dep[c].model \in Models
      BY <2>4, UpdateIsUpdate DEF RowsWellFormed
    <3>4. r.model = dep[c].model /\ r.rev = generation[dep[c].model] + 1
      BY <3>1, <3>2 DEF IsUpdateOf
    <3> QED BY <2>1, <3>2, <3>3, <3>4
  <2> QED BY <2>2, <2>3, <2>4 DEF NextDB
<1>2. LedgerInv /\ [NextDB]_dbvars => [WeightWithNewRevision]_dbvars
  BY <1>1 DEF WeightWithNewRevision
<1> QED BY <1>2, LedgerInvariant, PTL DEF SpecDB, RevisionsOnlyGrow

-----------------------------------------------------------------------------
(***************************************************************************)
(* The authoritative allocation, as DesiredRouting has it.                 *)
(***************************************************************************)
\* The row that holds the newest revision of a model, which a chain of rows has at
\* most one of, is the one the query returns.
HoldsNewest(d, m) == dep[d].model = m /\ dep[d].rev = generation[m]

AllocationAt(d, m) ==
  [model |-> m, d |-> d, rev |-> generation[m], weight |-> dep[d].weight]

QueryIsNewest ==
  /\ \A m \in Models :
       generation[m] > 0 => \E d \in Deployments : HoldsNewest(d, m)
  /\ \A m \in Models, d \in Deployments :
       generation[m] > 0 /\ HoldsNewest(d, m) => AllocationOf(m) = AllocationAt(d, m)

LEMMA LedgerQuery == LedgerInv => QueryIsNewest
<1> SUFFICES ASSUME LedgerInv PROVE QueryIsNewest
  OBVIOUS
<1> USE DEF LedgerInv
<1>1. ASSUME NEW m \in Models, generation[m] > 0
      PROVE  \E d \in Deployments : HoldsNewest(d, m)
  BY <1>1 DEF NewestExists, HoldsNewest
<1>2. ASSUME NEW m \in Models, NEW d \in Deployments, generation[m] > 0,
             HoldsNewest(d, m)
      PROVE  AllocationOf(m) = AllocationAt(d, m)
  <2> DEFINE e == CHOOSE f \in Deployments : IsAuthoritative(f, m)
  <2>1. e \in Deployments /\ IsAuthoritative(e, m)
    BY <1>2, NewestIsAuthoritative
  <2> HIDE DEF e
  <2>2. HoldsNewest(e, m) /\ Exists(e)
    BY <2>1, AuthoritativeIsLatest, LatestIsNewest DEF HoldsNewest
  <2>3. Exists(d)
    BY <1>2, NoneAssumption DEF RowsWellFormed, HoldsNewest, NoRow, Exists
  <2>4. ASSUME e # d PROVE FALSE
    <3>1. SameModel(d, e) /\ SameModel(e, d)
      BY <1>2, <2>2, <2>3, <2>4 DEF SameModel, HoldsNewest
    <3>2. /\ dep[d].created \in Nat /\ dep[e].created \in Nat
          /\ dep[d].rev \in Nat /\ dep[e].rev \in Nat
      BY <2>1 DEF TypeOKDB, Row
    <3>3. dep[d].rev < dep[e].rev \/ dep[e].rev < dep[d].rev
      BY <2>1, <3>1, <3>2 DEF RowsChained
    <3> QED BY <1>2, <2>2, <3>2, <3>3 DEF HoldsNewest
  <2>5. AllocationOf(m) = [model |-> m, d |-> e, rev |-> dep[e].rev, weight |-> dep[e].weight]
    BY <1>2 DEF AllocationOf, e
  <2> QED BY <1>2, <2>4, <2>5 DEF AllocationAt, HoldsNewest
<1> QED BY <1>1, <1>2 DEF QueryIsNewest

\* A row in flight is the newest of its model.
LEMMA InFlightIsNewest ==
  ASSUME LedgerInv, NEW d \in Deployments, Exists(d), InFlight(d)
  PROVE  HoldsNewest(d, dep[d].model)
<1> USE DEF LedgerInv
<1>1. ASSUME NEW e \in Deployments, SameModel(d, e)
      PROVE  dep[e].created < dep[d].created
  <2>1. dep[d].created \in Nat /\ dep[e].created \in Nat
    BY DEF TypeOKDB, Row
  <2>2. dep[d].status \notin TERMINAL_STATUSES
    BY DEF InFlight, IN_FLIGHT_STATUSES
  <2> QED BY <1>1, <2>1, <2>2 DEF RowsChained
<1> QED BY <1>1, LatestIsNewest DEF HoldsNewest

\* The weights a routed update writes.
RoutedWeights == InitialWeights \cup TRAFFIC_STAGES \cup {0}

LEMMA UpdateWeights ==
  ASSUME LedgerInv, NEW d \in Deployments, UpdateDB(d)
  PROVE  UNCHANGED generation \/ dep'[d].weight \in RoutedWeights
<1> USE DEF LedgerInv
<1>1. dep[d] \in Row
  BY DEF TypeOKDB
<1>2. CASE PromoteDB(d)
  <2>1. PICK g, t : dep' = [dep EXCEPT ![d] = Finished(@, "PROMOTED", 100, g, t)]
    BY <1>2 DEF PromoteDB, FinishDB
  <2>2. dep'[d].weight = 100
    BY <2>1, <1>1 DEF Finished, Advanced, Touched, TypeOKDB, Row
  <2> QED BY <2>2 DEF RoutedWeights, TRAFFIC_STAGES
<1>3. CASE RollbackDB(d)
  <2>1. PICK g, t : dep' = [dep EXCEPT ![d] = Finished(@, "ROLLED_BACK", 0, g, t)]
    BY <1>3 DEF RollbackDB, FinishDB
  <2>2. dep'[d].weight = 0
    BY <2>1, <1>1 DEF Finished, Advanced, Touched, TypeOKDB, Row
  <2> QED BY <2>2 DEF RoutedWeights
<1>4. CASE AdvanceDB(d)
  <2> DEFINE w == NextStage(dep[d].weight)
  <2>1. PICK g : dep' = [dep EXCEPT ![d] = Advanced(@, w, g)]
    BY <1>4 DEF AdvanceDB
  <2>2. w \in TRAFFIC_STAGES
    BY <1>1, <1>4, NextStageFacts DEF AdvanceDB, Row
  <2> HIDE DEF w
  <2>3. dep'[d].weight = w
    BY <2>1, <1>1 DEF Advanced, Touched, TypeOKDB, Row
  <2> QED BY <2>2, <2>3 DEF RoutedWeights
<1>5. CASE RecordInconclusiveDB(d) \/ \E p \in BOOLEAN : SetPausedDB(d, p)
  BY <1>5 DEF RecordInconclusiveDB, SetPausedDB
<1> QED BY <1>2, <1>3, <1>4, <1>5 DEF UpdateDB

-----------------------------------------------------------------------------
PastOf(m) == {d \in Deployments : dep[d].model = m}

\* A new row takes over its model, as a deployment that was never routed before.
LEMMA CreateRoutes ==
  ASSUME LedgerInv, QueryIsNewest, QueryIsNewest',
         NEW d \in Deployments, NEW m \in Models, NEW key \in Keys \cup {None},
         NEW w \in InitialWeights, NEW paused \in BOOLEAN,
         CreateDB(d, m, key, w, paused)
  PROVE  Desired!Route(m, d, w)
<1> USE DEF LedgerInv
<1> DEFINE g == generation[m] + 1
           r == NewRow(m, key, w, paused, g)
<1>1. /\ dep' = [dep EXCEPT ![d] = r] /\ ~Exists(d)
      /\ generation' = [generation EXCEPT ![m] = g]
  BY DEF CreateDB
<1>2. r.model = m /\ r.rev = g /\ r.weight = w
  BY DEF NewRow
<1>3. generation[m] \in Nat /\ dep[d].model = None
  BY <1>1 DEF TypeOKDB, RowsWellFormed, NoRow
<1> HIDE DEF r
<1>4. /\ dep'[d] = r /\ generation'[m] = g
      /\ \A e \in Deployments : e # d => dep'[e] = dep[e]
      /\ \A n \in Models : n # m => generation'[n] = generation[n]
  BY <1>1 DEF TypeOKDB
<1>5. AllocationOf(m)' = [model |-> m, d |-> d, rev |-> g, weight |-> w]
  BY <1>2, <1>3, <1>4 DEF QueryIsNewest, HoldsNewest, AllocationAt
<1>6. ASSUME NEW n \in Models, n # m
      PROVE  AllocationOf(n)' = AllocationOf(n)
  <2>1. CASE generation[n] = 0
    BY <1>4, <1>6, <2>1 DEF AllocationOf
  <2>2. CASE generation[n] # 0
    <3>1. generation[n] > 0
      BY <2>2 DEF TypeOKDB
    <3>2. PICK e \in Deployments : HoldsNewest(e, n)
      BY <3>1 DEF QueryIsNewest
    <3>3. e # d
      BY <1>3, <3>2, NoneAssumption DEF HoldsNewest
    <3>4. HoldsNewest(e, n)' /\ generation'[n] > 0
      BY <1>4, <1>6, <3>1, <3>2, <3>3 DEF HoldsNewest
    <3> QED BY <1>4, <1>6, <3>1, <3>2, <3>3, <3>4 DEF QueryIsNewest, AllocationAt
  <2> QED BY <2>1, <2>2
<1>7. AllocationOf(m).rev = generation[m]
  <2>1. CASE generation[m] = 0
    BY <2>1 DEF AllocationOf
  <2>2. CASE generation[m] > 0
    BY <2>2 DEF QueryIsNewest, AllocationAt
  <2> QED BY <1>3, <2>1, <2>2
<1>8. \A n \in Models : d \notin PastOf(n)
  BY <1>3, NoneAssumption DEF PastOf
<1>9. /\ PastOf(m)' = PastOf(m) \cup {d}
      /\ \A n \in Models : n # m => PastOf(n)' = PastOf(n)
  BY <1>2, <1>3, <1>4, NoneAssumption DEF PastOf
<1> HIDE DEF g
<1>10. [n \in Models |-> AllocationOf(n)]' =
         [[n \in Models |-> AllocationOf(n)] EXCEPT ![m] =
            [model |-> m, d |-> d, rev |-> @.rev + 1, weight |-> w]]
  BY <1>5, <1>6, <1>7 DEF g
<1>11. [n \in Models |-> PastOf(n)]' =
         [[n \in Models |-> PastOf(n)] EXCEPT ![m] = @ \cup {d}]
  BY <1>9
<1> QED BY <1>8, <1>10, <1>11 DEF Desired!Route, PastOf

\* An update of the row in flight routes it again, or leaves routing alone.
LEMMA UpdateRoutes ==
  ASSUME LedgerInv, QueryIsNewest, QueryIsNewest',
         NEW d \in Deployments, UpdateDB(d)
  PROVE  \/ \E m \in Models, w \in RoutedWeights : Desired!Route(m, d, w)
         \/ \A n \in Models : AllocationOf(n)' = AllocationOf(n) /\ PastOf(n)' = PastOf(n)
<1> USE DEF LedgerInv
<1>1. Exists(d) /\ InFlight(d) /\ \E r : IsUpdateOf(d, r)
  BY UpdateIsUpdate
<1>0. PICK m \in Models : m = dep[d].model
  BY <1>1 DEF RowsWellFormed
<1> DEFINE g == generation[m] + 1
<1>2. PICK r : IsUpdateOf(d, r)
  BY <1>1
<1>3. /\ m \in Models /\ generation[m] \in Nat /\ generation[m] > 0
      /\ HoldsNewest(d, m)
  BY <1>0, <1>1, InFlightIsNewest DEF RowsWellFormed, TypeOKDB
<1>4. /\ dep'[d] = r /\ r.model = m
      /\ \A e \in Deployments : e # d => dep'[e] = dep[e]
  BY <1>0, <1>2 DEF IsUpdateOf, TypeOKDB
<1>5. \A n \in Models : PastOf(n)' = PastOf(n)
  BY <1>0, <1>4 DEF PastOf
<1>6. ASSUME NEW n \in Models, generation'[n] = generation[n],
             n # m \/ (r.rev = dep[d].rev /\ r.weight = dep[d].weight)
      PROVE  AllocationOf(n)' = AllocationOf(n)
  <2>1. CASE generation[n] = 0
    BY <1>6, <2>1 DEF AllocationOf
  <2>2. CASE generation[n] # 0
    <3>1. generation[n] > 0
      BY <2>2 DEF TypeOKDB
    <3>2. PICK e \in Deployments : HoldsNewest(e, n)
      BY <3>1 DEF QueryIsNewest
    <3>3. dep'[e].model = dep[e].model /\ dep'[e].rev = dep[e].rev
          /\ dep'[e].weight = dep[e].weight
      BY <1>0, <1>4, <1>6, <3>2 DEF HoldsNewest
    <3>4. HoldsNewest(e, n)'
      BY <1>6, <3>2, <3>3 DEF HoldsNewest
    <3> QED BY <1>6, <3>1, <3>2, <3>3, <3>4 DEF QueryIsNewest, AllocationAt
  <2> QED BY <2>1, <2>2
<1>7. CASE r.rev = dep[d].rev /\ r.weight = dep[d].weight /\ generation' = generation
  BY <1>5, <1>6, <1>7
<1>8. CASE r.rev = g /\ generation' = [generation EXCEPT ![m] = r.rev]
  <2>1. /\ generation'[m] = g
        /\ \A n \in Models : n # m => generation'[n] = generation[n]
    BY <1>3, <1>8 DEF TypeOKDB
  <2>2. r.weight \in RoutedWeights
    BY <1>3, <1>4, <2>1, UpdateWeights
  <2>3. AllocationOf(m)' = [model |-> m, d |-> d, rev |-> g, weight |-> r.weight]
    BY <1>3, <1>4, <1>8, <2>1 DEF QueryIsNewest, HoldsNewest, AllocationAt
  <2>4. AllocationOf(m).d = d /\ AllocationOf(m).rev = generation[m]
    BY <1>3 DEF QueryIsNewest, AllocationAt
  <2>5. d \in PastOf(m)
    BY <1>0 DEF PastOf
  <2>6. \A n \in Models : n # m => AllocationOf(n)' = AllocationOf(n)
    BY <1>6, <2>1
  <2> HIDE DEF g
  <2>7. Desired!Route(m, d, r.weight)
    <3>1. [n \in Models |-> AllocationOf(n)]' =
            [[n \in Models |-> AllocationOf(n)] EXCEPT ![m] =
               [model |-> m, d |-> d, rev |-> @.rev + 1, weight |-> r.weight]]
      BY <1>3, <2>3, <2>4, <2>6 DEF g
    <3>2. [n \in Models |-> PastOf(n)]' =
            [[n \in Models |-> PastOf(n)] EXCEPT ![m] = @ \cup {d}]
      BY <1>3, <1>5, <2>5
    <3>3. d = [n \in Models |-> AllocationOf(n)][m].d
      BY <1>3, <2>4
    <3> QED BY <3>1, <3>2, <3>3 DEF Desired!Route, PastOf
  <2> QED BY <1>3, <2>2, <2>7
<1> QED BY <1>0, <1>2, <1>7, <1>8 DEF IsUpdateOf

\* What the database offers for routing, queried from its rows, only moves forward:
\* every operation is a step of DesiredRouting or leaves routing alone.
THEOREM RoutesForwardTheorem == SpecDB => RoutesForward
<1>1. InitDB => Desired!DesiredInit
  <2> SUFFICES ASSUME InitDB PROVE Desired!DesiredInit
    OBVIOUS
  <2>1. \A m \in Models : AllocationOf(m) = Desired!NoAllocation(m)
    BY DEF InitDB, AllocationOf, Desired!NoAllocation
  <2>2. \A m \in Models : PastOf(m) = {}
    BY NoneAssumption DEF InitDB, NoRow, PastOf
  <2> QED BY <2>1, <2>2 DEF Desired!DesiredInit, PastOf
<1>2. LedgerInv /\ QueryIsNewest /\ QueryIsNewest' /\ [NextDB]_dbvars =>
        [Desired!DesiredNext]_(Desired!desiredvars)
  <2> SUFFICES ASSUME LedgerInv, QueryIsNewest, QueryIsNewest', [NextDB]_dbvars
               PROVE  Desired!DesiredNext \/ UNCHANGED Desired!desiredvars
    OBVIOUS
  <2>1. ASSUME \A n \in Models : AllocationOf(n)' = AllocationOf(n) /\ PastOf(n)' = PastOf(n)
        PROVE  UNCHANGED Desired!desiredvars
    BY <2>1 DEF Desired!desiredvars, PastOf
  <2>2. CASE UNCHANGED dbvars
    BY <2>1, <2>2 DEF dbvars, AllocationOf, IsAuthoritative, Rows, CompletedNoLater, PastOf
  <2>3. ASSUME NEW d \in Deployments, NEW m \in Models, NEW key \in Keys \cup {None},
               NEW w \in InitialWeights, NEW paused \in BOOLEAN,
               CreateDB(d, m, key, w, paused)
        PROVE  Desired!DesiredNext
    BY <2>3, CreateRoutes DEF Desired!DesiredNext
  <2>4. ASSUME NEW d \in Deployments, UpdateDB(d)
        PROVE  Desired!DesiredNext \/ UNCHANGED Desired!desiredvars
    BY <2>1, <2>4, UpdateRoutes DEF Desired!DesiredNext, RoutedWeights
  <2> QED BY <2>2, <2>3, <2>4 DEF NextDB
<1> QED BY <1>1, <1>2, LedgerInvariant, LedgerQuery, PTL
           DEF SpecDB, RoutesForward, Desired!DesiredSpec
=============================================================================
