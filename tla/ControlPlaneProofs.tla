------------------------- MODULE ControlPlaneProofs -------------------------
(***************************************************************************)
(* Optimistic locking makes the interleaved handlers serializable, for any *)
(* number of sessions, deployments and models: every step of ControlPlane  *)
(* is a step of Rollouts or leaves the database alone.                     *)
(***************************************************************************)
EXTENDS ControlPlane, RolloutsProofs

\* The part of Inv that speaks of one session.
SessionOK(s) ==
  /\ sess[s] \in Session
  /\ SessionInv!(s)
  /\ FreshSnapshot!(s)

LEMMA InvIsPerSession ==
  Inv <=> /\ LedgerInv
          /\ DOMAIN sess = Sessions /\ sess = [s \in Sessions |-> sess[s]]
          /\ \A s \in Sessions : SessionOK(s)
BY DEF Inv, LedgerInv, TypeOK, SessionInv, FreshSnapshot, SessionOK

\* A request that is accepted is one for a rollout in flight, and the ones that
\* are accepted after it was frozen are decisions, pauses and resumes.
LEMMA AcceptedIsInFlight ==
  ASSUME NEW r \in Row, NEW op \in UpdateOps, Accepts(op, r),
         r.status \in DURABLE_STATUSES
  PROVE  r.status \in IN_FLIGHT_STATUSES
<1>1. CASE op = "promote"
  BY <1>1, FinishFacts, StatusFacts DEF Accepts, DURABLE_STATUSES
<1>2. CASE op = "rollback"
  BY <1>2, FinishFacts, StatusFacts DEF Accepts, DURABLE_STATUSES
<1>3. CASE op \in {"pause", "resume"}
  BY <1>3 DEF Accepts, IN_FLIGHT_STATUSES, Row, DURABLE_STATUSES, DeploymentStatus
<1>4. CASE op \in {"advance", "inconclusive"}
  <2>1. r.status \in ACTIVE_STATUSES
    BY <1>4 DEF Accepts
  <2> QED BY <2>1, StatusFacts
<1> QED BY <1>1, <1>2, <1>3, <1>4 DEF UpdateOps

LEMMA IdleOK ==
  ASSUME LedgerInv, NEW s \in Sessions, sess'[s] = Idle
  PROVE  SessionOK(s)'
<1>1. Idle \in Session
  BY DEF Idle, Session, NoRow, Row
<1>2. Idle.op = "none" /\ Idle.pc = "idle"
  BY DEF Idle
<1>3. SessionInv!(s)'
  BY <1>2 DEF UpdateOps
<1>4. FreshSnapshot!(s)'
  BY <1>2 DEF UpdateOps
<1> QED BY <1>1, <1>3, <1>4 DEF SessionOK

\* What other requests do cannot invalidate a session: they either leave its row
\* and its model's generation as they were, or they bump the version it has read.
LEMMA OthersDoNotDisturb ==
  ASSUME LedgerInv, [NextDB]_dbvars, NEW s \in Sessions, SessionOK(s),
         sess'[s] = sess[s]
  PROVE  SessionOK(s)'
<1> DEFINE r == sess[s].row
           d == sess[s].d
           op == sess[s].op
<1>1. sess[s] \in Session /\ r \in Row
  BY DEF SessionOK, Session
<1>2. CASE op \notin UpdateOps
  BY <1>2 DEF SessionOK
<1>3. CASE op \in UpdateOps
  <2>1. /\ d \in Deployments /\ Exists(d) /\ r.model \in Models
        /\ Accepts(op, r) /\ r.version <= dep[d].version
        /\ sess[s].stamp \in (r.created + 1)..clock
    BY <1>3 DEF SessionOK
  <2>2. /\ dep[d] \in Row /\ dep[d].version \in Nat /\ r.version \in Nat
        /\ r.created \in Nat /\ dep[d].status \in DURABLE_STATUSES
    BY <1>1, <2>1 DEF LedgerInv, TypeOKDB, RowsWellFormed, Row, Exists
  <2>3. /\ clock \in Nat /\ clock' \in Nat /\ clock <= clock'
        /\ \/ /\ dep'[d].version = dep[d].version + 1
              /\ InFlight(d) /\ dep'[d].status \in DURABLE_STATUSES
           \/ /\ dep'[d] = dep[d]
              /\ InFlight(d) =>
                   generation'[dep[d].model] = generation[dep[d].model]
    BY <2>1, StepSeenFromRow
  <2>4. Exists(d)' /\ r.version <= dep'[d].version
    BY <2>1, <2>2, <2>3 DEF Exists, DURABLE_STATUSES
  <2>5. sess[s].stamp \in (r.created + 1)..clock'
    BY <2>1, <2>2, <2>3
  <2>6. SessionInv!(s)'
    BY <1>3, <2>4, <2>5 DEF SessionOK
  <2>7. FreshSnapshot!(s)'
    <3>1. SUFFICES ASSUME dep'[d].version = r.version
                   PROVE  /\ r = [dep'[d] EXCEPT !.weight = r.weight]
                          /\ sess[s].pc = "weight" \/ (sess[s].pc = "commit" /\ op = "advance")
                               => r.weight = dep'[d].weight
                          /\ sess[s].pc = "commit" /\ op \in {"promote", "rollback", "advance"}
                               => sess[s].gen = generation'[r.model]
      BY DEF VersionMatches
    <3>2. /\ dep'[d] = dep[d] /\ VersionMatches(s)
          /\ InFlight(d) => generation'[dep[d].model] = generation[dep[d].model]
      BY <2>1, <2>2, <2>3, <3>1 DEF VersionMatches
    <3>3. /\ r = [dep[d] EXCEPT !.weight = r.weight]
          /\ sess[s].pc = "weight" \/ (sess[s].pc = "commit" /\ op = "advance")
               => r.weight = dep[d].weight
          /\ sess[s].pc = "commit" /\ op \in {"promote", "rollback", "advance"}
               => sess[s].gen = generation[r.model]
      BY <1>3, <3>2 DEF SessionOK
    <3>4. r.model = dep[d].model /\ r.status = dep[d].status
      BY <2>2, <3>3 DEF Row
    <3>5. InFlight(d)
      BY <1>1, <1>3, <2>1, <2>2, <3>4, AcceptedIsInFlight DEF InFlight
    <3> QED BY <3>2, <3>3, <3>4, <3>5
  <2> QED BY <1>1, <2>6, <2>7 DEF SessionOK
<1> QED BY <1>2, <1>3

-----------------------------------------------------------------------------
\* The steps of a request up to its commit only read the database.
LEMMA LookupKeyOK ==
  ASSUME Inv, NEW s \in Sessions, NEW m \in Models, NEW key \in Keys \cup {None},
         NEW w \in InitialWeights, NEW paused \in BOOLEAN,
         LookupKey(s, m, key, w, paused)
  PROVE  UNCHANGED dbvars /\ SessionOK(s)'
<1> DEFINE row == [NoRow EXCEPT !.model = m, !.key = key, !.weight = w, !.paused = paused]
           q == [Idle EXCEPT !.pc = "keyed", !.op = "create", !.row = row]
<1>1. row \in Row /\ row.model = m /\ row.weight = w
  BY WeightsAssumption DEF Row, NoRow
<1> HIDE DEF row
<1>2. q \in Session /\ q.op = "create" /\ q.pc = "keyed" /\ q.row = row
  BY <1>1 DEF Session, Idle
<1> HIDE DEF q
<1>3. sess'[s] = q
  BY DEF LookupKey, Inv, TypeOK, q, row
<1>4. SessionInv!(s)'
  BY <1>1, <1>2, <1>3 DEF UpdateOps
<1>5. FreshSnapshot!(s)'
  BY <1>2, <1>3 DEF UpdateOps
<1> QED BY <1>2, <1>3, <1>4, <1>5 DEF SessionOK, LookupKey

LEMMA PreCheckOK ==
  ASSUME Inv, NEW s \in Sessions, PreCheck(s)
  PROVE  UNCHANGED dbvars /\ SessionOK(s)'
<1>1. UNCHANGED dbvars /\ sess \in [Sessions -> Session]
  BY DEF PreCheck, Inv, TypeOK
<1>2. CASE sess'[s] = Idle
  BY <1>1, <1>2, IdleOK DEF Inv
<1>3. CASE sess' = [sess EXCEPT ![s].pc = "insert"]
  <2>1. SessionOK(s)
    BY InvIsPerSession
  <2>2. sess[s].op = "create" /\ sess[s] \in Session
    BY <1>1, <2>1 DEF SessionOK, PreCheck, Session, UpdateOps
  <2> DEFINE q == [sess[s] EXCEPT !.pc = "insert"]
  <2>3. q \in Session /\ q.op = "create" /\ q.pc = "insert" /\ q.row = sess[s].row
    BY <2>2 DEF Session
  <2>4. sess'[s] = q
    BY <1>1, <1>3
  <2> HIDE DEF q
  <2>5. SessionInv!(s)'
    BY <2>1, <2>2, <2>3, <2>4 DEF SessionOK, UpdateOps
  <2>6. FreshSnapshot!(s)'
    BY <2>3, <2>4 DEF UpdateOps
  <2> QED BY <1>1, <2>3, <2>4, <2>5, <2>6 DEF SessionOK
<1> QED BY <1>1, <1>2, <1>3 DEF PreCheck, EndRequest

LEMMA ReadRowOK ==
  ASSUME Inv, NEW s \in Sessions, NEW op \in UpdateOps, NEW d \in Deployments,
         ReadRow(s, op, d)
  PROVE  UNCHANGED dbvars /\ SessionOK(s)'
<1> DEFINE pc == IF op \in {"inconclusive", "pause", "resume"} THEN "commit" ELSE "row"
           q == [Idle EXCEPT !.op = op, !.d = d, !.row = dep[d], !.stamp = clock,
                             !.pc = pc]
<1>1. /\ UNCHANGED dbvars /\ Exists(d) /\ Accepts(op, dep[d]) /\ sess'[s] = q
  BY DEF ReadRow, Inv, TypeOK
<1>2. /\ dep[d] \in Row /\ dep[d].model \in Models /\ clock \in Nat
      /\ dep[d].created < clock /\ dep[d].version \in Nat /\ dep[d].created \in Nat
  BY <1>1 DEF Inv, LedgerInv, TypeOKDB, RowsWellFormed, Row
<1>3. /\ q \in Session /\ q.op = op /\ q.d = d /\ q.row = dep[d] /\ q.stamp = clock
      /\ q.pc = pc
  BY <1>2 DEF Session, Idle
<1>4. /\ pc \in {"row", "commit"}
      /\ pc = "row" => op \in {"promote", "rollback", "advance"}
      /\ pc = "commit" => op \in {"inconclusive", "pause", "resume"}
      /\ op # "none" /\ op # "create"
  BY DEF UpdateOps
<1> HIDE DEF q, pc
<1>5. SessionInv!(s)'
  BY <1>1, <1>2, <1>3, <1>4 DEF dbvars, Exists
<1>6. FreshSnapshot!(s)'
  <2>1. dep[d] = [dep[d] EXCEPT !.weight = dep[d].weight]
    BY <1>2 DEF Row
  <2> QED BY <1>1, <1>3, <1>4, <2>1 DEF dbvars
<1> QED BY <1>1, <1>3, <1>5, <1>6 DEF SessionOK

LEMMA ReadWeightOK ==
  ASSUME Inv, NEW s \in Sessions, ReadWeight(s)
  PROVE  UNCHANGED dbvars /\ SessionOK(s)'
<1> DEFINE w == dep[sess[s].d].weight
           row == [sess[s].row EXCEPT !.weight = w]
           q == [sess[s] EXCEPT !.row = row, !.pc = "weight"]
<1>1. /\ UNCHANGED dbvars /\ sess \in [Sessions -> Session] /\ SessionOK(s)
      /\ sess[s].pc = "row" /\ sess[s].op = "advance"
  BY InvIsPerSession DEF ReadWeight, Inv, TypeOK
<1>2. CASE sess'[s] = Idle
  BY <1>1, <1>2, IdleOK DEF Inv
<1>3. CASE ~AtFinalStage(w) /\ sess' = [sess EXCEPT ![s].row.weight = w, ![s].pc = "weight"]
  <2>1. /\ sess[s] \in Session /\ sess[s].row \in Row /\ sess[s].d \in Deployments
        /\ sess[s].op \in UpdateOps /\ dep[sess[s].d] \in Row /\ w \in 0..100
    BY <1>1 DEF SessionOK, Session, UpdateOps, Inv, LedgerInv, TypeOKDB, Row
  <2>2. sess'[s] = q
    BY <1>1, <1>3, <2>1 DEF Session
  <2> HIDE DEF w
  <2>3. /\ row \in Row /\ row.model = sess[s].row.model /\ row.version = sess[s].row.version
        /\ row.created = sess[s].row.created /\ row.status = sess[s].row.status
        /\ row.weight = w
    BY <2>1 DEF Row
  <2>4. row = [dep[sess[s].d] EXCEPT !.weight = w]
        \/ ~VersionMatches(s)
    <3>1. VersionMatches(s) =>
            sess[s].row = [dep[sess[s].d] EXCEPT !.weight = sess[s].row.weight]
      BY <1>1, <2>1 DEF SessionOK
    <3> QED BY <2>1, <3>1 DEF Row
  <2> HIDE DEF row
  <2>5. /\ q \in Session /\ q.op = "advance" /\ q.pc = "weight" /\ q.row = row
        /\ q.d = sess[s].d /\ q.stamp = sess[s].stamp
    BY <1>1, <2>1, <2>3 DEF Session
  <2> HIDE DEF q
  <2>6. Accepts("advance", row)
    BY <1>1, <2>1, <2>3 DEF SessionOK, Accepts
  <2>7. SessionInv!(s)'
    BY <1>1, <1>3, <2>1, <2>2, <2>3, <2>5, <2>6 DEF SessionOK, dbvars, Exists
  <2>8. FreshSnapshot!(s)'
    BY <1>1, <2>1, <2>2, <2>3, <2>4, <2>5 DEF VersionMatches, dbvars, w
  <2> QED BY <1>1, <2>2, <2>5, <2>7, <2>8 DEF SessionOK
<1> QED BY <1>1, <1>2, <1>3 DEF ReadWeight, EndRequest

LEMMA ReadGenerationOK ==
  ASSUME Inv, NEW s \in Sessions, ReadGeneration(s)
  PROVE  UNCHANGED dbvars /\ SessionOK(s)'
<1> DEFINE g == generation[sess[s].row.model]
           q == [sess[s] EXCEPT !.gen = g, !.stamp = clock, !.pc = "commit"]
<1>1. /\ UNCHANGED dbvars /\ SessionOK(s) /\ sess[s] \in Session /\ sess'[s] = q
      /\ sess[s].pc \in {"row", "weight"}
  BY InvIsPerSession DEF ReadGeneration, Inv, TypeOK
<1>2. /\ sess[s].op \in {"promote", "rollback", "advance"} /\ sess[s].op \in UpdateOps
      /\ sess[s].op = "advance" => sess[s].pc = "weight"
  BY <1>1 DEF SessionOK, Session, UpdateOps, ReadGeneration
<1>3. /\ sess[s].row \in Row /\ sess[s].row.model \in Models /\ g \in Nat
      /\ clock \in Nat /\ sess[s].row.created \in Nat
      /\ sess[s].row.created < clock
  BY <1>1, <1>2 DEF SessionOK, Session, Inv, LedgerInv, TypeOKDB, Row
<1>4. /\ q \in Session /\ q.op = sess[s].op /\ q.pc = "commit" /\ q.row = sess[s].row
      /\ q.d = sess[s].d /\ q.stamp = clock /\ q.gen = g
  BY <1>1, <1>3 DEF Session
<1> HIDE DEF q, g
<1>5. SessionInv!(s)'
  BY <1>1, <1>2, <1>3, <1>4 DEF SessionOK, dbvars, Exists, UpdateOps
<1>6. FreshSnapshot!(s)'
  BY <1>1, <1>2, <1>3, <1>4 DEF SessionOK, VersionMatches, dbvars, g
<1> QED BY <1>1, <1>4, <1>5, <1>6 DEF SessionOK

-----------------------------------------------------------------------------
\* The INSERT and everything up to its commit is one create.
LEMMA InsertIsCreate ==
  ASSUME Inv, NEW s \in Sessions, InsertAndCommit(s)
  PROVE  [NextDB]_dbvars
<1> DEFINE r == sess[s].row
<1>1. SessionOK(s) /\ sess[s] \in Session
  BY InvIsPerSession DEF SessionOK
<1>2. sess[s].op = "create"
  BY <1>1 DEF SessionOK, InsertAndCommit, Session, UpdateOps
<1>3. /\ r.model \in Models /\ r.weight \in InitialWeights
      /\ r.key \in Keys \cup {None} /\ r.paused \in BOOLEAN
  BY <1>1, <1>2 DEF SessionOK, Session, Row
<1>4. CASE UNCHANGED dbvars
  BY <1>4
<1>5. ASSUME NEW d \in Deployments, CreateDB(d, r.model, r.key, r.weight, r.paused)
      PROVE  NextDB
  BY <1>3, <1>5 DEF NextDB
<1> QED BY <1>4, <1>5 DEF InsertAndCommit

\* A commit whose version matches is the atomic operation on the current state.
LEMMA CommitIsUpdate ==
  ASSUME Inv, NEW s \in Sessions, Commit(s), VersionMatches(s)
  PROVE  NextDB
<1> DEFINE r == sess[s].row
           d == sess[s].d
           op == sess[s].op
           c == dep[d]
           g == sess[s].gen + 1
           t == sess[s].stamp
<1>1. SessionOK(s) /\ sess[s] \in Session /\ sess[s].pc = "commit"
  BY InvIsPerSession DEF SessionOK, Commit
<1>2. op \in UpdateOps
  BY <1>1 DEF SessionOK, Session
<1>3. /\ d \in Deployments /\ Exists(d) /\ Accepts(op, r)
      /\ t \in (r.created + 1)..clock
      /\ op = "advance" => ~AtFinalStage(r.weight)
  BY <1>1, <1>2 DEF SessionOK
<1>4. /\ r = [c EXCEPT !.weight = r.weight]
      /\ op = "advance" => r.weight = c.weight
      /\ op \in {"promote", "rollback", "advance"} => sess[s].gen = generation[r.model]
  BY <1>1, <1>2 DEF SessionOK
<1>5. c \in Row
  BY <1>3 DEF Inv, LedgerInv, TypeOKDB
<1>6. /\ r.model = c.model /\ r.status = c.status /\ r.created = c.created
      /\ r.retries = c.retries /\ r.paused = c.paused
  BY <1>4, <1>5 DEF Row
<1>7. /\ MayUpdate(d) /\ t \in Stamps(d)
      /\ WriteRow(s) /\ WriteGeneration(s)
      /\ clock' = IF op \in {"promote", "rollback", "inconclusive"} THEN clock + 1 ELSE clock
  BY <1>3, <1>6 DEF Commit, MayUpdate, Stamps
<1>8. CASE op = "promote"
  <2>1. /\ dep' = [dep EXCEPT ![d] = Finished(@, "PROMOTED", 100, g, t)]
        /\ generation' = [generation EXCEPT ![r.model] = g] /\ clock' = clock + 1
    BY <1>7, <1>8 DEF WriteRow, WriteGeneration
  <2>2. CanFinish(c.status, "PROMOTING", "PROMOTED")
    BY <1>3, <1>6, <1>8 DEF Accepts
  <2>3. PromoteDB(d)
    BY <1>4, <1>6, <1>7, <1>8, <2>1, <2>2 DEF PromoteDB, FinishDB
  <2> QED BY <1>3, <2>3 DEF NextDB, UpdateDB
<1>9. CASE op = "rollback"
  <2>1. /\ dep' = [dep EXCEPT ![d] = Finished(@, "ROLLED_BACK", 0, g, t)]
        /\ generation' = [generation EXCEPT ![r.model] = g] /\ clock' = clock + 1
    BY <1>7, <1>9 DEF WriteRow, WriteGeneration
  <2>2. CanFinish(c.status, "ROLLING_BACK", "ROLLED_BACK")
    BY <1>3, <1>6, <1>9 DEF Accepts
  <2>3. RollbackDB(d)
    BY <1>4, <1>6, <1>7, <1>9, <2>1, <2>2 DEF RollbackDB, FinishDB
  <2> QED BY <1>3, <2>3 DEF NextDB, UpdateDB
<1>10. CASE op = "advance"
  <2>1. /\ dep' = [dep EXCEPT ![d] = Advanced(@, NextStage(r.weight), g)]
        /\ generation' = [generation EXCEPT ![r.model] = g] /\ clock' = clock
    BY <1>7, <1>10 DEF WriteRow, WriteGeneration
  <2>2. c.status \in ACTIVE_STATUSES
    BY <1>3, <1>6, <1>10 DEF Accepts
  <2>3. AdvanceDB(d)
    BY <1>3, <1>4, <1>6, <1>7, <1>10, <2>1, <2>2 DEF AdvanceDB
  <2> QED BY <1>3, <2>3 DEF NextDB, UpdateDB
<1>11. CASE op = "inconclusive"
  <2>1. /\ dep' = [dep EXCEPT ![d] = Retried(@, r.retries + 1, t)]
        /\ generation' = generation /\ clock' = clock + 1
    BY <1>7, <1>11 DEF WriteRow, WriteGeneration
  <2>2. c.status \in ACTIVE_STATUSES
    BY <1>3, <1>6, <1>11 DEF Accepts
  <2>3. CanAutoAdvanceTo(c.status, "INCONCLUSIVE")
    BY <1>5, <2>2 DEF ACTIVE_STATUSES, CanAutoAdvanceTo, AutoAdvanced, Allowed,
       ALLOWED_TRANSITIONS, DeploymentStatus
  <2>4. RecordInconclusiveDB(d)
    BY <1>6, <1>7, <2>1, <2>2, <2>3 DEF RecordInconclusiveDB
  <2> QED BY <1>3, <2>4 DEF NextDB, UpdateDB
<1>12. CASE op \in {"pause", "resume"}
  <2> DEFINE p == op = "pause"
  <2>1. /\ dep' = [dep EXCEPT ![d] = WithPaused(@, p)]
        /\ generation' = generation /\ clock' = clock
    BY <1>7, <1>12 DEF WriteRow, WriteGeneration
  <2>2. p \in BOOLEAN /\ c.paused # p /\ c.status \notin TERMINAL_STATUSES
    BY <1>3, <1>5, <1>6, <1>12 DEF Accepts, Row
  <2>3. InFlight(d)
    BY <1>3, <1>5, <2>2 DEF InFlight, IN_FLIGHT_STATUSES, Exists, Row
  <2>4. SetPausedDB(d, p)
    BY <1>7, <2>1, <2>2, <2>3 DEF SetPausedDB
  <2> QED BY <1>3, <2>2, <2>4 DEF NextDB, UpdateDB
<1> QED BY <1>2, <1>8, <1>9, <1>10, <1>11, <1>12 DEF UpdateOps

-----------------------------------------------------------------------------
LEMMA InvInit == Init => Inv
<1> SUFFICES ASSUME Init PROVE Inv
  OBVIOUS
<1>1. LedgerInv
  BY LedgerInit DEF Init
<1>2. Idle \in Session /\ Idle.op = "none" /\ Idle.pc = "idle"
  BY DEF Idle, Session, NoRow, Row
<1>3. \A s \in Sessions : sess[s] = Idle
  BY DEF Init
<1>4. TypeOK
  BY <1>1, <1>2 DEF TypeOK, LedgerInv, Init
<1>5. SessionInv
  BY <1>2, <1>3 DEF SessionInv, UpdateOps
<1>6. FreshSnapshot
  BY <1>2, <1>3 DEF FreshSnapshot, UpdateOps
<1> QED BY <1>1, <1>4, <1>5, <1>6 DEF Inv

\* Every step of a request is an atomic operation on the database or leaves it
\* alone, keeps what the request knows right, and touches no other request.
LEMMA SessionStepFacts ==
  ASSUME Inv, NEW s \in Sessions, SessionStep(s)
  PROVE  /\ [NextDB]_dbvars
         /\ SessionOK(s)'
         /\ sess' = [t \in Sessions |-> sess'[t]]
         /\ \A t \in Sessions : t # s => sess'[t] = sess[t]
<1> DEFINE Local == /\ sess' = [t \in Sessions |-> sess'[t]]
                    /\ \A t \in Sessions : t # s => sess'[t] = sess[t]
<1>1. LedgerInv /\ sess \in [Sessions -> Session]
  BY DEF Inv, TypeOK
<1>2. EndRequest(s) => Local /\ SessionOK(s)'
  <2>1. EndRequest(s) => Local /\ sess'[s] = Idle
    BY <1>1 DEF EndRequest
  <2> QED BY <1>1, <2>1, IdleOK
<1>3. ASSUME NEW m \in Models, NEW key \in Keys \cup {None}, NEW w \in InitialWeights,
             NEW paused \in BOOLEAN, LookupKey(s, m, key, w, paused)
      PROVE  [NextDB]_dbvars /\ SessionOK(s)' /\ Local
  <2>1. Local
    BY <1>1, <1>3 DEF LookupKey
  <2> QED BY <1>3, <2>1, LookupKeyOK
<1>4. CASE PreCheck(s)
  <2>1. Local
    BY <1>1, <1>4 DEF PreCheck, EndRequest
  <2> QED BY <1>4, <2>1, PreCheckOK
<1>5. CASE InsertAndCommit(s)
  BY <1>2, <1>5, InsertIsCreate DEF InsertAndCommit
<1>6. ASSUME NEW op \in UpdateOps, NEW d \in Deployments, ReadRow(s, op, d)
      PROVE  [NextDB]_dbvars /\ SessionOK(s)' /\ Local
  <2>1. Local
    BY <1>1, <1>6 DEF ReadRow
  <2> QED BY <1>6, <2>1, ReadRowOK
<1>7. CASE ReadWeight(s)
  <2>1. Local
    BY <1>1, <1>7 DEF ReadWeight, EndRequest
  <2> QED BY <1>7, <2>1, ReadWeightOK
<1>8. CASE ReadGeneration(s)
  <2>1. Local
    BY <1>1, <1>8 DEF ReadGeneration
  <2> QED BY <1>8, <2>1, ReadGenerationOK
<1>9. CASE Commit(s)
  <2>1. EndRequest(s)
    BY <1>9 DEF Commit
  <2>2. CASE VersionMatches(s)
    BY <1>2, <1>9, <2>1, <2>2, CommitIsUpdate
  <2>3. CASE ~VersionMatches(s)
    BY <1>2, <1>9, <2>1, <2>3 DEF Commit
  <2> QED BY <2>2, <2>3
<1>10. CASE Abort(s)
  BY <1>2, <1>10 DEF Abort
<1> QED BY <1>3, <1>4, <1>5, <1>6, <1>7, <1>8, <1>9, <1>10 DEF SessionStep

LEMMA InvStep == Inv /\ [Next]_vars => [NextDB]_dbvars /\ Inv'
<1> SUFFICES ASSUME Inv, [Next]_vars PROVE [NextDB]_dbvars /\ Inv'
  OBVIOUS
<1>1. /\ LedgerInv /\ sess = [t \in Sessions |-> sess[t]]
      /\ \A t \in Sessions : SessionOK(t)
  BY InvIsPerSession
<1>2. /\ [NextDB]_dbvars /\ sess' = [t \in Sessions |-> sess'[t]]
      /\ \A t \in Sessions : SessionOK(t)' \/ sess'[t] = sess[t]
  <2>1. ASSUME NEW s \in Sessions, SessionStep(s)
        PROVE  /\ [NextDB]_dbvars /\ sess' = [t \in Sessions |-> sess'[t]]
               /\ \A t \in Sessions : SessionOK(t)' \/ sess'[t] = sess[t]
    BY <2>1, SessionStepFacts
  <2>2. CASE Crash
    <3>1. UNCHANGED dbvars /\ sess' = [t \in Sessions |-> Idle]
      BY <2>2 DEF Crash
    <3>2. \A t \in Sessions : sess'[t] = Idle
      BY <3>1
    <3> QED BY <1>1, <3>1, <3>2, IdleOK
  <2>3. CASE UNCHANGED vars
    BY <1>1, <2>3 DEF vars, dbvars
  <2> QED BY <2>1, <2>2, <2>3 DEF Next
<1>3. LedgerInv'
  BY <1>1, <1>2, LedgerStep
<1>4. \A t \in Sessions : SessionOK(t)'
  BY <1>1, <1>2, OthersDoNotDisturb
<1>5. TypeOK'
  BY <1>2, <1>3, <1>4 DEF TypeOK, LedgerInv, SessionOK
<1>6. Inv'
  BY <1>3, <1>4, <1>5 DEF Inv, SessionInv, FreshSnapshot, SessionOK
<1> QED BY <1>2, <1>6

-----------------------------------------------------------------------------
\* The inductive invariant of the handlers holds in every reachable state.
THEOREM HandlersInvariant == Spec => []Inv
BY InvInit, InvStep, PTL DEF Spec

\* The handlers, however they interleave, implement the atomic operations.
THEOREM SerializableTheorem == Spec => Serializable
<1>1. Init => InitDB
  BY DEF Init
<1> QED BY <1>1, InvStep, HandlersInvariant, PTL DEF Spec, Serializable, SpecDB

\* However many requests race, what the database offers for routing behaves as the router
\* and the reconciler need: a fresh revision each time, of the deployment in charge or of
\* one that was never routed, and what the query of get_authoritative_allocation picks is
\* the newest.
THEOREM HandlersRouteForward == Spec => RoutesForward /\ []AuthoritativeIsNewest
  BY SerializableTheorem, RoutesForwardTheorem, AuthoritativeIsNewestTheorem, PTL
     DEF Serializable

\* Two rollouts of a model are never in flight together, nor are two rows ever
\* created for one idempotency key, whatever creates race each other.
THEOREM UniqueRowsTheorem == Spec => []UniqueRows
<1>1. Inv => UniqueRows
  BY DEF Inv, LedgerInv, UniqueRows
<1> QED BY <1>1, HandlersInvariant, PTL

\* A session whose version still matches has read nothing stale.
THEOREM FreshSnapshotTheorem == Spec => []FreshSnapshot
<1>1. Inv => FreshSnapshot
  BY DEF Inv
<1> QED BY <1>1, HandlersInvariant, PTL

\* No late request touches a rollout that has ended.
THEOREM TerminalRowsFrozenTheorem == Spec => TerminalRowsFrozen
<1>1. ASSUME Inv, [Next]_vars, NEW d \in Deployments,
             dep[d].status \in TERMINAL_STATUSES
      PROVE  dep'[d] = dep[d]
  <2>1. [NextDB]_dbvars /\ LedgerInv
    BY <1>1, InvStep DEF Inv
  <2>2. Exists(d) /\ ~InFlight(d)
    BY <1>1 DEF Exists, InFlight, TERMINAL_STATUSES, IN_FLIGHT_STATUSES
  <2> QED BY <2>1, <2>2, StepSeenFromRow
<1>2. Inv /\ [Next]_vars => [EndedRowsKept]_vars
  BY <1>1 DEF EndedRowsKept
<1> QED BY <1>2, HandlersInvariant, PTL DEF Spec, TerminalRowsFrozen

\* What one atomic operation does to a weight.
LEMMA OperationIsOneStage == LedgerInv /\ NextDB => OneStageOrTheEnd
<1> SUFFICES ASSUME LedgerInv, NextDB, NEW d \in Deployments,
                    Exists(d), dep'[d].weight # dep[d].weight
             PROVE  OneStageOrTheEnd!(d)!2
  BY DEF OneStageOrTheEnd
<1> USE DEF LedgerInv
<1>1. dep[d] \in Row
  BY DEF TypeOKDB
<1>2. PICK e \in Deployments :
        \/ \E m \in Models, key \in Keys \cup {None}, w \in InitialWeights,
              paused \in BOOLEAN : CreateDB(e, m, key, w, paused)
        \/ UpdateDB(e)
  BY DEF NextDB
<1>3. e = d /\ UpdateDB(d)
  <2>1. \E r : dep' = [dep EXCEPT ![e] = r]
    BY <1>2 DEF CreateDB, UpdateDB, PromoteDB, RollbackDB, FinishDB, AdvanceDB,
       RecordInconclusiveDB, SetPausedDB
  <2>2. e = d
    BY <2>1 DEF TypeOKDB
  <2> QED BY <1>2, <2>2 DEF CreateDB
<1>4. CASE PromoteDB(d)
  <2>1. PICK g, t : dep' = [dep EXCEPT ![d] = Finished(@, "PROMOTED", 100, g, t)]
    BY <1>4 DEF PromoteDB, FinishDB
  <2> QED BY <2>1, <1>1 DEF Finished, Advanced, Touched, TypeOKDB, Row
<1>5. CASE RollbackDB(d)
  <2>1. PICK g, t : dep' = [dep EXCEPT ![d] = Finished(@, "ROLLED_BACK", 0, g, t)]
    BY <1>5 DEF RollbackDB, FinishDB
  <2> QED BY <2>1, <1>1 DEF Finished, Advanced, Touched, TypeOKDB, Row
<1>6. CASE AdvanceDB(d)
  <2> DEFINE w == NextStage(dep[d].weight)
  <2>1. PICK g : dep' = [dep EXCEPT ![d] = Advanced(@, w, g)]
    BY <1>6 DEF AdvanceDB
  <2>2. ~AtFinalStage(dep[d].weight)
    BY <1>6 DEF AdvanceDB
  <2> HIDE DEF w
  <2>3. dep'[d].status = dep[d].status /\ dep'[d].weight = w
    BY <2>1, <1>1 DEF Advanced, Touched, TypeOKDB, Row
  <2> QED BY <2>2, <2>3 DEF w
<1>7. CASE RecordInconclusiveDB(d)
  <2>1. PICK n, t : dep' = [dep EXCEPT ![d] = Retried(@, n, t)]
    BY <1>7 DEF RecordInconclusiveDB
  <2>2. dep'[d] = Retried(dep[d], n, t)
    BY <2>1 DEF TypeOKDB
  <2>3. Retried(dep[d], n, t).weight = dep[d].weight
    BY <1>1 DEF Retried, Touched, Row
  <2> QED BY <2>2, <2>3
<1>8. ASSUME NEW p \in BOOLEAN, SetPausedDB(d, p)
      PROVE  OneStageOrTheEnd!(d)!2
  <2>1. dep'[d] = WithPaused(dep[d], p)
    BY <1>8 DEF SetPausedDB, TypeOKDB
  <2>2. WithPaused(dep[d], p).weight = dep[d].weight
    BY <1>1 DEF WithPaused, Touched, Row
  <2> QED BY <2>1, <2>2
<1> QED BY <1>3, <1>4, <1>5, <1>6, <1>7, <1>8 DEF UpdateDB

\* The ramp is climbed stage by stage, however many requests advance, promote and
\* roll back at once.
THEOREM StageByStageTheorem == Spec => StageByStage
<1>1. Inv /\ [Next]_vars => [OneStageOrTheEnd]_vars
  <2>1. ASSUME Inv, [Next]_vars PROVE OneStageOrTheEnd
    <3>1. [NextDB]_dbvars /\ LedgerInv
      BY <2>1, InvStep DEF Inv
    <3>2. CASE UNCHANGED dbvars
      BY <3>2 DEF dbvars, OneStageOrTheEnd
    <3> QED BY <3>1, <3>2, OperationIsOneStage
  <2> QED BY <2>1
<1> QED BY <1>1, HandlersInvariant, PTL DEF Spec, StageByStage
=============================================================================
