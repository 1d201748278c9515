---------------------------- MODULE WorkerProofs ----------------------------
(***************************************************************************)
(* What the automation worker never does, proved for every number of       *)
(* deployments, models, operators' requests and faults: its requests are   *)
(* operations of Rollouts; it honours the hold, promotes at full traffic   *)
(* only, and freezes no rollout that has not earned it.                    *)
(***************************************************************************)
EXTENDS Worker, RolloutsProofs

\* What one operation of the database does to the row d, which exists: an ended
\* rollout does not come back, and one in flight never loses weight.
LEMMA RowUnderOperation ==
  ASSUME LedgerInv, [NextDB]_dbvars, NEW d \in Deployments, Exists(d), InFlight(d)'
  PROVE  Exists(d)' /\ InFlight(d) /\ dep'[d].weight >= dep[d].weight
<1> USE DEF LedgerInv
<1>1. /\ dep[d] \in Row /\ dep[d].weight \in 0..100
      /\ dep[d].status \in DURABLE_STATUSES /\ dep[d].model \in Models
      /\ generation[dep[d].model] + 1 \in Nat
  BY DEF TypeOKDB, Row, RowsWellFormed, Exists
<1>2. Exists(d)'
  BY StatusFacts DEF Exists, InFlight
<1>3. CASE dep'[d] = dep[d]
  BY <1>1, <1>2, <1>3 DEF InFlight
<1>4. ASSUME NEW e \in Deployments, e # d,
             \/ UpdateDB(e)
             \/ \E m \in Models, key \in Keys \cup {None}, w \in InitialWeights,
                   paused \in BOOLEAN : CreateDB(e, m, key, w, paused)
      PROVE  dep'[d] = dep[d]
  BY <1>4 DEF TypeOKDB, UpdateDB, PromoteDB, RollbackDB, FinishDB, AdvanceDB,
     RecordInconclusiveDB, SetPausedDB, CreateDB
<1>5. CASE \E m \in Models, key \in Keys \cup {None}, w \in InitialWeights,
              paused \in BOOLEAN : CreateDB(d, m, key, w, paused)
  BY <1>5 DEF CreateDB
<1>6. CASE PromoteDB(d) \/ RollbackDB(d)
  <2>1. PICK s, t, w :
          /\ s \in {"PROMOTED", "ROLLED_BACK"}
          /\ dep' = [dep EXCEPT ![d] = Finished(@, s, w, generation[dep[d].model] + 1, t)]
    BY <1>6 DEF PromoteDB, RollbackDB, FinishDB
  <2>2. dep'[d].status = s
    BY <2>1, <1>1 DEF Finished, Advanced, Touched, TypeOKDB, Row
  <2> QED BY <2>1, <2>2, StatusFacts DEF InFlight
<1>7. CASE AdvanceDB(d)
  <2> DEFINE w == NextStage(dep[d].weight)
             q == Advanced(dep[d], w, generation[dep[d].model] + 1)
  <2>1. dep'[d] = q /\ dep[d].status \in ACTIVE_STATUSES /\ ~AtFinalStage(dep[d].weight)
    BY <1>7 DEF AdvanceDB, TypeOKDB
  <2>2. w \in 0..100 /\ w > dep[d].weight
    BY <2>1, <1>1, NextStageFacts
  <2> HIDE DEF w
  <2>3. q.weight = w
    BY <1>1 DEF Advanced, Touched, Row
  <2>4. InFlight(d)
    BY <2>1, <1>1, StatusFacts DEF InFlight
  <2> QED BY <1>1, <1>2, <2>1, <2>2, <2>3, <2>4
<1>8. CASE RecordInconclusiveDB(d)
  <2>1. dep'[d].weight = dep[d].weight
    BY <1>8, <1>1 DEF RecordInconclusiveDB, Retried, Touched, TypeOKDB, Row
  <2>2. InFlight(d)
    BY <1>8, <1>1, StatusFacts DEF RecordInconclusiveDB, InFlight
  <2> QED BY <1>1, <1>2, <2>1, <2>2
<1>9. CASE \E p \in BOOLEAN : SetPausedDB(d, p)
  <2>1. dep'[d].weight = dep[d].weight
    BY <1>9, <1>1 DEF SetPausedDB, WithPaused, Touched, TypeOKDB, Row
  <2>2. InFlight(d)
    BY <1>9 DEF SetPausedDB
  <2> QED BY <1>1, <1>2, <2>1, <2>2
<1> QED BY <1>3, <1>4, <1>5, <1>6, <1>7, <1>8, <1>9 DEF NextDB, UpdateDB, dbvars

-----------------------------------------------------------------------------
\* Where the worker is in its sweep: what the rest of the argument needs to know.
SweepInv ==
  /\ work \in Work
  /\ InHand \subseteq {d \in Deployments : Exists(d)}
  /\ held \subseteq Deployments

\* The last request of a cycle: what each verdict leads to.
LEMMA ActFacts ==
  ASSUME SweepInv, Act
  PROVE  /\ work.d \in Deployments /\ Exists(work.d)
         /\ work' = [work EXCEPT !.pc = "get"]
         /\ work.pc = "act"
         /\ \/ UNCHANGED dbvars
            \/ work.verdict = "FAIL" /\ RollbackDB(work.d)
            \/ work.verdict = "PASS" /\ work.full /\ PromoteDB(work.d)
            \/ work.verdict = "PASS" /\ ~work.full /\ AdvanceDB(work.d)
            \/ work.verdict = "INCONCLUSIVE" /\ RecordInconclusiveDB(work.d)
<1>1. work.pc = "act" /\ work' = [work EXCEPT !.pc = "get"]
  BY DEF Act, Done, Goto
<1>2. work.d \in Deployments /\ Exists(work.d)
  BY <1>1 DEF SweepInv, InHand
<1>3. work.verdict \in Results /\ work.full \in BOOLEAN
  BY DEF SweepInv, Work
<1>4. CASE work.verdict = "FAIL"
  <2>1. decide_action(work.verdict, work.full) = "ROLLBACK"
    BY <1>4 DEF decide_action
  <2>2. Attempt(CanFinish(dep[work.d].status, "ROLLING_BACK", "ROLLED_BACK"), RollbackDB(work.d))
    BY <2>1 DEF Act, TakeAction
  <2> QED BY <2>2, <1>1, <1>2, <1>4 DEF Attempt
<1>5. CASE work.verdict = "INCONCLUSIVE"
  <2>1. decide_action(work.verdict, work.full) = "RECORD_INCONCLUSIVE"
    BY <1>5 DEF decide_action
  <2>2. Attempt(Active(work.d), RecordInconclusiveDB(work.d))
    BY <2>1 DEF Act, TakeAction
  <2> QED BY <2>2, <1>1, <1>2, <1>5 DEF Attempt
<1>6. CASE work.verdict = "PASS" /\ work.full
  <2>1. decide_action(work.verdict, work.full) = "PROMOTE"
    BY <1>6 DEF decide_action
  <2>2. Attempt(CanFinish(dep[work.d].status, "PROMOTING", "PROMOTED"), PromoteDB(work.d))
    BY <2>1 DEF Act, TakeAction
  <2> QED BY <2>2, <1>1, <1>2, <1>6 DEF Attempt
<1>7. CASE work.verdict = "PASS" /\ ~work.full
  <2>1. decide_action(work.verdict, work.full) = "ADVANCE_TRAFFIC"
    BY <1>7 DEF decide_action
  <2>2. Attempt(Active(work.d) /\ ~AtFinalStage(dep[work.d].weight), AdvanceDB(work.d))
    BY <2>1 DEF Act, TakeAction
  <2> QED BY <2>2, <1>1, <1>2, <1>7 DEF Attempt
<1> QED BY <1>1, <1>2, <1>3, <1>4, <1>5, <1>6, <1>7 DEF Results

\* A step of the worker, of an operator or of a failure is an operation of the
\* database or leaves it alone.
LEMMA StepIsOperation == SweepInv /\ [Next]_vars => [NextDB]_dbvars
<1> SUFFICES ASSUME SweepInv, Next PROVE NextDB \/ UNCHANGED dbvars
  BY DEF vars
<1>1. CASE Act
  BY <1>1, ActFacts DEF NextDB, UpdateDB
<1>2. CASE ListActive \/ EndSweep \/ CheckDue
  BY <1>2 DEF ListActive, EndSweep, CheckDue
<1>3. CASE (\E d \in Deployments : GetDeployment(d)) \/ (\E v \in Results : Evaluate(v))
  BY <1>3 DEF GetDeployment, Evaluate
<1>4. CASE CallFails \/ Restart \/ \E d \in Deployments : WindowPasses(d)
  BY <1>4 DEF CallFails, Restart, WindowPasses
<1>5. ASSUME NEW d \in Deployments, Operate(d)
      PROVE  NextDB \/ UNCHANGED dbvars
  BY <1>5 DEF Operate, NextDB, UpdateDB
<1>6. ASSUME NEW d \in Deployments, NEW m \in Models, NEW key \in Keys \cup {None},
             NEW w \in InitialWeights, NEW paused \in BOOLEAN,
             Create(d, m, key, w, paused)
      PROVE  NextDB
  BY <1>6 DEF Create, NextDB
<1> QED BY <1>1, <1>2, <1>3, <1>4, <1>5, <1>6 DEF Next, Others, WorkerStep

\* A row stays a row.
LEMMA RowsStay ==
  ASSUME LedgerInv, [NextDB]_dbvars, NEW d \in Deployments, Exists(d)
  PROVE  Exists(d)'
<1>1. dep'[d] = dep[d] \/ dep'[d].status \in DURABLE_STATUSES
  BY StepSeenFromRow
<1> QED BY <1>1 DEF Exists, DURABLE_STATUSES

LEMMA SweepStep == LedgerInv /\ SweepInv /\ [Next]_vars => SweepInv'
<1> SUFFICES ASSUME LedgerInv, SweepInv, [Next]_vars PROVE SweepInv'
  OBVIOUS
<1>1. \A d \in Deployments : Exists(d) => Exists(d)'
  BY RowsStay, StepIsOperation
<1>2. CASE UNCHANGED <<work, held>>
  BY <1>1, <1>2 DEF SweepInv, InHand
<1>3. CASE Next
  <2>1. held' \subseteq Deployments
    BY <1>3 DEF Next, SweepInv
  <2>2. CASE ListActive
    BY <2>1, <2>2 DEF ListActive, SweepInv, InHand, Start, Work, Results
  <2>3. CASE EndSweep
    BY <2>1, <2>3 DEF EndSweep, Goto, SweepInv, InHand, Work
  <2>4. ASSUME NEW d \in Deployments, GetDeployment(d)
        PROVE  SweepInv'
    <3>1. work' = [work EXCEPT !.todo = @ \ {d}, !.d = d, !.full = AtFullTraffic(dep[d]),
                               !.pc = IF Active(d) THEN "due" ELSE "get"]
      BY <2>4 DEF GetDeployment
    <3>2. AtFullTraffic(dep[d]) \in BOOLEAN
      BY DEF AtFullTraffic
    <3>3. work' \in Work
      BY <3>1, <3>2 DEF SweepInv, Work
    <3>4. Active(d) => Exists(d)
      BY DEF Active, Exists, ACTIVE_STATUSES
    <3> QED BY <1>1, <2>1, <3>1, <3>3, <3>4 DEF SweepInv, InHand, Work
  <2>5. CASE CheckDue
    BY <1>1, <2>1, <2>5 DEF CheckDue, Done, Goto, SweepInv, InHand, Work
  <2>6. ASSUME NEW v \in Results, Evaluate(v)
        PROVE  SweepInv'
    BY <1>1, <2>1, <2>6 DEF Evaluate, Done, Goto, SweepInv, InHand, Work
  <2>7. CASE Act
    BY <2>1, <2>7, ActFacts DEF SweepInv, InHand, Work
  <2>8. CASE CallFails
    BY <1>1, <2>1, <2>8 DEF CallFails, Done, Goto, SweepInv, InHand, Work
  <2>9. CASE Restart
    BY <2>1, <2>9 DEF Restart, Start, SweepInv, InHand, Work, Results
  <2>10. ASSUME UNCHANGED work
         PROVE  SweepInv'
    BY <1>1, <2>1, <2>10 DEF SweepInv, InHand
  <2> QED BY <1>3, <2>2, <2>3, <2>4, <2>5, <2>6, <2>7, <2>8, <2>9, <2>10
             DEF Next, Others, WorkerStep, WindowPasses, Operate, Create, workvars
<1> QED BY <1>2, <1>3 DEF vars, workvars

LEMMA SweepInit == Init => LedgerInv /\ SweepInv
<1>1. Init => LedgerInv
  BY LedgerInit DEF Init
<1> QED BY <1>1 DEF Init, SweepInv, Start, Work, InHand, Results

\* The worker and the operators only use the operations of the database, so what
\* is proved of these holds of the system with a worker.
THEOREM WorkerImplementsRollouts == Spec => SpecDB /\ []LedgerInv
<1>1. Init => InitDB
  BY DEF Init
<1> QED BY <1>1, SweepInit, SweepStep, StepIsOperation, LedgerStep, PTL DEF Spec, SpecDB

\* A step never gives the worker, in the middle of a sweep, a deployment that has
\* been held since before the sweep: the list leaves it out, and what is in hand
\* comes from the list.
THEOREM HoldHonouredTheorem == Spec => []HoldHonoured
<1>1. Init => HoldHonoured
  BY DEF Init, HoldHonoured, Start, InHand
<1>2. SweepInv /\ HoldHonoured /\ [Next]_vars => HoldHonoured'
  <2> SUFFICES ASSUME SweepInv, HoldHonoured, [Next]_vars PROVE HoldHonoured'
    OBVIOUS
  <2>1. CASE ListActive /\ held' = {d \in Deployments : dep[d].paused}
    BY <2>1 DEF ListActive, Listed, HoldHonoured, InHand, Start
  <2>2. ASSUME Others
        PROVE  work'.todo \cup InHand' \subseteq work.todo \cup InHand
    <3>1. CASE EndSweep
      BY <3>1 DEF EndSweep, Goto, InHand, SweepInv, Work
    <3>2. ASSUME NEW d \in Deployments, GetDeployment(d)
          PROVE  work'.todo \cup InHand' \subseteq work.todo \cup InHand
      BY <3>2 DEF GetDeployment, InHand, SweepInv, Work
    <3>3. CASE CheckDue
      BY <3>3 DEF CheckDue, Done, Goto, InHand, SweepInv, Work
    <3>4. ASSUME NEW v \in Results, Evaluate(v)
          PROVE  work'.todo \cup InHand' \subseteq work.todo \cup InHand
      BY <3>4 DEF Evaluate, Done, Goto, InHand, SweepInv, Work
    <3>5. CASE Act
      BY <3>5 DEF Act, Done, Goto, InHand, SweepInv, Work
    <3>6. CASE CallFails
      BY <3>6 DEF CallFails, Done, Goto, InHand, SweepInv, Work
    <3>7. CASE Restart
      BY <3>7 DEF Restart, Start, InHand
    <3>8. CASE UNCHANGED work
      BY <3>8 DEF InHand
    <3> QED BY <2>2, <3>1, <3>2, <3>3, <3>4, <3>5, <3>6, <3>7, <3>8
               DEF Others, WorkerStep, WindowPasses, Operate, Create, workvars
  <2>3. CASE Others /\ held' = {d \in held : dep'[d].paused}
    BY <2>2, <2>3 DEF HoldHonoured
  <2>4. CASE UNCHANGED vars
    BY <2>4 DEF vars, workvars, HoldHonoured, InHand
  <2> QED BY <2>1, <2>3, <2>4 DEF Next
<1> QED BY <1>1, <1>2, SweepInit, SweepStep, StepIsOperation, LedgerStep, PTL DEF Spec

-----------------------------------------------------------------------------
\* What the worker decided on when it fetched the deployment still holds of the
\* row while it is in flight: its weight never goes down before it ends.
FullIsFull ==
  InHand # {} /\ work.full /\ InFlight(work.d) => dep[work.d].weight = 100

LEMMA FullStep == LedgerInv /\ SweepInv /\ FullIsFull /\ [Next]_vars => FullIsFull'
<1> SUFFICES ASSUME LedgerInv, SweepInv, FullIsFull, [Next]_vars,
                    InHand' # {}, work'.full, InFlight(work.d)'
             PROVE  dep'[work'.d].weight = 100
  BY DEF FullIsFull
<1>1. ASSUME NEW d \in Deployments, InHand # {}, d = work.d, work'.d = d,
             work'.full = work.full
      PROVE  dep'[work'.d].weight = 100
  <2>1. Exists(d)
    BY <1>1 DEF SweepInv, InHand
  <2>2. InFlight(d) /\ dep'[d].weight >= dep[d].weight
    <3>1. InFlight(d)'
      BY <1>1 DEF InFlight
    <3> QED BY <2>1, <3>1, RowUnderOperation, StepIsOperation
  <2>3. dep[d].weight = 100
    BY <1>1, <2>2 DEF FullIsFull
  <2>4. dep'[d].weight \in 0..100
    BY LedgerStep, StepIsOperation DEF LedgerInv, TypeOKDB, Row
  <2> QED BY <1>1, <2>2, <2>3, <2>4
<1>2. CASE UNCHANGED work
  BY <1>1, <1>2 DEF InHand, SweepInv
<1>3. CASE ListActive
  BY <1>3 DEF ListActive, Start, InHand
<1>4. CASE EndSweep
  BY <1>4 DEF EndSweep, Goto, InHand, SweepInv, Work
<1>5. ASSUME NEW d \in Deployments, GetDeployment(d)
      PROVE  dep'[work'.d].weight = 100
  <2>1. /\ work'.d = d /\ work'.full = AtFullTraffic(dep[d]) /\ dep' = dep
    BY <1>5 DEF GetDeployment, SweepInv, Work, dbvars
  <2>2. dep[d].weight >= 100
    BY <2>1 DEF AtFullTraffic
  <2>3. dep[d].weight \in 0..100
    BY DEF LedgerInv, TypeOKDB, Row
  <2> QED BY <2>1, <2>2, <2>3
<1>6. CASE CheckDue
  BY <1>1, <1>6 DEF CheckDue, Done, Goto, InHand, SweepInv, Work
<1>7. ASSUME NEW v \in Results, Evaluate(v)
      PROVE  dep'[work'.d].weight = 100
  BY <1>1, <1>7 DEF Evaluate, Done, Goto, InHand, SweepInv, Work
<1>8. CASE Act
  BY <1>8, ActFacts DEF InHand, SweepInv, Work
<1>9. CASE CallFails
  BY <1>9 DEF CallFails, Done, Goto, InHand, SweepInv, Work
<1>10. CASE Restart
  BY <1>10 DEF Restart, Start, InHand
<1> QED BY <1>2, <1>3, <1>4, <1>5, <1>6, <1>7, <1>8, <1>9, <1>10
           DEF Next, Others, WorkerStep, WindowPasses, Operate, Create, vars, workvars

\* A step that takes the worker out of "act" and writes the database is Act.
LEMMA WorkerActsIsAct ==
  ASSUME SweepInv, [Next]_vars, WorkerActs
  PROVE  Act
<1>1. ASSUME UNCHANGED work \/ UNCHANGED dep
      PROVE  FALSE
  BY <1>1 DEF WorkerActs
<1>2. ASSUME ListActive \/ EndSweep \/ CheckDue \/ CallFails \/ Restart
      PROVE  UNCHANGED dep
  BY <1>2 DEF ListActive, EndSweep, CheckDue, CallFails, Restart, dbvars
<1>3. ASSUME (\E d \in Deployments : GetDeployment(d)) \/ (\E v \in Results : Evaluate(v))
      PROVE  UNCHANGED dep
  BY <1>3 DEF GetDeployment, Evaluate, dbvars
<1> QED BY <1>1, <1>2, <1>3
           DEF Next, Others, WorkerStep, WindowPasses, Operate, Create, vars, workvars

\* The worker promotes a canary only while it takes all the traffic.
THEOREM PromotesAtFullTrafficTheorem == Spec => PromotesAtFullTraffic
<1>1. ASSUME LedgerInv, SweepInv, FullIsFull, [Next]_vars, NEW d \in Deployments,
             WorkerActs, dep'[d].status # dep[d].status, dep'[d].status = "PROMOTED"
      PROVE  dep[d].weight = 100
  <2> USE <1>1 DEF LedgerInv
  <2>1. Act
    BY WorkerActsIsAct
  <2>2. work.d \in Deployments /\ Exists(work.d) /\ InHand # {}
    BY <2>1, ActFacts DEF InHand
  <2>3. dep[work.d] \in Row /\ dep[work.d].status \in DURABLE_STATUSES
    BY <2>2 DEF TypeOKDB, RowsWellFormed, Exists
  <2>4. CASE work.full /\ PromoteDB(work.d)
    <3>1. d = work.d
      BY <2>4, <2>2 DEF PromoteDB, FinishDB, TypeOKDB
    <3>2. dep[d].status \in {"CANARY_RUNNING", "INCONCLUSIVE"}
      BY <2>2, <2>3, <2>4, <3>1, FinishFacts DEF PromoteDB, FinishDB, Exists
    <3>3. InFlight(d)
      BY <3>2, StatusFacts DEF InFlight
    <3> QED BY <2>2, <2>4, <3>1, <3>3 DEF FullIsFull
  <2>5. CASE RollbackDB(work.d)
    <3>1. PICK t, g : dep' = [dep EXCEPT ![work.d] = Finished(@, "ROLLED_BACK", 0, g, t)]
      BY <2>5 DEF RollbackDB, FinishDB
    <3>2. dep'[work.d].status = "ROLLED_BACK"
      BY <3>1, <2>2, <2>3 DEF Finished, Advanced, Touched, TypeOKDB, Row
    <3> QED BY <3>1, <3>2 DEF TypeOKDB
  <2>6. CASE AdvanceDB(work.d)
    <3>1. PICK w, g : dep' = [dep EXCEPT ![work.d] = Advanced(@, w, g)]
      BY <2>6 DEF AdvanceDB
    <3>2. dep'[work.d].status = dep[work.d].status
      BY <3>1, <2>2, <2>3 DEF Advanced, Touched, TypeOKDB, Row
    <3> QED BY <3>1, <3>2 DEF TypeOKDB
  <2>7. CASE RecordInconclusiveDB(work.d)
    <3>1. PICK n, t : dep' = [dep EXCEPT ![work.d] = Retried(@, n, t)]
      BY <2>7 DEF RecordInconclusiveDB
    <3>2. dep'[work.d].status \in {dep[work.d].status, "INCONCLUSIVE"}
      BY <3>1, <2>2, <2>3 DEF Retried, Touched, TypeOKDB, Row
    <3> QED BY <3>1, <3>2 DEF TypeOKDB
  <2>8. CASE UNCHANGED dbvars
    BY <2>8 DEF dbvars, WorkerActs
  <2> QED BY <2>1, <2>4, <2>5, <2>6, <2>7, <2>8, ActFacts
<1>2. LedgerInv /\ SweepInv /\ FullIsFull /\ [Next]_vars =>
        [\A d \in Deployments :
           WorkerActs /\ dep'[d].status # dep[d].status /\ dep'[d].status = "PROMOTED"
             => dep[d].weight = 100]_vars
  BY <1>1
<1>3. Init => FullIsFull
  BY DEF Init, Start, InHand, FullIsFull
<1> QED BY <1>2, <1>3, SweepInit, SweepStep, StepIsOperation, LedgerStep, FullStep, PTL
           DEF Spec, PromotesAtFullTraffic

-----------------------------------------------------------------------------
\* An operation other than record_inconclusive counts nothing and freezes nothing.
UncountedStep ==
  \/ UNCHANGED dep
  \/ \E d \in Deployments :
       \/ PromoteDB(d) \/ RollbackDB(d) \/ AdvanceDB(d)
       \/ \E p \in BOOLEAN : SetPausedDB(d, p)
       \/ \E m \in Models, key \in Keys \cup {None}, w \in InitialWeights,
             paused \in BOOLEAN : CreateDB(d, m, key, w, paused)

LEMMA RetriesKept ==
  ASSUME LedgerInv, UncountedStep, NEW d \in Deployments
  PROVE  /\ dep'[d].retries \in {0, dep[d].retries}
         /\ dep'[d].status = "INCONCLUSIVE" => dep[d].status = "INCONCLUSIVE"
<1> USE DEF LedgerInv
<1> DEFINE Kept(r) == /\ r.retries \in {0, dep[d].retries}
                      /\ r.status = "INCONCLUSIVE" => dep[d].status = "INCONCLUSIVE"
<1> SUFFICES Kept(dep'[d])
  OBVIOUS
<1>1. dep[d] \in Row
  BY DEF TypeOKDB
<1>2. CASE dep' = dep
  BY <1>2
<1>3. ASSUME NEW e \in Deployments, e # d, NEW r, dep' = [dep EXCEPT ![e] = r]
      PROVE  Kept(dep'[d])
  BY <1>3 DEF TypeOKDB
<1>4. ASSUME NEW r, dep' = [dep EXCEPT ![d] = r], Kept(r)
      PROVE  Kept(dep'[d])
  BY <1>4 DEF TypeOKDB
<1>5. ASSUME NEW e \in Deployments, NEW m \in Models, NEW key \in Keys \cup {None},
             NEW w \in InitialWeights, NEW paused \in BOOLEAN,
             CreateDB(e, m, key, w, paused)
      PROVE  Kept(dep'[d])
  <2> DEFINE r == NewRow(m, key, w, paused, generation[m] + 1)
  <2>1. dep' = [dep EXCEPT ![e] = r]
    BY <1>5 DEF CreateDB
  <2>2. Kept(r)
    BY DEF NewRow
  <2> HIDE DEF r, Kept
  <2> QED BY <2>1, <2>2, <1>3, <1>4
<1>6. ASSUME NEW e \in Deployments, PromoteDB(e) \/ RollbackDB(e)
      PROVE  Kept(dep'[d])
  <2>1. PICK s, w, g, t :
          /\ s \in {"PROMOTED", "ROLLED_BACK"}
          /\ dep' = [dep EXCEPT ![e] = Finished(@, s, w, g, t)]
    BY <1>6 DEF PromoteDB, RollbackDB, FinishDB
  <2>2. Kept(Finished(dep[d], s, w, g, t))
    BY <2>1, <1>1 DEF Finished, Advanced, Touched, Row
  <2> HIDE DEF Kept
  <2> QED BY <2>1, <2>2, <1>3, <1>4
<1>7. ASSUME NEW e \in Deployments, AdvanceDB(e)
      PROVE  Kept(dep'[d])
  <2>1. PICK w, g : dep' = [dep EXCEPT ![e] = Advanced(@, w, g)]
    BY <1>7 DEF AdvanceDB
  <2>2. Kept(Advanced(dep[d], w, g))
    BY <1>1 DEF Advanced, Touched, Row
  <2> HIDE DEF Kept
  <2> QED BY <2>1, <2>2, <1>3, <1>4
<1>8. ASSUME NEW e \in Deployments, NEW p \in BOOLEAN, SetPausedDB(e, p)
      PROVE  Kept(dep'[d])
  <2>1. dep' = [dep EXCEPT ![e] = WithPaused(@, p)]
    BY <1>8 DEF SetPausedDB
  <2>2. Kept(WithPaused(dep[d], p))
    BY <1>1 DEF WithPaused, Touched, Row
  <2> HIDE DEF Kept
  <2> QED BY <2>1, <2>2, <1>3, <1>4
<1> HIDE DEF Kept
<1> QED BY <1>2, <1>5, <1>6, <1>7, <1>8 DEF UncountedStep

\* The verdicts the worker got cover what the counters say, and the one it is
\* about to record.
AboutToRecord(d) == work.pc = "act" /\ work.d = d /\ work.verdict = "INCONCLUSIVE"

VerdictsCover ==
  \A d \in Deployments :
    /\ verdicts[d] >= dep[d].retries
    /\ AboutToRecord(d) => verdicts[d] > dep[d].retries
    /\ dep[d].status = "INCONCLUSIVE" => verdicts[d] > MaxRetries

VerdictsType == verdicts \in [Deployments -> Nat]

LEMMA VerdictsStep ==
  LedgerInv /\ SweepInv /\ VerdictsType /\ VerdictsCover /\ [Next]_vars
    => VerdictsType' /\ VerdictsCover'
<1> SUFFICES ASSUME LedgerInv, SweepInv, VerdictsType, VerdictsCover, [Next]_vars
             PROVE  VerdictsType' /\ VerdictsCover'
  OBVIOUS
<1>1. \A d \in Deployments : dep[d].retries \in Nat /\ verdicts[d] \in Nat
  BY DEF LedgerInv, TypeOKDB, Row, VerdictsType
<1>2. ASSUME UNCHANGED verdicts, UncountedStep,
             \A d \in Deployments : AboutToRecord(d)' => AboutToRecord(d)
      PROVE  VerdictsType' /\ VerdictsCover'
  <2>1. VerdictsType'
    BY <1>2 DEF VerdictsType
  <2>2. \A d \in Deployments :
          /\ dep'[d].retries \in {0, dep[d].retries}
          /\ dep'[d].status = "INCONCLUSIVE" => dep[d].status = "INCONCLUSIVE"
    BY <1>2, RetriesKept
  <2> QED BY <1>1, <1>2, <2>1, <2>2 DEF VerdictsCover
<1>3. ASSUME NEW v \in Results, Evaluate(v)
      PROVE  VerdictsType' /\ VerdictsCover'
  <2>1. dep' = dep /\ MaxRetries \in Nat
    BY <1>3, RetriesAssumption DEF Evaluate, dbvars
  <2>2. CASE UNCHANGED verdicts /\ Done
    BY <2>1, <2>2 DEF VerdictsType, VerdictsCover, AboutToRecord, Done, Goto, SweepInv, Work
  <2>3. CASE /\ verdicts' = [verdicts EXCEPT ![work.d] = Counted(@, v)]
             /\ work' = [work EXCEPT !.pc = "act", !.verdict = v]
    <3>1. work.d \in Deployments
      BY <1>3 DEF Evaluate, SweepInv, InHand
    <3>2. \A c \in Nat :
            /\ Counted(c, v) \in Nat
            /\ Counted(c, v) >= c
            /\ v = "INCONCLUSIVE" => Counted(c, v) > c
      BY DEF Counted
    <3>3. VerdictsType'
      BY <2>3, <3>2 DEF VerdictsType
    <3>4. \A d \in Deployments : /\ verdicts'[d] >= verdicts[d]
                                 /\ verdicts'[d] \in Nat
      BY <1>1, <2>3, <3>2, <3>3 DEF VerdictsType
    <3>5. \A d \in Deployments :
            AboutToRecord(d)' => verdicts'[d] > verdicts[d]
      BY <2>3, <3>1, <3>2 DEF AboutToRecord, VerdictsType, SweepInv, Work
    <3> QED BY <1>1, <2>1, <3>3, <3>4, <3>5 DEF VerdictsCover
  <2> QED BY <1>3, <2>2, <2>3 DEF Evaluate
<1>4. CASE Act
  <2>1. /\ work.d \in Deployments /\ UNCHANGED verdicts
        /\ \A d \in Deployments : ~AboutToRecord(d)'
    BY <1>4, ActFacts DEF Act, AboutToRecord, SweepInv, Work
  <2>2. CASE UncountedStep
    BY <1>2, <2>1, <2>2
  <2>3. CASE RecordInconclusiveDB(work.d) /\ work.verdict = "INCONCLUSIVE"
    <3> DEFINE n == dep[work.d].retries + 1
    <3>1. AboutToRecord(work.d)
      BY <1>4, <2>3, ActFacts DEF AboutToRecord
    <3>2. verdicts[work.d] >= n /\ n \in Nat /\ MaxRetries \in Nat
      BY <1>1, <2>1, <3>1, RetriesAssumption DEF VerdictsCover
    <3>3. PICK t : dep' = [dep EXCEPT ![work.d] = Retried(@, n, t)]
      BY <2>3 DEF RecordInconclusiveDB
    <3>4. dep[work.d] \in Row /\ dep[work.d].status # "INCONCLUSIVE"
      BY <2>1, <2>3 DEF LedgerInv, TypeOKDB, RecordInconclusiveDB, ACTIVE_STATUSES
    <3> HIDE DEF n
    <3>5. LET q == Retried(dep[work.d], n, t) IN
          q.retries = n /\ (q.status = "INCONCLUSIVE" => n > MaxRetries)
      BY <3>4 DEF Retried, Touched, Row
    <3>6. \A d \in Deployments : d # work.d => dep'[d] = dep[d]
      BY <3>3 DEF LedgerInv, TypeOKDB
    <3>7. dep'[work.d] = Retried(dep[work.d], n, t)
      BY <2>1, <3>3 DEF LedgerInv, TypeOKDB
    <3> QED BY <1>1, <2>1, <3>2, <3>5, <3>6, <3>7 DEF VerdictsCover, VerdictsType
  <2> QED BY <1>4, <2>1, <2>2, <2>3, ActFacts DEF UncountedStep, dbvars
<1>5. CASE ListActive \/ EndSweep \/ CheckDue \/ CallFails \/ Restart
  <2>1. UNCHANGED <<verdicts, dep>>
    BY <1>5 DEF ListActive, EndSweep, CheckDue, CallFails, Restart, dbvars
  <2>2. work'.pc # "act"
    <3>1. CASE ListActive
      BY <3>1 DEF ListActive, Start
    <3>4. CASE Restart
      BY <3>4 DEF Restart, Start
    <3>2. CASE EndSweep \/ CheckDue
      BY <3>2 DEF EndSweep, CheckDue, Done, Goto, SweepInv, Work
    <3>3. CASE CallFails
      BY <3>3 DEF CallFails, Done, Goto, SweepInv, Work
    <3> QED BY <1>5, <3>1, <3>2, <3>3, <3>4
  <2> QED BY <1>2, <2>1, <2>2 DEF UncountedStep, AboutToRecord
<1>6. ASSUME NEW d \in Deployments, GetDeployment(d)
      PROVE  VerdictsType' /\ VerdictsCover'
  <2>1. UNCHANGED <<verdicts, dep>> /\ work'.pc # "act"
    BY <1>6 DEF GetDeployment, SweepInv, Work, dbvars
  <2> QED BY <1>2, <2>1 DEF UncountedStep, AboutToRecord
<1>7. ASSUME UNCHANGED <<work, verdicts>>, UncountedStep
      PROVE  VerdictsType' /\ VerdictsCover'
  BY <1>2, <1>7 DEF AboutToRecord
<1>8. ASSUME NEW d \in Deployments, WindowPasses(d) \/ Operate(d)
      PROVE  UNCHANGED <<work, verdicts>> /\ UncountedStep
  BY <1>8 DEF WindowPasses, Operate, UncountedStep, dbvars
<1>9. ASSUME NEW d \in Deployments, NEW m \in Models, NEW key \in Keys \cup {None},
             NEW w \in InitialWeights, NEW paused \in BOOLEAN,
             Create(d, m, key, w, paused)
      PROVE  UNCHANGED <<work, verdicts>> /\ UncountedStep
  BY <1>9 DEF Create, workvars, UncountedStep
<1>10. CASE UNCHANGED vars
  BY <1>7, <1>10 DEF vars, workvars, dbvars, UncountedStep
<1> QED BY <1>3, <1>4, <1>5, <1>6, <1>7, <1>8, <1>9, <1>10 DEF Next, Others, WorkerStep

\* Between them, a fault, a restart and an operator never make the retry counter
\* run ahead of the inconclusive verdicts the worker got.
THEOREM RetriesEarnedTheorem == Spec => []RetriesEarned
<1>1. Init => VerdictsType /\ VerdictsCover
  BY DEF Init, InitDB, NoRow, VerdictsType, VerdictsCover, AboutToRecord, Start
<1>2. LedgerInv /\ VerdictsType /\ VerdictsCover => RetriesEarned
  BY DEF LedgerInv, TypeOKDB, Row, VerdictsType, VerdictsCover, RetriesEarned
<1> QED BY <1>1, <1>2, SweepInit, SweepStep, StepIsOperation, LedgerStep, VerdictsStep, PTL
           DEF Spec

-----------------------------------------------------------------------------
(***************************************************************************)
(* Type correctness: of the tables by LedgerInv, of the sweep by SweepInv. *)
(***************************************************************************)
CountersType ==
  /\ recent \subseteq Deployments
  /\ manual \in 0..MaxManual
  /\ faults \in 0..MaxFaults

LEMMA CountersStep == SweepInv /\ CountersType /\ [Next]_vars => CountersType'
<1> SUFFICES ASSUME SweepInv, CountersType, [Next]_vars PROVE CountersType'
  OBVIOUS
<1> USE BoundsAssumption
<1>1. CASE ListActive \/ EndSweep \/ CheckDue \/ Act \/ UNCHANGED vars
  BY <1>1 DEF ListActive, EndSweep, CheckDue, Act, vars, workvars, CountersType
<1>2. ASSUME NEW d \in Deployments, GetDeployment(d)
      PROVE  CountersType'
  BY <1>2 DEF GetDeployment, CountersType
<1>3. ASSUME NEW v \in Results, Evaluate(v)
      PROVE  CountersType'
  <2>1. work.d \in Deployments \/ ~Active(work.d)
    BY <1>3 DEF Evaluate, SweepInv, InHand
  <2> QED BY <1>3, <2>1 DEF Evaluate, CountersType
<1>4. CASE CallFails \/ Restart
  <2>1. faults' = faults + 1 /\ faults < MaxFaults /\ UNCHANGED manual
    BY <1>4 DEF CallFails, Restart, Fault
  <2>2. recent' \subseteq Deployments
    BY <1>4 DEF CallFails, Restart, CountersType, SweepInv, InHand
  <2> QED BY <2>1, <2>2 DEF CountersType
<1>5. ASSUME NEW d \in Deployments, WindowPasses(d) \/ Operate(d)
      PROVE  CountersType'
  <2>1. recent' \subseteq Deployments
    BY <1>5 DEF WindowPasses, Operate, CountersType
  <2> QED BY <1>5, <2>1 DEF WindowPasses, Operate, CountersType
<1>6. ASSUME NEW d \in Deployments, NEW m \in Models, NEW key \in Keys \cup {None},
             NEW w \in InitialWeights, NEW paused \in BOOLEAN,
             Create(d, m, key, w, paused)
      PROVE  CountersType'
  BY <1>6 DEF Create, workvars, CountersType
<1> QED BY <1>1, <1>2, <1>3, <1>4, <1>5, <1>6 DEF Next, Others, WorkerStep

\* Every reachable state is type correct, the copies the worker holds of rows that
\* have changed since included.
THEOREM WorkerTypeCorrect == Spec => []TypeOK
<1>1. Init => CountersType /\ VerdictsType /\ VerdictsCover
  BY BoundsAssumption
     DEF Init, InitDB, NoRow, CountersType, VerdictsType, VerdictsCover, AboutToRecord, Start
<1>2. LedgerInv /\ SweepInv /\ CountersType /\ VerdictsType => TypeOK
  BY DEF LedgerInv, SweepInv, CountersType, VerdictsType, TypeOK
<1> QED BY <1>1, <1>2, SweepInit, SweepStep, StepIsOperation, LedgerStep, VerdictsStep,
           CountersStep, PTL DEF Spec
=============================================================================
