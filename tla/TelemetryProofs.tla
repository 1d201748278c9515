-------------------------- MODULE TelemetryProofs --------------------------
(***************************************************************************)
(* Proofs about Telemetry: where metrics and labels come from, that        *)
(* ingest_label implements the register of GroundTruth, and that their join*)
(* counts every recorded prediction once.                                  *)
(***************************************************************************)
EXTENDS Telemetry, TLAPS, FiniteSetTheorems

-----------------------------------------------------------------------------
(***************************************************************************)
(* Type correctness, which needs that a request on its way has a target,   *)
(* picked from the configuration it was received under.                    *)
(***************************************************************************)
OnItsWay(x) ==
  /\ x.pc \in {"checking", "forwarding", "served", "answered"} =>
       x.v \in Versions /\ (x.d \in Deployments => x.v \in VersionsOf[x.d])
  /\ x.pc \in {"served", "answered"} => x.status \in Nat

Picked == \A p \in Requests : OnItsWay(req[p])

LEMMA NotAskedType == NotAsked \in RequestState /\ Refused \in RequestState /\ OnItsWay(Refused)
  BY SMT DEF NotAsked, Refused, RequestState, Targets, OnItsWay

LEMMA MovesOn ==
  ASSUME NEW x \in RequestState,
         NEW pc \in {"idle", "checking", "forwarding", "served", "answered", "refused"}
  PROVE  [x EXCEPT !.pc = pc] \in RequestState
  BY SMT DEF RequestState

LEMMA TargetPicked ==
  ASSUME NEW d \in Targets, NEW v \in Versions
  PROVE  [NotAsked EXCEPT !.pc = "checking", !.d = d, !.v = v] \in RequestState
<1> DEFINE a == [NotAsked EXCEPT !.pc = "checking"]
           b == [a EXCEPT !.d = d]
<1>1. a \in RequestState
  BY MovesOn, NotAskedType
<1>2. \A z \in RequestState : [z EXCEPT !.d = d] \in RequestState
  BY SMT DEF RequestState
<1>3. \A z \in RequestState : [z EXCEPT !.v = v] \in RequestState
  BY SMT DEF RequestState
<1>4. b \in RequestState
  BY <1>1, <1>2
<1> HIDE DEF b
<1>5. [b EXCEPT !.v = v] \in RequestState
  BY <1>3, <1>4
<1> QED BY <1>5 DEF b

LEMMA ResponseKept ==
  ASSUME NEW x \in RequestState, NEW n \in Nat, NEW y \in {Missing, 0, 1}
  PROVE  [x EXCEPT !.pc = "served", !.status = n, !.prediction = y] \in RequestState
<1> DEFINE a == [x EXCEPT !.pc = "served"]
           b == [a EXCEPT !.status = n]
<1>1. a \in RequestState
  BY MovesOn
<1>2. \A z \in RequestState : [z EXCEPT !.status = n] \in RequestState
  BY SMT DEF RequestState
<1>3. \A z \in RequestState : [z EXCEPT !.prediction = y] \in RequestState
  BY SMT DEF RequestState
<1>4. b \in RequestState
  BY <1>1, <1>2
<1> HIDE DEF b
<1>5. [b EXCEPT !.prediction = y] \in RequestState
  BY <1>3, <1>4
<1> QED BY <1>5 DEF b

LEMMA OneRequestChanges ==
  ASSUME TypeOK, Picked, NEW p \in Requests, NEW x \in RequestState, OnItsWay(x),
         req' = [req EXCEPT ![p] = x]
  PROVE  req' \in [Requests -> RequestState] /\ Picked'
  BY DEF TypeOK, Picked, OnItsWay

LEMMA ForwardType ==
  ASSUME TypeOK, Picked, NEW p \in Requests, Forward(p)
  PROVE  TypeOK' /\ Picked'
<1> USE NotAskedType
<1>0. req[p] \in RequestState /\ OnItsWay(req[p])
  BY DEF TypeOK, Picked
<1>1. ASSUME NEW v \in Versions, Receive(p, v)
      PROVE  TypeOK' /\ Picked'
  <2> DEFINE x == [NotAsked EXCEPT !.pc = "checking", !.d = config.d, !.v = v]
  <2>1. config.d \in Targets /\ (config.d \in Deployments => v \in VersionsOf[config.d])
    BY <1>1, ConfigsAssumption DEF TypeOK, Targets, Receive
  <2>2. x \in RequestState
    BY <2>1, TargetPicked
  <2>3. OnItsWay(x)
    BY <2>1 DEF OnItsWay, NotAsked
  <2>4. req' = [req EXCEPT ![p] = x] \/ req' = [req EXCEPT ![p] = Refused]
    BY <1>1 DEF Receive
  <2>5. req' \in [Requests -> RequestState] /\ Picked'
    BY <2>2, <2>3, <2>4, OneRequestChanges
  <2> QED BY <1>1, <2>5 DEF TypeOK, Receive, labelvars
<1>2. ASSUME NEW ready \in BOOLEAN, CheckReady(p, ready)
      PROVE  TypeOK' /\ Picked'
  <2> DEFINE x == [req[p] EXCEPT !.pc = "forwarding"]
  <2>1. x \in RequestState
    BY <1>0, MovesOn
  <2>4. OnItsWay(x)
    BY <1>0, <1>2 DEF OnItsWay, CheckReady, RequestState
  <2>2. req' = [req EXCEPT ![p] = x] \/ req' = [req EXCEPT ![p] = Refused]
    BY <1>2 DEF CheckReady, TypeOK
  <2>3. req' \in [Requests -> RequestState] /\ Picked'
    BY <2>1, <2>2, <2>4, OneRequestChanges
  <2> QED BY <1>2, <2>3 DEF TypeOK, CheckReady, labelvars
<1>3. ASSUME NEW s \in Answers, Serve(p, s)
      PROVE  TypeOK' /\ Picked'
  <2> DEFINE x == [req[p] EXCEPT !.pc = "served", !.status = s.status,
                                 !.prediction = s.prediction]
  <2>1. s.status \in Nat /\ s.prediction \in {Missing, 0, 1}
    BY AnswersAssumption
  <2>2. x \in RequestState
    BY <1>0, <2>1, ResponseKept
  <2>3. OnItsWay(x)
    BY <1>0, <1>3, <2>1 DEF OnItsWay, Serve, RequestState
  <2>4. req' = [req EXCEPT ![p] = x]
    BY <1>3 DEF Serve, TypeOK, RequestState
  <2>5. req' \in [Requests -> RequestState] /\ Picked'
    BY <2>2, <2>3, <2>4, OneRequestChanges
  <2> QED BY <1>3, <2>5 DEF TypeOK, Serve, labelvars
<1>4. CASE UpstreamUnavailable(p)
  <2>1. req' \in [Requests -> RequestState] /\ Picked'
    BY <1>4, OneRequestChanges DEF UpstreamUnavailable
  <2> QED BY <1>4, <2>1 DEF TypeOK, UpstreamUnavailable, labelvars
<1>5. CASE Answer(p)
  <2> DEFINE x == [req[p] EXCEPT !.pc = "answered"]
  <2>1. x \in RequestState
    BY <1>0, MovesOn
  <2>5. OnItsWay(x)
    BY <1>0, <1>5 DEF OnItsWay, Answer, RequestState
  <2>2. req' \in [Requests -> RequestState] /\ Picked'
    BY <1>5, <2>1, <2>5, OneRequestChanges DEF Answer
  <2>3. /\ req[p].d \in Targets /\ req[p].v \in Versions /\ req[p].status \in Nat
        /\ req[p].prediction \in {Missing, 0, 1}
    BY <1>0, <1>5 DEF Answer, OnItsWay, RequestState
  <2>4. Pushed(p) \subseteq Metric
    BY <2>3 DEF Pushed, Metric
  <2> QED BY <1>5, <2>2, <2>4 DEF TypeOK, Answer, labelvars
<1> QED BY <1>1, <1>2, <1>3, <1>4, <1>5 DEF Forward

LEMMA RouterType ==
  ASSUME TypeOK, Picked,
         \/ \E c \in Configs : PutConfig(c)
         \/ RouterRestart
         \/ \E m \in pushes : RecordMetric(m) \/ LosePush(m)
  PROVE  TypeOK' /\ Picked'
<1>0. \A m \in pushes : m.id \in Requests
  BY SMT DEF TypeOK, Metric
<1>1. ASSUME NEW c \in Configs, PutConfig(c)
      PROVE  TypeOK' /\ Picked'
  BY <1>1 DEF TypeOK, PutConfig, labelvars, Picked
<1>2. CASE RouterRestart
  BY <1>2, <1>0, NotAskedType DEF TypeOK, RouterRestart, labelvars, Picked
<1>3. ASSUME NEW m \in pushes, RecordMetric(m)
      PROVE  TypeOK' /\ Picked'
  BY <1>3 DEF TypeOK, RecordMetric, labelvars, Picked
<1>4. ASSUME NEW m \in pushes, LosePush(m)
      PROVE  TypeOK' /\ Picked'
  BY <1>4, <1>0 DEF TypeOK, LosePush, labelvars, Picked
<1> QED BY <1>1, <1>2, <1>3, <1>4
-----------------------------------------------------------------------------
(***************************************************************************)
(* The label sessions.  A label is there at most once per prediction; a    *)
(* session that has inserted one, or found one, acts on what that says.    *)
(***************************************************************************)
LabelsUnique == \A l1, l2 \in labels : l1.pid = l2.pid => l1 = l2

\* What a session at work relies on.
Informed(s, rows) ==
  /\ s.pc # "idle" => s.actual \in {0, 1} /\ \E p \in Requests : s.pid = {p}
  /\ s.pc # "answered" => s.outcome = "none"
  /\ s.pc = "find" => \E l \in rows : s.pid = {l.pid} /\ l.actual = s.actual
  /\ s.pc = "resolve" => \E l \in rows : s.pid = {l.pid} /\ l.actual = s.found

LabelInv ==
  /\ labels \subseteq [pid: Requests, actual: {0, 1}, by: Feeders]
  /\ conflicts \subseteq [d: Deployments, pid: Requests]
  /\ session \in [Feeders -> SessionState]
  /\ LabelsUnique
  /\ \A f \in Feeders : Informed(session[f], labels)

LEMMA NoSessionType == NoSession \in SessionState /\ \A rows : Informed(NoSession, rows)
<1>1. NoSession \in SessionState
  BY SMT DEF NoSession, SessionState
<1>2. \A rows : Informed(NoSession, rows)
  BY SMT DEF NoSession, Informed
<1> QED BY <1>1, <1>2

LEMMA SessionMoves ==
  ASSUME NEW x \in SessionState
  PROVE  /\ \A pc \in {"idle", "insert", "reselect", "resolve", "find", "answered"} :
              [x EXCEPT !.pc = pc] \in SessionState
         /\ \A p \in Requests : [x EXCEPT !.pid = {p}] \in SessionState
         /\ \A a \in {0, 1} : [x EXCEPT !.actual = a] \in SessionState
         /\ \A a \in {0, 1} : [x EXCEPT !.found = a] \in SessionState
         /\ \A o \in {"none", "applied", "no_op", "pending", "conflict"} :
              [x EXCEPT !.outcome = o] \in SessionState
<1>1. \A pc \in {"idle", "insert", "reselect", "resolve", "find", "answered"} :
        [x EXCEPT !.pc = pc] \in SessionState
  BY SMT DEF SessionState
<1>2. \A p \in Requests : [x EXCEPT !.pid = {p}] \in SessionState
  BY SMT DEF SessionState
<1>3. \A a \in {0, 1} : [x EXCEPT !.actual = a] \in SessionState
  BY SMT DEF SessionState
<1>4. \A a \in {0, 1} : [x EXCEPT !.found = a] \in SessionState
  BY SMT DEF SessionState
<1>5. \A o \in {"none", "applied", "no_op", "pending", "conflict"} :
        [x EXCEPT !.outcome = o] \in SessionState
  BY SMT DEF SessionState
<1> QED BY <1>1, <1>2, <1>3, <1>4, <1>5

LEMMA SameReport ==
  ASSUME NEW x \in SessionState, NEW new
  PROVE  /\ LET y == [x EXCEPT !.pc = new]
            IN  /\ y.pc = new /\ y.pid = x.pid /\ y.actual = x.actual
                /\ y.outcome = x.outcome
         /\ LET y == [x EXCEPT !.found = new]
            IN  /\ y.pc = x.pc /\ y.pid = x.pid /\ y.actual = x.actual
                /\ y.outcome = x.outcome /\ y.found = new
         /\ LET y == [x EXCEPT !.outcome = new]
            IN  y.pc = x.pc /\ y.pid = x.pid /\ y.actual = x.actual
  BY SMT DEF SessionState

\* The next state of one session, field by field.
LEMMA OneSessionChanges ==
  ASSUME LabelInv, NEW f \in Feeders, NEW x \in SessionState,
         session' = [session EXCEPT ![f] = x], labels \subseteq labels',
         Informed(x, labels')
  PROVE  /\ session' \in [Feeders -> SessionState]
         /\ \A g \in Feeders : Informed(session'[g], labels')
<1>1. session' \in [Feeders -> SessionState]
  BY DEF LabelInv
<1>2. ASSUME NEW g \in Feeders
      PROVE  Informed(session'[g], labels')
  <2>1. CASE g = f
    BY <2>1 DEF LabelInv
  <2>2. CASE g # f
    <3>1. session'[g] = session[g] /\ Informed(session[g], labels)
      BY <2>2 DEF LabelInv
    <3>2. Informed(session[g], labels')
      BY <3>1 DEF Informed
    <3> QED BY <3>1, <3>2
  <2> QED BY <2>1, <2>2
<1> QED BY <1>1, <1>2

LEMMA ReportInv ==
  ASSUME LabelInv, NEW f \in Feeders, NEW p \in Requests, NEW a \in {0, 1}, Report(f, p, a)
  PROVE  LabelInv'
<1> USE NoSessionType, SessionMoves
<1>1. CASE session' = [session EXCEPT ![f] =
             [NoSession EXCEPT !.pc = "insert", !.pid = {p}, !.actual = a]]
  <2> DEFINE y == [NoSession EXCEPT !.pc = "insert"]
             z == [y EXCEPT !.pid = {p}]
             x == [z EXCEPT !.actual = a]
  <2>1. x \in SessionState
    <3>1. y \in SessionState
      OBVIOUS
    <3>2. z \in SessionState
      BY <3>1
    <3> QED BY <3>2
  <2>2. Informed(x, labels')
    BY DEF Informed, NoSession
  <2>3. labels' = labels
    BY DEF Report
  <2>4. session' = [session EXCEPT ![f] = x]
    BY <1>1
  <2> HIDE DEF x
  <2>5. /\ session' \in [Feeders -> SessionState]
        /\ \A g \in Feeders : Informed(session'[g], labels')
    BY <2>1, <2>2, <2>3, <2>4, OneSessionChanges
  <2> QED BY <2>5 DEF LabelInv, Report, LabelsUnique
<1>2. ASSUME NEW l \in LabelsOf(p),
             session' = [session EXCEPT ![f] =
               [NoSession EXCEPT !.pc = "resolve", !.pid = {p}, !.actual = a,
                                 !.found = l.actual]]
      PROVE  LabelInv'
  <2> DEFINE y == [NoSession EXCEPT !.pc = "resolve"]
             z == [y EXCEPT !.pid = {p}]
             w == [z EXCEPT !.actual = a]
             x == [w EXCEPT !.found = l.actual]
  <2>0. l \in labels /\ l.pid = p /\ l.actual \in {0, 1}
    BY DEF LabelsOf, LabelInv
  <2>1. x \in SessionState
    <3>1. y \in SessionState
      OBVIOUS
    <3>2. z \in SessionState
      BY <3>1
    <3>3. w \in SessionState
      BY <3>2
    <3> QED BY <3>3, <2>0
  <2>3. labels' = labels
    BY DEF Report
  <2>2. Informed(x, labels')
    BY <2>0, <2>3 DEF Informed, NoSession
  <2>4. session' = [session EXCEPT ![f] = x]
    BY <1>2
  <2> HIDE DEF x
  <2>5. /\ session' \in [Feeders -> SessionState]
        /\ \A g \in Feeders : Informed(session'[g], labels')
    BY <2>1, <2>2, <2>3, <2>4, OneSessionChanges
  <2> QED BY <2>5 DEF LabelInv, Report, LabelsUnique
<1> QED BY <1>1, <1>2 DEF Report

\* A handler's step keeps the session's own report and changes what follows.
LEMMA IngestInv ==
  ASSUME LabelInv, NEW f \in Feeders, NEW p \in Requests, Ingest(f, p),
         \A m \in metrics : m.d \in Deployments
  PROVE  LabelInv'
<1> USE SessionMoves
<1>0. session[f] \in SessionState /\ Informed(session[f], labels)
  BY DEF LabelInv
<1>1. CASE Insert(f, p)
  <2> DEFINE x == [session[f] EXCEPT !.pc = "find"]
             row == [pid |-> p, actual |-> session[f].actual, by |-> f]
  <2>1. x \in SessionState
    BY <1>0
  <2>2. row \in [pid: Requests, actual: {0, 1}, by: Feeders]
    BY <1>0, <1>1 DEF Informed, Insert
  <2>3. labels' = labels \cup {row}
    BY <1>1 DEF Insert, NewLabels
  <2>4. Informed(x, labels')
    <3>1. x.pc = "find" /\ x.pid = {p} /\ x.actual = session[f].actual /\ x.outcome = "none"
      BY <1>0, <1>1, SameReport DEF Informed, Insert
    <3>2. row \in labels' /\ row.pid = p /\ row.actual = x.actual
      BY <2>3, <3>1
    <3>3. x.actual \in {0, 1}
      BY <1>0, <1>1, <3>1 DEF Informed, Insert
    <3> HIDE DEF x, row
    <3> QED BY <3>1, <3>2, <3>3 DEF Informed
  <2>5. session' = [session EXCEPT ![f] = x]
    BY <1>1 DEF Insert
  <2>6. LabelsUnique'
    <3>1. row.pid = p /\ \A l \in labels : l.pid # p
      BY <1>1 DEF Insert, Insertable, LabelsOf
    <3> HIDE DEF row
    <3> QED BY <2>3, <3>1 DEF LabelsUnique, LabelInv
  <2>7. labels' \subseteq [pid: Requests, actual: {0, 1}, by: Feeders]
    BY <2>2, <2>3 DEF LabelInv
  <2> HIDE DEF x, row
  <2>8. /\ session' \in [Feeders -> SessionState]
        /\ \A g \in Feeders : Informed(session'[g], labels')
    BY <2>1, <2>3, <2>4, <2>5, OneSessionChanges
  <2> QED BY <1>1, <2>6, <2>7, <2>8 DEF LabelInv, Insert
<1>2. CASE InsertFails(f, p)
  <2> DEFINE x == [session[f] EXCEPT !.pc = "reselect"]
  <2>1. x \in SessionState
    BY <1>0
  <2>2. labels' = labels
    BY <1>2 DEF InsertFails
  <2>3. Informed(x, labels')
    <3>0. /\ session[f].pid = {p} /\ session[f].outcome = "none"
          /\ session[f].actual \in {0, 1}
      BY <1>0, <1>2 DEF Informed, InsertFails
    <3>1. /\ x.pc = "reselect" /\ x.pid = {p} /\ x.outcome = "none"
          /\ x.actual \in {0, 1}
      BY <1>0, <3>0, SameReport
    <3> HIDE DEF x
    <3> QED BY <3>1 DEF Informed
  <2>4. session' = [session EXCEPT ![f] = x]
    BY <1>2 DEF InsertFails, AfterIntegrityError
  <2> HIDE DEF x
  <2>5. /\ session' \in [Feeders -> SessionState]
        /\ \A g \in Feeders : Informed(session'[g], labels')
    BY <2>1, <2>2, <2>3, <2>4, OneSessionChanges
  <2> QED BY <1>2, <2>5 DEF LabelInv, InsertFails, LabelsUnique
<1>3. CASE Reselect(f, p)
  <2>0. PICK l \in LabelsOf(p) :
          session' = [session EXCEPT ![f].pc = "resolve", ![f].found = l.actual]
    BY <1>3 DEF Reselect
  <2> DEFINE y == [session[f] EXCEPT !.pc = "resolve"]
             x == [y EXCEPT !.found = l.actual]
  <2>1. l \in labels /\ l.pid = p /\ l.actual \in {0, 1}
    BY DEF LabelsOf, LabelInv
  <2>2. y \in SessionState
    BY <1>0
  <2>3. x \in SessionState
    BY <2>1, <2>2
  <2>4. labels' = labels
    BY <1>3 DEF Reselect
  <2>5. Informed(x, labels')
    <3>0. /\ session[f].pid = {p} /\ session[f].outcome = "none"
          /\ session[f].actual \in {0, 1}
      BY <1>0, <1>3 DEF Informed, Reselect
    <3>1. y.pc = "resolve" /\ y.pid = {p} /\ y.outcome = "none" /\ y.actual \in {0, 1}
      BY <1>0, <3>0, SameReport
    <3> HIDE DEF y
    <3>2. /\ x.pc = "resolve" /\ x.pid = {p} /\ x.outcome = "none" /\ x.actual \in {0, 1}
          /\ x.found = l.actual
      BY <2>2, <3>1, SameReport
    <3> HIDE DEF x
    <3> QED BY <2>1, <2>4, <3>2 DEF Informed
  <2>6. session' = [session EXCEPT ![f] = x]
    BY <2>0 DEF LabelInv
  <2> HIDE DEF x
  <2>7. /\ session' \in [Feeders -> SessionState]
        /\ \A g \in Feeders : Informed(session'[g], labels')
    BY <2>3, <2>4, <2>5, <2>6, OneSessionChanges
  <2> QED BY <1>3, <2>7 DEF LabelInv, Reselect, LabelsUnique
<1>4. CASE Resolve(f, p) \/ FindMetric(f, p)
  <2>0. PICK o \in {"applied", "no_op", "pending", "conflict"} :
          session' = [session EXCEPT ![f].pc = "answered", ![f].outcome = o]
    BY <1>4, Zenon DEF Resolve, FindMetric
  <2> DEFINE y == [session[f] EXCEPT !.pc = "answered"]
             x == [y EXCEPT !.outcome = o]
  <2>1. y \in SessionState
    BY <1>0
  <2>2. x \in SessionState
    BY <2>1
  <2>3. labels' = labels
    BY <1>4 DEF Resolve, FindMetric
  <2>4. Informed(x, labels')
    <3>1. y.pc = "answered" /\ y.pid = {p} /\ y.actual \in {0, 1}
      BY <1>0, <1>4, SameReport DEF Informed, Resolve, FindMetric
    <3> HIDE DEF y
    <3>2. x.pc = "answered" /\ x.pid = {p} /\ x.actual \in {0, 1}
      BY <2>1, <3>1, SameReport
    <3> HIDE DEF x
    <3> QED BY <3>2 DEF Informed
  <2>5. session' = [session EXCEPT ![f] = x]
    BY <2>0 DEF LabelInv
  <2>6. conflicts' \subseteq [d: Deployments, pid: Requests]
    <3>1. \A m \in MetricsOf(p) : [d |-> m.d, pid |-> p] \in [d: Deployments, pid: Requests]
      BY DEF MetricsOf
    <3>2. CASE FindMetric(f, p)
      BY <3>2 DEF FindMetric, LabelInv
    <3>3. CASE Resolve(f, p)
      <4>1. conflicts' \subseteq conflicts \cup {[d |-> m.d, pid |-> p] : m \in MetricsOf(p)}
        BY <3>3 DEF Resolve
      <4>2. conflicts \subseteq [d: Deployments, pid: Requests]
        BY DEF LabelInv
      <4> HIDE DEF LabelInv
      <4> QED BY <3>1, <4>1, <4>2
    <3> QED BY <1>4, <3>2, <3>3
  <2> HIDE DEF x
  <2>7. /\ session' \in [Feeders -> SessionState]
        /\ \A g \in Feeders : Informed(session'[g], labels')
    BY <2>2, <2>3, <2>4, <2>5, OneSessionChanges
  <2> QED BY <2>3, <2>6, <2>7 DEF LabelInv, LabelsUnique
<1> QED BY <1>1, <1>2, <1>3, <1>4 DEF Ingest

LEMMA LabelsElsewhere ==
  ASSUME LabelInv, UNCHANGED labelvars \/ BackendRestart
  PROVE  LabelInv'
<1>1. CASE UNCHANGED labelvars
  BY <1>1 DEF labelvars, LabelInv, LabelsUnique
<1>2. CASE BackendRestart
  BY <1>2, NoSessionType DEF BackendRestart, LabelInv, LabelsUnique
<1> QED BY <1>1, <1>2

-----------------------------------------------------------------------------
(***************************************************************************)
(* Where metrics and conflicts come from.  An answered request is never    *)
(* touched again, so what was copied from it stays what it says.           *)
(***************************************************************************)
Provenance ==
  /\ \A m \in pushes \cup metrics :
       req[m.id].pc = "answered" /\ m.d = req[m.id].d /\ m.v = req[m.id].v
  /\ \A e \in conflicts : req[e.pid].pc = "answered" /\ e.d = req[e.pid].d

TelemetryInv == TypeOK /\ Picked /\ LabelInv /\ Provenance

LEMMA TelemetryInit == Init => TelemetryInv
<1> SUFFICES ASSUME Init PROVE TelemetryInv
  OBVIOUS
<1> USE DEF Init
<1>1. TypeOK
  BY NotAskedType, NoSessionType DEF TypeOK
<1>2. Picked
  BY DEF Picked, OnItsWay, NotAsked
<1>3. LabelInv
  BY NoSessionType DEF LabelInv, LabelsUnique
<1>4. Provenance
  BY DEF Provenance
<1> QED BY <1>1, <1>2, <1>3, <1>4 DEF TelemetryInv

LEMMA MetricFields ==
  ASSUME TypeOK, NEW m \in metrics
  PROVE  /\ m.id \in Requests /\ m.d \in Deployments
         /\ m.pid # Missing => m.pid = m.id
  BY DEF TypeOK, Metric

LEMMA LabelTypes ==
  ASSUME LabelInv', TypeOK, UNCHANGED <<routervars, metrics>>, lost' \subseteq Requests
  PROVE  TypeOK'
  BY DEF LabelInv, TypeOK, routervars

\* The requests that metrics and conflicts were copied from stay as they are.
LEMMA StillSaysSo ==
  ASSUME TelemetryInv, \A q \in Requests : req[q].pc = "answered" => req'[q] = req[q]
  PROVE  /\ \A m \in pushes \cup metrics :
              req'[m.id].pc = "answered" /\ m.d = req'[m.id].d /\ m.v = req'[m.id].v
         /\ \A e \in conflicts : req'[e.pid].pc = "answered" /\ e.d = req'[e.pid].d
<1>1. \A m \in pushes \cup metrics : m.id \in Requests
  BY SMT DEF TelemetryInv, TypeOK, Metric
<1>2. \A e \in conflicts : e.pid \in Requests
  BY SMT DEF TelemetryInv, LabelInv
<1>3. \A m \in pushes \cup metrics : req'[m.id] = req[m.id]
  BY <1>1 DEF TelemetryInv, Provenance
<1>4. \A e \in conflicts : req'[e.pid] = req[e.pid]
  BY <1>2 DEF TelemetryInv, Provenance
<1> QED BY <1>3, <1>4 DEF TelemetryInv, Provenance

LEMMA TelemetryStep == TelemetryInv /\ [Next]_vars => TelemetryInv'
<1> SUFFICES ASSUME TelemetryInv, [Next]_vars PROVE TelemetryInv'
  OBVIOUS
<1> USE DEF TelemetryInv
<1>0. \A m \in metrics : m.d \in Deployments
  BY MetricFields
<1>1. ASSUME NEW p \in Requests, Forward(p)
      PROVE  TelemetryInv'
  <2>1. TypeOK' /\ Picked'
    BY <1>1, ForwardType
  <2>2. UNCHANGED labelvars /\ metrics' = metrics
    BY <1>1 DEF Forward, Receive, CheckReady, Serve, UpstreamUnavailable, Answer
  <2>3. LabelInv'
    BY <2>2, LabelsElsewhere
  <2>4. \A q \in Requests : req[q].pc = "answered" => req'[q] = req[q]
    BY <1>1 DEF Forward, Receive, CheckReady, Serve, UpstreamUnavailable, Answer, TypeOK
  <2>5. conflicts' = conflicts
    BY <2>2 DEF labelvars
  <2>6. /\ \A m \in pushes \cup metrics :
             req'[m.id].pc = "answered" /\ m.d = req'[m.id].d /\ m.v = req'[m.id].v
        /\ \A e \in conflicts : req'[e.pid].pc = "answered" /\ e.d = req'[e.pid].d
    BY <2>4, StillSaysSo
  <2> HIDE DEF TelemetryInv
  <2>7. CASE pushes' = pushes
    <3>1. Provenance'
      BY <2>2, <2>5, <2>6, <2>7, Zenon DEF Provenance
    <3> QED BY <2>1, <2>3, <3>1 DEF TelemetryInv
  <2>8. CASE Answer(p)
    <3>1. req'[p].pc = "answered" /\ req'[p].d = req[p].d /\ req'[p].v = req[p].v
      BY <2>8 DEF Answer, TelemetryInv, TypeOK, RequestState
    <3>2. \A m \in Pushed(p) : m.id = p /\ m.d = req[p].d /\ m.v = req[p].v
      BY DEF Pushed
    <3>3. pushes' = pushes \cup Pushed(p)
      BY <2>8 DEF Answer
    <3>4. Provenance'
      BY <2>2, <2>5, <2>6, <3>1, <3>2, <3>3 DEF Provenance
    <3> QED BY <2>1, <2>3, <3>4 DEF TelemetryInv
  <2> QED BY <1>1, <2>7, <2>8
             DEF Forward, Receive, CheckReady, Serve, UpstreamUnavailable
<1>2. CASE \/ \E c \in Configs : PutConfig(c)
           \/ RouterRestart
           \/ \E m \in pushes : RecordMetric(m) \/ LosePush(m)
  <2>1. TypeOK' /\ Picked'
    BY <1>2, RouterType
  <2>2. UNCHANGED labelvars
    BY <1>2 DEF PutConfig, RouterRestart, RecordMetric, LosePush
  <2>3. LabelInv'
    BY <2>2, LabelsElsewhere
  <2>4. \A q \in Requests : req[q].pc = "answered" => req'[q] = req[q]
    BY <1>2 DEF PutConfig, RouterRestart, RecordMetric, LosePush
  <2>5. conflicts' = conflicts
    BY <2>2 DEF labelvars
  <2>6. /\ \A m \in pushes \cup metrics :
             req'[m.id].pc = "answered" /\ m.d = req'[m.id].d /\ m.v = req'[m.id].v
        /\ \A e \in conflicts : req'[e.pid].pc = "answered" /\ e.d = req'[e.pid].d
    BY <2>4, StillSaysSo
  <2>7. pushes' \cup metrics' \subseteq pushes \cup metrics
    BY <1>2 DEF PutConfig, RouterRestart, RecordMetric, LosePush
  <2>8. Provenance'
    BY <2>4, <2>5, <2>6, <2>7 DEF Provenance
  <2> QED BY <2>1, <2>3, <2>8
<1>3. ASSUME NEW f \in Feeders, NEW p \in Requests,
             (\E a \in {0, 1} : Report(f, p, a)) \/ Ingest(f, p)
      PROVE  TelemetryInv'
  <2>1. LabelInv'
    BY <1>0, <1>3, ReportInv, IngestInv
  <2>2. UNCHANGED <<routervars, metrics, lost>>
    BY <1>3 DEF Report, Ingest, Insert, InsertFails, Reselect, Resolve, FindMetric
  <2>3. TypeOK'
    BY <2>1, <2>2, LabelTypes DEF TypeOK
  <2>4. Picked'
    BY <2>2 DEF routervars, Picked
  <2>5. conflicts' \subseteq conflicts \cup {[d |-> m.d, pid |-> p] : m \in MetricsOf(p)}
    BY <1>3 DEF Report, Ingest, Insert, InsertFails, Reselect, Resolve, FindMetric
  <2>6. \A m \in MetricsOf(p) : m \in metrics /\ m.id = p
    BY MetricFields, RequestsAssumption DEF MetricsOf
  <2>7. Provenance'
    BY <2>2, <2>5, <2>6 DEF Provenance, routervars
  <2> QED BY <2>1, <2>3, <2>4, <2>7
<1>4. CASE BackendRestart
  <2>1. LabelInv'
    BY <1>4, LabelsElsewhere
  <2>2. UNCHANGED <<routervars, metrics, labels, conflicts>>
    BY <1>4 DEF BackendRestart
  <2>3. \A f \in Feeders : session[f].pid \subseteq Requests
    BY DEF TypeOK, SessionState
  <2>4. lost' \subseteq Requests
    BY <1>4, <2>3 DEF BackendRestart, TypeOK
  <2>5. TypeOK'
    BY <2>1, <2>2, <2>4, LabelTypes
  <2>6. Picked' /\ Provenance'
    BY <2>2 DEF Picked, Provenance, routervars
  <2> QED BY <2>1, <2>5, <2>6
<1>5. CASE UNCHANGED vars
  <2>1. LabelInv'
    BY <1>5, LabelsElsewhere DEF vars
  <2>2. TypeOK' /\ Picked' /\ Provenance'
    BY <1>5 DEF vars, routervars, labelvars, TypeOK, Picked, Provenance
  <2> QED BY <2>1, <2>2
<1> QED BY <1>1, <1>2, <1>3, <1>4, <1>5 DEF Next

LEMMA TelemetryInvariant == Spec => []TelemetryInv
  BY TelemetryInit, TelemetryStep, PTL DEF Spec

\* Every reachable state is type correct: what the router remembers of a request,
\* the pushed metrics, both tables and the label sessions, for any number of
\* requests, deployments, configurations and feeders.
THEOREM TelemetryTypeCorrect == Spec => []TypeOK
<1>1. TelemetryInv => TypeOK
  BY DEF TelemetryInv
<1> QED BY <1>1, TelemetryInvariant, PTL

\* route_predict takes its configuration once: whatever is pushed, restarted or lost
\* later, every recorded metric and every audited conflict names the deployment
\* and a version of the deployment that the target was picked for.
THEOREM AttributedTheorem == Spec => []Attributed
<1>1. TelemetryInv => Attributed
  <2> SUFFICES ASSUME TelemetryInv PROVE Attributed
    OBVIOUS
  <2>1. ASSUME NEW m \in metrics
        PROVE  m.v \in VersionsOf[m.d] /\ m.d = req[m.id].d /\ m.v = req[m.id].v
    <3>1. m.id \in Requests /\ m.d \in Deployments
      BY MetricFields DEF TelemetryInv
    <3>2. req[m.id].pc = "answered" /\ m.d = req[m.id].d /\ m.v = req[m.id].v
      BY DEF TelemetryInv, Provenance
    <3> QED BY <3>1, <3>2 DEF TelemetryInv, Picked, OnItsWay
  <2> QED BY <2>1 DEF Attributed, TelemetryInv, Provenance
<1> QED BY <1>1, TelemetryInvariant, PTL

-----------------------------------------------------------------------------
(***************************************************************************)
(* ingest_label implements the register of outcomes.                       *)
(***************************************************************************)
LEMMA TruthOf ==
  ASSUME LabelInv, NEW p \in Requests
  PROVE  /\ LabelsOf(p) = {} => Truth[p] = Missing
         /\ \A l \in LabelsOf(p) : Truth[p] = l.actual /\ l.actual \in {0, 1}
<1>1. LabelsOf(p) = {} => Truth[p] = Missing
  BY DEF Truth, Said
<1>2. ASSUME NEW l \in LabelsOf(p)
      PROVE  Truth[p] = l.actual /\ l.actual \in {0, 1}
  <2>1. \A k \in LabelsOf(p) : k = l
    BY DEF LabelsOf, LabelInv, LabelsUnique
  <2>2. (CHOOSE k \in LabelsOf(p) : TRUE) = l
    BY <2>1
  <2>3. l.actual \in {0, 1}
    BY DEF LabelsOf, LabelInv
  <2> QED BY <2>2, <2>3 DEF Truth, Said
<1> QED BY <1>1, <1>2

LEMMA TruthUnchanged ==
  ASSUME labels' = labels
  PROVE  Truth' = Truth
  BY DEF Truth, LabelsOf

LEMMA OneReportChanges ==
  ASSUME session \in [Feeders -> SessionState], NEW f \in Feeders, NEW x,
         session' = [session EXCEPT ![f] = x]
  PROVE  Reports' = [Reports EXCEPT ![f] = Seen(x)]
  BY DEF Reports

LEMMA ReportAsks ==
  ASSUME LabelInv, NEW f \in Feeders, NEW p \in Requests, NEW a \in {0, 1}, Report(f, p, a)
  PROVE  Register!Ask(f, p, a)
<1>1. ~Reports[f].open
  BY DEF Report, Reports, Seen
<1>2. Truth' = Truth
  BY TruthUnchanged DEF Report
<1>3. PICK x : /\ session' = [session EXCEPT ![f] = x]
               /\ x.pc \in {"insert", "resolve"} /\ x.pid = {p} /\ x.actual = a
               /\ x.outcome = "none"
  <2>1. CASE session' = [session EXCEPT ![f] =
               [NoSession EXCEPT !.pc = "insert", !.pid = {p}, !.actual = a]]
    <3> DEFINE x == [NoSession EXCEPT !.pc = "insert", !.pid = {p}, !.actual = a]
    <3>1. x.pc = "insert" /\ x.pid = {p} /\ x.actual = a /\ x.outcome = "none"
      BY DEF NoSession
    <3>2. session' = [session EXCEPT ![f] = x]
      BY <2>1
    <3> HIDE DEF x
    <3> QED BY <3>1, <3>2
  <2>2. ASSUME NEW l \in LabelsOf(p),
               session' = [session EXCEPT ![f] =
                 [NoSession EXCEPT !.pc = "resolve", !.pid = {p}, !.actual = a,
                                   !.found = l.actual]]
        PROVE  \E x : /\ session' = [session EXCEPT ![f] = x]
                      /\ x.pc \in {"insert", "resolve"} /\ x.pid = {p} /\ x.actual = a
                      /\ x.outcome = "none"
    <3> DEFINE x == [NoSession EXCEPT !.pc = "resolve", !.pid = {p}, !.actual = a,
                                      !.found = l.actual]
    <3>1. x.pc = "resolve" /\ x.pid = {p} /\ x.actual = a /\ x.outcome = "none"
      BY DEF NoSession
    <3>2. session' = [session EXCEPT ![f] = x]
      BY <2>2
    <3> HIDE DEF x
    <3> QED BY <3>1, <3>2
  <2> QED BY <2>1, <2>2 DEF Report
<1>4. Seen(x) = [open |-> TRUE, accepted |-> FALSE, pid |-> {p}, actual |-> a]
  <2>1. /\ (x.pc \notin {"idle", "answered"}) = TRUE
        /\ (x.outcome \in {"applied", "no_op", "pending"}) = FALSE
    BY <1>3
  <2> QED BY <1>3, <2>1, Zenon DEF Seen
<1>5. Reports' = [Reports EXCEPT ![f] = Seen(x)]
  BY <1>3, OneReportChanges DEF LabelInv
<1> QED BY <1>1, <1>2, <1>4, <1>5 DEF Register!Ask

LEMMA OnePlaceDiffers ==
  ASSUME NEW A, NEW B, NEW p \in Requests, NEW v,
         A = [q \in Requests |-> A[q]], B = [q \in Requests |-> B[q]],
         B[p] = v, \A q \in Requests \ {p} : B[q] = A[q]
  PROVE  B = [A EXCEPT ![p] = v]
<1>1. DOMAIN A = Requests
  OBVIOUS
<1>2. [A EXCEPT ![p] = v] = [q \in Requests |-> IF q = p THEN v ELSE A[q]]
  BY <1>1, Zenon
<1>3. [q \in Requests |-> IF q = p THEN v ELSE A[q]] = [q \in Requests |-> B[q]]
  OBVIOUS
<1> QED BY <1>2, <1>3

LEMMA InsertDecides ==
  ASSUME LabelInv, LabelInv', NEW f \in Feeders, NEW p \in Requests, Insert(f, p)
  PROVE  Register!Decide(f, p)
<1>0. session[f] \in SessionState /\ Informed(session[f], labels)
  BY DEF LabelInv
<1>1. Reports[f].open /\ Reports[f].pid = {p} /\ Reports[f].actual = session[f].actual
  BY DEF Insert, Reports, Seen
<1>2. Truth[p] = Missing
  BY TruthOf DEF Insert, Insertable
<1> DEFINE row == [pid |-> p, actual |-> session[f].actual, by |-> f]
<1>3. labels' = labels \cup {row}
  BY DEF Insert, NewLabels
<1>4. \A q \in Requests \ {p} : LabelsOf(q)' = LabelsOf(q)
  BY <1>3 DEF LabelsOf
<1>5. row \in LabelsOf(p)'
  BY <1>3 DEF LabelsOf
<1>6. Truth'[p] = session[f].actual
  <2>1. \A k \in LabelsOf(p)' : k = row
    BY <1>5 DEF LabelsOf, LabelInv, LabelsUnique
  <2>2. (CHOOSE k \in LabelsOf(p)' : TRUE) = row
    BY <1>5, <2>1
  <2>3. Truth'[p] = (CHOOSE k \in LabelsOf(p)' : TRUE).actual
    BY <1>5 DEF Truth, Said
  <2>4. row.actual = session[f].actual
    OBVIOUS
  <2> QED BY <2>2, <2>3, <2>4, Zenon
<1>7. Truth' = [Truth EXCEPT ![p] = session[f].actual]
  <2>1. \A q \in Requests \ {p} : Truth'[q] = Truth[q]
    <3> SUFFICES ASSUME NEW q \in Requests \ {p} PROVE Truth'[q] = Truth[q]
      OBVIOUS
    <3>1. Truth'[q] = Said(LabelsOf(q)') /\ Truth[q] = Said(LabelsOf(q))
      BY DEF Truth
    <3>2. LabelsOf(q)' = LabelsOf(q)
      BY <1>4
    <3> QED BY <3>1, <3>2
  <2>2. Truth = [q \in Requests |-> Truth[q]]
    BY DEF Truth
  <2>3. Truth' = [q \in Requests |-> Truth'[q]]
    BY DEF Truth
  <2> QED BY <1>6, <2>1, <2>2, <2>3, OnePlaceDiffers
<1>8. Reports' = Reports
  <2> DEFINE x == [session[f] EXCEPT !.pc = "find"]
  <2>1. session' = [session EXCEPT ![f] = x]
    BY DEF Insert
  <2>2. x.pc = "find" /\ x.pid = session[f].pid /\ x.actual = session[f].actual
        /\ x.outcome = session[f].outcome
    BY <1>0, SameReport
  <2>3. session[f].pc = "insert"
    BY DEF Insert
  <2> HIDE DEF x
  <2>4. Seen(x) = Seen(session[f])
    BY <2>2, <2>3 DEF Seen
  <2>5. Reports' = [Reports EXCEPT ![f] = Seen(x)]
    BY <2>1, OneReportChanges DEF LabelInv
  <2> QED BY <2>4, <2>5 DEF Reports
<1> QED BY <1>1, <1>2, <1>7, <1>8 DEF Register!Decide

LEMMA RetriesUnseen ==
  ASSUME LabelInv, NEW f \in Feeders, NEW p \in Requests,
         InsertFails(f, p) \/ Reselect(f, p)
  PROVE  Truth' = Truth /\ Reports' = Reports
<1>0. session[f] \in SessionState
  BY DEF LabelInv
<1>1. PICK x : /\ session' = [session EXCEPT ![f] = x]
               /\ x.pc \in {"reselect", "resolve"} /\ x.pid = session[f].pid
               /\ x.actual = session[f].actual /\ x.outcome = session[f].outcome
  <2>1. CASE InsertFails(f, p)
    <3> DEFINE x == [session[f] EXCEPT !.pc = "reselect"]
    <3>1. session' = [session EXCEPT ![f] = x]
      BY <2>1 DEF InsertFails, AfterIntegrityError
    <3>2. /\ x.pc = "reselect" /\ x.pid = session[f].pid
          /\ x.actual = session[f].actual /\ x.outcome = session[f].outcome
      BY <1>0, SameReport
    <3> HIDE DEF x
    <3> QED BY <3>1, <3>2
  <2>2. CASE Reselect(f, p)
    <3>0. PICK l \in LabelsOf(p) :
            session' = [session EXCEPT ![f].pc = "resolve", ![f].found = l.actual]
      BY <2>2 DEF Reselect
    <3> DEFINE y == [session[f] EXCEPT !.pc = "resolve"]
               x == [y EXCEPT !.found = l.actual]
    <3>1. session' = [session EXCEPT ![f] = x]
      BY <3>0 DEF LabelInv
    <3>2. /\ y.pc = "resolve" /\ y.pid = session[f].pid
          /\ y.actual = session[f].actual /\ y.outcome = session[f].outcome
      BY <1>0, SameReport
    <3>3. y \in SessionState
      BY <1>0, SessionMoves
    <3> HIDE DEF y
    <3>4. /\ x.pc = "resolve" /\ x.pid = session[f].pid
          /\ x.actual = session[f].actual /\ x.outcome = session[f].outcome
      BY <3>2, <3>3, SameReport
    <3> HIDE DEF x
    <3> QED BY <3>1, <3>4
  <2> QED BY <2>1, <2>2
<1>2. Truth' = Truth
  BY TruthUnchanged DEF InsertFails, Reselect
<1>3. session[f].pc \in {"insert", "reselect"}
  BY DEF InsertFails, Reselect
<1>4. /\ (x.pc \notin {"idle", "answered"}) = TRUE
      /\ (session[f].pc \notin {"idle", "answered"}) = TRUE
  BY <1>1, <1>3
<1>5. Seen(x) = Seen(session[f])
  BY <1>1, <1>4 DEF Seen
<1>6. Reports' = [Reports EXCEPT ![f] = Seen(x)]
  BY <1>1, OneReportChanges DEF LabelInv
<1> QED BY <1>2, <1>5, <1>6 DEF Reports

\* The answer: accepted if it agrees with the outcome, which is decided by now.
LEMMA AnswerDecided ==
  ASSUME LabelInv, NEW f \in Feeders, NEW p \in Requests,
         Resolve(f, p) \/ FindMetric(f, p)
  PROVE  Register!Accept(f, p) \/ Register!Refuse(f, p)
<1> USE DEF Missing
<1>0. session[f] \in SessionState /\ Informed(session[f], labels)
  BY DEF LabelInv
<1>1. Truth' = Truth
  BY TruthUnchanged DEF Resolve, FindMetric
<1>2. /\ session[f].pc \in {"resolve", "find"} /\ session[f].pid = {p}
      /\ session[f].outcome = "none" /\ session[f].actual \in {0, 1}
  BY <1>0 DEF Resolve, FindMetric, Informed
<1>3. (session[f].pc \notin {"idle", "answered"}) = TRUE
  BY <1>2
<1>4. (session[f].outcome \in {"applied", "no_op", "pending"}) = FALSE
  BY <1>2
<1>5. Reports[f] = [open |-> TRUE, accepted |-> FALSE, pid |-> {p},
                    actual |-> session[f].actual]
  BY <1>2, <1>3, <1>4 DEF Reports, Seen
<1>6. PICK x, o : /\ session' = [session EXCEPT ![f] = x]
                  /\ x.pc = "answered" /\ x.pid = {p} /\ x.actual = session[f].actual
                  /\ x.outcome = o
                  /\ \/ o \in {"applied", "pending", "no_op"} /\ Truth[p] = session[f].actual
                     \/ o = "conflict" /\ Truth[p] \in {0, 1} \ {session[f].actual}
  <2>1. PICK o : /\ session' = [session EXCEPT ![f].pc = "answered", ![f].outcome = o]
                 /\ \/ o \in {"applied", "pending", "no_op"} /\ Truth[p] = session[f].actual
                    \/ o = "conflict" /\ Truth[p] \in {0, 1} \ {session[f].actual}
    <3>1. CASE FindMetric(f, p)
      <4>1. PICK l \in labels : session[f].pid = {l.pid} /\ l.actual = session[f].actual
        BY <1>0, <3>1 DEF FindMetric, Informed
      <4>2. l \in LabelsOf(p)
        BY <1>2, <4>1 DEF LabelsOf
      <4>3. Truth[p] = session[f].actual
        BY <4>1, <4>2, TruthOf
      <4>4. \E o \in {"applied", "pending"} :
              session' = [session EXCEPT ![f].pc = "answered", ![f].outcome = o]
        BY <3>1, Zenon DEF FindMetric
      <4> QED BY <4>3, <4>4
    <3>2. CASE Resolve(f, p)
      <4>1. PICK l \in labels : session[f].pid = {l.pid} /\ l.actual = session[f].found
        BY <1>0, <3>2 DEF Resolve, Informed
      <4>2. l \in LabelsOf(p)
        BY <1>2, <4>1 DEF LabelsOf
      <4>3. Truth[p] = session[f].found /\ session[f].found \in {0, 1}
        BY <4>1, <4>2, TruthOf
      <4>4. CASE session[f].found # session[f].actual
        BY <3>2, <4>3, <4>4 DEF Resolve
      <4>5. CASE session[f].found = session[f].actual
        BY <3>2, <4>3, <4>5 DEF Resolve
      <4> QED BY <4>4, <4>5
    <3> QED BY <3>1, <3>2
  <2> DEFINE y == [session[f] EXCEPT !.pc = "answered"]
             x == [y EXCEPT !.outcome = o]
  <2>2. session' = [session EXCEPT ![f] = x]
    BY <2>1 DEF LabelInv
  <2>3. y.pc = "answered" /\ y.pid = {p} /\ y.actual = session[f].actual
    BY <1>0, <1>2, SameReport
  <2>4. y \in SessionState
    BY <1>0, SessionMoves
  <2>5. x.outcome = o
    BY <2>4 DEF SessionState
  <2> HIDE DEF y
  <2>6. x.pc = "answered" /\ x.pid = {p} /\ x.actual = session[f].actual
    BY <2>3, <2>4, SameReport
  <2> HIDE DEF x
  <2> QED BY <2>1, <2>2, <2>5, <2>6
<1>7. Reports' = [Reports EXCEPT ![f] = Seen(x)]
  BY <1>6, OneReportChanges DEF LabelInv
<1>8. (x.pc \notin {"idle", "answered"}) = FALSE
  BY <1>6
<1>11. DOMAIN Reports = Feeders
  BY DEF Reports
<1>9. CASE o \in {"applied", "pending", "no_op"} /\ Truth[p] = session[f].actual
  <2>1. (x.outcome \in {"applied", "no_op", "pending"}) = TRUE
    BY <1>6, <1>9
  <2>2. Seen(x) = [open |-> FALSE, accepted |-> TRUE, pid |-> {p}, actual |-> session[f].actual]
    BY <1>6, <1>8, <2>1 DEF Seen
  <2>3. Seen(x) = Register!Answered(Reports[f], TRUE)
    BY <1>5, <2>2 DEF Register!Answered
  <2>4. Reports' = [Reports EXCEPT ![f] = Register!Answered(@, TRUE)]
    BY <1>7, <1>11, <2>3
  <2> QED BY <1>1, <1>5, <1>9, <2>4 DEF Register!Accept
<1>10. CASE o = "conflict" /\ Truth[p] \in {0, 1} \ {session[f].actual}
  <2>1. (x.outcome \in {"applied", "no_op", "pending"}) = FALSE
    BY <1>6, <1>10
  <2>2. Seen(x) = [open |-> FALSE, accepted |-> FALSE, pid |-> {p}, actual |-> session[f].actual]
    BY <1>6, <1>8, <2>1 DEF Seen
  <2>3. Seen(x) = Register!Answered(Reports[f], FALSE)
    BY <1>5, <2>2 DEF Register!Answered
  <2>4. Reports' = [Reports EXCEPT ![f] = Register!Answered(@, FALSE)]
    BY <1>7, <1>11, <2>3
  <2> QED BY <1>1, <1>5, <1>10, <2>4 DEF Register!Refuse
<1> QED BY <1>6, <1>9, <1>10

LEMMA NothingReported == Seen(NoSession) = Register!NoReport
<1>1. /\ (NoSession.pc \notin {"idle", "answered"}) = FALSE
      /\ (NoSession.outcome \in {"applied", "no_op", "pending"}) = FALSE
      /\ NoSession.pid = {} /\ NoSession.actual = Missing
  BY DEF NoSession
<1> QED BY <1>1 DEF Seen, Register!NoReport

\* The outcome of a prediction is decided once and answered alike to everybody:
\* however many feeders race for the insert of a label, lose it, ask again, or are
\* forgotten by a restart, ingest_label implements the register of outcomes.
THEOREM TruthDecidedOnceTheorem == Spec => TruthDecidedOnce
<1>1. Init => Register!TruthInit
  <2> SUFFICES ASSUME Init PROVE Register!TruthInit
    OBVIOUS
  <2>1. \A p \in Requests : Truth[p] = Missing
    BY DEF Init, LabelsOf, Truth, Said
  <2>2. Truth = [p \in Requests |-> Missing]
    BY <2>1 DEF Truth
  <2>3. Reports = [f \in Feeders |-> Register!NoReport]
    BY NothingReported DEF Init, Reports
  <2> QED BY <2>2, <2>3 DEF Register!TruthInit
<1>2. TelemetryInv /\ TelemetryInv' /\ [Next]_vars
        => [Register!TruthNext]_(Register!truthvars)
  <2> SUFFICES ASSUME TelemetryInv, TelemetryInv', [Next]_vars
               PROVE  Register!TruthNext \/ (Truth' = Truth /\ Reports' = Reports)
    BY DEF Register!truthvars
  <2>0. LabelInv /\ LabelInv'
    BY DEF TelemetryInv
  <2>1. CASE UNCHANGED labelvars
    BY <2>1, TruthUnchanged DEF labelvars, Reports
  <2>2. ASSUME NEW f \in Feeders, NEW p \in Requests, NEW a \in {0, 1}, Report(f, p, a)
        PROVE  Register!TruthNext
    BY <2>0, <2>2, ReportAsks DEF Register!TruthNext
  <2>3. ASSUME NEW f \in Feeders, NEW p \in Requests, Ingest(f, p)
        PROVE  Register!TruthNext \/ (Truth' = Truth /\ Reports' = Reports)
    <3>1. CASE Insert(f, p)
      BY <2>0, <3>1, InsertDecides DEF Register!TruthNext
    <3>2. CASE InsertFails(f, p) \/ Reselect(f, p)
      BY <2>0, <3>2, RetriesUnseen
    <3>3. CASE Resolve(f, p) \/ FindMetric(f, p)
      BY <2>0, <3>3, AnswerDecided DEF Register!TruthNext
    <3> QED BY <2>3, <3>1, <3>2, <3>3 DEF Ingest
  <2>4. CASE BackendRestart
    <3>1. Truth' = Truth
      BY <2>4, TruthUnchanged DEF BackendRestart
    <3>2. Reports' = [f \in Feeders |-> Register!NoReport]
      BY <2>4, NothingReported DEF BackendRestart, Reports
    <3> QED BY <3>1, <3>2 DEF Register!TruthNext, Register!Forget
  <2>5. CASE Next
    <3>1. CASE UNCHANGED labelvars
      BY <3>1, <2>1
    <3>2. ASSUME ~ UNCHANGED labelvars
          PROVE  \/ \E f \in Feeders, p \in Requests, a \in {0, 1} : Report(f, p, a)
                 \/ \E f \in Feeders, p \in Requests : Ingest(f, p)
                 \/ BackendRestart
      BY <2>5, <3>2 DEF Next, PutConfig, Forward, Receive, CheckReady, Serve,
                        UpstreamUnavailable, Answer, RecordMetric, LosePush, RouterRestart
    <3> QED BY <2>2, <2>3, <2>4, <3>1, <3>2
  <2>6. CASE UNCHANGED vars
    BY <2>1, <2>6 DEF vars
  <2> QED BY <2>5, <2>6
<1> QED BY <1>1, <1>2, TelemetryInvariant, PTL DEF Spec, TruthDecidedOnce, Register!TruthSpec

-----------------------------------------------------------------------------
(***************************************************************************)
(* The comparison counts every recorded prediction once.  That takes an    *)
(* invariant of its own: a metric is the copy of one answered request, and *)
(* reports and labels are of predictions that somebody has been given.     *)
(***************************************************************************)
\* The client has been answered with a prediction.
Predicted(p) == req[p].pc = "answered" /\ req[p].prediction # Missing

\* Metrics, also those still on their way, are what was pushed of an answered request;
\* the feeders report, and the labels are of, predictions that were answered.
CopyInv ==
  /\ IsFiniteSet(metrics)
  /\ \A m \in pushes \cup metrics : m \in Pushed(m.id)
  /\ \A f \in Feeders : \A p \in session[f].pid : Predicted(p)
  /\ \A l \in labels : Predicted(l.pid)

\* Nothing has been pushed, reported or labelled yet.
LEMMA CopyInit == Init => CopyInv
  BY FS_EmptySet DEF Init, CopyInv, NoSession

\* What is pushed of a request is one metric, with its fields.
LEMMA PushedFields ==
  ASSUME NEW p, NEW m \in Pushed(p)
  PROVE  /\ m.id = p /\ m.d = req[p].d /\ m.v = req[p].v
         /\ m.prediction = req[p].prediction
         /\ m.pid = IF req[p].prediction = Missing THEN Missing ELSE p
         /\ \A n \in Pushed(p) : n = m
  BY DEF Pushed

\* Metrics, sessions and labels as they were, when answered requests are.
LEMMA CopiesStay ==
  ASSUME TelemetryInv, CopyInv, \A q \in Requests : req[q].pc = "answered" => req'[q] = req[q]
  PROVE  /\ \A m \in pushes \cup metrics : m \in Pushed(m.id)'
         /\ \A f \in Feeders : \A p \in session[f].pid : Predicted(p)'
         /\ \A l \in labels : Predicted(l.pid)'
<1>1. ASSUME NEW m \in pushes \cup metrics
      PROVE  m \in Pushed(m.id)'
  <2>1. m.id \in Requests /\ req[m.id].pc = "answered"
    BY SMT DEF TelemetryInv, TypeOK, Metric, Provenance
  <2>2. req'[m.id] = req[m.id] /\ m \in Pushed(m.id)
    BY <2>1 DEF CopyInv
  <2> QED BY <2>2 DEF Pushed
<1>2. ASSUME NEW f \in Feeders, NEW p \in session[f].pid
      PROVE  Predicted(p)'
  <2>1. p \in Requests
    BY DEF TelemetryInv, TypeOK, SessionState
  <2> QED BY <2>1 DEF CopyInv, Predicted
<1>3. ASSUME NEW l \in labels
      PROVE  Predicted(l.pid)'
  <2>1. l.pid \in Requests
    BY DEF TelemetryInv, TypeOK
  <2> QED BY <2>1 DEF CopyInv, Predicted
<1> QED BY <1>1, <1>2, <1>3

\* The answer to the client is what the metric is a copy of.
LEMMA AnswerCopies ==
  ASSUME TelemetryInv, NEW p \in Requests, Answer(p)
  PROVE  pushes' = pushes \cup Pushed(p) /\ \A m \in Pushed(p) : m \in Pushed(m.id)'
<1>1. /\ req'[p].d = req[p].d /\ req'[p].v = req[p].v /\ req'[p].status = req[p].status
      /\ req'[p].prediction = req[p].prediction
  BY DEF Answer, TelemetryInv, TypeOK, RequestState
<1>2. Pushed(p)' = Pushed(p)
  BY <1>1 DEF Pushed
<1>3. \A m \in Pushed(p) : m.id = p
  BY PushedFields
<1> QED BY <1>2, <1>3 DEF Answer

\* The reports and labels are of predictions their feeders know.
LEMMA SessionsKnow ==
  ASSUME TelemetryInv, CopyInv, NEW f \in Feeders, NEW p \in Requests,
         (\E a \in {0, 1} : Report(f, p, a)) \/ Ingest(f, p)
  PROVE  /\ \A g \in Feeders : \A q \in session'[g].pid : Predicted(q)
         /\ \A l \in labels' : Predicted(l.pid)
<1>0. LabelInv' /\ session \in [Feeders -> SessionState]
  BY ReportInv, IngestInv, MetricFields DEF TelemetryInv, LabelInv
<1>1. Predicted(p)
  <2>1. CASE \E a \in {0, 1} : Report(f, p, a)
    BY <2>1 DEF Report, CanBeLabelled, Predicted
  <2>2. CASE Ingest(f, p)
    <3>1. session[f].pid = {p}
      BY <2>2 DEF Ingest, Insert, InsertFails, Reselect, Resolve, FindMetric
    <3> QED BY <3>1 DEF CopyInv
  <2> QED BY <2>1, <2>2
<1>2. \A g \in Feeders \ {f} : session'[g] = session[g]
  BY <1>0 DEF Report, Ingest, Insert, InsertFails, Reselect, Resolve, FindMetric
<1>3. session'[f].pid = {p}
  <2>1. CASE \E a \in {0, 1} : Report(f, p, a)
    BY <1>0, <2>1 DEF Report, NoSession
  <2>2. CASE Ingest(f, p)
    <3>1. session[f].pid = {p} /\ session[f] \in SessionState
      BY <1>0, <2>2 DEF Ingest, Insert, InsertFails, Reselect, Resolve, FindMetric
    <3>2. session'[f].pid = session[f].pid
      BY <1>0, <2>2, <3>1
         DEF Ingest, Insert, InsertFails, AfterIntegrityError, Reselect, Resolve,
             FindMetric, SessionState
    <3> QED BY <3>1, <3>2
  <2> QED BY <2>1, <2>2
<1>4. \A l \in labels' : l \in labels \/ l.pid = p
  <2>1. labels' = labels \/ labels' = labels \cup NewLabels(f, p)
    BY DEF Report, Ingest, Insert, InsertFails, Reselect, Resolve, FindMetric
  <2>2. \A l \in NewLabels(f, p) : l.pid = p
    BY DEF NewLabels
  <2> QED BY <2>1, <2>2
<1> QED BY <1>1, <1>2, <1>3, <1>4 DEF CopyInv

\* An answered request never changes, and what is new copies one.
LEMMA CopyStep == TelemetryInv /\ CopyInv /\ [Next]_vars => CopyInv'
<1> SUFFICES ASSUME TelemetryInv, CopyInv, [Next]_vars PROVE CopyInv'
  OBVIOUS
<1>1. ASSUME \A q \in Requests : req[q].pc = "answered" => req'[q] = req[q],
             UNCHANGED labelvars, IsFiniteSet(metrics'),
             \A m \in pushes' \cup metrics' : m \in pushes \cup metrics \/ m \in Pushed(m.id)'
      PROVE  CopyInv'
  <2>1. /\ \A m \in pushes \cup metrics : m \in Pushed(m.id)'
        /\ \A f \in Feeders : \A p \in session[f].pid : Predicted(p)'
        /\ \A l \in labels : Predicted(l.pid)'
    BY <1>1, CopiesStay
  <2>2. \A m \in pushes' \cup metrics' : m \in Pushed(m.id)'
    BY <1>1, <2>1
  <2>3. session' = session /\ labels' = labels
    BY <1>1 DEF labelvars
  <2> QED BY <1>1, <2>1, <2>2, <2>3 DEF CopyInv
<1>2. ASSUME NEW p \in Requests, Forward(p)
      PROVE  CopyInv'
  <2>1. \A q \in Requests : req[q].pc = "answered" => req'[q] = req[q]
    BY <1>2 DEF Forward, Receive, CheckReady, Serve, UpstreamUnavailable, Answer,
                TelemetryInv, TypeOK
  <2>2. UNCHANGED labelvars /\ metrics' = metrics /\ IsFiniteSet(metrics)
    BY <1>2 DEF Forward, Receive, CheckReady, Serve, UpstreamUnavailable, Answer, CopyInv
  <2>3. pushes' = pushes \/ Answer(p)
    BY <1>2 DEF Forward, Receive, CheckReady, Serve, UpstreamUnavailable
  <2>4. \A m \in pushes' : m \in pushes \/ m \in Pushed(m.id)'
    BY <2>3, AnswerCopies
  <2> QED BY <1>1, <2>1, <2>2, <2>4
<1>3. CASE (\E c \in Configs : PutConfig(c)) \/ RouterRestart
  <2>1. /\ \A q \in Requests : req[q].pc = "answered" => req'[q] = req[q]
        /\ UNCHANGED labelvars /\ metrics' = metrics /\ pushes' \subseteq pushes
    BY <1>3 DEF PutConfig, RouterRestart
  <2>2. IsFiniteSet(metrics')
    BY <2>1 DEF CopyInv
  <2> QED BY <1>1, <2>1, <2>2
<1>4. ASSUME NEW m \in pushes, RecordMetric(m) \/ LosePush(m)
      PROVE  CopyInv'
  <2>1. /\ req' = req /\ UNCHANGED labelvars
        /\ pushes' \subseteq pushes /\ metrics' \in {metrics, metrics \cup {m}}
    BY <1>4 DEF RecordMetric, LosePush
  <2>2. IsFiniteSet(metrics) /\ IsFiniteSet(metrics \cup {m})
    BY FS_AddElement DEF CopyInv
  <2>3. IsFiniteSet(metrics')
    BY <2>1, <2>2
  <2>4. pushes' \cup metrics' \subseteq pushes \cup metrics
    BY <2>1
  <2> QED BY <1>1, <2>1, <2>3, <2>4
<1>5. ASSUME NEW f \in Feeders, NEW p \in Requests,
             (\E a \in {0, 1} : Report(f, p, a)) \/ Ingest(f, p)
      PROVE  CopyInv'
  <2>1. UNCHANGED <<req, pushes, metrics>>
    BY <1>5 DEF Report, Ingest, Insert, InsertFails, Reselect, Resolve, FindMetric, routervars
  <2>2. /\ \A g \in Feeders : \A q \in session'[g].pid : Predicted(q)
        /\ \A l \in labels' : Predicted(l.pid)
    BY <1>5, SessionsKnow
  <2> QED BY <2>1, <2>2 DEF CopyInv, Predicted, Pushed
<1>6. CASE BackendRestart
  BY <1>6 DEF BackendRestart, routervars, CopyInv, Predicted, Pushed, NoSession
<1>7. CASE UNCHANGED vars
  BY <1>7 DEF vars, routervars, labelvars, CopyInv, Predicted, Pushed
<1> QED BY <1>2, <1>3, <1>4, <1>5, <1>6, <1>7 DEF Next

\* Rows with one id each, and the ids they have, are as many.
LEMMA OnePerId ==
  ASSUME NEW A, NEW B, IsFiniteSet(B),
         \A a \in A : a.id \in B,
         \A b \in B : \E a \in A : a.id = b,
         \A a1, a2 \in A : a1.id = a2.id => a1 = a2
  PROVE  IsFiniteSet(A) /\ Cardinality(A) = Cardinality(B)
<1> DEFINE f == [b \in B |-> CHOOSE a \in A : a.id = b]
<1>1. \A b \in B : f[b] \in A /\ f[b].id = b
  OBVIOUS
<1>2. \A a \in A : f[a.id] = a
  BY <1>1
<1>3. f \in Bijection(B, A)
  <2>1. f \in [B -> A]
    BY <1>1
  <2>2. \A b, c \in B : f[b] = f[c] => b = c
    BY <1>1
  <2>3. \A a \in A : \E b \in B : f[b] = a
    BY <1>2
  <2> HIDE DEF f
  <2> QED BY <2>1, <2>2, <2>3 DEF Bijection, Injection, Surjection, IsInjective
<1> HIDE DEF f
<1>4. ExistsBijection(B, A)
  BY <1>3 DEF ExistsBijection
<1> QED BY <1>4, FS_Bijection

\* A row of the join, from a metric and what its label says, if it has one.
JoinedRow(m, label, by) ==
  [id |-> m.id, latency |-> 0, status |-> m.status, prediction |-> m.prediction,
   label |-> label, by |-> by]

\* It joins a metric with a label, or with nothing for want of one.
RowOf(r, m) ==
  \/ LabelsOf(m.pid) = {} /\ r = JoinedRow(m, Missing, {})
  \/ \E l \in LabelsOf(m.pid) : r = JoinedRow(m, l.actual, {l.by})

\* Either way it keeps the metric's id and prediction.
LEMMA RowFieldsOf ==
  ASSUME NEW m, NEW r, RowOf(r, m)
  PROVE  r.id = m.id /\ r.prediction = m.prediction
<1>1. PICK a, b : r = JoinedRow(m, a, b)
  BY DEF RowOf
<1> QED BY <1>1 DEF JoinedRow

\* The metrics of a version, and the requests they were recorded for.
Of(d, v) == {m \in metrics : m.d = d /\ m.v = v}

RecordedOf(d, v) == {p \in Requests : Recorded(p) /\ req[p].d = d /\ req[p].v = v}

\* The outer join: every metric once for each of its labels, or once without.
LEMMA JoinedFrom ==
  ASSUME NEW d, NEW v
  PROVE  /\ \A r \in Joined(d, v) : \E m \in Of(d, v) : RowOf(r, m)
         /\ \A m \in Of(d, v) : \E r \in Joined(d, v) : r.id = m.id
<1> DEFINE Part(m) == IF LabelsOf(m.pid) = {} THEN {JoinedRow(m, Missing, {})}
                      ELSE {JoinedRow(m, l.actual, {l.by}) : l \in LabelsOf(m.pid)}
<1>1. Joined(d, v) = UNION {Part(m) : m \in Of(d, v)}
  BY DEF Joined, JoinedRow, Of
<1>2. \A m : \A r \in Part(m) : RowOf(r, m)
  BY Zenon DEF RowOf
<1>3. \A m : \E r \in Part(m) : r.id = m.id
  <2>1. \A m, a, b : JoinedRow(m, a, b).id = m.id
    BY DEF JoinedRow
  <2> SUFFICES ASSUME NEW m PROVE \E r \in Part(m) : r.id = m.id
    OBVIOUS
  <2>2. CASE LabelsOf(m.pid) = {}
    BY <2>1, <2>2, Zenon
  <2>3. CASE LabelsOf(m.pid) # {}
    <3>1. PICK l \in LabelsOf(m.pid) : TRUE
      BY <2>3
    <3>2. JoinedRow(m, l.actual, {l.by}) \in Part(m)
      BY <2>3, Zenon
    <3> QED BY <2>1, <3>2
  <2> QED BY <2>2, <2>3
<1> HIDE DEF Part
<1> QED BY <1>1, <1>2, <1>3

\* Its rows are the recorded predictions of the version, one row for each, with what
\* was predicted and what is known of the truth.
LEMMA JoinedRows ==
  ASSUME TelemetryInv, CopyInv, NEW d, NEW v
  PROVE  /\ IsFiniteSet(RecordedOf(d, v))
         /\ \A r \in Joined(d, v) :
              /\ r.id \in RecordedOf(d, v)
              /\ r.prediction = req[r.id].prediction /\ r.label = Truth[r.id]
         /\ \A p \in RecordedOf(d, v) : \E r \in Joined(d, v) : r.id = p
         /\ \A q, r \in Joined(d, v) : q.id = r.id => q = r
<1> DEFINE recorded == {p \in Requests : Recorded(p) /\ req[p].d = d /\ req[p].v = v}
<1>0. \A m \in metrics :
        /\ m.id \in Requests /\ m \in Pushed(m.id)
        /\ m.d = req[m.id].d /\ m.v = req[m.id].v
        /\ m.prediction = req[m.id].prediction
        /\ m.pid = IF req[m.id].prediction = Missing THEN Missing ELSE m.id
  BY MetricFields, PushedFields DEF TelemetryInv, CopyInv
<1>1. \A m, n \in metrics : m.id = n.id => m = n
  BY <1>0, PushedFields
<1>2. LabelsOf(Missing) = {} /\ \A l \in labels : l.pid \in Requests
  BY RequestsAssumption DEF LabelsOf, TelemetryInv, LabelInv
<1>3. \A p \in Requests : req[p].prediction = Missing => LabelsOf(p) = {}
  BY DEF LabelsOf, CopyInv, Predicted
<1>4. \A m \in metrics : LabelsOf(m.pid) = LabelsOf(m.id)
  BY <1>0, <1>2, <1>3
<1>5. IsFiniteSet(recorded)
  <2> DEFINE f == [m \in metrics |-> m.id]
             T == {m.id : m \in metrics}
  <2>1. f \in Surjection(metrics, T)
    BY DEF Surjection
  <2>2. recorded \subseteq T
    BY DEF Recorded
  <2> HIDE DEF f, T, recorded
  <2>3. IsFiniteSet(T)
    BY <2>1, FS_Surjection DEF CopyInv
  <2> QED BY <2>2, <2>3, FS_Subset
<1>6. \A m, a, b : /\ JoinedRow(m, a, b).id = m.id /\ JoinedRow(m, a, b).label = a
                   /\ JoinedRow(m, a, b).prediction = m.prediction
  BY DEF JoinedRow
<1>7. ASSUME NEW r \in Joined(d, v)
      PROVE  /\ r.id \in recorded
             /\ r.prediction = req[r.id].prediction /\ r.label = Truth[r.id]
  <2>1. PICK m \in Of(d, v) : RowOf(r, m)
    BY JoinedFrom
  <2>2. m \in metrics /\ m.d = d /\ m.v = v
    BY DEF Of
  <2>3. r.id = m.id /\ r.prediction = m.prediction
    BY <2>1, RowFieldsOf
  <2>4. r.id \in recorded /\ r.prediction = req[r.id].prediction
    BY <1>0, <2>2, <2>3 DEF Recorded
  <2>5. r.label = Truth[m.id]
    <3>1. /\ LabelsOf(m.id) = {} => Truth[m.id] = Missing
          /\ \A l \in LabelsOf(m.id) : Truth[m.id] = l.actual
      BY <1>0, <2>2, TruthOf DEF TelemetryInv
    <3>2. LabelsOf(m.pid) = LabelsOf(m.id)
      BY <1>4, <2>2
    <3>3. CASE LabelsOf(m.id) = {}
      BY <1>6, <2>1, <3>1, <3>2, <3>3 DEF RowOf
    <3>4. ASSUME NEW l \in LabelsOf(m.id), r = JoinedRow(m, l.actual, {l.by})
          PROVE  r.label = Truth[m.id]
      BY <1>6, <3>1, <3>4
    <3> QED BY <2>1, <3>2, <3>3, <3>4 DEF RowOf
  <2> QED BY <2>3, <2>4, <2>5
<1>8. ASSUME NEW p \in recorded
      PROVE  \E r \in Joined(d, v) : r.id = p
  <2>1. PICK m \in metrics : m.id = p
    BY DEF Recorded
  <2>2. m \in Of(d, v)
    BY <1>0, <2>1 DEF Of
  <2> QED BY <2>1, <2>2, JoinedFrom
<1>9. ASSUME NEW q \in Joined(d, v), NEW r \in Joined(d, v), q.id = r.id
      PROVE  q = r
  <2>1. PICK m \in Of(d, v) : RowOf(q, m)
    BY JoinedFrom
  <2>2. PICK n \in Of(d, v) : RowOf(r, n)
    BY JoinedFrom
  <2>3. q.id = m.id /\ r.id = n.id
    BY <2>1, <2>2, RowFieldsOf
  <2>4. m = n
    BY <1>1, <1>9, <2>3 DEF Of
  <2>5. \A k, l \in LabelsOf(m.pid) : k = l
    BY DEF LabelsOf, TelemetryInv, LabelInv, LabelsUnique
  <2> QED BY <2>1, <2>2, <2>4, <2>5, Zenon DEF RowOf
<1> HIDE DEF recorded
<1>10. /\ IsFiniteSet(recorded)
       /\ \A r \in Joined(d, v) :
            /\ r.id \in recorded
            /\ r.prediction = req[r.id].prediction /\ r.label = Truth[r.id]
       /\ \A p \in recorded : \E r \in Joined(d, v) : r.id = p
       /\ \A q, r \in Joined(d, v) : q.id = r.id => q = r
  BY <1>5, <1>7, <1>8, <1>9
<1> QED BY <1>10 DEF recorded, RecordedOf

\* What the summary of a version counts is what was recorded of it: all, what is
\* labelled, and the four outcomes.
CountedOf(d, v, x, y) ==
  Cardinality({p \in RecordedOf(d, v) : req[p].prediction = x /\ Truth[p] = y})

LEMMA JoinCounts ==
  ASSUME TelemetryInv, CopyInv, NEW d, NEW v
  PROVE  /\ Cardinality(Joined(d, v)) = Cardinality(RecordedOf(d, v))
         /\ Cardinality({r \in Joined(d, v) : r.label # Missing})
              = Cardinality({p \in RecordedOf(d, v) : Truth[p] # Missing})
         /\ \A x, y : Outcomes(Joined(d, v), x, y) = CountedOf(d, v, x, y)
<1> DEFINE J == Joined(d, v)
           recorded == RecordedOf(d, v)
<1>1. /\ IsFiniteSet(recorded)
      /\ \A r \in J : /\ r.id \in recorded
                      /\ r.prediction = req[r.id].prediction /\ r.label = Truth[r.id]
      /\ \A p \in recorded : \E r \in J : r.id = p
      /\ \A q, r \in J : q.id = r.id => q = r
  BY JoinedRows
<1> HIDE DEF J, recorded, CountedOf
<1>2. Cardinality(J) = Cardinality(recorded)
  BY <1>1, OnePerId
<1>3. Cardinality({r \in J : r.label # Missing})
        = Cardinality({p \in recorded : Truth[p] # Missing})
  <2> DEFINE A == {r \in J : r.label # Missing}
             B == {p \in recorded : Truth[p] # Missing}
  <2>1. B \subseteq recorded
    OBVIOUS
  <2>2. /\ \A a \in A : a.id \in B
        /\ \A b \in B : \E a \in A : a.id = b
        /\ \A a1, a2 \in A : a1.id = a2.id => a1 = a2
    BY <1>1
  <2> HIDE DEF A, B
  <2>3. IsFiniteSet(B)
    BY <1>1, <2>1, FS_Subset
  <2>4. Cardinality(A) = Cardinality(B)
    BY <2>2, <2>3, OnePerId
  <2> QED BY <2>4 DEF A, B
<1>4. ASSUME NEW x, NEW y
      PROVE  Outcomes(J, x, y)
               = Cardinality({p \in recorded : req[p].prediction = x /\ Truth[p] = y})
  <2> DEFINE A == {r \in J : r.prediction = x /\ r.label = y}
             B == {p \in recorded : req[p].prediction = x /\ Truth[p] = y}
  <2>1. B \subseteq recorded
    OBVIOUS
  <2>2. /\ \A a \in A : a.id \in B
        /\ \A b \in B : \E a \in A : a.id = b
        /\ \A a1, a2 \in A : a1.id = a2.id => a1 = a2
    BY <1>1
  <2> HIDE DEF A, B
  <2>3. IsFiniteSet(B)
    BY <1>1, <2>1, FS_Subset
  <2>4. Cardinality(A) = Cardinality(B)
    BY <2>2, <2>3, OnePerId
  <2> QED BY <2>4 DEF A, B, Outcomes
<1> QED BY <1>2, <1>3, <1>4 DEF J, recorded, CountedOf

\* The summary of a version counts every recorded prediction of it once, and in the cell
\* of the confusion table where its prediction and its truth put it.
THEOREM CountedOnceTheorem == Spec => []CountedOnce
<1>1. ASSUME TelemetryInv, CopyInv, NEW m \in metrics
      PROVE  CountedOnce!(m)
  <2> DEFINE d == m.d
             v == m.v
             J == Joined(d, v)
  <2>1. \A rs : /\ Summarize(rs).samples = Cardinality(rs)
                /\ Summarize(rs).labeled = Cardinality({r \in rs : r.label # Missing})
                /\ Summarize(rs).tp = Outcomes(rs, 1, 1) /\ Summarize(rs).fp = Outcomes(rs, 1, 0)
                /\ Summarize(rs).fn = Outcomes(rs, 0, 1) /\ Summarize(rs).tn = Outcomes(rs, 0, 0)
    BY DEF Summarize
  <2>2. /\ Cardinality(J) = Cardinality(RecordedOf(d, v))
        /\ Cardinality({r \in J : r.label # Missing})
             = Cardinality({p \in RecordedOf(d, v) : Truth[p] # Missing})
        /\ \A x, y : Outcomes(J, x, y) = CountedOf(d, v, x, y)
    BY <1>1, JoinCounts
  <2> HIDE DEF J
  <2>3. /\ Summarize(J).samples = Cardinality(RecordedOf(d, v))
        /\ Summarize(J).labeled = Cardinality({p \in RecordedOf(d, v) : Truth[p] # Missing})
        /\ <<Summarize(J).tp, Summarize(J).fp, Summarize(J).fn, Summarize(J).tn>>
             = <<CountedOf(d, v, 1, 1), CountedOf(d, v, 1, 0),
                 CountedOf(d, v, 0, 1), CountedOf(d, v, 0, 0)>>
    BY <2>1, <2>2
  <2> QED BY <2>3 DEF J, RecordedOf, CountedOf
<1>2. TelemetryInv /\ CopyInv => CountedOnce
  BY <1>1, Zenon DEF CountedOnce
<1> QED BY <1>2, TelemetryInvariant, CopyInit, CopyStep, PTL DEF Spec
=============================================================================
