----------------------------- MODULE Telemetry -----------------------------
(***************************************************************************)
(* From a prediction to its place in a summary.  The router takes its      *)
(* configuration once per request, forwards the request in two awaited     *)
(* calls and pushes a metric nobody waits for; meanwhile the configuration *)
(* is replaced, the router restarts, pushes are lost.  Feeders report the  *)
(* labels of the predictions they know, through sessions of their own; the *)
(* two tables only meet in the join of compute_version_summary.            *)
(***************************************************************************)
EXTENDS Metrics

CONSTANTS Requests,     \* predictions; a request stands for its prediction_id too
          Deployments,  \* the rows of the deployments table
          Versions,
          VersionsOf,   \* stable and candidate version of each deployment
          Configs,      \* [d, targets]: what the router may be configured with
          Hosts,        \* the versions the router has an address for
          Answers,      \* [status, prediction]: what a serving instance may answer
          Labelled,     \* the predictions whose label is sampled by a feeder
          Feeders,      \* sessions on the labels table
          NoDeployment  \* deployment_id is None

\* The control plane pushes a deployment's own versions; any other deployment_id comes
\* from the router's settings or from a PUT by hand.  Only a 200 has a prediction.
ASSUME ConfigsAssumption ==
  /\ NoDeployment \notin Deployments
  /\ \A d \in Deployments : VersionsOf[d] \subseteq Versions
  /\ \A c \in Configs : /\ c.targets \subseteq Versions
                        /\ c.d \in Deployments => c.targets \subseteq VersionsOf[c.d]
ASSUME RequestsAssumption == Missing \notin Requests /\ Labelled \subseteq Requests
ASSUME AnswersAssumption ==
  \A s \in Answers : /\ s.status \in Nat
                     /\ s.prediction \in {Missing, 0, 1}
                     /\ s.prediction # Missing <=> s.status = 200

VARIABLES config,     \* RouterConfigStore
          req,        \* the requests and the router's place in them
          pushes,     \* pending_metric_tasks
          metrics,    \* prediction_metrics
          labels,     \* ground_truth_labels
          conflicts,  \* the label_conflict events
          session,    \* per feeder: the report being handled, or the last one
          lost        \* history: predictions whose push or report was lost

routervars == <<config, req, pushes>>
labelvars == <<labels, conflicts, session>>
vars == <<routervars, metrics, labelvars, lost>>

NotAsked == [pc |-> "idle", d |-> NoDeployment, v |-> Missing, status |-> Missing,
             prediction |-> Missing]

\* An HTTPException of the router's own: nothing of the request is left.
Refused == [NotAsked EXCEPT !.pc = "refused"]

NoSession == [pc |-> "idle", pid |-> {}, actual |-> Missing, found |-> Missing,
              outcome |-> "none"]

Targets == Deployments \cup {c.d : c \in Configs} \cup {NoDeployment}

\* Only a prediction brings a prediction_id along: its own, which the column's unique
\* constraint therefore never meets twice.
Metric == {m \in [id: Requests, pid: Requests \cup {Missing}, d: Targets, v: Versions,
                  status: Nat, prediction: {Missing, 0, 1}] :
             m.pid = IF m.prediction = Missing THEN Missing ELSE m.id}

RequestState ==
  [pc: {"idle", "checking", "forwarding", "served", "answered", "refused"},
   d: Targets, v: Versions \cup {Missing}, status: Nat \cup {Missing},
   prediction: {Missing, 0, 1}]

SessionState ==
  [pc: {"idle", "insert", "reselect", "resolve", "find", "answered"},
   pid: {{}} \cup {{p} : p \in Requests}, actual: {Missing, 0, 1},
   found: {Missing, 0, 1}, outcome: {"none", "applied", "no_op", "pending", "conflict"}]

TypeOK ==
  /\ config \in Configs
  /\ req \in [Requests -> RequestState]
  /\ pushes \subseteq Metric
  /\ metrics \subseteq {m \in Metric : m.d \in Deployments}
  /\ labels \subseteq [pid: Requests, actual: {0, 1}, by: Feeders]
  /\ conflicts \subseteq [d: Deployments, pid: Requests]
  /\ session \in [Feeders -> SessionState]
  /\ lost \subseteq Requests

Init ==
  /\ config \in Configs
  /\ req = [p \in Requests |-> NotAsked]
  /\ pushes = {}
  /\ metrics = {}
  /\ labels = {}
  /\ conflicts = {}
  /\ session = [f \in Feeders |-> NoSession]
  /\ lost = {}

-----------------------------------------------------------------------------
(***************************************************************************)
(* The router.                                                             *)
(***************************************************************************)
PutConfig(c) ==
  /\ config' = c
  /\ UNCHANGED <<req, pushes, metrics, labelvars, lost>>

\* route_predict up to its first await: one configuration for the whole request.
Receive(p, v) ==
  /\ req[p].pc = "idle"
  /\ v \in config.targets
  /\ req' = [req EXCEPT ![p] =
       IF v \in Hosts THEN [NotAsked EXCEPT !.pc = "checking", !.d = config.d, !.v = v]
       ELSE Refused]
  /\ UNCHANGED <<config, pushes, metrics, labelvars, lost>>

\* An answer in time, 200 or not: a target that isn't ready is not replaced.
CheckReady(p, ready) ==
  /\ req[p].pc = "checking"
  /\ req' = [req EXCEPT ![p] = IF ready THEN [@ EXCEPT !.pc = "forwarding"] ELSE Refused]
  /\ UNCHANGED <<config, pushes, metrics, labelvars, lost>>

\* serving's predict: a prediction with its id, or the error of a bad request, of an
\* injected fault, of a model that is gone.
Serve(p, s) ==
  /\ req[p].pc = "forwarding"
  /\ req' = [req EXCEPT ![p].pc = "served", ![p].status = s.status,
                        ![p].prediction = s.prediction]
  /\ UNCHANGED <<config, pushes, metrics, labelvars, lost>>

\* UpstreamUnavailableError, before or after the model has seen the request.
UpstreamUnavailable(p) ==
  /\ req[p].pc \in {"forwarding", "served"}
  /\ req' = [req EXCEPT ![p] = Refused]
  /\ UNCHANGED <<config, pushes, metrics, labelvars, lost>>

\* Mutants: an id minted by the router, the configuration read again for the metric.
Pushed_minted(p) ==
  IF req[p].d = NoDeployment THEN {} ELSE
  {[id |-> p, pid |-> p, d |-> req[p].d, v |-> req[p].v, status |-> req[p].status,
    prediction |-> req[p].prediction]}

Pushed_mutant(p) ==
  IF config.d = NoDeployment THEN {} ELSE
  {[id |-> p, pid |-> IF req[p].prediction = Missing THEN Missing ELSE p,
    d |-> config.d, v |-> req[p].v, status |-> req[p].status,
    prediction |-> req[p].prediction]}

\* _emit_metric, if the configuration names a deployment.
Pushed(p) ==
  IF req[p].d = NoDeployment THEN {} ELSE
  {[id |-> p, pid |-> IF req[p].prediction = Missing THEN Missing ELSE p,
    d |-> req[p].d, v |-> req[p].v, status |-> req[p].status,
    prediction |-> req[p].prediction]}

Answer(p) ==
  /\ req[p].pc = "served"
  /\ req' = [req EXCEPT ![p].pc = "answered"]
  /\ pushes' = pushes \cup Pushed(p)
  /\ UNCHANGED <<config, metrics, labelvars, lost>>

\* The control plane's record_metric; a deployment it doesn't know is a 404.
RecordMetric(m) ==
  /\ pushes' = pushes \ {m}
  /\ metrics' = IF m.d \in Deployments THEN metrics \cup {m} ELSE metrics
  /\ UNCHANGED <<config, req, labelvars, lost>>

\* send_metric logs the failure and that is all.
LosePush(m) ==
  /\ pushes' = pushes \ {m}
  /\ lost' = lost \cup {m.id}
  /\ UNCHANGED <<config, req, metrics, labelvars>>

\* Requests and pushes in progress are gone; the lifespan reads a configuration, or
\* the settings have one.
RouterRestart ==
  /\ config' \in Configs
  /\ req' = [p \in Requests |->
       IF req[p].pc \in {"checking", "forwarding", "served"}
       THEN Refused ELSE req[p]]
  /\ pushes' = {}
  /\ lost' = lost \cup {m.id : m \in pushes}
  /\ UNCHANGED <<metrics, labelvars>>

-----------------------------------------------------------------------------
(***************************************************************************)
(* ingest_label, once per item of a request.                               *)
(***************************************************************************)
LabelsOf(p) == {l \in labels : l.pid = p}

MetricsOf(p) == {m \in metrics : m.pid = p}

\* The client knows the id from the answer it got, and may queue a label for it.
CanBeLabelled(p) == p \in Labelled /\ req[p].pc = "answered" /\ req[p].prediction # Missing

\* The session reads whether there is a label.
Report(f, p, a) ==
  /\ session[f].pc \in {"idle", "answered"}
  /\ CanBeLabelled(p)
  /\ \/ /\ LabelsOf(p) = {}
        /\ session' = [session EXCEPT ![f] =
             [NoSession EXCEPT !.pc = "insert", !.pid = {p}, !.actual = a]]
     \/ \E l \in LabelsOf(p) :
          session' = [session EXCEPT ![f] =
            [NoSession EXCEPT !.pc = "resolve", !.pid = {p}, !.actual = a,
                              !.found = l.actual]]
  /\ UNCHANGED <<routervars, metrics, labels, conflicts, lost>>

\* Mutant: no unique constraint on prediction_id.
Insertable_mutant(p) == TRUE

Insertable(p) == LabelsOf(p) = {}

\* Mutant: the label only kept when there is a metric to match it with.
NewLabels_mutant(f, p) ==
  IF MetricsOf(p) = {} THEN {}
  ELSE {[pid |-> p, actual |-> session[f].actual, by |-> f]}

NewLabels(f, p) == {[pid |-> p, actual |-> session[f].actual, by |-> f]}

Insert(f, p) ==
  /\ session[f].pc = "insert"
  /\ session[f].pid = {p}
  /\ Insertable(p)
  /\ labels' = labels \cup NewLabels(f, p)
  /\ session' = [session EXCEPT ![f].pc = "find"]
  /\ UNCHANGED <<routervars, metrics, conflicts, lost>>

\* Mutant: the lost race taken for a repetition.
AfterIntegrityError_mutant(s) == [s EXCEPT !.pc = "answered", !.outcome = "no_op"]

AfterIntegrityError(s) == [s EXCEPT !.pc = "reselect"]

\* IntegrityError, rollback.
InsertFails(f, p) ==
  /\ session[f].pc = "insert"
  /\ session[f].pid = {p}
  /\ ~Insertable(p)
  /\ session' = [session EXCEPT ![f] = AfterIntegrityError(@)]
  /\ UNCHANGED <<routervars, metrics, labels, conflicts, lost>>

\* The committed row that got in the way is found: labels are never deleted.
Reselect(f, p) ==
  /\ session[f].pc = "reselect"
  /\ session[f].pid = {p}
  /\ \E l \in LabelsOf(p) :
       session' = [session EXCEPT ![f].pc = "resolve", ![f].found = l.actual]
  /\ UNCHANGED <<routervars, metrics, labels, conflicts, lost>>

\* _resolve_existing: a conflict is audited when its deployment is known.
Resolve(f, p) ==
  LET s == session[f]
      conflict == s.found # s.actual
  IN /\ s.pc = "resolve"
     /\ s.pid = {p}
     /\ conflicts' = conflicts \cup
          (IF conflict THEN {[d |-> m.d, pid |-> p] : m \in MetricsOf(p)} ELSE {})
     /\ session' = [session EXCEPT ![f].pc = "answered",
                      ![f].outcome = IF conflict THEN "conflict" ELSE "no_op"]
     /\ UNCHANGED <<routervars, metrics, labels, lost>>

FindMetric(f, p) ==
  /\ session[f].pc = "find"
  /\ session[f].pid = {p}
  /\ session' = [session EXCEPT ![f].pc = "answered",
       ![f].outcome = IF MetricsOf(p) = {} THEN "pending" ELSE "applied"]
  /\ UNCHANGED <<routervars, metrics, labels, conflicts, lost>>

\* Committed labels stay; a report whose label was not is lost with its session.
BackendRestart ==
  /\ session' = [f \in Feeders |-> NoSession]
  /\ lost' = lost \cup
       UNION {session[f].pid : f \in {g \in Feeders : session[g].pc \in {"insert", "reselect"}}}
  /\ UNCHANGED <<routervars, metrics, labels, conflicts>>

-----------------------------------------------------------------------------
Forward(p) ==
  \/ \E v \in Versions : Receive(p, v)
  \/ \E ready \in BOOLEAN : CheckReady(p, ready)
  \/ \E s \in Answers : Serve(p, s)
  \/ UpstreamUnavailable(p)
  \/ Answer(p)

Ingest(f, p) ==
  \/ Insert(f, p)
  \/ InsertFails(f, p)
  \/ Reselect(f, p)
  \/ Resolve(f, p)
  \/ FindMetric(f, p)

Next ==
  \/ \E c \in Configs : PutConfig(c)
  \/ \E p \in Requests : Forward(p)
  \/ \E m \in pushes : RecordMetric(m) \/ LosePush(m)
  \/ RouterRestart
  \/ \E f \in Feeders, p \in Requests, a \in {0, 1} : Report(f, p, a)
  \/ \E f \in Feeders, p \in Requests : Ingest(f, p)
  \/ BackendRestart

Spec == Init /\ [][Next]_vars

\* A push is sent or fails, a handler runs to its end.
FairSpec ==
  /\ Spec
  /\ \A p \in Requests : WF_vars(\E m \in pushes : m.id = p /\ (RecordMetric(m) \/ LosePush(m)))
  /\ \A f \in Feeders : WF_vars(\E p \in Requests : Ingest(f, p))

-----------------------------------------------------------------------------
(***************************************************************************)
(* Properties.                                                             *)
(***************************************************************************)
\* The outer join of compute_version_summary, over all time.
Joined(d, v) ==
  UNION {IF LabelsOf(m.pid) = {}
         THEN {[id |-> m.id, latency |-> 0, status |-> m.status,
                prediction |-> m.prediction, label |-> Missing, by |-> {}]}
         ELSE {[id |-> m.id, latency |-> 0, status |-> m.status,
                prediction |-> m.prediction, label |-> l.actual, by |-> {l.by}] :
                  l \in LabelsOf(m.pid)} :
         m \in {n \in metrics : n.d = d /\ n.v = v}}

Said(rows) == IF rows = {} THEN Missing ELSE (CHOOSE l \in rows : TRUE).actual

Truth == [p \in Requests |-> Said(LabelsOf(p))]

Recorded(p) == \E m \in metrics : m.id = p

\* Every metric, and every conflict in the audit, is attributed to the deployment and
\* to a version of the deployment that the router was serving when it picked the
\* target, whatever configuration replaced that one before the metric was sent.
Attributed ==
  /\ \A m \in metrics : /\ m.v \in VersionsOf[m.d]
                        /\ m.d = req[m.id].d /\ m.v = req[m.id].v
  /\ \A e \in conflicts : e.d = req[e.pid].d

\* Whatever the order in which metrics and labels arrive and however often they are
\* reported, a recorded prediction is one sample of its version, and is counted
\* in exactly the cell of the confusion matrix its prediction and its label say.
CountedOnce ==
  \A m \in metrics :
    LET s == Summarize(Joined(m.d, m.v))
        recorded == {p \in Requests : Recorded(p) /\ req[p].d = m.d /\ req[p].v = m.v}
        Counted(x, y) == Cardinality({p \in recorded : req[p].prediction = x /\ Truth[p] = y})
    IN /\ s.samples = Cardinality(recorded)
       /\ s.labeled = Cardinality({p \in recorded : Truth[p] # Missing})
       /\ <<s.tp, s.fp, s.fn, s.tn>>
            = <<Counted(1, 1), Counted(1, 0), Counted(0, 1), Counted(0, 0)>>

\* What the feeder knows of a report.
Seen(s) == [open |-> s.pc \notin {"idle", "answered"},
            accepted |-> s.outcome \in {"applied", "no_op", "pending"},
            pid |-> s.pid, actual |-> s.actual]

Reports == [f \in Feeders |-> Seen(session[f])]

Register == INSTANCE GroundTruth WITH
  Predictions <- Requests,
  Undecided <- Missing,
  truth <- Truth,
  report <- Reports

\* Feeders racing to insert a label, losing the race and asking again: the outcome of
\* a prediction is decided once, a report that agrees with it is never
\* answered as a conflict, one that contradicts it never as recorded.
TruthDecidedOnce == Register!TruthSpec

\* A reported label and the metric of its prediction find each other in the end,
\* unless the push or the report was lost on the way or went to no deployment.
LabelsMeetMetrics ==
  \A p \in Requests :
    (\E f \in Feeders : session[f].pid = {p})
      ~> \/ p \in lost \cup {q \in Requests : req[q].d \notin Deployments}
         \/ \E m \in metrics, l \in labels : m.pid = p /\ l.pid = p
=============================================================================
