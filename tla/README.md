# modelops-control-plane in TLA+

The repository is a control plane for canary rollouts of machine-learning
models: a FastAPI backend with an SQLite database, a traffic router, a worker
that drives rollouts automatically, model-serving containers and a dashboard.
This directory models its rollout protocol, the path from a prediction to a
verdict, and the benchmarks with the page that follows them; checks them with
TLC; and proves their safety with TLAPS.

    tlc -config rollouts.cfg MCRollouts.tla        # and the other runs below
    tlapm RolloutsProofs.tla                       # and the other ...Proofs modules

## The system

| Component | State | Operations | Talks to |
|---|---|---|---|
| State machine (`control_plane/state_machine.py`, `models.py`) | none | `validate_transition` | used by the service |
| Deployment service (`control_plane/service.py`) | `deployments`, `traffic_allocations`, `routing_generations`, events | create, promote, rollback, advance, record_inconclusive, pause, resume | database; pushes to the router after the commit |
| Deployment API (`control_plane/api.py`) | one database session per request | the POST handlers | service |
| Gateway and reconciler (`router_gateway.py`, `reconcile.py`) | reachability events | push, observe, one reconcile tick | router over HTTP |
| Router (`router/`) | one in-memory `RouterConfig` | `put_config`, startup sync, `predict` | control plane (sync, metrics), serving |
| Worker (`worker/`) | none across calls | one sweep: reconcile, list, evaluate, act | control plane over HTTP |
| Policy (`policy/`) | `policy_evaluations` | `run_evaluation`, `evaluate_policies`, `overall_result` | metrics |
| Metrics and labels (`metrics_service.py`, `label_service.py`) | `prediction_metrics`, `ground_truth_labels` | record, ingest, summarise | router, label feeders |
| Benchmarks (`benchmarks/`, `scripts/benchmarks/`) | `benchmark_runs`, a subprocess | start, monitor | control plane, serving |
| Serving (`serving/`) | fault-injection knobs | predict, set fault | router |
| Dashboard (`frontend/`) | what a page displays | `useAsync`, `useMutation` | control plane |

What is hard in it: requests read a row, decide and write it back while others
do the same, with optimistic locking on one table only; create is
check-then-act; the desired state is committed and then pushed to a second
store that may be down, restarting, or receiving older pushes; the push can time
out and still arrive; the worker acts on answers it got several requests ago
while operators act too; and what is desired is a query over history, not a row.
A verdict is put together from three queries at three moments over rows whose
labels arrive minutes later or never; two feeders may report the same label, and the metric of a prediction travels
apart from its label. A benchmark's subprocess, its monitor, the fault it has
injected and the page that displays it fail and end independently.

Correctness, per component:

- service: one rollout in flight per model; no update lost; an ended rollout
  never changes; stages climbed one at a time; the allocation that is desired is
  the one that was routed last and always exists; revisions only grow;
- router and reconciler: only committed splits are applied; superseded pushes
  are rejected, or repaired by the next tick; a router that stays up converges;
  outages and recoveries are on the record;
- worker: the hold is honoured; promotion only at full traffic; freezing only
  after enough inconclusive cycles; every rollout ends;
- metrics and labels: a metric belongs to the deployment that served the
  prediction; a prediction counts once, in the cell its label says; a label is
  decided once;
- policy: missing data is never health nor harm; a faultless canary is not rolled
  back, an unconfirmed one not advanced, a healthy one promoted;
- benchmarks: one run at a time, ended once, with its own result; a fault does
  not outlive its run; none in production;
- dashboard: what is displayed never gives way to something older, and a run's
  end gets onto the page.

## Modules

| Module | Models | State |
|---|---|---|
| `StateMachine` | statuses, transition table, status classes, stages | constants only |
| `Rollouts` | the database; each operation of `service.py` as one atomic step | `dep`, `generation`, `clock` |
| `ControlPlane` | the request handlers: each SELECT, guard and the commit a step, over concurrent `Sessions`; aborts and restarts | + `sess` |
| `DesiredRouting` | abstract: the desired allocation of each model moves forward | `desired`, `past` |
| `RolloutsRouting` | `get_authoritative_allocation` as a refinement mapping from `Rollouts` to `DesiredRouting` | of `Rollouts` |
| `RoutingSync` | push, reconcile tick, network, router; on top of `DesiredRouting` | + `router`, `cfg`, `call`, `unreachable` |
| `WorkerDecision` | the action a verdict leads to, on top of `Rollouts` | of `Rollouts` |
| `Worker` | the worker's sweep call by call, operators, faults | + `recent`, `work` |
| `Metrics` | `compute_version_summary`: counts, confusion matrix, percentiles | constants only |
| `PolicyEngine` | the checks, their precedence, and the verdict said of the data | constants only |
| `Evaluation` | one rollout on its traffic: time, labels, the queries of an evaluation, the worker's action | of `Rollouts`, + `rows`, `call`, `since` |
| `GroundTruth` | abstract: an outcome is decided once | `truth`, `report` |
| `Telemetry` | the router's predictions, their metrics, the feeders' labels, and where they meet | `config`, `req`, `pushes`, `metrics`, `labels`, `conflicts`, `session` |
| `BenchmarkRuns` | abstract: runs, one at a time | `status` |
| `Benchmarks` | the benchmark API, its monitors, the runners, the faults they inject | `row`, `monitor`, `runner`, `puts`, `knob`, `report` |
| `UseAsync` | the dashboard's hook | `hook` |
| `BenchmarksPage` | the benchmarks page; on top of `BenchmarkRuns` and `UseAsync` | + `page`, `polls`, `troubles` |
| `RolloutsProofs`, `ControlPlaneProofs`, `WorkerProofs`, `RoutingSyncProofs`, `EvaluationProofs`, `TelemetryProofs`, `BenchmarksProofs`, `BenchmarksPageProofs` | theorems about the module each is named after; `RolloutsProofs` also about `RolloutsRouting` | |
| `MC...` | symmetry sets, policies, configurations and traffic for TLC | |

The layers fit together by refinement, and each interface is checked from both
sides: `ControlPlane` implements `Rollouts` (`Serializable`, checked and proved),
so `Worker` and `Evaluation` may use the atomic operations; `Rollouts` implements
`DesiredRouting` (`RoutesForward`, checked and proved), so `RoutingSync` may start
from it, and adds nothing to it (`SyncLeavesDesired`, proved); `Benchmarks` implements `BenchmarkRuns` (`OneAtATime`, checked and
proved), so `BenchmarksPage` may, and adds nothing to it (`PageUsesRuns`, proved);
`Telemetry` implements `GroundTruth`
(`TruthDecidedOnce`, checked and proved), so a row of `Evaluation` may have one
label that never changes. `Worker` and `Evaluation` share `WorkerDecision` and
complement each other: in `Worker` a verdict is any result and the sweep, the
hold, failures and several rollouts are modelled; in `Evaluation` there is one
rollout and its verdict has to be earned, by `PolicyEngine` on the `Metrics` of
what was recorded.

### How state corresponds to the code

`dep[d]` is a row of `deployments` joined with its row of `traffic_allocations`;
`weight` is the canary's share of `targets` in whole percent (the stable version
has the rest), `rev` is `TrafficAllocation.revision`, `version` is `version_id`.
`generation[m]` is `RoutingGeneration.generation`, 0 standing for no row.
`PENDING` and `DEPLOYING` are passed inside the transaction of create, and
`EVALUATING`, `PROMOTING`, `ROLLING_BACK` inside the others, so only
`CANARY_RUNNING`, `INCONCLUSIVE`, `PROMOTED` and `ROLLED_BACK` are ever
committed (a conjunct of `RowsWellFormed`). A new row has version 2, since its
INSERT and the UPDATE that starts it are in one transaction. Rows are updated by
dirty columns, which is why `WriteRow` starts from the current row.

`clock` orders the stamps of `datetime.now(UTC)`. It moves with each commit of
an operation that stamps `created_at` or `completed_at`; a `completed_at` may be
older than the commit. That wall-clock stamps never repeat nor step back is an
assumption: the code sorts by them.

A session of `ControlPlane` reads the row (`ReadRow`), the allocation when
`advance_traffic` loads it lazily (`ReadWeight`), the generation
(`ReadGeneration`), and commits. `SessionLocal` has `autoflush=False`, so nothing
is written before the commit, except that create flushes its INSERT first, which
takes SQLite's write lock: from there to the commit is one step. SELECTs take no
snapshot across statements. In one process the `async` handlers do not yield
between reading and committing while the plain `def` handlers run on threads;
the model interleaves all of them, as two server processes or two sessions of
`tests/test_concurrency.py` do. Guards that end in a 404 or 409 without a write
only end the session.

A call of `RoutingSync` is a handler's push or a reconcile tick. Its message
outlives it when the client times out or the control plane restarts
(`waiting = FALSE`) and may reach the router later, also a restarted one.
`put_config` runs on a threadpool: `PutCheck` and `PutSet` are separate steps,
`RouterThreads` bounds how many overlap. The configuration is lost in
`RouterCrash` and read back once, by `RouterSync`, through `SyncedConfig`, which
has no revision because `get_router_config` returns none. `RouterReady` is a step
of its own: what is committed after the fetch is not what the router comes up with.
`unreachable` holds the deployments whose latest reachability event is
`router_unreachable`, which is what `record_router_reachability_change` reads; being
a set, it cannot tell whether an event is recorded twice in a row.
`log` is history.

In `Worker`, a verdict is any of the three results and one worker runs; `recent` holds the
deployments evaluated less than their window ago, by the worker or an operator.
`advance_traffic` and `record_inconclusive` belong to the worker ("used
exclusively by"). A call that fails may have taken effect or not; a call that
takes effect does so before the worker's next one. `held` and `verdicts` are
history.

In `Evaluation`, time is counted in ticks and a row of `prediction_metrics` carries
its age in them, so that a query's window is a range of ages. `rows` are sets:
what one tick brings to a side is told apart by latency, outcome and label, and rows
alike in all of them count as one. `rows["canary"]` is
kept until the quality window, `Maturity` ticks late, has passed over it;
`label` is the joined `actual`. A tick brings a set of rows to each side, the
stable one only as long as it gets traffic (`StableFed`: the canary takes less than
everything, or the runner's health checks record rows). The worker's call goes
through `QueryStable`, `QueryCanary` and `QueryQuality`, each with a now of its own;
the last computes the verdict and commits the rows of `policy_evaluations`, of
which only "when was the last one" is ever read back (`since`). The action is a
request of its own. `harmed`, `confirmed` and `healthy` are history.

`Metrics` counts what `compute_version_summary` counts and keeps rates as pairs of
counts, so that a comparison with a threshold is exact where the code compares
floats; percentiles are in hundredths and interpolate as `_percentile` does.
`Missing` is SQL's NULL and Python's None.

In `Telemetry`, `req[p]` is one call of `route_predict`: `checking` and `forwarding`
are its two awaits, `served` the answer it holds, `answered` the response with its
metric pushed. The deployment and the version it was routed by are local to the
request, as in the code. `pushes` is `pending_metric_tasks`. A session of a feeder
goes through `ingest_label` statement by statement: `insert` and its
IntegrityError, `reselect`, `resolve`, `find`. `lost` is history: failed pushes, and
reports whose session died before the label was committed.

In `Benchmarks`, `monitor[r]` is the task that spawns run `r` and waits for it,
`runner[r]` the subprocess: `setting` awaits the answer of the PUT that switches
the fault on, `set` has it, `running` is the try block, `clearing` the finally.
A PUT in `puts` outlives a client that gave up on it or was killed. `knob[t]` names
the run whose fault a container injects (the code keeps the figures only; who set
them is history). `report[s]` is the file of the scenario, written in one step
(`WriteReport`): a monitor that reads half of one gets a JSONDecodeError and records
the run without a result, as it does when there is no file. The check for a running
run and the insert are one step: no await lies between them, and the API is one
process with one event loop (`docker-compose.yml`).

In `BenchmarksPage`, `hook.current` is the call of the last effect of `useAsync` and
`hook.superseded` that of the effect cleaned up before; the calls of the interval's
callback are the bag `polls`, and nothing cancels them. `page.initial` is
`getCurrentBenchmarkRun` on mount; of the calls of `startBenchmarkRun`, `page.asking`
counts those the API has not answered and `page.started` has the runs of the answers
on their way. Starts overlap, as a card is disabled while a run is displayed as
RUNNING or while it is the one submitted last (`startingScenario`): with several
scenarios another can be clicked, so `Click` asks for the former only.

## Runs

| Run | Bounds | Checks | Shows |
|---|---|---|---|
| `rollouts` | 3 deployments, 1 model, 1 retry, 5 versions per row | `LedgerInv`, `AuthoritativeIsNewest`, `AlwaysAuthoritative`, `RevisionsOnlyGrow`, `RoutesForward` | every history of atomic operations: what is desired is what was routed last, it always exists, and `Rollouts` implements `DesiredRouting` |
| `control_plane` | 2 sessions, 2 deployments starting at 30, 1 key, 4 versions per row | `Serializable`, `Inv`, `FreshSnapshot`, `UniqueRows`, `TerminalRowsFrozen`, `StageByStage` | racing handlers behave as the atomic operations, from the first stage to the end of a rollout |
| `converge` | 2 models, 3 deployments (one of an unknown version), 2 splits, 2 calls, 2 threads, 2 commits, 2 faults, fair | `RouterServesCommitted`, `NoDriftMissed`, `Converges`, `OutageVisible`, `RecoveryVisible`, `TypeOK` | the router only applies committed splits, no tick takes another split for the desired one, and reconciliation closes every drift, also those of racing PUTs |
| `worker` | 1 model, 2 deployments at 50, 1 retry, 1 operator request, 1 fault, fair | `HoldHonoured`, `RetriesEarned`, `PromotesAtFullTraffic`, `RolloutsEnd`, `TypeOK` | what the worker never does and what it always does in the end |
| `evaluation` | 1 deployment at 75, windows and maturity of 1 tick, 2 retries, ticks: quiet, good, slow error, missed positive; fair | `VerdictJustified`, `RollbackEarned`, `AdvanceEarned`, `PercentilesOrdered`, `HealthyIsPromoted`, `TypeOK` | the verdict is what the data deserve, and what it costs or gives the rollout is earned |
| `telemetry` | 2 requests (1 labelled), 2 feeders, 2 deployments that share a version, 3 configurations, a version without a host; fair | `Attributed`, `CountedOnce`, `TruthDecidedOnce`, `LabelsMeetMetrics`, `TypeOK` | no order of metrics, labels, configurations, losses and restarts counts anything twice or for another deployment |
| `benchmarks` | 2 runs of the API and 1 by hand, 3 scenarios (a fault, a fault refused in production, none), 2 containers; fair | `OneAtATime`, `ResultIsOwn`, `FaultsConfined`, `RunsEnd`, `TypeOK` | the run and the monitor, the runner and its fault end together, or the history says why not |
| `dashboard` | 2 runs, 2 starts and 2 polls at a time, 1 failed call or reload, fair | `NeverBackwards`, `PageCatchesUp` | the history never goes back; the run's end arrives |

Bounds and why they are enough. `Deployments` has three rows where history
matters (an ended rollout, its successor, and one more to tell "the previous"
from "an earlier" one) and two where concurrency matters. Two sessions or calls
make every pairwise race; what a third would add is covered by the proofs for
the database. `MaxVersion` caps the writes to a row: 5 is enough to retry, freeze
and then decide; in `control_plane` a rollout starts at 30, so that 4 reach the
last stage and its end (2 is the version of a new row); in `worker` and
`evaluation` the bound never binds. `MaxRetries` is 1, the smallest value
`PolicyConfig` allows, and 2 in `evaluation`, where the first cycle after a start
is always inconclusive (no label is mature yet). `MaxCommits`
bounds the commits that route a model, of all models together: two are enough for a
superseded push, for a race of two PUTs and for two models in one router;
`resurrection` has three, for a push that is older than the one superseded.
`RouterThreads` is 2, every pairwise race of `put_config`, and 1 in `resurrection`,
which shows that no race is needed. `MaxFaults` counts lost messages, timeouts and
crashes; `MaxManual` the operators' requests; `MaxTroubles` failed calls and reloads
of the page. `evaluation` needs no bound on time: rows carry ages, not stamps. Its
rollout starts at 75 to reach full traffic, where the stable side starves, in one
stage; with a tick per window the three queries of an evaluation still fall into
different windows, as ticks go on between them, and a label can miss its query.
In `telemetry` the second request has no label: it is there to be counted apart.
`benchmarks` bounds nothing but the number of runs. In `dashboard` a run ends in one
way only, since the page treats every terminal status alike. `CHECK_DEADLOCK` is off in every
run because the bounds stop the model, as operators who send nothing more stop
the system.

### Fairness

- `converge`: the worker's loop catches every exception and never ends, so ticks
  keep coming (`run_forever`); a request that was sent is answered, or fails while
  the router is away; a handler goes on when its answer is there. Nothing restarts
  a router or keeps it up, so `RouterStart` is not fair and the properties assume
  `<>[](router = "up")` or its negation.
- `worker`: the worker's loop again, and time passes, so every evaluation window
  ends. That operators stop evaluating by hand and that calls stop failing is an
  assumption (`MaxManual`, `MaxFaults`): an operator who evaluated within every
  window would keep the worker from acting.
- `evaluation`: time passes, the worker's loop goes on, somebody starts the
  rollout. Labels are not fair; `HealthyIsPromoted` assumes that they arrive before
  they are due, that traffic is good and never pauses, and that nothing fails.
- `telemetry`: a push ends in a row or in a logged failure (its client has a
  timeout), a handler runs to its end. Nothing is assumed of the router.
- `benchmarks`: every wait of the runner has a deadline (10 s per PUT, the run time of
  the load, `max_wait_seconds`), and tasks of a live event loop go on.
- `dashboard`: the interval ticks, the server answers, answers arrive or the call
  has failed. That some poll goes on is fair, no poll in particular is; superseded
  fetches and starts are not fair at all.

## Where the code and its documentation disagree

Four runs are expected to be violated: each checks what the documentation or a
comment says of the program, and the counterexample is what the code does.

| Run | Property | What happens |
|---|---|---|
| `resurrection` | `NoResurrection` | a router that has synced at startup holds revision 0 and accepts a late push of a superseded deployment (`README.md:512-514` says otherwise); the next tick repairs it |
| `older_wins` | `RevisionNeverGoesBack` | `put_config` runs on a thread pool and holds no lock from its test to its store: two PUTs pass the test and the older one is stored last (`control_plane/models.py:177-182` calls a stale push rejected and harmless); the next tick repairs it, as `Converges` shows |
| `fault_left` | `NoFaultLeftByAnException` | the PUT that switches a fault on times out and is applied all the same; `run_scenario` raises before its `try`, and the fault stays on (`docs/DESIGN_NOTES.md:680-683`, `run_benchmark.py:80-82`) |
| `stale_poll` | `ResultStays` | two polls overlap and arrive out of order: the terminal result gives way to RUNNING, or a new run to the old one's result, after which nothing polls (`page.tsx:75-77`) |

What the properties that hold had to be phrased around:

- `get_router_config` returns no revision, so a router that has just started and the
  reconciler disagree until the first tick: `Converges` is about what follows.
- A version the router has no host for flips reachability on every tick, down for
  the 400 and up for the next GET, and the router never applies it: `Converges` and
  `RecoveryVisible` are about routable ones (`Due`).
- The router has one slot, and a tick asks for the model it finds there: with two
  models in service, `Converges` and `RecoveryVisible` are about the one the router
  ends up serving, and the mark of the other's deployment stays. So does that of a
  deployment replaced during an outage.
- A pause that arrives after the sweep's list is honoured by the next sweep only:
  `HoldHonoured` counts from the list.
- The retry counter is called consecutive (`models.py:96-98`) but no PASS resets it:
  `RetriesEarned` counts all inconclusive verdicts of the worker. Read literally, the
  comment and `policy/config.py:28` are not what the code does: with a limit of 1, an
  inconclusive cycle, a passing one and another inconclusive one freeze a rollout.
- A fault also outlives its run when the runner is killed, and a run stays RUNNING
  when the backend restarts or the spawn fails: `FaultsConfined` and `RunsEnd` name
  these cases.
- A run by hand of the same scenario may replace the report the API is about to read:
  `ResultIsOwn` names it.

## Proofs

The `...Proofs` modules prove, for any number of deployments, models, keys,
sessions, calls, requests, feeders, runs, scenarios and polls, any weights, policy,
traffic and retry limit, and without using the bounds
`MaxVersion`, `MaxManual`, `MaxCommits`, `RouterThreads`, `MaxFaults`, `MaxStarts`,
`MaxPolls` and `MaxTroubles`, from the named
assumptions on the constants:

| Theorem | Says |
|---|---|
| `LedgerInvariant` | `SpecDB => []LedgerInv` |
| `AuthoritativeIsNewestTheorem`, `AlwaysAuthoritativeTheorem` | what is desired is the newest allocation, and exists |
| `RevisionsOnlyGrowTheorem` | an allocation is written with a revision above all others of its model |
| `RoutesForwardTheorem` | `SpecDB` implements `DesiredRouting` through the query of the authoritative allocation |
| `HandlersInvariant` | `Spec => []Inv` for the interleaved handlers |
| `SerializableTheorem` | `Spec => SpecDB`: every step of a handler is an atomic operation or a stutter |
| `UniqueRowsTheorem`, `FreshSnapshotTheorem`, `TerminalRowsFrozenTheorem` | corollaries for the handlers |
| `HandlersRouteForward` | however many requests race, the rows behave as `DesiredRouting`, and the newest allocation is the one that is picked |
| `StageByStageTheorem` | racing handlers never skip or repeat a stage |
| `WorkerImplementsRollouts` | the system with a worker and operators keeps to the operations of the database: `Spec => SpecDB /\ []LedgerInv` |
| `WorkerTypeCorrect`, `RoutingSyncTypeCorrect`, `TypeOKTheorem` of `Evaluation`, `TelemetryTypeCorrect`, `BenchmarksTypeCorrect` | type correctness |
| `HoldHonouredTheorem`, `PromotesAtFullTrafficTheorem`, `RetriesEarnedTheorem` | what the worker never does |
| `RouterServesCommittedTheorem` | the router applies committed splits only, with any number of threads |
| `NoDriftMissedTheorem` | a tick that finds the same deployment and revision has read the very split that is desired |
| `SyncLeavesDesired` | pushes, ticks, faults and restarts leave `DesiredRouting` to the commits |
| `VerdictTheorem` | for any summaries and policy, the checks with their gates, early return and precedence add up to the verdict said of the data |
| `VerdictJustifiedTheorem` | so does every verdict the system comes to |
| `PercentilesOrderedTheorem` | the interpolated percentiles of any summary are in order and within what was measured |
| `RollbackEarnedTheorem` | no canary that did nothing wrong is rolled back by the worker |
| `AdvanceEarnedTheorem` | if `minimum_recall # 0`, the worker gives no canary more traffic before one of its predictions was confirmed |
| `EvaluationImplementsRollouts` | the evaluated rollout keeps to the operations of the database |
| `AttributedTheorem` | a metric or a conflict belongs to the deployment and the version its request was routed by |
| `CountedOnceTheorem` | every recorded prediction counts once, in its cell of the confusion matrix |
| `TruthDecidedOnceTheorem` | `Telemetry` implements `GroundTruth`: feeders that race decide a label once |
| `OneAtATimeTheorem` | `Benchmarks` implements `BenchmarkRuns` |
| `ResultIsOwnTheorem`, `FaultsConfinedTheorem` | whose result a completed run shows, and what can leave a fault behind |
| `NeverBackwardsTheorem` | the list of runs on screen never gives way to an older one |
| `PageUsesRuns` | the page adds nothing to `BenchmarkRuns` |

The argument for the database. `AuthoritativeIsNewest` is not inductive: which
row the query picks depends on stamps, the newest revision on a counter.
`LedgerInv` ties them: at most one row of a model is in flight, and its rows form
a chain, each but the last ended, stamped and out-numbered before the next was
created (`RowsChained`); one row carries the model's generation
(`NewestExists`). The last row of the chain is then what the query returns,
in either of its branches, and the one with the newest revision. Every update
writes a row that differs from the old one within the limits of one lemma
(`UpdatePreserves`), so each operation only has to be shown to be such an update.

`RoutesForward` follows from the same chain: at most one row of a model holds its
generation (`HoldsNewest`), the query returns that row, a row in flight is that
row, and only a create or an update of a row in flight moves the generation.

The argument for the handlers. The counter and the allocation carry no version,
so a commit whose version check succeeds must be shown to have read current ones:
`FreshSnapshot`. It is inductive because everyone who changes the weight or the
counter of a model also bumps the version of the deployment concerned, that
deployment is the one in flight, and a session that wants to change routing holds
a row in flight: with one in flight per model it is the same row. With
`FreshSnapshot`, a commit is the atomic operation applied to the current state,
and `SerializableTheorem` follows.

The argument for the worker. `SweepInv` says that what is in hand is an existing
deployment. `HoldHonoured` is then inductive: the list leaves out what is held,
and a step either shrinks what is left of the sweep or passes one deployment from
the rest into the worker's hand. `PromotesAtFullTraffic` needs `FullIsFull`: the
weight of a row in flight never goes down, so the full traffic read two requests
earlier still holds unless somebody ended the rollout, and then the promotion is
refused. `RetriesEarned` needs `VerdictsCover`, which counts the verdict that is
about to be recorded: only `Act` records one, after the verdict was got.

The argument for the router. `CommittedInv`: what is desired and what is on its way
was committed, whoever sent it and whether or not anybody still waits for it; so
whatever is stored or synced was committed, in whatever order. Type
correctness needs to know of every call past a tick's GET that it names a
deployment (`TypeInv`): a tick may read a router that applies none, and events are
recorded of what calls name. `NoDriftMissed` rests on `LogInv`, one split per revision
of a model and none beyond the desired revision, and on `SeenInv`, that what a tick
has in hand was applied by the router when it was read. `RolloutsRouting` and
`RoutingSync` meet at `DesiredRouting`: the rows implement it, also under racing
handlers, and the rest of the system does not touch it.

The argument for the verdict. `overall_result` looks at a set of checks which the
gates may have cut short; `Verdict` asks for harm and for evidence. One lemma per
check says when it fails and when it lacks data; the cases of the early returns
then line up. `Summary`'s figures are naturals or `Missing`, and the products of
the thresholds stay multiplied out, so that no rounding is involved.

The argument for the evaluation. A percentile is picked from the sorted latencies by
counting: the value at a rank is the least one with that many at or below it, which
exists because a finite set of rows has a largest latency, and is no less for a higher
rank. Interpolation between neighbours keeps within them, and the sum that bounds it
is over shares of 100. For what is earned, the state in which the action is taken
holds neither the rows nor the labels the verdict was computed from. `EarnedInv`
carries their evidence along: `RowsEvidence` says what the recorded rows prove
(without harm none of the canary's is bad; a true positive confirms), `CallEvidence`
what the summaries in hand then say (no errors, no slow p95, a stable p95 next to
which a normal answer is not slow) and, after the last query, the verdict. By
`VerdictTheorem` a FAIL needs harm in one of the two windows and a PASS needs a recall,
whose numerator is a confirmed prediction. A `minimum_recall` of 0, which
`PolicyConfig` allows, lets a recall of 0 pass: the property fails then, and the
theorem has it as its hypothesis. Two assumptions are about the traffic:
`TrafficAssumption`, that a tick brings finitely many answers with natural latencies,
and `NormalAssumption`, that a normal latency is one the policy tolerates next to every
answer of the stable version. A comparison of latencies cannot tell more than that: a
canary that is slower than the policy tolerates next to a fast stable version is rolled
back, and by the policy's own words it has done something wrong.

The argument for telemetry. `TelemetryInv`: a request past its first await holds a
target its configuration had (`Picked`); whatever is pushed, recorded or audited was
copied from a request that is answered, which nothing touches again (`Provenance`);
a label is unique, and a session that goes on to `find` or `resolve` knows one that
is there (`LabelInv`). For the refinement, an insert decides, its answer accepts, and
a session that found another's label accepts or refuses by what it read, which is
still so, as labels are never changed or deleted.

`CountedOnce` needs one more invariant, `CopyInv`: a metric is the copy of one answered
request, so no two have the same id, and labels and reports are of predictions that
were answered. The join then has one row for each recorded prediction of the version
(`JoinedRows`: a label found by `pid` is unique, and a metric without a prediction finds
none), and rows and requests are put in bijection for each figure of the summary
(`OnePerId`).

The argument for benchmarks. `BenchInv`: a live runner of the API has a row that is
RUNNING and only one has (`RunInv`), so between the report of a runner that exited as
expected and its monitor's read no other run of the API can write (`ResultInv`);
a PUT that switches on belongs to a runner that awaits it or to one that is
`unclean`, and the finally puts the reset on its way before the runner is no longer
injecting (`FaultInv`).

The argument for the page. `PageInv`: the list on screen is no newer than the answer of
the current call, and that no newer than the server, whose runs only move forward.
It says nothing of a superseded call, whose answer may well be older than what is on
screen: it is enough that nobody listens to it.

Only model-checked: the liveness properties (`Converges`, `OutageVisible`,
`RecoveryVisible`, `RolloutsEnd`, `HealthyIsPromoted`, `LabelsMeetMetrics`, `RunsEnd`,
`PageCatchesUp`), which are out of the prover's reach, as are fairness and ENABLED.
Every other property of a run that passes is a theorem. `SyncLeavesDesired`, `HandlersRouteForward`, `PageUsesRuns`, `WorkerImplementsRollouts`,
`EvaluationImplementsRollouts` and `VerdictTheorem` are proved only.

## Not modelled

- The registry (reads a manifest), the timeline and the policy explanations (format
  rows for display), the application shell and health endpoints (wiring), migrations:
  no state or protocol of their own. Constraints the migrations create are modelled
  where the service relies on them.
- Training, data generation, evaluation scripts and the CI smoke test: batch jobs.
  The runner's load generation and the text of its report; its life is modelled.
- The wording of events and the audit columns of `policy_evaluations` (weights,
  observed values, window bounds): nothing reads them back but the timeline.
- Figures of a summary that are displayed only: precision, false positive rate, label
  delays, deltas.
- The other pages of the dashboard: they display what `useAsync` returns and refetch
  after a mutation; forms and layout.
- What a model predicts is any answer; the weighted pick of a target is any target
  with a positive share.
- `FAILED` of a deployment is in the transition table, but no code writes it.

## Plan

1. The pages with mutations on top of `UseAsync`, and the timeline's merge as an
   operator checked against a sorted reference.
2. Theorems on the boundary of what is proved: the safety half of `Converges` (a tick
   without faults leaves the router with the desired allocation).
