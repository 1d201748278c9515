------------------------------ MODULE Rollouts ------------------------------
(***************************************************************************)
(* The control plane's committed state, and what it promises about it:     *)
(* every operation of control_plane/service.py as ONE atomic step on the   *)
(* database.  ControlPlane splits the operations into the reads and the    *)
(* commit that the code performs and is shown to implement this module;    *)
(* RoutingSync adds the router that has to follow this state.              *)
(*                                                                         *)
(* dep[d] is the Deployment row d joined with its TrafficAllocation row    *)
(* (1:1, unique deployment_id): weight is the canary's share of targets,   *)
(* rev is TrafficAllocation.revision.  Rows are never deleted.             *)
(*                                                                         *)
(* clock stands for the wall clock datetime.now(UTC).  It moves on with    *)
(* every commit of an operation that may stamp a row, so a row created     *)
(* after another one was committed has the later created_at (the code's    *)
(* stamps have microseconds).  A completed_at is read from the clock at    *)
(* some time between the creation of the row and the commit.               *)
(***************************************************************************)
EXTENDS StateMachine, FiniteSets

CONSTANTS Deployments,    \* the ids (uuid4) a deployment row can get
          Models,         \* model names
          Keys,           \* idempotency keys clients send
          InitialWeights, \* canary weights clients ask for
          MaxRetries,     \* policy_config.max_inconclusive_retries
          MaxVersion,     \* bound: writes to one deployment row
          None            \* SQL NULL

ASSUME WeightsAssumption == InitialWeights \subseteq 0..100
ASSUME RetriesAssumption == MaxRetries \in Nat \ {0}
ASSUME NoneAssumption == None \notin Models /\ None \notin Keys

VARIABLES dep,         \* deployments and traffic_allocations
          generation,  \* routing_generations; 0: the model has no row yet
          clock

dbvars == <<dep, generation, clock>>

Row == [model: Models \cup {None}, key: Keys \cup {None},
        status: DeploymentStatus \cup {"ABSENT"}, version: Nat,
        weight: 0..100, rev: Nat, retries: Nat, paused: BOOLEAN,
        created: Nat, completed: Nat]

NoRow == [model |-> None, key |-> None, status |-> "ABSENT", version |-> 0,
          weight |-> 0, rev |-> 0, retries |-> 0, paused |-> FALSE,
          created |-> 0, completed |-> 0]

TypeOKDB ==
  /\ dep \in [Deployments -> Row]
  /\ generation \in [Models -> Nat]
  /\ clock \in Nat

InitDB ==
  /\ dep = [d \in Deployments |-> NoRow]
  /\ generation = [m \in Models |-> 0]
  /\ clock = 1

-----------------------------------------------------------------------------
(***************************************************************************)
(* Queries.                                                                *)
(***************************************************************************)
Exists(d) == dep[d].status # "ABSENT"

InFlight(d) == dep[d].status \in IN_FLIGHT_STATUSES

Rows(m, statuses) ==
  {d \in Deployments : dep[d].model = m /\ dep[d].status \in statuses}

\* get_active_deployment(m) is not None
HasActive(m) == Rows(m, ACTIVE_STATUSES) # {}

\* find_by_idempotency_key(key) is not None
KeyTaken(key) == key # None /\ \E d \in Deployments : dep[d].key = key

\* Mutant: the terminal rows sorted the other way round.
CompletedNoLaterMutant(d, e) ==
  \/ dep[e].completed < dep[d].completed
  \/ dep[d].completed = dep[e].completed /\ dep[e].created <= dep[d].created

\* ORDER BY completed_at DESC, created_at DESC
CompletedNoLater(d, e) ==
  \/ dep[d].completed < dep[e].completed
  \/ dep[d].completed = dep[e].completed /\ dep[d].created <= dep[e].created

\* d is a row get_authoritative_allocation(m) may return.
IsAuthoritative(d, m) ==
  LET routing == Rows(m, ROUTING_STATUSES)
      ended   == Rows(m, AUTHORITATIVE_TERMINAL_STATUSES)
  IN \/ d \in routing /\ \A e \in routing : dep[e].created <= dep[d].created
     \/ /\ routing = {}
        /\ d \in ended
        /\ \A e \in ended : CompletedNoLater(e, d)

-----------------------------------------------------------------------------
(***************************************************************************)
(* The rows the operations write, from the row they update.  The columns   *)
(* left out are the ones SQLAlchemy leaves out of its UPDATE.              *)
(***************************************************************************)
CanStart == Allowed("PENDING", "DEPLOYING")
            /\ Allowed("DEPLOYING", "CANARY_RUNNING")

\* INSERT as PENDING writes version 1; the UPDATE in the same transaction
\* that makes it CANARY_RUNNING bumps it to 2.
NewRow(m, key, w, paused, g) ==
  [model |-> m, key |-> key, status |-> "CANARY_RUNNING", version |-> 2,
   weight |-> w, rev |-> g, retries |-> 0, paused |-> paused,
   created |-> clock, completed |-> 0]

\* _touch: version_id_col is bumped by every UPDATE of the row.
Touched(r) == [r EXCEPT !.version = @ + 1]

\* Mutants: the weight set without _next_routing_generation, without _touch, or
\* taking the stage for an increment.
AdvancedUnstamped(r, w, g) == [Touched(r) EXCEPT !.weight = w]
AdvancedUntouched(r, w, g) == [r EXCEPT !.weight = w, !.rev = g]
AdvancedBy(r, w, g) == [Touched(r) EXCEPT !.weight = @ + w, !.rev = g]

Advanced(r, w, g) == [Touched(r) EXCEPT !.weight = w, !.rev = g]

Finished(r, target, w, g, t) ==
  [Advanced(r, w, g) EXCEPT !.status = target, !.completed = t]

\* Mutant: frozen one cycle early.
RetriedTooSoon(r, n, t) ==
  IF n >= MaxRetries
  THEN [Touched(r) EXCEPT !.retries = n, !.status = "INCONCLUSIVE", !.completed = t]
  ELSE [Touched(r) EXCEPT !.retries = n]

Retried(r, n, t) ==
  IF n > MaxRetries
  THEN [Touched(r) EXCEPT !.retries = n, !.status = "INCONCLUSIVE", !.completed = t]
  ELSE [Touched(r) EXCEPT !.retries = n]

WithPaused(r, p) == [Touched(r) EXCEPT !.paused = p]

-----------------------------------------------------------------------------
(***************************************************************************)
(* The operations.                                                         *)
(***************************************************************************)
\* Mutants: the index predicate as ACTIVE_STATUSES; no key constraint.
MayInsertWhileFrozen(m, key) == ~HasActive(m) /\ ~KeyTaken(key)
MayInsertKeyAgain(m, key) == Rows(m, IN_FLIGHT_STATUSES) = {}

\* The two unique constraints an INSERT into deployments must satisfy.
MayInsert(m, key) == Rows(m, IN_FLIGHT_STATUSES) = {} /\ ~KeyTaken(key)

CreateDB(d, m, key, w, paused) ==
  /\ CanStart
  /\ ~Exists(d)
  /\ MayInsert(m, key)
  /\ generation' = [generation EXCEPT ![m] = @ + 1]
  /\ dep' = [dep EXCEPT ![d] = NewRow(m, key, w, paused, generation[m] + 1)]
  /\ clock' = clock + 1

\* Every update of row d: d is a row, and the bound MaxVersion is not reached.
MayUpdate(d) == Exists(d) /\ dep[d].version < MaxVersion

\* Times at which a request that commits now may have read the clock.
Stamps(d) == (dep[d].created + 1) .. clock

\* What promote_deployment and rollback_deployment have in common: the walk to a
\* terminal status through an intermediate one, with the final weight.
FinishDB(d, through, target, w) ==
  /\ MayUpdate(d)
  /\ CanFinish(dep[d].status, through, target)
  /\ \E t \in Stamps(d) : LET g == generation[dep[d].model] + 1 IN
       /\ dep' = [dep EXCEPT ![d] = Finished(@, target, w, g, t)]
       /\ generation' = [generation EXCEPT ![dep[d].model] = g]
  /\ clock' = clock + 1

PromoteDB(d) == FinishDB(d, "PROMOTING", "PROMOTED", 100)

RollbackDB(d) == FinishDB(d, "ROLLING_BACK", "ROLLED_BACK", 0)

AdvanceDB(d) ==
  /\ MayUpdate(d)
  /\ dep[d].status \in ACTIVE_STATUSES
  /\ ~AtFinalStage(dep[d].weight)
  /\ LET g == generation[dep[d].model] + 1 IN
       /\ dep' = [dep EXCEPT ![d] = Advanced(@, NextStage(dep[d].weight), g)]
       /\ generation' = [generation EXCEPT ![dep[d].model] = g]
  /\ UNCHANGED clock

RecordInconclusiveDB(d) ==
  /\ MayUpdate(d)
  /\ dep[d].status \in ACTIVE_STATUSES
  /\ dep[d].retries + 1 > MaxRetries
       => CanAutoAdvanceTo(dep[d].status, "INCONCLUSIVE")
  /\ \E t \in Stamps(d) :
       dep' = [dep EXCEPT ![d] = Retried(@, dep[d].retries + 1, t)]
  /\ clock' = clock + 1
  /\ UNCHANGED generation

\* pause_automation (p) and resume_automation (~p)
SetPausedDB(d, p) ==
  /\ MayUpdate(d)
  /\ InFlight(d)
  /\ dep[d].paused # p
  /\ dep' = [dep EXCEPT ![d] = WithPaused(@, p)]
  /\ UNCHANGED <<generation, clock>>

UpdateDB(d) ==
  \/ PromoteDB(d)
  \/ RollbackDB(d)
  \/ AdvanceDB(d)
  \/ RecordInconclusiveDB(d)
  \/ \E p \in BOOLEAN : SetPausedDB(d, p)

NextDB ==
  \E d \in Deployments :
    \/ \E m \in Models, key \in Keys \cup {None}, w \in InitialWeights,
          paused \in BOOLEAN : CreateDB(d, m, key, w, paused)
    \/ UpdateDB(d)

SpecDB == InitDB /\ [][NextDB]_dbvars

-----------------------------------------------------------------------------
(***************************************************************************)
(* What the rest of the system relies on.                                  *)
(***************************************************************************)

\* The deployment whose allocation get_authoritative_allocation returns - what
\* the router syncs from and the reconciler enforces, picked by status, then by
\* wall-clock stamps - is always the one that was routed last, i.e. holds the
\* model's newest routing generation.  If a row with an older revision could be
\* picked, the reconciler would push it and the router would reject it for ever.
AuthoritativeIsNewest ==
  \A m \in Models, d \in Deployments :
    IsAuthoritative(d, m) => dep[d].rev = generation[m]

\* A model that was ever routed always has an authoritative allocation: there is
\* no moment at which a restarting router finds nothing to sync from.
AlwaysAuthoritative ==
  \A m \in Models :
    generation[m] > 0 => \E d \in Deployments : IsAuthoritative(d, m)

WeightWithNewRevision ==
  \A d, e \in Deployments :
    /\ dep'[d].rev # dep[d].rev \/ dep'[d].weight # dep[d].weight
    /\ dep[e].model = dep'[d].model
    => dep'[d].rev > dep[e].rev

\* An allocation that is written gets a revision above every revision the model
\* has used before, in any deployment: what makes the router's "not strictly
\* greater" test reject exactly the superseded pushes.
RevisionsOnlyGrow == [][WeightWithNewRevision]_dbvars

\* The inductive invariant behind them.  At most one row per model is in flight
\* (uq_deployments_active_per_model), only four statuses are ever committed, and
\* the rows of a model form a chain: every row but the latest ended before the
\* next one was created, with a smaller revision, and one of them holds the
\* model's generation.
OneInFlight ==
  \A d, e \in Deployments :
    InFlight(d) /\ InFlight(e) /\ dep[d].model = dep[e].model => d = e

DURABLE_STATUSES == {"CANARY_RUNNING", "INCONCLUSIVE", "PROMOTED", "ROLLED_BACK"}

RowsWellFormed ==
  \A d \in Deployments :
    /\ dep[d].status \in DURABLE_STATUSES \cup {"ABSENT"}
    /\ ~Exists(d) => dep[d] = NoRow
    /\ Exists(d) =>
         /\ dep[d].model \in Models
         /\ dep[d].created < clock
         /\ dep[d].rev \in 1..generation[dep[d].model]
         /\ dep[d].status \in TERMINAL_STATUSES =>
              dep[d].completed \in (dep[d].created + 1)..(clock - 1)

SameModel(d, e) == d # e /\ Exists(d) /\ Exists(e) /\ dep[d].model = dep[e].model

RowsChained ==
  \A d, e \in Deployments : SameModel(d, e) =>
    /\ dep[d].created # dep[e].created
    /\ dep[d].created < dep[e].created =>
         /\ dep[d].status \in TERMINAL_STATUSES
         /\ dep[d].completed < dep[e].created
         /\ dep[d].rev < dep[e].rev

NewestExists ==
  \A m \in Models : generation[m] > 0 =>
    \E d \in Deployments : dep[d].model = m /\ dep[d].rev = generation[m]

KeysUnique ==
  \A d, e \in Deployments :
    dep[d].key = dep[e].key /\ dep[d].key # None => d = e

\* What clients retry and race on: however two creates interleave, a model never has
\* two rollouts in flight and an idempotency key never names two deployments.
UniqueRows == OneInFlight /\ KeysUnique

LedgerInv ==
  TypeOKDB /\ OneInFlight /\ RowsWellFormed /\ RowsChained /\ NewestExists /\ KeysUnique
=============================================================================
