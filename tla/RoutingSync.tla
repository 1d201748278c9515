---------------------------- MODULE RoutingSync ----------------------------
(***************************************************************************)
(* How the router follows the desired routing: the best-effort push after  *)
(* every commit (service._push_best_effort), the reconcile tick that the   *)
(* worker triggers (reconcile.py), the router's put_config with its        *)
(* revision test, and the router's start (main.py, lifespan).              *)
(*                                                                         *)
(* Control-plane requests that talk to the router are Calls: a call is a   *)
(* handler pushing what it committed, or a reconcile tick.  The message of *)
(* a call outlives the call when the client gives up on it (a timeout, a   *)
(* restart of the control plane): it can still reach the router later.     *)
(* The router serves a PUT on a threadpool, where the revision test and    *)
(* the store.set are separate steps.  The configuration it holds is lost   *)
(* when it restarts; it then fetches the desired allocation once, before   *)
(* it serves its first request.                                            *)
(***************************************************************************)
EXTENDS DesiredRouting, FiniteSets

CONSTANTS Calls,          \* requests to the router that exist at the same time
          BootModel,      \* settings.model_name
          BootWeight,     \* canary share of settings.initial_targets
          Unroutable,     \* deployments of a version missing in version_hosts
          RouterThreads,  \* bound: put_config calls that run at the same time
          MaxCommits,     \* bound: commits that route a model
          MaxFaults       \* bound: lost messages, timeouts, crashes

ASSUME BootAssumption == BootModel \in Models /\ BootWeight \in 0..100
ASSUME CallsAssumption == IsFiniteSet(Calls)
ASSUME FaultsAssumption == MaxFaults \in Nat

VARIABLES router,       \* how far the process has got: RouterStates
          cfg,          \* RouterConfigStore: the allocation the router applies
          call,         \* the calls in progress
          unreachable,  \* deployments whose last reachability event says so
          faults,       \* bound counter
          log           \* history: every allocation ever committed

syncvars == <<router, cfg, call, unreachable, faults, log>>
vars == <<desired, past, syncvars>>

(***************************************************************************)
(* A call, and the message it sends:                                       *)
(*   seen      a tick has read the router's configuration into alloc       *)
(*   sent      alloc is on its way to the router                           *)
(*   checked   put_config has accepted it and not stored it yet            *)
(*   ok, stale (409), rejected (400), failed: the answer is there          *)
(* waiting: the request that made the call still awaits the answer.        *)
(***************************************************************************)
Answers == {"ok", "stale", "rejected", "failed"}

\* Requests are served from "up" on; "synced" has asked the control plane already.
RouterStates == {"down", "booting", "synced", "up"}

Call == [st: {"free", "seen", "sent", "checked"} \cup Answers,
         by: {"handler", "tick"}, alloc: Allocation, waiting: BOOLEAN]

NoCall == [st |-> "free", by |-> "handler", alloc |-> NoAllocation(BootModel),
           waiting |-> FALSE]

BootConfig == [model |-> BootModel, d |-> None, rev |-> 0, weight |-> BootWeight]

TypeOK ==
  /\ DesiredTypeOK
  /\ router \in RouterStates
  /\ cfg \in Allocation
  /\ call \in [Calls -> Call]
  /\ unreachable \subseteq Deployments
  /\ faults \in 0..MaxFaults
  /\ log \subseteq Allocation

Init ==
  /\ DesiredInit
  /\ router = "down"
  /\ cfg = BootConfig
  /\ call = [c \in Calls |-> NoCall]
  /\ unreachable = {}
  /\ faults = 0
  /\ log = {}

-----------------------------------------------------------------------------
Free(c) == call' = [call EXCEPT ![c] = NoCall]

\* push_traffic_allocation: the PUT leaves.
Send(c, by, alloc) ==
  call' = [call EXCEPT ![c] = [st |-> "sent", by |-> by, alloc |-> alloc,
                               waiting |-> TRUE]]

\* The answer reaches the call, or nobody.
Answer(c, st) ==
  call' = [call EXCEPT ![c] = IF @.waiting THEN [@ EXCEPT !.st = st] ELSE NoCall]

\* record_router_reachability_change, from the deployment's last such event
Record(d, reachable) ==
  unreachable' = IF reachable THEN unreachable \ {d} ELSE unreachable \cup {d}

Fault == faults < MaxFaults /\ faults' = faults + 1

-----------------------------------------------------------------------------
(***************************************************************************)
(* The control plane.                                                      *)
(***************************************************************************)
\* Mutant: pushed first, and then the commit may still lose its race.
PushAndCommit(c, m, d, w) ==
  /\ call[c].st = "free"
  /\ Cardinality(log) < MaxCommits
  /\ Send(c, "handler", [model |-> m, d |-> d, rev |-> desired[m].rev + 1, weight |-> w])
  /\ \/ Route(m, d, w) /\ log' = log \cup {desired'[m]}
     \/ UNCHANGED <<desired, past, log>>
  /\ UNCHANGED <<router, cfg, unreachable, faults>>

\* create, promote, rollback, advance: the commit, then the push of what was
\* committed.  (A handler that dies in between is ControlPlaneCrash and Lose.)
CommitAndPush(c, m, d, w) ==
  /\ call[c].st = "free"
  /\ Cardinality(log) < MaxCommits
  /\ Route(m, d, w)
  /\ Send(c, "handler", desired'[m])
  /\ log' = log \cup {desired'[m]}
  /\ UNCHANGED <<router, cfg, unreachable, faults>>

\* _push_best_effort has its answer.
HandlerDone(c) ==
  /\ call[c].st \in Answers
  /\ call[c].by = "handler"
  /\ Record(call[c].alloc.d, call[c].st \in {"ok", "stale"})
  /\ Free(c)
  /\ UNCHANGED <<desired, past, router, cfg, faults, log>>

\* reconcile_router_state: the GET
TickGet(c) ==
  /\ call[c].st = "free"
  /\ router = "up"
  /\ call' = [call EXCEPT ![c] = [st |-> "seen", by |-> "tick", alloc |-> cfg,
                                  waiting |-> TRUE]]
  /\ UNCHANGED <<desired, past, router, cfg, unreachable, faults, log>>

\* Mutants: models without an allocation are not left out; none is marked.
AllAuthoritativeUnchecked == {desired[m].d : m \in Models}
NoneAuthoritative == {}

\* The deployments whose allocation the router should be applying.
AllAuthoritative == {desired[m].d : m \in {n \in Models : desired[n].rev > 0}}

\* The GET fails, because the router is not there or because it timed out: every
\* authoritative deployment is marked.
TickGetFails ==
  /\ \/ router # "up" /\ UNCHANGED faults
     \/ router = "up" /\ Fault
  /\ unreachable' = unreachable \cup AllAuthoritative
  /\ UNCHANGED <<desired, past, router, cfg, call, log>>

\* Mutant: only the deployment is compared.
SameDeployment(observed, alloc) == observed.d = alloc.d

\* The comparison with the desired allocation of the model the router reported.
InSync(observed, alloc) == observed.d = alloc.d /\ observed.rev = alloc.rev

\* Mutant: recovery is only recorded when there is drift to correct.
TickDecideQuietly(c) ==
  /\ call[c].st = "seen"
  /\ LET alloc == desired[call[c].alloc.model] IN
       IF alloc.rev = 0 \/ InSync(call[c].alloc, alloc)
       THEN Free(c) /\ UNCHANGED unreachable
       ELSE Record(alloc.d, TRUE) /\ Send(c, "tick", alloc)
  /\ UNCHANGED <<desired, past, router, cfg, faults, log>>

TickDecide(c) ==
  /\ call[c].st = "seen"
  /\ LET alloc == desired[call[c].alloc.model] IN
       IF alloc.rev = 0
       THEN Free(c) /\ UNCHANGED unreachable
       ELSE /\ Record(alloc.d, TRUE)
            /\ IF InSync(call[c].alloc, alloc) THEN Free(c) ELSE Send(c, "tick", alloc)
  /\ UNCHANGED <<desired, past, router, cfg, faults, log>>

TickDone(c) ==
  /\ call[c].st \in Answers
  /\ call[c].by = "tick"
  /\ IF call[c].st \in {"rejected", "failed"}
     THEN Record(call[c].alloc.d, FALSE)
     ELSE UNCHANGED unreachable
  /\ Free(c)
  /\ UNCHANGED <<desired, past, router, cfg, faults, log>>

\* Every request dies with the process; what was sent stays on its way.
ControlPlaneCrash ==
  /\ Fault
  /\ call' = [c \in Calls |->
       IF call[c].st \in {"sent", "checked"} THEN [call[c] EXCEPT !.waiting = FALSE]
       ELSE NoCall]
  /\ UNCHANGED <<desired, past, router, cfg, unreachable, log>>

-----------------------------------------------------------------------------
(***************************************************************************)
(* The network: the connection fails, or the client's timeout expires.     *)
(***************************************************************************)
Lose(c) ==
  /\ call[c].st = "sent"
  /\ \/ router # "up" /\ UNCHANGED faults
     \/ router = "up" /\ Fault
  /\ Answer(c, "failed")
  /\ UNCHANGED <<desired, past, router, cfg, unreachable, log>>

\* httpx.ReadTimeout: the call fails, and its message lives on without it.
TimeOut(c) ==
  /\ call[c].st \in {"sent", "checked"}
  /\ call[c].waiting
  /\ Fault
  /\ Record(call[c].alloc.d, FALSE)
  /\ call' = [call EXCEPT ![c].waiting = FALSE]
  /\ UNCHANGED <<desired, past, router, cfg, log>>

-----------------------------------------------------------------------------
(***************************************************************************)
(* The router.                                                             *)
(***************************************************************************)
\* The stale-revision test of put_config
NotNewer(alloc) == alloc.model = cfg.model /\ alloc.rev <= cfg.rev

PutCheck(c) ==
  /\ router = "up"
  /\ call[c].st = "sent"
  /\ Cardinality({b \in Calls : call[b].st = "checked"}) < RouterThreads
  /\ CASE call[c].alloc.d \in Unroutable -> Answer(c, "rejected")
       [] call[c].alloc.d \notin Unroutable /\ NotNewer(call[c].alloc) -> Answer(c, "stale")
       [] OTHER -> call' = [call EXCEPT ![c].st = "checked"]
  /\ UNCHANGED <<desired, past, router, cfg, unreachable, faults, log>>

\* store.set
PutSet(c) ==
  /\ call[c].st = "checked"
  /\ cfg' = call[c].alloc
  /\ Answer(c, "ok")
  /\ UNCHANGED <<desired, past, router, unreachable, faults, log>>

\* The configuration and the requests being served are lost.  (A process that dies
\* before it serves has only taken longer to start.)
RouterCrash ==
  /\ router = "up"
  /\ Fault
  /\ router' = "down"
  /\ cfg' = BootConfig
  /\ call' = [c \in Calls |->
       IF call[c].st # "checked" THEN call[c]
       ELSE IF call[c].waiting THEN [call[c] EXCEPT !.st = "failed"]
       ELSE NoCall]
  /\ UNCHANGED <<desired, past, unreachable, log>>

RouterStart ==
  /\ router = "down"
  /\ router' = "booting"
  /\ UNCHANGED <<desired, past, cfg, call, unreachable, faults, log>>

\* What get_router_config returns of an allocation: no revision.
SyncedConfig(alloc) == [alloc EXCEPT !.rev = 0]

\* _fetch_control_plane_allocation.  It fails, or there is no allocation yet, and
\* the boot configuration stays.
RouterSync ==
  /\ router = "booting"
  /\ router' = "synced"
  /\ \/ cfg' = cfg
     \/ desired[BootModel].rev > 0 /\ cfg' = SyncedConfig(desired[BootModel])
  /\ UNCHANGED <<desired, past, call, unreachable, faults, log>>

\* lifespan yields: what was committed since the fetch has not reached the router.
RouterReady ==
  /\ router = "synced"
  /\ router' = "up"
  /\ UNCHANGED <<desired, past, cfg, call, unreachable, faults, log>>

-----------------------------------------------------------------------------
CallStep(c) ==
  \/ \E m \in Models, d \in Deployments, w \in Weights : CommitAndPush(c, m, d, w)
  \/ HandlerDone(c)
  \/ TickGet(c)
  \/ TickDecide(c)
  \/ TickDone(c)
  \/ Lose(c)
  \/ TimeOut(c)
  \/ PutCheck(c)
  \/ PutSet(c)

Next ==
  \/ \E c \in Calls : CallStep(c)
  \/ TickGetFails
  \/ ControlPlaneCrash
  \/ RouterCrash
  \/ RouterStart
  \/ RouterSync
  \/ RouterReady

Spec == Init /\ [][Next]_vars

(***************************************************************************)
(* The worker loops for ever and catches every exception, so ticks keep    *)
(* coming (run_forever); a request that was sent is answered, or fails     *)
(* while the router is away; a handler resumes when its answer is there.   *)
(* Nothing restarts a router or keeps it up: RouterStart is not fair.      *)
(***************************************************************************)
OnItsOwn(c) ==
  \/ TickDecide(c)
  \/ TickDone(c)
  \/ HandlerDone(c)
  \/ router # "up" /\ Lose(c)
  \/ PutCheck(c)
  \/ PutSet(c)

\* A call is at one point at a time: fair to all of its steps, fair to each.
Fairness ==
  /\ WF_vars((\E c \in Calls : TickGet(c)) \/ (router # "up" /\ TickGetFails))
  /\ \A c \in Calls : WF_vars(OnItsOwn(c))

FairSpec == Spec /\ Fairness

-----------------------------------------------------------------------------
(***************************************************************************)
(* Properties.                                                             *)
(***************************************************************************)

\* The router never applies a split that was not committed, and never pairs a
\* deployment or a revision with another's weights: so "same deployment, same
\* revision", all the reconciler compares, means the same split.
RouterServesCommitted ==
  cfg.d # None => \E a \in log : cfg \in {a, SyncedConfig(a)}

\* No tick finds nothing to correct unless the split it read, every weight of it, is
\* the one that is desired by then: two fields are compared, InSync, and they are enough.
NoDriftMissed ==
  \A c \in Calls :
    LET seen == call[c].alloc
        alloc == desired[seen.model]
    IN  call[c].st = "seen" /\ alloc.rev > 0 /\ InSync(seen, alloc) => seen = alloc

\* models.py, of TrafficAllocation.revision: the router rejects a push for the same
\* model whose revision is not strictly greater than what it already has.  So from
\* one moment it is up to the next, its revision of a model never decreases.
RevisionNeverGoesBack ==
  [][router = "up" /\ router' = "up" /\ cfg'.model = cfg.model
       => cfg'.rev >= cfg.rev]_vars

\* The deployment the router attributes its metrics to is never replaced by a
\* deployment that had been superseded before: a push of an ended rollout that
\* arrives late does not bring that rollout's traffic back.
NoResurrection ==
  [][router = "up" /\ router' = "up" /\ cfg.d # None /\ cfg'.d # cfg.d =>
       \E a \in log : a.d = cfg'.d /\ \A b \in log : b.d = cfg.d => a.rev > b.rev]_vars

\* What the router should be applying of the model it serves, when it can.
Due == desired[cfg.model].rev > 0 /\ desired[cfg.model].d \notin Unroutable

\* Once the router stays up, it ends up applying the desired allocation of the model
\* it serves, whichever of two PUTs was stored last.
Converges == <>[](router = "up") => <>[](Due => cfg = desired[cfg.model])

\* An outage that lasts is on the record of every deployment it affects, and one
\* that is over is taken back from the one the router serves.
OutageVisible ==
  <>[](router # "up") =>
    <>[](\A m \in Models : desired[m].rev > 0 => desired[m].d \in unreachable)

RecoveryVisible ==
  <>[](router = "up") => <>[](Due => desired[cfg.model].d \notin unreachable)
=============================================================================
