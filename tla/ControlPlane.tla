---------------------------- MODULE ControlPlane ----------------------------
(***************************************************************************)
(* The control plane's request handlers as they run: every request has a   *)
(* database session of its own, reads rows in one or more SELECTs, decides *)
(* in memory, and writes everything in one commit.  Between those steps    *)
(* other sessions commit (threadpool handlers against the event loop,      *)
(* several server processes, or two sessions as in test_concurrency.py).   *)
(* What keeps this correct is the version_id column and the two unique     *)
(* constraints on deployments; generation has no version of its own.       *)
(*                                                                         *)
(* A request that is answered without writing (404, 409 from a guard, an   *)
(* idempotent no-op) changes nothing, so it only ends its session here.    *)
(* The router push that follows a commit is RoutingSync's.                 *)
(***************************************************************************)
EXTENDS Rollouts

CONSTANT Sessions  \* requests that are in progress at the same time

ASSUME NoneIsNoDeployment == None \notin Deployments

VARIABLE sess

vars == <<dep, generation, clock, sess>>

UpdateOps == {"promote", "rollback", "advance", "inconclusive", "pause", "resume"}

(***************************************************************************)
(* sess[s]: op and d say what the request does to which row; row is the    *)
(* Deployment object of the session (its weight is valid once the          *)
(* allocation was loaded), gen the RoutingGeneration it read, stamp the    *)
(* completed_at it will write; row also carries the body of a create.      *)
(***************************************************************************)
Session == [pc: {"idle", "keyed", "insert", "row", "weight", "commit"},
            op: UpdateOps \cup {"create", "none"},
            d: Deployments \cup {None}, row: Row, gen: Nat, stamp: Nat]

Idle == [pc |-> "idle", op |-> "none", d |-> None, row |-> NoRow,
         gen |-> 0, stamp |-> 0]

TypeOK == TypeOKDB /\ sess \in [Sessions -> Session]

Init == InitDB /\ sess = [s \in Sessions |-> Idle]

EndRequest(s) == sess' = [sess EXCEPT ![s] = Idle]

-----------------------------------------------------------------------------
(***************************************************************************)
(* POST /api/deployments                                                   *)
(***************************************************************************)
\* find_by_idempotency_key found nothing; a hit returns that row unchanged.
LookupKey(s, m, key, w, paused) ==
  /\ sess[s].pc = "idle"
  /\ ~KeyTaken(key)
  /\ sess' = [sess EXCEPT ![s] =
       [Idle EXCEPT !.pc = "keyed", !.op = "create",
                    !.row = [NoRow EXCEPT !.model = m, !.key = key,
                                          !.weight = w, !.paused = paused]]]
  /\ UNCHANGED dbvars

\* The check-then-act pre-check: get_active_deployment
PreCheck(s) ==
  /\ sess[s].pc = "keyed"
  /\ IF HasActive(sess[s].row.model)
     THEN EndRequest(s)
     ELSE sess' = [sess EXCEPT ![s].pc = "insert"]
  /\ UNCHANGED dbvars

\* flush() takes the write lock, so the INSERT, the generation it reads and the
\* commit are one step.  An IntegrityError, whichever constraint it names, writes
\* nothing.
InsertAndCommit(s) ==
  /\ sess[s].pc = "insert"
  /\ LET r == sess[s].row IN
       IF MayInsert(r.model, r.key)
       THEN \E d \in Deployments : CreateDB(d, r.model, r.key, r.weight, r.paused)
       ELSE UNCHANGED dbvars
  /\ EndRequest(s)

-----------------------------------------------------------------------------
(***************************************************************************)
(* POST /api/deployments/{d}/...                                           *)
(***************************************************************************)
\* The guard each handler evaluates on the row alone, as soon as it has it.
Accepts(op, r) ==
  CASE op = "promote"  -> CanFinish(r.status, "PROMOTING", "PROMOTED")
    [] op = "rollback" -> CanFinish(r.status, "ROLLING_BACK", "ROLLED_BACK")
    [] op = "pause"    -> r.status \notin TERMINAL_STATUSES /\ ~r.paused
    [] op = "resume"   -> r.status \notin TERMINAL_STATUSES /\ r.paused
    [] OTHER           -> r.status \in ACTIVE_STATUSES

\* get_deployment(d), then the guard.
ReadRow(s, op, d) ==
  /\ sess[s].pc = "idle"
  /\ Exists(d)
  /\ Accepts(op, dep[d])
  /\ sess' = [sess EXCEPT ![s] =
       [Idle EXCEPT !.op = op, !.d = d, !.row = dep[d], !.stamp = clock,
          !.pc = IF op \in {"inconclusive", "pause", "resume"} THEN "commit" ELSE "row"]]
  /\ UNCHANGED dbvars

\* advance_traffic lazily loads the allocation: a SELECT of its own.
ReadWeight(s) ==
  /\ sess[s].pc = "row"
  /\ sess[s].op = "advance"
  /\ LET w == dep[sess[s].d].weight IN
       IF AtFinalStage(w)
       THEN EndRequest(s)
       ELSE sess' = [sess EXCEPT ![s].row.weight = w, ![s].pc = "weight"]
  /\ UNCHANGED dbvars

\* _next_routing_generation reads the counter; completed_at is stamped after it.
ReadGeneration(s) ==
  /\ \/ sess[s].pc = "weight"
     \/ sess[s].pc = "row" /\ sess[s].op # "advance"
  /\ sess' = [sess EXCEPT ![s].gen = generation[sess[s].row.model],
                          ![s].stamp = clock, ![s].pc = "commit"]
  /\ UNCHANGED dbvars

\* Mutant: no version_id_col.
VersionMatchesMutant(s) == TRUE

\* UPDATE deployments ... WHERE version_id = <as read> matches a row.
VersionMatches(s) == dep[sess[s].d].version = sess[s].row.version

\* The UPDATE of the row and its allocation: values computed from what was read.
WriteRow(s) ==
  LET r == sess[s].row
      g == sess[s].gen + 1
      t == sess[s].stamp
      write(base) ==
        CASE sess[s].op = "promote"      -> Finished(base, "PROMOTED", 100, g, t)
          [] sess[s].op = "rollback"     -> Finished(base, "ROLLED_BACK", 0, g, t)
          [] sess[s].op = "advance"      -> Advanced(base, NextStage(r.weight), g)
          [] sess[s].op = "inconclusive" -> Retried(base, r.retries + 1, t)
          [] OTHER                       -> WithPaused(base, sess[s].op = "pause")
  IN dep' = [dep EXCEPT ![sess[s].d] = write(@)]

\* The counter's UPDATE is blind: it writes what was read plus one.
WriteGeneration(s) ==
  generation' = IF sess[s].op \in {"promote", "rollback", "advance"}
                THEN [generation EXCEPT ![sess[s].row.model] = sess[s].gen + 1]
                ELSE generation

\* _commit: all of it, or ConcurrentUpdateError and none of it.
Commit(s) ==
  /\ sess[s].pc = "commit"
  /\ IF VersionMatches(s)
     THEN /\ dep[sess[s].d].version < MaxVersion
          /\ WriteRow(s)
          /\ WriteGeneration(s)
          /\ clock' = IF sess[s].op \in {"promote", "rollback", "inconclusive"}
                      THEN clock + 1 ELSE clock
     ELSE UNCHANGED dbvars
  /\ EndRequest(s)

-----------------------------------------------------------------------------
\* The request dies before its commit ("database is locked", a dropped worker);
\* its transaction is rolled back.
Abort(s) ==
  /\ sess[s].pc # "idle"
  /\ EndRequest(s)
  /\ UNCHANGED dbvars

\* The process restarts: every session is lost at once.
Crash ==
  /\ \E s \in Sessions : sess[s].pc # "idle"
  /\ sess' = [s \in Sessions |-> Idle]
  /\ UNCHANGED dbvars

SessionStep(s) ==
  \/ \E m \in Models, key \in Keys \cup {None}, w \in InitialWeights,
        paused \in BOOLEAN : LookupKey(s, m, key, w, paused)
  \/ PreCheck(s)
  \/ InsertAndCommit(s)
  \/ \E op \in UpdateOps, d \in Deployments : ReadRow(s, op, d)
  \/ ReadWeight(s)
  \/ ReadGeneration(s)
  \/ Commit(s)
  \/ Abort(s)

Next == (\E s \in Sessions : SessionStep(s)) \/ Crash

Spec == Init /\ [][Next]_vars

-----------------------------------------------------------------------------
(***************************************************************************)
(* Properties.                                                             *)
(***************************************************************************)

\* Optimistic locking does its job: the interleaved handlers only ever change
\* the database the way the atomic operations of Rollouts do, so no update is
\* lost and every decision was made on the state it was applied to.
Serializable == SpecDB

\* Why: a session whose version still matches holds the current row, the current
\* weight and the current generation, although the last two were read later and
\* carry no version.  The claim of _next_routing_generation that nothing else
\* bumps the counter concurrently is the gen conjunct.
FreshSnapshot ==
  \A s \in Sessions : sess[s].op \in UpdateOps /\ VersionMatches(s) =>
    LET r == sess[s].row
        c == dep[sess[s].d]
    IN /\ r = [c EXCEPT !.weight = r.weight]
       /\ sess[s].pc = "weight" \/ (sess[s].pc = "commit" /\ sess[s].op = "advance")
            => r.weight = c.weight
       /\ sess[s].pc = "commit" /\ sess[s].op \in {"promote", "rollback", "advance"}
            => sess[s].gen = generation[r.model]

\* What a session has established on its way through its handler.
SessionInv ==
  \A s \in Sessions : LET r == sess[s].row IN
    /\ sess[s].op = "none" => sess[s].pc = "idle"
    /\ sess[s].op = "create" =>
         /\ sess[s].pc \in {"keyed", "insert"}
         /\ r.model \in Models /\ r.weight \in InitialWeights
    /\ sess[s].op \in UpdateOps =>
         /\ sess[s].pc \in {"row", "weight", "commit"}
         /\ sess[s].pc = "row" => sess[s].op \in {"promote", "rollback", "advance"}
         /\ sess[s].pc = "weight" => sess[s].op = "advance"
         /\ sess[s].d \in Deployments /\ Exists(sess[s].d)
         /\ r.model \in Models
         /\ Accepts(sess[s].op, r)
         /\ r.version <= dep[sess[s].d].version
         /\ sess[s].stamp \in (r.created + 1)..clock
         /\ sess[s].pc # "row" /\ sess[s].op = "advance" => ~AtFinalStage(r.weight)

\* The inductive invariant of the handlers.
Inv == LedgerInv /\ TypeOK /\ SessionInv /\ FreshSnapshot

EndedRowsKept ==
  \A d \in Deployments : dep[d].status \in TERMINAL_STATUSES => dep'[d] = dep[d]

\* A rollout that has ended stays exactly as it ended: a pause, a retry count, an
\* advance or a second decision that read the row before cannot touch it after.
TerminalRowsFrozen == [][EndedRowsKept]_vars

OneStageOrTheEnd ==
  \A d \in Deployments :
    Exists(d) /\ dep'[d].weight # dep[d].weight =>
      \/ dep'[d].status = "PROMOTED" /\ dep'[d].weight = 100
      \/ dep'[d].status = "ROLLED_BACK" /\ dep'[d].weight = 0
      \/ /\ dep'[d].status = dep[d].status
         /\ ~AtFinalStage(dep[d].weight)
         /\ dep'[d].weight = NextStage(dep[d].weight)

\* While a rollout runs, its canary weight climbs the stages one at a time from
\* the committed weight: two concurrent advances never skip or repeat a stage,
\* and the weight leaves the ramp only to 100 by promotion or 0 by rollback.
StageByStage == [][OneStageOrTheEnd]_vars
=============================================================================
