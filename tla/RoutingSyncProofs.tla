------------------------- MODULE RoutingSyncProofs -------------------------
(***************************************************************************)
(* What the router applies, proved for any number of models, deployments,  *)
(* calls, lost messages and restarts.                                      *)
(***************************************************************************)
EXTENDS RoutingSync, TLAPS

OnItsWay(c) == call[c].st \in {"sent", "checked"}

\* Whatever can still reach the router was committed, and so is what it would be
\* given when it starts.
CommittedInv ==
  /\ call \in [Calls -> Call]
  /\ desired \in [Models -> Allocation]
  /\ \A m \in Models : desired[m].rev > 0 => desired[m] \in log
  /\ \A c \in Calls : OnItsWay(c) => call[c].alloc \in log
  /\ cfg \in Allocation

\* The first state: nothing is committed, nothing is on its way.
LEMMA CommittedInit == Init => CommittedInv /\ RouterServesCommitted
BY BootAssumption
   DEF Init, DesiredInit, CommittedInv, RouterServesCommitted, NoCall, Call, BootConfig,
       Allocation, NoAllocation, OnItsWay

\* A new allocation is committed before it is sent.
LEMMA RouteFacts ==
  ASSUME CommittedInv, NEW m \in Models, NEW d \in Deployments, NEW w \in Weights,
         Route(m, d, w)
  PROVE  /\ desired' \in [Models -> Allocation]
         /\ desired'[m].rev = desired[m].rev + 1
         /\ \A n \in Models : n # m => desired'[n] = desired[n]
BY WeightsAreShares DEF CommittedInv, Route, Allocation

\* An answer, or an answer nobody waits for, puts nothing on its way.
LEMMA AnswerFacts ==
  ASSUME call \in [Calls -> Call], NEW c \in Calls, NEW st \in Answers, Answer(c, st)
  PROVE  /\ call' \in [Calls -> Call]
         /\ ~OnItsWay(c)'
         /\ \A b \in Calls : b # c => call'[b] = call[b]
<1>1. NoCall \in Call /\ NoCall.st = "free"
  BY BootAssumption DEF NoCall, Call, NoAllocation, Allocation
<1>2. CASE call[c].waiting
  BY <1>2 DEF Answer, Answers, Call, OnItsWay
<1>3. CASE ~call[c].waiting
  BY <1>1, <1>3 DEF Answer, Answers, OnItsWay
<1> QED BY <1>2, <1>3

LEMMA FreeFacts ==
  ASSUME call \in [Calls -> Call], NEW c \in Calls, Free(c)
  PROVE  /\ call' \in [Calls -> Call]
         /\ ~OnItsWay(c)'
         /\ \A b \in Calls : b # c => call'[b] = call[b]
BY BootAssumption DEF Free, NoCall, Call, NoAllocation, Allocation, OnItsWay

LEMMA SendFacts ==
  ASSUME call \in [Calls -> Call], NEW c \in Calls, NEW by \in {"handler", "tick"},
         NEW alloc \in Allocation, Send(c, by, alloc)
  PROVE  /\ call' \in [Calls -> Call]
         /\ call'[c].alloc = alloc /\ call'[c].st = "sent"
         /\ \A b \in Calls : b # c => call'[b] = call[b]
BY DEF Send, Call

\* A step that puts nothing new on its way, and leaves the router's configuration
\* and what is desired alone.
LEMMA QuietStep ==
  ASSUME CommittedInv, RouterServesCommitted, UNCHANGED <<desired, cfg, log>>,
         call' \in [Calls -> Call],
         \A c \in Calls : OnItsWay(c)' =>
           OnItsWay(c) /\ call'[c].alloc = call[c].alloc
  PROVE  CommittedInv' /\ RouterServesCommitted'
BY DEF CommittedInv, RouterServesCommitted, SyncedConfig

LEMMA CommittedStep ==
  CommittedInv /\ RouterServesCommitted /\ [Next]_vars
    => CommittedInv' /\ RouterServesCommitted'
<1> SUFFICES ASSUME CommittedInv, RouterServesCommitted, [Next]_vars
             PROVE  CommittedInv' /\ RouterServesCommitted'
  OBVIOUS
<1> USE DEF CommittedInv
<1>1. ASSUME NEW c \in Calls, NEW m \in Models, NEW d \in Deployments,
             NEW w \in Weights, CommitAndPush(c, m, d, w)
      PROVE  CommittedInv' /\ RouterServesCommitted'
  <2>1. /\ Route(m, d, w) /\ Send(c, "handler", desired'[m])
        /\ log' = log \cup {desired'[m]} /\ cfg' = cfg
    BY <1>1 DEF CommitAndPush
  <2>2. desired' \in [Models -> Allocation]
        /\ \A n \in Models : n # m => desired'[n] = desired[n]
    BY <2>1, RouteFacts
  <2>3. /\ call' \in [Calls -> Call]
        /\ call'[c].alloc = desired'[m] /\ call'[c].st = "sent"
        /\ \A b \in Calls : b # c => call'[b] = call[b]
    BY <2>1, <2>2, SendFacts
  <2>4. CommittedInv'
    BY <2>1, <2>2, <2>3 DEF OnItsWay
  <2> QED BY <2>1, <2>4 DEF RouterServesCommitted, SyncedConfig
<1>2. ASSUME NEW c \in Calls, HandlerDone(c) \/ TickDone(c)
      PROVE  CommittedInv' /\ RouterServesCommitted'
  BY <1>2, FreeFacts, QuietStep DEF HandlerDone, TickDone, OnItsWay
<1>3. ASSUME NEW c \in Calls, TickGet(c)
      PROVE  CommittedInv' /\ RouterServesCommitted'
  BY <1>3, QuietStep DEF TickGet, OnItsWay, Call
<1>4. ASSUME NEW c \in Calls, TickDecide(c)
      PROVE  CommittedInv' /\ RouterServesCommitted'
  <2> DEFINE alloc == desired[call[c].alloc.model]
  <2>1. call[c].alloc.model \in Models /\ alloc \in Allocation /\ alloc.rev \in Nat
    BY DEF Call, Allocation
  <2>2. CASE Free(c)
    BY <1>4, <2>2, FreeFacts, QuietStep DEF TickDecide, OnItsWay
  <2>3. CASE alloc.rev # 0 /\ Send(c, "tick", alloc)
    <3>1. alloc \in log
      BY <2>1, <2>3
    <3> HIDE DEF alloc
    <3>2. /\ call' \in [Calls -> Call] /\ call'[c].alloc = alloc
          /\ \A b \in Calls : b # c => call'[b] = call[b]
      BY <2>1, <2>3, SendFacts
    <3> QED BY <1>4, <3>1, <3>2
            DEF TickDecide, OnItsWay, RouterServesCommitted, SyncedConfig
  <2> QED BY <1>4, <2>2, <2>3 DEF TickDecide
<1>5. ASSUME NEW c \in Calls, Lose(c)
      PROVE  CommittedInv' /\ RouterServesCommitted'
  BY <1>5, AnswerFacts, QuietStep DEF Lose, Answers, OnItsWay
<1>6. ASSUME NEW c \in Calls, TimeOut(c)
      PROVE  CommittedInv' /\ RouterServesCommitted'
  BY <1>6, QuietStep DEF TimeOut, OnItsWay, Call
<1>7. ASSUME NEW c \in Calls, PutCheck(c)
      PROVE  CommittedInv' /\ RouterServesCommitted'
  <2>1. CASE Answer(c, "rejected") \/ Answer(c, "stale")
    BY <1>7, <2>1, AnswerFacts, QuietStep DEF PutCheck, Answers, OnItsWay
  <2>2. CASE call' = [call EXCEPT ![c].st = "checked"]
    BY <1>7, <2>2, QuietStep DEF PutCheck, OnItsWay, Call
  <2> QED BY <1>7, <2>1, <2>2 DEF PutCheck
<1>8. ASSUME NEW c \in Calls, PutSet(c)
      PROVE  CommittedInv' /\ RouterServesCommitted'
  <2>1. /\ call[c].alloc \in log /\ call[c].alloc \in Allocation
        /\ cfg' = call[c].alloc /\ UNCHANGED <<desired, log>>
    BY <1>8 DEF PutSet, OnItsWay, Call
  <2>2. /\ call' \in [Calls -> Call] /\ ~OnItsWay(c)'
        /\ \A b \in Calls : b # c => call'[b] = call[b]
    BY <1>8, AnswerFacts DEF PutSet, Answers
  <2> QED BY <2>1, <2>2 DEF OnItsWay, RouterServesCommitted, SyncedConfig
<1>9. CASE ControlPlaneCrash
  <2>1. NoCall \in Call /\ NoCall.st = "free"
    BY BootAssumption DEF NoCall, Call, NoAllocation, Allocation
  <2>2. call' \in [Calls -> Call]
    BY <1>9, <2>1 DEF ControlPlaneCrash, Call
  <2> QED BY <1>9, <2>1, <2>2, QuietStep DEF ControlPlaneCrash, OnItsWay, Call
<1>10. CASE RouterCrash
  <2>1. NoCall \in Call /\ NoCall.st = "free"
    BY BootAssumption DEF NoCall, Call, NoAllocation, Allocation
  <2>2. call' \in [Calls -> Call]
    BY <1>10, <2>1 DEF RouterCrash, Call, Answers
  <2>3. \A c \in Calls : OnItsWay(c)' => call[c].st = "sent" /\ call'[c] = call[c]
    BY <1>10, <2>1 DEF RouterCrash, OnItsWay, Call
  <2>4. cfg' \in Allocation /\ cfg'.d = None
    BY <1>10, BootAssumption DEF RouterCrash, BootConfig, Allocation
  <2> QED BY <1>10, <2>2, <2>3, <2>4 DEF RouterCrash, OnItsWay, RouterServesCommitted
<1>11. CASE RouterSync
  <2>1. CASE cfg' = cfg
    BY <1>11, <2>1, QuietStep DEF RouterSync, OnItsWay
  <2>2. CASE desired[BootModel].rev > 0 /\ cfg' = SyncedConfig(desired[BootModel])
    <3>1. desired[BootModel] \in log /\ desired[BootModel] \in Allocation
      BY <2>2, BootAssumption
    <3>2. cfg' \in Allocation
      BY <2>2, <3>1 DEF SyncedConfig, Allocation
    <3> QED BY <1>11, <2>2, <3>1, <3>2 DEF RouterSync, OnItsWay, RouterServesCommitted
  <2> QED BY <1>11, <2>1, <2>2 DEF RouterSync
<1>12. CASE TickGetFails \/ RouterStart \/ RouterReady \/ UNCHANGED vars
  BY <1>12, QuietStep DEF TickGetFails, RouterStart, RouterReady, vars, syncvars, OnItsWay
<1> QED BY <1>1, <1>2, <1>3, <1>4, <1>5, <1>6, <1>7, <1>8, <1>9, <1>10, <1>11, <1>12
           DEF Next, CallStep

\* The router only ever applies splits that were committed.
THEOREM RouterServesCommittedTheorem == Spec => []RouterServesCommitted
BY CommittedInit, CommittedStep, PTL DEF Spec

-----------------------------------------------------------------------------
\* What CommittedInv leaves of the types.  An event is recorded of the deployment
\* of a call, so every call past a tick's GET has to name one, and so has whatever
\* is authoritative.
TypeInv ==
  /\ past \in [Models -> SUBSET Deployments]
  /\ router \in RouterStates
  /\ unreachable \subseteq Deployments
  /\ faults \in 0..MaxFaults
  /\ log \subseteq Allocation
  /\ \A m \in Models : desired[m].rev > 0 => desired[m].d \in Deployments
  /\ \A c \in Calls : call[c].st \notin {"free", "seen"} => call[c].alloc.d \in Deployments

\* A step that changes no allocation of a call, past its GET, and not what is desired.
LEMMA TypeQuietStep ==
  ASSUME TypeInv, UNCHANGED <<desired, past, log>>,
         router' \in RouterStates, unreachable' \subseteq Deployments,
         faults' = faults \/ Fault,
         \A c \in Calls : call'[c].st \notin {"free", "seen"} =>
           call[c].st \notin {"free", "seen"} /\ call'[c].alloc = call[c].alloc
  PROVE  TypeInv'
<1>1. faults' \in 0..MaxFaults
  BY FaultsAssumption DEF TypeInv, Fault
<1> QED BY <1>1 DEF TypeInv

\* An answer leaves the allocation of the call alone.
LEMMA AnswerKeeps ==
  ASSUME call \in [Calls -> Call], NEW c \in Calls, NEW st, Answer(c, st),
         call[c].st \notin {"free", "seen"}
  PROVE  \A b \in Calls : call'[b].st \notin {"free", "seen"} =>
           call[b].st \notin {"free", "seen"} /\ call'[b].alloc = call[b].alloc
BY DEF Answer, NoCall, Call

LEMMA TypeStep ==
  CommittedInv /\ TypeInv /\ [Next]_vars => TypeInv'
<1> SUFFICES ASSUME CommittedInv, TypeInv, [Next]_vars
             PROVE  TypeInv'
  OBVIOUS
<1>0. /\ call \in [Calls -> Call] /\ desired \in [Models -> Allocation]
      /\ NoCall.st = "free"
  BY DEF CommittedInv, NoCall
<1>1. ASSUME NEW c \in Calls, NEW m \in Models, NEW d \in Deployments,
             NEW w \in Weights, CommitAndPush(c, m, d, w)
      PROVE  TypeInv'
  <2>1. /\ Route(m, d, w) /\ Send(c, "handler", desired'[m])
        /\ log' = log \cup {desired'[m]}
        /\ UNCHANGED <<router, cfg, unreachable, faults>>
    BY <1>1 DEF CommitAndPush
  <2>2. desired' \in [Models -> Allocation]
        /\ \A n \in Models : n # m => desired'[n] = desired[n]
    BY <2>1, RouteFacts
  <2>3. desired'[m].d = d /\ past' \in [Models -> SUBSET Deployments]
    BY <1>0, <2>1 DEF Route, TypeInv
  <2>4. /\ call'[c].alloc = desired'[m]
        /\ \A b \in Calls : b # c => call'[b] = call[b]
    BY <1>0, <2>1, <2>2, SendFacts
  <2> QED BY <2>1, <2>2, <2>3, <2>4 DEF TypeInv
<1>2. ASSUME NEW c \in Calls, HandlerDone(c) \/ TickDone(c)
      PROVE  TypeInv'
  <2>1. call[c].alloc.d \in Deployments
    BY <1>2 DEF TypeInv, HandlerDone, TickDone, Answers
  <2>2. unreachable' \subseteq Deployments
    BY <1>2, <2>1 DEF TypeInv, HandlerDone, TickDone, Record
  <2>3. \A b \in Calls : call'[b].st \notin {"free", "seen"} => call'[b] = call[b]
    BY <1>0, <1>2 DEF HandlerDone, TickDone, Free
  <2> QED BY <1>2, <2>2, <2>3, TypeQuietStep DEF HandlerDone, TickDone, TypeInv
<1>3. ASSUME NEW c \in Calls, TickGet(c)
      PROVE  TypeInv'
  <2>1. \A b \in Calls : call'[b].st \notin {"free", "seen"} => call'[b] = call[b]
    BY <1>0, <1>3 DEF TickGet
  <2> QED BY <1>3, <2>1, TypeQuietStep DEF TickGet, TypeInv
<1>4. ASSUME NEW c \in Calls, TickDecide(c)
      PROVE  TypeInv'
  <2> DEFINE alloc == desired[call[c].alloc.model]
  <2>1. call[c].alloc.model \in Models /\ alloc \in Allocation /\ alloc.rev \in Nat
    BY <1>0 DEF Call, Allocation
  <2>2. CASE alloc.rev = 0
    <3>1. Free(c) /\ UNCHANGED unreachable
      BY <1>4, <2>2 DEF TickDecide
    <3>2. \A b \in Calls : call'[b].st \notin {"free", "seen"} => call'[b] = call[b]
      BY <1>0, <3>1 DEF Free
    <3> QED BY <1>4, <3>1, <3>2, TypeQuietStep DEF TickDecide, TypeInv
  <2>3. CASE alloc.rev # 0
    <3>1. alloc.d \in Deployments
      BY <2>1, <2>3 DEF TypeInv
    <3>2. Record(alloc.d, TRUE) /\ (Free(c) \/ Send(c, "tick", alloc))
      BY <1>4, <2>3 DEF TickDecide
    <3>3. unreachable' \subseteq Deployments
      BY <3>2 DEF Record, TypeInv
    <3>4. CASE Free(c)
      <4>1. \A b \in Calls : call'[b].st \notin {"free", "seen"} => call'[b] = call[b]
        BY <1>0, <3>4 DEF Free
      <4> QED BY <1>4, <3>3, <4>1, TypeQuietStep DEF TickDecide, TypeInv
    <3>5. CASE Send(c, "tick", alloc)
      <4> HIDE DEF alloc
      <4>1. call'[c].alloc = alloc /\ \A b \in Calls : b # c => call'[b] = call[b]
        BY <1>0, <2>1, <3>5, SendFacts
      <4> QED BY <1>4, <3>1, <3>3, <4>1 DEF TickDecide, TypeInv
    <3> QED BY <3>2, <3>4, <3>5
  <2> QED BY <2>2, <2>3
<1>5. ASSUME NEW c \in Calls, Lose(c)
      PROVE  TypeInv'
  <2>1. \A b \in Calls : call'[b].st \notin {"free", "seen"} =>
          call[b].st \notin {"free", "seen"} /\ call'[b].alloc = call[b].alloc
    BY <1>0, <1>5, AnswerKeeps DEF Lose
  <2> QED BY <1>5, <2>1, TypeQuietStep DEF Lose, TypeInv
<1>6. ASSUME NEW c \in Calls, TimeOut(c)
      PROVE  TypeInv'
  <2>1. call[c].st \notin {"free", "seen"} /\ call[c].alloc.d \in Deployments
    BY <1>6 DEF TypeInv, TimeOut
  <2>2. unreachable' \subseteq Deployments
    BY <1>6, <2>1 DEF TimeOut, Record, TypeInv
  <2>3. \A b \in Calls : call'[b].st = call[b].st /\ call'[b].alloc = call[b].alloc
    BY <1>0, <1>6 DEF TimeOut, Call
  <2> QED BY <1>6, <2>2, <2>3, TypeQuietStep DEF TimeOut, TypeInv
<1>7. ASSUME NEW c \in Calls, PutCheck(c)
      PROVE  TypeInv'
  <2>1. call[c].st \notin {"free", "seen"}
    BY <1>7 DEF PutCheck
  <2>2. CASE Answer(c, "rejected") \/ Answer(c, "stale")
    BY <1>0, <1>7, <2>1, <2>2, AnswerKeeps, TypeQuietStep DEF PutCheck, TypeInv
  <2>3. CASE call' = [call EXCEPT ![c].st = "checked"]
    <3>1. \A b \in Calls : call'[b].alloc = call[b].alloc /\ (b # c => call'[b] = call[b])
      BY <1>0, <2>3 DEF Call
    <3> QED BY <1>7, <2>1, <3>1, TypeQuietStep DEF PutCheck, TypeInv
  <2> QED BY <1>7, <2>2, <2>3 DEF PutCheck
<1>8. ASSUME NEW c \in Calls, PutSet(c)
      PROVE  TypeInv'
  <2>1. \A b \in Calls : call'[b].st \notin {"free", "seen"} =>
          call[b].st \notin {"free", "seen"} /\ call'[b].alloc = call[b].alloc
    BY <1>0, <1>8, AnswerKeeps DEF PutSet
  <2> QED BY <1>8, <2>1, TypeQuietStep DEF PutSet, TypeInv
<1>9. CASE ControlPlaneCrash
  <2>1. \A b \in Calls : call'[b].st \notin {"free", "seen"} =>
          call[b].st \notin {"free", "seen"} /\ call'[b].alloc = call[b].alloc
    BY <1>0, <1>9 DEF ControlPlaneCrash, Call
  <2> QED BY <1>9, <2>1, TypeQuietStep DEF ControlPlaneCrash, TypeInv
<1>10. CASE RouterCrash
  <2>1. \A b \in Calls : call'[b].st \notin {"free", "seen"} =>
          call[b].st \notin {"free", "seen"} /\ call'[b].alloc = call[b].alloc
    BY <1>0, <1>10 DEF RouterCrash, Call
  <2> QED BY <1>10, <2>1, TypeQuietStep DEF RouterCrash, RouterStates, TypeInv
<1>11. CASE TickGetFails
  <2>1. AllAuthoritative \subseteq Deployments
    BY DEF AllAuthoritative, TypeInv
  <2> QED BY <1>11, <2>1, TypeQuietStep DEF TickGetFails, TypeInv
<1>12. CASE RouterStart \/ RouterSync \/ RouterReady \/ UNCHANGED vars
  BY <1>12, TypeQuietStep
     DEF RouterStart, RouterSync, RouterReady, RouterStates, vars, syncvars, TypeInv
<1> QED BY <1>1, <1>2, <1>3, <1>4, <1>5, <1>6, <1>7, <1>8, <1>9, <1>10, <1>11, <1>12
           DEF Next, CallStep

\* Type correctness of the push, the reconcile ticks and the router: in particular
\* that reachability is only ever recorded of a deployment that exists, although a
\* tick may find a router that applies none.
THEOREM RoutingSyncTypeCorrect == Spec => []TypeOK
<1>1. Init => TypeInv
  BY FaultsAssumption DEF Init, DesiredInit, NoAllocation, NoCall, RouterStates, TypeInv
<1>2. CommittedInv /\ TypeInv => TypeOK
  BY DEF CommittedInv, TypeInv, TypeOK, DesiredTypeOK
<1> QED BY <1>1, <1>2, CommittedInit, CommittedStep, TypeStep, PTL DEF Spec

-----------------------------------------------------------------------------
(***************************************************************************)
(* The reconciler compares the deployment and the revision, not the split. *)
(***************************************************************************)
\* One revision of a model is one split; what a tick has read, the router has applied.
LogInv ==
  /\ \A a \in log : /\ a \in Allocation /\ a.rev > 0
                    /\ a.rev =< desired[a.model].rev
  /\ \A a, b \in log : a.model = b.model /\ a.rev = b.rev => a = b
  /\ \A m \in Models : desired[m].model = m

SeenInv ==
  \A c \in Calls : call[c].st = "seen" /\ call[c].alloc.d # None =>
    \E a \in log : call[c].alloc \in {a, SyncedConfig(a)}

\* What is desired and committed only changes with a commit.
LEMMA CommitsOnly ==
  ASSUME [Next]_vars
  PROVE  \/ UNCHANGED <<desired, past, log>>
         \/ \E c \in Calls, m \in Models, d \in Deployments, w \in Weights :
              CommitAndPush(c, m, d, w)
BY DEF Next, CallStep, HandlerDone, TickGet, TickDecide, TickDone, Lose, TimeOut, PutCheck,
       PutSet, TickGetFails, ControlPlaneCrash, RouterCrash, RouterStart, RouterSync,
       RouterReady, vars, syncvars

\* A commit hands out a revision that was not there.
LEMMA LogStep == CommittedInv /\ LogInv /\ [Next]_vars => LogInv'
<1> SUFFICES ASSUME CommittedInv, LogInv, [Next]_vars PROVE LogInv'
  OBVIOUS
<1>1. CASE UNCHANGED <<desired, past, log>>
  BY <1>1 DEF LogInv
<1>2. ASSUME NEW c \in Calls, NEW m \in Models, NEW d \in Deployments, NEW w \in Weights,
             CommitAndPush(c, m, d, w)
      PROVE  LogInv'
  <2>1. Route(m, d, w) /\ log' = log \cup {desired'[m]}
    BY <1>2 DEF CommitAndPush
  <2>2. /\ desired' \in [Models -> Allocation]
        /\ desired'[m].rev = desired[m].rev + 1 /\ desired'[m].model = m
        /\ \A n \in Models : n # m => desired'[n] = desired[n]
    BY <2>1, RouteFacts DEF Route, CommittedInv
  <2>3. desired[m].rev \in Nat /\ \A a \in log : a.model \in Models /\ a.rev \in Nat
    BY DEF CommittedInv, LogInv, Allocation
  <2>4. \A a \in log : /\ a.rev =< desired'[a.model].rev
                       /\ a.model = m => a.rev < desired'[m].rev
    BY <2>2, <2>3 DEF LogInv
  <2>5. \A n \in Models : desired'[n].model = n
    BY <2>2 DEF LogInv
  <2>6. desired'[m] \in Allocation /\ desired'[m].rev > 0 /\ desired'[m].rev \in Nat
    BY <2>2, <2>3
  <2>7. ASSUME NEW a \in log'
        PROVE  a \in Allocation /\ a.rev > 0 /\ a.rev =< desired'[a.model].rev
    <3>1. CASE a \in log
      BY <2>4, <3>1 DEF LogInv
    <3>2. CASE a = desired'[m]
      BY <2>2, <2>6, <3>2
    <3> QED BY <2>1, <3>1, <3>2
  <2>8. \A a, b \in log' : a.model = b.model /\ a.rev = b.rev => a = b
    BY <2>1, <2>2, <2>3, <2>4, <2>6 DEF LogInv
  <2> QED BY <2>5, <2>7, <2>8 DEF LogInv
<1> QED BY <1>1, <1>2, CommitsOnly

\* A tick reads what the router applies at that moment.
LEMMA SeenStep ==
  CommittedInv /\ RouterServesCommitted /\ SeenInv /\ [Next]_vars => SeenInv'
<1> SUFFICES ASSUME CommittedInv, RouterServesCommitted, SeenInv, [Next]_vars
             PROVE  SeenInv'
  OBVIOUS
<1>0. call \in [Calls -> Call] /\ log \subseteq log' /\ NoCall.st = "free"
  BY CommitsOnly DEF CommittedInv, CommitAndPush, NoCall
<1>1. ASSUME \A c \in Calls : call'[c].st = "seen" =>
               \/ call[c].st = "seen" /\ call'[c].alloc = call[c].alloc
               \/ call'[c].alloc = cfg
      PROVE  SeenInv'
  BY <1>0, <1>1 DEF SeenInv, RouterServesCommitted, SyncedConfig
<1>2. ASSUME NEW c \in Calls, CallStep(c)
      PROVE  SeenInv'
  <2>1. \A b \in Calls : b # c => call'[b] = call[b]
    BY <1>0, <1>2 DEF CallStep, CommitAndPush, HandlerDone, TickGet, TickDecide, TickDone,
                      Lose, TimeOut, PutCheck, PutSet, Free, Send, Answer
  <2>2. CASE TickGet(c)
    BY <1>0, <1>1, <2>1, <2>2 DEF TickGet
  <2>3. CASE ~TickGet(c)
    <3>1. call'[c].st # "seen"
      <4>1. \A st \in Answers : Answer(c, st) => call'[c].st # "seen"
        BY <1>0 DEF Answer, Answers, Call
      <4>2. Free(c) \/ (\E by, alloc : Send(c, by, alloc)) => call'[c].st # "seen"
        BY <1>0 DEF Free, Send
      <4>3. CASE TimeOut(c)
        BY <1>0, <4>3 DEF TimeOut, Call
      <4>4. CASE Lose(c) \/ PutSet(c)
        BY <4>1, <4>4 DEF Lose, PutSet, Answers
      <4>5. CASE PutCheck(c)
        <5>1. \/ Answer(c, "rejected") \/ Answer(c, "stale")
              \/ call' = [call EXCEPT ![c].st = "checked"]
          BY <4>5 DEF PutCheck
        <5>2. call' = [call EXCEPT ![c].st = "checked"] => call'[c].st = "checked"
          BY <1>0 DEF Call
        <5> QED BY <4>1, <5>1, <5>2 DEF Answers
      <4>6. CASE HandlerDone(c) \/ TickDecide(c) \/ TickDone(c)
        BY <4>2, <4>6 DEF HandlerDone, TickDecide, TickDone
      <4>7. ASSUME NEW m \in Models, NEW d \in Deployments, NEW w \in Weights,
                   CommitAndPush(c, m, d, w)
            PROVE  call'[c].st # "seen"
        BY <4>2, <4>7 DEF CommitAndPush
      <4> QED
        BY <1>2, <2>3, <4>3, <4>4, <4>5, <4>6, <4>7 DEF CallStep
    <3> QED BY <1>1, <2>1, <3>1
  <2> QED BY <2>2, <2>3
<1>3. CASE ControlPlaneCrash \/ RouterCrash
  <2>1. \A c \in Calls : call'[c].st = "seen" => call'[c] = call[c]
    BY <1>0, <1>3 DEF ControlPlaneCrash, RouterCrash, Call
  <2> QED BY <1>1, <2>1
<1>4. CASE TickGetFails \/ RouterStart \/ RouterSync \/ RouterReady \/ UNCHANGED vars
  BY <1>1, <1>4 DEF TickGetFails, RouterStart, RouterSync, RouterReady, vars, syncvars
<1> QED BY <1>2, <1>3, <1>4 DEF Next

\* A tick that leaves the router alone has seen it apply what is desired: a router with
\* the same deployment and revision cannot have other weights, nor can the boot
\* configuration or one synced at its start pass for a committed one.
THEOREM NoDriftMissedTheorem == Spec => []NoDriftMissed
<1>1. Init => LogInv /\ SeenInv /\ TypeInv
  BY FaultsAssumption
     DEF Init, DesiredInit, NoAllocation, LogInv, SeenInv, NoCall, RouterStates, TypeInv
<1>2. CommittedInv /\ TypeInv /\ LogInv /\ SeenInv => NoDriftMissed
  <2> SUFFICES ASSUME CommittedInv, TypeInv, LogInv, SeenInv, NEW c \in Calls,
                      call[c].st = "seen", desired[call[c].alloc.model].rev > 0,
                      InSync(call[c].alloc, desired[call[c].alloc.model])
               PROVE  call[c].alloc = desired[call[c].alloc.model]
    BY DEF NoDriftMissed
  <2> DEFINE seen == call[c].alloc
             alloc == desired[seen.model]
  <2>1. seen.model \in Models
    BY DEF CommittedInv, Call, Allocation
  <2>2. /\ alloc \in log /\ alloc.d \in Deployments /\ alloc.model = seen.model
        /\ alloc.rev > 0
    BY <2>1 DEF CommittedInv, TypeInv, LogInv
  <2>3. seen.d = alloc.d /\ seen.rev = alloc.rev
    BY DEF InSync
  <2>4. PICK a \in log : seen \in {a, SyncedConfig(a)}
    BY <2>2, <2>3, NoneIsNotADeployment DEF SeenInv
  <2>5. SyncedConfig(a).rev = 0
    BY DEF SyncedConfig, LogInv, Allocation
  <2>6. seen = a
    BY <2>2, <2>3, <2>4, <2>5
  <2> QED BY <2>2, <2>3, <2>4, <2>6 DEF LogInv
<1>3. CommittedInv /\ RouterServesCommitted /\ LogInv /\ SeenInv /\ TypeInv /\ [Next]_vars
        => LogInv' /\ SeenInv' /\ TypeInv'
  BY LogStep, SeenStep, TypeStep
<1> QED BY <1>1, <1>2, <1>3, CommittedInit, CommittedStep, PTL DEF Spec

-----------------------------------------------------------------------------
\* Pushes, ticks, faults and restarts leave the desired routing to the commits: what is
\* desired behaves as DesiredRouting says, which is all that the rows of the database
\* are shown to implement (RolloutsRouting).
THEOREM SyncLeavesDesired == Spec => DesiredSpec
<1>1. Init => DesiredInit
  BY DEF Init
<1>2. [Next]_vars => [DesiredNext]_desiredvars
  BY CommitsOnly DEF CommitAndPush, DesiredNext, desiredvars
<1> QED BY <1>1, <1>2, PTL DEF Spec, DesiredSpec
=============================================================================
