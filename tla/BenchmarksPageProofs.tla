----------------------- MODULE BenchmarksPageProofs -----------------------
(***************************************************************************)
(* Proofs about BenchmarksPage: the list of runs on screen never gives way *)
(* to an earlier one, in whatever order fetches and refetches are answered.*)
(***************************************************************************)
EXTENDS BenchmarksPage, TLAPS

-----------------------------------------------------------------------------
(***************************************************************************)
(* The lists are compared run by run, and the server only moves forward.   *)
(***************************************************************************)
\* A status is one of three stages.
LEMMA ProgressStages ==
  /\ \A s : Progress(s) \in 0 .. 2
  /\ Progress("ABSENT") = 0 /\ Progress("RUNNING") = 1
  /\ \A s \in Ends : Progress(s) = 2
<1>1. \A s : /\ s = "ABSENT" => Progress(s) = 0
             /\ s = "RUNNING" => Progress(s) = 1
             /\ s \notin {"ABSENT", "RUNNING"} => Progress(s) = 2
  BY DEF Progress
<1> QED BY <1>1, EndsAssumption

\* No list is older than itself, and not being older carries over.
LEMMA OlderIsOrder ==
  /\ \A a : ~Older(a, a)
  /\ \A a, b, c : ~Older(a, b) /\ ~Older(b, c) => ~Older(a, c)
  BY ProgressStages DEF Older

StatusInv == status \in [Runs -> {"ABSENT", "RUNNING"} \cup Ends]

\* A run that begins was absent, one that ends was running.
LEMMA ServerForward ==
  ASSUME StatusInv, NEW r \in Runs, BeginRun(r) \/ \E s \in Ends : EndRun(r, s)
  PROVE  StatusInv' /\ ~Older(status, status')
<1>1. PICK s \in {"RUNNING"} \cup Ends :
        /\ status' = [status EXCEPT ![r] = s]
        /\ Progress(status[r]) =< Progress(s)
  <2>1. CASE BeginRun(r)
    <3>1. /\ status' = [status EXCEPT ![r] = "RUNNING"]
          /\ Progress(status[r]) =< Progress("RUNNING")
      BY <2>1, ProgressStages DEF BeginRun
    <3> QED BY <3>1
  <2>2. ASSUME NEW s \in Ends, EndRun(r, s)
        PROVE  status' = [status EXCEPT ![r] = s] /\ Progress(status[r]) =< Progress(s)
    BY <2>2, ProgressStages DEF EndRun
  <2> QED BY <2>1, <2>2
<1>2. StatusInv'
  BY <1>1 DEF StatusInv
<1>3. \A q \in Runs : Progress(status[q]) =< Progress(status'[q])
  BY <1>1, ProgressStages DEF StatusInv
<1> QED BY <1>2, <1>3, ProgressStages DEF Older

-----------------------------------------------------------------------------
(***************************************************************************)
(* The inductive invariant.  What is on screen was read no later than what *)
(* the current call brings, and that no later than now.  Of a superseded   *)
(* call neither need hold, and nobody listens to it.                       *)
(***************************************************************************)
HookFields == DOMAIN hook = {"data", "error", "loading", "current", "superseded"}

DataInv == hook.data # NoData => ~Older(hook.data, status)

CurrentInv ==
  hook.current.pc = "answered" =>
    /\ ~Older(hook.current.value, status)
    /\ hook.data # NoData => ~Older(hook.data, hook.current.value)

PageInv == StatusInv /\ HookFields /\ DataInv /\ CurrentInv

\* When the server moves on and the hook does not, everything on screen stays past.
LEMMA ServerMoves ==
  ASSUME PageInv, UNCHANGED hook, StatusInv', ~Older(status, status')
  PROVE  PageInv'
<1>1. HookFields' /\ DataInv'
  BY OlderIsOrder DEF PageInv, HookFields, DataInv, Older
<1>2. CurrentInv'
  BY OlderIsOrder DEF PageInv, CurrentInv, Older
<1> QED BY <1>1, <1>2 DEF PageInv

\* The list is read from the server as it is then.
LEMMA ReplyInv ==
  ASSUME PageInv, UNCHANGED status, NEW call \in Calls, Replies(call, status)
  PROVE  PageInv' /\ hook'.data = hook.data
<1>1. HookFields' /\ hook'.data = hook.data
  BY DEF Replies, PageInv, HookFields, Calls
<1>2. CASE call = "current"
  <2>1. hook'.current = [pc |-> "answered", value |-> status]
    BY <1>2 DEF Replies, PageInv, HookFields
  <2>2. DataInv' /\ CurrentInv'
    BY <1>1, <2>1, OlderIsOrder DEF PageInv, DataInv, CurrentInv, Older
  <2> QED BY <1>1, <2>2 DEF PageInv, StatusInv
<1>3. CASE call = "superseded"
  <2>1. hook'.current = hook.current
    BY <1>3 DEF Replies, PageInv, HookFields
  <2>2. DataInv' /\ CurrentInv'
    BY <1>1, <2>1 DEF PageInv, DataInv, CurrentInv, Older
  <2> QED BY <1>1, <2>2 DEF PageInv, StatusInv
<1> QED BY <1>2, <1>3 DEF Calls

\* Only the current call's response is put on screen, and it is no older than what it
\* replaces.
LEMMA ArrivalInv ==
  ASSUME PageInv, UNCHANGED status, NEW call \in Calls, Arrives(call)
  PROVE  /\ PageInv'
         /\ hook.data # NoData /\ hook'.data # NoData => ~Older(hook.data, hook'.data)
<1>1. CASE call = "current"
  <2>1. /\ HookFields' /\ hook.current.pc = "answered"
        /\ hook'.data = hook.current.value /\ hook'.current = Nothing
    BY <1>1 DEF Arrives, Listens, PageInv, HookFields
  <2>2. DataInv' /\ CurrentInv'
    BY <2>1 DEF PageInv, DataInv, CurrentInv, Nothing, Older
  <2> QED BY <2>1, <2>2 DEF PageInv, StatusInv, CurrentInv
<1>2. CASE call = "superseded"
  <2>1. HookFields' /\ hook'.data = hook.data /\ hook'.current = hook.current
    BY <1>2 DEF Arrives, Listens, PageInv, HookFields
  <2>2. DataInv' /\ CurrentInv'
    BY <2>1 DEF PageInv, DataInv, CurrentInv, Older
  <2> QED BY <2>1, <2>2, OlderIsOrder DEF PageInv, StatusInv
<1> QED BY <1>1, <1>2 DEF Calls

\* A failed call leaves nothing on screen, or what was there.
LEMMA FailureInv ==
  ASSUME PageInv, UNCHANGED status, NEW call \in Calls, Fails(call)
  PROVE  PageInv' /\ hook'.data \in {NoData, hook.data}
<1>1. CASE call = "current"
  <2>1. HookFields' /\ hook'.data = NoData /\ hook'.current = Nothing
    BY <1>1 DEF Fails, Listens, PageInv, HookFields
  <2>2. DataInv' /\ CurrentInv'
    BY <2>1 DEF DataInv, CurrentInv, Nothing
  <2> QED BY <2>1, <2>2 DEF PageInv, StatusInv
<1>2. CASE call = "superseded"
  <2>1. HookFields' /\ hook'.data = hook.data /\ hook'.current = hook.current
    BY <1>2 DEF Fails, Listens, PageInv, HookFields
  <2>2. DataInv' /\ CurrentInv'
    BY <2>1 DEF PageInv, DataInv, CurrentInv, Older
  <2> QED BY <2>1, <2>2 DEF PageInv, StatusInv
<1> QED BY <1>1, <1>2 DEF Calls

\* A refetch asks again, and keeps what is on screen.
LEMMA RefetchInv ==
  ASSUME PageInv, UNCHANGED status, hook' = Refetched(hook)
  PROVE  PageInv' /\ hook'.data = hook.data
<1>1. HookFields' /\ hook'.data = hook.data /\ hook'.current = Asked
  BY DEF Refetched, PageInv, HookFields
<1>2. DataInv' /\ CurrentInv'
  BY <1>1 DEF PageInv, DataInv, CurrentInv, Asked, Older
<1> QED BY <1>1, <1>2 DEF PageInv, StatusInv

\* A page that has just been loaded shows nothing.
LEMMA MountedInv ==
  /\ StatusInv /\ hook = Mounted => PageInv
  /\ StatusInv' /\ hook' = Mounted => PageInv' /\ hook'.data = NoData
<1>1. /\ hook = Mounted => HookFields /\ hook.data = NoData /\ hook.current = Asked
      /\ hook' = Mounted => HookFields' /\ hook'.data = NoData /\ hook'.current = Asked
  BY DEF Mounted, HookFields
<1> QED BY <1>1 DEF PageInv, DataInv, CurrentInv, Asked

-----------------------------------------------------------------------------
(***************************************************************************)
(* Every step of the page and of the API.                                  *)
(***************************************************************************)
Forwards == hook.data # NoData /\ hook'.data # NoData => ~Older(hook.data, hook'.data)

LEMMA PageStep ==
  ASSUME PageInv, [Next]_vars
  PROVE  PageInv' /\ Forwards
<1>1. ASSUME UNCHANGED hook, StatusInv', ~Older(status, status')
      PROVE  PageInv' /\ Forwards
  BY <1>1, ServerMoves, OlderIsOrder DEF Forwards
<1>2. ASSUME UNCHANGED hook, UNCHANGED status
      PROVE  PageInv' /\ Forwards
  BY <1>1, <1>2, OlderIsOrder DEF PageInv, StatusInv, Older
<1>3. ASSUME UNCHANGED hook,
             UNCHANGED status \/ \E r \in Runs : BeginRun(r) \/ \E s \in Ends : EndRun(r, s)
      PROVE  PageInv' /\ Forwards
  BY <1>1, <1>2, <1>3, ServerForward DEF PageInv
<1>4. ASSUME NEW r \in Runs, ServerStep(r)
      PROVE  PageInv' /\ Forwards
  BY <1>3, <1>4 DEF ServerStep
<1>5. CASE InitialStep
  BY <1>2, <1>5 DEF InitialStep, AnswerInitial, InitialArrives
<1>6. CASE StartStep
  BY <1>3, <1>6 DEF StartStep, Click, AnswerStart, StartArrives
<1>7. CASE PollStep
  <2>1. UNCHANGED status /\ (hook' = Refetched(hook) \/ UNCHANGED hook)
    BY <1>7 DEF PollStep, StartPoll, AnswerPoll, PollArrives
  <2> QED BY <1>2, <2>1, RefetchInv, OlderIsOrder DEF Forwards
<1>8. CASE Trouble
  <2>0. UNCHANGED status
    BY <1>8 DEF Trouble
  <2>1. CASE Reload
    BY <2>0, <2>1, MountedInv DEF Reload, PageInv, StatusInv, Forwards
  <2>2. CASE CallFails
    <3>1. UNCHANGED hook \/ \E call \in Calls : Fails(call)
      BY <2>2 DEF CallFails
    <3> QED BY <1>2, <2>0, <3>1, FailureInv, OlderIsOrder DEF Forwards
  <2> QED BY <1>8, <2>1, <2>2 DEF Trouble
<1>9. ASSUME NEW fetch \in Calls, HistoryStep(fetch)
      PROVE  PageInv' /\ Forwards
  <2>1. CASE AnswerHistory(fetch)
    BY <2>1, ReplyInv, OlderIsOrder DEF AnswerHistory, Forwards
  <2>2. CASE HistoryArrives(fetch)
    BY <2>2, ArrivalInv DEF HistoryArrives, Forwards
  <2> QED BY <1>9, <2>1, <2>2 DEF HistoryStep
<1>10. CASE UNCHANGED vars
  BY <1>2, <1>10 DEF vars
<1> QED BY <1>4, <1>5, <1>6, <1>7, <1>8, <1>9, <1>10 DEF Next

\* Whatever the order of the responses to fetches and refetches, and whichever fail, a
\* list of runs on screen never gives way to one that the server answered earlier.
THEOREM NeverBackwardsTheorem == Spec => NeverBackwards
<1>1. Init => PageInv
  BY MountedInv DEF Init, RunsInit, StatusInv
<1>2. PageInv /\ [Next]_vars => PageInv' /\ Forwards
  BY PageStep
<1>3. PageInv /\ [Next]_vars => [Forwards]_vars
  BY <1>2
<1> QED BY <1>1, <1>2, <1>3, PTL DEF Spec, NeverBackwards, Forwards

\* What the page assumes of the API is what BenchmarkRuns says, which Benchmarks is shown
\* to implement: its clicks, polls, failures and reloads add nothing to it.
THEOREM PageUsesRuns == Spec => RunsSpec
<1>1. Init => RunsInit
  BY DEF Init
<1>2. ASSUME [Next]_vars PROVE [RunsNext]_status
  <2>1. ASSUME NEW r \in Runs, ServerStep(r) \/ AnswerStart(r)
        PROVE  [RunsNext]_status
    BY <2>1 DEF ServerStep, AnswerStart, RunsNext
  <2>2. CASE InitialStep \/ PollStep \/ Trouble \/ UNCHANGED vars
    BY <2>2 DEF InitialStep, AnswerInitial, InitialArrives, PollStep, StartPoll, AnswerPoll,
                PollArrives, Trouble, vars
  <2>3. ASSUME \/ Click \/ \E r \in Runs : StartArrives(r)
               \/ \E call \in Calls : HistoryStep(call)
        PROVE  UNCHANGED status
    BY <2>3 DEF Click, StartArrives, HistoryStep, AnswerHistory, HistoryArrives
  <2> QED BY <1>2, <2>1, <2>2, <2>3 DEF Next, StartStep
<1> QED BY <1>1, <1>2, PTL DEF Spec, RunsSpec
=============================================================================
