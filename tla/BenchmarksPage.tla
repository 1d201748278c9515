--------------------------- MODULE BenchmarksPage ---------------------------
(***************************************************************************)
(* The benchmarks page of the dashboard on top of the API's runs: the run  *)
(* it follows, looked for once when the page is mounted and polled every   *)
(* two seconds since, and the history it fetches anew when a run has ended.*)
(* Responses arrive in any order; polls are never cancelled, and starts of *)
(* several scenarios overlap.                                              *)
(***************************************************************************)
EXTENDS BenchmarkRuns, UseAsync, Integers, FiniteSets, Bags

CONSTANTS MaxStarts,   \* bound: startBenchmarkRun calls on their way at a time
          MaxPolls,    \* bound: polls on their way at a time
          MaxTroubles  \* bound: failed calls and reloads

ASSUME NoDataAssumption == NoData \notin Runs
ASSUME TroublesAssumption == MaxTroubles \in Nat

VARIABLES page,     \* the component's state, and its calls
          polls,    \* those on their way, a bag
          troubles

vars == <<status, hook, page, polls, troubles>>

None == [run |-> NoData, status |-> "ABSENT"]

Seen(r) == [run |-> r, status |-> status[r]]

NotCalled == [pc |-> "none", value |-> None]
Called == [pc |-> "asked", value |-> None]

\* A poll asks for a run, or for whichever is in progress.
Poll(about, call) == [about |-> about, pc |-> call.pc, value |-> call.value]

Replaced(p, q) == (polls (-) SetToBag({p})) (+) SetToBag({q})

\* activeRun, initialized, the initial getCurrentBenchmarkRun, and of the calls to
\* startBenchmarkRun: how many the API has not answered, and the runs of its answers.
MountedPage == [active |-> None, initialized |-> FALSE, initial |-> Called,
                asking |-> 0, started |-> {}]

Init ==
  /\ RunsInit
  /\ hook = Mounted
  /\ page = MountedPage
  /\ polls = EmptyBag
  /\ troubles = 0

-----------------------------------------------------------------------------
(***************************************************************************)
(* The API: BenchmarkRuns, and what it answers the page.                   *)
(***************************************************************************)
\* Runs end, and are started from elsewhere.
ServerStep(r) ==
  /\ BeginRun(r) \/ \E s \in Ends : EndRun(r, s)
  /\ UNCHANGED <<hook, page, polls, troubles>>

\* get_current: the run in progress, or null.
Current == IF Running = {} THEN {None} ELSE {Seen(r) : r \in Running}

Answered(value) == [pc |-> "answered", value |-> value]

AnswerInitial ==
  /\ page.initial.pc = "asked"
  /\ \E value \in Current : page' = [page EXCEPT !.initial = Answered(value)]
  /\ UNCHANGED <<status, hook, polls, troubles>>

AnswerPoll(p) ==
  /\ p.pc = "asked"
  /\ \E value \in (IF p.about = NoData THEN Current ELSE {Seen(p.about)}) :
       polls' = Replaced(p, Poll(p.about, Answered(value)))
  /\ UNCHANGED <<status, hook, page, troubles>>

\* listBenchmarkRuns reads all of them.
AnswerHistory(call) ==
  /\ Replies(call, status)
  /\ UNCHANGED <<status, page, polls, troubles>>

\* A run is started, or the 409 of a run in progress.
AnswerStart(r) ==
  /\ page.asking > 0
  /\ \/ /\ BeginRun(r)
        /\ page' = [page EXCEPT !.asking = @ - 1, !.started = @ \cup {r}]
     \/ /\ Running # {}
        /\ page' = [page EXCEPT !.asking = @ - 1]
        /\ UNCHANGED status
  /\ UNCHANGED <<hook, polls, troubles>>

-----------------------------------------------------------------------------
(***************************************************************************)
(* The page.                                                               *)
(***************************************************************************)
IsRunning == page.active.status = "RUNNING"

\* handleRun, from a button that is enabled.  Of the scenarios only the one submitted
\* last is not (startingScenario), so that starts overlap.
Click ==
  /\ ~IsRunning
  /\ page.asking + Cardinality(page.started) < MaxStarts
  /\ page' = [page EXCEPT !.asking = @ + 1]
  /\ UNCHANGED <<status, hook, polls, troubles>>

Started(r) == [run |-> r, status |-> "RUNNING"]

StartArrives(r) ==
  /\ r \in page.started
  /\ page' = [page EXCEPT !.started = @ \ {r}, !.active = Started(r)]
  /\ UNCHANGED <<status, hook, polls, troubles>>

InitialArrives ==
  /\ page.initial.pc = "answered"
  /\ page' = [page EXCEPT !.initial = NotCalled, !.initialized = TRUE,
                          !.active = page.initial.value]
  /\ UNCHANGED <<status, hook, polls, troubles>>

\* Mutant: nothing to poll unless no run is known.
Polled_mutant == page.active = None

\* !(current && current.status !== "RUNNING")
Polled == ~Ended(page.active.status)

\* The interval's callback.
StartPoll ==
  /\ page.initialized
  /\ Polled
  /\ BagCardinality(polls) < MaxPolls
  /\ polls' = polls (+) SetToBag({Poll(page.active.run, Called)})
  /\ UNCHANGED <<status, hook, page, troubles>>

PollArrives(p) ==
  /\ p.pc = "answered"
  /\ polls' = polls (-) SetToBag({p})
  /\ page' = [page EXCEPT !.active = p.value]
  /\ hook' = IF Ended(p.value.status) THEN Refetched(hook) ELSE hook
  /\ UNCHANGED <<status, troubles>>

HistoryArrives(call) ==
  /\ Arrives(call)
  /\ UNCHANGED <<status, page, polls, troubles>>

-----------------------------------------------------------------------------
(***************************************************************************)
(* Trouble.                                                                *)
(***************************************************************************)
\* The catch branches; initialized in any case.
CallFails ==
  \/ /\ page.initial.pc # "none"
     /\ page' = [page EXCEPT !.initial = NotCalled, !.initialized = TRUE]
     /\ UNCHANGED <<hook, polls>>
  \/ /\ \/ page.asking > 0 /\ page' = [page EXCEPT !.asking = @ - 1]
        \/ \E r \in page.started : page' = [page EXCEPT !.started = @ \ {r}]
     /\ UNCHANGED <<hook, polls>>
  \/ /\ \E p \in BagToSet(polls) : polls' = polls (-) SetToBag({p})
     /\ UNCHANGED <<hook, page>>
  \/ \E call \in Calls : Fails(call) /\ UNCHANGED <<page, polls>>

Reload ==
  /\ hook' = Mounted
  /\ page' = MountedPage
  /\ polls' = EmptyBag

Trouble ==
  /\ troubles < MaxTroubles
  /\ troubles' = troubles + 1
  /\ CallFails \/ Reload
  /\ UNCHANGED status

-----------------------------------------------------------------------------
InitialStep == AnswerInitial \/ InitialArrives

StartStep == Click \/ \E r \in Runs : AnswerStart(r) \/ StartArrives(r)

PollStep == StartPoll \/ \E p \in BagToSet(polls) : AnswerPoll(p) \/ PollArrives(p)

HistoryStep(call) == AnswerHistory(call) \/ HistoryArrives(call)

Next ==
  \/ \E r \in Runs : ServerStep(r)
  \/ InitialStep \/ StartStep \/ PollStep
  \/ \E call \in Calls : HistoryStep(call)
  \/ Trouble

Spec == Init /\ [][Next]_vars

\* The interval ticks, the server answers, responses arrive - unless the call has
\* failed.  No poll in particular is fairly treated, nor is a start.
FairSpec ==
  /\ Spec
  /\ WF_vars(InitialStep)
  /\ WF_vars(PollStep)
  /\ WF_vars(HistoryStep("current"))

-----------------------------------------------------------------------------
(***************************************************************************)
(* Properties.                                                             *)
(***************************************************************************)
Progress(s) == CASE s = "ABSENT" -> 0 [] s = "RUNNING" -> 1 [] OTHER -> 2

Older(before, after) ==
  \E r \in Runs : Progress(after[r]) < Progress(before[r])

\* Whatever the order of the responses to fetches and refetches, a list of runs never
\* gives way to one that was read earlier.
NeverBackwards ==
  [][hook.data # NoData /\ hook'.data # NoData => ~Older(hook.data, hook'.data)]_vars

\* What is on screen as running has ended.
Behind ==
  \E r \in Runs : page.active = Started(r) /\ Ended(status[r])

\* A page that follows a run does not go on showing it as running when it has ended,
\* and once it knows of the end its history does, unless that fetch fails.
PageCatchesUp ==
  /\ []<>~Behind
  /\ \A r \in Runs :
       page.active.run = r /\ Ended(page.active.status)
         ~> hook.error \/ (hook.data # NoData /\ Ended(hook.data[r]))

\* page.tsx: the polling stops at a terminal status, but keeps that terminal result on
\* screen - until another run is started here, or the page is loaded again.
ResultStays ==
  [][Ended(page.active.status) /\ page'.active # page.active
       => (\E r \in page.started : page'.active = Started(r)) \/ page' = MountedPage]_vars
=============================================================================
