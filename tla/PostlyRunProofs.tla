--------------------------- MODULE PostlyRunProofs ---------------------------
(***************************************************************************)
(* Proofs about `postly run`: what its exit status says of the collections, *)
(* and that nothing of a later collection runs after Ctrl-C, for any number *)
(* of collections, requests and batches.                                   *)
(***************************************************************************)
EXTENDS PostlyRun, RunnerProofs, FiniteSetTheorems

(* How many of the first c collections have a selected request: the summary   *)
(* of collection c, if it has one, is the Count(c)-th.                         *)
Count(c) == Cardinality({d \in 1 .. c : selected[d] # <<>>})

(* The runner's invariant holds in every collection; the loop runs the         *)
(* collection it took last, and every collection before has its summary.       *)
Loop ==
  /\ selected \in UNION {[1 .. c -> CollectionChoices] : c \in 0 .. MaxCollections}
  /\ folder \in BOOLEAN
  /\ coll \in 0 .. Len(selected)
  /\ cancelColl \in 0 .. Len(selected)
  /\ stage \in {"next", "running", "report", "exit"}
  /\ exit \in Exits
  /\ summaries \in Seq(Summary)
  /\ stage = "running" =>
       coll >= 1 /\ selected[coll] # <<>> /\ requests = selected[coll]
  /\ Len(summaries) = IF stage = "running" THEN Count(coll) - 1 ELSE Count(coll)

AllPassed(s, c) ==
  \A i \in 1 .. IterationCount, k \in DOMAIN selected[c] :
    \E r \in DOMAIN s.results :
      s.results[r].iteration = i /\ s.results[r].index = k /\ s.results[r].passed

Nothing(s) == s.results = <<>> /\ s.requests = 0

(* The summary of a collection that ran: if it is a success everything passed, *)
(* and if the collection was taken after Ctrl-C nothing ran.                   *)
SummaryOf(s, c) ==
  /\ ~s.cancelled /\ s.failed = 0 => AllPassed(s, c)
  /\ cancelled /\ c > cancelColl => Nothing(s)

Kept ==
  \A c \in 1 .. coll : selected[c] # <<>> /\ Count(c) \in DOMAIN summaries =>
    SummaryOf(summaries[Count(c)], c)

(* A collection taken after Ctrl-C does not get past the head of the loop.     *)
NotStarted ==
  stage = "running" /\ cancelled /\ coll > cancelColl =>
    pc \in {"top", "done"} /\ start = 1 /\ Nothing(summary)

ExitFacts ==
  /\ stage = "report" => AnyUnsuccessful
  /\ exit = "ok" => /\ stage = "exit" /\ coll = Len(selected)
                    /\ ~AnyUnsuccessful
                    /\ folder => summaries # <<>>

RunInv == OrderInv /\ Loop /\ Kept /\ NotStarted /\ ExitFacts

(***************************************************************************)
(* Counting collections                                                    *)
(***************************************************************************)
LEMMA CountNext ==
  /\ Count(0) = 0
  /\ \A c \in Nat : /\ Count(c) \in Nat
                    /\ Count(c + 1) = Count(c) + (IF selected[c + 1] # <<>> THEN 1 ELSE 0)
<1> DEFINE S(c) == {d \in 1 .. c : selected[d] # <<>>}
<1>1. Count(0) = 0
  <2>1. S(0) = {}
    OBVIOUS
  <2> QED  BY <2>1, FS_EmptySet DEF Count
<1>2. ASSUME NEW c \in Nat
      PROVE  /\ Count(c) \in Nat
             /\ Count(c + 1) = Count(c) + (IF selected[c + 1] # <<>> THEN 1 ELSE 0)
  <2>1. IsFiniteSet(1 .. c)
    BY FS_Interval
  <2>2. IsFiniteSet(S(c)) /\ Cardinality(S(c)) \in Nat
    BY <2>1, FS_Subset, FS_CardinalityType
  <2>3. CASE selected[c + 1] # <<>>
    <3>1. S(c + 1) = S(c) \cup {c + 1} /\ c + 1 \notin S(c)
      BY <2>3
    <3> QED  BY <2>2, <2>3, <3>1, FS_AddElement DEF Count
  <2>4. CASE selected[c + 1] = <<>>
    <3>1. S(c + 1) = S(c)
      BY <2>4
    <3>2. Count(c + 1) = Count(c) /\ Count(c) \in Nat
      BY <2>2, <3>1 DEF Count
    <3> QED  BY <2>4, <3>2
  <2> QED  BY <2>3, <2>4
<1> QED  BY <1>1, <1>2

LEMMA CountMonotone ==
  ASSUME NEW c \in Nat, NEW d \in Nat, c < d
  PROVE  /\ Count(c) <= Count(d)
         /\ selected[d] # <<>> => Count(c) < Count(d)
<1> DEFINE S(x) == {y \in 1 .. x : selected[y] # <<>>}
<1>1. d - 1 \in Nat /\ c <= d - 1 /\ (d - 1) + 1 = d
  OBVIOUS
<1>2. IsFiniteSet(S(d - 1))
  <2>1. IsFiniteSet(1 .. d - 1)
    BY <1>1, FS_Interval
  <2> QED  BY <2>1, FS_Subset
<1>3. S(c) \subseteq S(d - 1)
  BY <1>1
<1>4. Count(c) <= Count(d - 1)
  BY <1>2, <1>3, FS_Subset DEF Count
<1>5. /\ Count(d - 1) \in Nat /\ Count(c) \in Nat
      /\ Count(d) = Count(d - 1) + (IF selected[d] # <<>> THEN 1 ELSE 0)
  BY <1>1, CountNext
<1> QED  BY <1>4, <1>5

LEMMA CountKept ==
  ASSUME UNCHANGED selected
  PROVE  \A c : Count(c)' = Count(c)
  BY DEF Count

(***************************************************************************)
(* The runner inside the command                                           *)
(***************************************************************************)
(* Neither the runner nor the server touches the flag, the requests or the    *)
(* options.                                                                   *)
LEMMA RunnerKeeps ==
  RunnerStep \/ ServerStep => UNCHANGED <<cancelled, requests, options>>
<1> USE DEF jobVars, tokenVars
<1>1. ServerStep => UNCHANGED <<cancelled, requests, options>>
  BY DEF ServerStep, Respond, RespondConcurrent
<1>2. ASSUME NEW k \in Slots, TokenStep(CheckFlag(k)) \/ TokenStep(Park(k))
      PROVE  UNCHANGED <<cancelled, requests, options>>
  BY <1>2 DEF TokenStep, CheckFlag, Park
<1>3. RunnerStep => UNCHANGED <<cancelled, requests, options>>
  BY <1>2 DEF RunnerStep, TopCancelled, NextIteration, LaunchBatch, Join, CountItem,
              EndBatch, DropConcurrent, TakeRequest, DelayElapsed, DelayCancelled,
              StartPreScript, StartTestScript, StartScript, PreScriptOk,
              PreScriptInvalidRequest, PreScriptErr, Drop, TestScriptOk,
              TestScriptErr, RecordItem
<1> QED  BY <1>1, <1>3

(* Where the flag is set before the first request nothing is started.        *)
LEMMA CancelledRunStops ==
  ASSUME RunnerStep \/ ServerStep, cancelled, pc = "top", start <= N, TypeInv
  PROVE  /\ pc' \in {"top", "done"} /\ start' = start
         /\ summary'.results = summary.results /\ summary'.requests = summary.requests
<1>0. start \in Nat /\ N \in Nat /\ summary \in Summary /\ ~(start > N)
  BY PositionFacts DEF TypeInv, TypeOK
<1>1. ~ServerStep
  BY DEF ServerStep, Respond, RespondConcurrent
<1>2. ASSUME NEW k \in Slots, TokenStep(CheckFlag(k)) \/ TokenStep(Park(k))
      PROVE  UNCHANGED <<pc, start, summary>>
  BY <1>2 DEF TokenStep
<1>3. TopCancelled \/ UNCHANGED <<pc, start, summary>>
  BY <1>0, <1>1, <1>2
     DEF RunnerStep, NextIteration, LaunchBatch, MayStart, Join, CountItem,
           EndBatch, DropConcurrent, TakeRequest, DelayElapsed, DelayCancelled,
           StartPreScript, StartTestScript, StartScript, PreScriptOk,
           PreScriptInvalidRequest, PreScriptErr, Drop, TestScriptOk,
           TestScriptErr, RecordItem
<1> QED  BY <1>0, <1>3 DEF TopCancelled, StopCancelled, Summary

LEMMA StoreFlagStep ==
  ASSUME OrderInv, StoreFlag, UNCHANGED runnerVars
  PROVE  OrderInv'
<1>1. UNCHANGED <<requests, options, pc, iter, start, cursor, phase, item,
                  request_to_run, request_context, iteration_context, ran,
                  summary, late, waiter>>
  BY DEF runnerVars, jobVars, contextVars, StoreFlag
<1>2. notify = "idle" /\ cancelled' = TRUE /\ notify' = "stored"
  BY DEF StoreFlag
<1>3. CASE pc # "done"
  <2>1. TokenStep(Cancel)
    BY <1>1, <1>3 DEF TokenStep, Cancel, jobVars, contextVars
  <2>2. Next
    BY <2>1 DEF Next
  <2> QED  BY <2>2, StepOrderInv
<1>4. CASE pc = "done"
  <2>1. UNCHANGED <<N, BatchEnd, Batch, Concurrent, results, IterationCount>>
    BY <1>1, SameBatchPosition DEF results, IterationCount
  <2>2. TypeInv'
    BY <1>1, <1>2, <2>1
       DEF OrderInv, FlowInv, TypeInv, TypeOK, TokenTypeOK, NotifyState, Positions
  <2>3. FlowInv'
    BY <1>1, <1>2, <1>4, <2>1, <2>2
       DEF OrderInv, FlowInv, TokenFacts, PhaseFacts, ItemFacts, Sequential,
           Aligned, Judging
  <2>4. SummaryInv'
    BY <1>1, <2>1, <2>2 DEF OrderInv, SummaryInv, Accounts, Pending
  <2>5. InOrder' /\ Complete' /\ Failures'
    BY <1>1, StillStep
  <2> QED  BY <2>3, <2>4, <2>5 DEF OrderInv
<1> QED  BY <1>3, <1>4

(***************************************************************************)
(* The command                                                             *)
(***************************************************************************)
LEMMA LoopFacts ==
  ASSUME RunInv
  PROVE  /\ OrderInv /\ FlowInv /\ TypeInv /\ Loop /\ Kept /\ NotStarted /\ ExitFacts
         /\ Len(selected) \in Nat /\ DOMAIN selected = 1 .. Len(selected)
         /\ \A c \in 1 .. Len(selected) :
              /\ selected[c] \in CollectionChoices
              /\ selected[c] \in Seq(Request) /\ Len(selected[c]) \in Nat
              /\ Len(selected[c]) <= MaxRequests
              /\ DOMAIN selected[c] = 1 .. Len(selected[c])
              /\ selected[c] # <<>> => Len(selected[c]) >= 1
         /\ coll \in Nat /\ coll <= Len(selected) /\ cancelColl \in Nat
         /\ Count(coll) \in Nat
         /\ summaries \in Seq(Summary) /\ Len(summaries) \in Nat
         /\ DOMAIN summaries = 1 .. Len(summaries)
         /\ Len(summaries) = IF stage = "running" THEN Count(coll) - 1 ELSE Count(coll)
         /\ summary \in Summary
<1>1. OrderInv /\ FlowInv /\ TypeInv /\ Loop /\ Kept /\ NotStarted /\ ExitFacts
  BY DEF RunInv, OrderInv, FlowInv
<1>2. PICK n \in 0 .. MaxCollections : selected \in [1 .. n -> CollectionChoices]
  BY <1>1 DEF Loop
<1>3. n \in Nat /\ Len(selected) = n /\ DOMAIN selected = 1 .. n
  BY <1>2, PostlyRunAssumption
<1>4. ASSUME NEW q \in CollectionChoices
      PROVE  /\ q \in Seq(Request) /\ Len(q) \in Nat /\ Len(q) <= MaxRequests
             /\ DOMAIN q = 1 .. Len(q)
             /\ q # <<>> => Len(q) >= 1
  <2>1. PICK m \in 0 .. MaxRequests : q \in [1 .. m -> Request]
    BY <1>4 DEF CollectionChoices
  <2>2. m \in Nat /\ m <= MaxRequests /\ MaxRequests \in Nat
    BY <2>1, RunnerAssumption
  <2>3. q \in Seq(Request) /\ Len(q) = m /\ DOMAIN q = 1 .. m
    BY <2>1, <2>2
  <2> QED  BY <2>2, <2>3
<1>5. \A c \in 1 .. Len(selected) : selected[c] \in CollectionChoices
  BY <1>2, <1>3
<1>6. coll \in Nat /\ coll <= Len(selected) /\ cancelColl \in Nat
  BY <1>1, <1>3 DEF Loop
<1>7. Count(coll) \in Nat
  BY <1>6, CountNext
<1>8. /\ summaries \in Seq(Summary) /\ Len(summaries) \in Nat
      /\ DOMAIN summaries = 1 .. Len(summaries)
      /\ Len(summaries) = IF stage = "running" THEN Count(coll) - 1 ELSE Count(coll)
      /\ summary \in Summary
  BY <1>1 DEF Loop, TypeInv, TypeOK
<1> QED  BY <1>1, <1>3, <1>4, <1>5, <1>6, <1>7, <1>8

LEMMA InitRunInv == RunInit => RunInv
<1> SUFFICES ASSUME RunInit PROVE RunInv
  OBVIOUS
<1>1. OrderInv
  BY InitOrderInv DEF RunInit
<1>2. PICK n \in 0 .. MaxCollections : selected \in [1 .. n -> CollectionChoices]
  BY DEF RunInit
<1>3. Len(selected) = n /\ n \in Nat
  BY <1>2, PostlyRunAssumption
<1>4. Loop
  BY <1>3, CountNext DEF RunInit, Loop, Exits
<1> QED  BY <1>1, <1>4 DEF RunInv, RunInit, Kept, NotStarted, ExitFacts

(* Steps that leave the collections' summaries and positions alone.           *)
LEMMA KeptStep ==
  ASSUME RunInv, UNCHANGED <<selected, summaries, coll, options>>,
         cancelled' => (cancelled /\ cancelColl' = cancelColl) \/ cancelColl' = coll
  PROVE  Kept'
<1> SUFFICES ASSUME NEW c \in 1 .. coll, selected[c] # <<>>,
                    Count(c) \in DOMAIN summaries
             PROVE  SummaryOf(summaries[Count(c)], c)'
  BY CountKept DEF Kept
<1>1. IterationCount' = IterationCount
  BY DEF IterationCount
<1>2. SummaryOf(summaries[Count(c)], c)
  BY LoopFacts DEF Kept
<1>3. cancelled' /\ c > cancelColl' => cancelled /\ c > cancelColl
  BY LoopFacts
<1>4. AllPassed(summaries[Count(c)], c) => AllPassed(summaries[Count(c)], c)'
  BY <1>1, CountKept DEF AllPassed
<1> QED  BY <1>2, <1>3, <1>4, CountKept DEF SummaryOf, Nothing

(* What is said of a summary stays said of it when only summaries are added.   *)
LEMMA SummaryOfKept ==
  ASSUME UNCHANGED <<selected, options, cancelled, cancelColl>>, NEW c,
         SummaryOf(summaries'[Count(c)], c)
  PROVE  SummaryOf(summaries[Count(c)], c)'
<1>1. IterationCount' = IterationCount
  BY DEF IterationCount
<1>2. AllPassed(summaries'[Count(c)], c) => AllPassed(summaries[Count(c)], c)'
  BY <1>1, CountKept DEF AllPassed
<1> QED  BY <1>2, CountKept DEF SummaryOf, Nothing

LEMMA StepRunnerInv == RunInv /\ [RunNext]_allVars => OrderInv'
<1> SUFFICES ASSUME RunInv, [RunNext]_allVars PROVE OrderInv'
  OBVIOUS
<1>0. OrderInv
  BY DEF RunInv
<1>1. CASE UNCHANGED vars
  BY <1>0, <1>1, StepOrderInv
<1>2. CASE RunCollection \/ ServerAnswers
  <2>1. Next
    BY <1>2 DEF RunCollection, ServerAnswers, Next
  <2> QED  BY <1>0, <2>1, StepOrderInv
<1>3. CASE CtrlC
  BY <1>0, <1>3, StoreFlagStep DEF CtrlC
<1>4. CASE CtrlCNotifies
  <2>1. TokenStep(NotifyWaiters)
    BY <1>4 DEF CtrlCNotifies, TokenStep, runnerVars
  <2>2. Next
    BY <2>1 DEF Next
  <2> QED  BY <1>0, <2>2, StepOrderInv
<1>5. CASE StartCollection
  <2>1. coll + 1 \in 1 .. Len(selected)
    BY <1>5, LoopFacts DEF StartCollection
  <2>2. requests' \in Seq(Request) /\ N' \in Nat /\ N' <= MaxRequests /\ N' >= 1
    BY <1>5, <2>1, LoopFacts DEF StartCollection, N
  <2>3. /\ UNCHANGED <<cancelled, notify, waiter, options, item>>
        /\ pc' = "top" /\ iter' = 1 /\ start' = 1 /\ cursor' = 1
        /\ phase' = [k \in Slots |-> "idle"] /\ request_to_run' = NoRequest
        /\ request_context' = {} /\ iteration_context' = {} /\ ran' = {}
        /\ summary' = EmptySummary /\ late' = {}
    BY <1>5 DEF StartCollection, tokenVars
  <2>4. TypeInv /\ TokenFacts
    BY <1>0 DEF OrderInv, FlowInv
  <2>5. EmptySummary \in Summary
    BY DEF EmptySummary, Summary
  <2>6. IterationCount' = IterationCount /\ 1 \in 1 .. IterationCount
    BY <2>3, <2>4, OptionsType DEF IterationCount, TypeInv, TypeOK
  <2>7. TypeInv'
    <3>1. TokenTypeOK'
      BY <2>3, <2>4 DEF TypeInv, TypeOK, TokenTypeOK
    <3>2. /\ options' \in Options /\ iter' \in 1 .. IterationCount'
          /\ start' \in 1 .. N' + 1 /\ cursor' \in 1 .. N' + 1
          /\ item' \in [Slots -> ItemResult] /\ summary' \in Summary
      <4>1. options' \in Options /\ item' \in [Slots -> ItemResult]
        BY <2>3, <2>4 DEF TypeInv, TypeOK
      <4>2. iter' \in 1 .. IterationCount' /\ summary' \in Summary
        BY <2>3, <2>5, <2>6
      <4>3. \A n \in Nat : 1 \in 1 .. n + 1
        OBVIOUS
      <4>4. start' \in 1 .. N' + 1 /\ cursor' \in 1 .. N' + 1
        BY <2>2, <2>3, <4>3
      <4> QED  BY <4>1, <4>2, <4>4
    <3>3. /\ phase' \in [Slots -> {"idle", "flying", "ready", "dropped"}]
          /\ Positions'
      BY <2>3 DEF Positions
    <3>4. /\ request_to_run' \in Request \cup {NoRequest}
          /\ request_context' \subseteq ScriptRun /\ iteration_context' \subseteq ScriptRun
          /\ ran' \subseteq ScriptRun /\ late' \subseteq Nat \X Nat /\ pc' \in Pcs
      BY <2>3 DEF Pcs
    <3> QED  BY <2>2, <3>1, <3>2, <3>3, <3>4 DEF TypeInv, TypeOK
  <2>8. Fresh'
    BY <2>3, <2>4, <2>7 DEF Fresh, TokenFacts
  <2> QED  BY <2>8, FreshOrderInv, PTL
<1> QED
  BY <1>1, <1>2, <1>3, <1>4, <1>5
     DEF RunNext, Command, LoadFails, SkipCollection, FinishCollection, ExitStatus, allVars

LEMMA StepRunInv == RunInv /\ [RunNext]_allVars => RunInv'
<1> SUFFICES ASSUME RunInv, [RunNext]_allVars PROVE RunInv'
  OBVIOUS
<1>0. OrderInv'
  BY StepRunnerInv
<1> DEFINE Goal == Loop' /\ Kept' /\ NotStarted' /\ ExitFacts'
<1> SUFFICES Goal
  BY <1>0 DEF RunInv
<1> USE LoopFacts
<1>a. ASSUME UNCHANGED <<selected, folder, coll, stage, summaries, exit, requests,
                         options>>,
             cancelColl' \in 0 .. Len(selected)
      PROVE  Loop' /\ ExitFacts'
  BY <1>a, CountKept DEF Loop, ExitFacts, AnyUnsuccessful
<1>1. CASE LoadFails
  <2>1. Loop'
    BY <1>1, CountKept DEF LoadFails, End, Loop, Exits
  <2>2. ExitFacts'
    BY <1>1 DEF LoadFails, End, ExitFacts
  <2>3. NotStarted'
    BY <1>1 DEF LoadFails, End, NotStarted
  <2> QED  BY <1>1, <2>1, <2>2, <2>3, KeptStep DEF LoadFails, vars, tokenVars, jobVars
<1>2. CASE SkipCollection
  <2>0. coll' = coll + 1 /\ coll + 1 <= Len(selected) /\ selected[coll + 1] = <<>>
    BY <1>2 DEF SkipCollection
  <2>1. Count(coll + 1) = Count(coll)
    <3>1. Count(coll + 1) = Count(coll) + (IF selected[coll + 1] # <<>> THEN 1 ELSE 0)
      BY CountNext
    <3> QED  BY <2>0, <3>1
  <2>2. Loop'
    BY <1>2, <2>0, <2>1, CountKept DEF SkipCollection, Loop
  <2>3. Kept'
    <3>1. IterationCount' = IterationCount /\ UNCHANGED <<selected, summaries, cancelled, cancelColl>>
      BY <1>2 DEF SkipCollection, IterationCount, vars, tokenVars, jobVars
    <3>2. \A c \in 1 .. coll + 1 : c \in 1 .. coll \/ c = coll + 1
      OBVIOUS
    <3> SUFFICES ASSUME NEW c \in 1 .. coll + 1, selected[c] # <<>>,
                        Count(c) \in DOMAIN summaries
                 PROVE  SummaryOf(summaries[Count(c)], c)'
      BY <2>0, <3>1, CountKept DEF Kept
    <3>3. SummaryOf(summaries[Count(c)], c)
      BY <2>0, <3>2 DEF Kept
    <3>4. UNCHANGED <<selected, options, cancelled, cancelColl>> /\ summaries' = summaries
      BY <1>2 DEF SkipCollection, vars, tokenVars, jobVars
    <3> QED  BY <3>3, <3>4, SummaryOfKept
  <2>4. ExitFacts' /\ NotStarted'
    BY <1>2, <2>0 DEF SkipCollection, ExitFacts, NotStarted
  <2> QED  BY <2>2, <2>3, <2>4
<1>3. CASE StartCollection
  <2>0. coll' = coll + 1 /\ coll + 1 <= Len(selected) /\ selected[coll + 1] # <<>>
    BY <1>3 DEF StartCollection
  <2>1. Count(coll + 1) = Count(coll) + 1
    <3>1. Count(coll + 1) = Count(coll) + (IF selected[coll + 1] # <<>> THEN 1 ELSE 0)
      BY CountNext
    <3> QED  BY <2>0, <3>1
  <2>2. Loop'
    BY <1>3, <2>0, <2>1, CountKept DEF StartCollection, Loop
  <2>3. Kept'
    <3>1. IterationCount' = IterationCount /\ UNCHANGED <<selected, summaries, cancelled, cancelColl>>
      BY <1>3 DEF StartCollection, IterationCount, tokenVars
    <3>2. \A c \in 1 .. coll + 1 : c \in 1 .. coll \/ c = coll + 1
      OBVIOUS
    <3>3. Count(coll + 1) \notin DOMAIN summaries
      BY <1>3, <2>1 DEF StartCollection
    <3> SUFFICES ASSUME NEW c \in 1 .. coll + 1, selected[c] # <<>>,
                        Count(c) \in DOMAIN summaries
                 PROVE  SummaryOf(summaries[Count(c)], c)'
      BY <2>0, <3>1, CountKept DEF Kept
    <3>4. SummaryOf(summaries[Count(c)], c)
      BY <3>2, <3>3 DEF Kept
    <3>5. UNCHANGED <<selected, options, cancelled, cancelColl>> /\ summaries' = summaries
      BY <1>3 DEF StartCollection, tokenVars
    <3> QED  BY <3>4, <3>5, SummaryOfKept
  <2>4. NotStarted'
    BY <1>3 DEF StartCollection, NotStarted, Nothing, EmptySummary
  <2>5. ExitFacts'
    BY <1>3 DEF StartCollection, ExitFacts
  <2> QED  BY <2>2, <2>3, <2>4, <2>5
<1>4. CASE RunCollection \/ ServerAnswers
  <2>1. /\ RunnerStep \/ ServerStep
        /\ stage = "running" /\ pc # "done"
        /\ UNCHANGED <<selected, folder, coll, stage, summaries, exit, cancelColl>>
    BY <1>4 DEF RunCollection, ServerAnswers, commandVars
  <2>2. UNCHANGED <<cancelled, requests, options>>
    BY <2>1, RunnerKeeps
  <2>3. Loop' /\ ExitFacts'
    BY <1>a, <2>1, <2>2 DEF Loop
  <2>4. Kept'
    BY <2>1, <2>2, KeptStep
  <2>5. NotStarted'
    <3> SUFFICES ASSUME cancelled, coll > cancelColl
                 PROVE  pc' \in {"top", "done"} /\ start' = 1 /\ Nothing(summary')
      BY <2>1, <2>2 DEF NotStarted, Nothing
    <3>1. pc = "top" /\ start = 1 /\ Nothing(summary)
      BY <2>1 DEF NotStarted
    <3>2. start <= N
      BY <2>1, <3>1 DEF Loop, N
    <3> QED  BY <2>1, <3>1, <3>2, CancelledRunStops DEF Nothing
  <2> QED  BY <2>3, <2>4, <2>5
<1>5. CASE FinishCollection
  <2>1. /\ stage = "running" /\ pc = "done" /\ summaries' = Append(summaries, summary)
        /\ stage' = IF StopsLoop(summary) THEN "report" ELSE "next"
        /\ UNCHANGED <<cancelled, requests, options, selected, folder, coll, exit, cancelColl>>
    BY <1>5 DEF FinishCollection, vars, tokenVars, jobVars
  <2>2. /\ coll >= 1 /\ selected[coll] # <<>> /\ requests = selected[coll]
        /\ Len(summaries) + 1 = Count(coll)
    BY <2>1 DEF Loop
  <2>3. /\ summaries' \in Seq(Summary) /\ Len(summaries') = Len(summaries) + 1
        /\ DOMAIN summaries' = 1 .. Len(summaries) + 1
        /\ \A n \in 1 .. Len(summaries) : summaries'[n] = summaries[n]
        /\ summaries'[Count(coll)] = summary
        /\ Count(coll) \in DOMAIN summaries'
    BY <2>1, <2>2
  <2>4. Loop'
    BY <2>1, <2>2, <2>3, CountKept DEF Loop
  <2>5. SummaryOf(summary, coll)
    <3>1. SuccessIsComplete
      BY CompleteWhenSuccessful
    <3>2. DOMAIN selected[coll] = 1 .. N
      BY <2>2 DEF N
    <3>3. ~summary.cancelled /\ summary.failed = 0 => AllPassed(summary, coll)
      BY <2>1, <3>1, <3>2, SMTT(30) DEF SuccessIsComplete, AllPassed, results
    <3>4. cancelled /\ coll > cancelColl => Nothing(summary)
      BY <2>1 DEF NotStarted
    <3> QED  BY <3>3, <3>4 DEF SummaryOf
  <2>6. Kept'
    <3> SUFFICES ASSUME NEW c \in 1 .. coll, selected[c] # <<>>, Count(c) \in DOMAIN summaries'
                 PROVE  SummaryOf(summaries'[Count(c)], c)
      <4>1. ASSUME NEW c \in 1 .. coll, SummaryOf(summaries'[Count(c)], c)
            PROVE  SummaryOf(summaries[Count(c)], c)'
        BY <2>1, <4>1, SummaryOfKept
      <4> QED  BY <2>1, <4>1, CountKept DEF Kept
    <3>1. CASE c = coll
      BY <2>3, <2>5, <3>1
    <3>2. CASE c # coll
      <4>1. c \in Nat /\ c < coll
        BY <3>2
      <4>2. Count(c) < Count(coll) /\ Count(c) \in Nat
        BY <2>2, <4>1, CountMonotone, CountNext
      <4>3. Count(c) \in DOMAIN summaries
        BY <2>2, <2>3, <4>2
      <4> QED  BY <2>3, <4>3 DEF Kept
    <3> QED  BY <3>1, <3>2
  <2>7. ExitFacts'
    <3>1. StopsLoop(summary) => AnyUnsuccessful'
      BY <2>3 DEF StopsLoop, AnyUnsuccessful
    <3> QED  BY <2>1, <3>1 DEF ExitFacts
  <2>8. NotStarted'
    BY <2>1 DEF NotStarted
  <2> QED  BY <2>4, <2>6, <2>7, <2>8
<1>6. CASE ExitStatus
  <2>1. UNCHANGED <<vars, selected, folder, coll, summaries, cancelColl>> /\ stage' = "exit"
    BY <1>6 DEF ExitStatus, End
  <2>2. exit' \in Exits /\ stage # "running"
    BY <1>6 DEF ExitStatus, End, Exits
  <2>3. Loop'
    BY <2>1, <2>2, CountKept DEF Loop
  <2>4. Kept' /\ NotStarted'
    BY <2>1, KeptStep DEF NotStarted, vars, tokenVars, jobVars
  <2>5. ExitFacts'
    BY <1>6, <2>1 DEF ExitStatus, End, ExitFacts, AnyUnsuccessful, AnyCancelled
  <2> QED  BY <2>3, <2>4, <2>5
<1>7. CASE CtrlC
  <2>1. /\ UNCHANGED <<requests, options, selected, folder, coll, stage, summaries, exit>>
        /\ cancelColl' = coll
    BY <1>7 DEF CtrlC, runnerVars, jobVars
  <2>2. Loop' /\ ExitFacts'
    BY <1>a, <2>1
  <2>3. Kept'
    BY <2>1, KeptStep
  <2>4. NotStarted'
    BY <2>1 DEF NotStarted
  <2> QED  BY <2>2, <2>3, <2>4
<1>8. CASE CtrlCNotifies
  <2>1. UNCHANGED <<cancelled, requests, options, pc, start, summary, commandVars>>
    BY <1>8 DEF CtrlCNotifies, NotifyWaiters, runnerVars, jobVars
  <2>2. Loop' /\ ExitFacts'
    BY <1>a, <2>1 DEF commandVars, Loop
  <2>3. Kept' /\ NotStarted'
    BY <2>1, KeptStep DEF commandVars, NotStarted, Nothing
  <2> QED  BY <2>2, <2>3
<1>9. CASE UNCHANGED allVars
  <2>1. UNCHANGED <<cancelled, requests, options, pc, start, summary, commandVars>>
    BY <1>9 DEF allVars, vars, tokenVars, jobVars
  <2>2. Loop' /\ ExitFacts'
    BY <1>a, <2>1 DEF commandVars, Loop
  <2>3. Kept' /\ NotStarted'
    BY <2>1, KeptStep DEF commandVars, NotStarted, Nothing
  <2> QED  BY <2>2, <2>3
<1> QED
  BY <1>1, <1>2, <1>3, <1>4, <1>5, <1>6, <1>7, <1>8, <1>9 DEF RunNext, Command

(***************************************************************************)
(* What the invariant says                                                 *)
(***************************************************************************)
(* The variables of the command and of the runner keep their types.          *)
THEOREM PostlyRunTypeCorrect == RunSpec => []RunTypeOK
<1>1. RunInv => RunTypeOK
  BY LoopFacts DEF RunTypeOK, Loop, TypeInv
<1> QED  BY <1>1, InitRunInv, StepRunInv, PTL DEF RunSpec

(* Exit status zero means that every selected request of every collection      *)
(* passed in every iteration, and that there was one if --folder was given.    *)
THEOREM PostlyRunExitZero == RunSpec => []ExitZeroMeansAllPassed
<1>1. RunInv => ExitZeroMeansAllPassed
  <2> SUFFICES ASSUME RunInv, exit = "ok" PROVE ExitZeroMeansAllPassed
    BY DEF ExitZeroMeansAllPassed
  <2> USE LoopFacts
  <2>1. /\ stage = "exit" /\ coll = Len(selected) /\ ~AnyUnsuccessful
        /\ folder => summaries # <<>>
    BY DEF ExitFacts
  <2>2. Collections = 1 .. coll /\ Len(summaries) = Count(coll)
    BY <2>1 DEF Collections
  <2>3. ASSUME NEW c \in Collections, selected[c] # <<>>
        PROVE  /\ Count(c) \in DOMAIN summaries
               /\ AllPassed(summaries[Count(c)], c)
    <3>1. c \in Nat /\ c >= 1 /\ c <= coll
      BY <2>2
    <3>2. Count(c) \in Nat /\ Count(c) >= 1 /\ Count(c) <= Count(coll)
      <4>1. c - 1 \in Nat /\ (c - 1) + 1 = c
        BY <3>1
      <4>2. Count(c - 1) \in Nat /\ Count(c) = Count(c - 1) + 1
        BY <2>3, <4>1, CountNext
      <4>3. c < coll => Count(c) <= Count(coll)
        BY <3>1, CountMonotone
      <4> QED  BY <3>1, <4>2, <4>3
    <3>3. Count(c) \in DOMAIN summaries
      BY <2>2, <3>2
    <3>4. summaries[Count(c)] \in Summary
      BY <3>3
    <3>5. ~summaries[Count(c)].cancelled /\ summaries[Count(c)].failed = 0
      <4>1. ~(summaries[Count(c)].failed > 0) /\ ~summaries[Count(c)].cancelled
        BY <2>1, <3>3 DEF AnyUnsuccessful
      <4>2. summaries[Count(c)].failed \in Nat
        BY <3>4, SummaryFields
      <4> QED  BY <4>1, <4>2
    <3> QED  BY <2>2, <2>3, <3>3, <3>5 DEF Kept, SummaryOf
  <2>4. Len(summaries) = Cardinality({c \in Collections : selected[c] # <<>>})
    BY <2>2 DEF Count
  <2> QED  BY <2>1, <2>3, <2>4 DEF ExitZeroMeansAllPassed, Count, AllPassed
<1> QED  BY <1>1, InitRunInv, StepRunInv, PTL DEF RunSpec

(* After Ctrl-C nothing of a later collection runs.                           *)
THEOREM PostlyRunNoLaterCollection == RunSpec => []NoLaterCollection
<1>1. RunInv => NoLaterCollection
  <2> SUFFICES ASSUME RunInv, cancelled, NEW c \in Collections, c > cancelColl,
                      Count(c) \in DOMAIN summaries, selected[c] # <<>>
               PROVE  Nothing(summaries[Count(c)])
    BY DEF NoLaterCollection, Count, Nothing
  <2> USE LoopFacts
  <2>1. c \in Nat /\ c >= 1
    BY DEF Collections
  <2>2. c <= coll
    <3> SUFFICES ASSUME coll < c PROVE FALSE
      BY <2>1
    <3>1. Count(coll) < Count(c) /\ Count(c) \in Nat
      BY <2>1, CountMonotone, CountNext
    <3> QED  BY <3>1
  <2> QED  BY <2>1, <2>2 DEF Kept, SummaryOf
<1> QED  BY <1>1, InitRunInv, StepRunInv, PTL DEF RunSpec
=============================================================================
