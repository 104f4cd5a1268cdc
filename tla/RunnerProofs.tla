---------------------------- MODULE RunnerProofs ----------------------------
(***************************************************************************)
(* Proofs about the collection runner, for any number of requests, any      *)
(* options, any scripts and any moment of cancellation: types and totals;   *)
(* the order in which it works, what it has reported when it ends, what it  *)
(* still does after a failure or a cancellation, which variables a request  *)
(* sees, and that the runner implements the contract RunReport.             *)
(***************************************************************************)
EXTENDS Runner, TLAPS

(* What TypeOK needs to be inductive: between the head of the loop and its   *)
(* end the position is that of a request, items are counted only for a       *)
(* batch, and what flies is a request of the collection.                     *)
Positions ==
  /\ pc \notin {"top", "done"} => start <= N
  /\ pc = "count" => Concurrent
  /\ \A k \in Slots : phase[k] = "flying" => k <= N

TypeInv == TypeOK /\ Positions

(***************************************************************************)
(* The operators on options, items and summaries                           *)
(***************************************************************************)
LEMMA OptionsType ==
  ASSUME options \in Options
  PROVE  /\ options.iterations \in Nat /\ options.concurrency \in Nat
         /\ options.fail_fast \in BOOLEAN /\ options.delay \in BOOLEAN
         /\ options.scripts \in BOOLEAN
         /\ IterationCount \in Nat /\ IterationCount >= 1
  BY RunnerAssumption DEF IterationCount

LEMMA SettledType ==
  ASSUME NEW i \in Nat, NEW k \in Nat, NEW r, r.assertions \in Nat,
         NEW response \in Responses(r)
  PROVE  Settled(i, k, r, response) \in ItemResult
  BY DEF Settled, ItemResult, Responses, Status

LEMMA ErrorSettledType ==
  ASSUME NEW i \in Nat, NEW k \in Nat, NEW r
  PROVE  Settled(i, k, r, ErrorResponse) \in ItemResult
  BY DEF Settled, ItemResult, ErrorResponse, Status

LEMMA TestedType ==
  ASSUME NEW m \in ItemResult, NEW tests \in Nat, NEW bad \in Nat,
         NEW applied \in BOOLEAN
  PROVE  Tested(m, tests, bad, applied) \in ItemResult
<1> DEFINE failures == m.assertion_failures + bad
           error == ~applied \/ m.error \/ failures > 0
<1>1. m.assertions + tests \in Nat /\ failures \in Nat
  BY DEF ItemResult
<1>2. /\ error \in BOOLEAN
      /\ (m.status = "ok" /\ ~error) \in BOOLEAN
  OBVIOUS
<1>3. ASSUME NEW a \in Nat, NEW f \in Nat, NEW e \in BOOLEAN, NEW p \in BOOLEAN
      PROVE  [m EXCEPT !.assertions = a, !.assertion_failures = f,
                       !.error = e, !.passed = p] \in ItemResult
  BY DEF ItemResult
<1> HIDE DEF failures, error
<1>4. [m EXCEPT !.assertions = m.assertions + tests,
                !.assertion_failures = failures,
                !.error = error,
                !.passed = m.status = "ok" /\ ~error] \in ItemResult
  BY <1>1, <1>2, <1>3
<1> QED  BY <1>4 DEF Tested, failures, error

LEMMA CountedType ==
  ASSUME NEW s \in Summary, NEW m \in ItemResult
  PROVE  Counted(s, m) \in Summary
<1> DEFINE good == IF m.passed THEN s.passed + 1 ELSE s.passed
           bad == IF m.passed THEN s.failed ELSE s.failed + 1
<1>1. Append(s.results, m) \in Seq(ItemResult)
  BY DEF Summary
<1>2. m.assertions \in Nat /\ m.assertion_failures \in Nat
  BY DEF ItemResult
<1>3. /\ s.assertions + m.assertions \in Nat
      /\ s.assertion_failures + m.assertion_failures \in Nat
      /\ good \in Nat /\ bad \in Nat
  <2>1. /\ good = s.passed + 1 \/ good = s.passed
        /\ bad = s.failed + 1 \/ bad = s.failed
    BY Zenon
  <2> HIDE DEF good, bad
  <2>2. /\ s.assertions \in Nat /\ s.assertion_failures \in Nat
        /\ s.passed \in Nat /\ s.failed \in Nat
    BY DEF Summary
  <2> QED  BY <1>2, <2>1, <2>2
<1>4. ASSUME NEW a \in Nat, NEW f \in Nat, NEW p \in Nat, NEW q \in Nat,
             NEW r \in Seq(ItemResult)
      PROVE  [s EXCEPT !.assertions = a, !.assertion_failures = f,
                       !.passed = p, !.failed = q, !.results = r] \in Summary
  BY DEF Summary
<1> HIDE DEF good, bad
<1>5. [s EXCEPT !.assertions = s.assertions + m.assertions,
                !.assertion_failures = s.assertion_failures + m.assertion_failures,
                !.passed = good, !.failed = bad,
                !.results = Append(s.results, m)] \in Summary
  BY <1>1, <1>3, <1>4
<1> QED  BY <1>5 DEF Counted, good, bad

LEMMA SeenType ==
  ASSUME NEW s \in Summary, NEW status
  PROVE  Seen(s, status) \in Summary
<1> DEFINE distribution ==
             [t \in {"ok", "bad"} |-> IF t = status THEN s.status_distribution[t] + 1
                                     ELSE s.status_distribution[t]]
<1>1. s.requests + 1 \in Nat /\ distribution \in [{"ok", "bad"} -> Nat]
  BY DEF Summary
<1>2. ASSUME NEW n \in Nat, NEW d \in [{"ok", "bad"} -> Nat]
      PROVE  [s EXCEPT !.requests = n, !.status_distribution = d] \in Summary
  BY DEF Summary
<1> HIDE DEF distribution
<1>3. [s EXCEPT !.requests = s.requests + 1,
                !.status_distribution = distribution] \in Summary
  BY <1>1, <1>2
<1> QED  BY <1>3 DEF Seen, distribution

(***************************************************************************)
(* Type correctness                                                        *)
(***************************************************************************)
(* What the invariant gives about the collection and the current batch.      *)
LEMMA PositionFacts ==
  ASSUME TypeInv
  PROVE  /\ N \in Nat /\ MaxRequests \in Nat /\ N <= MaxRequests
         /\ IterationCount \in Nat /\ IterationCount >= 1
         /\ iter \in Nat /\ start \in Nat /\ cursor \in Nat /\ start >= 1
         /\ \A k \in 1 .. N : requests[k] \in Request /\ requests[k].assertions \in Nat
         /\ request_to_run.assertions \in Nat
         /\ start <= N => start \in Slots
         /\ start <= N => BatchEnd \in start .. N /\ Batch \subseteq 1 .. N
<1> USE DEF TypeInv, TypeOK
<1>1. N \in Nat /\ MaxRequests \in Nat /\ N <= MaxRequests
  BY RunnerAssumption DEF N
<1>2. IterationCount \in Nat /\ IterationCount >= 1 /\ options.concurrency \in Nat
  BY OptionsType
<1>3. iter \in Nat /\ start \in Nat /\ cursor \in Nat /\ start >= 1
  BY <1>1, <1>2
<1>4. \A r \in Request : r.assertions \in Nat
  BY RunnerAssumption
<1>5. \A k \in 1 .. N : requests[k] \in Request
  BY DEF N
<1>6. request_to_run.assertions \in Nat
  BY <1>4 DEF NoRequest
<1>7. ASSUME start <= N
      PROVE  start \in Slots /\ BatchEnd \in start .. N /\ Batch \subseteq 1 .. N
  BY <1>1, <1>2, <1>3, <1>7 DEF Slots, BatchEnd, Batch, Concurrent
<1> QED  BY <1>1, <1>2, <1>3, <1>4, <1>5, <1>6, <1>7

LEMMA InitTypeInv == Init => TypeInv
<1> SUFFICES ASSUME Init PROVE TypeInv
  OBVIOUS
<1>1. PICK n \in 0 .. MaxRequests : requests \in [1 .. n -> Request]
  BY DEF Init
<1>2. requests \in Seq(Request) /\ N = n /\ n \in Nat
  BY <1>1, RunnerAssumption DEF N
<1>3. N <= MaxRequests
  BY <1>1, <1>2, RunnerAssumption
<1>4. options \in Options /\ 1 \in 1 .. IterationCount
  BY OptionsType DEF Init
<1>5. EmptySummary \in Summary
  BY DEF EmptySummary, Summary
<1>6. \A k \in Slots : Settled(1, k, NoRequest, ErrorResponse) \in ItemResult
  BY ErrorSettledType, RunnerAssumption DEF Slots
<1>7. item \in [Slots -> ItemResult]
  BY <1>6 DEF Init
<1>8. TokenTypeOK
  BY RunnerAssumption DEF Init, TokenInit, TokenTypeOK, NotifyState, WaiterState
<1> QED
  BY <1>2, <1>3, <1>4, <1>5, <1>7, <1>8 DEF Init, TypeInv, TypeOK, Positions, Pcs

(* Parts of actions that several actions share.                              *)
LEMMA StopCancelledType ==
  ASSUME TypeInv, StopCancelled
  PROVE  pc' = "done" /\ summary' \in Summary
<1>1. summary \in Summary
  BY DEF TypeInv, TypeOK
<1>2. [summary EXCEPT !.cancelled = TRUE] \in Summary
  BY <1>1 DEF Summary
<1> QED  BY <1>2 DEF StopCancelled

LEMMA LaunchType ==
  ASSUME TypeInv, NEW ks \in SUBSET (1 .. N), Launch(ks)
  PROVE  /\ pc' = "flight"
         /\ phase' \in [Slots -> {"idle", "flying", "ready", "dropped"}]
         /\ waiter' \in [Waiters -> WaiterState]
         /\ \A k \in Slots : phase'[k] = "flying" => k <= N
<1>1. /\ phase \in [Slots -> {"idle", "flying", "ready", "dropped"}]
      /\ waiter \in [Waiters -> WaiterState]
      /\ \A k \in Slots : phase[k] = "flying" => k <= N
  BY DEF TypeInv, TypeOK, TokenTypeOK, Positions
<1>2. "flying" \in {"idle", "flying", "ready", "dropped"} /\ "unchecked" \in WaiterState
  BY DEF WaiterState
<1>3. \A k \in ks : k <= N
  BY PositionFacts
<1> QED  BY <1>1, <1>2, <1>3, RunnerAssumption DEF Launch

LEMMA BeginRequestType ==
  ASSUME TypeInv, start <= N, BeginRequest
  PROVE  /\ pc' \in {"pre", "flight"}
         /\ request_context' \subseteq ScriptRun
         /\ request_to_run' \in Request
         /\ phase' \in [Slots -> {"idle", "flying", "ready", "dropped"}]
         /\ waiter' \in [Waiters -> WaiterState]
         /\ \A k \in Slots : phase'[k] = "flying" => k <= N
<1>1. start \in 1 .. N
  BY PositionFacts
<1>2. request_context' \subseteq ScriptRun
  BY DEF BeginRequest, TypeInv, TypeOK
<1>3. request_to_run' \in Request
  BY <1>1, PositionFacts DEF BeginRequest
<1>4. CASE Launch({start})
  BY <1>1, <1>2, <1>3, <1>4, LaunchType
<1>5. CASE /\ pc' = "pre" /\ waiter' = [waiter EXCEPT ![start] = "off"]
           /\ UNCHANGED phase
  BY <1>2, <1>3, <1>5 DEF TypeInv, TypeOK, TokenTypeOK, Positions, WaiterState
<1> QED  BY <1>4, <1>5 DEF BeginRequest

LEMMA ApplyVariablesType ==
  ASSUME TypeInv, NEW stage \in {"pre", "test"}, ApplyVariables(stage)
  PROVE  request_context' \subseteq ScriptRun /\ ran' \subseteq ScriptRun
<1>1. <<iter, start, stage>> \in ScriptRun
  BY PositionFacts DEF ScriptRun
<1> QED  BY <1>1 DEF ApplyVariables, TypeInv, TypeOK

LEMMA SettleErrorType ==
  ASSUME TypeInv, start <= N, SettleError
  PROVE  /\ pc' = "record"
         /\ summary' \in Summary
         /\ item' \in [Slots -> ItemResult]
<1>1. summary' \in Summary
  BY SeenType DEF SettleError, TypeInv, TypeOK
<1>2. Settled(iter, start, request_to_run, ErrorResponse) \in ItemResult
  BY PositionFacts, ErrorSettledType
<1> QED  BY <1>1, <1>2 DEF SettleError, TypeInv, TypeOK

LEMMA LateType ==
  ASSUME TypeInv, NEW k \in Nat
  PROVE  NowLate(k) \subseteq Nat \X Nat
  BY PositionFacts DEF NowLate, Unit, TypeInv, TypeOK

LEMMA CountPlace ==
  ASSUME TypeInv, CountItem
  PROVE  start <= N /\ cursor \in 1 .. N /\ cursor \in Slots
<1>1. pc = "count" /\ cursor <= BatchEnd
  BY DEF CountItem
<1>2. start <= N
  BY <1>1 DEF TypeInv, Positions
<1>3. N \in Nat /\ MaxRequests \in Nat /\ N <= MaxRequests /\ start \in Nat
  BY PositionFacts
<1>4. BatchEnd \in start .. N
  BY <1>2, PositionFacts
<1>5. cursor \in Nat /\ cursor >= 1
  BY <1>3 DEF TypeInv, TypeOK
<1> QED  BY <1>1, <1>2, <1>3, <1>4, <1>5 DEF Slots

LEMMA StepTypeInv == TypeInv /\ [Next]_vars => TypeInv'
<1> SUFFICES ASSUME TypeInv, [Next]_vars PROVE TypeInv'
  OBVIOUS
<1> USE PositionFacts, RunnerAssumption
<1> USE DEF TypeInv, TypeOK, TokenTypeOK, Positions, tokenVars, jobVars,
            contextVars, N, IterationCount, Concurrent, Pcs
<1>1. CASE TopCancelled
  BY <1>1, StopCancelledType DEF TopCancelled
<1>2. CASE NextIteration
  BY <1>2, SMTT(30) DEF NextIteration, FreshContext
<1>3. CASE LaunchBatch
  <2>1. start <= N /\ Launch(Batch)
    BY <1>3 DEF LaunchBatch, MayStart
  <2>2. Batch \in SUBSET (1 .. N)
    BY <2>1
  <2> HIDE DEF N
  <2> QED  BY <1>3, <2>1, <2>2, LaunchType DEF LaunchBatch, N
<1>4. CASE Join
  BY <1>4 DEF Join
<1>5. CASE CountItem
  <2>1. start <= N /\ cursor \in 1 .. N /\ cursor \in Slots
    BY <1>5, CountPlace
  <2>2. summary' \in Summary
    BY <1>5, <2>1, CountedType, SeenType DEF CountItem
  <2>3. late' \subseteq Nat \X Nat
    <3>1. NowLate(cursor) \subseteq Nat \X Nat
      BY LateType
    <3>2. late' = NowLate(cursor) \/ late' = late
      BY <1>5 DEF CountItem
    <3> QED  BY <3>1, <3>2
  <2>4. cursor' \in 1 .. N + 1
    BY <1>5, <2>1 DEF CountItem
  <2> QED  BY <1>5, <2>2, <2>3, <2>4 DEF CountItem
<1>6. CASE EndBatch
  <2>1. start <= N /\ AfterBatch \in 1 .. N + 1
    BY <1>6, SMTT(30) DEF EndBatch, AfterBatch
  <2>2. summary' \in Summary
    BY <1>6, StopCancelledType DEF EndBatch
  <2>3. start' \in 1 .. N + 1 /\ pc' \in {"top", "done"}
    BY <1>6, <2>1 DEF EndBatch, StopCancelled
  <2>4. /\ phase' \in [Slots -> {"idle", "flying", "ready", "dropped"}]
        /\ \A k \in Slots : phase'[k] = "flying" => k <= N
    BY <1>6 DEF EndBatch
  <2> QED  BY <1>6, <2>2, <2>3, <2>4 DEF EndBatch
<1>7. ASSUME NEW k \in Slots, DropConcurrent(k) PROVE TypeInv'
  BY <1>7 DEF DropConcurrent, WaiterState
<1>8. CASE TakeRequest
  <2>1. start <= N /\ start \in Slots
    BY <1>8 DEF TakeRequest, MayStart
  <2>2. CASE BeginRequest
    BY <1>8, <2>1, <2>2, BeginRequestType DEF TakeRequest
  <2>3. CASE ~BeginRequest
    BY <1>8, <2>1, <2>3 DEF TakeRequest, WaiterState
  <2> QED  BY <2>2, <2>3
<1>9. CASE DelayElapsed
  <2>1. start <= N /\ BeginRequest
    BY <1>9 DEF DelayElapsed
  <2> QED  BY <1>9, <2>1, BeginRequestType DEF DelayElapsed
<1>10. CASE DelayCancelled
  BY <1>10, StopCancelledType DEF DelayCancelled, WaiterState
<1>11. CASE StartPreScript
  <2>1. start <= N /\ summary' \in Summary /\ pc' \in {"prerun", "done"}
    BY <1>11, StopCancelledType DEF StartPreScript, StartScript
  <2> QED  BY <1>11, <2>1 DEF StartPreScript, StartScript
<1>12. CASE PreScriptOk
  <2>1. {start} \in SUBSET (1 .. N) /\ start <= N
    BY <1>12 DEF PreScriptOk
  <2>2. request_context' \subseteq ScriptRun /\ ran' \subseteq ScriptRun
    BY <1>12, ApplyVariablesType DEF PreScriptOk
  <2> HIDE DEF N
  <2> QED  BY <1>12, <2>1, <2>2, LaunchType DEF PreScriptOk, N
<1>13. CASE PreScriptInvalidRequest
  <2>1. start <= N
    BY <1>13 DEF PreScriptInvalidRequest
  <2>2. request_context' \subseteq ScriptRun /\ ran' \subseteq ScriptRun
    BY <1>13, ApplyVariablesType DEF PreScriptInvalidRequest
  <2> QED  BY <1>13, <2>1, <2>2, SettleErrorType DEF PreScriptInvalidRequest
<1>14. CASE PreScriptErr
  <2>1. start <= N
    BY <1>14 DEF PreScriptErr
  <2> QED  BY <1>14, <2>1, SettleErrorType, StopCancelledType DEF PreScriptErr
<1>15. CASE Drop
  <2>1. start \in Slots /\ pc' = "done" /\ summary' \in Summary
    BY <1>15, StopCancelledType DEF Drop
  <2>2. /\ phase' \in [Slots -> {"idle", "flying", "ready", "dropped"}]
        /\ waiter' \in [Waiters -> WaiterState]
        /\ \A k \in Slots : phase'[k] = "flying" => k <= N
    BY <1>15, <2>1 DEF Drop, WaiterState
  <2> QED  BY <1>15, <2>1, <2>2 DEF Drop
<1>16. CASE StartTestScript
  <2>1. start <= N /\ summary' \in Summary /\ pc' \in {"testrun", "done"}
    BY <1>16, StopCancelledType DEF StartTestScript, StartScript
  <2> QED  BY <1>16, <2>1 DEF StartTestScript, StartScript
<1>17. CASE TestScriptOk
  <2>1. start <= N /\ start \in Slots
    BY <1>17 DEF TestScriptOk
  <2>2. request_context' \subseteq ScriptRun /\ ran' \subseteq ScriptRun
    BY <1>17, ApplyVariablesType DEF TestScriptOk
  <2>3. PICK tests \in 0 .. MaxTests, applied \in BOOLEAN :
          \E bad \in 0 .. tests :
            item' = [item EXCEPT ![start] = Tested(item[start], tests, bad, applied)]
    BY <1>17 DEF TestScriptOk
  <2>4. PICK bad \in 0 .. tests :
          item' = [item EXCEPT ![start] = Tested(item[start], tests, bad, applied)]
    BY <2>3
  <2>5. tests \in Nat /\ bad \in Nat /\ item[start] \in ItemResult
    BY <2>1
  <2>6. Tested(item[start], tests, bad, applied) \in ItemResult
    BY <2>5, TestedType
  <2>7. item' \in [Slots -> ItemResult]
    BY <2>1, <2>4, <2>6
  <2> QED  BY <1>17, <2>1, <2>2, <2>7 DEF TestScriptOk
<1>18. CASE TestScriptErr
  <2>1. start <= N /\ start \in Slots
    BY <1>18 DEF TestScriptErr
  <2>2. item[start] \in ItemResult
    BY <2>1
  <2>3. [item[start] EXCEPT !.error = TRUE, !.passed = FALSE] \in ItemResult
    BY <2>2 DEF ItemResult
  <2>4. [item EXCEPT ![start].error = TRUE, ![start].passed = FALSE]
          = [item EXCEPT ![start] = [item[start] EXCEPT !.error = TRUE, !.passed = FALSE]]
    BY <2>1
  <2>5. item' \in [Slots -> ItemResult]
    BY <1>18, <2>1, <2>3, <2>4 DEF TestScriptErr
  <2>6. summary' \in Summary /\ pc' \in {"record", "done"}
    BY <1>18, StopCancelledType DEF TestScriptErr
  <2> QED  BY <1>18, <2>1, <2>5, <2>6 DEF TestScriptErr
<1>19. CASE RecordItem
  <2>1. start <= N /\ start \in Slots
    BY <1>19 DEF RecordItem
  <2>2. summary' \in Summary
    BY <1>19, <2>1, CountedType DEF RecordItem
  <2>3. late' \subseteq Nat \X Nat
    BY <1>19, <2>1, LateType DEF RecordItem
  <2>4. start' \in 1 .. N + 1 /\ pc' \in {"top", "done"}
    BY <1>19, <2>1, SMTT(30) DEF RecordItem
  <2> QED  BY <1>19, <2>2, <2>3, <2>4 DEF RecordItem
<1>20. ASSUME NEW k \in Slots, TokenStep(CheckFlag(k)) PROVE TypeInv'
  BY <1>20 DEF CheckFlag, TokenStep, WaiterState, NotifyState
<1>21. ASSUME NEW k \in Slots, TokenStep(Park(k)) PROVE TypeInv'
  BY <1>21 DEF Park, TokenStep, WaiterState, NotifyState
<1>22. CASE Respond
  <2>1. start <= N /\ start \in Slots
    BY <1>22 DEF Respond
  <2>2. PICK response \in Responses(request_to_run) :
          /\ item' = [item EXCEPT ![start] = Settled(iter, start, request_to_run, response)]
          /\ summary' = Seen(summary, response.status)
          /\ pc' \in {"test", "record"}
    BY <1>22 DEF Respond
  <2>3. summary' \in Summary
    BY <2>2, SeenType
  <2>4. Settled(iter, start, request_to_run, response) \in ItemResult
    BY <2>2, SettledType
  <2>5. item' \in [Slots -> ItemResult]
    BY <2>1, <2>2, <2>4
  <2>6. /\ phase' \in [Slots -> {"idle", "flying", "ready", "dropped"}]
        /\ waiter' \in [Waiters -> WaiterState]
        /\ \A k \in Slots : phase'[k] = "flying" => k <= N
    BY <1>22, <2>1 DEF Respond, WaiterState
  <2> QED  BY <1>22, <2>1, <2>2, <2>3, <2>5, <2>6 DEF Respond
<1>23. ASSUME NEW k \in Slots, RespondConcurrent(k) PROVE TypeInv'
  <2>1. k \in 1 .. N /\ k \in Nat
    BY <1>23 DEF RespondConcurrent, Slots
  <2>2. PICK response \in Responses(requests[k]) :
          item' = [item EXCEPT ![k] = Settled(iter, k, requests[k], response)]
    BY <1>23 DEF RespondConcurrent
  <2>3. Settled(iter, k, requests[k], response) \in ItemResult
    BY <2>1, SettledType
  <2>4. item' \in [Slots -> ItemResult]
    BY <2>2, <2>3
  <2>5. /\ phase' \in [Slots -> {"idle", "flying", "ready", "dropped"}]
        /\ waiter' \in [Waiters -> WaiterState]
        /\ \A j \in Slots : phase'[j] = "flying" => j <= N
    BY <1>23 DEF RespondConcurrent, WaiterState
  <2> QED  BY <1>23, <2>4, <2>5 DEF RespondConcurrent
<1>24. CASE TokenStep(Cancel)
  BY <1>24 DEF Cancel, TokenStep, StoreFlag, NotifyState
<1>25. CASE TokenStep(NotifyWaiters)
  BY <1>25 DEF NotifyWaiters, TokenStep, WaiterState, NotifyState
<1>26. CASE UNCHANGED vars
  BY <1>26 DEF vars
<1> QED
  BY <1>1, <1>2, <1>3, <1>4, <1>5, <1>6, <1>7, <1>8, <1>9, <1>10, <1>11,
     <1>12, <1>13, <1>14, <1>15, <1>16, <1>17, <1>18, <1>19, <1>20,
     <1>21, <1>22, <1>23, <1>24, <1>25, <1>26
     DEF Next, RunnerStep, ServerStep

(* Every variable of `run_requests` keeps its type and every position stays   *)
(* inside the collection, for collections and batches of any size.            *)
THEOREM RunnerTypeCorrect == Spec => []TypeOK
<1>1. TypeInv => TypeOK
  BY DEF TypeInv
<1> QED  BY InitTypeInv, StepTypeInv, <1>1, PTL DEF Spec

(***************************************************************************)
(* The summary                                                             *)
(***************************************************************************)
(* What SummaryAddsUp says of the summary alone, ...                         *)
Accounts(s) ==
  /\ s.passed + s.failed = Len(s.results)
  /\ s.failed = 0 => \A r \in DOMAIN s.results : s.results[r].passed
  /\ s.passed = 0 => \A r \in DOMAIN s.results : ~s.results[r].passed
  /\ s.status_distribution["ok"] + s.status_distribution["bad"] <= s.requests

(* ... and, at each position, whether a request is counted that has no item   *)
(* among the results yet: SummaryAddsUp does not say so of every position,    *)
(* and is not inductive without it.                                           *)
Judging == {"test", "testrun", "record"}
Pending ==
  /\ pc \in Judging => summary.requests = Len(results) + 1
  /\ pc \in Pcs \ (Judging \cup {"done"}) => summary.requests = Len(results)
  /\ pc = "done" => \/ summary.requests = Len(results)
                    \/ summary.requests = Len(results) + 1 /\ summary.cancelled

SummaryInv == TypeInv /\ Accounts(summary) /\ Pending

LEMMA SummaryFields ==
  ASSUME NEW s \in Summary
  PROVE  /\ s.requests \in Nat /\ s.passed \in Nat /\ s.failed \in Nat
         /\ s.results \in Seq(ItemResult) /\ Len(s.results) \in Nat
         /\ s.status_distribution["ok"] \in Nat
         /\ s.status_distribution["bad"] \in Nat
<1>1. s.results \in Seq(ItemResult)
  BY DEF Summary
<1> QED  BY <1>1 DEF Summary

LEMMA CountedAccounts ==
  ASSUME NEW s \in Summary, NEW m \in ItemResult, Accounts(s)
  PROVE  /\ Accounts(Counted(s, m))
         /\ Counted(s, m).requests = s.requests
         /\ Len(Counted(s, m).results) = Len(s.results) + 1
<1> DEFINE t == Counted(s, m)
<1>1. /\ t.requests = s.requests
      /\ t.status_distribution = s.status_distribution
      /\ t.results = Append(s.results, m)
      /\ t.passed = IF m.passed THEN s.passed + 1 ELSE s.passed
      /\ t.failed = IF m.passed THEN s.failed ELSE s.failed + 1
  BY DEF Counted, Summary
<1> HIDE DEF t
<1>0. /\ s.requests \in Nat /\ s.passed \in Nat /\ s.failed \in Nat
      /\ Len(s.results) \in Nat
      /\ s.passed + s.failed = Len(s.results)
  BY SummaryFields DEF Accounts
<1>2. /\ Len(t.results) = Len(s.results) + 1
      /\ DOMAIN t.results = 1 .. Len(s.results) + 1
      /\ \A r \in 1 .. Len(s.results) : t.results[r] = s.results[r]
      /\ t.results[Len(s.results) + 1] = m
  BY <1>1, SummaryFields
<1>3. DOMAIN s.results = 1 .. Len(s.results)
  BY SummaryFields
<1>4. \A r \in DOMAIN t.results : r \in DOMAIN s.results \/ r = Len(s.results) + 1
  BY <1>2, <1>3, SummaryFields
<1>5. ASSUME m.passed PROVE Accounts(t)
  <2>1. t.passed = s.passed + 1 /\ t.failed = s.failed
    BY <1>1, <1>5
  <2>2. t.failed = 0 => \A r \in DOMAIN t.results : t.results[r].passed
    BY <1>2, <1>3, <1>4, <1>5, <2>1 DEF Accounts
  <2>3. t.passed # 0 /\ t.passed + t.failed = Len(t.results)
    BY <1>0, <1>2, <2>1, SMTT(30)
  <2> QED  BY <1>1, <2>2, <2>3 DEF Accounts
<1>6. ASSUME ~m.passed PROVE Accounts(t)
  <2>1. t.passed = s.passed /\ t.failed = s.failed + 1
    BY <1>1, <1>6
  <2>2. t.passed = 0 => \A r \in DOMAIN t.results : ~t.results[r].passed
    BY <1>2, <1>3, <1>4, <1>6, <2>1 DEF Accounts
  <2>3. t.failed # 0 /\ t.passed + t.failed = Len(t.results)
    <3>1. Len(t.results) = Len(s.results) + 1
      BY <1>2
    <3> QED  BY <1>0, <2>1, <3>1, SMTT(30)
  <2> QED  BY <1>1, <2>2, <2>3 DEF Accounts
<1>7. Accounts(t)
  BY <1>5, <1>6
<1> QED  BY <1>1, <1>2, <1>7 DEF t

LEMMA SeenAccounts ==
  ASSUME NEW s \in Summary, NEW status, Accounts(s)
  PROVE  /\ Accounts(Seen(s, status))
         /\ Seen(s, status).requests = s.requests + 1
         /\ Seen(s, status).results = s.results
<1> DEFINE t == Seen(s, status)
<1>1. /\ t.requests = s.requests + 1 /\ t.results = s.results
      /\ t.passed = s.passed /\ t.failed = s.failed
      /\ \A w \in {"ok", "bad"} : t.status_distribution[w]
           = IF w = status THEN s.status_distribution[w] + 1 ELSE s.status_distribution[w]
  BY DEF Seen, Summary
<1> HIDE DEF t
<1>2. t.status_distribution["ok"] + t.status_distribution["bad"] <= t.requests
  <2>1. /\ s.requests \in Nat
        /\ s.status_distribution["ok"] \in Nat /\ s.status_distribution["bad"] \in Nat
        /\ s.status_distribution["ok"] + s.status_distribution["bad"] <= s.requests
    BY SummaryFields DEF Accounts
  <2>2. CASE status = "ok"
    BY <1>1, <2>1, <2>2
  <2>3. CASE status # "ok"
    BY <1>1, <2>1, <2>3
  <2> QED  BY <2>2, <2>3
<1> QED  BY <1>1, <1>2 DEF Accounts, t

LEMMA StopCancelledAccounts ==
  ASSUME SummaryInv, StopCancelled, pc \in Pcs \ {"done"}
  PROVE  Accounts(summary') /\ Pending'
<1>1. summary \in Summary
  BY DEF SummaryInv, TypeInv, TypeOK
<1>2. /\ summary'.requests = summary.requests /\ summary'.results = summary.results
      /\ summary'.passed = summary.passed /\ summary'.failed = summary.failed
      /\ summary'.status_distribution = summary.status_distribution
      /\ summary'.cancelled
  BY <1>1 DEF StopCancelled, Summary
<1>3. pc' = "done"
  BY DEF StopCancelled
<1> QED  BY <1>2, <1>3 DEF SummaryInv, Accounts, Pending, results, Judging

(* A step that leaves the summary alone and does not change whether a request *)
(* is being judged.                                                           *)
LEMMA SameSummary ==
  ASSUME SummaryInv, UNCHANGED summary, pc' \in Pcs, pc # "done",
         pc' # "done", pc \in Judging <=> pc' \in Judging
  PROVE  Accounts(summary') /\ Pending'
  BY DEF SummaryInv, TypeInv, TypeOK, Pending, results, Accounts

LEMMA SameOrDone ==
  ASSUME SummaryInv, UNCHANGED <<summary, pc>>
  PROVE  Accounts(summary') /\ Pending'
  BY DEF SummaryInv, Pending, results, Accounts

(* Where no request is being judged the loop may also go on, or end.         *)
LEMMA SettledSummary ==
  ASSUME SummaryInv, UNCHANGED summary, pc \in {"top", "count"},
         pc' \in {"top", "done"}
  PROVE  Accounts(summary') /\ Pending'
<1>1. summary.requests = Len(summary.results)
  BY DEF SummaryInv, Pending, results, Judging, Pcs
<1> QED  BY <1>1 DEF SummaryInv, Pending, results, Accounts, Judging

(* A request is counted, and its item is judged from now on.                 *)
LEMMA JudgedNext ==
  ASSUME SummaryInv, pc \in Pcs \ (Judging \cup {"done"}), pc' \in Judging,
         NEW status, summary' = Seen(summary, status)
  PROVE  Accounts(summary') /\ Pending'
<1>1. summary \in Summary /\ Accounts(summary)
  BY DEF SummaryInv, TypeInv, TypeOK
<1>2. Accounts(summary') /\ summary'.requests = summary.requests + 1
      /\ summary'.results = summary.results
  BY <1>1, SeenAccounts
<1>3. summary.requests = Len(summary.results)
  BY DEF SummaryInv, Pending, results
<1> QED  BY <1>2, <1>3 DEF Pending, results, Judging

LEMMA StepSummaryInv == SummaryInv /\ [Next]_vars => SummaryInv'
<1> SUFFICES ASSUME SummaryInv, [Next]_vars PROVE SummaryInv'
  OBVIOUS
<1>0. TypeInv'
  BY StepTypeInv DEF SummaryInv
<1> SUFFICES Accounts(summary') /\ Pending'
  BY <1>0 DEF SummaryInv, Accounts
<1>a. /\ TypeInv /\ summary \in Summary /\ pc \in Pcs
      /\ Accounts(summary) /\ Pending
  BY DEF SummaryInv, TypeInv, TypeOK
<1>1. CASE TopCancelled
  BY <1>1, StopCancelledAccounts DEF TopCancelled, Pcs
<1>2. CASE NextIteration
  BY <1>2, SettledSummary DEF NextIteration, Pcs, Judging
<1>3. CASE LaunchBatch
  BY <1>3, SameSummary DEF LaunchBatch, MayStart, Launch, Pcs, Judging
<1>4. CASE Join
  BY <1>4, SameSummary DEF Join, Pcs, Judging
<1>5. CASE CountItem
  <2>1. item[cursor] \in ItemResult
    BY <1>5, <1>a, PositionFacts, SMTT(30) DEF CountItem, SummaryInv, TypeInv, TypeOK, Slots, Positions
  <2>2. CASE phase[cursor] = "ready"
    BY <1>5, <1>a, <2>1, <2>2, SeenAccounts, CountedAccounts, SeenType
       DEF CountItem, Pending, results, Pcs, Judging
  <2>3. CASE phase[cursor] # "ready"
    BY <1>5, <1>a, <2>3, SameSummary DEF CountItem, Pcs, Judging
  <2> QED  BY <2>2, <2>3
<1>6. CASE EndBatch
  <2>1. CASE StopCancelled
    BY <1>6, <2>1, StopCancelledAccounts DEF EndBatch, Pcs
  <2>2. CASE UNCHANGED summary /\ pc' \in {"top", "done"}
    BY <1>6, <2>2, SettledSummary DEF EndBatch, Pcs, Judging
  <2> QED  BY <1>6, <2>1, <2>2 DEF EndBatch
<1>7. ASSUME NEW k \in Slots, DropConcurrent(k) PROVE Accounts(summary') /\ Pending'
  BY <1>7, SameSummary DEF DropConcurrent, Pcs, Judging
<1>8. CASE TakeRequest
  BY <1>8, SameSummary DEF TakeRequest, MayStart, BeginRequest, Launch, Pcs, Judging
<1>9. CASE DelayElapsed
  BY <1>9, SameSummary DEF DelayElapsed, BeginRequest, Launch, Pcs, Judging
<1>10. CASE DelayCancelled
  BY <1>10, StopCancelledAccounts DEF DelayCancelled, Pcs
<1>11. CASE StartPreScript
  <2>1. CASE StopCancelled
    BY <1>11, <2>1, StopCancelledAccounts DEF StartPreScript, StartScript, Pcs
  <2>2. CASE UNCHANGED summary /\ pc' = "prerun"
    BY <1>11, <2>2, SameSummary DEF StartPreScript, StartScript, Pcs, Judging
  <2> QED  BY <1>11, <2>1, <2>2 DEF StartPreScript, StartScript
<1>12. CASE PreScriptOk
  BY <1>12, SameSummary DEF PreScriptOk, Launch, Pcs, Judging
<1>13. CASE PreScriptInvalidRequest
  BY <1>13, JudgedNext DEF PreScriptInvalidRequest, SettleError, Judging, Pcs
<1>14. CASE PreScriptErr
  <2>1. CASE StopCancelled
    BY <1>14, <2>1, StopCancelledAccounts DEF PreScriptErr, Pcs
  <2>2. CASE SettleError
    BY <1>14, <2>2, JudgedNext DEF PreScriptErr, SettleError, Judging, Pcs
  <2> QED  BY <1>14, <2>1, <2>2 DEF PreScriptErr
<1>15. CASE Drop
  BY <1>15, StopCancelledAccounts DEF Drop, Pcs
<1>16. CASE StartTestScript
  <2>1. CASE StopCancelled
    BY <1>16, <2>1, StopCancelledAccounts DEF StartTestScript, StartScript, Pcs
  <2>2. CASE UNCHANGED summary /\ pc' = "testrun"
    BY <1>16, <2>2, SameSummary DEF StartTestScript, StartScript, Pcs, Judging
  <2> QED  BY <1>16, <2>1, <2>2 DEF StartTestScript, StartScript
<1>17. CASE TestScriptOk
  BY <1>17, SameSummary DEF TestScriptOk, Pcs, Judging
<1>18. CASE TestScriptErr
  <2>1. CASE StopCancelled
    BY <1>18, <2>1, StopCancelledAccounts DEF TestScriptErr, Pcs
  <2>2. CASE UNCHANGED summary /\ pc' = "record"
    BY <1>18, <2>2, SameSummary DEF TestScriptErr, Pcs, Judging
  <2> QED  BY <1>18, <2>1, <2>2 DEF TestScriptErr
<1>19. CASE RecordItem
  <2>1. item[start] \in ItemResult
    BY <1>19, <1>a, PositionFacts DEF RecordItem, SummaryInv, TypeInv, TypeOK, Positions
  <2>2. summary' = Counted(summary, item[start]) /\ pc' \in {"top", "done"}
    BY <1>19, <1>a DEF RecordItem
  <2>3. summary.requests = Len(summary.results) + 1
    BY <1>19, <1>a DEF RecordItem, Pending, results, Judging
  <2>4. summary'.requests = Len(summary'.results) /\ Accounts(summary')
    BY <1>a, <2>1, <2>2, <2>3, CountedAccounts
  <2> QED  BY <2>2, <2>4 DEF Pending, results, Judging
<1>20. ASSUME NEW k \in Slots, TokenStep(CheckFlag(k)) PROVE Accounts(summary') /\ Pending'
  BY <1>20, SameOrDone DEF TokenStep
<1>21. ASSUME NEW k \in Slots, TokenStep(Park(k)) PROVE Accounts(summary') /\ Pending'
  BY <1>21, SameOrDone DEF TokenStep
<1>22. CASE Respond
  BY <1>22, JudgedNext DEF Respond, Judging, Pcs
<1>23. ASSUME NEW k \in Slots, RespondConcurrent(k) PROVE Accounts(summary') /\ Pending'
  BY <1>23, SameSummary DEF RespondConcurrent, Pcs, Judging
<1>24. CASE TokenStep(Cancel)
  BY <1>24, SameOrDone DEF TokenStep
<1>25. CASE TokenStep(NotifyWaiters)
  BY <1>25, SameOrDone DEF TokenStep
<1>26. CASE UNCHANGED vars
  BY <1>26, SameOrDone DEF vars
<1> QED
  BY <1>1, <1>2, <1>3, <1>4, <1>5, <1>6, <1>7, <1>8, <1>9, <1>10, <1>11,
     <1>12, <1>13, <1>14, <1>15, <1>16, <1>17, <1>18, <1>19, <1>20,
     <1>21, <1>22, <1>23, <1>24, <1>25, <1>26
     DEF Next, RunnerStep, ServerStep

(* The summary adds up at every moment of every run, however many requests,   *)
(* iterations and scripts it has and whenever it is cancelled.                *)
THEOREM RunnerSummaryAddsUp == Spec => []SummaryAddsUp
<1>1. Init => SummaryInv
  <2> SUFFICES ASSUME Init PROVE SummaryInv
    OBVIOUS
  <2>1. summary = EmptySummary /\ pc = "top"
    BY DEF Init
  <2> QED  BY <2>1, InitTypeInv
           DEF SummaryInv, Accounts, Pending, EmptySummary, results, Judging
<1>2. SummaryInv => SummaryAddsUp
  <2> SUFFICES ASSUME SummaryInv PROVE SummaryAddsUp
    OBVIOUS
  <2>1. Len(results) \in Nat /\ pc \in Pcs
    BY SummaryFields DEF SummaryInv, TypeInv, TypeOK, results
  <2>2. summary.requests \in {Len(results), Len(results) + 1}
    BY <2>1 DEF SummaryInv, Pending, Judging
  <2>3. summary.requests > Len(results) =>
          pc \in {"test", "testrun", "record"} \/ (pc = "done" /\ summary.cancelled)
    BY <2>1 DEF SummaryInv, Pending, Judging
  <2> QED  BY <2>2, <2>3 DEF SummaryInv, Accounts, SummaryAddsUp, results
<1> QED  BY <1>1, <1>2, StepSummaryInv, PTL DEF Spec

(***************************************************************************)
(* Where the runner is                                                     *)
(***************************************************************************)
(* The flag is set by `cancel` alone; the summary says "cancelled", and a    *)
(* future is dropped, only after it; only requests of the current batch have  *)
(* a future, none has one between two requests, and a settled item is that of *)
(* its request; delays, scripts and records are of the sequential mode alone; *)
(* batches start at multiples of `concurrency`.                               *)
TokenFacts ==
  /\ notify = "idle" <=> ~cancelled
  /\ summary.cancelled => cancelled /\ pc = "done"
  /\ \A k \in Slots : phase[k] = "dropped" => cancelled

PhaseFacts ==
  /\ pc \notin {"flight", "count", "done"} => \A k \in Slots : phase[k] = "idle"
  /\ pc \in {"flight", "count"} => \A k \in Slots : phase[k] # "idle" <=> k \in Batch
  /\ pc = "count" => \A k \in Slots : phase[k] # "flying"
  /\ pc = "count" => cursor \in start .. BatchEnd + 1

ItemFacts ==
  /\ \A k \in Slots : phase[k] = "ready" =>
       item[k].iteration = iter /\ item[k].index = k
  /\ pc \in Judging => item[start].iteration = iter /\ item[start].index = start

Sequential == pc \in {"delay", "pre", "prerun", "test", "testrun", "record"} =>
                ~Concurrent

Aligned ==
  Concurrent /\ start <= N => \E j \in 0 .. start : start = j * options.concurrency + 1

FlowInv ==
  TypeInv /\ TokenFacts /\ PhaseFacts /\ ItemFacts /\ Sequential /\ Aligned

(***************************************************************************)
(* What is recorded after the flag was set                                 *)
(***************************************************************************)
LateFacts ==
  /\ late # {} => cancelled
  /\ pc \notin {"top", "count", "done"} => late = {}
  /\ pc = "count" => \A u \in late : u[1] = iter /\ u[2] \in Batch

LateInv == FlowInv /\ LateFacts /\ OneBatchAfterCancel

(***************************************************************************)
(* The variables of an iteration                                           *)
(***************************************************************************)
OfIteration == {w \in ran : w[1] = iter}

(* Between two requests, and while batches run, the variables are in          *)
(* iteration_context; while a request runs they are in request_context.       *)
InRequest == pc \in {"pre", "prerun", "test", "testrun", "record"}
               \/ (pc = "flight" /\ ~Concurrent)
BetweenRequests == pc \in {"top", "delay", "count"} \/ (pc = "flight" /\ Concurrent)

VariablesInv ==
  /\ FlowInv
  /\ \A w \in ran : w[1] <= iter
  /\ InRequest => request_context = OfIteration
  /\ BetweenRequests => iteration_context = OfIteration

(***************************************************************************)
(* The results                                                             *)
(***************************************************************************)
Reported(i, k) ==
  \E r \in DOMAIN results : results[r].iteration = i /\ results[r].index = k

(* The first position of the current iteration that may still be reported.   *)
Frontier == IF pc = "count" THEN cursor
            ELSE IF pc = "done" THEN BatchEnd + 1 ELSE start

InOrder ==
  /\ \A r, s \in DOMAIN results : r < s => Report!Before(results[r], results[s])
  /\ \A r \in DOMAIN results :
       \/ results[r].iteration < iter
       \/ results[r].iteration = iter /\ results[r].index < Frontier

Complete ==
  /\ pc # "done" => /\ \A i \in 1 .. iter - 1, k \in 1 .. N : Reported(i, k)
                    /\ \A k \in 1 .. start - 1 : Reported(iter, k)
  /\ pc = "count" => \A k \in start .. cursor - 1 :
       phase[k] = "ready" => \E r \in DOMAIN results : results[r] = item[k]
  /\ pc = "done" => \/ summary.cancelled
                    \/ options.fail_fast /\ summary.failed # 0
                    \/ \A i \in 1 .. IterationCount, k \in 1 .. N : Reported(i, k)

(* With fail_fast a failure among the results is of the current batch, and    *)
(* the runner has not left it.                                                *)
Failures ==
  /\ summary.failed # 0 => \E r \in DOMAIN results : ~results[r].passed
  /\ options.fail_fast => \A r \in DOMAIN results : ~results[r].passed =>
       /\ pc \in {"count", "done"} /\ start <= N
       /\ results[r].iteration = iter /\ results[r].index \in Batch
       /\ pc = "count" => /\ phase[results[r].index] = "ready"
                          /\ ~item[results[r].index].passed

OrderInv == FlowInv /\ SummaryInv /\ InOrder /\ Complete /\ Failures

(* The batch does not move while its variables do not.                       *)
LEMMA SameBatchPosition ==
  ASSUME UNCHANGED <<requests, options, start>>
  PROVE  BatchEnd' = BatchEnd /\ Batch' = Batch /\ N' = N /\ Concurrent' = Concurrent
  BY DEF BatchEnd, Batch, N, Concurrent

LEMMA BatchFacts ==
  ASSUME TypeInv, start <= N
  PROVE  /\ start \in Batch /\ BatchEnd \in Nat /\ start <= BatchEnd /\ BatchEnd <= N
         /\ Batch = start .. BatchEnd
         /\ ~Concurrent => Batch = {start}
         /\ Batch \subseteq Slots
<1>1. /\ BatchEnd \in start .. N /\ start \in Nat /\ N \in Nat /\ N <= MaxRequests
      /\ MaxRequests \in Nat /\ start >= 1
  BY PositionFacts
<1>2. ~Concurrent => BatchEnd = start
  BY DEF BatchEnd
<1> QED  BY <1>1, <1>2 DEF Batch, Slots

(* A settled item is that of its request, and a script's verdict keeps it so. *)
LEMMA ItemIsOf ==
  /\ \A i, k, r, response : /\ Settled(i, k, r, response).iteration = i
                             /\ Settled(i, k, r, response).index = k
  /\ \A m \in ItemResult : \A tests, bad, applied :
       /\ Tested(m, tests, bad, applied).iteration = m.iteration
       /\ Tested(m, tests, bad, applied).index = m.index
  BY DEF Settled, Tested, ItemResult

LEMMA FlagKept ==
  ASSUME NEW s \in Summary
  PROVE  /\ \A status : Seen(s, status).cancelled = s.cancelled
         /\ \A m : Counted(s, m).cancelled = s.cancelled
  BY DEF Seen, Counted, Summary

LEMMA NextMultiple ==
  ASSUME NEW j \in Nat, NEW c \in Nat
  PROVE  j * c + 1 + c = (j + 1) * c + 1
  OBVIOUS

LEMMA StepFlowInv == FlowInv /\ [Next]_vars => FlowInv'
<1> SUFFICES ASSUME FlowInv, [Next]_vars PROVE FlowInv'
  OBVIOUS
<1>0. TypeInv /\ TypeInv'
  BY StepTypeInv DEF FlowInv
<1> SUFFICES /\ TokenFacts' /\ PhaseFacts' /\ ItemFacts' /\ Sequential'
             /\ Aligned'
  BY <1>0 DEF FlowInv
<1> DEFINE Goal == /\ TokenFacts' /\ PhaseFacts' /\ ItemFacts' /\ Sequential'
                   /\ Aligned'
<1>a. /\ iter \in Nat /\ start \in Nat /\ start >= 1 /\ N \in Nat
      /\ pc \in Pcs
      /\ start <= N => start \in Slots
      /\ phase \in [Slots -> {"idle", "flying", "ready", "dropped"}]
      /\ item \in [Slots -> ItemResult]
      /\ summary \in Summary
      /\ pc \notin {"top", "done"} => start <= N
  BY <1>0, PositionFacts DEF TypeInv, TypeOK, Positions
<1>b. start <= N =>
        /\ start \in Batch /\ BatchEnd \in Nat /\ start <= BatchEnd /\ BatchEnd <= N
        /\ Batch = start .. BatchEnd
        /\ ~Concurrent => Batch = {start}
        /\ Batch \subseteq Slots
  BY <1>0, BatchFacts
<1>c. UNCHANGED <<requests, options, start>> =>
        BatchEnd' = BatchEnd /\ Batch' = Batch /\ N' = N /\ Concurrent' = Concurrent
  BY SameBatchPosition
<1> USE <1>a, <1>b, <1>c
        DEF FlowInv, TokenFacts, PhaseFacts, ItemFacts, Sequential, Aligned,
            Judging, Pcs, tokenVars, jobVars, contextVars
<1>1. CASE TopCancelled
  BY <1>1 DEF TopCancelled, StopCancelled
<1>2. CASE NextIteration
  <2>1. options.concurrency \in Nat
    BY OptionsType, <1>0 DEF TypeInv, TypeOK
  <2>2. Aligned'
    <3>1. CASE start' = 1
      <4>1. 0 \in 0 .. start' /\ start' = 0 * options.concurrency' + 1
        BY <1>2, <2>1, <3>1 DEF NextIteration
      <4> QED  BY <4>1 DEF Aligned
    <3>2. CASE start' = start
      BY <1>2, <3>2 DEF NextIteration
    <3> QED  BY <1>2, <3>1, <3>2 DEF NextIteration
  <2> QED  BY <1>2, <2>2 DEF NextIteration
<1>3. CASE LaunchBatch
  BY <1>3 DEF LaunchBatch, MayStart, Launch
<1>4. CASE Join
  BY <1>4 DEF Join
<1>5. CASE CountItem
  <2>1. summary'.cancelled = summary.cancelled
    BY <1>5, FlagKept, SeenType DEF CountItem
  <2> QED  BY <1>5, <2>1 DEF CountItem
<1>6. CASE EndBatch
  <2>1. CASE pc' = "done"
    BY <1>6, <2>1 DEF EndBatch, StopCancelled, BatchCancelled
  <2>2. CASE pc' = "top"
    <3>1. start' = BatchEnd + 1 /\ Concurrent /\ start <= N
      BY <1>6, <2>2, <1>0 DEF EndBatch, StopCancelled, AfterBatch, TypeInv, Positions
    <3>2. PICK j \in 0 .. start : start = j * options.concurrency + 1
      BY <3>1
    <3>3. options.concurrency \in Nat /\ options.concurrency > 1
      BY <3>1, OptionsType, <1>0 DEF TypeInv, TypeOK, Concurrent
    <3>4. ASSUME start' <= N PROVE start' = (j + 1) * options.concurrency + 1
      <4>1. start' = start + options.concurrency
        BY <3>1, <3>3, <3>4 DEF BatchEnd
      <4>2. j * options.concurrency + 1 + options.concurrency
              = (j + 1) * options.concurrency + 1
        <5>1. j \in Nat
          BY <3>2
        <5> QED  BY <5>1, <3>3, NextMultiple, Zenon
      <4>3. start' = j * options.concurrency + 1 + options.concurrency
        BY <3>2, <4>1, Zenon
      <4> QED  BY <4>2, <4>3, Zenon
    <3>5. j + 1 \in 0 .. start'
      BY <3>1, <3>2, <3>3
    <3>6. Aligned'
      <4>1. options' = options /\ N' = N
        BY <1>6 DEF EndBatch, N
      <4> QED  BY <3>4, <3>5, <4>1
    <3> QED  BY <1>6, <2>2, <3>1, <3>6 DEF EndBatch, StopCancelled
  <2> QED  BY <1>6, <2>1, <2>2 DEF EndBatch, StopCancelled
<1>7. ASSUME NEW k \in Slots, DropConcurrent(k) PROVE Goal
  BY <1>7 DEF DropConcurrent, Observes
<1>8. CASE TakeRequest
  BY <1>8 DEF TakeRequest, MayStart, BeginRequest, Launch
<1>9. CASE DelayElapsed
  BY <1>9 DEF DelayElapsed, BeginRequest, Launch
<1>10. CASE DelayCancelled
  BY <1>10 DEF DelayCancelled, StopCancelled, Observes
<1>11. CASE StartPreScript
  BY <1>11 DEF StartPreScript, StartScript, StopCancelled
<1>12. CASE PreScriptOk
  BY <1>12 DEF PreScriptOk, Launch, ApplyVariables
<1>13. CASE PreScriptInvalidRequest
  BY <1>13, ItemIsOf, FlagKept DEF PreScriptInvalidRequest, SettleError, ApplyVariables, Concurrent
<1>14. CASE PreScriptErr
  BY <1>14, ItemIsOf, FlagKept DEF PreScriptErr, SettleError, StopCancelled, Concurrent
<1>15. CASE Drop
  BY <1>15 DEF Drop, StopCancelled, Observes
<1>16. CASE StartTestScript
  BY <1>16 DEF StartTestScript, StartScript, StopCancelled
<1>17. CASE TestScriptOk
  BY <1>17, ItemIsOf DEF TestScriptOk, ApplyVariables
<1>18. CASE TestScriptErr
  BY <1>18, FlagKept DEF TestScriptErr, StopCancelled, ItemResult
<1>19. CASE RecordItem
  BY <1>19, FlagKept DEF RecordItem, Concurrent
<1>20. ASSUME NEW k \in Slots, TokenStep(CheckFlag(k)) PROVE Goal
  BY <1>20 DEF TokenStep, CheckFlag
<1>21. ASSUME NEW k \in Slots, TokenStep(Park(k)) PROVE Goal
  BY <1>21 DEF TokenStep, Park
<1>22. CASE Respond
  BY <1>22, ItemIsOf, FlagKept DEF Respond, Concurrent
<1>23. ASSUME NEW k \in Slots, RespondConcurrent(k) PROVE Goal
  BY <1>23, ItemIsOf DEF RespondConcurrent
<1>24. CASE TokenStep(Cancel)
  BY <1>24 DEF TokenStep, Cancel, StoreFlag
<1>25. CASE TokenStep(NotifyWaiters)
  BY <1>25 DEF TokenStep, NotifyWaiters
<1>26. CASE UNCHANGED vars
  BY <1>26 DEF vars
<1> QED
  BY <1>1, <1>2, <1>3, <1>4, <1>5, <1>6, <1>7, <1>8, <1>9, <1>10, <1>11,
     <1>12, <1>13, <1>14, <1>15, <1>16, <1>17, <1>18, <1>19, <1>20,
     <1>21, <1>22, <1>23, <1>24, <1>25, <1>26
     DEF Next, RunnerStep, ServerStep


(* The state in which `run_requests` starts, whatever the token says.         *)
Fresh ==
  /\ TypeInv
  /\ notify = "idle" <=> ~cancelled
  /\ pc = "top" /\ iter = 1 /\ start = 1
  /\ phase = [k \in Slots |-> "idle"]
  /\ summary = EmptySummary

LEMMA FreshFlowInv == Fresh => FlowInv
<1> SUFFICES ASSUME Fresh PROVE FlowInv
  OBVIOUS
<1>1. TypeInv
  BY DEF Fresh
<1>2. pc = "top" /\ start = 1
  BY DEF Fresh
<1>3. TokenFacts /\ PhaseFacts /\ ItemFacts /\ Sequential
  BY DEF Fresh, TokenFacts, PhaseFacts, ItemFacts, Sequential, Judging, EmptySummary
<1>4. Aligned
  <2>1. options.concurrency \in Nat /\ start = 1
    BY <1>1, <1>2, OptionsType DEF TypeInv, TypeOK
  <2>2. 0 \in 0 .. start /\ start = 0 * options.concurrency + 1
    BY <2>1
  <2> QED  BY <2>2 DEF Aligned
<1> QED  BY <1>1, <1>3, <1>4 DEF FlowInv

LEMMA InitFlowInv == Init => FlowInv
  BY InitTypeInv, FreshFlowInv DEF Init, TokenInit, Fresh

(***************************************************************************)
(* Batches                                                                 *)
(***************************************************************************)
LEMMA Quotient ==
  ASSUME NEW j \in Nat, NEW c \in Nat, c > 0, NEW d \in 0 .. c - 1
  PROVE  (j * c + d) \div c = j
  OBVIOUS

(* Two requests of the batch at `start` are of one batch.                    *)
LEMMA WithinBatch ==
  ASSUME FlowInv, start <= N, NEW a, NEW b, a.iteration = b.iteration,
         a.index \in Batch, b.index \in Batch
  PROVE  SameBatch(a, b)
<1>0. TypeInv
  BY DEF FlowInv
<1>1. CASE ~Concurrent
  BY <1>0, <1>1, BatchFacts DEF SameBatch
<1>2. CASE Concurrent
  <2>1. options.concurrency \in Nat /\ options.concurrency > 1 /\ start \in Nat
    BY <1>0, <1>2, OptionsType, PositionFacts DEF TypeInv, TypeOK, Concurrent
  <2>2. PICK j \in 0 .. start : start = j * options.concurrency + 1
    BY <1>2 DEF FlowInv, Aligned
  <2>3. j \in Nat
    BY <2>1, <2>2
  <2>4. ASSUME NEW x \in Batch PROVE (x - 1) \div options.concurrency = j
    <3>1. x \in Nat /\ start <= x /\ x <= start + options.concurrency - 1
      BY <1>0, <1>2, <2>1, BatchFacts DEF Batch, BatchEnd
    <3>2. x - start \in 0 .. options.concurrency - 1
      BY <2>1, <3>1
    <3>3. (j * options.concurrency + (x - start)) \div options.concurrency = j
      <4>1. options.concurrency > 0
        BY <2>1
      <4> QED  BY <2>1, <2>3, <3>2, <4>1, Quotient, Zenon
    <3>4. j * options.concurrency + (x - start) = x - 1
      <4>1. \A p : p \in Nat /\ start = p + 1 => p + (x - start) = x - 1
        BY <3>1
      <4>2. \A c \in Nat : j * c \in Nat
        BY <2>3
      <4> QED  BY <2>1, <2>2, <4>1, <4>2, Zenon
    <3> QED  BY <3>3, <3>4
  <2>5. (a.index - 1) \div options.concurrency = (b.index - 1) \div options.concurrency
    BY <2>4
  <2> QED  BY <1>2, <2>5 DEF SameBatch
<1> QED  BY <1>1, <1>2

LEMMA StepVariablesInv == VariablesInv /\ [Next]_vars => VariablesInv'
<1> SUFFICES ASSUME VariablesInv, [Next]_vars PROVE VariablesInv'
  OBVIOUS
<1>0. FlowInv /\ FlowInv' /\ TypeInv /\ Sequential
  BY StepFlowInv DEF VariablesInv, FlowInv
<1>a. /\ iter \in Nat /\ ran \subseteq ScriptRun
      /\ \A w \in ScriptRun : w[1] \in Nat
      /\ pc \in Pcs
  BY <1>0, PositionFacts DEF TypeInv, TypeOK, ScriptRun
<1> USE <1>0, <1>a DEF VariablesInv, InRequest, BetweenRequests, OfIteration,
            contextVars, jobVars, Concurrent, Pcs
<1>1. CASE TopCancelled
  BY <1>1 DEF TopCancelled, StopCancelled
<1>2. CASE NextIteration
  BY <1>2 DEF NextIteration, FreshContext
<1>3. CASE LaunchBatch
  BY <1>3 DEF LaunchBatch, MayStart, Launch
<1>4. CASE Join
  BY <1>4 DEF Join
<1>5. CASE CountItem
  BY <1>5 DEF CountItem
<1>6. CASE EndBatch
  BY <1>6 DEF EndBatch, StopCancelled
<1>7. ASSUME NEW k \in Slots, DropConcurrent(k) PROVE VariablesInv'
  BY <1>7 DEF DropConcurrent, Observes
<1>8. CASE TakeRequest
  BY <1>8 DEF TakeRequest, MayStart, BeginRequest, Launch
<1>9. CASE DelayElapsed
  BY <1>9 DEF DelayElapsed, BeginRequest, Launch
<1>10. CASE DelayCancelled
  BY <1>10 DEF DelayCancelled, StopCancelled, Observes
<1>11. CASE StartPreScript
  BY <1>11 DEF StartPreScript, StartScript, StopCancelled
<1>12. CASE PreScriptOk
  BY <1>12 DEF PreScriptOk, Launch, ApplyVariables, Sequential
<1>13. CASE PreScriptInvalidRequest
  BY <1>13 DEF PreScriptInvalidRequest, SettleError, ApplyVariables
<1>14. CASE PreScriptErr
  BY <1>14 DEF PreScriptErr, SettleError, StopCancelled
<1>15. CASE Drop
  BY <1>15 DEF Drop, StopCancelled, Observes
<1>16. CASE StartTestScript
  BY <1>16 DEF StartTestScript, StartScript, StopCancelled
<1>17. CASE TestScriptOk
  BY <1>17 DEF TestScriptOk, ApplyVariables
<1>18. CASE TestScriptErr
  BY <1>18 DEF TestScriptErr, StopCancelled
<1>19. CASE RecordItem
  BY <1>19 DEF RecordItem
<1>20. ASSUME NEW k \in Slots, TokenStep(CheckFlag(k)) PROVE VariablesInv'
  BY <1>20 DEF TokenStep, CheckFlag
<1>21. ASSUME NEW k \in Slots, TokenStep(Park(k)) PROVE VariablesInv'
  BY <1>21 DEF TokenStep, Park
<1>22. CASE Respond
  BY <1>22 DEF Respond
<1>23. ASSUME NEW k \in Slots, RespondConcurrent(k) PROVE VariablesInv'
  BY <1>23 DEF RespondConcurrent
<1>24. CASE TokenStep(Cancel)
  BY <1>24 DEF TokenStep, Cancel, StoreFlag
<1>25. CASE TokenStep(NotifyWaiters)
  BY <1>25 DEF TokenStep, NotifyWaiters
<1>26. CASE UNCHANGED vars
  BY <1>26 DEF vars
<1> QED
  BY <1>1, <1>2, <1>3, <1>4, <1>5, <1>6, <1>7, <1>8, <1>9, <1>10, <1>11,
     <1>12, <1>13, <1>14, <1>15, <1>16, <1>17, <1>18, <1>19, <1>20,
     <1>21, <1>22, <1>23, <1>24, <1>25, <1>26
     DEF Next, RunnerStep, ServerStep

(* Each request sees exactly the variables that the scripts of its iteration  *)
(* set before it: none is lost on the way, none comes from another iteration. *)
THEOREM RunnerVariablesFollow == Spec => []VariablesFollowIteration
<1>1. Init => VariablesInv
  <2> SUFFICES ASSUME Init PROVE VariablesInv
    OBVIOUS
  <2>1. FlowInv
    BY InitFlowInv
  <2> QED  BY <2>1 DEF Init, VariablesInv, InRequest, BetweenRequests, OfIteration
<1>2. VariablesInv => VariablesFollowIteration
  BY DEF VariablesInv, BetweenRequests, OfIteration, VariablesFollowIteration
<1> QED  BY <1>1, <1>2, StepVariablesInv, PTL DEF Spec

LEMMA UnitsWithinBatch ==
  ASSUME FlowInv, start <= N, NEW u, NEW v, u[1] = v[1], u[2] \in Batch, v[2] \in Batch
  PROVE  SameBatch([iteration |-> u[1], index |-> u[2]],
                   [iteration |-> v[1], index |-> v[2]])
<1> DEFINE a == [iteration |-> u[1], index |-> u[2]]
           b == [iteration |-> v[1], index |-> v[2]]
<1>1. a.iteration = b.iteration /\ a.index \in Batch /\ b.index \in Batch
  OBVIOUS
<1> HIDE DEF a, b
<1>2. SameBatch(a, b)
  BY <1>1, WithinBatch
<1> QED  BY <1>2 DEF a, b

LEMMA StepLateInv == LateInv /\ [Next]_vars => LateInv'
<1> SUFFICES ASSUME LateInv, [Next]_vars PROVE LateInv'
  OBVIOUS
<1>0. FlowInv /\ FlowInv' /\ TypeInv /\ TokenFacts /\ PhaseFacts
  BY StepFlowInv DEF LateInv, FlowInv
<1> SUFFICES LateFacts' /\ OneBatchAfterCancel'
  BY <1>0 DEF LateInv
<1> DEFINE Goal == LateFacts' /\ OneBatchAfterCancel'
<1>a. /\ pc \in Pcs
      /\ pc \notin {"top", "done"} => start <= N
      /\ start <= N => start \in Batch
  BY <1>0, BatchFacts DEF TypeInv, TypeOK, Positions
<1>b. UNCHANGED <<requests, options, start>> => Batch' = Batch
  BY SameBatchPosition
<1>c. UNCHANGED options =>
        \A u, v : SameBatch(u, v)' = SameBatch(u, v)
  BY DEF SameBatch, Concurrent
<1> USE <1>0, <1>a, <1>b, <1>c
        DEF LateInv, LateFacts, OneBatchAfterCancel, contextVars, jobVars,
            tokenVars, Pcs
<1>1. CASE TopCancelled
  BY <1>1 DEF TopCancelled, StopCancelled
<1>2. CASE NextIteration
  BY <1>2 DEF NextIteration
<1>3. CASE LaunchBatch
  BY <1>3 DEF LaunchBatch, MayStart, Launch
<1>4. CASE Join
  BY <1>4 DEF Join
<1>5. CASE CountItem
  <2>1. start <= N /\ cursor \in Batch
    <3>1. start <= cursor /\ cursor <= BatchEnd /\ cursor \in Nat
      BY <1>5, PositionFacts, BatchFacts DEF CountItem, PhaseFacts
    <3> QED  BY <1>5, <3>1, BatchFacts DEF CountItem
  <2>2. \A u \in late' : u[1] = iter /\ u[2] \in Batch
    BY <1>5, <2>1 DEF CountItem, NowLate, Unit
  <2>3. OneBatchAfterCancel'
    <3>1. ASSUME NEW u \in late', NEW v \in late'
          PROVE  SameBatch([iteration |-> u[1], index |-> u[2]],
                           [iteration |-> v[1], index |-> v[2]])
      BY <2>1, <2>2, UnitsWithinBatch
    <3> QED  BY <1>5, <3>1 DEF CountItem
  <2>4. LateFacts'
    BY <1>5, <2>2 DEF CountItem, NowLate
  <2> QED  BY <2>3, <2>4
<1>6. CASE EndBatch
  BY <1>6 DEF EndBatch, StopCancelled
<1>7. ASSUME NEW k \in Slots, DropConcurrent(k) PROVE Goal
  BY <1>7 DEF DropConcurrent, Observes
<1>8. CASE TakeRequest
  BY <1>8 DEF TakeRequest, MayStart, BeginRequest, Launch
<1>9. CASE DelayElapsed
  BY <1>9 DEF DelayElapsed, BeginRequest, Launch
<1>10. CASE DelayCancelled
  BY <1>10 DEF DelayCancelled, StopCancelled, Observes
<1>11. CASE StartPreScript
  BY <1>11 DEF StartPreScript, StartScript, StopCancelled
<1>12. CASE PreScriptOk
  BY <1>12 DEF PreScriptOk, Launch, ApplyVariables
<1>13. CASE PreScriptInvalidRequest
  BY <1>13 DEF PreScriptInvalidRequest, SettleError, ApplyVariables
<1>14. CASE PreScriptErr
  BY <1>14 DEF PreScriptErr, SettleError, StopCancelled
<1>15. CASE Drop
  BY <1>15 DEF Drop, StopCancelled, Observes
<1>16. CASE StartTestScript
  BY <1>16 DEF StartTestScript, StartScript, StopCancelled
<1>17. CASE TestScriptOk
  BY <1>17 DEF TestScriptOk, ApplyVariables
<1>18. CASE TestScriptErr
  BY <1>18 DEF TestScriptErr, StopCancelled
<1>19. CASE RecordItem
  <2>1. start <= N /\ start \in Batch /\ late = {}
    BY <1>19 DEF RecordItem
  <2>2. \A u \in late' : u[1] = iter /\ u[2] \in Batch
    BY <1>19, <2>1 DEF RecordItem, NowLate, Unit
  <2>3. OneBatchAfterCancel'
    <3>1. ASSUME NEW u \in late', NEW v \in late'
          PROVE  SameBatch([iteration |-> u[1], index |-> u[2]],
                           [iteration |-> v[1], index |-> v[2]])
      BY <2>1, <2>2, UnitsWithinBatch
    <3> QED  BY <1>19, <3>1 DEF RecordItem
  <2>4. LateFacts'
    BY <1>19, <2>1 DEF RecordItem, NowLate
  <2> QED  BY <2>3, <2>4
<1>20. ASSUME NEW k \in Slots, TokenStep(CheckFlag(k)) PROVE Goal
  BY <1>20 DEF TokenStep, CheckFlag
<1>21. ASSUME NEW k \in Slots, TokenStep(Park(k)) PROVE Goal
  BY <1>21 DEF TokenStep, Park
<1>22. CASE Respond
  BY <1>22 DEF Respond
<1>23. ASSUME NEW k \in Slots, RespondConcurrent(k) PROVE Goal
  BY <1>23 DEF RespondConcurrent
<1>24. CASE TokenStep(Cancel)
  BY <1>24 DEF TokenStep, Cancel, StoreFlag
<1>25. CASE TokenStep(NotifyWaiters)
  BY <1>25 DEF TokenStep, NotifyWaiters
<1>26. CASE UNCHANGED vars
  BY <1>26 DEF vars
<1> QED
  BY <1>1, <1>2, <1>3, <1>4, <1>5, <1>6, <1>7, <1>8, <1>9, <1>10, <1>11,
     <1>12, <1>13, <1>14, <1>15, <1>16, <1>17, <1>18, <1>19, <1>20,
     <1>21, <1>22, <1>23, <1>24, <1>25, <1>26
     DEF Next, RunnerStep, ServerStep

(* Once the flag is set the runner finishes what it has in its hands and      *)
(* starts no other request: what it records later is of one batch.            *)
THEOREM RunnerOneBatchAfterCancel == Spec => []OneBatchAfterCancel
<1>1. Init => LateInv
  <2> SUFFICES ASSUME Init PROVE LateInv
    OBVIOUS
  <2>1. FlowInv
    BY InitFlowInv
  <2> QED  BY <2>1 DEF Init, LateInv, LateFacts, OneBatchAfterCancel
<1>2. LateInv => OneBatchAfterCancel
  BY DEF LateInv
<1> QED  BY <1>1, <1>2, StepLateInv, PTL DEF Spec


(***************************************************************************)
(* The results: steps that record nothing                                  *)
(***************************************************************************)
LEMMA OrderFacts ==
  ASSUME OrderInv
  PROVE  /\ FlowInv /\ TypeInv /\ SummaryInv /\ InOrder /\ Complete /\ Failures
         /\ N \in Nat /\ iter \in Nat /\ start \in Nat /\ cursor \in Nat
         /\ start >= 1 /\ start <= N + 1
         /\ IterationCount \in Nat /\ iter >= 1 /\ iter <= IterationCount
         /\ pc \in Pcs
         /\ pc \notin {"top", "done"} => start <= N
         /\ results \in Seq(ItemResult) /\ Len(results) \in Nat
         /\ DOMAIN results = 1 .. Len(results)
         /\ \A r \in DOMAIN results :
              results[r].iteration \in Nat /\ results[r].index \in Nat
         /\ summary \in Summary /\ summary.failed \in Nat
         /\ summary.failed = 0 => \A r \in DOMAIN results : results[r].passed
<1>1. FlowInv /\ TypeInv /\ SummaryInv /\ InOrder /\ Complete /\ Failures
  BY DEF OrderInv, FlowInv
<1>2. summary \in Summary
  BY <1>1 DEF TypeInv, TypeOK
<1>3. results \in Seq(ItemResult) /\ summary.failed \in Nat
  BY <1>2, SummaryFields DEF results
<1>4. /\ Len(results) \in Nat /\ DOMAIN results = 1 .. Len(results)
      /\ \A r \in DOMAIN results : results[r] \in ItemResult
  BY <1>3
<1>5. \A m \in ItemResult : m.iteration \in Nat /\ m.index \in Nat
  BY DEF ItemResult
<1>6. summary.failed = 0 => \A r \in DOMAIN results : results[r].passed
  BY <1>1 DEF SummaryInv, Accounts, results
<1>7. /\ N \in Nat /\ iter \in Nat /\ start \in Nat /\ cursor \in Nat
      /\ start >= 1 /\ start <= N + 1
      /\ IterationCount \in Nat /\ iter >= 1 /\ iter <= IterationCount
      /\ pc \in Pcs
      /\ pc \notin {"top", "done"} => start <= N
  BY <1>1, PositionFacts DEF TypeInv, TypeOK, Positions
<1> QED  BY <1>1, <1>2, <1>3, <1>4, <1>5, <1>6, <1>7

(* Whatever the runner does without recording, as long as no batch is being   *)
(* counted.                                                                   *)
LEMMA QuietStep ==
  ASSUME OrderInv, results' = results, summary'.failed = summary.failed,
         UNCHANGED <<requests, options, iter, start>>,
         pc \notin {"count", "done"}, pc' \notin {"count", "done"}
  PROVE  InOrder' /\ Complete' /\ Failures'
<1> USE OrderFacts
<1>1. InOrder'
  BY DEF InOrder, Frontier, Report!Before
<1>2. Complete'
  <2>1. N' = N
    BY SameBatchPosition
  <2> QED  BY <2>1 DEF Complete, Reported
<1>3. Failures'
  BY DEF Failures
<1> QED  BY <1>1, <1>2, <1>3

LEMMA StillStep ==
  ASSUME OrderInv,
         UNCHANGED <<requests, options, iter, start, summary, pc, cursor, phase, item>>
  PROVE  InOrder' /\ Complete' /\ Failures'
<1>1. results' = results
  BY DEF results
<1>2. BatchEnd' = BatchEnd /\ Batch' = Batch /\ N' = N /\ IterationCount' = IterationCount
  BY SameBatchPosition DEF IterationCount
<1>3. InOrder'
  BY <1>1, <1>2, OrderFacts DEF InOrder, Frontier, Report!Before
<1>4. Complete'
  BY <1>1, <1>2 DEF OrderInv, Complete, Reported
<1>5. Failures'
  BY <1>1, <1>2, OrderFacts DEF Failures
<1> QED  BY <1>3, <1>4, <1>5

(* The run ends early, for a reason.                                         *)
LEMMA EndStep ==
  ASSUME OrderInv, results' = results, summary'.failed = summary.failed,
         UNCHANGED <<requests, options, iter, start>>,
         start <= N, pc # "done", pc' = "done",
         summary'.cancelled \/ (options.fail_fast /\ summary.failed # 0)
  PROVE  InOrder' /\ Complete' /\ Failures'
<1>1. BatchEnd' = BatchEnd /\ Batch' = Batch /\ N' = N
  BY SameBatchPosition
<1>2. /\ start <= BatchEnd /\ BatchEnd \in Nat
      /\ Frontier \in Nat /\ Frontier <= BatchEnd + 1 /\ Frontier' = BatchEnd + 1
  BY <1>1, OrderFacts, BatchFacts DEF Frontier, FlowInv, PhaseFacts
<1>3. InOrder'
  <2>1. \A r, s \in DOMAIN results : r < s => Report!Before(results[r], results[s])
    BY OrderFacts DEF InOrder
  <2>2. \A r \in DOMAIN results :
          \/ results[r].iteration < iter
          \/ results[r].iteration = iter /\ results[r].index < BatchEnd + 1
    BY <1>2, OrderFacts DEF InOrder
  <2> QED  BY <1>1, <1>2, <2>1, <2>2 DEF InOrder, Report!Before
<1>4. Complete'
  BY DEF Complete
<1>5. Failures'
  BY <1>1, OrderFacts DEF Failures
<1> QED  BY <1>3, <1>4, <1>5

(***************************************************************************)
(* The results: steps that record an item                                  *)
(***************************************************************************)
(* An item of the current iteration at or after the frontier joins.          *)
LEMMA RecordStep ==
  ASSUME OrderInv, NEW s \in Summary, s.results = results, s.failed = summary.failed,
         NEW m \in ItemResult, m.iteration = iter, m.index >= Frontier,
         summary' = Counted(s, m)
  PROVE  /\ results' = Append(results, m)
         /\ Len(results') = Len(results) + 1
         /\ DOMAIN results' = 1 .. Len(results) + 1
         /\ \A r \in DOMAIN results : r \in DOMAIN results' /\ results'[r] = results[r]
         /\ results'[Len(results) + 1] = m
         /\ \A r \in DOMAIN results' : r \in DOMAIN results \/ r = Len(results) + 1
         /\ \A p, q \in DOMAIN results' : p < q => Report!Before(results'[p], results'[q])
         /\ \A r \in DOMAIN results : Report!Before(results[r], m)
         /\ summary'.failed = IF m.passed THEN summary.failed ELSE summary.failed + 1
<1> USE OrderFacts
<1>1. /\ results' = Append(results, m)
      /\ summary'.failed = IF m.passed THEN summary.failed ELSE summary.failed + 1
  BY DEF Counted, Summary, results
<1>2. /\ Len(results') = Len(results) + 1
      /\ DOMAIN results' = 1 .. Len(results) + 1
      /\ \A r \in 1 .. Len(results) : results'[r] = results[r]
      /\ results'[Len(results) + 1] = m
  BY <1>1
<1>3. \A r \in DOMAIN results' : r \in DOMAIN results \/ r = Len(results) + 1
  BY <1>2
<1>4. \A r \in DOMAIN results : r \in DOMAIN results' /\ results'[r] = results[r]
  BY <1>2
<1>5. Frontier \in Nat /\ m.index \in Nat
  <2>1. m.index \in Nat
    BY DEF ItemResult
  <2>2. CASE start <= N
    BY <2>1, <2>2, BatchFacts DEF Frontier
  <2>3. CASE start > N
    BY <2>1, <2>3, OptionsType, SMTT(30) DEF Frontier, BatchEnd, TypeInv, TypeOK
  <2> QED  BY <2>2, <2>3
<1>6. \A r \in DOMAIN results : Report!Before(results[r], m)
  BY <1>5 DEF InOrder, Report!Before
<1>7. ASSUME NEW p \in DOMAIN results', NEW q \in DOMAIN results', p < q
      PROVE  Report!Before(results'[p], results'[q])
  <2>1. p \in DOMAIN results
    BY <1>2, <1>3, <1>7
  <2>2. CASE q \in DOMAIN results
    BY <1>4, <1>7, <2>1, <2>2 DEF InOrder
  <2>3. CASE q = Len(results) + 1
    BY <1>2, <1>4, <1>6, <2>1, <2>3
  <2> QED  BY <1>3, <2>2, <2>3
<1> QED  BY <1>1, <1>2, <1>3, <1>4, <1>6, <1>7


LEMMA StepOrderInv == OrderInv /\ [Next]_vars => OrderInv'
<1> SUFFICES ASSUME OrderInv, [Next]_vars PROVE OrderInv'
  OBVIOUS
<1>0. FlowInv' /\ SummaryInv'
  BY StepFlowInv, StepSummaryInv DEF OrderInv
<1> SUFFICES InOrder' /\ Complete' /\ Failures'
  BY <1>0 DEF OrderInv
<1> DEFINE Goal == InOrder' /\ Complete' /\ Failures'
<1> USE OrderFacts DEF jobVars, tokenVars, contextVars
<1>a. ASSUME results' = results, summary'.failed = summary.failed,
             UNCHANGED <<requests, options, iter, start>>,
             pc \notin {"count", "done"}, pc' \notin {"count", "done"}
      PROVE  Goal
  BY <1>a, QuietStep
<1>b. ASSUME UNCHANGED <<requests, options, iter, start, summary, pc, cursor,
                         phase, item>>
      PROVE  Goal
  BY <1>b, StillStep
<1>c. ASSUME StopCancelled, UNCHANGED <<requests, options, iter, start>>,
             start <= N, pc # "done"
      PROVE  Goal
  <2>1. results' = results /\ summary'.failed = summary.failed /\ summary'.cancelled
    BY <1>c DEF StopCancelled, Summary, results
  <2> QED  BY <1>c, <2>1, EndStep DEF StopCancelled
<1>d. ASSUME NEW status
      PROVE  /\ Seen(summary, status).results = results
             /\ Seen(summary, status).failed = summary.failed
             /\ Seen(summary, status) \in Summary
             /\ summary' = Seen(summary, status) =>
                  results' = results /\ summary'.failed = summary.failed
  <2>1. /\ Seen(summary, status).results = summary.results
        /\ Seen(summary, status).failed = summary.failed
    BY DEF Seen, Summary
  <2> QED  BY <2>1, SeenType DEF results
<1>e. UNCHANGED summary => results' = results /\ summary'.failed = summary.failed
  BY DEF results
<1>1. CASE TopCancelled
  BY <1>1, <1>c DEF TopCancelled
<1>2. CASE NextIteration
  <2>1. results' = results /\ N' = N /\ IterationCount' = IterationCount /\ start = N + 1
    BY <1>2, <1>e DEF NextIteration, N, IterationCount
  <2>2. \A i \in 1 .. iter, k \in 1 .. N : Reported(i, k)
    BY <1>2, <2>1, SMTT(30) DEF NextIteration, Complete
  <2>3. options.fail_fast => \A r \in DOMAIN results : results[r].passed
    BY <1>2 DEF NextIteration, Failures
  <2>4. Failures'
    BY <1>2, <2>1, <2>3 DEF NextIteration, Failures
  <2>5. CASE iter < IterationCount
    <3>1. InOrder'
      BY <1>2, <2>1, <2>5, SMTT(30) DEF NextIteration, InOrder, Frontier, Report!Before
    <3>2. Complete'
      BY <1>2, <2>1, <2>2, <2>5, SMTT(30) DEF NextIteration, Complete, Reported
    <3> QED  BY <2>4, <3>1, <3>2
  <2>6. CASE ~(iter < IterationCount)
    <3>1. BatchEnd' \in Nat /\ BatchEnd' >= N
      BY <1>2, <2>1, <2>6, OptionsType DEF NextIteration, BatchEnd, Concurrent, TypeInv, TypeOK
    <3>2. InOrder'
      BY <1>2, <2>1, <2>6, <3>1 DEF NextIteration, InOrder, Frontier, Report!Before
    <3>3. Complete'
      BY <1>2, <2>1, <2>2, <2>6 DEF NextIteration, Complete, Reported
    <3> QED  BY <2>4, <3>2, <3>3
  <2> QED  BY <2>5, <2>6
<1>3. CASE LaunchBatch
  BY <1>3, <1>a, <1>e DEF LaunchBatch, MayStart, Launch
<1>4. CASE Join
  <2>1. results' = results /\ N' = N
    BY <1>4, <1>e DEF Join, N
  <2>2. InOrder'
    BY <1>4, <2>1 DEF Join, InOrder, Frontier, Report!Before
  <2>3. Complete'
    BY <1>4, <2>1 DEF Join, Complete, Reported
  <2>4. Failures'
    BY <1>4, <2>1 DEF Join, Failures
  <2> QED  BY <2>2, <2>3, <2>4
<1>5. CASE CountItem
  <2>1. /\ BatchEnd' = BatchEnd /\ Batch' = Batch /\ N' = N /\ start <= N
        /\ BatchEnd \in Nat /\ Batch = start .. BatchEnd
        /\ cursor >= start /\ cursor \in Batch /\ cursor \in Slots
        /\ Frontier = cursor /\ Frontier' = cursor + 1
    BY <1>5, BatchFacts, SameBatchPosition
       DEF CountItem, FlowInv, PhaseFacts, Frontier
  <2>2. CASE phase[cursor] # "ready"
    <3>1. results' = results /\ summary'.failed = summary.failed
      BY <1>5, <2>2, <1>e DEF CountItem
    <3>2. InOrder'
      BY <1>5, <2>1, <3>1 DEF CountItem, InOrder, Report!Before
    <3>3. Complete'
      BY <1>5, <2>1, <2>2, <3>1 DEF CountItem, Complete, Reported
    <3>4. Failures'
      BY <1>5, <2>1, <3>1 DEF CountItem, Failures
    <3> QED  BY <3>2, <3>3, <3>4
  <2>3. CASE phase[cursor] = "ready"
    <3> DEFINE m == item[cursor]
               s == Seen(summary, m.status)
    <3>1. /\ m \in ItemResult /\ m.iteration = iter /\ m.index = cursor
          /\ s \in Summary /\ s.results = results /\ s.failed = summary.failed
          /\ summary' = Counted(s, m)
      BY <1>5, <2>1, <2>3, <1>d DEF CountItem, FlowInv, ItemFacts, TypeInv, TypeOK
    <3> HIDE DEF s
    <3>2. /\ DOMAIN results' = 1 .. Len(results) + 1
          /\ \A r \in DOMAIN results : r \in DOMAIN results' /\ results'[r] = results[r]
          /\ results'[Len(results) + 1] = m
          /\ \A r \in DOMAIN results' : r \in DOMAIN results \/ r = Len(results) + 1
          /\ \A p, q \in DOMAIN results' : p < q => Report!Before(results'[p], results'[q])
          /\ summary'.failed = IF m.passed THEN summary.failed ELSE summary.failed + 1
      BY <2>1, <3>1, RecordStep, SMTT(30)
    <3>3. Len(results) + 1 \in DOMAIN results'
      BY <3>2
    <3>4. UNCHANGED <<requests, options, pc, iter, start, phase, item>> /\ cursor' = cursor + 1
      BY <1>5 DEF CountItem
    <3>5. pc = "count" /\ pc' = "count"
      BY <1>5 DEF CountItem
    <3>6. InOrder'
      <4>1. ASSUME NEW r \in DOMAIN results'
            PROVE  \/ results'[r].iteration < iter
                   \/ results'[r].iteration = iter /\ results'[r].index < cursor + 1
        <5>1. CASE r \in DOMAIN results
          <6>1. \/ results[r].iteration < iter
                \/ results[r].iteration = iter /\ results[r].index < cursor
            BY <2>1, <5>1 DEF InOrder
          <6> QED  BY <3>2, <5>1, <6>1
        <5>2. CASE r = Len(results) + 1
          BY <3>1, <3>2, <5>2
        <5> QED  BY <3>2, <4>1, <5>1, <5>2
      <4> QED  BY <2>1, <3>2, <3>4, <4>1 DEF InOrder, Report!Before
    <3>7. Complete'
      <4>1. \A i, k : Reported(i, k) => Reported(i, k)'
        BY <3>2 DEF Reported
      <4>2. ASSUME NEW k \in start .. cursor, phase[k] = "ready"
            PROVE  \E r \in DOMAIN results' : results'[r] = item[k]
        <5>1. CASE k = cursor
          BY <3>2, <3>3, <5>1
        <5>2. CASE k # cursor
          <6>1. k \in start .. cursor - 1
            BY <5>2
          <6> QED  BY <3>2, <3>5, <4>2, <6>1, SMTT(30) DEF Complete
        <5> QED  BY <5>1, <5>2
      <4> QED  BY <2>1, <3>4, <3>5, <4>1, <4>2, SMTT(30) DEF Complete
    <3>8. Failures'
      <4>1. summary'.failed # 0 => \E r \in DOMAIN results' : ~results'[r].passed
        BY <3>2, <3>3 DEF Failures
      <4>2. ASSUME options.fail_fast, NEW r \in DOMAIN results', ~results'[r].passed
            PROVE  /\ results'[r].iteration = iter /\ results'[r].index \in Batch
                   /\ phase[results'[r].index] = "ready"
                   /\ ~item[results'[r].index].passed
        BY <2>1, <2>3, <3>1, <3>2, <3>5, <4>2, SMTT(30) DEF Failures
      <4> QED  BY <2>1, <3>4, <3>5, <4>1, <4>2 DEF Failures
    <3> QED  BY <3>6, <3>7, <3>8
  <2> QED  BY <2>2, <2>3
<1>6. CASE EndBatch
  <2>1. /\ start <= N /\ BatchEnd \in Nat /\ Batch = start .. BatchEnd
        /\ start <= BatchEnd /\ Batch \subseteq Slots /\ pc = "count"
    BY <1>6, BatchFacts DEF EndBatch
  <2>2. \A k \in Batch : k \in start .. cursor - 1
    BY <1>6, <2>1 DEF EndBatch
  <2>3. CASE BatchFailed /\ options.fail_fast
    <3>1. summary.failed # 0
      <4>1. PICK k \in Batch : phase[k] = "ready" /\ ~item[k].passed
        BY <2>3 DEF BatchFailed
      <4>2. PICK r \in DOMAIN results : results[r] = item[k]
        BY <2>1, <2>2, <4>1 DEF Complete
      <4> QED  BY <4>1, <4>2
    <3>2. UNCHANGED <<requests, options, iter, start, summary>> /\ pc' = "done"
      BY <1>6, <2>3 DEF EndBatch
    <3> QED  BY <1>e, <2>1, <2>3, <3>1, <3>2, EndStep
  <2>4. CASE StopCancelled
    BY <1>6, <1>c, <2>1, <2>4 DEF EndBatch, StopCancelled
  <2>5. CASE /\ ~(BatchFailed /\ options.fail_fast) /\ ~BatchCancelled
             /\ pc' = "top" /\ start' = AfterBatch /\ UNCHANGED summary
    <3>1. results' = results /\ N' = N /\ start' = BatchEnd + 1
      BY <1>6, <2>5, <1>e DEF EndBatch, AfterBatch, N
    <3>2. \A k \in Batch : phase[k] = "ready"
      BY <2>1, <2>5 DEF BatchCancelled, FlowInv, PhaseFacts, TypeInv, TypeOK
    <3>3. InOrder'
      <4>1. Frontier <= BatchEnd + 1 /\ Frontier' = BatchEnd + 1 /\ Frontier \in Nat
        BY <2>1, <2>5, <3>1 DEF Frontier, FlowInv, PhaseFacts
      <4> QED  BY <1>6, <2>1, <3>1, <4>1 DEF EndBatch, InOrder, Report!Before
    <3>4. Complete'
      <4>1. \A k \in 1 .. BatchEnd : Reported(iter, k)
        <5>1. ASSUME NEW k \in Batch PROVE Reported(iter, k)
          <6>1. PICK r \in DOMAIN results : results[r] = item[k]
            BY <2>1, <2>2, <3>2 DEF Complete
          <6> QED  BY <2>1, <3>2, <6>1 DEF Reported, FlowInv, ItemFacts
        <5>2. \A k \in 1 .. start - 1 : Reported(iter, k)
          BY <2>1 DEF Complete
        <5> QED  BY <2>1, <5>1, <5>2, SMTT(30)
      <4> QED  BY <1>6, <2>1, <2>5, <3>1, <4>1 DEF EndBatch, Complete, Reported
    <3>5. Failures'
      <4>1. options.fail_fast => \A r \in DOMAIN results : results[r].passed
        BY <2>1, <2>5 DEF Failures, BatchFailed
      <4> QED  BY <1>6, <2>5, <3>1, <4>1 DEF EndBatch, Failures
    <3> QED  BY <3>3, <3>4, <3>5
  <2> QED  BY <1>6, <2>3, <2>4, <2>5 DEF EndBatch
<1>7. ASSUME NEW k \in Slots, DropConcurrent(k) PROVE Goal
  BY <1>7, <1>a, <1>e DEF DropConcurrent, Observes
<1>8. CASE TakeRequest
  BY <1>8, <1>a, <1>e DEF TakeRequest, MayStart, BeginRequest, Launch
<1>9. CASE DelayElapsed
  BY <1>9, <1>a, <1>e DEF DelayElapsed, BeginRequest, Launch
<1>10. CASE DelayCancelled
  BY <1>10, <1>c DEF DelayCancelled, Observes
<1>11. CASE StartPreScript
  <2>1. CASE StopCancelled
    BY <1>11, <1>c, <2>1 DEF StartPreScript, StartScript
  <2>2. CASE ~StopCancelled
    BY <1>11, <1>a, <1>d, <1>e, <2>2 DEF StartPreScript, StartScript
  <2> QED  BY <2>1, <2>2
<1>12. CASE PreScriptOk
  BY <1>12, <1>a, <1>e DEF PreScriptOk, Launch, ApplyVariables
<1>13. CASE PreScriptInvalidRequest
  BY <1>13, <1>a, <1>d DEF PreScriptInvalidRequest, SettleError, ApplyVariables
<1>14. CASE PreScriptErr
  <2>1. CASE StopCancelled
    BY <1>14, <1>c, <2>1 DEF PreScriptErr, SettleError
  <2>2. CASE ~StopCancelled
    BY <1>14, <1>a, <1>d, <1>e, <2>2 DEF PreScriptErr, SettleError
  <2> QED  BY <2>1, <2>2
<1>15. CASE Drop
  BY <1>15, <1>c DEF Drop, Observes
<1>16. CASE StartTestScript
  <2>1. CASE StopCancelled
    BY <1>16, <1>c, <2>1 DEF StartTestScript, StartScript
  <2>2. CASE ~StopCancelled
    BY <1>16, <1>a, <1>d, <1>e, <2>2 DEF StartTestScript, StartScript
  <2> QED  BY <2>1, <2>2
<1>17. CASE TestScriptOk
  BY <1>17, <1>a, <1>e DEF TestScriptOk, ApplyVariables
<1>18. CASE TestScriptErr
  <2>1. CASE StopCancelled
    BY <1>18, <1>c, <2>1 DEF TestScriptErr
  <2>2. CASE ~StopCancelled
    BY <1>18, <1>a, <1>d, <1>e, <2>2 DEF TestScriptErr
  <2> QED  BY <2>1, <2>2
<1>19. CASE RecordItem
  <2> DEFINE m == item[start]
  <2>1. /\ pc = "record" /\ start <= N /\ start \in Slots /\ Batch = {start}
        /\ BatchEnd = start /\ BatchEnd' = IF start' = start THEN start ELSE BatchEnd'
        /\ Frontier = start /\ N' = N
    BY <1>19, BatchFacts, PositionFacts
       DEF RecordItem, FlowInv, Sequential, BatchEnd, Concurrent, Frontier, N
  <2>2. /\ m \in ItemResult /\ m.iteration = iter /\ m.index = start
        /\ summary.results = results /\ summary' = Counted(summary, m)
    BY <1>19, <2>1 DEF RecordItem, FlowInv, ItemFacts, TypeInv, TypeOK, Judging, results
  <2>3. /\ DOMAIN results' = 1 .. Len(results) + 1
        /\ \A r \in DOMAIN results : r \in DOMAIN results' /\ results'[r] = results[r]
        /\ results'[Len(results) + 1] = m
        /\ \A r \in DOMAIN results' : r \in DOMAIN results \/ r = Len(results) + 1
        /\ \A p, q \in DOMAIN results' : p < q => Report!Before(results'[p], results'[q])
        /\ summary'.failed = IF m.passed THEN summary.failed ELSE summary.failed + 1
    BY <2>1, <2>2, RecordStep
  <2>4. Len(results) + 1 \in DOMAIN results'
    BY <2>3
  <2>5. /\ UNCHANGED <<requests, options, iter, item>>
        /\ \/ pc' = "done" /\ start' = start /\ ~m.passed /\ options.fail_fast
           \/ pc' = "top" /\ start' = start + 1 /\ ~(~m.passed /\ options.fail_fast)
    BY <1>19 DEF RecordItem
  <2>6. Frontier' = start + 1
    BY <2>1, <2>5 DEF Frontier
  <2>7. InOrder'
    <3>1. ASSUME NEW r \in DOMAIN results'
          PROVE  \/ results'[r].iteration < iter
                 \/ results'[r].iteration = iter /\ results'[r].index < start + 1
      BY <2>1, <2>2, <2>3, <3>1, SMTT(30) DEF InOrder
    <3> QED  BY <2>3, <2>5, <2>6, <3>1 DEF InOrder, Report!Before
  <2>8. \A i, k : Reported(i, k) => Reported(i, k)'
    BY <2>3 DEF Reported
  <2>9. summary'.failed # 0 => \E r \in DOMAIN results' : ~results'[r].passed
    BY <2>3, <2>4 DEF Failures
  <2>10. options.fail_fast => \A r \in DOMAIN results : results[r].passed
    BY <2>1 DEF Failures
  <2>11. CASE pc' = "done"
    <3>1. ~m.passed /\ options.fail_fast /\ start' = start
      BY <2>5, <2>11
    <3>2. Complete'
      BY <2>3, <2>5, <2>11, <3>1 DEF Complete
    <3>3. Batch' = Batch
      BY <2>5, <3>1, SameBatchPosition
    <3>4. Failures'
      BY <2>1, <2>2, <2>3, <2>5, <2>9, <2>10, <2>11, <3>1, <3>3, SMTT(30) DEF Failures
    <3> QED  BY <2>7, <3>2, <3>4
  <2>12. CASE pc' = "top"
    <3>1. \A i, k : i = iter /\ k = start => Reported(i, k)'
      BY <2>2, <2>3, <2>4, <2>5 DEF Reported
    <3>2. Complete'
      <4>1. \A i \in 1 .. iter - 1, k \in 1 .. N : Reported(i, k)'
        BY <2>1, <2>8 DEF Complete
      <4>2. \A i, k : i = iter /\ k \in 1 .. start => Reported(i, k)'
        BY <2>1, <2>8, <3>1 DEF Complete
      <4>3. start' = start + 1
        BY <2>5, <2>12
      <4>4. iter' = iter /\ N' = N
        BY <2>1, <2>5
      <4>5. \A k \in 1 .. start' - 1 : Reported(iter, k)'
        BY <4>2, <4>3, <4>4 DEF Reported
      <4>6. \A i \in 1 .. iter' - 1, k \in 1 .. N' : Reported(i, k)'
        BY <4>1, <4>4
      <4> QED  BY <2>12, <4>5, <4>6 DEF Complete
    <3>3. Failures'
      BY <2>3, <2>5, <2>9, <2>10, <2>12 DEF Failures
    <3> QED  BY <2>7, <3>2, <3>3
  <2> QED  BY <2>5, <2>11, <2>12
<1>20. ASSUME NEW k \in Slots, TokenStep(CheckFlag(k)) PROVE Goal
  BY <1>20, <1>b DEF TokenStep, CheckFlag
<1>21. ASSUME NEW k \in Slots, TokenStep(Park(k)) PROVE Goal
  BY <1>21, <1>b DEF TokenStep, Park
<1>22. CASE Respond
  BY <1>22, <1>a, <1>d DEF Respond
<1>23. ASSUME NEW k \in Slots, RespondConcurrent(k) PROVE Goal
  BY <1>23, <1>a, <1>e DEF RespondConcurrent
<1>24. CASE TokenStep(Cancel)
  BY <1>24, <1>b DEF TokenStep, Cancel, StoreFlag
<1>25. CASE TokenStep(NotifyWaiters)
  BY <1>25, <1>b DEF TokenStep, NotifyWaiters
<1>26. CASE UNCHANGED vars
  BY <1>26, <1>b DEF vars
<1> QED
  BY <1>1, <1>2, <1>3, <1>4, <1>5, <1>6, <1>7, <1>8, <1>9, <1>10, <1>11,
     <1>12, <1>13, <1>14, <1>15, <1>16, <1>17, <1>18, <1>19, <1>20,
     <1>21, <1>22, <1>23, <1>24, <1>25, <1>26
     DEF Next, RunnerStep, ServerStep


LEMMA FreshOrderInv == Fresh => OrderInv
<1> SUFFICES ASSUME Fresh PROVE OrderInv
  OBVIOUS
<1>1. TypeInv
  BY DEF Fresh
<1>2. /\ results = <<>> /\ summary = EmptySummary /\ pc = "top" /\ iter = 1 /\ start = 1
      /\ DOMAIN results = {}
  BY DEF Fresh, results, EmptySummary
<1>5. FlowInv
  BY FreshFlowInv
<1>6. SummaryInv
  BY <1>1, <1>2 DEF SummaryInv, Accounts, Pending, EmptySummary, results, Judging
<1>7. InOrder /\ Failures
  BY <1>2 DEF InOrder, Failures, EmptySummary
<1>8. Complete
  BY <1>2 DEF Complete
<1> QED  BY <1>5, <1>6, <1>7, <1>8 DEF OrderInv

LEMMA InitOrderInv == Init => OrderInv
  BY InitTypeInv, FreshOrderInv DEF Init, TokenInit, Fresh

LEMMA CompleteWhenSuccessful == OrderInv => SuccessIsComplete
<1> SUFFICES ASSUME OrderInv, pc = "done", ~summary.cancelled, summary.failed = 0,
                    NEW i \in 1 .. IterationCount, NEW k \in 1 .. N
             PROVE  \E r \in DOMAIN results :
                      /\ results[r].iteration = i /\ results[r].index = k
                      /\ results[r].passed
  BY DEF SuccessIsComplete
<1>1. Reported(i, k)
  BY OrderFacts DEF Complete
<1>2. \A r \in DOMAIN results : results[r].passed
  BY OrderFacts
<1> QED  BY <1>1, <1>2 DEF Reported

(* `succeeded()` is only true of a run in which every request of every         *)
(* iteration was executed, recorded and passed, whatever cancellation does.    *)
THEOREM RunnerSuccessIsComplete == Spec => []SuccessIsComplete
  BY InitOrderInv, StepOrderInv, CompleteWhenSuccessful, PTL DEF Spec

(* With fail_fast nothing is recorded after the batch in which the first       *)
(* failure was recorded.                                                       *)
THEOREM RunnerFailFastStops == Spec => []FailFastStopsAtBatch
<1>1. OrderInv => FailFastStopsAtBatch
  <2> SUFFICES ASSUME OrderInv, options.fail_fast,
                      NEW r \in DOMAIN results, NEW s \in DOMAIN results,
                      r < s, ~results[r].passed
               PROVE  SameBatch(results[r], results[s])
    BY DEF FailFastStopsAtBatch
  <2> USE OrderFacts
  <2>1. /\ pc \in {"count", "done"} /\ start <= N
        /\ results[r].iteration = iter /\ results[r].index \in Batch
    BY DEF Failures
  <2>2. /\ BatchEnd \in Nat /\ start <= BatchEnd /\ Batch = start .. BatchEnd
        /\ Frontier \in Nat /\ Frontier <= BatchEnd + 1
    BY <2>1, BatchFacts DEF Frontier, FlowInv, PhaseFacts
  <2>3. Report!Before(results[r], results[s])
    BY DEF InOrder
  <2>4. \/ results[s].iteration < iter
        \/ results[s].iteration = iter /\ results[s].index < Frontier
    BY DEF InOrder
  <2>5. results[s].iteration = iter /\ results[s].index > results[r].index
    BY <2>1, <2>3, <2>4 DEF Report!Before
  <2>6. results[s].index \in Batch
    <3>1. /\ results[s].index < Frontier /\ results[s].index \in Nat
          /\ results[r].index \in Nat /\ results[r].index >= start
      BY <2>1, <2>2, <2>4, <2>5
    <3> QED  BY <2>2, <2>5, <3>1
  <2> QED  BY <2>1, <2>5, <2>6, WithinBatch
<1> QED  BY InitOrderInv, StepOrderInv, <1>1, PTL DEF Spec

(***************************************************************************)
(* Refinement of RunReport                                                 *)
(***************************************************************************)
(* What the abstract report and verdict are made of.                         *)
Entry(m) == [iteration |-> m.iteration, index |-> m.index, passed |-> m.passed]
Entries == [r \in DOMAIN results |-> Entry(results[r])]
Verdict == IF pc # "done" THEN "running"
           ELSE IF summary.cancelled THEN "cancelled"
           ELSE IF options.fail_fast /\ summary.failed > 0 THEN "failed"
           ELSE "finished"
Job == [iterations |-> IterationCount, length |-> N, fail_fast |-> options.fail_fast]

LEMMA ReportUnfolded ==
  /\ Report!Init <=> /\ Job \in [iterations : Nat, length : Nat, fail_fast : BOOLEAN]
                     /\ cancelled = FALSE /\ Entries = <<>> /\ Verdict = "running"
  /\ UNCHANGED <<Job, cancelled, Entries, Verdict>> => UNCHANGED Report!reportVars
  /\ Report!RequestCancel <=> /\ ~cancelled /\ cancelled' = TRUE
                              /\ UNCHANGED <<Job, Entries, Verdict>>
  /\ Report!Publish <=>
       /\ Verdict = "running"
       /\ \E w \in [iteration : 1 .. Job.iterations, index : 1 .. Job.length,
                    passed : BOOLEAN] :
            /\ \A r \in DOMAIN Entries : Report!Before(Entries[r], w)
            /\ Entries' = Append(Entries, w)
       /\ UNCHANGED <<Job, cancelled>>
  /\ Report!Conclude <=>
       /\ Verdict = "running"
       /\ Verdict' \in {"finished", "failed", "cancelled"}
       /\ Verdict' = "finished" =>
            \A i \in 1 .. Job.iterations, k \in 1 .. Job.length :
              \E r \in DOMAIN Entries' :
                Entries'[r].iteration = i /\ Entries'[r].index = k
       /\ Verdict' = "failed" =>
            Job.fail_fast /\ \E r \in DOMAIN Entries' : ~Entries'[r].passed
       /\ Verdict' = "cancelled" => cancelled
       /\ UNCHANGED <<Job, cancelled>>
  /\ Report!Next <=> \/ Report!RequestCancel
                     \/ Report!Publish /\ UNCHANGED Verdict
                     \/ Report!Conclude /\ UNCHANGED Entries
                     \/ Report!Publish /\ Report!Conclude
  BY DEF Report!Next, Report!Init, Report!reportVars, Report!RequestCancel, Report!Publish,
         Report!Conclude, Report!Work, Report!AllReported, Report!Before,
         Job, Entries, Entry, Verdict


LEMMA EntriesOfSame ==
  /\ results' = results => Entries' = Entries
  /\ UNCHANGED <<requests, options>> => Job' = Job /\ N' = N /\ IterationCount' = IterationCount
  BY DEF Entries, Job, N, IterationCount

(* A step that neither reports nor ends is a stutter of the contract.        *)
LEMMA StutterStep ==
  ASSUME results' = results, UNCHANGED <<requests, options, cancelled>>,
         \/ pc # "done" /\ pc' # "done"
         \/ UNCHANGED <<pc, summary>>
  PROVE  UNCHANGED Report!reportVars
<1>1. UNCHANGED <<Job, Entries>>
  BY EntriesOfSame
<1>2. UNCHANGED Verdict
  BY DEF Verdict
<1> QED  BY <1>1, <1>2, ReportUnfolded

(* A step that ends the run without a report concludes it.                   *)
LEMMA ConcludeStep ==
  ASSUME OrderInv, OrderInv', results' = results, pc # "done", pc' = "done",
         UNCHANGED <<requests, options, cancelled>>
  PROVE  Report!Next
<1>1. UNCHANGED <<Job, Entries, cancelled>> /\ IterationCount' = IterationCount /\ N' = N
  BY EntriesOfSame
<1>2. /\ Verdict = "running"
      /\ Verdict' = IF summary'.cancelled THEN "cancelled"
                    ELSE IF options.fail_fast /\ summary'.failed > 0 THEN "failed"
                    ELSE "finished"
  BY DEF Verdict
<1>3. /\ Complete' /\ Failures' /\ summary' \in Summary
      /\ summary'.cancelled => cancelled
  BY DEF OrderInv, FlowInv, TypeInv, TypeOK, TokenFacts
<1>4. summary'.failed \in Nat
  BY <1>3 DEF Summary
<1>5. ASSUME Verdict' = "finished"
      PROVE  \A i \in 1 .. Job.iterations, k \in 1 .. Job.length :
               \E r \in DOMAIN Entries' :
                 Entries'[r].iteration = i /\ Entries'[r].index = k
  <2>1. ~summary'.cancelled /\ ~(options.fail_fast /\ summary'.failed # 0)
    BY <1>2, <1>4, <1>5
  <2>2. \A i \in 1 .. IterationCount, k \in 1 .. N : Reported(i, k)'
    BY <1>1, <1>3, <2>1 DEF Complete
  <2> QED  BY <2>2 DEF Job, Entries, Entry, Reported
<1>6. ASSUME Verdict' = "failed"
      PROVE  Job.fail_fast /\ \E r \in DOMAIN Entries' : ~Entries'[r].passed
  <2>1. options.fail_fast /\ summary'.failed # 0
    BY <1>2, <1>4, <1>6
  <2> QED  BY <1>3, <2>1 DEF Failures, Job, Entries, Entry
<1>7. Report!Conclude
  BY <1>1, <1>2, <1>3, <1>5, <1>6, ReportUnfolded
<1> QED  BY <1>1, <1>7, ReportUnfolded

LEMMA AppendUnfolded ==
  ASSUME NEW S, NEW q \in Seq(S), NEW e \in S
  PROVE  Append(q, e) = [i \in 1 .. Len(q) + 1 |-> IF i <= Len(q) THEN q[i] ELSE e]
<1>1. \A s \in Seq(S) : s = [i \in 1 .. Len(s) |-> s[i]]
  OBVIOUS
<1>2. /\ Append(q, e) \in Seq(S) /\ Len(Append(q, e)) = Len(q) + 1
      /\ \A i \in 1 .. Len(q) + 1 : Append(q, e)[i] = IF i <= Len(q) THEN q[i] ELSE e
  OBVIOUS
<1> QED  BY <1>1, <1>2

(* A recorded item is published.                                             *)
LEMMA PublishStep ==
  ASSUME OrderInv, OrderInv', UNCHANGED <<requests, options, cancelled>>, pc # "done",
         NEW m \in ItemResult, m.iteration \in 1 .. IterationCount, m.index \in 1 .. N,
         results' = Append(results, m),
         \A r \in DOMAIN results : Report!Before(results[r], m)
  PROVE  Report!Publish
<1>1. UNCHANGED <<Job, cancelled>> /\ Verdict = "running"
  BY EntriesOfSame DEF Verdict
<1>2. results \in Seq(ItemResult) /\ DOMAIN results = 1 .. Len(results) /\ Len(results) \in Nat
  BY OrderFacts
<1> DEFINE w == Entry(m)
<1>3. w \in [iteration : 1 .. Job.iterations, index : 1 .. Job.length, passed : BOOLEAN]
  BY DEF Entry, Job, ItemResult
<1>4. \A r \in DOMAIN Entries : Report!Before(Entries[r], w)
  BY DEF Report!Before, Entries, Entry
<1>5. Entries' = Append(Entries, w)
  <2>1. /\ DOMAIN results' = 1 .. Len(results) + 1
        /\ \A r \in 1 .. Len(results) : results'[r] = results[r]
        /\ results'[Len(results) + 1] = m
    BY <1>2
  <2>2. Entries' = [r \in 1 .. Len(results) + 1 |->
                      IF r <= Len(results) THEN Entry(results[r]) ELSE Entry(m)]
    <3>1. \A r \in 1 .. Len(results) + 1 :
            Entry(results'[r]) = IF r <= Len(results) THEN Entry(results[r]) ELSE Entry(m)
      BY <1>2, <2>1
    <3>2. Entries' = [r \in 1 .. Len(results) + 1 |-> Entry(results'[r])]
      BY <2>1 DEF Entries, Entry
    <3> QED  BY <3>1, <3>2
  <2>3. Entries \in Seq({Entry(x) : x \in ItemResult}) /\ Len(Entries) = Len(results)
        /\ \A r \in 1 .. Len(results) : Entries[r] = Entry(results[r])
    BY <1>2 DEF Entries
  <2>4. Entries \in Seq({Entry(x) : x \in ItemResult}) /\ w \in {Entry(x) : x \in ItemResult}
    BY <2>3
  <2> HIDE DEF w
  <2>5. Append(Entries, w) = [r \in 1 .. Len(results) + 1 |->
                                IF r <= Len(results) THEN Entries[r] ELSE w]
    BY <2>3, <2>4, AppendUnfolded
  <2> QED  BY <1>2, <2>2, <2>3, <2>5 DEF w
<1> QED  BY <1>1, <1>3, <1>4, <1>5, ReportUnfolded

LEMMA StepImplementsReport ==
  OrderInv /\ OrderInv' /\ [Next]_vars => [Report!Next]_(Report!reportVars)
<1> SUFFICES ASSUME OrderInv, OrderInv', [Next]_vars
             PROVE  Report!Next \/ UNCHANGED Report!reportVars
  OBVIOUS
<1> DEFINE Goal == Report!Next \/ UNCHANGED Report!reportVars
<1>a. ASSUME results' = results, UNCHANGED <<requests, options, cancelled>>,
             pc # "done", pc' \in Pcs
      PROVE  Goal
  BY <1>a, StutterStep, ConcludeStep
<1>b. pc' \in Pcs
  BY DEF OrderInv, FlowInv, TypeInv, TypeOK
<1>c. StopCancelled => results' = results
  <2>1. summary \in Summary
    BY OrderFacts
  <2> QED  BY <2>1 DEF StopCancelled, results, Summary
<1>d. \A status : summary' = Seen(summary, status) => results' = results
  <2>1. summary \in Summary
    BY OrderFacts
  <2> QED  BY <2>1 DEF Seen, results, Summary
<1>e. UNCHANGED summary => results' = results
  BY DEF results
<1> USE DEF jobVars, tokenVars, contextVars
<1>1. CASE TopCancelled
  BY <1>1, <1>a, <1>b, <1>c, <1>d, <1>e DEF TopCancelled
<1>2. CASE NextIteration
  BY <1>2, <1>a, <1>b, <1>c, <1>d, <1>e DEF NextIteration
<1>3. CASE LaunchBatch
  BY <1>3, <1>a, <1>b, <1>c, <1>d, <1>e DEF LaunchBatch, MayStart, Launch
<1>4. CASE Join
  BY <1>4, <1>a, <1>b, <1>c, <1>d, <1>e DEF Join
<1>5. CASE CountItem
  <2>1. CASE phase[cursor] # "ready"
    BY <1>5, <1>a, <1>b, <1>e, <2>1 DEF CountItem
  <2>2. CASE phase[cursor] = "ready"
    <3>1. /\ start <= N /\ cursor >= start /\ cursor \in 1 .. N /\ cursor \in Slots
          /\ Frontier = cursor /\ N \in Nat
      BY <1>5, OrderFacts, BatchFacts DEF CountItem, FlowInv, PhaseFacts, Frontier
    <3> DEFINE m == item[cursor]
               s == Seen(summary, m.status)
    <3>2. summary \in Summary /\ s \in Summary
      BY OrderFacts, SeenType
    <3>3. s.results = results /\ s.failed = summary.failed
      BY <3>2 DEF Seen, Summary, results
    <3>4. m \in ItemResult /\ m.iteration = iter /\ m.index = cursor
      BY <2>2, <3>1, OrderFacts DEF FlowInv, ItemFacts, TypeInv, TypeOK
    <3>5. summary' = Counted(s, m)
      BY <1>5, <2>2 DEF CountItem
    <3> HIDE DEF s, m
    <3>6. results' = Append(results, m) /\ \A r \in DOMAIN results : Report!Before(results[r], m)
      BY <3>1, <3>2, <3>3, <3>4, <3>5, RecordStep, OrderFacts
    <3>7. iter \in 1 .. IterationCount
      BY OrderFacts
    <3>8. Report!Publish
      BY <1>5, <3>1, <3>4, <3>6, <3>7, PublishStep DEF CountItem
    <3>9. UNCHANGED Verdict
      BY <1>5 DEF CountItem, Verdict
    <3> QED  BY <3>8, <3>9, ReportUnfolded
  <2> QED  BY <2>1, <2>2
<1>6. CASE EndBatch
  <2>1. results' = results
    BY <1>6, <1>c, <1>e DEF EndBatch
  <2> QED  BY <1>6, <1>a, <1>b, <2>1 DEF EndBatch
<1>7. ASSUME NEW k \in Slots, DropConcurrent(k) PROVE Goal
  BY <1>7, <1>a, <1>b, <1>c, <1>d, <1>e DEF DropConcurrent, Observes
<1>8. CASE TakeRequest
  BY <1>8, <1>a, <1>b, <1>c, <1>d, <1>e DEF TakeRequest, MayStart, BeginRequest, Launch
<1>9. CASE DelayElapsed
  BY <1>9, <1>a, <1>b, <1>c, <1>d, <1>e DEF DelayElapsed, BeginRequest, Launch
<1>10. CASE DelayCancelled
  BY <1>10, <1>a, <1>b, <1>c, <1>d, <1>e DEF DelayCancelled, Observes
<1>11. CASE StartPreScript
  BY <1>11, <1>a, <1>b, <1>c, <1>d, <1>e DEF StartPreScript, StartScript
<1>12. CASE PreScriptOk
  BY <1>12, <1>a, <1>b, <1>c, <1>d, <1>e DEF PreScriptOk, Launch, ApplyVariables
<1>13. CASE PreScriptInvalidRequest
  BY <1>13, <1>a, <1>b, <1>c, <1>d, <1>e DEF PreScriptInvalidRequest, SettleError, ApplyVariables
<1>14. CASE PreScriptErr
  BY <1>14, <1>a, <1>b, <1>c, <1>d, <1>e DEF PreScriptErr, SettleError
<1>15. CASE Drop
  BY <1>15, <1>a, <1>b, <1>c, <1>d, <1>e DEF Drop, Observes
<1>16. CASE StartTestScript
  BY <1>16, <1>a, <1>b, <1>c, <1>d, <1>e DEF StartTestScript, StartScript
<1>17. CASE TestScriptOk
  BY <1>17, <1>a, <1>b, <1>c, <1>d, <1>e DEF TestScriptOk, ApplyVariables
<1>18. CASE TestScriptErr
  BY <1>18, <1>a, <1>b, <1>c, <1>d, <1>e DEF TestScriptErr
<1>19. CASE RecordItem
  <2> DEFINE m == item[start]
  <2>1. /\ pc = "record" /\ start \in 1 .. N /\ start \in Slots /\ Frontier = start
        /\ summary \in Summary /\ iter \in 1 .. IterationCount
    BY <1>19, OrderFacts, BatchFacts DEF RecordItem, Frontier
  <2>2. /\ m \in ItemResult /\ m.iteration = iter /\ m.index = start
        /\ summary' = Counted(summary, m) /\ summary.results = results
    BY <1>19, <2>1, OrderFacts DEF RecordItem, FlowInv, ItemFacts, TypeInv, TypeOK, Judging, results
  <2>3. /\ results' = Append(results, m)
        /\ \A r \in DOMAIN results : Report!Before(results[r], m)
        /\ summary'.failed = IF m.passed THEN summary.failed ELSE summary.failed + 1
        /\ summary'.cancelled = summary.cancelled /\ summary.failed \in Nat
    BY <2>1, <2>2, RecordStep, OrderFacts, FlagKept
  <2>4. UNCHANGED <<requests, options, cancelled>>
    BY <1>19 DEF RecordItem
  <2> HIDE DEF m
  <2>5. Report!Publish
    BY <2>1, <2>2, <2>3, <2>4, PublishStep
  <2>6. CASE pc' = "top"
    <3>1. UNCHANGED Verdict
      BY <2>1, <2>6 DEF Verdict
    <3> QED  BY <2>5, <3>1, ReportUnfolded
  <2>7. CASE pc' = "done"
    <3>1. ~m.passed /\ options.fail_fast /\ ~summary.cancelled
      BY <1>19, <2>7, OrderFacts DEF RecordItem, FlowInv, TokenFacts, m
    <3>2. summary'.failed > 0 /\ ~summary'.cancelled
      BY <2>3, <3>1
    <3>3. Verdict = "running" /\ Verdict' = "failed"
      BY <2>1, <2>4, <2>7, <3>1, <3>2 DEF Verdict
    <3>4. Job.fail_fast /\ \E r \in DOMAIN Entries' : ~Entries'[r].passed
      <4>1. Failures' /\ summary'.failed # 0
        BY <2>3, <3>1 DEF OrderInv
      <4> QED  BY <2>4, <3>1, <4>1 DEF Failures, Job, Entries, Entry
    <3>5. Report!Conclude
      BY <2>4, <3>3, <3>4, EntriesOfSame, ReportUnfolded
    <3> QED  BY <2>5, <3>5, ReportUnfolded
  <2> QED  BY <1>19, <2>6, <2>7 DEF RecordItem
<1>20. ASSUME NEW k \in Slots, TokenStep(CheckFlag(k)) PROVE Goal
  BY <1>20, <1>e, StutterStep DEF TokenStep, CheckFlag
<1>21. ASSUME NEW k \in Slots, TokenStep(Park(k)) PROVE Goal
  BY <1>21, <1>e, StutterStep DEF TokenStep, Park
<1>22. CASE Respond
  BY <1>22, <1>a, <1>b, <1>c, <1>d, <1>e DEF Respond
<1>23. ASSUME NEW k \in Slots, RespondConcurrent(k) PROVE Goal
  BY <1>23, <1>a, <1>b, <1>c, <1>d, <1>e DEF RespondConcurrent
<1>24. CASE TokenStep(Cancel)
  <2>1. UNCHANGED <<Job, Entries, Verdict>>
    BY <1>24, EntriesOfSame, <1>e DEF TokenStep, Verdict
  <2>2. ~cancelled /\ cancelled' = TRUE
    BY <1>24, OrderFacts DEF TokenStep, Cancel, StoreFlag, FlowInv, TokenFacts
  <2> QED  BY <2>1, <2>2, ReportUnfolded
<1>25. CASE TokenStep(NotifyWaiters)
  BY <1>25, <1>e, StutterStep DEF TokenStep, NotifyWaiters
<1>26. CASE UNCHANGED vars
  BY <1>26, <1>e, StutterStep DEF vars
<1> QED
  BY <1>1, <1>2, <1>3, <1>4, <1>5, <1>6, <1>7, <1>8, <1>9, <1>10, <1>11,
     <1>12, <1>13, <1>14, <1>15, <1>16, <1>17, <1>18, <1>19, <1>20,
     <1>21, <1>22, <1>23, <1>24, <1>25, <1>26
     DEF Next, RunnerStep, ServerStep

(* The runner implements the contract of a collection run: it reports in the   *)
(* order of the work, never twice, nothing that is not work, and it ends only   *)
(* when all is reported, or for a failure under fail_fast, or for a cancel.     *)
THEOREM RunnerImplementsReport == Spec => ImplementsReport
<1>1. Init => Report!Init
  <2> SUFFICES ASSUME Init PROVE Report!Init
    OBVIOUS
  <2>1. Job \in [iterations : Nat, length : Nat, fail_fast : BOOLEAN]
    BY InitTypeInv, PositionFacts, OptionsType DEF Job, TypeInv, TypeOK
  <2>2. results = <<>> /\ DOMAIN results = {}
    BY DEF Init, results, EmptySummary
  <2>3. Entries = <<>> /\ Verdict = "running" /\ cancelled = FALSE
    BY <2>2 DEF Init, TokenInit, Entries, Verdict
  <2> QED  BY <2>1, <2>3, ReportUnfolded
<1> QED
  BY <1>1, InitOrderInv, StepOrderInv, StepImplementsReport, PTL
     DEF Spec, ImplementsReport, Report!Spec

=============================================================================
