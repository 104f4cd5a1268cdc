------------------------------- MODULE Runner -------------------------------
(***************************************************************************)
(* `run_requests`, the collection runner of postly-core/src/runner.rs: it  *)
(* runs every request of a collection once per iteration, one after the    *)
(* other with scripts and delays, or in batches of `concurrency` requests, *)
(* and accounts for each in a RunnerSummary.  A CancellationToken may be   *)
(* cancelled by another thread at any moment.                              *)
(*                                                                         *)
(* What a response, a script or a timer does is chosen by the environment. *)
(* A VariableContext is abstracted to the script runs whose changes it     *)
(* holds, a request to the scripts it has and its number of assertions, a  *)
(* status code to "none" (no response), "ok" (< 400) or "bad" (>= 400).     *)
(***************************************************************************)
EXTENDS CancellationToken, Sequences

CONSTANTS
  MaxRequests,   \* bound on the requests of the collection
  Request,       \* the shapes a request may have
  Options,       \* the RunnerOptions that are tried
  MaxTests       \* bound on the tests one test script reports

VARIABLES
  requests,            \* the requests of the collection, in file order
  options,             \* RunnerOptions
  pc,                  \* where `run_requests` is
  iter,                \* iteration_index + 1
  start,               \* 1 + index of the current request or batch
  cursor,              \* position of the loop over a batch's items
  phase,               \* the future of each request of the batch
  item,                \* the RunnerItemResult each request settled with
  request_to_run,      \* the request as the pre-request script left it
  request_context,     \* the variables of the current request
  iteration_context,   \* the variables carried from request to request
  summary,             \* RunnerSummary
  ran,                 \* history: script runs that returned Ok
  late                 \* history: results recorded after the flag was set

jobVars == <<requests, options>>
contextVars == <<request_to_run, request_context, iteration_context, ran>>
vars == <<tokenVars, jobVars, pc, iter, start, cursor, phase, item,
          contextVars, summary, late>>

(***************************************************************************)
(* Values                                                                  *)
(***************************************************************************)
Slots == 1 .. MaxRequests
Status == {"none", "ok", "bad"}

(* The constants are what the code allows: at most MaxRequests requests,    *)
(* and a RunnerOptions record whose `iterations` is the number of data rows.*)
ASSUME RunnerAssumption ==
  /\ MaxRequests \in Nat
  /\ Waiters = Slots
  /\ MaxTests \in Nat
  /\ Request \subseteq [pre : BOOLEAN, test : BOOLEAN, assertions : Nat]
  /\ Options \subseteq [fail_fast : BOOLEAN, delay : BOOLEAN, scripts : BOOLEAN,
                        concurrency : Nat, iterations : Nat]

(* Between two requests there is no clone of a request.                      *)
NoRequest == [pre |-> FALSE, test |-> FALSE, assertions |-> 0]

ItemResult == [iteration : Nat, index : Nat, status : Status, error : BOOLEAN,
               passed : BOOLEAN, assertions : Nat, assertion_failures : Nat]

Summary == [requests : Nat, passed : Nat, failed : Nat, assertions : Nat,
            assertion_failures : Nat, cancelled : BOOLEAN,
            status_distribution : [{"ok", "bad"} -> Nat],
            results : Seq(ItemResult)]

EmptySummary ==
  [requests |-> 0, passed |-> 0, failed |-> 0, assertions |-> 0,
   assertion_failures |-> 0, cancelled |-> FALSE,
   status_distribution |-> [s \in {"ok", "bad"} |-> 0], results |-> <<>>]

(* A script run, named by when it happens; its changes to the variables.    *)
ScriptRun == Nat \X Nat \X {"pre", "test"}

N == Len(requests)

(* With no data rows the runner makes one iteration with no data.           *)
IterationCountNoDefault == options.iterations
IterationCount == IF options.iterations = 0 THEN 1 ELSE options.iterations

Concurrent == options.concurrency > 1 /\ ~options.delay /\ ~options.scripts

(* The current request, or the current batch of `concurrency` requests.     *)
BatchEnd ==
  IF ~Concurrent THEN start
  ELSE IF start + options.concurrency - 1 < N
       THEN start + options.concurrency - 1 ELSE N
Batch == start .. BatchEnd
AfterBatchOverlapping == BatchEnd
AfterBatchByConcurrency == start + options.concurrency
AfterBatch == BatchEnd + 1

(* What `execute` may return: an error, or a status and the number of       *)
(* native assertions that fail on the response.                             *)
Responses(r) == {[status |-> "none", failures |-> 0]}
                  \cup [status : {"ok", "bad"}, failures : 0 .. r.assertions]

(* The item of a request whose test script, if any, has not run.            *)
Settled(i, k, r, response) ==
  [iteration |-> i, index |-> k, status |-> response.status,
   error |-> response.status = "none" \/ response.failures > 0,
   passed |-> response.status = "ok" /\ response.failures = 0,
   assertions |-> IF response.status = "none" THEN 0 ELSE r.assertions,
   assertion_failures |-> response.failures]

ErrorResponse == [status |-> "none", failures |-> 0]

(* The same item after its test script returned Ok with `tests` tests, of   *)
(* which `bad` failed; `applied` is whether the script's request parses.     *)
Tested(m, tests, bad, applied) ==
  LET failures == m.assertion_failures + bad
      error == ~applied \/ m.error \/ failures > 0
  IN [m EXCEPT !.assertions = @ + tests,
               !.assertion_failures = failures,
               !.error = error,
               !.passed = m.status = "ok" /\ ~error]

(* The summary's counters and results, for one finished item.               *)
Counted(s, m) ==
  [s EXCEPT !.assertions = @ + m.assertions,
            !.assertion_failures = @ + m.assertion_failures,
            !.passed = IF m.passed THEN @ + 1 ELSE @,
            !.failed = IF m.passed THEN @ ELSE @ + 1,
            !.results = Append(@, m)]

(* The summary's request count and status distribution.                     *)
Seen(s, status) ==
  [s EXCEPT !.requests = @ + 1,
            !.status_distribution =
               [t \in {"ok", "bad"} |-> IF t = status THEN @[t] + 1 ELSE @[t]]]

Unit(i, k) == <<i, k>>
NowLate(k) == IF cancelled THEN late \cup {Unit(iter, k)} ELSE late

(* The variables an iteration starts from: what `run_requests` was given.    *)
StaleContext == iteration_context
FreshContext == {}

(***************************************************************************)
(* The start of `run_requests` and the head of its loops                   *)
(***************************************************************************)
Init ==
  /\ TokenInit
  /\ requests \in UNION {[1 .. n -> Request] : n \in 0 .. MaxRequests}
  /\ options \in Options
  /\ pc = "top"
  /\ iter = 1 /\ start = 1 /\ cursor = 1
  /\ phase = [k \in Slots |-> "idle"]
  /\ item = [k \in Slots |-> Settled(1, k, NoRequest, ErrorResponse)]
  /\ request_to_run = NoRequest
  /\ request_context = {} /\ iteration_context = {} /\ ran = {}
  /\ summary = EmptySummary
  /\ late = {}

(* `break 'iterations` after the token was seen to be cancelled.            *)
StopCancelledWithoutBreak ==
  /\ UNCHANGED pc
  /\ summary' = [summary EXCEPT !.cancelled = TRUE]
StopCancelled ==
  /\ pc' = "done"
  /\ summary' = [summary EXCEPT !.cancelled = TRUE]

(* The flag is set at the head of the loop: nothing more is started.        *)
TopCancelled ==
  /\ pc = "top" /\ start <= N /\ cancelled
  /\ StopCancelled
  /\ UNCHANGED <<tokenVars, jobVars, iter, start, cursor, phase, item,
                 contextVars, late>>

(* The requests are exhausted: the next iteration starts from the context   *)
(* `run_requests` was given, or the run is over.                            *)
NextIteration ==
  /\ pc = "top" /\ start > N
  /\ IF iter < IterationCount
     THEN /\ iter' = iter + 1 /\ start' = 1
          /\ iteration_context' = FreshContext
          /\ UNCHANGED pc
     ELSE /\ pc' = "done"
          /\ UNCHANGED <<iter, start, iteration_context>>
  /\ UNCHANGED <<tokenVars, jobVars, cursor, phase, item, request_to_run,
                 request_context, ran, summary, late>>

(* The head of the loop lets the next request or batch start.                *)
MayStartUnchecked == pc = "top" /\ start <= N
MayStart == pc = "top" /\ start <= N /\ ~cancelled

(* A `select!` of `cancelled()` and `execute` begins for these requests.     *)
Launch(ks) ==
  /\ phase' = [k \in Slots |-> IF k \in ks THEN "flying" ELSE phase[k]]
  /\ waiter' = [k \in Slots |-> IF k \in ks THEN "unchecked" ELSE waiter[k]]
  /\ pc' = "flight"

(***************************************************************************)
(* Concurrent batches: execute_concurrent_batch joins one future for each   *)
(* request of the batch                                                    *)
(***************************************************************************)
LaunchBatch ==
  /\ MayStart /\ Concurrent
  /\ Launch(Batch)
  /\ UNCHANGED <<cancelled, notify, jobVars, iter, start, cursor, item,
                 contextVars, summary, late>>

(* execute_concurrent_request: `execute` is the branch that completes ...    *)
RespondConcurrent(k) ==
  /\ pc = "flight" /\ Concurrent /\ phase[k] = "flying"
  /\ \E response \in Responses(requests[k]) :
       item' = [item EXCEPT ![k] = Settled(iter, k, requests[k], response)]
  /\ phase' = [phase EXCEPT ![k] = "ready"]
  /\ waiter' = [waiter EXCEPT ![k] = "off"]
  /\ UNCHANGED <<cancelled, notify, jobVars, pc, iter, start, cursor,
                 contextVars, summary, late>>

(* ... or `cancelled()` is, and the future returns None.                     *)
DropConcurrent(k) ==
  /\ pc = "flight" /\ Concurrent /\ phase[k] = "flying" /\ Observes(k)
  /\ phase' = [phase EXCEPT ![k] = "dropped"]
  /\ waiter' = [waiter EXCEPT ![k] = "off"]
  /\ UNCHANGED <<cancelled, notify, jobVars, pc, iter, start, cursor, item,
                 contextVars, summary, late>>

Join ==
  /\ pc = "flight" /\ Concurrent
  /\ \A k \in Batch : phase[k] # "flying"
  /\ pc' = "count" /\ cursor' = start
  /\ UNCHANGED <<tokenVars, jobVars, iter, start, phase, item, contextVars,
                 summary, late>>

(* One round of the loop over the items that the batch returned.             *)
CountItem ==
  /\ pc = "count" /\ cursor <= BatchEnd
  /\ cursor' = cursor + 1
  /\ IF phase[cursor] = "ready"
     THEN /\ summary' = Counted(Seen(summary, item[cursor].status), item[cursor])
          /\ late' = NowLate(cursor)
     ELSE UNCHANGED <<summary, late>>
  /\ UNCHANGED <<tokenVars, jobVars, pc, iter, start, phase, item, contextVars>>

AllOfBatchFailed == \A k \in Batch : phase[k] = "ready" /\ ~item[k].passed
BatchFailed == \E k \in Batch : phase[k] = "ready" /\ ~item[k].passed
BatchNeverCancelled == FALSE
BatchCancelled == \E k \in Batch : phase[k] = "dropped"

(* After the batch: fail-fast is looked at before cancellation.              *)
EndBatch ==
  /\ pc = "count" /\ cursor > BatchEnd
  /\ \/ /\ BatchFailed /\ options.fail_fast
        /\ pc' = "done"
        /\ UNCHANGED <<start, phase, summary>>
     \/ /\ ~(BatchFailed /\ options.fail_fast) /\ BatchCancelled
        /\ StopCancelled
        /\ UNCHANGED <<start, phase>>
     \/ /\ ~(BatchFailed /\ options.fail_fast) /\ ~BatchCancelled
        /\ pc' = "top" /\ start' = AfterBatch
        /\ phase' = [k \in Slots |-> "idle"]
        /\ UNCHANGED summary
  /\ UNCHANGED <<tokenVars, jobVars, iter, cursor, item, contextVars, late>>

(***************************************************************************)
(* One request after the other                                             *)
(***************************************************************************)
(* Clone the contexts and the request; run the pre-request script if there  *)
(* is one and scripts are enabled, else go to `select!`.                     *)
BeginRequest ==
  /\ request_context' = iteration_context
  /\ request_to_run' = requests[start]
  /\ IF options.scripts /\ requests[start].pre
     THEN /\ pc' = "pre"
          /\ waiter' = [waiter EXCEPT ![start] = "off"]
          /\ UNCHANGED phase
     ELSE Launch({start})

NeedsDelay == start > 1 /\ options.delay

TakeRequest ==
  /\ MayStart /\ ~Concurrent
  /\ IF NeedsDelay
     THEN /\ pc' = "delay"
          /\ waiter' = [waiter EXCEPT ![start] = "unchecked"]
          /\ UNCHANGED <<phase, request_context, request_to_run>>
     ELSE BeginRequest
  /\ UNCHANGED <<cancelled, notify, jobVars, iter, start, cursor, item,
                 iteration_context, ran, summary, late>>

(* The `select!` between two requests: the sleep ends, or the token fires.   *)
DelayElapsed ==
  /\ pc = "delay"
  /\ BeginRequest
  /\ UNCHANGED <<cancelled, notify, jobVars, iter, start, cursor, item,
                 iteration_context, ran, summary, late>>

DelayCancelled ==
  /\ pc = "delay" /\ Observes(start)
  /\ StopCancelled
  /\ waiter' = [waiter EXCEPT ![start] = "off"]
  /\ UNCHANGED <<cancelled, notify, jobVars, iter, start, cursor, phase, item,
                 contextVars, late>>

(* run_script_with_execution_info refuses to start when the flag is set.     *)
StartScriptIgnoringRefusal(stage, running) ==
  /\ pc = stage
  /\ IF cancelled THEN UNCHANGED <<pc, summary>>
     ELSE pc' = running /\ UNCHANGED summary
  /\ UNCHANGED <<tokenVars, jobVars, iter, start, cursor, phase, item,
                 contextVars, late>>
StartScript(stage, running) ==
  /\ pc = stage
  /\ IF cancelled THEN StopCancelled
     ELSE pc' = running /\ UNCHANGED summary
  /\ UNCHANGED <<tokenVars, jobVars, iter, start, cursor, phase, item,
                 contextVars, late>>
StartPreScript == StartScript("pre", "prerun")
StartTestScript == StartScript("test", "testrun")

(* ScriptResult::apply changes the variables before it parses the request.   *)
ApplyVariables(stage) ==
  /\ request_context' = request_context \cup {<<iter, start, stage>>}
  /\ ran' = ran \cup {<<iter, start, stage>>}

(* The request counts, and its item is the error.                            *)
SettleErrorUncounted ==
  /\ item' = [item EXCEPT ![start] =
                Settled(iter, start, request_to_run, ErrorResponse)]
  /\ pc' = "record"
  /\ UNCHANGED summary
SettleError ==
  /\ summary' = Seen(summary, "none")
  /\ item' = [item EXCEPT ![start] =
                Settled(iter, start, request_to_run, ErrorResponse)]
  /\ pc' = "record"

(* The pre-request script returns Ok and its request parses: it is the one   *)
(* that is sent, whatever the script made of it.                             *)
PreScriptOk ==
  /\ pc = "prerun"
  /\ ApplyVariables("pre")
  /\ request_to_run' \in Request
  /\ Launch({start})
  /\ UNCHANGED <<cancelled, notify, jobVars, iter, start, cursor, item,
                 iteration_context, summary, late>>

PreScriptInvalidRequest ==
  /\ pc = "prerun"
  /\ ApplyVariables("pre")
  /\ SettleError
  /\ UNCHANGED <<tokenVars, jobVars, iter, start, cursor, phase,
                 request_to_run, iteration_context, late>>

(* Any Err is a cancellation if the flag is set when it is looked at.        *)
PreScriptErr ==
  /\ pc = "prerun"
  /\ IF cancelled THEN StopCancelled /\ UNCHANGED item ELSE SettleError
  /\ UNCHANGED <<tokenVars, jobVars, iter, start, cursor, phase, contextVars,
                 late>>

(* `execute` completes first: the request and its status count from now on.  *)
Respond ==
  /\ pc = "flight" /\ ~Concurrent
  /\ \E response \in Responses(request_to_run) :
       /\ item' = [item EXCEPT ![start] =
                     Settled(iter, start, request_to_run, response)]
       /\ summary' = Seen(summary, response.status)
       /\ pc' = IF response.status # "none" /\ options.scripts /\ request_to_run.test
                THEN "test" ELSE "record"
  /\ phase' = [phase EXCEPT ![start] = "idle"]
  /\ waiter' = [waiter EXCEPT ![start] = "off"]
  /\ UNCHANGED <<cancelled, notify, jobVars, iter, start, cursor, contextVars,
                 late>>

(* `cancelled()` completes first.                                            *)
Drop ==
  /\ pc = "flight" /\ ~Concurrent /\ Observes(start)
  /\ StopCancelled
  /\ phase' = [phase EXCEPT ![start] = "dropped"]
  /\ waiter' = [waiter EXCEPT ![start] = "off"]
  /\ UNCHANGED <<cancelled, notify, jobVars, iter, start, cursor, item,
                 contextVars, late>>

TestScriptOk ==
  /\ pc = "testrun"
  /\ ApplyVariables("test")
  /\ \E tests \in 0 .. MaxTests, applied \in BOOLEAN :
       \E bad \in 0 .. tests :
         item' = [item EXCEPT ![start] = Tested(@, tests, bad, applied)]
  /\ pc' = "record"
  /\ UNCHANGED <<tokenVars, jobVars, iter, start, cursor, phase,
                 request_to_run, iteration_context, summary, late>>

TestScriptErr ==
  /\ pc = "testrun"
  /\ IF cancelled THEN StopCancelled /\ UNCHANGED item
     ELSE /\ item' = [item EXCEPT ![start].error = TRUE,
                                  ![start].passed = FALSE]
          /\ pc' = "record"
          /\ UNCHANGED summary
  /\ UNCHANGED <<tokenVars, jobVars, iter, start, cursor, phase, contextVars,
                 late>>

(* The item joins the results; its variables go to the next request.         *)
RecordItem ==
  /\ pc = "record"
  /\ iteration_context' = request_context
  /\ request_context' = {} /\ request_to_run' = NoRequest   \* out of scope
  /\ summary' = Counted(summary, item[start])
  /\ late' = NowLate(start)
  /\ IF ~item[start].passed /\ options.fail_fast
     THEN pc' = "done" /\ UNCHANGED start
     ELSE pc' = "top" /\ start' = start + 1
  /\ UNCHANGED <<tokenVars, jobVars, iter, cursor, phase, item, ran>>

(***************************************************************************)
(* Specification                                                           *)
(***************************************************************************)
(* The thread that cancels: the Ctrl-C task or the Cancel button.            *)
Cancel == StoreFlag /\ pc # "done"
TokenStep(A) == A /\ UNCHANGED <<jobVars, pc, iter, start, cursor, phase, item,
                                 contextVars, summary, late>>

(* What the runner's own task and its script child do.                       *)
RunnerStep ==
  \/ TopCancelled \/ NextIteration
  \/ LaunchBatch \/ Join \/ CountItem \/ EndBatch
  \/ \E k \in Slots : DropConcurrent(k)
  \/ TakeRequest \/ DelayElapsed \/ DelayCancelled
  \/ StartPreScript \/ PreScriptOk \/ PreScriptInvalidRequest \/ PreScriptErr
  \/ Drop
  \/ StartTestScript \/ TestScriptOk \/ TestScriptErr
  \/ RecordItem
  \/ \E k \in Slots : TokenStep(CheckFlag(k)) \/ TokenStep(Park(k))

(* What the server and the network do.                                       *)
ServerStep == Respond \/ \E k \in Slots : RespondConcurrent(k)

Next ==
  \/ RunnerStep
  \/ ServerStep
  \/ TokenStep(Cancel)
  \/ TokenStep(NotifyWaiters)
  \/ pc = "done" /\ notify # "stored" /\ UNCHANGED vars   \* the run is over

(* The runner's task is polled while it can run, the cancelling thread does  *)
(* not stop inside `cancel`, and a request ends: reqwest's overall timeout   *)
(* answers for a server that does not.  Nobody has to cancel.                *)
Fairness ==
  /\ WF_vars(RunnerStep)
  /\ WF_vars(TokenStep(NotifyWaiters))
Spec == Init /\ [][Next]_vars /\ Fairness /\ WF_vars(ServerStep)

(* The same, when nothing is assumed about how soon the server answers.      *)
SilentServerSpec == Init /\ [][Next]_vars /\ Fairness
-----------------------------------------------------------------------------
(***************************************************************************)
(* Properties                                                              *)
(***************************************************************************)
Pcs == {"top", "flight", "count", "delay", "pre", "prerun", "test", "testrun",
        "record", "done"}

(* Every variable of `run_requests` keeps its type, and the positions stay    *)
(* inside the collection.                                                     *)
TypeOK ==
  /\ TokenTypeOK
  /\ requests \in Seq(Request) /\ N <= MaxRequests
  /\ options \in Options
  /\ pc \in Pcs
  /\ iter \in 1 .. IterationCount
  /\ start \in 1 .. N + 1
  /\ cursor \in 1 .. N + 1
  /\ phase \in [Slots -> {"idle", "flying", "ready", "dropped"}]
  /\ item \in [Slots -> ItemResult]
  /\ request_to_run \in Request \cup {NoRequest}
  /\ request_context \subseteq ScriptRun
  /\ iteration_context \subseteq ScriptRun
  /\ ran \subseteq ScriptRun
  /\ summary \in Summary
  /\ late \subseteq Nat \X Nat

results == summary.results

(* The summary adds up at every moment: each recorded item is counted once as *)
(* passed or failed, a zero counter means no such item, and the request count *)
(* runs ahead of the results by at most the one request whose test script is  *)
(* still to be judged (for good, when the run is cancelled in that script).   *)
SummaryAddsUp ==
  /\ summary.passed + summary.failed = Len(results)
  /\ summary.failed = 0 => \A r \in DOMAIN results : results[r].passed
  /\ summary.passed = 0 => \A r \in DOMAIN results : ~results[r].passed
  /\ summary.requests \in {Len(results), Len(results) + 1}
  /\ summary.requests > Len(results) =>
       pc \in {"test", "testrun", "record"} \/ (pc = "done" /\ summary.cancelled)
  /\ summary.status_distribution["ok"] + summary.status_distribution["bad"]
       <= summary.requests

(* `succeeded()` is only ever true of a run in which every request of every   *)
(* iteration was executed, recorded and passed: no interleaving of a          *)
(* cancellation lets a cut-short run exit with success.                       *)
SuccessIsComplete ==
  pc = "done" /\ ~summary.cancelled /\ summary.failed = 0 =>
    \A i \in 1 .. IterationCount, k \in 1 .. N :
      \E r \in DOMAIN results :
        results[r].iteration = i /\ results[r].index = k /\ results[r].passed

SameBatch(a, b) ==
  /\ a.iteration = b.iteration
  /\ IF Concurrent
     THEN (a.index - 1) \div options.concurrency = (b.index - 1) \div options.concurrency
     ELSE a.index = b.index

(* With fail_fast nothing is recorded after the batch in which the first      *)
(* failure was recorded (a batch is one request in sequential mode).          *)
FailFastStopsAtBatch ==
  options.fail_fast =>
    \A r, s \in DOMAIN results :
      r < s /\ ~results[r].passed => SameBatch(results[r], results[s])

(* At the head of the loop the variables are those the scripts of this very   *)
(* iteration set: nothing a script set is lost on the way to the next request *)
(* (not even by a script whose request was invalid, or a request that failed) *)
(* and nothing leaks from one iteration into the next.                        *)
VariablesFollowIteration ==
  pc = "top" => iteration_context = {w \in ran : w[1] = iter}

(* Once the flag is set the runner may finish the requests it has in its      *)
(* hands, and starts no other: whatever it records later is of one batch.     *)
OneBatchAfterCancel ==
  \A u, v \in late : SameBatch([iteration |-> u[1], index |-> u[2]],
                               [iteration |-> v[1], index |-> v[2]])

(* Every run ends.                                                            *)
RunEnds == <>(pc = "done")

Report == INSTANCE RunReport WITH
  job <- [iterations |-> IterationCount, length |-> N,
          fail_fast |-> options.fail_fast],
  cancelRequested <- cancelled,
  report <- [r \in DOMAIN results |-> [iteration |-> results[r].iteration,
                                       index |-> results[r].index,
                                       passed |-> results[r].passed]],
  verdict <- IF pc # "done" THEN "running"
             ELSE IF summary.cancelled THEN "cancelled"
             ELSE IF options.fail_fast /\ summary.failed > 0 THEN "failed"
             ELSE "finished"

(* The runner implements the contract of a collection run: reports in work    *)
(* order and never twice, and no end without a reason.                        *)
ImplementsReport == Report!Spec

(* A request in flight is released by the token alone: after a cancel the run *)
(* ends even if the server stays silent ("Press `Ctrl-C` during `postly run`  *)
(* to cancel the active HTTP request or script", docs/cli.md).                *)
CancelReleasesRun == cancelled ~> (pc = "done")
=============================================================================
