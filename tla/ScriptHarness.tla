-------------------------- MODULE ScriptHarness --------------------------
(***************************************************************************)
(* What runs in a script's child process: the JavaScript harness of          *)
(* postly-core/src/scripting.rs (NODE_HARNESS), and what the parent does      *)
(* with its output (ScriptResult::apply).  The script runs to its end; then   *)
(* the harness waits for the requests it sent with pm.sendRequest, whose       *)
(* callbacks run one at a time, in the order of the answers, and may send      *)
(* more.  What the script returns by then is written to the output.           *)
(*                                                                         *)
(* Callbacks, and handlers given to `then` while the script runs, come before   *)
(* the harness looks again.  The continuation of an `await` comes after it,     *)
(* since the script's promises are of another realm than the harness's.        *)
(***************************************************************************)
EXTENDS Naturals, FiniteSets

CONSTANTS
  PmScopes, PmKeys, PmValues,  \* the variables a script can write
  MaxSends,                    \* MAX_SEND_REQUESTS
  MaxTestEntries,              \* MAX_TEST_ENTRIES
  MaxScriptSteps               \* bound: what a script does

ASSUME HarnessAssumption ==
  /\ MaxSends \in Nat /\ MaxScriptSteps \in Nat /\ MaxTestEntries \in Nat \ {0}
  /\ 0 \notin PmValues

VARIABLES
  harness,        \* whose turn it is, or how the process ended
  pm_given,       \* the variables the script was given, by scope; 0 is unset
  pm_values,      \* the variables as the script sees them
  pm_changes,     \* changes: what was set, by scope
  pm_removals,    \* removals: what was unset, by scope
  sub_requests,   \* pm.sendRequest: the state of each request
  awaited,        \* the requests whose promise the script awaits
  pm_tests,       \* tests that were asked for, that were recorded, and failures
  script_error,   \* what the script, or a callback, threw
  script_steps,   \* history: for the bound
  script_output   \* what the process has written, and what became of it

harnessVars ==
  <<harness, pm_given, pm_values, pm_changes, pm_removals, sub_requests, awaited,
    pm_tests, script_error, script_steps, script_output>>
pmVars == <<pm_values, pm_changes, pm_removals>>
Nothing == [s \in PmScopes |-> [k \in PmKeys |-> 0]]
NoOutput == [written |-> FALSE]
Sent == {r \in 1 .. MaxSends : sub_requests[r] # "none"}
Pending == {r \in 1 .. MaxSends : sub_requests[r] \in {"first", "second"}}

HarnessInit ==
  /\ harness = "idle"
  /\ pm_given = Nothing /\ pm_values = Nothing /\ pm_changes = Nothing
  /\ pm_removals = [s \in PmScopes |-> {}]
  /\ sub_requests = [r \in 1 .. MaxSends |-> "none"] /\ awaited = {}
  /\ pm_tests = [asked |-> 0, recorded |-> 0, failed |-> FALSE, failures |-> FALSE]
  /\ script_error = "none" /\ script_steps = 0 /\ script_output = NoOutput

(* The script is compiled and run.                                          *)
StartHarness(given) ==
  /\ harness = "idle"
  /\ harness' = "script" /\ pm_given' = given /\ pm_values' = given
  /\ UNCHANGED <<pm_changes, pm_removals, sub_requests, awaited, pm_tests, script_error,
                 script_steps, script_output>>

-----------------------------------------------------------------------------
(* What code of the script does in its turn.                                *)
Step ==
  /\ harness \in {"script", "callback", "continuation"}
  /\ script_steps < MaxScriptSteps /\ script_steps' = script_steps + 1

SetVariable(s, k, v) ==
  /\ Step
  /\ pm_values' = [pm_values EXCEPT ![s][k] = v]
  /\ pm_changes' = [pm_changes EXCEPT ![s][k] = v]
  /\ pm_removals' = [pm_removals EXCEPT ![s] = @ \ {k}]
  /\ UNCHANGED <<harness, pm_given, sub_requests, awaited, pm_tests, script_error, script_output>>

(* unset, and clear, which unsets whatever the scope has.                    *)
DropChangesNot(s, keys) == pm_changes' = pm_changes
DropChanges(s, keys) ==
  pm_changes' = [pm_changes EXCEPT ![s] = [k \in PmKeys |-> IF k \in keys THEN 0 ELSE @[k]]]
UnsetVariables(s, keys) ==
  /\ Step
  /\ pm_values' = [pm_values EXCEPT ![s] = [k \in PmKeys |-> IF k \in keys THEN 0 ELSE @[k]]]
  /\ DropChanges(s, keys)
  /\ pm_removals' = [pm_removals EXCEPT ![s] = @ \cup keys]
  /\ UNCHANGED <<harness, pm_given, sub_requests, awaited, pm_tests, script_error, script_output>>
UnsetVariable(s) ==
  \/ \E k \in PmKeys : UnsetVariables(s, {k})
  \/ UnsetVariables(s, {k \in PmKeys : pm_values[s][k] # 0})

(* recordTest: the last entry there is room for is a failure that says so.    *)
RecordTest(passes) ==
  /\ Step
  /\ LET full == pm_tests.recorded >= MaxTestEntries
         last == pm_tests.recorded = MaxTestEntries - 1
     IN pm_tests' =
          [asked |-> pm_tests.asked + 1,
           recorded |-> IF full THEN pm_tests.recorded ELSE pm_tests.recorded + 1,
           failed |-> pm_tests.failed \/ ~passes,
           failures |-> pm_tests.failures \/ last \/ (~full /\ ~passes)]
  /\ UNCHANGED <<harness, pm_given, pmVars, sub_requests, awaited, script_error, script_output>>

(* sendRequest: over the limit the callback is called at once, with an error,  *)
(* and may throw.                                                           *)
SendRequest(awaits) ==
  /\ Step
  /\ \/ \E r \in 1 .. MaxSends :
          /\ sub_requests[r] = "none" /\ \A q \in 1 .. r - 1 : sub_requests[q] # "none"
          /\ sub_requests' = [sub_requests EXCEPT ![r] = "first"]
          /\ awaited' = IF awaits THEN awaited \cup {r} ELSE awaited
          /\ UNCHANGED script_error
     \/ /\ Cardinality(Sent) = MaxSends
        /\ script_error' \in {script_error, IF script_error = "none" THEN "callback" ELSE script_error}
        /\ UNCHANGED <<sub_requests, awaited>>
  /\ UNCHANGED <<harness, pm_given, pmVars, pm_tests, script_output>>

(* The script, or the callback, returns or throws; one that does not return is  *)
(* stopped by the limit of two seconds if it is the script.  An error of a       *)
(* continuation is nobody's: it ends the process.                             *)
EndTurn(throws) ==
  /\ harness \in {"script", "callback", "continuation"}
  /\ script_error' =
       IF ~throws THEN script_error
       ELSE IF harness = "script" THEN "script"
       ELSE IF script_error = "none" THEN "callback" ELSE script_error
  /\ harness' = IF throws /\ harness = "continuation" THEN "failed" ELSE "waiting"
  /\ UNCHANGED <<pm_given, pmVars, sub_requests, awaited, pm_tests, script_steps, script_output>>

-----------------------------------------------------------------------------
(* The requests of a script.                                                *)

(* performSendRequest: an answer, a failure or the timer of two seconds, which   *)
(* runs over both exchanges; a 401 to Digest credentials is answered once, if the    *)
(* body can be sent again and the header ends with the one Digest challenge.   *)
RetryDigest(r) ==
  /\ harness = "waiting" /\ sub_requests[r] = "first"
  /\ sub_requests' = [sub_requests EXCEPT ![r] = "second"]
  /\ UNCHANGED <<harness, pm_given, pmVars, awaited, pm_tests, script_error, script_steps,
                 script_output>>
Settle(r, outcome) ==
  /\ harness = "waiting" /\ r \in Pending
  /\ sub_requests' = [sub_requests EXCEPT ![r] = outcome]
  /\ harness' = "callback"
  /\ UNCHANGED <<pm_given, pmVars, awaited, pm_tests, script_error, script_steps, script_output>>

(* What the script awaits goes on, if the harness has still to wait.           *)
Resumable == {r \in awaited : sub_requests[r] \in {"ok", "error"}}
Continue ==
  /\ harness = "waiting" /\ Pending # {} /\ Resumable # {}
  /\ harness' = "continuation" /\ awaited' = awaited \ Resumable
  /\ UNCHANGED <<pm_given, pmVars, sub_requests, pm_tests, script_error, script_steps,
                 script_output>>

-----------------------------------------------------------------------------
(* No request is pending: an error of the script or of a callback is the result  *)
(* of the process, or else the output is.                                     *)
MayWriteWhenAsked == TRUE
MayWrite == Pending = {}
WriteOutput ==
  /\ harness = "waiting" /\ MayWrite
  /\ IF script_error # "none"
     THEN harness' = "failed" /\ UNCHANGED script_output
     ELSE /\ harness' = "written"
          /\ script_output' = [written |-> TRUE, changes |-> pm_changes, removals |-> pm_removals,
                               tests |-> pm_tests.recorded, failures |-> pm_tests.failures]
  /\ UNCHANGED <<pm_given, pmVars, sub_requests, awaited, pm_tests, script_error, script_steps>>

(* What was awaited last goes on too late: its tests are in no output, and an     *)
(* error gives the process another status.                                   *)
ContinueLate ==
  /\ harness = "written" /\ Resumable # {}
  /\ awaited' = awaited \ Resumable
  /\ harness' \in {"written", "failed"}
  /\ UNCHANGED <<pm_given, pmVars, sub_requests, pm_tests, script_error, script_steps, script_output>>

(* ScriptResult::apply: the variables first, what was unset before what was set;   *)
(* a request that cannot be read is an error that keeps them.                  *)
ApplyChanges(given, output) ==
  [s \in PmScopes |-> [k \in PmKeys |->
     IF output.changes[s][k] # 0 THEN output.changes[s][k]
     ELSE IF k \in output.removals[s] THEN 0 ELSE given[s][k]]]
ApplyResult ==
  /\ harness = "written" /\ Resumable = {}
  /\ harness' \in {"applied", "invalid request"}
  /\ pm_given' = ApplyChanges(pm_given, script_output)
  /\ UNCHANGED <<pmVars, sub_requests, awaited, pm_tests, script_error, script_steps, script_output>>

HarnessNext ==
  \/ \E given \in [PmScopes -> [PmKeys -> PmValues \cup {0}]] : StartHarness(given)
  \/ \E s \in PmScopes : UnsetVariable(s) \/ \E k \in PmKeys, v \in PmValues : SetVariable(s, k, v)
  \/ \E b \in BOOLEAN : RecordTest(b) \/ SendRequest(b) \/ EndTurn(b)
  \/ \E r \in 1 .. MaxSends : RetryDigest(r) \/ \E o \in {"ok", "error"} : Settle(r, o)
  \/ Continue \/ WriteOutput \/ ContinueLate \/ ApplyResult

HarnessSpec == HarnessInit /\ [][HarnessNext]_harnessVars

-----------------------------------------------------------------------------
HarnessTypeOK ==
  /\ harness \in {"idle", "script", "callback", "continuation", "waiting", "written", "failed",
                  "applied", "invalid request"}
  /\ {pm_given, pm_values, pm_changes} \subseteq [PmScopes -> [PmKeys -> PmValues \cup {0}]]
  /\ pm_removals \in [PmScopes -> SUBSET PmKeys]
  /\ sub_requests \in [1 .. MaxSends -> {"none", "first", "second", "ok", "error"}]
  /\ awaited \subseteq Sent /\ pm_tests.recorded \in 0 .. MaxTestEntries
  /\ script_error \in {"none", "script", "callback"}

(* The parent has, after a script, the variables the script and its callbacks    *)
(* saw last, whatever they set and unset and in whichever order the answers       *)
(* came.  An output stands for a script that threw nothing, whose requests have    *)
(* all been answered and called back; it has a failed test if a test failed or     *)
(* there was no room for it.                                                  *)
ScriptOutputIsExact ==
  /\ harness \in {"applied", "invalid request"} => pm_given = pm_values
  /\ script_output.written =>
       /\ script_error = "none" /\ Pending = {}
       /\ script_output.tests = pm_tests.recorded
       /\ pm_tests.failed \/ pm_tests.asked > script_output.tests => script_output.failures
=============================================================================
