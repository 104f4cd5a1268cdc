--------------------------- MODULE ScriptProcess ---------------------------
(***************************************************************************)
(* The Node process of one script (run_script_with_execution_info and          *)
(* wait_for_child of postly-core/src/scripting.rs): the input is written to     *)
(* its stdin, two threads read its stdout and stderr up to a limit, and a loop  *)
(* looks at the cancellation, at the child and at the deadline.                *)
(*                                                                         *)
(* Bytes come in units, of which a pipe holds PipeCapacity.  The child reads    *)
(* its input first, as its harness does, and then writes what it likes, exits   *)
(* with any status, or does neither.                                          *)
(***************************************************************************)
EXTENDS Naturals

CONSTANTS
  InputSizes,      \* the sizes of the input
  PipeCapacity,    \* what a pipe holds
  MaxOutput,       \* MAX_SCRIPT_OUTPUT_BYTES
  MaxProduced      \* bound: what the child writes to a pipe

ASSUME ScriptProcessAssumption ==
  /\ InputSizes \subseteq Nat \ {0} /\ PipeCapacity \in Nat \ {0}
  /\ MaxOutput \in Nat /\ MaxProduced \in Nat

VARIABLES
  waiter_phase,    \* where the thread that runs the script is
  script_outcome,  \* what it returns
  child,           \* "none", "running", "succeeded", "failed" or "reaped"
  child_failed,    \* the status that was reaped
  input_left,      \* what is still to be written to stdin
  stdin_pipe,      \* what the child has not read of it
  output_pipe,     \* what the readers have not read
  produced,        \* history: what the child wrote
  collected,       \* what the readers hold
  reader,          \* the readers: "none", "reading", "done" or "over" (limit)
  script_cancelled, script_deadline   \* the flag, and Instant::now() >= deadline

Pipes == {"stdout", "stderr"}
childVars == <<child, child_failed>>
pipeVars == <<output_pipe, produced, collected, reader>>
scriptVars ==
  <<waiter_phase, script_outcome, childVars, input_left, stdin_pipe, pipeVars,
    script_cancelled, script_deadline>>

ScriptProcessInit ==
  /\ waiter_phase = "idle" /\ script_outcome = "none"
  /\ child = "none" /\ child_failed = FALSE
  /\ input_left = 0 /\ stdin_pipe = 0
  /\ output_pipe = [p \in Pipes |-> 0] /\ produced = output_pipe
  /\ collected = output_pipe /\ reader = [p \in Pipes |-> "none"]
  /\ script_cancelled = FALSE /\ script_deadline = FALSE

Exited == child \in {"succeeded", "failed"}
Gone == Exited \/ child = "reaped"
ReturnOutcome(outcome) == waiter_phase' = "returned" /\ script_outcome' = outcome

(* The refusals, and the spawn.                                               *)
StartScriptProcess ==
  /\ waiter_phase = "idle"
  /\ \/ /\ ReturnOutcome(IF script_cancelled THEN "cancelled" ELSE "refused")
        /\ UNCHANGED <<child, input_left>>
     \/ /\ ~script_cancelled
        /\ waiter_phase' = "writing" /\ child' = "running"
        /\ input_left' \in InputSizes
        /\ UNCHANGED script_outcome
  /\ UNCHANGED <<child_failed, stdin_pipe, pipeVars, script_cancelled, script_deadline>>

(* write_all to stdin, before anything is read and before the deadline counts:  *)
(* it waits for the child, and fails when the child is gone.                   *)
WriteInput ==
  /\ waiter_phase = "writing" /\ input_left > 0
  /\ IF Gone
     THEN ReturnOutcome("failed") /\ UNCHANGED <<input_left, stdin_pipe>>
     ELSE /\ stdin_pipe < PipeCapacity
          /\ input_left' = input_left - 1 /\ stdin_pipe' = stdin_pipe + 1
          /\ UNCHANGED <<waiter_phase, script_outcome>>
  /\ UNCHANGED <<childVars, pipeVars, script_cancelled, script_deadline>>

(* wait_for_child spawns the readers and takes the deadline.                  *)
SpawnReaders ==
  /\ waiter_phase = "writing" /\ input_left = 0
  /\ waiter_phase' = "polling"
  /\ reader' = [p \in Pipes |-> "reading"]
  /\ UNCHANGED <<script_outcome, childVars, input_left, stdin_pipe, output_pipe,
                 produced, collected, script_cancelled, script_deadline>>

(* One turn of the loop: the cancellation first, then the child, then the       *)
(* deadline; kill is followed by wait.                                        *)
KillChild(outcome) ==
  /\ child' = "reaped" /\ child_failed' = TRUE
  /\ waiter_phase' = "join stdout" /\ script_outcome' = outcome
OutOfTimeNever == FALSE
OutOfTime == script_deadline
PollChild ==
  /\ waiter_phase = "polling"
  /\ IF script_cancelled THEN KillChild("cancelled")
     ELSE IF Exited
     THEN /\ child' = "reaped" /\ child_failed' = (child = "failed")
          /\ waiter_phase' = "join stdout" /\ UNCHANGED script_outcome
     ELSE OutOfTime /\ KillChild("timeout")
  /\ UNCHANGED <<input_left, stdin_pipe, pipeVars, script_cancelled, script_deadline>>

(* join_pipe of both: without a kill an error of the first is returned at once. *)
Joined(p) == reader[p] \in {"done", "over"}
JoinStdout ==
  /\ waiter_phase = "join stdout" /\ Joined("stdout")
  /\ IF script_outcome = "none" /\ reader["stdout"] = "over"
     THEN ReturnOutcome("too large")
     ELSE waiter_phase' = "join stderr" /\ UNCHANGED script_outcome
  /\ UNCHANGED <<childVars, input_left, stdin_pipe, pipeVars, script_cancelled, script_deadline>>
ScriptResult ==
  IF script_outcome # "none" THEN script_outcome
  ELSE IF reader["stderr"] = "over" THEN "too large"
  ELSE IF child_failed THEN "failed" ELSE "ok"
JoinStderr ==
  /\ waiter_phase = "join stderr" /\ Joined("stderr")
  /\ ReturnOutcome(ScriptResult)
  /\ UNCHANGED <<childVars, input_left, stdin_pipe, pipeVars, script_cancelled, script_deadline>>

(* read_pipe: a read, the end of the pipe, or the limit, at which the reader     *)
(* stops and its end of the pipe is closed.                                   *)
AtExit(p) == Gone
AtEnd(p) == Gone /\ output_pipe[p] = 0
ReadPipe(p) ==
  /\ reader[p] = "reading"
  /\ \/ /\ AtEnd(p)
        /\ reader' = [reader EXCEPT ![p] = "done"]
        /\ UNCHANGED <<output_pipe, collected>>
     \/ /\ output_pipe[p] > 0
        /\ output_pipe' = [output_pipe EXCEPT ![p] = @ - 1]
        /\ IF collected[p] + 1 > MaxOutput
           THEN reader' = [reader EXCEPT ![p] = "over"] /\ UNCHANGED collected
           ELSE collected' = [collected EXCEPT ![p] = @ + 1] /\ UNCHANGED reader
  /\ UNCHANGED <<waiter_phase, script_outcome, childVars, input_left, stdin_pipe,
                 produced, script_cancelled, script_deadline>>

(* The child: it reads its input, writes while there is room, and exits; a      *)
(* write to a pipe that nobody reads any more fails.                          *)
ChildReads ==
  /\ child = "running" /\ stdin_pipe > 0
  /\ stdin_pipe' = stdin_pipe - 1
  /\ UNCHANGED <<waiter_phase, script_outcome, childVars, input_left, pipeVars,
                 script_cancelled, script_deadline>>
ChildWrites(p) ==
  /\ child = "running" /\ produced[p] < MaxProduced /\ reader[p] # "over"
  /\ output_pipe[p] < PipeCapacity
  /\ output_pipe' = [output_pipe EXCEPT ![p] = @ + 1]
  /\ produced' = [produced EXCEPT ![p] = @ + 1]
  /\ UNCHANGED <<waiter_phase, script_outcome, childVars, input_left, stdin_pipe,
                 collected, reader, script_cancelled, script_deadline>>
ChildExits ==
  /\ child = "running"
  /\ child' \in {"succeeded", "failed"}
  /\ UNCHANGED <<waiter_phase, script_outcome, child_failed, input_left, stdin_pipe,
                 pipeVars, script_cancelled, script_deadline>>

CancelScriptProcess ==
  /\ ~script_cancelled /\ script_cancelled' = TRUE
  /\ UNCHANGED <<waiter_phase, script_outcome, childVars, input_left, stdin_pipe,
                 pipeVars, script_deadline>>
DeadlinePasses ==
  /\ waiter_phase = "polling" /\ ~script_deadline /\ script_deadline' = TRUE
  /\ UNCHANGED <<waiter_phase, script_outcome, childVars, input_left, stdin_pipe,
                 pipeVars, script_cancelled>>

ScriptThread ==
  \/ WriteInput \/ SpawnReaders \/ PollChild \/ JoinStdout \/ JoinStderr
ScriptProcessNext ==
  \/ StartScriptProcess \/ ScriptThread
  \/ \E p \in Pipes : ReadPipe(p) \/ ChildWrites(p)
  \/ ChildReads \/ ChildExits \/ CancelScriptProcess \/ DeadlinePasses

(* The threads run, time passes, and the harness reads its input.              *)
ScriptProcessFairness ==
  /\ WF_scriptVars(ScriptThread) /\ WF_scriptVars(ChildReads)
  /\ \A p \in Pipes : WF_scriptVars(ReadPipe(p))
  /\ WF_scriptVars(DeadlinePasses)
ScriptProcessSpec ==
  ScriptProcessInit /\ [][ScriptProcessNext]_scriptVars /\ ScriptProcessFairness

-----------------------------------------------------------------------------
ScriptProcessTypeOK ==
  /\ waiter_phase \in {"idle", "writing", "polling", "join stdout", "join stderr", "returned"}
  /\ script_outcome \in {"none", "refused", "cancelled", "timeout", "failed", "too large", "ok"}
  /\ child \in {"none", "running", "succeeded", "failed", "reaped"}
  /\ {child_failed, script_cancelled, script_deadline} \subseteq BOOLEAN
  /\ input_left \in Nat /\ stdin_pipe \in 0 .. PipeCapacity
  /\ output_pipe \in [Pipes -> 0 .. PipeCapacity]
  /\ produced \in [Pipes -> 0 .. MaxProduced] /\ collected \in [Pipes -> 0 .. MaxOutput]
  /\ reader \in [Pipes -> {"none", "reading", "done", "over"}]

(* A script that returns left no process behind and, when it succeeded, all      *)
(* that the child wrote was collected, whatever order exit, deadline,            *)
(* cancellation and the readers come in.  Only the input that could not be       *)
(* written ("failed" before the readers) leaves a child that is not waited for. *)
ReturnedScriptIsReaped ==
  waiter_phase = "returned" =>
    /\ child \in {"none", "reaped"} \/ (script_outcome = "failed" /\ input_left > 0)
    /\ script_outcome = "ok" => collected = produced /\ ~child_failed

(* A script returns within its deadline and a little more, even if the child      *)
(* blocks on a full pipe, writes for ever or never exits.                       *)
ScriptStarted == waiter_phase = "writing"
ScriptReturned == waiter_phase = "returned"
ScriptReturns == ScriptStarted ~> ScriptReturned
=============================================================================
