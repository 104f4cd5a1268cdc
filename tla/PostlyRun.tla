----------------------------- MODULE PostlyRun -----------------------------
(***************************************************************************)
(* `postly run` (run_workspace and run_workspace_with_cancellation of       *)
(* postly-cli/src/main.rs): the collections of a workspace one after the    *)
(* other, each through `run_requests` of module Runner, one cancellation    *)
(* token for all of them, and an exit status.                               *)
(***************************************************************************)
EXTENDS Runner, FiniteSets

CONSTANT MaxCollections      \* bound on the collections of the workspace

ASSUME PostlyRunAssumption == MaxCollections \in Nat

VARIABLES
  selected,      \* the requests of each collection, after --folder
  folder,        \* whether --folder was given
  coll,          \* how many collections the loop has taken
  stage,         \* where run_workspace_with_cancellation is
  summaries,     \* the RunnerSummary of each collection that ran
  exit,          \* how the command ended
  cancelColl     \* history: `coll` when the flag was set

commandVars == <<selected, folder, coll, stage, summaries, exit, cancelColl>>
runnerVars == <<jobVars, pc, iter, start, cursor, phase, item, contextVars,
                summary, late>>
allVars == <<vars, commandVars>>

Exits == {"running", "ok", "error", "cancelled", "failed"}

CollectionChoices == UNION {[1 .. n -> Request] : n \in 0 .. MaxRequests}
Collections == DOMAIN selected

RunInit ==
  /\ Init
  /\ requests = <<>>
  /\ selected \in UNION {[1 .. c -> CollectionChoices] : c \in 0 .. MaxCollections}
  /\ folder \in BOOLEAN
  /\ coll = 0
  /\ stage = "next"
  /\ summaries = <<>>
  /\ exit = "running"
  /\ cancelColl = 0

End(status) == stage' = "exit" /\ exit' = status

(* "no collections found", or the next collection's files, environment or     *)
(* secrets do not load: `?` leaves with what has run so far unreported.        *)
LoadFails ==
  /\ stage = "next" /\ (coll < Len(selected) \/ Len(selected) = 0)
  /\ End("error")
  /\ UNCHANGED <<vars, selected, folder, coll, summaries, cancelColl>>

(* A collection with no selected request is passed over.                      *)
SkipCollection ==
  /\ stage = "next" /\ coll < Len(selected) /\ selected[coll + 1] = <<>>
  /\ coll' = coll + 1
  /\ UNCHANGED <<vars, selected, folder, stage, summaries, exit, cancelColl>>

(* `run_requests` is called with a clone of the token.                        *)
StartCollection ==
  /\ stage = "next" /\ coll < Len(selected) /\ selected[coll + 1] # <<>>
  /\ coll' = coll + 1 /\ stage' = "running"
  /\ requests' = selected[coll + 1]
  /\ pc' = "top" /\ iter' = 1 /\ start' = 1 /\ cursor' = 1
  /\ phase' = [k \in Slots |-> "idle"]
  /\ request_to_run' = NoRequest
  /\ request_context' = {} /\ iteration_context' = {} /\ ran' = {}
  /\ summary' = EmptySummary /\ late' = {}
  /\ UNCHANGED <<tokenVars, options, item, selected, folder, summaries, exit,
                 cancelColl>>

RunCollection ==
  /\ stage = "running" /\ pc # "done"
  /\ RunnerStep
  /\ UNCHANGED commandVars

ServerAnswers ==
  /\ stage = "running" /\ pc # "done"
  /\ ServerStep
  /\ UNCHANGED commandVars

(* The loop ends after a fail-fast failure or a cancelled summary.            *)
StopsLoop(s) == (options.fail_fast /\ s.failed > 0) \/ s.cancelled

FinishCollection ==
  /\ stage = "running" /\ pc = "done"
  /\ summaries' = Append(summaries, summary)
  /\ stage' = IF StopsLoop(summary) THEN "report" ELSE "next"
  /\ UNCHANGED <<vars, selected, folder, coll, exit, cancelColl>>

AnyCancelled == \E c \in DOMAIN summaries : summaries[c].cancelled
LastFailed == summaries # <<>> /\ summaries[Len(summaries)].failed > 0
AnyUnsuccessful ==
  \E c \in DOMAIN summaries : summaries[c].cancelled \/ summaries[c].failed > 0

(* Report, and choose the exit status.                                        *)
ExitStatus ==
  /\ \/ stage = "report"
     \/ stage = "next" /\ Len(selected) > 0 /\ coll = Len(selected)
  /\ End(IF folder /\ summaries = <<>> THEN "error"
         ELSE IF AnyCancelled THEN "cancelled"
         ELSE IF AnyUnsuccessful THEN "failed" ELSE "ok")
  /\ UNCHANGED <<vars, selected, folder, coll, summaries, cancelColl>>

(* Ctrl-C: the signal task runs on a thread of its own and is aborted when    *)
(* the command is over.                                                       *)
CtrlC ==
  /\ stage # "exit"
  /\ StoreFlag
  /\ cancelColl' = coll
  /\ UNCHANGED <<runnerVars, selected, folder, coll, stage, summaries, exit>>

CtrlCNotifies ==
  /\ stage # "exit"
  /\ NotifyWaiters
  /\ UNCHANGED <<runnerVars, commandVars>>

Command ==
  \/ LoadFails \/ SkipCollection \/ StartCollection \/ RunCollection
  \/ FinishCollection \/ ExitStatus

RunNext ==
  \/ Command \/ ServerAnswers \/ CtrlC \/ CtrlCNotifies
  \/ stage = "exit" /\ UNCHANGED allVars

(* As in Runner: the command's own steps, a server bounded by the timeout,    *)
(* and a signal task that is scheduled.                                       *)
RunSpec ==
  /\ RunInit /\ [][RunNext]_allVars
  /\ WF_allVars(Command) /\ WF_allVars(ServerAnswers) /\ WF_allVars(CtrlCNotifies)

-----------------------------------------------------------------------------
RunTypeOK ==
  /\ TypeOK
  /\ coll \in 0 .. Len(selected)
  /\ stage \in {"next", "running", "report", "exit"}
  /\ summaries \in Seq(Summary)
  /\ exit \in Exits
  /\ cancelColl \in 0 .. Len(selected)

(* Exit status zero means that every selected request of every collection of  *)
(* the workspace passed in every iteration, and that there was one if          *)
(* --folder asked for some ("Exit status is non-zero when a request, explicit  *)
(* assertion, script test or runner operation fails", docs/cli.md).            *)
ExitZeroMeansAllPassed ==
  exit = "ok" =>
    /\ folder => summaries # <<>>
    /\ Len(summaries) = Cardinality({c \in Collections : selected[c] # <<>>})
    /\ \A c \in Collections : selected[c] # <<>> =>
         LET s == summaries[Cardinality({d \in 1 .. c : selected[d] # <<>>})]
         IN \A i \in 1 .. IterationCount, k \in DOMAIN selected[c] :
              \E r \in DOMAIN s.results :
                /\ s.results[r].iteration = i /\ s.results[r].index = k
                /\ s.results[r].passed

(* After Ctrl-C nothing of a later collection is run ("no later collection is *)
(* started", docs/cli.md): its summary, if there is one, is empty.             *)
NoLaterCollection ==
  cancelled =>
    \A c \in Collections : c > cancelColl =>
      LET n == Cardinality({d \in 1 .. c : selected[d] # <<>>})
      IN n \in DOMAIN summaries /\ selected[c] # <<>> =>
           summaries[n].results = <<>> /\ summaries[n].requests = 0

(* The command ends.                                                          *)
CommandEnds == <>(stage = "exit")

(* A command whose token cut a request off exits with the cancellation error  *)
(* ("the command exits with an explicit cancellation error", docs/cli.md).     *)
InterruptedExitsCancelled ==
  stage = "exit" /\ (\E k \in Slots : phase[k] = "dropped") => exit = "cancelled"
=============================================================================
