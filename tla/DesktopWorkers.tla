--------------------------- MODULE DesktopWorkers ---------------------------
(***************************************************************************)
(* The worker threads of the desktop: a send (HTTP or gRPC), a schema          *)
(* introspection, a script, an event stream, a WebSocket, a collection run and  *)
(* an import (postly-app/src/main.rs and workflows.rs).  Each has a channel to   *)
(* the window, which looks at the channels once in a frame, in a fixed order,     *)
(* while the workers go on; between the frames the user starts, cancels and      *)
(* clears work, and opens an imported project.                                 *)
(*                                                                         *)
(* Workers are numbered in the order they start.  What a worker does is only its   *)
(* messages: updates (an event, a device code, a connection) and how it ends.     *)
(***************************************************************************)
EXTENDS Naturals, Sequences

CONSTANTS
  WorkPlans      \* bound: the workers that are started, one after another

WorkKinds == {"http", "grpc", "schema", "script", "tests", "sse", "websocket",
              "run", "import"}

ASSUME DesktopWorkersAssumption == WorkPlans \subseteq Seq(WorkKinds)

VARIABLES
  plan,          \* bound: the one of WorkPlans that this behaviour follows
  work,          \* the workers: kind, messages not yet seen, end, cancellation
  slots,         \* pending, script_pending, sse_pending, websocket_pending,
                 \* Workflows::running and importing: a worker or 0
  device_slot,   \* pending_device_code
  frame,         \* what the frame does next
  panel,         \* the results on the screen: whose they are, 0 for none
  run_label,     \* Workflows::run_label
  recorded,      \* the workers whose request is in the history, in order
  left_behind    \* history: workers of a project that was replaced

deskVars == <<plan, work, slots, device_slot, frame, panel, run_label, recorded, left_behind>>

SlotOf == [http |-> "pending", grpc |-> "pending", schema |-> "pending",
           script |-> "script_pending", tests |-> "script_pending",
           sse |-> "sse_pending", websocket |-> "websocket_pending",
           run |-> "running", import |-> "importing"]
Operations == {"pending", "script_pending", "sse_pending", "websocket_pending"}
Slots == Operations \cup {"running", "importing"}
Panels == {"response", "response_error", "graphql_schema", "graphql_schema_error",
           "device_code_prompt", "script_report", "script_error", "stream",
           "summary", "runner_error", "imported", "import_error"}
NoSlots(names) == [s \in Slots |-> IF s \in names THEN 0 ELSE slots[s]]
MaxWork == Len(plan)
FailedLabel == MaxWork + 1

DesktopWorkersInit ==
  /\ plan \in WorkPlans
  /\ work = <<>> /\ slots = [s \in Slots |-> 0] /\ device_slot = 0
  /\ frame = "commands" /\ panel = [p \in Panels |-> 0]
  /\ run_label = 0 /\ recorded = <<>> /\ left_behind = {}

Worker == DOMAIN work
Running(w) == work[w].end = "none"

-----------------------------------------------------------------------------
(* The workers.                                                              *)
Message(w) == work' = [work EXCEPT ![w].updates = @ + 1]
EndsWith(w, end) == work' = [work EXCEPT ![w].end = end]
Untouched == UNCHANGED <<slots, device_slot, frame, panel, run_label, recorded, left_behind>>

(* A device code, a connection or an event.                                   *)
SendUpdate(w) ==
  /\ Running(w) /\ work[w].updates = 0
  /\ work[w].kind \in {"http", "sse", "websocket"}
  /\ Message(w) /\ Untouched

(* The scripts of a send: a pre-request script leaves a report, and the tests    *)
(* after the response another, or an error.                                   *)
Answers(kind) ==
  CASE kind = "http"   -> {"ok", "ok with report", "ok with script error",
                           "ok with report and script error", "error"}
    [] kind = "schema" -> {"ok", "no schema", "error"}
    [] OTHER           -> {"ok", "error"}

(* The select takes an answer that is there, cancelled or not.                *)
FinishWork(w) ==
  /\ Running(w)
  /\ \E end \in Answers(work[w].kind) : EndsWith(w, end)
  /\ Untouched

StopCancelledWork(w) ==
  /\ Running(w) /\ work[w].cancelled
  /\ EndsWith(w, CASE work[w].kind \in {"sse", "websocket", "run"} -> "ok"
                   [] OTHER -> "cancelled")
  /\ Untouched

(* A panic drops the sender.                                                  *)
LoseWorker(w) == Running(w) /\ EndsWith(w, "lost") /\ Untouched

-----------------------------------------------------------------------------
(* What the user does between two frames.                                     *)
Busy == \E s \in Operations : slots[s] # 0
Planned(kind) == Len(work) < Len(plan) /\ plan[Len(work) + 1] = kind
NewWork(kind) ==
  Append(work, [kind |-> kind, updates |-> 0, end |-> "none", cancelled |-> FALSE])
Show(names, w) == [p \in Panels |-> IF p \in names THEN w ELSE panel[p]]
Pressed == {slots[s] : s \in Operations} \ {0}
CancelAll(table) ==
  [w \in DOMAIN table |->
     [table[w] EXCEPT !.cancelled = @ \/ w \in Pressed]]

ResponsePanels == Panels \ {"summary", "runner_error", "imported", "import_error"}

(* clear_response without its first line.                                     *)
ClearResponseOnly(table) ==
  /\ work' = table
  /\ slots' = NoSlots(Operations) /\ device_slot' = 0
  /\ panel' = Show(ResponsePanels, 0)
ClearPanels(table) ==
  /\ work' = CancelAll(table)
  /\ slots' = NoSlots(Operations) /\ device_slot' = 0
  /\ panel' = Show(ResponsePanels, 0)

(* cancel_active, and the buttons and commands that come to it.                *)
CancelActive ==
  /\ frame = "commands" /\ Busy
  /\ work' = CancelAll(work)
  /\ UNCHANGED <<slots, device_slot, frame, panel, run_label, recorded, left_behind>>

(* clear_response: its command, and every change of the request in the editor. *)
ClearWork ==
  /\ frame = "commands"
  /\ ClearPanels(work)
  /\ UNCHANGED <<frame, run_label, recorded, left_behind>>

(* send_current, start_grpc_current, start_graphql_schema, start_sse_current     *)
(* and start_websocket_current: nothing while one of them goes on, and what was  *)
(* shown is cleared when the worker has started.                              *)
StartOperation(kind) ==
  /\ frame = "commands" /\ Planned(kind)
  /\ kind \notin {"script", "tests", "run", "import"}
  /\ ~Busy
  /\ work' = NewWork(kind)
  /\ slots' = [NoSlots(Operations) EXCEPT ![SlotOf[kind]] = Len(work) + 1]
  /\ device_slot' = IF kind = "http" THEN Len(work) + 1 ELSE 0
  /\ panel' = Show(ResponsePanels, 0)
  /\ UNCHANGED <<frame, run_label, recorded, left_behind>>

(* start_script: the response stays, and tests need one.                       *)
StartDesktopScript(kind) ==
  /\ frame = "commands" /\ Planned(kind)
  /\ kind \in {"script", "tests"}
  /\ ~Busy
  /\ kind = "tests" => panel["response"] # 0
  /\ work' = NewWork(kind)
  /\ slots' = [slots EXCEPT !["script_pending"] = Len(work) + 1]
  /\ panel' = Show({"script_report", "script_error"}, 0)
  /\ UNCHANGED <<device_slot, frame, run_label, recorded, left_behind>>

(* start_run: the label changes before the context and the engine can fail.     *)
StartCollectionRun ==
  /\ frame = "commands" /\ Planned("run")
  /\ slots["running"] = 0
  /\ work' = NewWork("run")
  /\ slots' = [slots EXCEPT !["running"] = Len(work) + 1]
  /\ run_label' = Len(work) + 1
  /\ panel' = Show({"summary", "runner_error"}, 0)
  /\ UNCHANGED <<device_slot, frame, recorded, left_behind>>

StartCollectionRunFails ==
  /\ frame = "commands" /\ Planned("run") /\ slots["running"] = 0
  /\ run_label' \in {run_label, FailedLabel}
  /\ panel' = Show({"runner_error"}, FailedLabel)
  /\ UNCHANGED <<work, slots, device_slot, frame, recorded, left_behind>>

CancelRun ==
  /\ frame = "commands" /\ slots["running"] # 0
  /\ work' = [work EXCEPT ![slots["running"]].cancelled = TRUE]
  /\ UNCHANGED <<slots, device_slot, frame, panel, run_label, recorded, left_behind>>

StartImport ==
  /\ frame = "commands" /\ Planned("import")
  /\ slots["importing"] = 0
  /\ work' = NewWork("import")
  /\ slots' = [slots EXCEPT !["importing"] = Len(work) + 1]
  /\ panel' = Show({"imported", "import_error"}, 0)
  /\ UNCHANGED <<device_slot, frame, run_label, recorded, left_behind>>

StartImportFails ==
  /\ frame = "commands" /\ Planned("import") /\ slots["importing"] = 0
  /\ panel' = [Show({"imported"}, 0) EXCEPT !["import_error"] = FailedLabel]
  /\ UNCHANGED <<work, slots, device_slot, frame, run_label, recorded, left_behind>>

MayOpenDuringRun == panel["imported"] # 0
MayOpen == panel["imported"] # 0 /\ slots["running"] = 0

(* The imported project replaces the application, whose workers nobody cancels, *)
(* and the workflows, which cancel the run they still have.                    *)
OpenImportedProject ==
  /\ frame = "commands" /\ MayOpen
  /\ work' = [w \in Worker |->
       [work[w] EXCEPT !.cancelled = @ \/ w = slots["running"]]]
  /\ left_behind' = left_behind \cup
       {w \in Worker : Running(w) /\ w \in Pressed \cup {slots["importing"]}}
  /\ slots' = NoSlots(Slots) /\ device_slot' = 0
  /\ panel' = Show(Panels, 0) /\ run_label' = 0
  /\ UNCHANGED <<frame, recorded>>

-----------------------------------------------------------------------------
(* A frame looks at the channels one after the other, while the workers go on.  *)
(* Only one of the operations has a channel at a time, so that the order of      *)
(* their polls does not matter, except that the device code comes first.         *)
NewFrame ==
  /\ frame = "commands" /\ \E s \in Slots : slots[s] # 0
  /\ frame' = "device"
  /\ UNCHANGED <<work, slots, device_slot, panel, run_label, recorded, left_behind>>

ErrorOf(w) == work[w].end \in {"error", "lost"}

(* poll_script_pending.                                                      *)
PollScript ==
  /\ frame = "operation" /\ frame' = "workflows" /\ slots["script_pending"] # 0
  /\ LET w == slots["script_pending"] IN
     IF Running(w) THEN UNCHANGED <<slots, panel>>
     ELSE /\ slots' = NoSlots({"script_pending"})
          /\ panel' = [Show({"script_report", "script_error"}, 0) EXCEPT
                         !["script_report"] = IF work[w].end = "ok" THEN w ELSE 0,
                         !["script_error"] = IF ErrorOf(w) THEN w ELSE 0]
  /\ UNCHANGED <<work, device_slot, run_label, recorded, left_behind>>

(* poll_device_code_prompt: the receiver goes with its sender.                 *)
PollDeviceCode ==
  /\ frame = "device" /\ frame' = "operation"
  /\ LET w == device_slot IN
     IF w = 0 THEN UNCHANGED <<work, device_slot, panel>>
     ELSE /\ work' = [work EXCEPT ![w].updates = 0]
          /\ panel' = IF work[w].updates > 0 THEN Show({"device_code_prompt"}, w) ELSE panel
          /\ device_slot' = IF Running(w) THEN w ELSE 0
  /\ UNCHANGED <<slots, run_label, recorded, left_behind>>

HasReport(w) == work[w].end \in {"ok with report", "ok with report and script error"}
HasScriptError(w) == work[w].end = "ok with report and script error"

(* The answer of a send: the response, the last report of its scripts - whose   *)
(* error is kept only with a report - and a line in the history.               *)
ShowResponse(w) ==
  /\ panel' = [Show({"response"}, w) EXCEPT
       !["response_error"] = 0,
       !["script_report"] = IF HasReport(w) THEN w ELSE @,
       !["script_error"] = IF ~HasReport(w) THEN @ ELSE IF HasScriptError(w) THEN w ELSE 0]
  /\ recorded' = Append(recorded, w)

ShowSchema(w) ==
  /\ panel' = [Show({"response"}, w) EXCEPT
       !["response_error"] = 0,
       !["graphql_schema"] = IF work[w].end = "ok" THEN w ELSE @,
       !["graphql_schema_error"] = IF work[w].end = "ok" THEN 0 ELSE w]
  /\ UNCHANGED recorded

(* An error of a cancelled operation is not one.                              *)
ShowFailureAlways(w) ==
  /\ panel' = [Show({"response_error"}, w) EXCEPT !["response"] = @]
  /\ recorded' = Append(recorded, w)
ShowFailure(w) ==
  IF work[w].kind = "schema"
  THEN /\ panel' = [Show({"response_error"}, 0) EXCEPT
            !["graphql_schema_error"] = IF work[w].cancelled THEN @ ELSE w]
       /\ UNCHANGED recorded
  ELSE /\ panel' = Show({"response_error"}, IF work[w].cancelled THEN 0 ELSE w)
       /\ recorded' = IF work[w].cancelled THEN recorded ELSE Append(recorded, w)

(* poll_http_pending.                                                         *)
PollHttp ==
  /\ frame = "operation" /\ frame' = "workflows" /\ slots["pending"] # 0
  /\ LET w == slots["pending"] IN
     IF Running(w) THEN UNCHANGED <<slots, device_slot, panel, recorded>>
     ELSE /\ slots' = NoSlots({"pending"}) /\ device_slot' = 0
          /\ IF work[w].end \in {"error", "cancelled", "lost"} THEN ShowFailure(w)
             ELSE IF work[w].kind = "schema" THEN ShowSchema(w) ELSE ShowResponse(w)
  /\ UNCHANGED <<work, run_label, left_behind>>

(* poll_sse_pending and poll_websocket_pending: every message up to the end.    *)
PollStream(slot) ==
  /\ frame = "operation" /\ frame' = "workflows" /\ slots[slot] # 0
  /\ LET w == slots[slot] IN
     /\ work' = [work EXCEPT ![w].updates = 0]
     /\ slots' = IF Running(w) THEN slots ELSE NoSlots({slot})
     /\ panel' = [panel EXCEPT
          !["stream"] = IF work[w].updates > 0 THEN w ELSE @,
          !["response_error"] = IF ~ErrorOf(w) THEN @ ELSE IF work[w].cancelled THEN 0 ELSE w]
  /\ UNCHANGED <<device_slot, run_label, recorded, left_behind>>

NoOperation ==
  /\ frame = "operation" /\ frame' = "workflows" /\ ~Busy
  /\ UNCHANGED <<work, slots, device_slot, panel, run_label, recorded, left_behind>>

(* Workflows::poll: the import and the run.                                    *)
PollWorkflows ==
  /\ frame = "workflows" /\ frame' = "commands"
  /\ LET Seen(s) == slots[s] # 0 /\ ~Running(slots[s])
         Result(s, good, bad) == IF ErrorOf(slots[s]) THEN bad ELSE good
         After(s, shown, good, bad) ==
           IF Seen(s) THEN [shown EXCEPT ![Result(s, good, bad)] = slots[s]] ELSE shown
     IN /\ slots' = NoSlots({s \in {"importing", "running"} : Seen(s)})
        /\ panel' = After("running", After("importing", panel, "imported", "import_error"),
                          "summary", "runner_error")
  /\ UNCHANGED <<work, device_slot, run_label, recorded, left_behind>>

DesktopWorkersNext ==
  /\ UNCHANGED plan
  /\ \/ \E w \in Worker : SendUpdate(w) \/ FinishWork(w) \/ StopCancelledWork(w) \/ LoseWorker(w)
     \/ \E kind \in WorkKinds : StartOperation(kind) \/ StartDesktopScript(kind)
     \/ CancelActive \/ ClearWork
     \/ StartCollectionRun \/ StartCollectionRunFails \/ CancelRun
     \/ StartImport \/ StartImportFails \/ OpenImportedProject
     \/ NewFrame \/ PollDeviceCode \/ PollScript \/ PollHttp
     \/ \E slot \in {"sse_pending", "websocket_pending"} : PollStream(slot)
     \/ NoOperation \/ PollWorkflows

DesktopWorkersSpec == DesktopWorkersInit /\ [][DesktopWorkersNext]_deskVars

DesktopWorkersTypeOK ==
  /\ plan \in WorkPlans /\ Len(work) <= MaxWork
  /\ \A w \in Worker :
       work[w] \in [kind : WorkKinds, updates : 0..1, cancelled : BOOLEAN,
                    end : {"none", "cancelled", "lost", "no schema"} \cup Answers("http")]
  /\ slots \in [Slots -> 0..MaxWork] /\ device_slot \in 0..MaxWork
  /\ frame \in {"commands", "device", "operation", "workflows"}
  /\ panel \in [Panels -> 0..FailedLabel] /\ run_label \in 0..FailedLabel
  /\ \A i \in DOMAIN recorded : recorded[i] \in Worker
  /\ left_behind \subseteq Worker

-----------------------------------------------------------------------------
Later(v, w) == IF v > w THEN v ELSE w
LastOf(kinds) ==
  LET of == {w \in Worker : work[w].kind \in kinds}
  IN IF of = {} THEN 0 ELSE CHOOSE w \in of : \A v \in of : v <= w
Sends == {"http", "grpc", "schema", "sse", "websocket"}

(* No worker goes on behind the user's back: one whose channel the window has  *)
(* dropped was cancelled, unless its whole project was replaced, which happens *)
(* only when neither a run nor an import goes on.                            *)
AbandonedWorkIsCancelled ==
  \A w \in Worker :
    (Running(w) /\ w \notin {slots[s] : s \in Slots}) =>
      /\ work[w].cancelled \/ w \in left_behind
      /\ work[w].kind \notin {"run", "import"}

(* Whatever order the answers come in, the panels show what belongs to the      *)
(* operation that was started last, and a script's what belongs to the last of *)
(* both; the summary is that of the run it is labelled with.                  *)
PanelsShowLatestWork ==
  /\ \A p \in {"response", "response_error", "graphql_schema", "graphql_schema_error",
               "device_code_prompt", "stream"} :
       panel[p] \in {0, LastOf(Sends)}
  /\ \A p \in {"script_report", "script_error"} :
       panel[p] \in {0, LastOf(Sends \cup {"script", "tests"})}
  /\ panel["summary"] # 0 => run_label \in {panel["summary"], FailedLabel}
  /\ slots["running"] # 0 => panel["summary"] = 0 /\ run_label = slots["running"]

(* The history has each send whose end the user saw once, in the order they    *)
(* were sent, and neither a schema nor a send whose failure was a cancellation. *)
HistoryHasSeenSends ==
  /\ \A i, j \in DOMAIN recorded : i < j => recorded[i] < recorded[j]
  /\ \A i \in DOMAIN recorded :
       /\ work[recorded[i]].kind \in {"http", "grpc"}
       /\ work[recorded[i]].end # "cancelled"
  /\ \A w \in {panel["response"], panel["response_error"]} \cap Worker :
       work[w].kind \in {"http", "grpc"} => \E i \in DOMAIN recorded : recorded[i] = w

(* The three together, and one operation at a time.                            *)
WorkIsAccountedFor ==
  /\ \A s, t \in Operations : slots[s] # 0 /\ slots[t] # 0 => s = t
  /\ AbandonedWorkIsCancelled
  /\ PanelsShowLatestWork
  /\ HistoryHasSeenSends
=============================================================================
