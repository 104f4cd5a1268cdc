---------------------------- MODULE EventStream ----------------------------
(***************************************************************************)
(* A Server-Sent Events stream, as the desktop's worker (start_sse_current)  *)
(* and `postly sse` (stream_sse) read it: the incremental parser of            *)
(* postly-core/src/sse.rs, the resumption with Last-Event-ID over a bounded    *)
(* number of connections, and the cancellation of the desktop.                *)
(*                                                                         *)
(* Event n is the lines `id: n`, `data: ...` and an empty one; the server      *)
(* sends the events after the Last-Event-ID it is given, comments between      *)
(* them, and may end a connection anywhere.  A worker waits in a select of an  *)
(* answer and `cancelled()`, which looks at the flag, registers, and is woken   *)
(* by notify_waiters.                                                        *)
(***************************************************************************)
EXTENDS Naturals, Sequences

CONSTANTS
  StreamEvents,     \* bound: the events the server has
  ReconnectLimit    \* sse_reconnect_limit, --reconnect

ASSUME EventStreamAssumption == StreamEvents \in Nat /\ ReconnectLimit \in Nat

VARIABLES
  stream_client,    \* "none", "app" or "cli"
  stream_phase,     \* where its loop is
  parser,           \* SseParser: the id and the data of the event so far
  last_event_id,    \* last_event_id, 0 for none
  reconnects_used,
  shown_events,     \* the events that were shown
  server_line,      \* the event and the line that the server sends next
  stream_cancel,    \* cancel(): "no", "flagged" or "notified"
  stream_waiter,    \* cancelled(): "unchecked", "checked", "registered", "woken"
  console_open,     \* the desktop still has the receiver
  cut_short         \* history: a connection ended inside an event's data

waitVars == <<stream_cancel, stream_waiter>>
streamVars ==
  <<stream_client, stream_phase, parser, last_event_id, reconnects_used,
    shown_events, server_line, waitVars, console_open, cut_short>>

NewParser == [id |-> 0, data |-> 0]

EventStreamInit ==
  /\ stream_client = "none" /\ stream_phase = "idle"
  /\ parser = NewParser /\ last_event_id = 0 /\ reconnects_used = 0
  /\ shown_events = <<>> /\ server_line = [event |-> 1, line |-> "id"]
  /\ stream_cancel = "no" /\ stream_waiter = "unchecked"
  /\ console_open = TRUE /\ cut_short = FALSE

InSelect == stream_phase \in {"connecting", "reading", "sleeping"}
(* Every turn of the loop makes a new `cancelled()` future.                   *)
NewSelect(phase) == stream_phase' = phase /\ stream_waiter' = "unchecked"

StartStream ==
  /\ stream_client = "none"
  /\ stream_client' \in {"app", "cli"}
  /\ stream_phase' = "connecting"
  /\ UNCHANGED <<parser, last_event_id, reconnects_used, shown_events, server_line,
                 waitVars, console_open, cut_short>>

(* execute_stream with the Last-Event-ID: connected, a status >= 400 whose      *)
(* body is read without a select, or an error, which uses a reconnection.      *)
Connected ==
  /\ stream_phase = "connecting"
  /\ parser' = NewParser
  /\ server_line' = [event |-> last_event_id + 1, line |-> "id"]
  /\ IF console_open THEN NewSelect("reading")
     ELSE stream_phase' = "ended" /\ UNCHANGED stream_waiter
  /\ UNCHANGED <<stream_client, last_event_id, reconnects_used, shown_events,
                 stream_cancel, console_open, cut_short>>

RefusedByStatus ==
  /\ stream_phase = "connecting"
  /\ stream_phase' = "error body"
  /\ UNCHANGED <<stream_client, parser, last_event_id, reconnects_used, shown_events,
                 server_line, waitVars, console_open, cut_short>>

ErrorBodyEnds ==
  /\ stream_phase = "error body"
  /\ stream_phase' = "ended"
  /\ UNCHANGED <<stream_client, parser, last_event_id, reconnects_used, shown_events,
                 server_line, waitVars, console_open, cut_short>>

ReconnectAlways == reconnects_used <= ReconnectLimit
MayReconnect == reconnects_used < ReconnectLimit
(* The rest of the loop after a failed or finished connection.                *)
Reconnect ==
  IF MayReconnect
  THEN /\ reconnects_used' = reconnects_used + 1
       /\ IF console_open THEN NewSelect("sleeping")
          ELSE stream_phase' = "ended" /\ UNCHANGED stream_waiter
  ELSE stream_phase' = "ended" /\ UNCHANGED <<reconnects_used, stream_waiter>>

ConnectionFails ==
  /\ stream_phase = "connecting"
  /\ Reconnect
  /\ UNCHANGED <<stream_client, parser, last_event_id, shown_events, server_line,
                 stream_cancel, console_open, cut_short>>

SleepEnds ==
  /\ stream_phase = "sleeping"
  /\ NewSelect("connecting")
  /\ UNCHANGED <<stream_client, parser, last_event_id, reconnects_used, shown_events,
                 server_line, stream_cancel, console_open, cut_short>>

(* process_line: a field is kept until an empty line dispatches the event; a   *)
(* line with an id and no data dispatches nothing.  The id stays.             *)
ProcessLine(line, n) ==
  CASE line = "id"   -> [parser EXCEPT !.id = n]
    [] line = "data" -> [parser EXCEPT !.data = n]
    [] OTHER         -> [parser EXCEPT !.data = 0]

(* dispatch, and what the loop does with the event.                           *)
DispatchWithoutId(p) ==
  IF p.data = 0 THEN UNCHANGED <<shown_events, last_event_id>>
  ELSE shown_events' = Append(shown_events, p.data) /\ UNCHANGED last_event_id
Dispatch(p) ==
  IF p.data = 0 THEN UNCHANGED <<shown_events, last_event_id>>
  ELSE /\ shown_events' = Append(shown_events, p.data)
       /\ last_event_id' = IF p.id = 0 THEN last_event_id ELSE p.id

NextLine(at) ==
  CASE at.line = "id"   -> [at EXCEPT !.line = "data"]
    [] at.line = "data" -> [at EXCEPT !.line = "empty"]
    [] at.line = "empty" -> [event |-> at.event + 1, line |-> "id"]

(* A chunk with the next line; sending an event to a closed console ends the   *)
(* worker.                                                                   *)
ReadLine ==
  /\ stream_phase = "reading" /\ server_line.event <= StreamEvents
  /\ parser' = ProcessLine(server_line.line, server_line.event)
  /\ IF server_line.line = "empty" THEN Dispatch(parser)
     ELSE UNCHANGED <<shown_events, last_event_id>>
  /\ server_line' = NextLine(server_line)
  /\ IF server_line.line = "empty" /\ ~console_open
     THEN stream_phase' = "ended" /\ UNCHANGED stream_waiter
     ELSE NewSelect("reading")
  /\ UNCHANGED <<stream_client, reconnects_used, stream_cancel, console_open, cut_short>>

(* A chunk with a comment, or with a part of a line.                          *)
ReadComment ==
  /\ stream_phase = "reading" /\ stream_waiter # "unchecked"
  /\ NewSelect("reading")
  /\ UNCHANGED <<stream_client, parser, last_event_id, reconnects_used, shown_events,
                 server_line, stream_cancel, console_open, cut_short>>

(* The body ends: `finish` processes a last line without a newline and          *)
(* dispatches what there is.                                                  *)
BodyEnds ==
  /\ stream_phase = "reading"
  /\ \E cut \in {FALSE} \cup {server_line.line = "data"} :
       /\ cut => server_line.event <= StreamEvents
       /\ Dispatch(IF cut THEN [parser EXCEPT !.data = server_line.event] ELSE parser)
       /\ cut_short' = (cut_short \/ cut)
  /\ Reconnect
  /\ UNCHANGED <<stream_client, parser, server_line, stream_cancel, console_open>>

(* chunk() fails, or the text is not UTF-8: the worker returns the error.      *)
BodyFails ==
  /\ stream_phase = "reading"
  /\ stream_phase' = "ended"
  /\ UNCHANGED <<stream_client, parser, last_event_id, reconnects_used, shown_events,
                 server_line, waitVars, console_open, cut_short>>

(* CancellationToken::cancel of the desktop, in two steps.                    *)
FlagCancel ==
  /\ stream_client = "app" /\ stream_cancel = "no"
  /\ stream_cancel' = "flagged"
  /\ UNCHANGED <<stream_client, stream_phase, parser, last_event_id, reconnects_used,
                 shown_events, server_line, stream_waiter, console_open, cut_short>>
NotifyCancel ==
  /\ stream_cancel = "flagged"
  /\ stream_cancel' = "notified"
  /\ stream_waiter' = IF stream_waiter = "registered" THEN "woken" ELSE stream_waiter
  /\ UNCHANGED <<stream_client, stream_phase, parser, last_event_id, reconnects_used,
                 shown_events, server_line, console_open, cut_short>>

(* The other branch of the select: CancellationToken::cancelled.              *)
LookAtFlagOnlyWoken == stream_waiter = "woken" /\ stream_cancel # "no"
LookAtFlag == stream_waiter \in {"unchecked", "woken"} /\ stream_cancel # "no"
SelectCancelled ==
  /\ InSelect /\ stream_client = "app"
  /\ \/ LookAtFlag /\ stream_phase' = "ended" /\ UNCHANGED stream_waiter
     \/ /\ ~LookAtFlag /\ stream_waiter \in {"unchecked", "checked"}
        /\ stream_waiter' = IF stream_waiter = "unchecked" THEN "checked" ELSE "registered"
        /\ UNCHANGED stream_phase
  /\ UNCHANGED <<stream_client, parser, last_event_id, reconnects_used, shown_events,
                 server_line, stream_cancel, console_open, cut_short>>

(* The desktop drops the receiver: the response was cleared.                  *)
CloseConsole ==
  /\ stream_client = "app" /\ console_open
  /\ console_open' = FALSE
  /\ UNCHANGED <<stream_client, stream_phase, parser, last_event_id, reconnects_used,
                 shown_events, server_line, waitVars, cut_short>>

StreamServer ==
  \/ Connected \/ RefusedByStatus \/ ErrorBodyEnds \/ ConnectionFails
  \/ ReadLine \/ ReadComment \/ BodyEnds \/ BodyFails
EventStreamNext ==
  \/ StartStream \/ StreamServer \/ SleepEnds \/ SelectCancelled
  \/ FlagCancel \/ NotifyCancel \/ CloseConsole

(* The worker's thread runs, its timers fire, the second half of cancel()      *)
(* follows the first, and the server or the request's timeout lets no wait      *)
(* last for ever (a server may send comments for ever).                       *)
EventStreamFairness ==
  /\ WF_streamVars(StreamServer) /\ WF_streamVars(SleepEnds)
  /\ WF_streamVars(SelectCancelled) /\ WF_streamVars(NotifyCancel)
EventStreamSpec == EventStreamInit /\ [][EventStreamNext]_streamVars /\ EventStreamFairness

-----------------------------------------------------------------------------
EventStreamTypeOK ==
  /\ stream_client \in {"none", "app", "cli"}
  /\ stream_phase \in {"idle", "connecting", "reading", "sleeping", "error body", "ended"}
  /\ parser \in [id : 0 .. StreamEvents, data : 0 .. StreamEvents]
  /\ last_event_id \in 0 .. StreamEvents
  /\ reconnects_used \in 0 .. ReconnectLimit
  /\ shown_events \in Seq(1 .. StreamEvents)
  /\ server_line \in [event : 1 .. StreamEvents + 1, line : {"id", "data", "empty"}]
  /\ stream_cancel \in {"no", "flagged", "notified"}
  /\ stream_waiter \in {"unchecked", "checked", "registered", "woken"}
  /\ {console_open, cut_short} \subseteq BOOLEAN

(* Over any number of connections, each event is shown once and in order,      *)
(* with none skipped, as long as no connection ends inside an event's data:    *)
(* the id a connection resumes from is that of the last event shown.           *)
EventsResumeInOrder ==
  ~cut_short => \A i \in DOMAIN shown_events : shown_events[i] = i

(* A stream that is cancelled ends, although the notification may come between *)
(* the look at the flag and the registration and the server may send comments  *)
(* for ever.                                                                 *)
StreamCancelled == stream_cancel = "notified"
StreamEnded == stream_phase = "ended"
CancelEndsStream == StreamCancelled ~> StreamEnded
=============================================================================
