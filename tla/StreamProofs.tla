---------------------------- MODULE StreamProofs ----------------------------
(***************************************************************************)
(* Proofs about the streams of events, messages and bytes.  Each part has    *)
(* the inductive invariant of its component, what a step keeps of it, and    *)
(* the theorems that follow for every value of the constants:                *)
(*   - EventStream: events reach the user once and in order;                 *)
(*   - WebSocketSession: texts are sent in the order they were given;        *)
(*   - Tunnel: a tunnel is handed over with the target's bytes in it;        *)
(*   - GrpcCall: a server hears only of calls that are wholly in order;      *)
(* and what Components says of the four together.                            *)
(***************************************************************************)
EXTENDS Components, FiniteSetTheorems, TLAPS

(***************************************************************************)
(* The event stream                                                        *)
(***************************************************************************)
(* The server's next line, the parser and the last id while a connection is       *)
(* read: they move together, one event ahead of what was shown.              *)
ParserInv ==
  LET n == server_line.event IN
  /\ server_line.line = "id" => parser.data = 0 /\ parser.id \in {0, last_event_id}
  /\ server_line.line = "data" => parser.data = 0 /\ parser.id = n
  /\ server_line.line = "empty" => parser.data = n /\ parser.id = n
  /\ n = last_event_id + 1
StreamInv ==
  ~cut_short =>
    /\ Len(shown_events) = last_event_id
    /\ \A i \in 1 .. Len(shown_events) : shown_events[i] = i
    /\ stream_phase = "reading" => ParserInv
EventsInv == EventStreamTypeOK /\ StreamInv

(* What an event that is dispatched changes, its data being the event's number.  *)
LEMMA DispatchTypes ==
  ASSUME EventStreamTypeOK, NEW p \in [id : 0 .. StreamEvents, data : 0 .. StreamEvents],
         Dispatch(p)
  PROVE  shown_events' \in Seq(1 .. StreamEvents) /\ last_event_id' \in 0 .. StreamEvents
<1>1. /\ shown_events \in Seq(1 .. StreamEvents) /\ last_event_id \in 0 .. StreamEvents
      /\ p.data \in 0 .. StreamEvents /\ p.id \in 0 .. StreamEvents
  BY DEF EventStreamTypeOK
<1>2. CASE p.data = 0
  BY <1>1, <1>2 DEF Dispatch
<1>3. CASE p.data # 0
  <2>1. p.data \in 1 .. StreamEvents
    BY <1>1, <1>3, EventStreamAssumption
  <2>2. /\ shown_events' = Append(shown_events, p.data)
        /\ last_event_id' = IF p.id = 0 THEN last_event_id ELSE p.id
    BY <1>3 DEF Dispatch
  <2> QED  BY <1>1, <2>1, <2>2
<1> QED  BY <1>2, <1>3

LEMMA ReconnectTypes ==
  ASSUME EventStreamTypeOK, Reconnect
  PROVE  /\ stream_phase' \in {"sleeping", "ended"}
         /\ stream_waiter' \in {"unchecked", stream_waiter}
         /\ reconnects_used' \in 0 .. ReconnectLimit
<1>1. reconnects_used \in 0 .. ReconnectLimit /\ ReconnectLimit \in Nat
  BY EventStreamAssumption DEF EventStreamTypeOK
<1> QED  BY <1>1 DEF Reconnect, MayReconnect, NewSelect

LEMMA StepStreamTyped ==
  ASSUME EventStreamTypeOK, [EventStreamNext]_streamVars
  PROVE  EventStreamTypeOK'
<1>a. StreamEvents \in Nat
  BY EventStreamAssumption
<1>n. /\ parser \in [id : 0 .. StreamEvents, data : 0 .. StreamEvents]
      /\ last_event_id \in 0 .. StreamEvents /\ reconnects_used \in 0 .. ReconnectLimit
      /\ shown_events \in Seq(1 .. StreamEvents)
      /\ server_line \in [event : 1 .. StreamEvents + 1, line : {"id", "data", "empty"}]
  BY Zenon DEF EventStreamTypeOK
<1>b. ASSUME stream_phase' \in {"idle", "connecting", "reading", "sleeping", "error body", "ended"},
             stream_client' \in {"none", "app", "cli"},
             parser' \in [id : 0 .. StreamEvents, data : 0 .. StreamEvents],
             last_event_id' \in 0 .. StreamEvents, reconnects_used' \in 0 .. ReconnectLimit,
             shown_events' \in Seq(1 .. StreamEvents),
             server_line' \in [event : 1 .. StreamEvents + 1, line : {"id", "data", "empty"}],
             stream_cancel' \in {"no", "flagged", "notified"},
             stream_waiter' \in {"unchecked", "checked", "registered", "woken"},
             console_open' \in BOOLEAN, cut_short' \in BOOLEAN
      PROVE  EventStreamTypeOK'
  BY <1>b, Zenon DEF EventStreamTypeOK
<1>c. /\ stream_client \in {"none", "app", "cli"}
      /\ stream_phase \in {"idle", "connecting", "reading", "sleeping", "error body", "ended"}
      /\ stream_cancel \in {"no", "flagged", "notified"}
      /\ stream_waiter \in {"unchecked", "checked", "registered", "woken"}
      /\ console_open \in BOOLEAN /\ cut_short \in BOOLEAN
  BY Zenon DEF EventStreamTypeOK
<1>1. CASE Connected
  <2>1. NewParser \in [id : 0 .. StreamEvents, data : 0 .. StreamEvents]
    BY <1>a DEF NewParser
  <2>2. last_event_id + 1 \in 1 .. StreamEvents + 1
    BY <1>a, <1>n
  <2>3. [event |-> last_event_id + 1, line |-> "id"]
          \in [event : 1 .. StreamEvents + 1, line : {"id", "data", "empty"}]
    BY <2>2
  <2>4. /\ stream_phase' \in {"reading", "ended"} /\ stream_waiter' \in {"unchecked", stream_waiter}
        /\ parser' = NewParser /\ server_line' = [event |-> last_event_id + 1, line |-> "id"]
        /\ UNCHANGED <<stream_client, last_event_id, reconnects_used, shown_events,
                       stream_cancel, console_open, cut_short>>
    BY <1>1 DEF Connected, NewSelect
  <2> QED  BY <1>b, <1>c, <1>n, <2>1, <2>3, <2>4, Zenon
<1>2. CASE StartStream \/ RefusedByStatus \/ ErrorBodyEnds \/ BodyFails
  <2>1. /\ stream_client' \in {stream_client, "app", "cli"}
        /\ stream_phase' \in {"connecting", "error body", "ended"}
        /\ UNCHANGED <<parser, last_event_id, reconnects_used, shown_events, server_line,
                       stream_cancel, stream_waiter, console_open, cut_short>>
    BY <1>2 DEF StartStream, RefusedByStatus, ErrorBodyEnds, BodyFails, waitVars
  <2> QED  BY <1>b, <1>c, <1>n, <2>1, Zenon, SMTT(60)
<1>3. CASE ConnectionFails
  <2>1. /\ Reconnect
        /\ UNCHANGED <<stream_client, parser, last_event_id, shown_events, server_line,
                       stream_cancel, console_open, cut_short>>
    BY <1>3 DEF ConnectionFails
  <2> QED  BY <1>b, <1>c, <1>n, <2>1, ReconnectTypes, Zenon
<1>4. CASE SleepEnds \/ ReadComment
  <2>1. /\ stream_phase' \in {"connecting", "reading"} /\ stream_waiter' = "unchecked"
        /\ UNCHANGED <<stream_client, parser, last_event_id, reconnects_used, shown_events,
                       server_line, stream_cancel, console_open, cut_short>>
    BY <1>4 DEF SleepEnds, ReadComment, NewSelect
  <2> QED  BY <1>b, <1>c, <1>n, <2>1, Zenon
<1>5. CASE ReadLine
  <2>1. server_line.event \in 1 .. StreamEvents /\ server_line.line \in {"id", "data", "empty"}
    BY <1>5, <1>a, <1>n DEF ReadLine
  <2>2. parser' \in [id : 0 .. StreamEvents, data : 0 .. StreamEvents]
    <3>1. server_line.event \in 0 .. StreamEvents /\ 0 \in 0 .. StreamEvents
      BY <1>a, <2>1
    <3> QED  BY <1>5, <1>n, <3>1 DEF ReadLine, ProcessLine
  <2>3. server_line' \in [event : 1 .. StreamEvents + 1, line : {"id", "data", "empty"}]
    <3>1. server_line.event + 1 \in 1 .. StreamEvents + 1
      BY <1>a, <2>1
    <3> QED  BY <1>5, <1>n, <2>1, <3>1 DEF ReadLine, NextLine
  <2>4. shown_events' \in Seq(1 .. StreamEvents) /\ last_event_id' \in 0 .. StreamEvents
    BY <1>5, <1>n, DispatchTypes DEF ReadLine
  <2>5. /\ stream_phase' \in {"reading", "ended"} /\ stream_waiter' \in {"unchecked", stream_waiter}
        /\ UNCHANGED <<stream_client, reconnects_used, stream_cancel, console_open, cut_short>>
    BY <1>5 DEF ReadLine, NewSelect
  <2> QED  BY <1>b, <1>c, <1>n, <2>2, <2>3, <2>4, <2>5, Zenon
<1>6. CASE BodyEnds
  <2>1. PICK cut \in {FALSE} \cup {server_line.line = "data"} :
          /\ cut => server_line.event <= StreamEvents
          /\ Dispatch(IF cut THEN [parser EXCEPT !.data = server_line.event] ELSE parser)
          /\ cut_short' = (cut_short \/ cut)
    BY <1>6 DEF BodyEnds
  <2> DEFINE p == IF cut THEN [parser EXCEPT !.data = server_line.event] ELSE parser
  <2>2. p \in [id : 0 .. StreamEvents, data : 0 .. StreamEvents]
    <3>1. CASE cut
      <4>1. server_line.event \in 0 .. StreamEvents
        BY <1>a, <1>n, <2>1, <3>1
      <4> QED  BY <1>n, <3>1, <4>1
    <3>2. CASE ~cut
      BY <1>n, <3>2
    <3> QED  BY <3>1, <3>2
  <2>3. shown_events' \in Seq(1 .. StreamEvents) /\ last_event_id' \in 0 .. StreamEvents
    BY <2>1, <2>2, DispatchTypes
  <2>4. cut_short' \in BOOLEAN
    BY <2>1, Zenon
  <2>5. /\ Reconnect
        /\ UNCHANGED <<stream_client, parser, server_line, stream_cancel, console_open>>
    BY <1>6 DEF BodyEnds
  <2> QED  BY <1>b, <1>c, <1>n, <2>3, <2>4, <2>5, ReconnectTypes, Zenon
<1>7. CASE FlagCancel \/ NotifyCancel \/ SelectCancelled \/ CloseConsole
  <2>1. /\ stream_phase' \in {stream_phase, "ended"}
        /\ stream_waiter' \in {"checked", "registered", "woken", stream_waiter}
        /\ stream_cancel' \in {"flagged", "notified", stream_cancel}
        /\ console_open' \in {FALSE, console_open}
        /\ UNCHANGED <<stream_client, parser, last_event_id, reconnects_used, shown_events,
                       server_line, cut_short>>
    BY <1>7 DEF FlagCancel, NotifyCancel, SelectCancelled, CloseConsole, waitVars
  <2>2. /\ stream_phase' \in {"idle", "connecting", "reading", "sleeping", "error body", "ended"}
        /\ stream_cancel' \in {"no", "flagged", "notified"}
        /\ stream_waiter' \in {"unchecked", "checked", "registered", "woken"}
    BY <1>c, <2>1
  <2>3. console_open' \in BOOLEAN /\ cut_short' \in BOOLEAN
    BY <1>c, <2>1, Zenon
  <2> QED  BY <1>b, <1>c, <1>n, <2>1, <2>2, <2>3, Zenon
<1>8. CASE UNCHANGED streamVars
  BY <1>8, <1>b, <1>c, <1>n, Zenon, ZenonT(30) DEF streamVars, waitVars
<1> QED
  BY <1>1, <1>2, <1>3, <1>4, <1>5, <1>6, <1>7, <1>8 DEF EventStreamNext, StreamServer

LEMMA StepStream ==
  ASSUME EventsInv, [EventStreamNext]_streamVars
  PROVE  StreamInv'
<1> SUFFICES ASSUME ~cut_short'
             PROVE  /\ Len(shown_events') = last_event_id'
                    /\ \A i \in 1 .. Len(shown_events') : shown_events'[i] = i
                    /\ stream_phase' = "reading" => ParserInv'
  BY DEF StreamInv
<1>n. /\ parser \in [id : 0 .. StreamEvents, data : 0 .. StreamEvents]
      /\ last_event_id \in 0 .. StreamEvents /\ StreamEvents \in Nat
      /\ shown_events \in Seq(1 .. StreamEvents)
      /\ server_line \in [event : 1 .. StreamEvents + 1, line : {"id", "data", "empty"}]
  BY EventStreamAssumption, Zenon DEF EventsInv, EventStreamTypeOK
<1>a. ~cut_short
  BY Zenon DEF EventStreamNext, StreamServer, StartStream, Connected, RefusedByStatus,
     ErrorBodyEnds, ConnectionFails, ReadLine, ReadComment, BodyEnds, BodyFails, SleepEnds,
     SelectCancelled, FlagCancel, NotifyCancel, CloseConsole, streamVars
<1>b. /\ Len(shown_events) = last_event_id
      /\ \A i \in 1 .. Len(shown_events) : shown_events[i] = i
      /\ stream_phase = "reading" => ParserInv
  BY <1>a DEF EventsInv, StreamInv
<1> DEFINE Goal == /\ Len(shown_events') = last_event_id'
                   /\ \A i \in 1 .. Len(shown_events') : shown_events'[i] = i
                   /\ stream_phase' = "reading" => ParserInv'
<1>c. ASSUME UNCHANGED <<shown_events, last_event_id>>,
             stream_phase' = "reading" => stream_phase = "reading" /\ UNCHANGED <<parser, server_line>>
      PROVE  Goal
  BY <1>b, <1>c DEF ParserInv
<1>d. ASSUME stream_phase = "reading", Dispatch(parser)
      PROVE  /\ Len(shown_events') = last_event_id'
             /\ \A i \in 1 .. Len(shown_events') : shown_events'[i] = i
             /\ server_line.line = "empty" => last_event_id' = server_line.event
             /\ server_line.line # "empty" => last_event_id' = last_event_id
  <2>1. ParserInv /\ server_line.line \in {"id", "data", "empty"} /\ server_line.event \in Nat \ {0}
    BY <1>b, <1>d, <1>n
  <2>2. CASE server_line.line # "empty"
    <3>1. parser.data = 0
      BY <2>1, <2>2 DEF ParserInv
    <3> QED  BY <1>b, <1>d, <2>2, <3>1 DEF Dispatch
  <2>3. CASE server_line.line = "empty"
    <3>1. parser.data = last_event_id + 1 /\ parser.id = last_event_id + 1
          /\ server_line.event = last_event_id + 1
      BY <2>1, <2>3 DEF ParserInv
    <3>2. /\ shown_events' = Append(shown_events, last_event_id + 1)
          /\ last_event_id' = last_event_id + 1
      BY <1>d, <1>n, <3>1 DEF Dispatch
    <3> QED  BY <1>b, <1>n, <2>3, <3>1, <3>2
  <2> QED  BY <2>2, <2>3
<1>1. CASE Connected
  <2>1. /\ parser'.id = 0 /\ parser'.data = 0
        /\ server_line'.event = last_event_id + 1 /\ server_line'.line = "id"
        /\ UNCHANGED <<shown_events, last_event_id>>
    BY <1>1 DEF Connected, NewParser
  <2> QED  BY <1>b, <2>1 DEF ParserInv
<1>2. CASE ReadLine
  <2>1. stream_phase = "reading"
    BY <1>2 DEF ReadLine
  <2>2. ParserInv /\ server_line.line \in {"id", "data", "empty"} /\ server_line.event \in Nat \ {0}
    BY <1>b, <1>n, <2>1
  <2>3. /\ parser' = ProcessLine(server_line.line, server_line.event)
        /\ server_line' = NextLine(server_line)
    BY <1>2 DEF ReadLine
  <2>4. CASE server_line.line = "empty"
    <3>1. /\ Len(shown_events') = last_event_id'
          /\ \A i \in 1 .. Len(shown_events') : shown_events'[i] = i
          /\ last_event_id' = server_line.event
      BY <1>2, <1>d, <2>1, <2>4 DEF ReadLine
    <3>2. /\ parser'.data = 0 /\ parser'.id = server_line.event
          /\ server_line'.event = server_line.event + 1 /\ server_line'.line = "id"
      BY <1>n, <2>2, <2>3, <2>4 DEF ProcessLine, NextLine, ParserInv
    <3> QED  BY <3>1, <3>2 DEF ParserInv
  <2>5. CASE server_line.line = "id"
    <3>1. UNCHANGED <<shown_events, last_event_id>>
      BY <1>2, <2>5 DEF ReadLine
    <3>2. /\ parser'.data = 0 /\ parser'.id = server_line.event
          /\ server_line'.event = server_line.event /\ server_line'.line = "data"
      BY <1>n, <2>2, <2>3, <2>5 DEF ProcessLine, NextLine, ParserInv
    <3> QED  BY <1>b, <2>2, <3>1, <3>2 DEF ParserInv
  <2>6. CASE server_line.line = "data"
    <3>1. UNCHANGED <<shown_events, last_event_id>>
      BY <1>2, <2>6 DEF ReadLine
    <3>2. /\ parser'.data = server_line.event /\ parser'.id = server_line.event
          /\ server_line'.event = server_line.event /\ server_line'.line = "empty"
      BY <1>n, <2>2, <2>3, <2>6 DEF ProcessLine, NextLine, ParserInv
    <3> QED  BY <1>b, <2>2, <3>1, <3>2 DEF ParserInv
  <2> QED  BY <2>2, <2>4, <2>5, <2>6
<1>3. CASE BodyEnds
  <2>1. PICK cut \in {FALSE} \cup {server_line.line = "data"} :
          /\ Dispatch(IF cut THEN [parser EXCEPT !.data = server_line.event] ELSE parser)
          /\ cut_short' = (cut_short \/ cut)
    BY <1>3 DEF BodyEnds
  <2>2. ~cut
    BY <2>1
  <2>3. Dispatch(parser) /\ stream_phase = "reading"
    BY <1>3, <2>1, <2>2 DEF BodyEnds
  <2>4. stream_phase' # "reading"
    BY <1>3, ReconnectTypes DEF BodyEnds, EventsInv
  <2> QED  BY <1>d, <2>3, <2>4
<1>4. CASE ConnectionFails
  <2>1. stream_phase' # "reading" /\ UNCHANGED <<shown_events, last_event_id>>
    BY <1>4, ReconnectTypes DEF ConnectionFails, EventsInv
  <2> QED  BY <1>c, <2>1
<1>5. CASE \/ StartStream \/ RefusedByStatus \/ ErrorBodyEnds \/ ReadComment \/ BodyFails
           \/ SleepEnds \/ SelectCancelled \/ FlagCancel \/ NotifyCancel \/ CloseConsole
           \/ UNCHANGED streamVars
  <2>1. UNCHANGED <<shown_events, last_event_id>>
    BY <1>5 DEF StartStream, RefusedByStatus, ErrorBodyEnds, ReadComment, BodyFails, SleepEnds,
       SelectCancelled, FlagCancel, NotifyCancel, CloseConsole, streamVars
  <2>2. stream_phase' = "reading" => stream_phase = "reading" /\ UNCHANGED <<parser, server_line>>
    BY <1>5 DEF StartStream, RefusedByStatus, ErrorBodyEnds, ReadComment, BodyFails, SleepEnds,
       SelectCancelled, FlagCancel, NotifyCancel, CloseConsole, streamVars, NewSelect
  <2> QED  BY <1>c, <2>1, <2>2
<1> QED
  BY <1>1, <1>2, <1>3, <1>4, <1>5 DEF EventStreamNext, StreamServer

LEMMA StreamInvariant == EventStreamSpec => []EventsInv
<1>1. EventStreamInit => EventsInv
  <2> SUFFICES ASSUME EventStreamInit PROVE EventsInv
    OBVIOUS
  <2>1. /\ parser \in [id : 0 .. StreamEvents, data : 0 .. StreamEvents]
        /\ last_event_id \in 0 .. StreamEvents /\ reconnects_used \in 0 .. ReconnectLimit
        /\ shown_events \in Seq(1 .. StreamEvents)
        /\ server_line \in [event : 1 .. StreamEvents + 1, line : {"id", "data", "empty"}]
    BY EventStreamAssumption DEF EventStreamInit, NewParser
  <2>2. console_open \in BOOLEAN /\ cut_short \in BOOLEAN
    BY Zenon DEF EventStreamInit
  <2>3. EventStreamTypeOK
    BY <2>1, <2>2, Zenon DEF EventStreamInit, EventStreamTypeOK
  <2>4. StreamInv
    BY DEF EventStreamInit, StreamInv
  <2> QED  BY <2>3, <2>4 DEF EventsInv
<1>2. EventsInv /\ [EventStreamNext]_streamVars => EventsInv'
  BY StepStreamTyped, StepStream DEF EventsInv
<1> QED  BY <1>1, <1>2, PTL DEF EventStreamSpec

(* A stream's state has its type: no event is shown that the server has not, and   *)
(* no more reconnections are used than allowed.                              *)
THEOREM StreamTypeCorrect == EventStreamSpec => []EventStreamTypeOK
<1>1. EventsInv => EventStreamTypeOK
  BY DEF EventsInv
<1> QED  BY <1>1, StreamInvariant, PTL

(* Over any number of connections each event is shown once and in order, unless   *)
(* one ended inside an event's data (part of StreamsKeepOrder).               *)
THEOREM StreamResumesInOrder == EventStreamSpec => []EventsResumeInOrder
<1>1. ASSUME EventsInv PROVE EventsResumeInOrder
  <2>1. shown_events \in Seq(1 .. StreamEvents)
    BY <1>1, Zenon DEF EventsInv, EventStreamTypeOK
  <2> QED  BY <1>1, <2>1 DEF EventsInv, StreamInv, EventsResumeInOrder
<1> QED  BY <1>1, StreamInvariant, PTL

(***************************************************************************)
(* WebSocket sessions                                                      *)
(***************************************************************************)
Phases == {"idle", "connecting", "open", "sending", "closing", "sleeping", "ended"}
SocketUpdates == {"connected", "reconnecting", "message", "failed or closed"}
(* Only the desktop has a receiver; the texts are counted.                      *)
SocketTyped ==
  /\ WebSocketTypeOK
  /\ websocket_pending => IsApp
  /\ socket_client = "none" <=> socket_phase = "idle"
  /\ socket_client = "none" => updates = <<>> /\ ~websocket_connected
  /\ socket_phase = "sleeping" => handshakes - 1 < SocketReconnects

(* What was sent are the first texts, the next one may be on its way, and the       *)
(* queue has the others, in order.                                             *)
Queued(q) == {q[i] : i \in DOMAIN q} \ {Close}
Rising(q) == \A i, j \in DOMAIN q : i < j /\ q[j] # Close => q[i] < q[j]
FirstQueued == IF outgoing = Pong THEN Len(transmitted) + 1 ELSE Len(transmitted) + 2
QueueInv ==
  /\ Queued(commands) = FirstQueued .. submitted /\ Rising(commands)
  /\ outgoing # Pong => outgoing = Len(transmitted) + 1 /\ outgoing <= submitted
TextsInv ==
  /\ \A i \in DOMAIN transmitted : transmitted[i] = i
  /\ ~IsApp => commands = <<>> /\ submitted = 0 /\ outgoing = Pong
  /\ socket_client = "none" => transmitted = <<>>
  /\ IsApp => Len(transmitted) <= submitted
  /\ IsApp /\ socket_phase # "ended" => QueueInv

(* The last update that is no message says whether the connection is open;  *)
(* if there is none, the desktop knows already.                                *)
Tells(q, connected, open) ==
  /\ (\A i \in DOMAIN q : q[i] = "message") => (connected <=> open)
  /\ \A i \in DOMAIN q :
       q[i] # "message" /\ (\A j \in DOMAIN q : i < j => q[j] = "message") =>
         (q[i] = "connected" <=> open)
ConnectionInv ==
  websocket_pending => Tells(updates, websocket_connected, SocketOpen)
SocketInv == SocketTyped /\ TextsInv /\ ConnectionInv

LEMMA QueueFacts ==
  ASSUME NEW S, NEW q \in Seq(S)
  PROVE  /\ <<>> \in Seq(S)
         /\ \A x \in S : Append(q, x) \in Seq(S)
         /\ q # <<>> => Head(q) \in S /\ Tail(q) \in Seq(S)
  OBVIOUS

LEMMA SocketFacts ==
  ASSUME SocketTyped
  PROVE  /\ socket_client \in {"none", "app", "cli"}
         /\ socket_phase \in Phases
         /\ handshakes \in 0 .. SocketReconnects + 1
         /\ commands \in Seq(0 .. MaxTexts) /\ submitted \in 0 .. MaxTexts
         /\ outgoing \in 0 .. MaxTexts /\ (outgoing # Pong => socket_phase = "sending")
         /\ transmitted \in Seq(1 .. MaxTexts)
         /\ socket_cancel \in {"no", "flagged", "notified"}
         /\ socket_waiter \in {"unchecked", "checked", "registered", "woken"}
         /\ updates \in Seq(SocketUpdates)
         /\ websocket_connected \in BOOLEAN /\ websocket_pending \in BOOLEAN
         /\ closing \in BOOLEAN
         /\ MaxTexts \in Nat /\ SocketReconnects \in Nat
  BY WebSocketAssumption DEF SocketTyped, WebSocketTypeOK, SocketUpdates, Phases

LEMMA ReportFacts ==
  ASSUME SocketTyped, NEW u \in SocketUpdates, Reports(u)
  PROVE  /\ updates' \in Seq(SocketUpdates)
         /\ websocket_pending => updates' = Append(updates, u)
         /\ ~websocket_pending => updates' = updates
  BY SocketFacts DEF Reports, SocketTyped

LEMMA ProceedFacts ==
  ASSUME SocketTyped, NEW phase \in {"open", "sleeping"}, NEW u \in SocketUpdates,
         Proceed(phase, u)
  PROVE  /\ socket_phase' \in {phase, "ended"} /\ socket_waiter' = "unchecked"
         /\ websocket_pending => socket_phase' = phase
         /\ updates' \in Seq(SocketUpdates)
         /\ websocket_pending => updates' = Append(updates, u)
<1>1. /\ Reports(u) /\ socket_waiter' = "unchecked"
      /\ socket_phase' = IF Hears THEN phase ELSE "ended"
  BY DEF Proceed
<1>2. websocket_pending => Hears
  BY DEF Hears
<1> QED  BY <1>1, <1>2, ReportFacts

LEMMA EndFacts ==
  ASSUME SocketTyped, EndSession("failed or closed")
  PROVE  /\ socket_phase' = "ended" /\ socket_waiter' = socket_waiter
         /\ updates' \in Seq(SocketUpdates)
         /\ websocket_pending => updates' = Append(updates, "failed or closed")
<1>1. "failed or closed" \in SocketUpdates
  BY DEF SocketUpdates
<1> QED  BY <1>1, ReportFacts DEF EndSession

(* A connection that ends: another try, or the end of the session.                 *)
LEMMA TryFacts ==
  ASSUME SocketTyped, TryAgain
  PROVE  /\ socket_phase' \in {"sleeping", "ended"}
         /\ socket_phase' = "sleeping" => handshakes - 1 < SocketReconnects
         /\ socket_waiter' \in {"unchecked", socket_waiter}
         /\ updates' \in Seq(SocketUpdates)
         /\ websocket_pending =>
              \E u \in {"reconnecting", "failed or closed"} : updates' = Append(updates, u)
<1>1. CASE Reconnecting
  <2>1. Proceed("sleeping", "reconnecting") /\ "reconnecting" \in SocketUpdates
    BY <1>1 DEF TryAgain, SocketUpdates
  <2> QED  BY <1>1, <2>1, ProceedFacts DEF Reconnecting
<1>2. CASE ~Reconnecting
  BY <1>2, EndFacts DEF TryAgain
<1> QED  BY <1>1, <1>2

(* What the worker's steps have in common.                                      *)
WorkerMoves ==
  \/ HandshakeDone \/ HandshakeFails \/ ConnectionEnds \/ SendCommandedText \/ AnswerPing
  \/ SendDone \/ SendFails \/ ObeyClose \/ SocketCancelled \/ CloseDone
LEMMA WorkerStepFacts ==
  ASSUME SocketTyped, WorkerMoves
  PROVE  /\ UNCHANGED <<socket_client, handshakes, submitted, socket_cancel,
                        websocket_connected, websocket_pending, closing>>
         /\ socket_phase' \in Phases \ {"idle"} /\ socket_phase \in Phases \ {"idle", "ended"}
         /\ socket_phase' = "sleeping" => handshakes - 1 < SocketReconnects
         /\ socket_waiter' \in {"unchecked", "checked", "registered", "woken"}
         /\ updates' \in Seq(SocketUpdates)
         /\ websocket_pending =>
              \/ updates' = updates /\ (SocketOpen' <=> SocketOpen)
              \/ updates' = Append(updates, "connected") /\ SocketOpen'
              \/ updates' = Append(updates, "message") /\ SocketOpen' /\ SocketOpen
              \/ /\ ~SocketOpen'
                 /\ \E u \in {"reconnecting", "failed or closed"} : updates' = Append(updates, u)
<1>0. /\ socket_waiter \in {"unchecked", "checked", "registered", "woken"}
      /\ updates \in Seq(SocketUpdates) /\ socket_phase \in Phases
      /\ socket_phase = "sleeping" => handshakes - 1 < SocketReconnects
  BY SocketFacts DEF SocketTyped
<1> USE DEF SocketOpen, Phases
<1>1. CASE HandshakeDone
  <2>1. Proceed("open", "connected") /\ "connected" \in SocketUpdates
    BY <1>1 DEF HandshakeDone, SocketUpdates
  <2> QED  BY <1>1, <2>1, ProceedFacts DEF HandshakeDone
<1>2. CASE HandshakeFails
  <2>1. TryAgain \/ EndSession("failed or closed")
    BY <1>2 DEF HandshakeFails
  <2> QED  BY <1>0, <1>2, <2>1, TryFacts, EndFacts DEF HandshakeFails
<1>3. CASE ConnectionEnds
  <2>1. TryAgain \/ EndSession("failed or closed")
    BY <1>3 DEF ConnectionEnds
  <2> QED  BY <1>0, <1>3, <2>1, TryFacts, EndFacts DEF ConnectionEnds
<1>4. CASE SendCommandedText \/ AnswerPing \/ ObeyClose
  BY <1>0, <1>4 DEF SendCommandedText, AnswerPing, ObeyClose, AwaitPeer
<1>5. CASE SendDone
  <2>1. Proceed("open", "message") /\ "message" \in SocketUpdates
    BY <1>5 DEF SendDone, SocketUpdates
  <2> QED  BY <1>0, <1>5, <2>1, ProceedFacts DEF SendDone
<1>6. CASE SendFails \/ CloseDone
  <2>1. EndSession("failed or closed")
    BY <1>6 DEF SendFails, CloseDone
  <2> QED  BY <1>0, <1>6, <2>1, EndFacts DEF SendFails, CloseDone
<1>7. CASE SocketCancelled
  <2>1. CASE EndSession("failed or closed")
    BY <1>0, <1>7, <2>1, EndFacts DEF SocketCancelled
  <2>2. CASE ~EndSession("failed or closed")
    BY <1>0, <1>7, <2>2 DEF SocketCancelled, AwaitPeer
  <2> QED  BY <2>1, <2>2
<1> QED  BY <1>1, <1>2, <1>3, <1>4, <1>5, <1>6, <1>7 DEF WorkerMoves

LEMMA SocketTypedStep ==
  ASSUME SocketTyped, [WebSocketNext]_socketVars
  PROVE  SocketTyped'
<1>0. /\ socket_client \in {"none", "app", "cli"}
      /\ socket_phase \in Phases
      /\ handshakes \in 0 .. SocketReconnects + 1
      /\ commands \in Seq(0 .. MaxTexts) /\ submitted \in 0 .. MaxTexts
      /\ outgoing \in 0 .. MaxTexts /\ (outgoing # Pong => socket_phase = "sending")
      /\ transmitted \in Seq(1 .. MaxTexts)
      /\ socket_cancel \in {"no", "flagged", "notified"}
      /\ socket_waiter \in {"unchecked", "checked", "registered", "woken"}
      /\ updates \in Seq(SocketUpdates)
      /\ websocket_connected \in BOOLEAN /\ websocket_pending \in BOOLEAN
      /\ closing \in BOOLEAN /\ MaxTexts \in Nat /\ SocketReconnects \in Nat
      /\ websocket_pending => socket_client = "app"
      /\ socket_client = "none" <=> socket_phase = "idle"
      /\ socket_client = "none" => updates = <<>>
      /\ socket_client = "none" => ~websocket_connected
      /\ socket_phase = "sleeping" => handshakes - 1 < SocketReconnects
  BY SocketFacts DEF SocketTyped, IsApp
<1> DEFINE
      T == /\ socket_client' \in {"none", "app", "cli"}
           /\ socket_phase' \in Phases
           /\ handshakes' \in 0 .. SocketReconnects + 1
           /\ commands' \in Seq(0 .. MaxTexts) /\ submitted' \in 0 .. MaxTexts
           /\ outgoing' \in 0 .. MaxTexts /\ (outgoing' # Pong => socket_phase' = "sending")
           /\ transmitted' \in Seq(1 .. MaxTexts)
           /\ socket_cancel' \in {"no", "flagged", "notified"}
           /\ socket_waiter' \in {"unchecked", "checked", "registered", "woken"}
           /\ updates' \in Seq(SocketUpdates)
      B == /\ websocket_connected' \in BOOLEAN
           /\ websocket_pending' \in BOOLEAN
           /\ closing' \in BOOLEAN
           /\ websocket_pending' => socket_client' = "app"
           /\ socket_client' = "none" <=> socket_phase' = "idle"
           /\ socket_client' = "none" => updates' = <<>>
           /\ socket_client' = "none" => ~websocket_connected'
           /\ socket_phase' = "sleeping" => handshakes' - 1 < SocketReconnects
<1>g. ASSUME T, B PROVE SocketTyped'
  <2> HIDE DEF T, B
  <2>1. T /\ B
    BY <1>g
  <2> USE DEF T, B
  <2>2. WebSocketTypeOK'
    BY <1>g DEF WebSocketTypeOK, SocketUpdates, Phases, Pong
  <2> QED  BY <1>g, <2>2 DEF SocketTyped, IsApp
<1>1. CASE UNCHANGED socketVars
  <2>1. UNCHANGED <<socket_client, socket_phase, handshakes, commands, transmitted, socket_cancel,
                    socket_waiter, submitted, updates, websocket_connected, websocket_pending,
                    outgoing, closing>>
    BY <1>1 DEF socketVars, socketUi, socketTexts
  <2>2. T
    BY <1>0, <2>1
  <2>3. B
    BY <1>0, <2>1
  <2> QED  BY <1>g, <2>2, <2>3
<1>2. CASE StartWebSocket
  <2>1. T
    BY <1>0, <1>2 DEF StartWebSocket, socketTexts, Phases
  <2>2. B
    BY <1>0, <1>2 DEF StartWebSocket, socketTexts
  <2> QED  BY <1>g, <2>1, <2>2
<1>3. CASE WorkerMoves
  <2>1. /\ UNCHANGED <<socket_client, handshakes, submitted, socket_cancel,
                       websocket_connected, websocket_pending, closing>>
        /\ socket_phase' \in Phases \ {"idle"} /\ socket_phase \in Phases \ {"idle", "ended"}
        /\ socket_phase' = "sleeping" => handshakes - 1 < SocketReconnects
        /\ socket_waiter' \in {"unchecked", "checked", "registered", "woken"}
        /\ updates' \in Seq(SocketUpdates)
    BY <1>3, WorkerStepFacts
  <2>2. commands' \in Seq(0 .. MaxTexts)
    <3>1. \/ commands' \in {commands, <<>>}
          \/ commands # <<>> /\ commands' = Tail(commands)
      BY <1>3 DEF WorkerMoves, HandshakeDone, HandshakeFails, ConnectionEnds, SendCommandedText,
           AnswerPing, SendDone, SendFails, ObeyClose, SocketCancelled, CloseDone, TakeCommand,
           socketTexts
    <3> QED  BY <1>0, <3>1, QueueFacts
  <2>3. transmitted' \in Seq(1 .. MaxTexts)
    <3>1. CASE SendDone
      <4>1. transmitted' = IF outgoing = Pong THEN transmitted ELSE Append(transmitted, outgoing)
        BY <3>1 DEF SendDone
      <4>2. outgoing # Pong => outgoing \in 1 .. MaxTexts
        BY <1>0 DEF Pong
      <4>3. outgoing # Pong => Append(transmitted, outgoing) \in Seq(1 .. MaxTexts)
        BY <1>0, <4>2, QueueFacts
      <4> QED  BY <1>0, <4>1, <4>3
    <3>2. CASE ~SendDone
      <4>1. transmitted' \in {transmitted, <<>>}
        BY <1>3, <3>2 DEF WorkerMoves, HandshakeDone, HandshakeFails, ConnectionEnds,
             SendCommandedText, AnswerPing, SendFails, ObeyClose, SocketCancelled, CloseDone,
             socketTexts
      <4> QED  BY <1>0, <4>1, QueueFacts
    <3> QED  BY <3>1, <3>2
  <2>6. outgoing' \in 0 .. MaxTexts /\ (outgoing' # Pong => socket_phase' = "sending")
    <3>1. CASE SendCommandedText
      <4>1. commands # <<>> /\ outgoing' = Head(commands) /\ socket_phase' = "sending"
        BY <3>1 DEF SendCommandedText, AwaitPeer
      <4> QED  BY <1>0, <4>1, QueueFacts
    <3>2. CASE AnswerPing
      BY <1>0, <3>2 DEF AnswerPing, AwaitPeer, socketTexts
    <3>3. CASE SendDone \/ SendFails
      <4>1. outgoing' = 0
        BY <3>3 DEF SendDone, SendFails, Pong
      <4> QED  BY <1>0, <4>1 DEF Pong
    <3>4. CASE HandshakeDone \/ HandshakeFails \/ ConnectionEnds \/ ObeyClose
                 \/ SocketCancelled \/ CloseDone
      <4>1. outgoing' = outgoing /\ socket_phase # "sending"
        BY <3>4 DEF HandshakeDone, HandshakeFails, ConnectionEnds, ObeyClose, SocketCancelled,
             CloseDone, socketTexts
      <4> QED  BY <1>0, <4>1
    <3> QED  BY <1>3, <3>1, <3>2, <3>3, <3>4 DEF WorkerMoves
  <2>4. T
    BY <1>0, <2>1, <2>2, <2>3, <2>6 DEF Phases
  <2>5. B
    BY <1>0, <2>1 DEF Phases
  <2> QED  BY <1>g, <2>4, <2>5
<1>4. CASE SocketSleepEnds
  <2>1. T
    BY <1>0, <1>4 DEF SocketSleepEnds, socketUi, socketTexts, Phases
  <2>2. B
    BY <1>0, <1>4 DEF SocketSleepEnds, socketUi, socketTexts, Phases
  <2> QED  BY <1>g, <2>1, <2>2
<1>5. CASE SendListedText
  <2>1. /\ UNCHANGED <<socket_client, handshakes, commands, outgoing, socket_cancel, socket_waiter,
                       submitted, updates, websocket_connected, websocket_pending, closing>>
        /\ socket_client = "cli" /\ socket_phase = "open" /\ socket_phase' \in {"open", "ended"}
        /\ Len(transmitted) < MaxTexts
        /\ transmitted' \in {transmitted, Append(transmitted, Len(transmitted) + 1)}
    BY <1>5 DEF SendListedText, socketUi
  <2>2. transmitted' \in Seq(1 .. MaxTexts)
    <3>1. Len(transmitted) + 1 \in 1 .. MaxTexts
      BY <1>0, <2>1
    <3>2. CASE transmitted' = Append(transmitted, Len(transmitted) + 1)
      BY <1>0, <3>1, <3>2, QueueFacts
    <3>3. CASE transmitted' = transmitted
      BY <1>0, <3>3
    <3> QED  BY <2>1, <3>2, <3>3
  <2>3. T
    BY <1>0, <2>1, <2>2 DEF Phases
  <2>4. B
    BY <1>0, <2>1
  <2> QED  BY <1>g, <2>3, <2>4
<1>6. CASE SendText \/ CloseWebSocket
  <2>1. T
    <3>1. commands' \in Seq(0 .. MaxTexts)
      <4>1. \E x \in 0 .. MaxTexts : commands' = Append(commands, x)
        BY <1>0, <1>6 DEF SendText, CloseWebSocket, Close
      <4> QED  BY <1>0, <4>1, QueueFacts
    <3> QED  BY <1>0, <1>6, <3>1, SMTT(30) DEF SendText, CloseWebSocket
  <2>2. B
    BY <1>0, <1>6 DEF SendText, CloseWebSocket
  <2> QED  BY <1>g, <2>1, <2>2
<1>7. CASE CancelWebSocket \/ NotifyWebSocket \/ ClearWebSocket
  <2>1. T
    <3>1. commands' \in Seq(0 .. MaxTexts)
      <4>1. commands' = commands \/ commands' = Append(commands, 0)
        BY <1>7 DEF CancelWebSocket, NotifyWebSocket, ClearWebSocket, Close, socketUi,
             socketTexts
      <4>2. 0 \in 0 .. MaxTexts
        BY <1>0
      <4>3. Append(commands, 0) \in Seq(0 .. MaxTexts)
        BY <1>0, <4>2, QueueFacts
      <4> QED  BY <1>0, <4>1, <4>3
    <3>2. updates' \in Seq(SocketUpdates)
      BY <1>0, <1>7, QueueFacts DEF CancelWebSocket, NotifyWebSocket, ClearWebSocket, socketUi
    <3>3. CASE CancelWebSocket
      BY <1>0, <3>1, <3>2, <3>3 DEF CancelWebSocket, socketUi, socketTexts
    <3>4. CASE NotifyWebSocket
      BY <1>0, <3>1, <3>2, <3>4 DEF NotifyWebSocket
    <3>5. CASE ClearWebSocket
      BY <1>0, <3>1, <3>2, <3>5 DEF ClearWebSocket, socketTexts
    <3> QED  BY <1>7, <3>3, <3>4, <3>5
  <2>2. B
    <3>1. CASE CancelWebSocket
      BY <1>0, <3>1 DEF CancelWebSocket, socketUi
    <3>2. CASE NotifyWebSocket
      BY <1>0, <3>2 DEF NotifyWebSocket
    <3>3. CASE ClearWebSocket
      <4>1. socket_client # "none"
        BY <1>0, <3>3 DEF ClearWebSocket
      <4> QED  BY <1>0, <3>3, <4>1 DEF ClearWebSocket
    <3> QED  BY <1>7, <3>1, <3>2, <3>3
  <2> QED  BY <1>g, <2>1, <2>2
<1>8. CASE PollWebSocket
  <2>1. T
    <3>1. updates' \in Seq(SocketUpdates)
      BY <1>0, <1>8, QueueFacts DEF PollWebSocket
    <3> QED  BY <1>0, <1>8, <3>1 DEF PollWebSocket, socketTexts
  <2>2. /\ websocket_connected' \in BOOLEAN /\ websocket_pending' \in BOOLEAN
        /\ websocket_pending /\ socket_client # "none"
    <3>1. websocket_pending /\ websocket_pending' = (Head(updates) # "failed or closed")
      BY <1>8 DEF PollWebSocket
    <3>2. websocket_connected' \in {TRUE, FALSE, websocket_connected}
      BY <1>8 DEF PollWebSocket
    <3> QED  BY <1>0, <3>1, <3>2
  <2>3. B
    BY <1>0, <1>8, <2>2 DEF PollWebSocket
  <2> QED  BY <1>g, <2>1, <2>3
<1> QED
  BY <1>1, <1>2, <1>3, <1>4, <1>5, <1>6, <1>7, <1>8
     DEF WebSocketNext, SocketWorker, SocketPeer, TakesCommand, WorkerMoves

(* Queues: what an element adds at the end or takes from the front.              *)
LEMMA AppendFacts ==
  ASSUME NEW S, NEW q \in Seq(S), NEW x
  PROVE  /\ DOMAIN Append(q, x) = 1 .. Len(q) + 1 /\ DOMAIN q = 1 .. Len(q)
         /\ Len(q) \in Nat /\ Len(Append(q, x)) = Len(q) + 1
         /\ \A i \in 1 .. Len(q) : Append(q, x)[i] = q[i]
         /\ Append(q, x)[Len(q) + 1] = x
  OBVIOUS

LEMMA TailFacts ==
  ASSUME NEW S, NEW q \in Seq(S), q # <<>>
  PROVE  /\ Len(q) \in Nat \ {0} /\ DOMAIN q = 1 .. Len(q)
         /\ Head(q) = q[1] /\ Len(Tail(q)) = Len(q) - 1
         /\ DOMAIN Tail(q) = 1 .. Len(q) - 1
         /\ \A i \in 1 .. Len(q) - 1 : Tail(q)[i] = q[i + 1]
  OBVIOUS

LEMMA AppendQueued ==
  ASSUME NEW q \in Seq(Nat), NEW x \in Nat
  PROVE  /\ Queued(Append(q, x)) = Queued(q) \cup ({x} \ {Close})
         /\ Rising(q) /\ (x # Close => \A y \in Queued(q) : y < x) => Rising(Append(q, x))
<1> DEFINE a == Append(q, x)
<1>1. /\ DOMAIN a = 1 .. Len(q) + 1 /\ DOMAIN q = 1 .. Len(q) /\ Len(q) \in Nat
      /\ \A i \in 1 .. Len(q) : a[i] = q[i]
      /\ a[Len(q) + 1] = x
  BY AppendFacts
<1>2. \A i \in DOMAIN q : q[i] \in Nat
  OBVIOUS
<1> HIDE DEF a
<1>3. {a[i] : i \in DOMAIN a} = {q[i] : i \in DOMAIN q} \cup {x}
  <2>1. \A i \in DOMAIN a : a[i] \in {q[k] : k \in DOMAIN q} \cup {x}
    BY <1>1
  <2>2. \A i \in DOMAIN q : \E k \in DOMAIN a : a[k] = q[i]
    BY <1>1
  <2>3. \E k \in DOMAIN a : a[k] = x
    BY <1>1
  <2> QED  BY <2>1, <2>2, <2>3
<1>4. Queued(a) = Queued(q) \cup ({x} \ {Close})
  BY <1>3 DEF Queued
<1>5. ASSUME Rising(q), x # Close => \A y \in Queued(q) : y < x
      PROVE  Rising(a)
  <2>1. SUFFICES ASSUME NEW i \in DOMAIN a, NEW j \in DOMAIN a, i < j, a[j] # Close
                 PROVE  a[i] < a[j]
    BY DEF Rising
  <2>2. i \in DOMAIN q /\ a[i] = q[i] /\ q[i] \in Nat
    BY <1>1, <1>2, <2>1
  <2>3. CASE j \in DOMAIN q
    BY <1>1, <1>5, <2>1, <2>2, <2>3 DEF Rising
  <2>4. CASE j \notin DOMAIN q
    <3>1. a[j] = x
      BY <1>1, <2>1, <2>4
    <3>2. q[i] = Close \/ q[i] \in Queued(q)
      BY <2>2 DEF Queued
    <3>3. x # 0 /\ Close = 0
      BY <2>1, <3>1 DEF Close
    <3>4. q[i] \in Queued(q) => q[i] < x
      BY <1>5, <2>1, <3>1
    <3> QED  BY <2>2, <3>1, <3>2, <3>3, <3>4
  <2> QED  BY <2>3, <2>4
<1> QED  BY <1>4, <1>5 DEF a

(* The first command of a rising queue of texts is the least.                     *)
LEMMA TailQueued ==
  ASSUME NEW q \in Seq(Nat), q # <<>>, Head(q) # Close, Rising(q)
  PROVE  /\ Head(q) \in Queued(q) /\ \A y \in Queued(q) : Head(q) <= y
         /\ Queued(Tail(q)) = Queued(q) \ {Head(q)} /\ Rising(Tail(q))
<1> DEFINE t == Tail(q)
<1>1. /\ Len(q) \in Nat \ {0} /\ DOMAIN q = 1 .. Len(q)
      /\ Head(q) = q[1]
      /\ DOMAIN t = 1 .. Len(q) - 1
      /\ \A i \in 1 .. Len(q) - 1 : t[i] = q[i + 1]
  BY TailFacts
<1>2. \A i \in DOMAIN q : q[i] \in Nat
  OBVIOUS
<1> HIDE DEF t
<1>3. \A i \in DOMAIN q : q[i] # Close => i = 1 \/ q[1] < q[i]
  <2> SUFFICES ASSUME NEW i \in DOMAIN q, q[i] # Close, i # 1 PROVE q[1] < q[i]
    OBVIOUS
  <2>1. 1 \in DOMAIN q /\ 1 < i
    BY <1>1
  <2> QED  BY <2>1 DEF Rising
<1>4. Head(q) \in Queued(q) /\ \A y \in Queued(q) : Head(q) <= y
  <2>1. 1 \in DOMAIN q /\ q[1] \in Nat
    BY <1>1, <1>2
  <2>2. Head(q) \in Queued(q)
    BY <1>1, <2>1 DEF Queued
  <2>3. ASSUME NEW y \in Queued(q) PROVE q[1] <= y
    <3>1. PICK i \in DOMAIN q : y = q[i] /\ y # Close
      BY DEF Queued
    <3> QED  BY <1>2, <1>3, <2>1, <3>1
  <2> QED  BY <1>1, <2>2, <2>3
<1>5. Queued(t) = Queued(q) \ {Head(q)}
  <2>1. ASSUME NEW y \in Queued(t) PROVE y \in Queued(q) /\ y # Head(q)
    <3>1. PICK i \in DOMAIN t : y = t[i] /\ y # Close
      BY DEF Queued
    <3>2. i + 1 \in DOMAIN q /\ y = q[i + 1] /\ i + 1 # 1
      BY <1>1, <3>1
    <3>3. y \in Queued(q)
      BY <3>1, <3>2 DEF Queued
    <3>4. q[1] < y /\ q[1] \in Nat
      BY <1>1, <1>2, <1>3, <3>1, <3>2
    <3> QED  BY <1>1, <3>3, <3>4
  <2>2. ASSUME NEW y \in Queued(q), y # Head(q) PROVE y \in Queued(t)
    <3>1. PICK i \in DOMAIN q : y = q[i] /\ y # Close
      BY DEF Queued
    <3>2. i - 1 \in DOMAIN t /\ t[i - 1] = y
      BY <1>1, <2>2, <3>1
    <3> QED  BY <3>1, <3>2 DEF Queued
  <2> QED  BY <2>1, <2>2
<1>6. Rising(t)
  <2>1. SUFFICES ASSUME NEW i \in DOMAIN t, NEW j \in DOMAIN t, i < j, t[j] # Close
                 PROVE  t[i] < t[j]
    BY DEF Rising
  <2>2. i + 1 \in DOMAIN q /\ j + 1 \in DOMAIN q /\ i + 1 < j + 1
        /\ t[i] = q[i + 1] /\ t[j] = q[j + 1]
    BY <1>1, <2>1
  <2>3. \A k, l \in DOMAIN q : k < l /\ q[l] # Close => q[k] < q[l]
    BY DEF Rising
  <2>4. q[i + 1] < q[j + 1]
    BY <2>1, <2>2, <2>3
  <2> QED  BY <2>2, <2>4
<1> QED  BY <1>4, <1>5, <1>6 DEF t

(* A Close at the head of the queue is no text.                                  *)
LEMMA TailOfClose ==
  ASSUME NEW q \in Seq(Nat), q # <<>>, Head(q) = Close
  PROVE  Queued(Tail(q)) = Queued(q) /\ (Rising(q) => Rising(Tail(q)))
<1> DEFINE t == Tail(q)
<1>1. /\ Len(q) \in Nat \ {0} /\ DOMAIN q = 1 .. Len(q)
      /\ Head(q) = q[1]
      /\ DOMAIN t = 1 .. Len(q) - 1
      /\ \A i \in 1 .. Len(q) - 1 : t[i] = q[i + 1]
  BY TailFacts
<1> HIDE DEF t
<1>2. ASSUME NEW y \in Queued(t) PROVE y \in Queued(q)
  <2>1. PICK i \in DOMAIN t : y = t[i] /\ y # Close
    BY DEF Queued
  <2>2. i + 1 \in DOMAIN q /\ y = q[i + 1]
    BY <1>1, <2>1
  <2> QED  BY <2>1, <2>2 DEF Queued
<1>3. ASSUME NEW y \in Queued(q) PROVE y \in Queued(t)
  <2>1. PICK i \in DOMAIN q : y = q[i] /\ y # Close
    BY DEF Queued
  <2>2. i - 1 \in DOMAIN t /\ t[i - 1] = y
    BY <1>1, <2>1
  <2> QED  BY <2>1, <2>2 DEF Queued
<1>4. ASSUME Rising(q) PROVE Rising(t)
  <2>1. SUFFICES ASSUME NEW i \in DOMAIN t, NEW j \in DOMAIN t, i < j, t[j] # Close
                 PROVE  t[i] < t[j]
    BY DEF Rising
  <2>2. i + 1 \in DOMAIN q /\ j + 1 \in DOMAIN q /\ i + 1 < j + 1
        /\ t[i] = q[i + 1] /\ t[j] = q[j + 1]
    BY <1>1, <2>1
  <2>3. \A k, l \in DOMAIN q : k < l /\ q[l] # Close => q[k] < q[l]
    BY <1>4 DEF Rising
  <2>4. q[i + 1] < q[j + 1]
    BY <2>1, <2>2, <2>3
  <2> QED  BY <2>2, <2>4
<1> QED  BY <1>2, <1>3, <1>4 DEF t

LEMMA TellsAppend ==
  ASSUME NEW q \in Seq(SocketUpdates), NEW x \in SocketUpdates, NEW c, NEW o, NEW p,
         Tells(q, c, o), x = "message" => (o <=> p), x # "message" => (x = "connected" <=> p)
  PROVE  Tells(Append(q, x), c, p)
<1> DEFINE a == Append(q, x)
<1>1. /\ DOMAIN a = 1 .. Len(q) + 1 /\ DOMAIN q = 1 .. Len(q) /\ Len(q) \in Nat
      /\ \A i \in 1 .. Len(q) : a[i] = q[i]
      /\ a[Len(q) + 1] = x
  BY AppendFacts
<1> HIDE DEF a
<1>2. /\ Len(q) + 1 \in DOMAIN a
      /\ \A i \in DOMAIN q : i \in DOMAIN a /\ a[i] = q[i] /\ i < Len(q) + 1
      /\ \A i \in DOMAIN a : i \in DOMAIN q \/ i = Len(q) + 1
  BY <1>1
<1>3. ASSUME \A i \in DOMAIN a : a[i] = "message" PROVE c <=> p
  <2>1. x = "message"
    BY <1>1, <1>2, <1>3
  <2>2. \A i \in DOMAIN q : q[i] = "message"
    BY <1>2, <1>3
  <2> QED  BY <2>1, <2>2 DEF Tells
<1>4. ASSUME NEW i \in DOMAIN a, a[i] # "message", \A j \in DOMAIN a : i < j => a[j] = "message"
      PROVE  a[i] = "connected" <=> p
  <2>1. CASE i = Len(q) + 1
    BY <1>1, <1>4, <2>1
  <2>2. CASE i \in DOMAIN q
    <3>1. x = "message"
      BY <1>1, <1>2, <1>4, <2>2
    <3>2. q[i] # "message" /\ q[i] = a[i] /\ \A j \in DOMAIN q : i < j => q[j] = "message"
      BY <1>2, <1>4, <2>2
    <3>3. q[i] = "connected" <=> o
      BY <2>2, <3>2 DEF Tells
    <3> QED  BY <3>1, <3>2, <3>3
  <2> QED  BY <1>2, <1>4, <2>1, <2>2
<1>5. Tells(a, c, p)
  BY <1>3, <1>4 DEF Tells
<1> QED  BY <1>5 DEF a

LEMMA TellsTail ==
  ASSUME NEW q \in Seq(SocketUpdates), q # <<>>, NEW c, NEW o, NEW d,
         Tells(q, c, o), Head(q) = "message" => (c <=> d),
         Head(q) # "message" => (Head(q) = "connected" <=> d)
  PROVE  Tells(Tail(q), d, o)
<1> DEFINE t == Tail(q)
<1>1. /\ Len(q) \in Nat \ {0} /\ DOMAIN q = 1 .. Len(q)
      /\ Head(q) = q[1]
      /\ DOMAIN t = 1 .. Len(q) - 1
      /\ \A i \in 1 .. Len(q) - 1 : t[i] = q[i + 1]
  BY TailFacts
<1> HIDE DEF t
<1>2. /\ 1 \in DOMAIN q
      /\ \A i \in DOMAIN t : i + 1 \in DOMAIN q /\ t[i] = q[i + 1]
      /\ \A j \in DOMAIN q : j = 1 \/ (j - 1 \in DOMAIN t /\ q[j] = t[j - 1])
  BY <1>1
<1>3. ASSUME \A i \in DOMAIN t : t[i] = "message" PROVE d <=> o
  <2>1. \A j \in DOMAIN q : j = 1 \/ q[j] = "message"
    BY <1>2, <1>3
  <2>2. CASE Head(q) = "message"
    <3>1. \A j \in DOMAIN q : q[j] = "message"
      BY <1>1, <2>1, <2>2
    <3> QED  BY <2>2, <3>1 DEF Tells
  <2>3. CASE Head(q) # "message"
    <3>1. \A j \in DOMAIN q : 1 < j => q[j] = "message"
      BY <1>1, <2>1
    <3>2. q[1] = "connected" <=> o
      BY <1>1, <1>2, <2>3, <3>1 DEF Tells
    <3> QED  BY <1>1, <2>3, <3>2
  <2> QED  BY <2>2, <2>3
<1>4. ASSUME NEW i \in DOMAIN t, t[i] # "message", \A j \in DOMAIN t : i < j => t[j] = "message"
      PROVE  t[i] = "connected" <=> o
  <2>1. \A j \in DOMAIN q : i + 1 < j => q[j] = "message"
    <3> SUFFICES ASSUME NEW j \in DOMAIN q, i + 1 < j PROVE q[j] = "message"
      OBVIOUS
    <3>1. j - 1 \in DOMAIN t /\ i < j - 1 /\ q[j] = t[j - 1]
      BY <1>1
    <3> QED  BY <1>4, <3>1
  <2>2. i + 1 \in DOMAIN q /\ t[i] = q[i + 1]
    BY <1>2, <1>4
  <2>3. q[i + 1] # "message"
    BY <1>4, <2>2
  <2>4. q[i + 1] = "connected" <=> o
    BY <2>1, <2>2, <2>3 DEF Tells
  <2> QED  BY <2>2, <2>4
<1>5. Tells(t, d, o)
  BY <1>3, <1>4 DEF Tells
<1> QED  BY <1>5 DEF t

(* A worker that takes a text takes the next one.                               *)
LEMMA TakenTextFacts ==
  ASSUME SocketTyped, TextsInv, SendCommandedText
  PROVE  /\ outgoing' = Len(transmitted) + 1 /\ outgoing' # Pong
         /\ Len(transmitted) + 1 <= submitted
         /\ Queued(commands') = Len(transmitted) + 2 .. submitted /\ Rising(commands')
<1>1. /\ IsApp /\ socket_phase = "open" /\ commands # <<>> /\ Head(commands) # Close
      /\ commands' = Tail(commands) /\ outgoing' = Head(commands)
  BY DEF SendCommandedText, TakeCommand
<1>2. outgoing = Pong
  BY <1>1, SocketFacts
<1>3. Queued(commands) = Len(transmitted) + 1 .. submitted /\ Rising(commands)
  BY <1>1, <1>2 DEF TextsInv, QueueInv, FirstQueued
<1>4. commands \in Seq(Nat) /\ submitted \in Nat /\ Len(transmitted) \in Nat
  <2>1. /\ commands \in Seq(0 .. MaxTexts) /\ submitted \in 0 .. MaxTexts /\ MaxTexts \in Nat
        /\ transmitted \in Seq(1 .. MaxTexts)
    BY SocketFacts
  <2> QED  BY <2>1
<1>5. /\ Head(commands) \in Queued(commands)
      /\ \A y \in Queued(commands) : Head(commands) <= y
      /\ Queued(Tail(commands)) = Queued(commands) \ {Head(commands)}
      /\ Rising(Tail(commands))
  BY <1>1, <1>3, <1>4, TailQueued
<1> DEFINE h == Head(commands)
<1> HIDE DEF h
<1>6. h \in Len(transmitted) + 1 .. submitted
      /\ \A y \in Len(transmitted) + 1 .. submitted : h <= y
  BY <1>3, <1>5 DEF h
<1>7. h = Len(transmitted) + 1 /\ h <= submitted /\ h # 0
  BY <1>4, <1>6
<1>8. (Len(transmitted) + 1 .. submitted) \ {h} = Len(transmitted) + 2 .. submitted
  BY <1>4, <1>7
<1>9. Queued(commands') = (Len(transmitted) + 1 .. submitted) \ {h}
  BY <1>1, <1>3, <1>5 DEF h
<1> QED  BY <1>1, <1>5, <1>7, <1>8, <1>9 DEF h, Pong

LEMMA TextsStep ==
  ASSUME SocketTyped, TextsInv, [WebSocketNext]_socketVars
  PROVE  TextsInv'
<1>0. /\ commands \in Seq(Nat) /\ submitted \in Nat
      /\ transmitted \in Seq(Nat) /\ Len(transmitted) \in Nat
      /\ socket_client = "none" <=> socket_phase = "idle"
      /\ websocket_pending => IsApp
      /\ outgoing \in Nat /\ (outgoing # Pong => socket_phase = "sending")
  <2>1. /\ commands \in Seq(0 .. MaxTexts) /\ submitted \in 0 .. MaxTexts /\ MaxTexts \in Nat
        /\ transmitted \in Seq(1 .. MaxTexts)
        /\ outgoing \in 0 .. MaxTexts /\ (outgoing # Pong => socket_phase = "sending")
    BY SocketFacts
  <2> QED  BY <2>1 DEF SocketTyped
<1>h. /\ \A i \in DOMAIN transmitted : transmitted[i] = i
      /\ ~IsApp => commands = <<>> /\ submitted = 0 /\ outgoing = Pong
      /\ socket_client = "none" => transmitted = <<>>
      /\ IsApp => Len(transmitted) <= submitted
      /\ IsApp /\ socket_phase # "ended" => QueueInv
  BY DEF TextsInv
<1>e. /\ Queued(<<>>) = {} /\ Rising(<<>>)
      /\ \A i \in DOMAIN <<>> : <<>>[i] = i
      /\ Len(<<>>) = 0
  BY DEF Queued, Rising
(* Steps that touch no text, and only may end the session.                      *)
<1>k. ASSUME UNCHANGED <<socket_client, commands, outgoing, submitted, transmitted>>,
             socket_phase' = socket_phase \/ socket_phase # "ended"
      PROVE  TextsInv'
  BY <1>h, <1>k DEF TextsInv, QueueInv, FirstQueued, IsApp
<1>1. CASE UNCHANGED socketVars \/ SocketSleepEnds \/ CancelWebSocket
  BY <1>1, <1>k DEF socketVars, socketUi, socketTexts, SocketSleepEnds, CancelWebSocket
<1>2. CASE ClearWebSocket \/ PollWebSocket
  BY <1>2, <1>k DEF ClearWebSocket, PollWebSocket, socketTexts
<1>3. CASE HandshakeFails \/ ConnectionEnds \/ AnswerPing \/ SocketCancelled \/ CloseDone
  <2>1. socket_phase # "ended"
    BY <1>3 DEF HandshakeFails, ConnectionEnds, AnswerPing, SocketCancelled, CloseDone
  <2> QED
    BY <1>3, <1>k, <2>1
       DEF HandshakeFails, ConnectionEnds, AnswerPing, SocketCancelled, CloseDone, socketTexts
<1>4. CASE HandshakeDone
  <2>1. /\ UNCHANGED <<socket_client, commands, outgoing, submitted>>
        /\ socket_phase = "connecting"
        /\ transmitted' = IF IsApp THEN transmitted ELSE <<>>
    BY <1>4 DEF HandshakeDone
  <2>2. CASE IsApp
    BY <1>k, <2>1, <2>2
  <2>3. CASE ~IsApp
    <3>1. /\ transmitted' = <<>> /\ ~IsApp' /\ commands' = <<>> /\ submitted' = 0
          /\ outgoing' = Pong
      BY <1>h, <2>1, <2>3 DEF IsApp
    <3> QED  BY <1>e, <3>1 DEF TextsInv
  <2> QED  BY <2>2, <2>3
<1>5. CASE StartWebSocket
  <2>1. /\ socket_client = "none" /\ socket_client' \in {"app", "cli"}
        /\ UNCHANGED <<commands, outgoing, submitted, transmitted>>
    BY <1>5 DEF StartWebSocket, socketTexts
  <2>2. commands' = <<>> /\ submitted' = 0 /\ transmitted' = <<>> /\ outgoing' = Pong
    BY <1>0, <1>h, <2>1 DEF IsApp
  <2>3. {} = 1 .. 0
    OBVIOUS
  <2>4. QueueInv'
    <3>1. FirstQueued' = 1
      BY <1>e, <2>2 DEF FirstQueued, Pong
    <3>2. Queued(commands') = FirstQueued' .. submitted' /\ Rising(commands')
      BY <1>e, <2>2, <2>3, <3>1
    <3> QED  BY <2>2, <3>2 DEF QueueInv, Pong
  <2>5. Len(transmitted') <= submitted'
    BY <1>e, <2>2
  <2>6. \A i \in DOMAIN transmitted' : transmitted'[i] = i
    BY <1>e, <2>2
  <2> QED  BY <2>1, <2>2, <2>4, <2>5, <2>6 DEF TextsInv, IsApp
<1>6. CASE SendListedText
  <2>1. /\ UNCHANGED <<socket_client, commands, outgoing, submitted>> /\ socket_client = "cli"
        /\ transmitted' \in {transmitted, Append(transmitted, Len(transmitted) + 1)}
    BY <1>6 DEF SendListedText, socketUi
  <2>2. \A i \in DOMAIN transmitted' : transmitted'[i] = i
    <3>1. CASE transmitted' = transmitted
      BY <1>h, <3>1
    <3>2. CASE transmitted' = Append(transmitted, Len(transmitted) + 1)
      BY <1>0, <1>h, <3>2, AppendFacts
    <3> QED  BY <2>1, <3>1, <3>2
  <2> QED  BY <1>h, <2>1, <2>2 DEF TextsInv, IsApp
<1>7. CASE SendCommandedText
  <2>1. /\ UNCHANGED <<socket_client, submitted, transmitted>> /\ IsApp
    BY <1>7 DEF SendCommandedText
  <2>2. /\ outgoing' = Len(transmitted) + 1 /\ outgoing' # Pong
        /\ Len(transmitted) + 1 <= submitted
        /\ Queued(commands') = Len(transmitted) + 2 .. submitted /\ Rising(commands')
    BY <1>7, TakenTextFacts
  <2>3. QueueInv'
    BY <2>1, <2>2 DEF QueueInv, FirstQueued, Pong
  <2> QED  BY <1>h, <2>1, <2>3 DEF TextsInv, IsApp
<1>8. CASE SendDone
  <2>1. /\ UNCHANGED <<socket_client, commands, submitted>> /\ socket_phase = "sending"
        /\ transmitted' = IF outgoing = Pong THEN transmitted ELSE Append(transmitted, outgoing)
        /\ outgoing' = Pong
    BY <1>8 DEF SendDone, Pong
  <2>2. CASE outgoing = Pong
    BY <1>k, <2>1, <2>2
  <2>3. CASE outgoing # Pong
    <3>1. transmitted' = Append(transmitted, outgoing)
      BY <2>1, <2>3
    <3>2. CASE ~IsApp
      BY <1>h, <2>3, <3>2
    <3>3. CASE IsApp
      <4>1. /\ Queued(commands) = Len(transmitted) + 2 .. submitted /\ Rising(commands)
            /\ outgoing = Len(transmitted) + 1 /\ outgoing <= submitted
        BY <1>h, <2>1, <2>3, <3>3 DEF QueueInv, FirstQueued
      <4>2. Len(transmitted') = Len(transmitted) + 1
        BY <1>0, <3>1, AppendFacts
      <4>3. \A i \in DOMAIN transmitted' : transmitted'[i] = i
        BY <1>0, <1>h, <3>1, <4>1, AppendFacts
      <4>4. Len(transmitted') <= submitted' /\ Len(transmitted') + 1 = Len(transmitted) + 2
        BY <1>0, <2>1, <4>1, <4>2
      <4>5. QueueInv'
        BY <2>1, <4>1, <4>4 DEF QueueInv, FirstQueued, Pong
      <4> QED  BY <2>1, <3>3, <4>3, <4>4, <4>5 DEF TextsInv, IsApp
    <3> QED  BY <3>2, <3>3
  <2> QED  BY <2>2, <2>3
<1>11. CASE SendFails
  <2>1. /\ UNCHANGED <<socket_client, commands, submitted, transmitted>>
        /\ socket_phase' = "ended" /\ outgoing' = Pong
    BY <1>11 DEF SendFails, EndSession, Pong
  <2> QED  BY <1>h, <2>1 DEF TextsInv, IsApp
<1>12. CASE ObeyClose
  <2>1. /\ UNCHANGED <<socket_client, outgoing, submitted, transmitted>> /\ IsApp
        /\ socket_phase = "open"
        /\ \/ commands = <<>> /\ commands' = <<>>
           \/ commands # <<>> /\ Head(commands) = Close /\ commands' = Tail(commands)
    BY <1>12 DEF ObeyClose, AskedToClose, SenderIsGone
  <2>2. Queued(commands') = Queued(commands) /\ (Rising(commands) => Rising(commands'))
    <3>1. CASE commands' = commands
      BY <3>1
    <3>2. CASE commands' # commands
      BY <1>0, <2>1, <3>2, TailOfClose
    <3> QED  BY <3>1, <3>2
  <2>3. QueueInv'
    BY <1>h, <2>1, <2>2 DEF QueueInv, FirstQueued
  <2> QED  BY <1>h, <2>1, <2>3 DEF TextsInv, IsApp
<1>9. CASE SendText
  <2>1. /\ UNCHANGED <<socket_client, socket_phase, outgoing, transmitted>>
        /\ submitted' = submitted + 1 /\ commands' = Append(commands, submitted + 1)
        /\ IsApp
    BY <1>0, <1>9 DEF SendText
  <2>2. ASSUME socket_phase # "ended" PROVE QueueInv'
    <3>1. QueueInv
      BY <1>h, <2>1, <2>2
    <3>2. FirstQueued \in Nat /\ FirstQueued' = FirstQueued
      BY <1>0, <2>1 DEF FirstQueued
    <3>3. FirstQueued <= submitted + 1
      <4>1. CASE outgoing = Pong
        BY <1>0, <1>h, <2>1, <4>1 DEF FirstQueued
      <4>2. CASE outgoing # Pong
        BY <1>0, <3>1, <4>2 DEF FirstQueued, QueueInv
      <4> QED  BY <4>1, <4>2
    <3>4. submitted + 1 \in Nat /\ submitted + 1 # Close
      BY <1>0 DEF Close
    <3>5. \A y \in Queued(commands) : y < submitted + 1
      <4>1. \A y \in FirstQueued .. submitted : y < submitted + 1
        BY <1>0, <3>2
      <4> QED  BY <3>1, <4>1 DEF QueueInv
    <3>6. Queued(commands') = Queued(commands) \cup {submitted + 1} /\ Rising(commands')
      <4>1. Rising(commands)
        BY <3>1 DEF QueueInv
      <4> QED  BY <1>0, <2>1, <3>4, <3>5, <4>1, AppendQueued
    <3>7. (FirstQueued .. submitted) \cup {submitted + 1} = FirstQueued .. submitted + 1
      BY <1>0, <3>2, <3>3
    <3>8. Queued(commands') = FirstQueued' .. submitted'
      BY <2>1, <3>1, <3>2, <3>6, <3>7 DEF QueueInv
    <3>9. outgoing' # Pong => outgoing' = Len(transmitted') + 1 /\ outgoing' <= submitted'
      BY <1>0, <2>1, <3>1 DEF QueueInv
    <3> QED  BY <3>6, <3>8, <3>9 DEF QueueInv, Pong
  <2>3. Len(transmitted) <= submitted + 1
    BY <1>0, <1>h, <2>1
  <2> QED  BY <1>h, <2>1, <2>2, <2>3 DEF TextsInv, IsApp
<1>10. CASE CloseWebSocket \/ NotifyWebSocket
  <2>1. /\ UNCHANGED <<socket_client, socket_phase, outgoing, submitted, transmitted>>
        /\ \/ commands' = commands
           \/ commands' = Append(commands, Close) /\ websocket_pending
    BY <1>10 DEF CloseWebSocket, NotifyWebSocket
  <2>2. CASE commands' = commands
    BY <1>k, <2>1, <2>2
  <2>3. CASE commands' = Append(commands, Close) /\ websocket_pending
    <3>1. Close \in Nat
      BY DEF Close
    <3>2. /\ Queued(commands') = Queued(commands)
          /\ Rising(commands) => Rising(commands')
      <4>1. /\ Queued(Append(commands, Close)) = Queued(commands) \cup ({Close} \ {Close})
            /\ Rising(commands) => Rising(Append(commands, Close))
        BY <1>0, <3>1, AppendQueued
      <4> QED  BY <2>3, <4>1
    <3>3. IsApp
      BY <1>0, <2>3
    <3>4. QueueInv => QueueInv'
      BY <2>1, <3>2 DEF QueueInv, FirstQueued
    <3> QED  BY <1>h, <2>1, <3>3, <3>4 DEF TextsInv, IsApp
  <2> QED  BY <2>1, <2>2, <2>3
<1> QED
  BY <1>1, <1>2, <1>3, <1>4, <1>5, <1>6, <1>7, <1>8, <1>9, <1>10, <1>11, <1>12
     DEF WebSocketNext, SocketWorker, SocketPeer, TakesCommand

LEMMA ConnectionStep ==
  ASSUME SocketTyped, ConnectionInv, [WebSocketNext]_socketVars
  PROVE  ConnectionInv'
<1>0. /\ updates \in Seq(SocketUpdates) /\ websocket_pending \in BOOLEAN
      /\ websocket_pending => IsApp
      /\ socket_client = "none" => updates = <<>> /\ ~websocket_connected
  BY SocketFacts DEF SocketTyped
<1>i. websocket_pending => Tells(updates, websocket_connected, SocketOpen)
  BY DEF ConnectionInv
<1>k. ASSUME UNCHANGED <<updates, websocket_connected, websocket_pending>>,
             socket_phase' = socket_phase \/ {socket_phase, socket_phase'} \subseteq {"sleeping", "connecting"}
      PROVE  ConnectionInv'
  <2>1. SocketOpen' <=> SocketOpen
    BY <1>k DEF SocketOpen
  <2> QED  BY <1>i, <1>k, <2>1 DEF ConnectionInv, Tells
<1>1. CASE UNCHANGED socketVars \/ CancelWebSocket \/ SocketSleepEnds
  BY <1>1, <1>k DEF socketVars, socketUi, socketTexts, CancelWebSocket, SocketSleepEnds
<1>2. CASE SendText \/ CloseWebSocket \/ NotifyWebSocket
  BY <1>2, <1>k DEF SendText, CloseWebSocket, NotifyWebSocket
<1>3. CASE SendListedText
  <2>1. ~websocket_pending /\ websocket_pending' = websocket_pending
    BY <1>0, <1>3 DEF SendListedText, socketUi, IsApp
  <2> QED  BY <2>1 DEF ConnectionInv
<1>4. CASE ClearWebSocket
  BY <1>4 DEF ClearWebSocket, ConnectionInv
<1>5. CASE StartWebSocket
  <2>1. updates' = <<>> /\ ~websocket_connected' /\ socket_phase' = "connecting"
    BY <1>0, <1>5 DEF StartWebSocket
  <2> QED  BY <2>1 DEF ConnectionInv, Tells, SocketOpen
<1>6. CASE WorkerMoves
  <2>1. /\ UNCHANGED <<websocket_connected, websocket_pending>>
        /\ websocket_pending =>
             \/ updates' = updates /\ (SocketOpen' <=> SocketOpen)
             \/ updates' = Append(updates, "connected") /\ SocketOpen'
             \/ updates' = Append(updates, "message") /\ SocketOpen' /\ SocketOpen
             \/ /\ ~SocketOpen'
                /\ \E u \in {"reconnecting", "failed or closed"} : updates' = Append(updates, u)
    BY <1>6, WorkerStepFacts
  <2>2. SUFFICES ASSUME websocket_pending
                 PROVE  Tells(updates', websocket_connected, SocketOpen')
    BY <2>1 DEF ConnectionInv
  <2>3. Tells(updates, websocket_connected, SocketOpen)
    BY <1>i, <2>2
  <2>4. {"connected", "message", "reconnecting", "failed or closed"} \subseteq SocketUpdates
    BY DEF SocketUpdates
  <2>5. CASE updates' = updates /\ (SocketOpen' <=> SocketOpen)
    BY <2>3, <2>5 DEF Tells
  <2>6. CASE updates' = Append(updates, "connected") /\ SocketOpen'
    BY <1>0, <2>3, <2>4, <2>6, TellsAppend
  <2>7. CASE updates' = Append(updates, "message") /\ SocketOpen' /\ SocketOpen
    BY <1>0, <2>3, <2>4, <2>7, TellsAppend
  <2>8. CASE ~SocketOpen' /\ \E u \in {"reconnecting", "failed or closed"} :
                               updates' = Append(updates, u)
    <3>1. PICK u \in {"reconnecting", "failed or closed"} : updates' = Append(updates, u)
      BY <2>8
    <3>2. u \in SocketUpdates /\ u # "message" /\ u # "connected"
      BY <2>4, <3>1
    <3> QED  BY <1>0, <2>3, <2>8, <3>1, <3>2, TellsAppend
  <2> QED  BY <2>1, <2>2, <2>5, <2>6, <2>7, <2>8
<1>7. CASE PollWebSocket
  <2>1. /\ websocket_pending /\ updates # <<>> /\ updates' = Tail(updates)
        /\ UNCHANGED socket_phase
    BY <1>7 DEF PollWebSocket
  <2>2. /\ Head(updates) = "message" => (websocket_connected <=> websocket_connected')
        /\ Head(updates) # "message" => (Head(updates) = "connected" <=> websocket_connected')
    BY <1>7 DEF PollWebSocket
  <2>3. Tells(updates', websocket_connected', SocketOpen)
    BY <1>0, <1>i, <2>1, <2>2, TellsTail
  <2> QED  BY <2>1, <2>3 DEF ConnectionInv, Tells, SocketOpen
<1> QED
  BY <1>1, <1>2, <1>3, <1>4, <1>5, <1>6, <1>7
     DEF WebSocketNext, SocketWorker, SocketPeer, TakesCommand, WorkerMoves

LEMMA SocketInvariant == WebSocketSpec => []SocketInv
<1>1. WebSocketInit => SocketInv
  <2> SUFFICES ASSUME WebSocketInit PROVE SocketInv
    OBVIOUS
  <2>1. /\ socket_client = "none" /\ socket_phase = "idle" /\ handshakes = 0
        /\ commands = <<>> /\ outgoing = Pong /\ submitted = 0 /\ transmitted = <<>>
        /\ socket_cancel = "no" /\ socket_waiter = "unchecked" /\ updates = <<>>
        /\ websocket_connected = FALSE /\ websocket_pending = FALSE /\ closing = FALSE
    BY DEF WebSocketInit
  <2>2. \A S : <<>> \in Seq(S)
    OBVIOUS
  <2>3. WebSocketTypeOK
    <3>1. 0 \in 0 .. SocketReconnects + 1 /\ 0 \in 0 .. MaxTexts
      BY WebSocketAssumption
    <3> QED  BY <2>1, <2>2, <3>1 DEF WebSocketTypeOK, Pong
  <2>4. SocketTyped
    BY <2>1, <2>3 DEF SocketTyped, IsApp
  <2>5. TextsInv
    BY <2>1 DEF TextsInv, IsApp
  <2>6. ConnectionInv
    BY <2>1 DEF ConnectionInv
  <2> QED  BY <2>4, <2>5, <2>6 DEF SocketInv
<1>2. SocketInv /\ [WebSocketNext]_socketVars => SocketInv'
  BY SocketTypedStep, TextsStep, ConnectionStep DEF SocketInv
<1> QED  BY <1>1, <1>2, PTL DEF WebSocketSpec

(* The desktop's and the CLI's WebSocket keeps its types (WebSocketSession).       *)
THEOREM WebSocketTypeCorrect == WebSocketSpec => []WebSocketTypeOK
<1>1. SocketInv => WebSocketTypeOK
  BY DEF SocketInv, SocketTyped
<1> QED  BY <1>1, SocketInvariant, PTL

(* Over any number of reconnections texts go out in the order in which they were    *)
(* submitted, none is lost while the session lasts, and a desktop that has polled  *)
(* everything knows whether the connection is open (run_websocket,              *)
(* poll_websocket_pending).                                                   *)
THEOREM SocketSendsInOrder == WebSocketSpec => []TextsSentInOrder
<1>1. SocketInv => TextsSentInOrder
  <2> SUFFICES ASSUME SocketInv PROVE TextsSentInOrder
    OBVIOUS
  <2>1. \A i \in DOMAIN transmitted : transmitted[i] = i
    BY DEF SocketInv, TextsInv
  <2>2. ASSUME IsApp, socket_phase # "ended"
        PROVE  /\ ({outgoing} \cup {commands[i] : i \in DOMAIN commands}) \ {Close} =
                    Len(transmitted) + 1 .. submitted
               /\ \A i \in DOMAIN commands :
                    commands[i] # Close =>
                      /\ outgoing < commands[i]
                      /\ \A j \in 1 .. i - 1 : commands[j] < commands[i]
    <3>1. QueueInv
      BY <2>2 DEF SocketInv, TextsInv
    <3>2. /\ commands \in Seq(Nat) /\ Len(transmitted) \in Nat /\ submitted \in Nat
          /\ outgoing \in Nat
      <4>1. /\ commands \in Seq(0 .. MaxTexts) /\ submitted \in 0 .. MaxTexts
            /\ transmitted \in Seq(1 .. MaxTexts) /\ outgoing \in 0 .. MaxTexts
            /\ MaxTexts \in Nat
        BY SocketFacts DEF SocketInv
      <4> QED  BY <4>1
    <3>3. Queued(commands) = {commands[i] : i \in DOMAIN commands} \ {Close}
      BY DEF Queued
    <3>4. ({outgoing} \ {Close}) \cup (FirstQueued .. submitted)
            = Len(transmitted) + 1 .. submitted
      BY <3>1, <3>2 DEF QueueInv, FirstQueued, Pong, Close
    <3>5. ({outgoing} \cup {commands[i] : i \in DOMAIN commands}) \ {Close} =
            Len(transmitted) + 1 .. submitted
      BY <3>1, <3>3, <3>4 DEF QueueInv
    <3>6. ASSUME NEW i \in DOMAIN commands, commands[i] # Close
          PROVE  /\ outgoing < commands[i]
                 /\ \A j \in 1 .. i - 1 : commands[j] < commands[i]
      <4>1. commands[i] \in FirstQueued .. submitted /\ FirstQueued \in Nat
        BY <3>1, <3>2, <3>6 DEF QueueInv, Queued, FirstQueued
      <4>2. outgoing < FirstQueued
        BY <3>1, <3>2 DEF QueueInv, FirstQueued, Pong
      <4>3. \A j \in DOMAIN commands : j < i => commands[j] < commands[i]
        BY <3>1, <3>6 DEF QueueInv, Rising
      <4>4. \A j \in 1 .. i - 1 : j \in DOMAIN commands /\ j < i
        BY <3>2
      <4> QED  BY <3>2, <4>1, <4>2, <4>3, <4>4
    <3> QED  BY <3>5, <3>6
  <2>3. websocket_pending /\ updates = <<>> => (websocket_connected <=> SocketOpen)
    BY DEF SocketInv, ConnectionInv, Tells
  <2> QED  BY <2>1, <2>2, <2>3 DEF TextsSentInOrder
<1> QED  BY <1>1, SocketInvariant, PTL

(***************************************************************************)
(* Tunnels                                                                 *)
(***************************************************************************)
(* While nothing is on its way, or only two bytes of a SOCKS proxy, the target has  *)
(* not spoken.                                                                *)
Quiet == {"idle", "direct", "connect", "greeting", "credentials", "request"}
TwoBytes == {"method", "status"}
TunnelTyped ==
  /\ TunnelTypeOK
  /\ incoming \in Seq(Int) /\ heard \in Seq(Int)
  /\ tunnel_phase \in Quiet \cup TwoBytes => ~replied /\ relayed = 0
  /\ tunnel_phase \in Quiet => incoming = <<>>
  /\ tunnel_phase \in TwoBytes => Len(incoming) = 2 /\ \A i \in 1 .. 2 : incoming[i] \in Nat
  /\ tunnel_phase \in TwoBytes \cup {"idle"} => heard = <<>>

RouteInv ==
  /\ tunnel_phase \in {"connect", "header"} => proxy.scheme = "http"
  /\ tunnel_phase \in {"greeting", "method", "credentials", "status", "request", "reply",
                       "length", "address"} => proxy.scheme = "socks5"
  /\ tunnel_phase \notin {"idle", "direct"} => ~Bypasses(target, proxy.rules)
  /\ tunnel_phase = "idle" => target = Nowhere /\ proxy = NoRoute
  /\ tunnel_phase \in {"idle", "direct", "connect", "greeting", "method"} => ~given
  /\ tunnel_phase = "method" => (asked <=> incoming[2] = 2)
  /\ given => /\ proxy.credentials # "none"
              /\ proxy.scheme = "socks5" => proxy.credentials = "short" /\ asked

(* The first h bytes on their way are the proxy's, and the rest the target's next.   *)
Ahead(h) ==
  /\ h \in Nat /\ Len(incoming) = h + (relayed - skipped)
  /\ \A i \in 1 .. h : incoming[i] \in Nat
  /\ \A i \in h + 1 .. Len(incoming) : incoming[i] = h - (skipped + i)
HeaderAhead(h) ==
  /\ h >= 1 /\ Ahead(h) /\ incoming[h] = BlankLine
  /\ \A i \in 1 .. h - 1 : incoming[i] # BlankLine
  /\ \A i \in 1 .. Len(heard) : heard[i] # BlankLine
  /\ (IF heard = <<>> THEN incoming[1] ELSE heard[1]) = 200 => replied
SocksAhead(h) ==
  /\ Ahead(h)
  /\ tunnel_phase = "reply" =>
       /\ heard = <<>> /\ h >= 4
       /\ incoming[2] = 0 /\ incoming[4] # 2 => replied
       /\ incoming[4] = 1 => h = AddressLength + 6
       /\ incoming[4] = 3 => h = AddressLength + 8 /\ incoming[5] = AddressLength + 1
  /\ tunnel_phase = "length" =>
       /\ replied /\ Len(heard) = 4 /\ heard[4] = 3
       /\ h = AddressLength + 4 /\ incoming[1] = AddressLength + 1
  /\ tunnel_phase = "address" =>
       /\ replied /\ AddressSize(heard) \in Nat /\ h = AddressSize(heard) + 2
ReplyInv ==
  /\ tunnel_phase = "header" => skipped = 0 /\ \E h \in 1 .. Len(incoming) : HeaderAhead(h)
  /\ tunnel_phase \in {"reply", "length", "address"} =>
       skipped = 0 /\ \E h \in 1 .. Len(incoming) : SocksAhead(h)
  /\ tunnel_phase = "open" => /\ replied /\ Ahead(0)
                              /\ proxy.scheme = "socks5" => skipped = 0
TunnelInv == TunnelTyped /\ RouteInv /\ ReplyInv

(* Sequences of bytes.                                                         *)
LEMMA ConcatFacts ==
  ASSUME NEW s \in Seq(Int), NEW t \in Seq(Int)
  PROVE  /\ s \o t \in Seq(Int) /\ Len(s) \in Nat /\ Len(t) \in Nat
         /\ Len(s \o t) = Len(s) + Len(t)
         /\ \A i \in 1 .. Len(s) : (s \o t)[i] = s[i]
         /\ \A i \in 1 .. Len(t) : (s \o t)[Len(s) + i] = t[i]
  OBVIOUS

LEMMA PartFacts ==
  ASSUME NEW s \in Seq(Int), NEW n \in Nat, n <= Len(s)
  PROVE  /\ SubSeq(s, 1, n) \in Seq(Int) /\ Len(SubSeq(s, 1, n)) = n
         /\ DOMAIN SubSeq(s, 1, n) = 1 .. n
         /\ \A i \in 1 .. n : SubSeq(s, 1, n)[i] = s[i]
         /\ SubSeq(s, n + 1, Len(s)) \in Seq(Int)
         /\ Len(SubSeq(s, n + 1, Len(s))) = Len(s) - n
         /\ \A i \in 1 .. Len(s) - n : SubSeq(s, n + 1, Len(s))[i] = s[n + i]
  BY SMTT(30)

LEMMA ZerosFacts ==
  ASSUME NEW n \in Nat
  PROVE  /\ Zeros(n) \in Seq(Int) /\ Len(Zeros(n)) = n
         /\ \A i \in 1 .. n : Zeros(n)[i] = 0
  BY DEF Zeros

(* Of the first n bytes, those behind the first h are the target's.              *)
LEMMA OfTargetFacts ==
  ASSUME NEW bytes \in Seq(Int), NEW h \in Nat, NEW n \in Nat, Len(bytes) = n,
         \A i \in 1 .. n : bytes[i] < 0 <=> i > h
  PROVE  OfTarget(bytes) = IF n <= h THEN 0 ELSE n - h
<1>1. DOMAIN bytes = 1 .. n
  OBVIOUS
<1>2. {i \in DOMAIN bytes : bytes[i] < 0} = h + 1 .. n
  BY <1>1
<1>3. Cardinality(h + 1 .. n) = IF h + 1 <= n THEN n - (h + 1) + 1 ELSE 0
  BY FS_Interval
<1>4. OfTarget(bytes) = Cardinality(h + 1 .. n)
  BY <1>2 DEF OfTarget
<1>5. CASE n <= h
  BY <1>3, <1>4, <1>5
<1>6. CASE ~(n <= h)
  <2>1. h + 1 <= n /\ n - (h + 1) + 1 = n - h
    BY <1>6
  <2> QED  BY <1>3, <1>4, <1>6, <2>1
<1> QED  BY <1>5, <1>6

LEMMA TunnelFacts ==
  ASSUME TunnelTyped
  PROVE  /\ incoming \in Seq(Int) /\ Len(incoming) \in Nat
         /\ heard \in Seq(Int) /\ Len(heard) \in Nat
         /\ relayed \in Nat /\ skipped \in Nat /\ skipped <= relayed /\ relayed <= TargetBytes
         /\ TargetBytes \in Nat /\ HeaderLimit \in Nat /\ AddressLength \in Nat
  BY TunnelAssumption DEF TunnelTyped, TunnelTypeOK

(* Reading n bytes leaves the rest, and skips the target's among them.            *)
LEMMA ReadFacts ==
  ASSUME TunnelTyped, NEW h \in Nat, Ahead(h), NEW n \in Nat, n <= Len(incoming)
  PROVE  /\ SubSeq(incoming, n + 1, Len(incoming)) \in Seq(Int)
         /\ Len(SubSeq(incoming, n + 1, Len(incoming))) = Len(incoming) - n
         /\ \A i \in 1 .. Len(incoming) - n :
              SubSeq(incoming, n + 1, Len(incoming))[i] = incoming[n + i]
         /\ OfTarget(SubSeq(incoming, 1, n)) = IF n <= h THEN 0 ELSE n - h
<1>1. /\ incoming \in Seq(Int) /\ Len(incoming) \in Nat /\ skipped \in Nat
  BY TunnelFacts
<1>2. /\ SubSeq(incoming, 1, n) \in Seq(Int) /\ Len(SubSeq(incoming, 1, n)) = n
      /\ \A i \in 1 .. n : SubSeq(incoming, 1, n)[i] = incoming[i]
      /\ SubSeq(incoming, n + 1, Len(incoming)) \in Seq(Int)
      /\ Len(SubSeq(incoming, n + 1, Len(incoming))) = Len(incoming) - n
      /\ \A i \in 1 .. Len(incoming) - n :
           SubSeq(incoming, n + 1, Len(incoming))[i] = incoming[n + i]
  BY <1>1, PartFacts
<1>3. ASSUME NEW i \in 1 .. n
      PROVE  SubSeq(incoming, 1, n)[i] < 0 <=> i > h
  <2>1. SubSeq(incoming, 1, n)[i] = incoming[i]
    BY <1>2
  <2>2. CASE i \in 1 .. h
    <3>1. incoming[i] \in Nat
      BY <2>2 DEF Ahead
    <3> QED  BY <2>1, <2>2, <3>1
  <2>3. CASE i \notin 1 .. h
    <3>1. i \in h + 1 .. Len(incoming)
      BY <1>1, <2>3
    <3>2. incoming[i] = h - (skipped + i)
      BY <3>1 DEF Ahead
    <3> QED  BY <1>1, <2>1, <3>1, <3>2
  <2> QED  BY <2>2, <2>3
<1>4. OfTarget(SubSeq(incoming, 1, n)) = IF n <= h THEN 0 ELSE n - h
  BY <1>2, <1>3, OfTargetFacts
<1> QED  BY <1>2, <1>4

LEMMA AheadAfterRead ==
  ASSUME TunnelTyped, NEW h \in Nat, Ahead(h), NEW n \in Nat, n <= Len(incoming), skipped = 0,
         incoming' = SubSeq(incoming, n + 1, Len(incoming)), relayed' = relayed,
         skipped' = skipped + OfTarget(SubSeq(incoming, 1, n))
  PROVE  /\ incoming' \in Seq(Int) /\ Len(incoming') = Len(incoming) - n
         /\ \A i \in 1 .. Len(incoming) - n : incoming'[i] = incoming[n + i]
         /\ skipped' \in 0 .. relayed
         /\ n <= h => skipped' = 0 /\ \A m : m = h - n => Ahead(m)'
         /\ h <= n => Ahead(0)'
<1>0. /\ incoming \in Seq(Int) /\ Len(incoming) \in Nat /\ relayed \in Nat
  BY TunnelFacts
<1>1. /\ incoming' \in Seq(Int) /\ Len(incoming') = Len(incoming) - n
      /\ \A i \in 1 .. Len(incoming) - n : incoming'[i] = incoming[n + i]
      /\ skipped' = IF n <= h THEN 0 ELSE n - h
  BY ReadFacts
<1>2. /\ Len(incoming) = h + relayed
      /\ \A i \in 1 .. h : incoming[i] \in Nat
      /\ \A i \in h + 1 .. Len(incoming) : incoming[i] = h - i
  BY <1>0 DEF Ahead
<1>3. ASSUME n <= h, NEW m, m = h - n PROVE Ahead(m)'
  <2>1. m \in Nat /\ skipped' = 0 /\ Len(incoming') = m + (relayed' - skipped')
    BY <1>0, <1>1, <1>2, <1>3
  <2>2. \A i \in 1 .. m : incoming'[i] \in Nat
    <3> TAKE i \in 1 .. m
    <3>1. i \in 1 .. Len(incoming) - n /\ n + i \in 1 .. h
      BY <1>0, <1>2, <1>3, <2>1
    <3> QED  BY <1>1, <1>2, <3>1
  <2>3. \A i \in m + 1 .. Len(incoming') : incoming'[i] = m - (skipped' + i)
    <3> TAKE i \in m + 1 .. Len(incoming')
    <3>1. i \in 1 .. Len(incoming) - n /\ n + i \in h + 1 .. Len(incoming)
      BY <1>0, <1>1, <1>2, <1>3, <2>1
    <3>2. incoming'[i] = h - (n + i)
      BY <1>1, <1>2, <3>1
    <3> QED  BY <1>3, <2>1, <3>1, <3>2
  <2> QED  BY <2>1, <2>2, <2>3 DEF Ahead
<1>4. ASSUME h <= n PROVE Ahead(0)'
  <2>1. skipped' = n - h
    BY <1>1, <1>4
  <2>2. Len(incoming') = relayed' - skipped' /\ relayed' - skipped' = 0 + (relayed' - skipped')
    BY <1>0, <1>1, <1>2, <2>1, SMTT(30)
  <2>3. \A i \in 1 .. Len(incoming') : incoming'[i] = 0 - (skipped' + i)
    <3> TAKE i \in 1 .. Len(incoming')
    <3>1. i \in 1 .. Len(incoming) - n /\ n + i \in h + 1 .. Len(incoming)
      BY <1>0, <1>1, <1>4
    <3>2. incoming'[i] = h - (n + i)
      BY <1>1, <1>2, <3>1
    <3>3. h - (n + i) = 0 - ((n - h) + i)
      BY <3>1
    <3> QED  BY <2>1, <3>2, <3>3
  <2>4. \A i \in 1 .. 0 : incoming'[i] \in Nat
    OBVIOUS
  <2>5. 0 \in Nat /\ 0 + 1 = 1
    OBVIOUS
  <2> QED  BY <2>2, <2>3, <2>4, <2>5 DEF Ahead
<1>5. skipped' \in 0 .. relayed
  BY <1>0, <1>1, <1>2, SMTT(30)
<1>6. n <= h => skipped' = 0
  BY <1>1
<1> QED  BY <1>1, <1>3, <1>4, <1>5, <1>6

(* The target speaks behind whatever is on its way.                             *)
LEMMA AheadAfterRelay ==
  ASSUME TunnelTyped, RelayTarget, NEW h, Ahead(h)
  PROVE  /\ Ahead(h)' /\ \A i \in 1 .. h : incoming'[i] = incoming[i]
         /\ h <= Len(incoming) /\ Len(incoming') = Len(incoming) + 1
<1>1. /\ incoming' = Append(incoming, -(relayed + 1))
      /\ relayed' = relayed + 1 /\ skipped' = skipped
  BY DEF RelayTarget
<1>2. /\ incoming \in Seq(Int) /\ Len(incoming) \in Nat /\ relayed \in Nat /\ skipped \in Nat
      /\ skipped <= relayed
  BY TunnelFacts
<1>3. /\ h \in Nat /\ Len(incoming) = h + (relayed - skipped)
      /\ \A i \in 1 .. h : incoming[i] \in Nat
      /\ \A i \in h + 1 .. Len(incoming) : incoming[i] = h - (skipped + i)
  BY DEF Ahead
<1>4. /\ Len(incoming') = Len(incoming) + 1
      /\ \A i \in 1 .. Len(incoming) : incoming'[i] = incoming[i]
      /\ incoming'[Len(incoming) + 1] = -(relayed + 1)
  BY <1>1, <1>2, AppendFacts
<1>5. Len(incoming') = h + (relayed' - skipped') /\ h <= Len(incoming)
  BY <1>1, <1>2, <1>3, <1>4
<1>6. \A i \in 1 .. h : incoming'[i] = incoming[i]
  BY <1>2, <1>3, <1>4, <1>5
<1>7. \A i \in h + 1 .. Len(incoming') : incoming'[i] = h - (skipped' + i)
  <2> TAKE i \in h + 1 .. Len(incoming')
  <2>1. CASE i = Len(incoming) + 1
    <3>1. h - (skipped + i) = -(relayed + 1)
      BY <1>2, <1>3, <2>1
    <3> QED  BY <1>1, <1>4, <2>1, <3>1
  <2>2. CASE i # Len(incoming) + 1
    <3>1. i \in h + 1 .. Len(incoming) /\ i \in 1 .. Len(incoming)
      BY <1>2, <1>3, <1>4, <2>2
    <3> QED  BY <1>1, <1>3, <1>4, <3>1
  <2> QED  BY <2>1, <2>2
<1>8. Ahead(h)'
  BY <1>3, <1>5, <1>6, <1>7 DEF Ahead
<1> QED  BY <1>4, <1>5, <1>6, <1>8

(* What the client has read of a reply, when it reads n bytes more.               *)
LEMMA HearFacts ==
  ASSUME TunnelTyped, NEW n \in Nat, n <= Len(incoming),
         heard' = heard \o SubSeq(incoming, 1, n)
  PROVE  /\ heard' \in Seq(Int) /\ Len(heard') = Len(heard) + n
         /\ \A i \in 1 .. Len(heard) : heard'[i] = heard[i]
         /\ \A i \in 1 .. n : heard'[Len(heard) + i] = incoming[i]
<1>1. incoming \in Seq(Int) /\ heard \in Seq(Int) /\ Len(heard) \in Nat
  BY TunnelFacts
<1>2. /\ SubSeq(incoming, 1, n) \in Seq(Int) /\ Len(SubSeq(incoming, 1, n)) = n
      /\ \A i \in 1 .. n : SubSeq(incoming, 1, n)[i] = incoming[i]
  BY <1>1, PartFacts
<1> QED  BY <1>1, <1>2, ConcatFacts

(* The replies of the proxies.                                                  *)
IsHeader(b, length, status) ==
  /\ b \in Seq(Int) /\ Len(b) = length + 1 /\ b[1] = status
  /\ b[length + 1] = BlankLine /\ \A i \in 2 .. length : b[i] = 0
  /\ \A i \in 1 .. length + 1 : b[i] \in Nat
LEMMA ConnectReply ==
  ASSUME NEW length \in Nat \ {0}, NEW status \in Nat, NEW rest, rest = length - 1, NEW b,
         b = <<status>> \o Zeros(rest) \o <<BlankLine>>
  PROVE  IsHeader(b, length, status)
<1> DEFINE z == Zeros(rest)
           c == <<status>> \o z
           e == <<BlankLine>>
<1>1. z \in Seq(Int) /\ Len(z) = length - 1 /\ \A i \in 1 .. length - 1 : z[i] = 0
  <2>1. length - 1 \in Nat
    OBVIOUS
  <2> QED  BY <2>1, ZerosFacts
<1>2. <<status>> \in Seq(Int) /\ Len(<<status>>) = 1 /\ <<status>>[1] = status
  OBVIOUS
<1>3. e \in Seq(Int) /\ Len(e) = 1 /\ e[1] = BlankLine /\ BlankLine \in Nat
  BY DEF BlankLine
<1> DEFINE f == <<status>>
<1> HIDE DEF z, e, f
<1>s. f \in Seq(Int) /\ Len(f) = 1 /\ f[1] = status
  BY <1>2 DEF f
<1>c. c = f \o z
  BY DEF c, f
<1>4. /\ c \in Seq(Int) /\ Len(c) = length /\ c[1] = status
      /\ \A i \in 1 .. length - 1 : c[1 + i] = 0
  <2>1. /\ f \o z \in Seq(Int) /\ Len(f \o z) = Len(f) + Len(z)
        /\ \A i \in 1 .. Len(f) : (f \o z)[i] = f[i]
        /\ \A i \in 1 .. Len(z) : (f \o z)[Len(f) + i] = z[i]
    BY <1>1, <1>s, ConcatFacts
  <2> HIDE DEF c
  <2>2. 1 + (length - 1) = length /\ 1 \in 1 .. 1
    OBVIOUS
  <2> QED  BY <1>1, <1>s, <1>c, <2>1, <2>2
<1> HIDE DEF c
<1>5. /\ c \o e \in Seq(Int) /\ Len(c \o e) = length + 1
      /\ \A i \in 1 .. length : (c \o e)[i] = c[i]
      /\ (c \o e)[length + 1] = BlankLine
  <2>1. /\ c \o e \in Seq(Int) /\ Len(c \o e) = Len(c) + Len(e)
        /\ \A i \in 1 .. Len(c) : (c \o e)[i] = c[i]
        /\ \A i \in 1 .. Len(e) : (c \o e)[Len(c) + i] = e[i]
    BY <1>3, <1>4, ConcatFacts
  <2> QED  BY <1>3, <1>4, <2>1
<1>6. b = c \o e
  BY DEF c, z, e
<1>7. \A i \in 2 .. length : b[i] = 0
  <2> TAKE i \in 2 .. length
  <2>1. i - 1 \in 1 .. length - 1 /\ 1 + (i - 1) = i /\ i \in 1 .. length
    OBVIOUS
  <2> QED  BY <1>4, <1>5, <1>6, <2>1
<1>8. b[1] = status
  BY <1>4, <1>5, <1>6
<1>9. \A i \in 1 .. length + 1 : b[i] \in Nat
  <2> TAKE i \in 1 .. length + 1
  <2>1. i = 1 \/ i \in 2 .. length \/ i = length + 1
    OBVIOUS
  <2>2. 0 \in Nat /\ b[length + 1] = BlankLine
    BY <1>5, <1>6
  <2> QED  BY <1>3, <1>7, <1>8, <2>1, <2>2
<1> QED  BY <1>5, <1>6, <1>7, <1>8, <1>9 DEF IsHeader

LEMMA SocksReply ==
  ASSUME NEW code \in Nat, NEW type \in {1, 2, 3}, NEW b, AddressLength \in Nat,
         b = <<5, code, 0, type>> \o (IF type = 3 THEN <<AddressLength + 1>> ELSE <<>>)
               \o Zeros(IF type = 3 THEN AddressLength + 1 ELSE AddressLength) \o Zeros(2)
  PROVE  /\ b \in Seq(Int)
         /\ Len(b) = IF type = 3 THEN AddressLength + 8 ELSE AddressLength + 6
         /\ b[2] = code /\ b[4] = type
         /\ type = 3 => b[5] = AddressLength + 1
         /\ \A i \in 1 .. Len(b) : b[i] \in Nat
<1> DEFINE f == <<5, code, 0, type>>
           m == IF type = 3 THEN <<AddressLength + 1>> ELSE <<>>
           n == IF type = 3 THEN AddressLength + 1 ELSE AddressLength
           k == IF type = 3 THEN 1 ELSE 0
           y == f \o m
           z == Zeros(n)
           u == y \o z
           v == Zeros(2)
<1>1. /\ f \in Seq(Int) /\ Len(f) = 4 /\ f[2] = code /\ f[4] = type
      /\ \A i \in 1 .. 4 : f[i] \in Nat
  OBVIOUS
<1>2. /\ m \in Seq(Int) /\ Len(m) = k /\ \A i \in 1 .. k : m[i] = AddressLength + 1
      /\ n \in Nat /\ k \in {0, 1}
      /\ k = 1 <=> type = 3
      /\ 4 + k + n + 2 = IF type = 3 THEN AddressLength + 8 ELSE AddressLength + 6
  <2>1. CASE type = 3
    BY <2>1
  <2>2. CASE type # 3
    BY <2>2
  <2> QED  BY <2>1, <2>2
<1>3. z \in Seq(Int) /\ Len(z) = n /\ \A i \in 1 .. n : z[i] = 0
  BY <1>2, ZerosFacts
<1>4. v \in Seq(Int) /\ Len(v) = 2 /\ \A i \in 1 .. 2 : v[i] = 0
  BY ZerosFacts
<1>5. b = u \o v
  OBVIOUS
<1> HIDE DEF f, m, n, k, z, v
<1>6. /\ y \in Seq(Int) /\ Len(y) = 4 + k /\ \A i \in 1 .. 4 : y[i] = f[i]
      /\ \A i \in 1 .. k : y[4 + i] = m[i]
  <2>1. /\ f \o m \in Seq(Int) /\ Len(f \o m) = Len(f) + Len(m)
        /\ \A i \in 1 .. Len(f) : (f \o m)[i] = f[i]
        /\ \A i \in 1 .. Len(m) : (f \o m)[Len(f) + i] = m[i]
    BY <1>1, <1>2, ConcatFacts
  <2> QED  BY <1>1, <1>2, <2>1
<1> HIDE DEF y
<1>7. /\ u \in Seq(Int) /\ Len(u) = 4 + k + n /\ \A i \in 1 .. 4 + k : u[i] = y[i]
      /\ \A i \in 1 .. n : u[4 + k + i] = z[i]
  <2>1. /\ y \o z \in Seq(Int) /\ Len(y \o z) = Len(y) + Len(z)
        /\ \A i \in 1 .. Len(y) : (y \o z)[i] = y[i]
        /\ \A i \in 1 .. Len(z) : (y \o z)[Len(y) + i] = z[i]
    BY <1>3, <1>6, ConcatFacts
  <2> QED  BY <1>3, <1>6, <2>1
<1> HIDE DEF u
<1>8. /\ u \o v \in Seq(Int) /\ Len(u \o v) = 4 + k + n + 2
      /\ \A i \in 1 .. 4 + k + n : (u \o v)[i] = u[i]
      /\ \A i \in 1 .. 2 : (u \o v)[4 + k + n + i] = v[i]
  <2>1. /\ u \o v \in Seq(Int) /\ Len(u \o v) = Len(u) + Len(v)
        /\ \A i \in 1 .. Len(u) : (u \o v)[i] = u[i]
        /\ \A i \in 1 .. Len(v) : (u \o v)[Len(u) + i] = v[i]
    BY <1>4, <1>7, ConcatFacts
  <2> QED  BY <1>4, <1>7, <2>1
<1>9. \A i \in 1 .. 4 : i \in 1 .. 4 + k /\ i \in 1 .. 4 + k + n
  BY <1>2
<1>10. \A i \in 1 .. 4 : b[i] = f[i]
  <2> TAKE i \in 1 .. 4
  <2>1. i \in 1 .. 4 + k /\ i \in 1 .. 4 + k + n
    BY <1>9
  <2>2. y[i] = f[i] /\ u[i] = y[i]
    BY <1>6, <1>7, <2>1
  <2>3. (u \o v)[i] = u[i]
    BY <1>8, <2>1
  <2> QED  BY <1>5, <2>2, <2>3
<1>11. type = 3 => b[5] = AddressLength + 1
  <2> SUFFICES ASSUME type = 3 PROVE b[5] = AddressLength + 1
    OBVIOUS
  <2>1. k = 1 /\ 5 \in 1 .. 4 + k /\ 5 \in 1 .. 4 + k + n /\ 4 + 1 = 5
    BY <1>2
  <2>2. y[4 + 1] = m[1] /\ m[1] = AddressLength + 1
    BY <1>2, <1>6, <2>1
  <2> QED  BY <1>5, <1>7, <1>8, <2>1, <2>2
<1>12. \A i \in 1 .. 4 + k + n + 2 : b[i] \in Nat
  <2> TAKE i \in 1 .. 4 + k + n + 2
  <2>1. CASE i \in 1 .. 4
    BY <1>1, <1>10, <2>1
  <2>2. CASE i = 5 /\ k = 1
    BY <1>2, <1>11, <2>2
  <2>3. CASE i \in 4 + k + 1 .. 4 + k + n
    <3>1. /\ i - (4 + k) \in 1 .. n /\ 4 + k + (i - (4 + k)) = i
          /\ i \in 1 .. 4 + k + n
      BY <1>2, <2>3
    <3>2. b[i] = u[i] /\ u[i] = z[i - (4 + k)]
      BY <1>5, <1>7, <1>8, <3>1
    <3>3. z[i - (4 + k)] = 0
      BY <1>3, <3>1
    <3>4. b[i] = 0
      BY <3>2, <3>3
    <3>5. 0 \in Nat
      OBVIOUS
    <3> QED  BY <3>4, <3>5, Zenon
  <2>4. CASE i \in 4 + k + n + 1 .. 4 + k + n + 2
    <3>1. i - (4 + k + n) \in 1 .. 2 /\ 4 + k + n + (i - (4 + k + n)) = i
      BY <1>2, <2>4
    <3>2. b[i] = v[i - (4 + k + n)]
      BY <1>5, <1>8, <3>1
    <3>3. v[i - (4 + k + n)] = 0
      BY <1>4, <3>1
    <3>4. b[i] = 0
      BY <3>2, <3>3
    <3>5. 0 \in Nat
      OBVIOUS
    <3> QED  BY <3>4, <3>5, Zenon
  <2>5. i \in 1 .. 4 \/ (i = 5 /\ k = 1) \/ i \in 4 + k + 1 .. 4 + k + n
          \/ i \in 4 + k + n + 1 .. 4 + k + n + 2
    BY <1>2
  <2> QED  BY <2>1, <2>2, <2>3, <2>4, <2>5
<1>13. b[2] = code /\ b[4] = type
  BY <1>1, <1>10
<1> QED  BY <1>2, <1>5, <1>8, <1>11, <1>12, <1>13

(* Each reply, as it sets out.                                                  *)
LEMMA AnswerConnectFacts ==
  ASSUME TunnelTyped, RouteInv, AnswerConnect
  PROVE  /\ tunnel_phase = "connect" /\ tunnel_phase' = "header"
         /\ UNCHANGED <<target, proxy, relayed, skipped, asked>>
         /\ relayed = 0 /\ skipped = 0 /\ replied' \in BOOLEAN
         /\ given' = (proxy.credentials # "none")
         /\ heard' = <<>> /\ incoming' \in Seq(Int)
         /\ \E h \in 1 .. Len(incoming') : HeaderAhead(h)'
<1>1. PICK length \in Nat \ {0}, status \in {200, 407} :
        /\ Answer("connect", <<status>> \o Zeros(length - 1) \o <<BlankLine>>)
        /\ replied' = (status = 200)
  BY TunnelAssumption DEF AnswerConnect
<1>2. /\ tunnel_phase = "connect" /\ tunnel_phase' = "header"
      /\ UNCHANGED <<target, proxy, relayed, skipped, asked>>
      /\ incoming' = <<status>> \o Zeros(length - 1) \o <<BlankLine>> /\ heard' = <<>>
      /\ given' = (proxy.credentials # "none")
  BY <1>1 DEF AnswerConnect, Answer
<1>3. relayed = 0 /\ skipped = 0
  BY <1>2 DEF TunnelTyped, Quiet, TunnelTypeOK
<1>4. length \in Nat \ {0} /\ status \in Nat
  BY <1>1, TunnelAssumption
<1>5. /\ incoming' \in Seq(Int) /\ Len(incoming') = length + 1 /\ incoming'[1] = status
      /\ incoming'[length + 1] = BlankLine /\ \A i \in 2 .. length : incoming'[i] = 0
      /\ \A i \in 1 .. length + 1 : incoming'[i] \in Nat
  <2>1. PICK rest : rest = length - 1
    OBVIOUS
  <2>2. incoming' = <<status>> \o Zeros(rest) \o <<BlankLine>>
    BY <1>2, <2>1
  <2>3. IsHeader(incoming', length, status)
    BY <1>4, <2>1, <2>2, ConnectReply
  <2> QED  BY <2>3 DEF IsHeader
<1>6. PICK h \in 1 .. Len(incoming') : h = length + 1
  BY <1>4, <1>5
<1>7. Ahead(h)'
  <2>1. h \in Nat /\ Len(incoming') = h + (relayed' - skipped')
    BY <1>2, <1>3, <1>4, <1>5, <1>6
  <2>2. \A i \in h + 1 .. Len(incoming') : incoming'[i] = h - (skipped' + i)
    BY <1>5, <1>6
  <2>3. \A i \in 1 .. h : incoming'[i] \in Nat
    BY <1>5, <1>6
  <2> QED  BY <2>1, <2>2, <2>3 DEF Ahead
<1>8. \A i \in 1 .. h - 1 : incoming'[i] # BlankLine
  <2> TAKE i \in 1 .. h - 1
  <2>1. i = 1 \/ i \in 2 .. length
    BY <1>4, <1>6
  <2> QED  BY <1>1, <1>5, <2>1 DEF BlankLine
<1>9. (IF heard' = <<>> THEN incoming'[1] ELSE heard'[1]) = 200 => replied'
  BY <1>1, <1>2, <1>5
<1>10. \A i \in 1 .. Len(heard') : heard'[i] # BlankLine
  BY <1>2
<1>11. HeaderAhead(h)'
  BY <1>5, <1>6, <1>7, <1>8, <1>9, <1>10 DEF HeaderAhead
<1>12. replied' \in BOOLEAN
  BY <1>1
<1> QED  BY <1>2, <1>3, <1>5, <1>11, <1>12

LEMMA AnswerRequestFacts ==
  ASSUME TunnelTyped, RouteInv, AnswerRequest
  PROVE  /\ tunnel_phase = "request" /\ tunnel_phase' = "reply"
         /\ UNCHANGED <<target, proxy, relayed, skipped, asked, given>>
         /\ relayed = 0 /\ skipped = 0 /\ replied' \in BOOLEAN
         /\ heard' = <<>> /\ incoming' \in Seq(Int)
         /\ \E h \in 1 .. Len(incoming') : SocksAhead(h)'
<1>1. PICK code \in {0, 5}, type \in {1, 2, 3} :
        /\ Answer("request",
             <<5, code, 0, type>> \o (IF type = 3 THEN <<AddressLength + 1>> ELSE <<>>)
               \o Zeros(IF type = 3 THEN AddressLength + 1 ELSE AddressLength) \o Zeros(2))
        /\ replied' = (code = 0 /\ type # 2)
  BY DEF AnswerRequest
<1>2. /\ tunnel_phase = "request" /\ tunnel_phase' = "reply"
      /\ UNCHANGED <<target, proxy, relayed, skipped, asked, given>>
      /\ incoming' =
             <<5, code, 0, type>> \o (IF type = 3 THEN <<AddressLength + 1>> ELSE <<>>)
               \o Zeros(IF type = 3 THEN AddressLength + 1 ELSE AddressLength) \o Zeros(2)
      /\ heard' = <<>>
  BY <1>1 DEF AnswerRequest, Answer
<1>3. relayed = 0 /\ skipped = 0
  BY <1>2 DEF TunnelTyped, Quiet, TunnelTypeOK
<1>4. AddressLength \in Nat /\ code \in Nat
  BY TunnelAssumption
<1>5. /\ incoming' \in Seq(Int)
      /\ Len(incoming') = IF type = 3 THEN AddressLength + 8 ELSE AddressLength + 6
      /\ incoming'[2] = code /\ incoming'[4] = type
      /\ type = 3 => incoming'[5] = AddressLength + 1
      /\ \A i \in 1 .. Len(incoming') : incoming'[i] \in Nat
  <2>1. \A b : b = <<5, code, 0, type>> \o (IF type = 3 THEN <<AddressLength + 1>> ELSE <<>>)
                     \o Zeros(IF type = 3 THEN AddressLength + 1 ELSE AddressLength)
                     \o Zeros(2) =>
          /\ b \in Seq(Int)
          /\ Len(b) = IF type = 3 THEN AddressLength + 8 ELSE AddressLength + 6
          /\ b[2] = code /\ b[4] = type
          /\ type = 3 => b[5] = AddressLength + 1
          /\ \A i \in 1 .. Len(b) : b[i] \in Nat
    BY <1>1, <1>4, SocksReply, ZenonT(30)
  <2> QED  BY <1>2, <2>1
<1>6. PICK h \in 1 .. Len(incoming') :
        h = (IF type = 3 THEN AddressLength + 8 ELSE AddressLength + 6) /\ h = Len(incoming')
  <2>1. CASE type = 3
    BY <1>4, <1>5, <2>1
  <2>2. CASE type # 3
    BY <1>4, <1>5, <2>2
  <2> QED  BY <2>1, <2>2
<1>7. Ahead(h)'
  <2>1. h \in Nat /\ Len(incoming') = h + (relayed' - skipped')
    BY <1>2, <1>3, <1>4, <1>6
  <2>2. \A i \in h + 1 .. Len(incoming') : incoming'[i] = h - (skipped' + i)
    BY <1>6
  <2>3. \A i \in 1 .. h : incoming'[i] \in Nat
    BY <1>5, <1>6
  <2> QED  BY <2>1, <2>2, <2>3 DEF Ahead
<1>8. /\ h >= 4
      /\ incoming'[4] = 1 => h = AddressLength + 6
      /\ incoming'[4] = 3 => h = AddressLength + 8
  BY <1>4, <1>5, <1>6
<1>9. /\ incoming'[2] = 0 /\ incoming'[4] # 2 => replied'
      /\ incoming'[4] = 3 => incoming'[5] = AddressLength + 1
  BY <1>1, <1>5
<1>10. SocksAhead(h)'
  BY <1>2, <1>7, <1>8, <1>9 DEF SocksAhead
<1>11. replied' \in BOOLEAN
  BY <1>1
<1> QED  BY <1>2, <1>3, <1>5, <1>10, <1>11

(* One round of reading the reply to CONNECT.                                   *)
LEMMA ReadHeaderFacts ==
  ASSUME TunnelTyped, RouteInv, ReplyInv, ReadHeader
  PROVE  /\ tunnel_phase = "header"
         /\ UNCHANGED <<target, proxy, relayed, replied, asked, given>>
         /\ incoming' \in Seq(Int) /\ heard' \in Seq(Int) /\ skipped' \in 0 .. relayed
         /\ Len(heard') <= HeaderLimit
         /\ \/ tunnel_phase' = "refused"
            \/ tunnel_phase' = "open" /\ replied /\ Ahead(0)'
            \/ /\ tunnel_phase' = "header" /\ skipped' = 0
               /\ \E h \in 1 .. Len(incoming') : HeaderAhead(h)'
<1>0. PICK count \in ReadSizes :
        /\ count <= Len(incoming)
        /\ incoming' = SubSeq(incoming, count + 1, Len(incoming))
        /\ IF Len(heard) + count > HeaderLimit
           THEN tunnel_phase' = "refused" /\ UNCHANGED heard
           ELSE /\ heard' = heard \o SubSeq(incoming, 1, count)
                /\ tunnel_phase' = IF BlankLine \notin Range(heard') THEN "header"
                                   ELSE IF heard'[1] = 200 THEN "open" ELSE "refused"
        /\ skipped' = skipped + OfTarget(SubSeq(incoming, 1, count))
  BY DEF ReadHeader
<1>1. /\ tunnel_phase = "header"
      /\ UNCHANGED <<target, proxy, relayed, replied, asked, given>>
  BY DEF ReadHeader
<1>2. count \in Nat /\ count >= 1
  BY TunnelAssumption
<1>3. /\ incoming \in Seq(Int) /\ Len(incoming) \in Nat /\ heard \in Seq(Int) /\ Len(heard) \in Nat
      /\ relayed \in Nat /\ HeaderLimit \in Nat
  BY TunnelFacts
<1>4. skipped = 0
  BY <1>1 DEF ReplyInv
<1>5. PICK h \in 1 .. Len(incoming) : HeaderAhead(h)
  BY <1>1 DEF ReplyInv
<1>6. h \in Nat /\ h >= 1 /\ Ahead(h)
  BY <1>3, <1>5 DEF HeaderAhead
<1>7. /\ incoming' \in Seq(Int) /\ Len(incoming') = Len(incoming) - count
      /\ \A i \in 1 .. Len(incoming) - count : incoming'[i] = incoming[count + i]
      /\ skipped' \in 0 .. relayed
      /\ count <= h => skipped' = 0 /\ \A m : m = h - count => Ahead(m)'
      /\ h <= count => Ahead(0)'
  BY <1>0, <1>1, <1>2, <1>4, <1>6, AheadAfterRead
<1>8. CASE Len(heard) + count > HeaderLimit
  <2>1. tunnel_phase' = "refused" /\ heard' = heard
    BY <1>0, <1>8
  <2>2. Len(heard) <= HeaderLimit
    BY <1>1 DEF TunnelTyped, TunnelTypeOK, RouteInv
  <2> QED  BY <1>1, <1>3, <1>7, <2>1, <2>2
<1>9. CASE ~(Len(heard) + count > HeaderLimit)
  <2>1. /\ heard' = heard \o SubSeq(incoming, 1, count)
        /\ tunnel_phase' = IF BlankLine \notin Range(heard') THEN "header"
                           ELSE IF heard'[1] = 200 THEN "open" ELSE "refused"
    BY <1>0, <1>9
  <2>2. /\ heard' \in Seq(Int) /\ Len(heard') = Len(heard) + count
        /\ \A i \in 1 .. Len(heard) : heard'[i] = heard[i]
        /\ \A i \in 1 .. count : heard'[Len(heard) + i] = incoming[i]
    BY <1>0, <1>2, <2>1, HearFacts
  <2>3. Len(heard') <= HeaderLimit /\ Len(heard') >= 1
    BY <1>2, <1>3, <1>9, <2>2
  <2>4. \A x : x \in Range(heard') <=> \E i \in 1 .. Len(heard') : heard'[i] = x
    <3>1. DOMAIN heard' = 1 .. Len(heard')
      BY <2>2
    <3> QED  BY <3>1 DEF Range
  <2>5. heard'[1] = 200 => replied
    <3>1. CASE heard = <<>>
      <4>1. Len(heard) = 0
        BY <3>1
      <4>2. 1 \in 1 .. count /\ 0 + 1 = 1
        BY <1>2
      <4>3. heard'[1] = incoming[1]
        BY <2>2, <4>1, <4>2
      <4> QED  BY <1>5, <3>1, <4>3 DEF HeaderAhead
    <3>2. CASE heard # <<>>
      <4>1. 1 \in 1 .. Len(heard)
        BY <1>3, <3>2
      <4>2. heard'[1] = heard[1]
        BY <2>2, <4>1
      <4> QED  BY <1>5, <3>2, <4>2 DEF HeaderAhead
    <3> QED  BY <3>1, <3>2
  <2>6. CASE BlankLine \in Range(heard')
    <3>1. h <= count
      <4>1. PICK i \in 1 .. Len(heard') : heard'[i] = BlankLine
        BY <2>4, <2>6
      <4>2. i \notin 1 .. Len(heard)
        BY <1>5, <2>2, <4>1 DEF HeaderAhead
      <4>3. PICK j \in 1 .. count : i = Len(heard) + j
        <5>1. i \in Nat /\ i >= 1 /\ i <= Len(heard) + count
          BY <1>2, <1>3, <2>2, <4>1
        <5>2. i > Len(heard)
          BY <1>3, <4>2, <5>1
        <5>3. i - Len(heard) \in 1 .. count /\ i = Len(heard) + (i - Len(heard))
          BY <1>2, <1>3, <5>1, <5>2
        <5> QED  BY <5>3
      <4>4. incoming[j] = BlankLine
        BY <2>2, <4>1, <4>3
      <4>5. j \notin 1 .. h - 1
        BY <1>5, <4>4 DEF HeaderAhead
      <4>6. h <= j
        BY <1>2, <1>6, <4>3, <4>5
      <4> QED  BY <1>2, <1>6, <4>3, <4>6
    <3>2. Ahead(0)'
      BY <1>7, <3>1
    <3> QED  BY <1>1, <1>7, <2>1, <2>2, <2>3, <2>5, <2>6, <3>2
  <2>7. CASE BlankLine \notin Range(heard')
    <3>1. count < h
      <4> SUFFICES ASSUME ~(count < h) PROVE FALSE
        OBVIOUS
      <4>1. h \in 1 .. count /\ Len(heard) + h \in 1 .. Len(heard')
        BY <1>2, <1>3, <1>6, <2>2
      <4>2. heard'[Len(heard) + h] = BlankLine
        BY <1>5, <2>2, <4>1 DEF HeaderAhead
      <4> QED  BY <2>4, <2>7, <4>1, <4>2
    <3>2. PICK m \in 1 .. Len(incoming') : m = h - count
      BY <1>0, <1>2, <1>3, <1>6, <1>7, <3>1
    <3>3. Ahead(m)' /\ skipped' = 0
      BY <1>2, <1>6, <1>7, <3>1, <3>2
    <3>4. incoming'[m] = BlankLine
      <4>1. m \in 1 .. Len(incoming) - count /\ count + m = h
        BY <1>2, <1>3, <1>6, <1>7, <3>2
      <4>2. incoming'[m] = incoming[count + m]
        BY <1>7, <4>1
      <4> QED  BY <1>5, <4>1, <4>2 DEF HeaderAhead
    <3>5. \A i \in 1 .. m - 1 : incoming'[i] # BlankLine
      <4> TAKE i \in 1 .. m - 1
      <4>1. i \in 1 .. Len(incoming) - count /\ count + i \in 1 .. h - 1
        BY <1>2, <1>3, <1>6, <1>7, <3>2
      <4>2. incoming'[i] = incoming[count + i]
        BY <1>7, <4>1
      <4> QED  BY <1>5, <4>1, <4>2 DEF HeaderAhead
    <3>6. \A i \in 1 .. Len(heard') : heard'[i] # BlankLine
      BY <2>4, <2>7
    <3>7. (IF heard' = <<>> THEN incoming'[1] ELSE heard'[1]) = 200 => replied'
      <4>1. heard' # <<>>
        BY <2>3
      <4> QED  BY <1>1, <2>5, <4>1
    <3>8. m >= 1
      OBVIOUS
    <3>9. HeaderAhead(m)'
      BY <3>3, <3>4, <3>5, <3>6, <3>7, <3>8 DEF HeaderAhead
    <3> QED  BY <1>1, <1>7, <2>1, <2>2, <2>3, <2>7, <3>3, <3>9
  <2> QED  BY <2>6, <2>7
<1> QED  BY <1>8, <1>9

(* A SOCKS reply that is read exactly.                                          *)
LEMMA ReadSocksFacts ==
  ASSUME TunnelTyped, skipped = 0, NEW h \in Nat, Ahead(h), NEW n \in Nat, n <= h, ReadExactly(n)
  PROVE  /\ UNCHANGED <<target, proxy, relayed, replied>>
         /\ incoming' \in Seq(Int) /\ heard' \in Seq(Int) /\ skipped' = 0
         /\ \A m : m = h - n => Ahead(m)' /\ m \in 0 .. Len(incoming')
         /\ \A i \in 1 .. Len(incoming) - n : incoming'[i] = incoming[n + i]
         /\ Len(heard') = Len(heard) + n
         /\ \A i \in 1 .. Len(heard) : heard'[i] = heard[i]
         /\ \A i \in 1 .. n : heard'[Len(heard) + i] = incoming[i]
<1>1. /\ UNCHANGED <<target, proxy, relayed, replied>>
      /\ n <= Len(incoming)
      /\ incoming' = SubSeq(incoming, n + 1, Len(incoming))
      /\ heard' = heard \o SubSeq(incoming, 1, n)
      /\ skipped' = skipped + OfTarget(SubSeq(incoming, 1, n))
  <2>1. Len(incoming) \in Nat /\ Len(incoming) >= n
    BY TunnelFacts DEF ReadExactly
  <2> QED  BY <2>1 DEF ReadExactly
<1>2. /\ incoming' \in Seq(Int) /\ Len(incoming') = Len(incoming) - n
      /\ \A i \in 1 .. Len(incoming) - n : incoming'[i] = incoming[n + i]
      /\ skipped' = 0 /\ \A m : m = h - n => Ahead(m)'
  BY <1>1, AheadAfterRead
<1>3. /\ heard' \in Seq(Int) /\ Len(heard') = Len(heard) + n
      /\ \A i \in 1 .. Len(heard) : heard'[i] = heard[i]
      /\ \A i \in 1 .. n : heard'[Len(heard) + i] = incoming[i]
  BY <1>1, HearFacts
<1>4. \A m : m = h - n => m \in 0 .. Len(incoming')
  <2>1. Len(incoming) \in Nat /\ h <= Len(incoming)
    BY TunnelFacts DEF Ahead
  <2> QED  BY <1>2, <2>1
<1> QED  BY <1>1, <1>2, <1>3, <1>4

(* The invariant, action by action.                                            *)
LEMMA TunnelStart == TunnelInit => TunnelInv
<1> SUFFICES ASSUME TunnelInit PROVE TunnelInv
  OBVIOUS
<1>1. /\ tunnel_phase = "idle" /\ target = Nowhere /\ proxy = NoRoute
      /\ incoming = <<>> /\ heard = <<>> /\ relayed = 0 /\ skipped = 0
      /\ replied = FALSE /\ asked = FALSE /\ given = FALSE
  BY DEF TunnelInit
<1>2. TargetBytes \in Nat /\ HeaderLimit \in Nat /\ <<>> \in Seq(Int) /\ Len(<<>>) = 0
  BY TunnelAssumption
<1>3. TunnelTypeOK
  <2>1. relayed \in 0 .. TargetBytes /\ skipped \in 0 .. relayed
    BY <1>1, <1>2
  <2>2. Len(heard) <= HeaderLimit
    BY <1>1, <1>2
  <2> QED  BY <1>1, <2>1, <2>2 DEF TunnelTypeOK
<1>4. TunnelTyped
  BY <1>1, <1>2, <1>3 DEF TunnelTyped, TwoBytes
<1>5. RouteInv
  BY <1>1 DEF RouteInv
<1>6. ReplyInv
  BY <1>1 DEF ReplyInv
<1> QED  BY <1>4, <1>5, <1>6 DEF TunnelInv

LEMMA ChooseRouteStep ==
  ASSUME TunnelInv, NEW t \in Targets, NEW p \in Proxies, ChooseRoute(t, p)
  PROVE  TunnelInv'
<1>1. /\ tunnel_phase = "idle" /\ target' = t /\ proxy' = p
      /\ UNCHANGED <<incoming, heard, relayed, skipped, replied, asked, given>>
      /\ tunnel_phase' =
           IF p.scheme = "none" \/ Bypasses(t, p.rules) THEN "direct"
           ELSE CASE p.scheme = "http" -> "connect"
                  [] p.scheme = "socks5" -> IF p.credentials = "too long"
                                            THEN "refused" ELSE "greeting"
                  [] OTHER -> "refused"
  BY DEF ChooseRoute
<1>2. /\ tunnel_phase' \in {"direct", "connect", "greeting", "refused"}
      /\ tunnel_phase' = "connect" => p.scheme = "http"
      /\ tunnel_phase' = "greeting" => p.scheme = "socks5"
      /\ tunnel_phase' # "direct" => ~Bypasses(t, p.rules)
  BY <1>1
<1>3. /\ TunnelTyped /\ heard = <<>> /\ incoming = <<>> /\ ~replied /\ relayed = 0 /\ ~given
  BY <1>1 DEF TunnelInv, TunnelTyped, RouteInv, Quiet
<1>4. TunnelTyped'
  <2>0. HeaderLimit \in Nat
    BY <1>3, TunnelFacts
  <2>h. heard' = <<>>
    BY <1>1, <1>3
  <2>1. Len(heard') <= HeaderLimit
    BY <2>0, <2>h
  <2>2. TunnelTypeOK'
    BY <1>1, <1>2, <1>3, <2>1 DEF TunnelTyped, TunnelTypeOK, Ended
  <2> QED  BY <1>1, <1>2, <1>3, <2>2 DEF TunnelTyped, TwoBytes, Quiet
<1>5. RouteInv'
  <2>1. ~given'
    BY <1>1, <1>3
  <2>2. tunnel_phase' \notin {"idle", "direct"} => ~Bypasses(target, proxy.rules)'
    BY <1>1, <1>2 DEF Bypasses
  <2> QED  BY <1>1, <1>2, <2>1, <2>2 DEF RouteInv
<1>6. ReplyInv'
  BY <1>2 DEF ReplyInv
<1> QED  BY <1>4, <1>5, <1>6 DEF TunnelInv

LEMMA LoseProxyStep ==
  ASSUME TunnelInv, LoseProxy
  PROVE  TunnelInv'
<1>1. /\ tunnel_phase \notin Ended \cup {"idle"} /\ tunnel_phase' = "refused"
      /\ UNCHANGED <<target, proxy, incoming, heard, relayed, skipped, replied, asked, given>>
  BY DEF LoseProxy
<1>2. TunnelTyped'
  BY <1>1 DEF TunnelInv, TunnelTyped, TunnelTypeOK, TwoBytes, Quiet, Ended
<1>3. RouteInv'
  <2>1. ~Bypasses(target, proxy.rules)
    BY <1>1 DEF TunnelInv, RouteInv, Ended
  <2>2. ~Bypasses(target, proxy.rules)'
    BY <1>1, <2>1 DEF Bypasses
  <2> QED  BY <1>1, <2>2 DEF TunnelInv, RouteInv
<1>4. ReplyInv'
  BY <1>1 DEF ReplyInv
<1> QED  BY <1>2, <1>3, <1>4 DEF TunnelInv

LEMMA RelayTargetStep ==
  ASSUME TunnelInv, RelayTarget
  PROVE  TunnelInv'
<1>1. /\ replied /\ relayed < TargetBytes /\ tunnel_phase # "refused"
      /\ incoming' = Append(incoming, -(relayed + 1)) /\ relayed' = relayed + 1
      /\ UNCHANGED <<tunnel_phase, target, proxy, heard, skipped, replied, asked, given>>
  BY DEF RelayTarget
<1>2. TunnelTyped /\ RouteInv /\ ReplyInv /\ tunnel_phase \notin Quiet \cup TwoBytes
  BY <1>1 DEF TunnelInv, TunnelTyped
<1>3. /\ incoming \in Seq(Int) /\ Len(incoming) \in Nat /\ relayed \in Nat /\ skipped \in Nat
      /\ skipped <= relayed /\ TargetBytes \in Nat
  BY <1>2, TunnelFacts
<1>4. TunnelTyped'
  <2>1. incoming' \in Seq(Int)
    BY <1>1, <1>3
  <2>2. relayed' \in 0 .. TargetBytes /\ skipped' \in 0 .. relayed'
    BY <1>1, <1>3
  <2>3. TunnelTypeOK'
    BY <1>1, <1>2, <2>2 DEF TunnelTyped, TunnelTypeOK
  <2> QED  BY <1>1, <1>2, <2>1, <2>3 DEF TunnelTyped, Quiet
<1>5. RouteInv'
  <2>1. tunnel_phase' \notin {"idle", "direct", "method"}
    BY <1>1, <1>2 DEF Quiet, TwoBytes
  <2>2. ~Bypasses(target, proxy.rules)'
    BY <1>1, <1>2, <2>1 DEF RouteInv, Bypasses
  <2> QED  BY <1>1, <1>2, <2>1, <2>2 DEF RouteInv
<1>6. ReplyInv'
  <2>1. CASE tunnel_phase = "header"
    <3>1. skipped = 0
      BY <1>2, <2>1 DEF ReplyInv
    <3>2. PICK h \in 1 .. Len(incoming) : HeaderAhead(h)
      BY <1>2, <2>1 DEF ReplyInv
    <3>3. /\ Ahead(h)' /\ \A i \in 1 .. h : incoming'[i] = incoming[i]
          /\ h \in 1 .. Len(incoming')
      <4>1. Ahead(h)
        BY <3>2 DEF HeaderAhead
      <4>2. /\ Ahead(h)' /\ \A i \in 1 .. h : incoming'[i] = incoming[i]
            /\ Len(incoming') = Len(incoming) + 1
        BY <1>2, <4>1, AheadAfterRelay
      <4>3. h \in 1 .. Len(incoming')
        BY <1>3, <4>2
      <4> QED  BY <4>2, <4>3
    <3>4. 1 \in 1 .. h /\ h \in 1 .. h /\ \A i \in 1 .. h - 1 : i \in 1 .. h
      BY <1>3
    <3>5. HeaderAhead(h)'
      BY <1>1, <3>2, <3>3, <3>4 DEF HeaderAhead
    <3> QED  BY <1>1, <2>1, <3>1, <3>3, <3>5 DEF ReplyInv
  <2>2. CASE tunnel_phase \in {"reply", "length", "address"}
    <3>1. skipped = 0
      BY <1>2, <2>2 DEF ReplyInv
    <3>2. PICK h \in 1 .. Len(incoming) : SocksAhead(h)
      BY <1>2, <2>2 DEF ReplyInv
    <3>3. /\ Ahead(h)' /\ \A i \in 1 .. h : incoming'[i] = incoming[i]
          /\ h \in 1 .. Len(incoming')
      <4>1. Ahead(h)
        BY <3>2 DEF SocksAhead
      <4>2. /\ Ahead(h)' /\ \A i \in 1 .. h : incoming'[i] = incoming[i]
            /\ Len(incoming') = Len(incoming) + 1
        BY <1>2, <4>1, AheadAfterRelay
      <4>3. h \in 1 .. Len(incoming')
        BY <1>3, <4>2
      <4> QED  BY <4>2, <4>3
    <3>4. SocksAhead(h)'
      <4>1. CASE tunnel_phase = "reply"
        <5>1. /\ heard = <<>> /\ h >= 4
              /\ incoming[2] = 0 /\ incoming[4] # 2 => replied
              /\ incoming[4] = 1 => h = AddressLength + 6
              /\ incoming[4] = 3 => h = AddressLength + 8 /\ incoming[5] = AddressLength + 1
          BY <3>2, <4>1 DEF SocksAhead
        <5>2. 2 \in 1 .. h /\ 4 \in 1 .. h
          BY <1>3, <5>1
        <5>3. incoming'[4] = 3 => 5 \in 1 .. h
          <6>1. AddressLength \in Nat
            BY <1>2, TunnelFacts
          <6> QED  BY <3>3, <5>1, <5>2, <6>1
        <5> QED  BY <1>1, <3>3, <4>1, <5>1, <5>2, <5>3 DEF SocksAhead
      <4>2. CASE tunnel_phase = "length"
        <5>1. 1 \in 1 .. h
          BY <1>3
        <5> QED  BY <1>1, <3>2, <3>3, <4>2, <5>1 DEF SocksAhead
      <4>3. CASE tunnel_phase = "address"
        BY <1>1, <3>2, <3>3, <4>3 DEF SocksAhead, AddressSize
      <4> QED  BY <2>2, <4>1, <4>2, <4>3
    <3> QED  BY <1>1, <2>2, <3>1, <3>3, <3>4 DEF ReplyInv
  <2>3. CASE tunnel_phase = "open"
    <3>1. Ahead(0)'
      BY <1>2, <2>3, AheadAfterRelay DEF ReplyInv
    <3> QED  BY <1>1, <1>2, <2>3, <3>1 DEF ReplyInv
  <2>4. CASE tunnel_phase \notin {"header", "reply", "length", "address", "open"}
    BY <1>1, <2>4 DEF ReplyInv
  <2> QED  BY <2>1, <2>2, <2>3, <2>4
<1> QED  BY <1>4, <1>5, <1>6 DEF TunnelInv

LEMMA AnswerConnectStep ==
  ASSUME TunnelInv, AnswerConnect
  PROVE  TunnelInv'
<1>0. TunnelTyped /\ RouteInv
  BY DEF TunnelInv
<1>1. /\ tunnel_phase = "connect" /\ tunnel_phase' = "header"
      /\ UNCHANGED <<target, proxy, relayed, skipped, asked>>
      /\ relayed = 0 /\ skipped = 0 /\ replied' \in BOOLEAN
      /\ given' = (proxy.credentials # "none")
      /\ heard' = <<>> /\ incoming' \in Seq(Int)
      /\ \E h \in 1 .. Len(incoming') : HeaderAhead(h)'
  BY <1>0, AnswerConnectFacts
<1>2. TunnelTyped'
  <2>1. Len(heard') <= HeaderLimit /\ heard' \in Seq(Int)
    BY <1>0, <1>1, TunnelFacts
  <2>2. given' \in BOOLEAN
    BY <1>1
  <2>3. TunnelTypeOK'
    BY <1>0, <1>1, <2>1, <2>2 DEF TunnelTyped, TunnelTypeOK
  <2> QED  BY <1>1, <2>1, <2>3 DEF TunnelTyped, TwoBytes, Quiet
<1>3. RouteInv'
  <2>1. proxy.scheme = "http" /\ ~Bypasses(target, proxy.rules)
    BY <1>0, <1>1 DEF RouteInv
  <2>2. ~Bypasses(target, proxy.rules)'
    BY <1>1, <2>1 DEF Bypasses
  <2> QED  BY <1>1, <2>1, <2>2 DEF RouteInv
<1>4. ReplyInv'
  BY <1>1 DEF ReplyInv
<1> QED  BY <1>2, <1>3, <1>4 DEF TunnelInv

LEMMA ReadHeaderStep ==
  ASSUME TunnelInv, ReadHeader
  PROVE  TunnelInv'
<1>0. TunnelTyped /\ RouteInv /\ ReplyInv
  BY DEF TunnelInv
<1>1. /\ tunnel_phase = "header"
      /\ UNCHANGED <<target, proxy, relayed, replied, asked, given>>
      /\ incoming' \in Seq(Int) /\ heard' \in Seq(Int) /\ skipped' \in 0 .. relayed
      /\ Len(heard') <= HeaderLimit
      /\ \/ tunnel_phase' = "refused"
         \/ tunnel_phase' = "open" /\ replied /\ Ahead(0)'
         \/ /\ tunnel_phase' = "header" /\ skipped' = 0
            /\ \E h \in 1 .. Len(incoming') : HeaderAhead(h)'
  BY <1>0, ReadHeaderFacts
<1>p. tunnel_phase' \in {"refused", "open", "header"}
  BY <1>1
<1>2. TunnelTyped'
  <2>3. TunnelTypeOK'
    BY <1>0, <1>1, <1>p DEF TunnelTyped, TunnelTypeOK, Ended
  <2> QED  BY <1>1, <1>p, <2>3 DEF TunnelTyped, TwoBytes, Quiet
<1>r. proxy.scheme = "http" /\ ~Bypasses(target, proxy.rules)
  BY <1>0, <1>1 DEF RouteInv
<1>3. RouteInv'
  <2>2. ~Bypasses(target, proxy.rules)'
    BY <1>1, <1>r DEF Bypasses
  <2> QED  BY <1>0, <1>1, <1>p, <1>r, <2>2 DEF RouteInv
<1>4. ReplyInv'
  BY <1>1, <1>r DEF ReplyInv
<1> QED  BY <1>2, <1>3, <1>4 DEF TunnelInv

LEMMA AnswerGreetingStep ==
  ASSUME TunnelInv, AnswerGreeting
  PROVE  TunnelInv'
<1>0. TunnelTyped /\ RouteInv
  BY DEF TunnelInv
<1>1. PICK version \in {4, 5}, method \in {0, 1, 2, 255} :
        /\ tunnel_phase = "greeting" /\ incoming' = <<version, method>> /\ heard' = <<>>
        /\ asked' = (method = 2)
  BY DEF AnswerGreeting, Answer
<1>2. /\ tunnel_phase' = "method"
      /\ UNCHANGED <<target, proxy, relayed, skipped, replied, given>>
  BY DEF AnswerGreeting, Answer
<1>3. TunnelTyped'
  <2>1. asked' \in BOOLEAN
    BY <1>1
  <2>2. proxy.scheme = "socks5"
    BY <1>0, <1>1 DEF RouteInv
  <2>3. TunnelTypeOK'
    BY <1>0, <1>2, <2>1, <2>2 DEF TunnelTyped, TunnelTypeOK
  <2>4. /\ incoming' \in Seq(Int) /\ heard' \in Seq(Int) /\ Len(incoming') = 2
        /\ \A i \in 1 .. 2 : incoming'[i] \in Nat
    BY <1>1
  <2>5. ~replied /\ relayed = 0
    BY <1>0, <1>1 DEF TunnelTyped, Quiet
  <2> QED  BY <1>1, <1>2, <2>3, <2>4, <2>5 DEF TunnelTyped, Quiet
<1>4. RouteInv'
  <2>1. proxy.scheme = "socks5" /\ ~Bypasses(target, proxy.rules) /\ ~given
    BY <1>0, <1>1 DEF RouteInv
  <2>2. ~Bypasses(target, proxy.rules)'
    BY <1>2, <2>1 DEF Bypasses
  <2>3. asked' <=> incoming'[2] = 2
    BY <1>1
  <2> QED  BY <1>2, <2>1, <2>2, <2>3 DEF RouteInv
<1>5. ReplyInv'
  BY <1>2 DEF ReplyInv
<1> QED  BY <1>3, <1>4, <1>5 DEF TunnelInv

LEMMA AnswerCredentialsStep ==
  ASSUME TunnelInv, AnswerCredentials
  PROVE  TunnelInv'
<1>0. TunnelTyped /\ RouteInv
  BY DEF TunnelInv
<1>1. PICK status \in {0, 1} :
        /\ tunnel_phase = "credentials" /\ incoming' = <<1, status>> /\ heard' = <<>>
  BY DEF AnswerCredentials, Answer
<1>2. /\ tunnel_phase' = "status"
      /\ UNCHANGED <<target, proxy, relayed, skipped, replied, asked, given>>
  BY DEF AnswerCredentials, Answer
<1>3. TunnelTyped'
  <2>2. proxy.scheme = "socks5"
    BY <1>0, <1>1 DEF RouteInv
  <2>3. TunnelTypeOK'
    BY <1>0, <1>2, <2>2 DEF TunnelTyped, TunnelTypeOK
  <2>4. /\ incoming' \in Seq(Int) /\ heard' \in Seq(Int) /\ Len(incoming') = 2
        /\ \A i \in 1 .. 2 : incoming'[i] \in Nat
    BY <1>1
  <2>5. ~replied /\ relayed = 0
    BY <1>0, <1>1 DEF TunnelTyped, Quiet
  <2> QED  BY <1>1, <1>2, <2>3, <2>4, <2>5 DEF TunnelTyped, Quiet
<1>4. RouteInv'
  <2>1. proxy.scheme = "socks5" /\ ~Bypasses(target, proxy.rules)
    BY <1>0, <1>1 DEF RouteInv
  <2>2. ~Bypasses(target, proxy.rules)'
    BY <1>2, <2>1 DEF Bypasses
  <2> QED  BY <1>0, <1>2, <2>1, <2>2 DEF RouteInv
<1>5. ReplyInv'
  BY <1>2 DEF ReplyInv
<1> QED  BY <1>3, <1>4, <1>5 DEF TunnelInv

(* The two bytes of a SOCKS proxy are read, and nothing is left.                  *)
LEMMA ReadTwoFacts ==
  ASSUME TunnelTyped, tunnel_phase \in TwoBytes, ReadExactly(2)
  PROVE  /\ UNCHANGED <<target, proxy, relayed, replied>>
         /\ incoming' = <<>> /\ heard' \in Seq(Int) /\ skipped' = 0 /\ skipped = 0
         /\ ~replied /\ relayed = 0 /\ heard'[1] = incoming[1] /\ heard'[2] = incoming[2]
<1>1. /\ incoming \in Seq(Int) /\ skipped \in Nat /\ relayed \in Nat /\ skipped <= relayed
  BY TunnelFacts
<1>2. /\ heard = <<>> /\ Len(incoming) = 2 /\ \A i \in 1 .. 2 : incoming[i] \in Nat
      /\ ~replied /\ relayed = 0
  BY DEF TunnelTyped
<1>3. skipped = 0 /\ relayed - skipped = 0
  BY <1>1, <1>2
<1>4. PICK h \in Nat : h = 2
  OBVIOUS
<1>5. Ahead(h)
  <2>1. \A i \in h + 1 .. Len(incoming) : incoming[i] = h - (skipped + i)
    BY <1>2, <1>4
  <2>2. Len(incoming) = h + (relayed - skipped)
    BY <1>2, <1>3, <1>4
  <2> QED  BY <1>2, <1>4, <2>1, <2>2 DEF Ahead
<1>6. /\ UNCHANGED <<target, proxy, relayed, replied>>
      /\ incoming' \in Seq(Int) /\ heard' \in Seq(Int) /\ skipped' = 0
      /\ \A m : m = h - 2 => Ahead(m)' /\ m \in 0 .. Len(incoming')
      /\ \A i \in 1 .. 2 : heard'[Len(heard) + i] = incoming[i]
  BY <1>3, <1>4, <1>5, ReadSocksFacts
<1>7. Len(incoming') = 0
  <2>1. PICK m : m = h - 2
    OBVIOUS
  <2>2. m = 0 /\ Ahead(m)'
    BY <1>4, <1>6, <2>1
  <2>3. Len(incoming') = 0 + (relayed' - skipped')
    BY <2>2 DEF Ahead
  <2> QED  BY <1>2, <1>6, <2>3
<1>8. incoming' = <<>>
  BY <1>6, <1>7
<1>9. /\ Len(heard) = 0 /\ 0 + 1 = 1 /\ 0 + 2 = 2 /\ 1 \in 1 .. 2 /\ 2 \in 1 .. 2
  BY <1>2
<1>10. heard'[1] = incoming[1] /\ heard'[2] = incoming[2]
  BY <1>6, <1>9
<1> QED  BY <1>2, <1>3, <1>6, <1>8, <1>10

LEMMA ReadMethodStep ==
  ASSUME TunnelInv, ReadMethod
  PROVE  TunnelInv'
<1>0. TunnelTyped /\ RouteInv
  BY DEF TunnelInv
<1>1. /\ tunnel_phase = "method" /\ ReadExactly(2)
      /\ tunnel_phase' =
           IF heard'[1] # 5 THEN "refused"
           ELSE IF TakesCredentials(heard'[2]) THEN "credentials"
           ELSE IF heard'[2] = 0 /\ target.fits THEN "request" ELSE "refused"
      /\ given' = (tunnel_phase' = "credentials")
      /\ UNCHANGED asked
  BY DEF ReadMethod
<1>2. /\ UNCHANGED <<target, proxy, relayed, replied>>
      /\ incoming' = <<>> /\ heard' \in Seq(Int) /\ skipped' = 0
      /\ ~replied /\ relayed = 0 /\ heard'[2] = incoming[2]
  BY <1>0, <1>1, ReadTwoFacts DEF TwoBytes
<1>3. /\ tunnel_phase' \in {"refused", "credentials", "request"}
      /\ tunnel_phase' = "credentials" => heard'[2] = 2 /\ proxy.credentials = "short"
  BY <1>1 DEF TakesCredentials
<1>4. proxy.scheme = "socks5" /\ ~Bypasses(target, proxy.rules) /\ (asked <=> incoming[2] = 2)
  BY <1>0, <1>1 DEF RouteInv
<1>5. TunnelTyped'
  <2>1. given' \in BOOLEAN
    BY <1>1
  <2>2. relayed' \in 0 .. TargetBytes /\ skipped' \in 0 .. relayed'
    <3>1. TargetBytes \in Nat
      BY <1>0, TunnelFacts
    <3> QED  BY <1>2, <3>1
  <2>3. TunnelTypeOK'
    BY <1>0, <1>1, <1>2, <1>3, <1>4, <2>1, <2>2 DEF TunnelTyped, TunnelTypeOK, Ended
  <2>4. incoming' \in Seq(Int)
    BY <1>2
  <2> QED  BY <1>2, <1>3, <2>3, <2>4 DEF TunnelTyped, Quiet, TwoBytes
<1>6. RouteInv'
  <2>1. ~Bypasses(target, proxy.rules)'
    BY <1>2, <1>4 DEF Bypasses
  <2>2. given' => tunnel_phase' = "credentials" /\ asked' /\ proxy.credentials = "short"
    BY <1>1, <1>2, <1>3, <1>4
  <2> QED  BY <1>2, <1>3, <1>4, <2>1, <2>2 DEF RouteInv
<1>7. ReplyInv'
  BY <1>3 DEF ReplyInv
<1> QED  BY <1>5, <1>6, <1>7 DEF TunnelInv

LEMMA ReadStatusStep ==
  ASSUME TunnelInv, ReadStatus
  PROVE  TunnelInv'
<1>0. TunnelTyped /\ RouteInv
  BY DEF TunnelInv
<1>1. /\ tunnel_phase = "status" /\ ReadExactly(2)
      /\ tunnel_phase' \in {"request", "refused"}
      /\ UNCHANGED <<asked, given>>
  BY DEF ReadStatus
<1>2. /\ UNCHANGED <<target, proxy, relayed, replied>>
      /\ incoming' = <<>> /\ heard' \in Seq(Int) /\ skipped' = 0
      /\ ~replied /\ relayed = 0
  BY <1>0, <1>1, ReadTwoFacts DEF TwoBytes
<1>4. proxy.scheme = "socks5" /\ ~Bypasses(target, proxy.rules)
  BY <1>0, <1>1 DEF RouteInv
<1>5. TunnelTyped'
  <2>2. relayed' \in 0 .. TargetBytes /\ skipped' \in 0 .. relayed'
    <3>1. TargetBytes \in Nat
      BY <1>0, TunnelFacts
    <3> QED  BY <1>2, <3>1
  <2>3. TunnelTypeOK'
    BY <1>0, <1>1, <1>2, <1>4, <2>2 DEF TunnelTyped, TunnelTypeOK, Ended
  <2>4. incoming' \in Seq(Int)
    BY <1>2
  <2> QED  BY <1>1, <1>2, <2>3, <2>4 DEF TunnelTyped, Quiet, TwoBytes
<1>6. RouteInv'
  <2>1. ~Bypasses(target, proxy.rules)'
    BY <1>2, <1>4 DEF Bypasses
  <2> QED  BY <1>0, <1>1, <1>2, <1>4, <2>1 DEF RouteInv
<1>7. ReplyInv'
  BY <1>1 DEF ReplyInv
<1> QED  BY <1>5, <1>6, <1>7 DEF TunnelInv

LEMMA AnswerRequestStep ==
  ASSUME TunnelInv, AnswerRequest
  PROVE  TunnelInv'
<1>0. TunnelTyped /\ RouteInv
  BY DEF TunnelInv
<1>1. /\ tunnel_phase = "request" /\ tunnel_phase' = "reply"
      /\ UNCHANGED <<target, proxy, relayed, skipped, asked, given>>
      /\ relayed = 0 /\ skipped = 0 /\ replied' \in BOOLEAN
      /\ heard' = <<>> /\ incoming' \in Seq(Int)
      /\ \E h \in 1 .. Len(incoming') : SocksAhead(h)'
  BY <1>0, AnswerRequestFacts
<1>2. proxy.scheme = "socks5" /\ ~Bypasses(target, proxy.rules)
  BY <1>0, <1>1 DEF RouteInv
<1>3. TunnelTyped'
  <2>1. heard' \in Seq(Int)
    BY <1>1
  <2>2. TunnelTypeOK'
    BY <1>0, <1>1, <1>2 DEF TunnelTyped, TunnelTypeOK
  <2> QED  BY <1>1, <2>1, <2>2 DEF TunnelTyped, Quiet, TwoBytes
<1>4. RouteInv'
  <2>1. ~Bypasses(target, proxy.rules)'
    BY <1>1, <1>2 DEF Bypasses
  <2> QED  BY <1>0, <1>1, <1>2, <2>1 DEF RouteInv
<1>5. ReplyInv'
  BY <1>1 DEF ReplyInv
<1> QED  BY <1>3, <1>4, <1>5 DEF TunnelInv

LEMMA ReadReplyStep ==
  ASSUME TunnelInv, ReadReply
  PROVE  TunnelInv'
<1>0. TunnelTyped /\ RouteInv /\ ReplyInv
  BY DEF TunnelInv
<1>1. /\ tunnel_phase = "reply" /\ ReadExactly(4)
      /\ tunnel_phase' =
           IF heard'[1] # 5 \/ heard'[2] # 0 THEN "refused"
           ELSE CASE heard'[4] = 1 -> "address" [] heard'[4] = 3 -> "length"
                  [] OTHER -> "refused"
      /\ UNCHANGED <<asked, given>>
  BY DEF ReadReply
<1>2. skipped = 0
  BY <1>0, <1>1 DEF ReplyInv
<1>3. PICK h \in 1 .. Len(incoming) : SocksAhead(h)
  BY <1>0, <1>1 DEF ReplyInv
<1>4. /\ heard = <<>> /\ h >= 4 /\ h \in Nat /\ Ahead(h)
      /\ incoming[2] = 0 /\ incoming[4] # 2 => replied
      /\ incoming[4] = 1 => h = AddressLength + 6
      /\ incoming[4] = 3 => h = AddressLength + 8 /\ incoming[5] = AddressLength + 1
  BY <1>1, <1>3 DEF SocksAhead
<1>5. /\ UNCHANGED <<target, proxy, relayed, replied>>
      /\ incoming' \in Seq(Int) /\ heard' \in Seq(Int) /\ skipped' = 0
      /\ \A m : m = h - 4 => Ahead(m)' /\ m \in 0 .. Len(incoming')
      /\ \A i \in 1 .. Len(incoming) - 4 : incoming'[i] = incoming[4 + i]
      /\ Len(heard') = Len(heard) + 4
      /\ \A i \in 1 .. 4 : heard'[Len(heard) + i] = incoming[i]
  <2>1. 4 \in Nat /\ 4 <= h
    BY <1>4
  <2> QED  BY <1>0, <1>1, <1>2, <1>4, <2>1, ReadSocksFacts
<1>6. Len(heard') = 4 /\ \A i \in 1 .. 4 : heard'[i] = incoming[i]
  <2>1. Len(heard) = 0 /\ \A i \in 1 .. 4 : 0 + i = i
    BY <1>4
  <2> QED  BY <1>5, <2>1
<1>7. /\ tunnel_phase' \in {"refused", "address", "length"}
      /\ tunnel_phase' = "address" => incoming[2] = 0 /\ incoming[4] = 1
      /\ tunnel_phase' = "length" => incoming[2] = 0 /\ incoming[4] = 3
  BY <1>1, <1>6
<1>8. proxy.scheme = "socks5" /\ ~Bypasses(target, proxy.rules)
  BY <1>0, <1>1 DEF RouteInv
<1>9. TunnelTyped'
  <2>1. relayed' \in 0 .. TargetBytes /\ skipped' \in 0 .. relayed'
    <3>1. relayed \in Nat /\ relayed <= TargetBytes /\ TargetBytes \in Nat
      BY <1>0, TunnelFacts
    <3> QED  BY <1>5, <3>1
  <2>2. TunnelTypeOK'
    BY <1>0, <1>1, <1>5, <1>7, <1>8, <2>1 DEF TunnelTyped, TunnelTypeOK, Ended
  <2> QED  BY <1>5, <1>7, <2>2 DEF TunnelTyped, Quiet, TwoBytes
<1>10. RouteInv'
  <2>1. ~Bypasses(target, proxy.rules)'
    BY <1>5, <1>8 DEF Bypasses
  <2> QED  BY <1>0, <1>1, <1>5, <1>7, <1>8, <2>1 DEF RouteInv
<1>11. ReplyInv'
  <2>0. AddressLength \in Nat
    BY <1>0, TunnelFacts
  <2>1. CASE tunnel_phase' = "address"
    <3>1. replied' /\ heard'[4] = 1 /\ h = AddressLength + 6
      BY <1>4, <1>5, <1>6, <1>7, <2>1
    <3>2. AddressSize(heard') = AddressLength
      BY <3>1 DEF AddressSize
    <3>3. PICK m : m = h - 4
      OBVIOUS
    <3>4. m = AddressLength + 2 /\ m >= 1
      BY <2>0, <3>1, <3>3
    <3>5. Ahead(m)' /\ m \in 0 .. Len(incoming')
      BY <1>5, <3>3
    <3>6. m \in 1 .. Len(incoming')
      BY <1>5, <3>4, <3>5
    <3>7. SocksAhead(m)'
      BY <2>0, <2>1, <3>1, <3>2, <3>4, <3>5 DEF SocksAhead
    <3> QED  BY <1>5, <2>1, <3>6, <3>7 DEF ReplyInv
  <2>2. CASE tunnel_phase' = "length"
    <3>1. /\ replied' /\ heard'[4] = 3 /\ h = AddressLength + 8
          /\ incoming[5] = AddressLength + 1
      BY <1>4, <1>5, <1>6, <1>7, <2>2
    <3>2. incoming'[1] = AddressLength + 1
      <4>1. Len(incoming) \in Nat /\ h <= Len(incoming)
        BY <1>0, <1>4, TunnelFacts
      <4>2. 1 \in 1 .. Len(incoming) - 4 /\ 4 + 1 = 5
        BY <2>0, <3>1, <4>1
      <4> QED  BY <1>5, <3>1, <4>2
    <3>3. PICK m : m = h - 4
      OBVIOUS
    <3>4. m = AddressLength + 4 /\ m >= 1
      BY <2>0, <3>1, <3>3
    <3>5. Ahead(m)' /\ m \in 0 .. Len(incoming')
      BY <1>5, <3>3
    <3>6. m \in 1 .. Len(incoming')
      BY <1>5, <3>4, <3>5
    <3>7. SocksAhead(m)'
      BY <1>6, <2>2, <3>1, <3>2, <3>4, <3>5 DEF SocksAhead
    <3> QED  BY <1>5, <2>2, <3>6, <3>7 DEF ReplyInv
  <2>3. CASE tunnel_phase' = "refused"
    BY <2>3 DEF ReplyInv
  <2> QED  BY <1>7, <2>1, <2>2, <2>3
<1> QED  BY <1>9, <1>10, <1>11 DEF TunnelInv

LEMMA ReadLengthStep ==
  ASSUME TunnelInv, ReadLength
  PROVE  TunnelInv'
<1>0. TunnelTyped /\ RouteInv /\ ReplyInv
  BY DEF TunnelInv
<1>1. /\ tunnel_phase = "length" /\ ReadExactly(1) /\ tunnel_phase' = "address"
      /\ UNCHANGED <<asked, given>>
  BY DEF ReadLength
<1>2. skipped = 0
  BY <1>0, <1>1 DEF ReplyInv
<1>3. PICK h \in 1 .. Len(incoming) : SocksAhead(h)
  BY <1>0, <1>1 DEF ReplyInv
<1>4. /\ h \in Nat /\ Ahead(h) /\ replied /\ Len(heard) = 4 /\ heard[4] = 3
      /\ h = AddressLength + 4 /\ incoming[1] = AddressLength + 1
  BY <1>1, <1>3 DEF SocksAhead
<1>5. /\ UNCHANGED <<target, proxy, relayed, replied>>
      /\ incoming' \in Seq(Int) /\ heard' \in Seq(Int) /\ skipped' = 0
      /\ \A m : m = h - 1 => Ahead(m)' /\ m \in 0 .. Len(incoming')
      /\ \A i \in 1 .. Len(heard) : heard'[i] = heard[i]
      /\ \A i \in 1 .. 1 : heard'[Len(heard) + i] = incoming[i]
  <2>1. 1 \in Nat /\ 1 <= h
    OBVIOUS
  <2> QED  BY <1>0, <1>1, <1>2, <1>4, <2>1, ReadSocksFacts
<1>6. heard'[4] = 3 /\ heard'[5] = AddressLength + 1
  <2>1. 4 \in 1 .. 4 /\ 1 \in 1 .. 1 /\ 4 + 1 = 5
    OBVIOUS
  <2> QED  BY <1>4, <1>5, <2>1
<1>8. proxy.scheme = "socks5" /\ ~Bypasses(target, proxy.rules)
  BY <1>0, <1>1 DEF RouteInv
<1>9. TunnelTyped'
  <2>1. relayed' \in 0 .. TargetBytes /\ skipped' \in 0 .. relayed'
    <3>1. relayed \in Nat /\ relayed <= TargetBytes /\ TargetBytes \in Nat
      BY <1>0, TunnelFacts
    <3> QED  BY <1>5, <3>1
  <2>2. TunnelTypeOK'
    BY <1>0, <1>1, <1>5, <1>8, <2>1 DEF TunnelTyped, TunnelTypeOK, Ended
  <2> QED  BY <1>1, <1>5, <2>2 DEF TunnelTyped, Quiet, TwoBytes
<1>10. RouteInv'
  <2>1. ~Bypasses(target, proxy.rules)'
    BY <1>5, <1>8 DEF Bypasses
  <2> QED  BY <1>0, <1>1, <1>5, <1>8, <2>1 DEF RouteInv
<1>11. ReplyInv'
  <2>0. AddressLength \in Nat
    BY <1>0, TunnelFacts
  <2>1. AddressSize(heard') = AddressLength + 1
    BY <1>6 DEF AddressSize
  <2>3. PICK m : m = h - 1
    OBVIOUS
  <2>4. m = (AddressLength + 1) + 2 /\ m >= 1 /\ AddressLength + 1 \in Nat
    BY <1>4, <2>0, <2>3
  <2>5. Ahead(m)' /\ m \in 0 .. Len(incoming')
    BY <1>5, <2>3
  <2>6. m \in 1 .. Len(incoming')
    BY <1>5, <2>4, <2>5
  <2>7. SocksAhead(m)'
    BY <1>1, <1>4, <1>5, <2>1, <2>4, <2>5 DEF SocksAhead
  <2> QED  BY <1>1, <1>5, <2>6, <2>7 DEF ReplyInv
<1> QED  BY <1>9, <1>10, <1>11 DEF TunnelInv

LEMMA ReadAddressStep ==
  ASSUME TunnelInv, ReadAddress
  PROVE  TunnelInv'
<1>0. TunnelTyped /\ RouteInv /\ ReplyInv
  BY DEF TunnelInv
<1>1. /\ tunnel_phase = "address" /\ ReadExactly(AddressSize(heard) + 2)
      /\ tunnel_phase' = "open" /\ UNCHANGED <<asked, given>>
  BY DEF ReadAddress
<1>2. skipped = 0
  BY <1>0, <1>1 DEF ReplyInv
<1>3. PICK h \in 1 .. Len(incoming) : SocksAhead(h)
  BY <1>0, <1>1 DEF ReplyInv
<1>4. h \in Nat /\ Ahead(h) /\ replied /\ h = AddressSize(heard) + 2
  BY <1>1, <1>3 DEF SocksAhead
<1>5. /\ UNCHANGED <<target, proxy, relayed, replied>>
      /\ incoming' \in Seq(Int) /\ heard' \in Seq(Int) /\ skipped' = 0
      /\ \A m : m = h - h => Ahead(m)' /\ m \in 0 .. Len(incoming')
  <2>1. ReadExactly(h) /\ h <= h
    BY <1>1, <1>4
  <2> QED  BY <1>0, <1>2, <1>4, <2>1, ReadSocksFacts
<1>6. Ahead(0)'
  <2>1. 0 = h - h
    BY <1>4
  <2> QED  BY <1>5, <2>1
<1>8. proxy.scheme = "socks5" /\ ~Bypasses(target, proxy.rules)
  BY <1>0, <1>1 DEF RouteInv
<1>9. TunnelTyped'
  <2>1. relayed' \in 0 .. TargetBytes /\ skipped' \in 0 .. relayed'
    <3>1. relayed \in Nat /\ relayed <= TargetBytes /\ TargetBytes \in Nat
      BY <1>0, TunnelFacts
    <3> QED  BY <1>5, <3>1
  <2>2. TunnelTypeOK'
    BY <1>0, <1>1, <1>5, <1>8, <2>1 DEF TunnelTyped, TunnelTypeOK, Ended
  <2> QED  BY <1>1, <1>5, <2>2 DEF TunnelTyped, Quiet, TwoBytes
<1>10. RouteInv'
  <2>1. ~Bypasses(target, proxy.rules)'
    BY <1>5, <1>8 DEF Bypasses
  <2> QED  BY <1>0, <1>1, <1>5, <1>8, <2>1 DEF RouteInv
<1>11. ReplyInv'
  BY <1>1, <1>4, <1>5, <1>6 DEF ReplyInv
<1> QED  BY <1>9, <1>10, <1>11 DEF TunnelInv

LEMMA TunnelStep ==
  ASSUME TunnelInv, [TunnelNext]_tunnelVars
  PROVE  TunnelInv'
<1>1. ASSUME NEW t \in Targets, NEW p \in Proxies, ChooseRoute(t, p) PROVE TunnelInv'
  BY <1>1, ChooseRouteStep
<1>2. CASE UNCHANGED tunnelVars
  BY <1>2 DEF tunnelVars, TunnelInv, TunnelTyped, TunnelTypeOK, RouteInv, ReplyInv, HeaderAhead,
              SocksAhead, Ahead, Bypasses, AddressSize
<1> QED  BY <1>1, <1>2, LoseProxyStep, RelayTargetStep, AnswerConnectStep, ReadHeaderStep,
            AnswerGreetingStep, ReadMethodStep, AnswerCredentialsStep, ReadStatusStep,
            AnswerRequestStep, ReadReplyStep, ReadLengthStep, ReadAddressStep DEF TunnelNext

LEMMA TunnelInvariant == TunnelSpec => []TunnelInv
<1>1. TunnelInv /\ [TunnelNext]_tunnelVars => TunnelInv'
  BY TunnelStep
<1> QED  BY <1>1, TunnelStart, PTL DEF TunnelSpec

(* Types, for every set of targets and proxies, every address length and every     *)
(* way to cut the reply to CONNECT into reads (connect_websocket,                  *)
(* GrpcProxyConnector, connect_socks5_stream).                                   *)
THEOREM TunnelTypeCorrect == TunnelSpec => []TunnelTypeOK
<1>1. TunnelInv => TunnelTypeOK
  BY DEF TunnelInv, TunnelTyped
<1> QED  BY <1>1, TunnelInvariant, PTL

(* A tunnel is handed over only after the proxy agreed, begins with the target's    *)
(* own bytes, misses none of them after a SOCKS handshake, and credentials go only  *)
(* to the proxy that takes them.                                                *)
THEOREM TunnelHandsOverClean == TunnelSpec => []TunnelIsClean
<1>1. TunnelInv => TunnelIsClean
  <2> SUFFICES ASSUME TunnelInv PROVE TunnelIsClean
    OBVIOUS
  <2>0. TunnelTyped /\ RouteInv /\ ReplyInv
    BY DEF TunnelInv
  <2>1. ASSUME tunnel_phase = "open"
        PROVE  /\ replied
               /\ incoming = [i \in 1 .. relayed - skipped |-> -(skipped + i)]
               /\ proxy.scheme = "socks5" => skipped = 0
    <3>1. /\ replied /\ Ahead(0)
          /\ proxy.scheme = "socks5" => skipped = 0
      BY <2>0, <2>1 DEF ReplyInv
    <3>2. incoming \in Seq(Int) /\ relayed \in Nat /\ skipped \in Nat /\ skipped <= relayed
      BY <2>0, TunnelFacts
    <3>3. /\ Len(incoming) = relayed - skipped
          /\ \A i \in 1 .. Len(incoming) : incoming[i] = -(skipped + i)
      <4>1. /\ Len(incoming) = 0 + (relayed - skipped)
            /\ \A i \in 0 + 1 .. Len(incoming) : incoming[i] = 0 - (skipped + i)
        BY <3>1 DEF Ahead
      <4> QED  BY <3>2, <4>1
    <3>4. DOMAIN incoming = 1 .. relayed - skipped
      BY <3>2, <3>3
    <3>5. incoming = [i \in DOMAIN incoming |-> incoming[i]]
      BY <3>2
    <3> QED  BY <3>1, <3>3, <3>4, <3>5
  <2>2. given => /\ proxy.credentials # "none"
                 /\ proxy.scheme = "socks5" => proxy.credentials = "short" /\ asked
    BY <2>0 DEF RouteInv
  <2>3. Bypasses(target, proxy.rules) => tunnel_phase \in {"idle", "direct"}
    BY <2>0 DEF RouteInv
  <2> QED  BY <2>1, <2>2, <2>3 DEF TunnelIsClean
<1> QED  BY <1>1, TunnelInvariant, PTL

(***************************************************************************)
(* gRPC calls                                                              *)
(***************************************************************************)
StepNames ==
  {"proto", "method", "messages", "endpoint", "connect", "list", "describe", "ready",
   "metadata", "call"}
(* The place of a step in the plan of its client, counted from the end.            *)
CliAt(step, d) ==
  \/ (step = "proto" /\ d = 8) \/ (step = "method" /\ d = 7) \/ (step = "messages" /\ d = 6)
  \/ (step = "endpoint" /\ d = 5) \/ (step = "connect" /\ d = 4) \/ (step = "ready" /\ d = 3)
  \/ (step = "metadata" /\ d = 2) \/ (step = "call" /\ d = 1)
AppAt(step, d, request) ==
  \/ (step = "endpoint" /\ d = 8) \/ (step = "connect" /\ d = 7)
  \/ (step \in {"list", "describe"} /\ d = 6 /\ request.reflected)
  \/ (step = "proto" /\ d = 6 /\ ~request.reflected)
  \/ (step = "method" /\ d = 5) \/ (step = "messages" /\ d = 4)
  \/ (step = "ready" /\ d = 3) \/ (step = "metadata" /\ d = 2) \/ (step = "call" /\ d = 1)
ReflectAt(step, d) ==
  \/ (step = "endpoint" /\ d = 3) \/ (step = "connect" /\ d = 2)
  \/ (step \in {"list", "describe"} /\ d = 1)
StepAt(step, d, client, request) ==
  \/ client = "cli" /\ CliAt(step, d)
  \/ client = "app" /\ AppAt(step, d, request)
  \/ client = "reflect" /\ ReflectAt(step, d)
Follows(todo, client, request) ==
  /\ todo \in Seq(StepNames)
  /\ \A i \in 1 .. Len(todo) : StepAt(todo[i], Len(todo) - i + 1, client, request)

(* What has been checked when n steps are left.                                  *)
Checked(n, client, request, schema) ==
  /\ client = "cli" =>
       /\ n <= 6 => request.service \in schema
       /\ n <= 5 => MessagesAreValid(request)
       /\ n <= 4 => CliEndpointIsValid(request.endpoint)
       /\ n <= 1 => CliMetadataIsValid(request)
  /\ client = "app" =>
       /\ n <= 7 => AppEndpointIsValid(request.endpoint)
       /\ n <= 4 => request.service \in schema
       /\ n <= 3 => MessagesAreValid(request)
       /\ n <= 1 => AppMetadataIsValid(request)
PlanInv ==
  /\ Follows(grpc_todo, grpc_client, grpc_request)
  /\ Checked(Len(grpc_todo), grpc_client, grpc_request, grpc_schema)
  /\ grpc_client = "none" => grpc_schema = {} /\ grpc_ended = "no" /\ received = <<>>

(* Who reflects has no schema before the steps after it, and then that of the       *)
(* descriptors of one version.                                                 *)
Reflects(client, request) == client = "reflect" \/ (client = "app" /\ request.reflected)
StepsAfter(client) == IF client = "app" THEN 5 ELSE 0
ReflectionInv ==
  /\ ~Reflects(grpc_client, grpc_request) => reflection = NoReflection
  /\ reflection \in [version : {"none", "v1", "v1alpha"}, listed : SUBSET GrpcServices,
                     left : SUBSET GrpcServices,
                     files : SUBSET ({"none", "v1", "v1alpha"} \X GrpcServices)]
  /\ reflection.version = "none" => reflection = NoReflection
  /\ reflection.left \subseteq reflection.listed
  /\ \A file \in reflection.files : file[1] = reflection.version
  /\ \A s \in reflection.listed : s \in reflection.left \/ \E file \in reflection.files : file[2] = s
  /\ Reflects(grpc_client, grpc_request) =>
       /\ Len(grpc_todo) > StepsAfter(grpc_client) => grpc_schema = {}
       /\ grpc_schema # {} =>
            reflection.left = {} /\ grpc_schema = {file[2] : file \in reflection.files}

(* The messages, and what the user sees of them.                                 *)
ShownFor(client, request, messages) ==
  IF client = "cli" /\ request.server_streaming THEN messages ELSE <<>>
MessagesInv ==
  /\ calls_out \in Nat /\ served \in Nat /\ received \in Seq(Nat) /\ Len(received) <= served
  /\ calls_out > 0 \/ served > 0 => grpc_client \in {"cli", "app"} /\ Len(grpc_todo) <= 1
  /\ IF grpc_ended = "ok"
     THEN grpc_client = "reflect" \/ (grpc_shown = received /\ Len(received) = served)
     ELSE grpc_shown = ShownFor(grpc_client, grpc_request, received)
GrpcInv == PlanInv /\ ReflectionInv /\ MessagesInv

(* A step at its stage, and what is left after it.                                *)
LEMMA StageFacts ==
  ASSUME PlanInv, NEW step, AtStage(step)
  PROVE  /\ Len(grpc_todo) \in Nat /\ Len(grpc_todo) >= 1 /\ grpc_ended = "no"
         /\ grpc_client \in {"cli", "app", "reflect"}
         /\ StepAt(step, Len(grpc_todo), grpc_client, grpc_request)
         /\ Follows(Tail(grpc_todo), grpc_client, grpc_request)
         /\ Len(Tail(grpc_todo)) = Len(grpc_todo) - 1
<1> DEFINE n == Len(grpc_todo)
<1>1. /\ grpc_todo \in Seq(StepNames) /\ grpc_todo # <<>> /\ grpc_todo[1] = step
      /\ grpc_ended = "no"
  BY DEF PlanInv, Follows, AtStage
<1>2. n \in Nat /\ n >= 1
  BY <1>1
<1>3. StepAt(grpc_todo[1], n - 1 + 1, grpc_client, grpc_request)
  BY <1>2 DEF PlanInv, Follows
<1>4. n - 1 + 1 = n
  BY <1>2
<1>5. StepAt(step, n, grpc_client, grpc_request)
  BY <1>1, <1>3, <1>4
<1>6. /\ Tail(grpc_todo) \in Seq(StepNames) /\ Len(Tail(grpc_todo)) = n - 1
      /\ \A i \in 1 .. n - 1 : Tail(grpc_todo)[i] = grpc_todo[i + 1]
  BY <1>1
<1>7. ASSUME NEW i \in 1 .. n - 1
      PROVE  StepAt(Tail(grpc_todo)[i], (n - 1) - i + 1, grpc_client, grpc_request)
  <2>1. i + 1 \in 1 .. n /\ n - (i + 1) + 1 = (n - 1) - i + 1
    BY <1>2
  <2>2. StepAt(grpc_todo[i + 1], n - (i + 1) + 1, grpc_client, grpc_request)
    BY <2>1 DEF PlanInv, Follows
  <2> QED  BY <1>6, <2>1, <2>2
<1>8. Follows(Tail(grpc_todo), grpc_client, grpc_request)
  BY <1>6, <1>7 DEF Follows
<1> QED  BY <1>1, <1>2, <1>5, <1>6, <1>8 DEF StepAt

LEMMA StepConcatFacts ==
  ASSUME NEW s \in Seq(StepNames), NEW t \in Seq(StepNames)
  PROVE  /\ s \o t \in Seq(StepNames) /\ Len(s \o t) = Len(s) + Len(t)
         /\ \A i \in 1 .. Len(s) : (s \o t)[i] = s[i]
         /\ \A i \in 1 .. Len(t) : (s \o t)[Len(s) + i] = t[i]
  OBVIOUS

(* A step of the reflection in the place of another.                               *)
LEMMA ReplaceFacts ==
  ASSUME PlanInv, NEW step \in {"list", "describe"}, AtStage(step),
         NEW next \in {"list", "describe"}
  PROVE  /\ Follows(<<next>> \o Tail(grpc_todo), grpc_client, grpc_request)
         /\ Len(<<next>> \o Tail(grpc_todo)) = Len(grpc_todo)
<1> DEFINE n == Len(grpc_todo)
           q == Tail(grpc_todo)
           t == <<next>> \o q
<1>1. /\ n \in Nat /\ n >= 1 /\ StepAt(step, n, grpc_client, grpc_request)
      /\ q \in Seq(StepNames) /\ Len(q) = n - 1
      /\ \A i \in 1 .. n - 1 : StepAt(q[i], (n - 1) - i + 1, grpc_client, grpc_request)
  BY StageFacts DEF Follows
<1> HIDE DEF q
<1>2. /\ t \in Seq(StepNames) /\ Len(t) = n /\ t[1] = next
      /\ \A i \in 2 .. n : t[i] = q[i - 1]
  <2> DEFINE f == <<next>>
  <2>0. next \in StepNames
    BY DEF StepNames
  <2>1. f \in Seq(StepNames) /\ Len(f) = 1 /\ f[1] = next
    BY <2>0
  <2> HIDE DEF f
  <2>2. /\ f \o q \in Seq(StepNames) /\ Len(f \o q) = Len(f) + Len(q)
        /\ \A i \in 1 .. Len(f) : (f \o q)[i] = f[i]
        /\ \A i \in 1 .. Len(q) : (f \o q)[Len(f) + i] = q[i]
    BY <1>1, <2>1, StepConcatFacts
  <2>3. t = f \o q
    BY DEF f
  <2> HIDE DEF t
  <2>4. 1 + (n - 1) = n /\ 1 \in 1 .. 1
    BY <1>1
  <2>5. t \in Seq(StepNames) /\ Len(t) = n /\ t[1] = next
    BY <1>1, <2>1, <2>2, <2>3, <2>4
  <2>6. ASSUME NEW i \in 2 .. n PROVE t[i] = q[i - 1]
    <3>1. i - 1 \in 1 .. n - 1 /\ 1 + (i - 1) = i
      BY <1>1
    <3> QED  BY <1>1, <2>1, <2>2, <2>3, <3>1
  <2> QED  BY <2>5, <2>6
<1> HIDE DEF t
<1>3. StepAt(next, n, grpc_client, grpc_request)
  BY <1>1 DEF StepAt, CliAt, AppAt, ReflectAt
<1>4. ASSUME NEW i \in 1 .. n
      PROVE  StepAt(t[i], n - i + 1, grpc_client, grpc_request)
  <2>1. CASE i = 1
    <3>1. n - 1 + 1 = n
      BY <1>1
    <3> QED  BY <1>2, <1>3, <2>1, <3>1
  <2>2. CASE i # 1
    <3>1. i - 1 \in 1 .. n - 1 /\ i \in 2 .. n /\ (n - 1) - (i - 1) + 1 = n - i + 1
      BY <1>1, <2>2
    <3>2. StepAt(q[i - 1], (n - 1) - (i - 1) + 1, grpc_client, grpc_request)
      BY <1>1, <3>1
    <3> QED  BY <1>2, <3>1, <3>2
  <2> QED  BY <2>1, <2>2
<1>5. Follows(t, grpc_client, grpc_request)
  BY <1>2, <1>4 DEF Follows
<1> QED  BY <1>2, <1>5 DEF t, q

LEMMA AtCallFacts ==
  ASSUME PlanInv, AtStage("call")
  PROVE  Len(grpc_todo) = 1 /\ grpc_client \in {"cli", "app"} /\ grpc_ended = "no"
BY StageFacts DEF StepAt, CliAt, AppAt, ReflectAt

LEMMA CheckedAtFirst ==
  ASSUME NEW n, NEW client, NEW request, NEW schema, client \in {"cli", "app"} => n = 8
  PROVE  Checked(n, client, request, schema)
BY DEF Checked

(* What a step has checked is known after it.                                    *)
LEMMA CheckedNext ==
  ASSUME NEW n \in Nat, NEW m \in Nat, m = n - 1, NEW client, NEW request, NEW schema,
         NEW next, Checked(n, client, request, schema),
         client = "cli" =>
           /\ next # schema => n = 8
           /\ n = 7 => request.service \in next
           /\ n = 6 => MessagesAreValid(request)
           /\ n = 5 => CliEndpointIsValid(request.endpoint)
           /\ n = 2 => CliMetadataIsValid(request),
         client = "app" =>
           /\ next # schema => n = 6
           /\ n = 8 => AppEndpointIsValid(request.endpoint)
           /\ n = 5 => request.service \in next
           /\ n = 4 => MessagesAreValid(request)
           /\ n = 2 => AppMetadataIsValid(request)
  PROVE  Checked(m, client, request, next)
<1>1. /\ client = "cli" => next = schema \/ n = 8
      /\ client = "app" => next = schema \/ n = 6
  OBVIOUS
<1>2. CASE client = "cli"
  <2>1. m <= 6 => request.service \in next
    BY <1>1, <1>2 DEF Checked
  <2>2. /\ m <= 5 => MessagesAreValid(request)
        /\ m <= 4 => CliEndpointIsValid(request.endpoint)
        /\ m <= 1 => CliMetadataIsValid(request)
    BY <1>2 DEF Checked
  <2> QED  BY <1>2, <2>1, <2>2 DEF Checked
<1>3. CASE client = "app"
  <2>1. m <= 4 => request.service \in next
    BY <1>1, <1>3 DEF Checked
  <2>2. /\ m <= 7 => AppEndpointIsValid(request.endpoint)
        /\ m <= 3 => MessagesAreValid(request)
        /\ m <= 1 => AppMetadataIsValid(request)
    BY <1>3 DEF Checked
  <2> QED  BY <1>3, <2>1, <2>2 DEF Checked
<1>4. CASE client \notin {"cli", "app"}
  BY <1>4 DEF Checked
<1> QED  BY <1>2, <1>3, <1>4

LEMMA GrpcStart == GrpcInit => GrpcInv
<1> SUFFICES ASSUME GrpcInit PROVE GrpcInv
  OBVIOUS
<1>1. /\ grpc_client = "none" /\ grpc_request = NoCall /\ grpc_todo = <<>>
      /\ grpc_schema = {} /\ grpc_ended = "no" /\ reflection = NoReflection
      /\ calls_out = 0 /\ served = 0 /\ received = <<>> /\ grpc_shown = <<>>
  BY DEF GrpcInit
<1>2. PlanInv
  BY <1>1 DEF PlanInv, Follows, Checked
<1>3. ReflectionInv
  <2>1. ~Reflects(grpc_client, grpc_request)
    BY <1>1 DEF Reflects
  <2> QED  BY <1>1, <2>1 DEF ReflectionInv, NoReflection
<1>4. MessagesInv
  BY <1>1 DEF MessagesInv, ShownFor
<1> QED  BY <1>2, <1>3, <1>4 DEF GrpcInv

LEMMA StepsFollow ==
  ASSUME NEW request
  PROVE  /\ Follows(CliSteps, "cli", request) /\ Len(CliSteps) = 8
         /\ Follows(AppSteps(request), "app", request) /\ Len(AppSteps(request)) = 8
         /\ Follows(ReflectSteps, "reflect", request) /\ Len(ReflectSteps) = 3
<1>1. CliSteps \in Seq(StepNames) /\ Len(CliSteps) = 8
  BY DEF CliSteps, StepNames
<1>2. \A i \in 1 .. 8 : CliAt(CliSteps[i], 8 - i + 1)
  BY DEF CliSteps, CliAt
<1>3. AppSteps(request) \in Seq(StepNames) /\ Len(AppSteps(request)) = 8
  BY DEF AppSteps, StepNames
<1>4. \A i \in 1 .. 8 : AppAt(AppSteps(request)[i], 8 - i + 1, request)
  BY DEF AppSteps, AppAt
<1>5. ReflectSteps \in Seq(StepNames) /\ Len(ReflectSteps) = 3
  BY DEF ReflectSteps, StepNames
<1>6. \A i \in 1 .. 3 : ReflectAt(ReflectSteps[i], 3 - i + 1)
  BY DEF ReflectSteps, ReflectAt
<1> QED  BY <1>1, <1>2, <1>3, <1>4, <1>5, <1>6 DEF Follows, StepAt

LEMMA StartGrpcStep ==
  ASSUME GrpcInv, NEW client \in {"cli", "app", "reflect"}, NEW request, StartGrpc(client, request)
  PROVE  GrpcInv'
<1>1. /\ grpc_client = "none" /\ grpc_client' = client /\ grpc_request' = request
      /\ grpc_todo' = CASE client = "cli" -> CliSteps
                        [] client = "app" -> AppSteps(request)
                        [] client = "reflect" -> ReflectSteps
      /\ UNCHANGED <<grpc_schema, grpc_ended, reflection, calls_out, served, received, grpc_shown>>
  BY DEF StartGrpc
<1>2. grpc_schema = {} /\ grpc_ended = "no" /\ received = <<>>
  BY <1>1 DEF GrpcInv, PlanInv
<1>3. PlanInv'
  <2>1. /\ Follows(grpc_todo', grpc_client', grpc_request')
        /\ grpc_client' \in {"cli", "app"} => Len(grpc_todo') = 8
    <3>1. CASE client = "cli"
      BY <1>1, <3>1, StepsFollow
    <3>2. CASE client = "app"
      BY <1>1, <3>2, StepsFollow
    <3>3. CASE client = "reflect"
      BY <1>1, <3>3, StepsFollow
    <3> QED  BY <3>1, <3>2, <3>3
  <2>2. Checked(Len(grpc_todo'), grpc_client', grpc_request', grpc_schema')
    BY <2>1, CheckedAtFirst
  <2> QED  BY <1>1, <2>1, <2>2 DEF PlanInv
<1>4. ReflectionInv'
  <2>1. reflection = NoReflection
    BY <1>1 DEF GrpcInv, ReflectionInv, Reflects
  <2>2. ReflectionInv
    BY DEF GrpcInv
  <2> QED  BY <1>1, <1>2, <2>1, <2>2 DEF ReflectionInv
<1>5. MessagesInv'
  <2>1. calls_out = 0 /\ served = 0
    BY <1>1 DEF GrpcInv, MessagesInv
  <2>2. grpc_shown = <<>>
    BY <1>1, <1>2 DEF GrpcInv, MessagesInv, ShownFor
  <2>3. ~(calls_out' > 0 \/ served' > 0)
    BY <1>1, <2>1
  <2>4. grpc_shown' = ShownFor(grpc_client', grpc_request', received')
    BY <1>1, <1>2, <2>2 DEF ShownFor
  <2> QED  BY <1>1, <1>2, <2>3, <2>4 DEF GrpcInv, MessagesInv
<1> QED  BY <1>3, <1>4, <1>5 DEF GrpcInv

(* A call that fails stays where it is.                                           *)
LEMMA FailStep ==
  ASSUME GrpcInv, grpc_ended = "no", FailCall,
         UNCHANGED <<grpc_client, grpc_request, calls_out, served, received>>,
         grpc_client # "none"
  PROVE  GrpcInv'
<1>1. /\ grpc_ended' = "error"
      /\ UNCHANGED <<grpc_todo, grpc_schema, reflection, grpc_shown>>
      /\ UNCHANGED <<grpc_client, grpc_request, calls_out, served, received>>
  BY DEF FailCall
<1>2. PlanInv'
  BY <1>1 DEF GrpcInv, PlanInv
<1>3. ReflectionInv'
  BY <1>1 DEF GrpcInv, ReflectionInv
<1>4. MessagesInv'
  BY <1>1 DEF GrpcInv, MessagesInv
<1> QED  BY <1>2, <1>3, <1>4 DEF GrpcInv

(* The messages and the reflection do not depend on a step before the call.         *)
LEMMA BeforeCall ==
  ASSUME GrpcInv, NEW step, step # "call", AtStage(step)
  PROVE  calls_out = 0 /\ served = 0 /\ received = <<>>
<1>1. /\ calls_out \in Nat /\ served \in Nat /\ received \in Seq(Nat) /\ Len(received) <= served
      /\ calls_out > 0 \/ served > 0 => grpc_client \in {"cli", "app"} /\ Len(grpc_todo) <= 1
  BY DEF GrpcInv, MessagesInv
<1>2. /\ Len(grpc_todo) \in Nat /\ StepAt(step, Len(grpc_todo), grpc_client, grpc_request)
  BY StageFacts DEF GrpcInv
<1>n. PICK n \in Nat : n = Len(grpc_todo)
  BY <1>2
<1>3. ~(grpc_client \in {"cli", "app"} /\ n <= 1)
  <2>1. CASE grpc_client = "cli"
    <3>1. CliAt(step, n)
      BY <1>2, <1>n, <2>1 DEF StepAt
    <3>2. n \in {2, 3, 4, 5, 6, 7, 8}
      BY <3>1 DEF CliAt
    <3> QED  BY <3>2
  <2>2. CASE grpc_client = "app"
    <3>1. AppAt(step, n, grpc_request)
      BY <1>2, <1>n, <2>2 DEF StepAt
    <3>2. n \in {2, 3, 4, 5, 6, 7, 8}
      BY <3>1 DEF AppAt
    <3> QED  BY <3>2
  <2> QED  BY <2>1, <2>2
<1>4. calls_out = 0 /\ served = 0
  BY <1>1, <1>n, <1>3
<1> QED  BY <1>1, <1>4

LEMMA CheckStepKeeps ==
  ASSUME GrpcInv, NEW step \in {"endpoint", "proto", "method", "messages", "metadata"},
         CheckStep(step)
  PROVE  GrpcInv'
<1> DEFINE n == Len(grpc_todo)
<1>1. AtStage(step) /\ UNCHANGED <<grpc_client, grpc_request, calls_out, served, received>>
  BY DEF CheckStep
<1>2. PlanInv /\ ReflectionInv /\ MessagesInv
  BY DEF GrpcInv
<1>3. /\ n \in Nat /\ n >= 1 /\ grpc_ended = "no"
      /\ grpc_client \in {"cli", "app", "reflect"}
      /\ StepAt(step, n, grpc_client, grpc_request)
      /\ Follows(Tail(grpc_todo), grpc_client, grpc_request)
      /\ Len(Tail(grpc_todo)) = n - 1
  BY <1>1, <1>2, StageFacts
<1>4. CASE ~Passes(step)
  <2>1. FailCall
    BY <1>4 DEF CheckStep
  <2> QED  BY <1>1, <1>3, <2>1, FailStep
<1>5. CASE Passes(step)
  <2>1. /\ grpc_todo' = Tail(grpc_todo)
        /\ grpc_schema' = IF step = "proto" THEN grpc_request.proto ELSE grpc_schema
        /\ UNCHANGED <<grpc_ended, reflection, grpc_shown>>
    BY <1>5 DEF CheckStep
  <2>2. Len(grpc_todo') = n - 1 /\ Follows(grpc_todo', grpc_client', grpc_request')
    BY <1>1, <1>3, <2>1
  <2>3. Checked(Len(grpc_todo'), grpc_client', grpc_request', grpc_schema')
    <3>0. Checked(n, grpc_client, grpc_request, grpc_schema)
      BY <1>2 DEF PlanInv
    <3>1. grpc_schema' # grpc_schema => step = "proto"
      BY <2>1
    <3>2. ASSUME grpc_client = "cli"
          PROVE  /\ grpc_schema' # grpc_schema => n = 8
                 /\ n = 7 => grpc_request.service \in grpc_schema'
                 /\ n = 6 => MessagesAreValid(grpc_request)
                 /\ n = 5 => CliEndpointIsValid(grpc_request.endpoint)
                 /\ n = 2 => CliMetadataIsValid(grpc_request)
      <4>1. CliAt(step, n)
        BY <1>3, <3>2 DEF StepAt
      <4>2. n = 7 => step = "method"
        BY <4>1 DEF CliAt
      <4>3. n = 6 => step = "messages"
        BY <4>1 DEF CliAt
      <4>4. n = 5 => step = "endpoint"
        BY <4>1 DEF CliAt
      <4>5. n = 2 => step = "metadata"
        BY <4>1 DEF CliAt
      <4>6. step = "proto" => n = 8
        BY <4>1 DEF CliAt
      <4> QED  BY <1>5, <2>1, <3>1, <3>2, <4>2, <4>3, <4>4, <4>5, <4>6 DEF Passes
    <3>3. ASSUME grpc_client = "app"
          PROVE  /\ grpc_schema' # grpc_schema => n = 6
                 /\ n = 8 => AppEndpointIsValid(grpc_request.endpoint)
                 /\ n = 5 => grpc_request.service \in grpc_schema'
                 /\ n = 4 => MessagesAreValid(grpc_request)
                 /\ n = 2 => AppMetadataIsValid(grpc_request)
      <4>1. AppAt(step, n, grpc_request)
        BY <1>3, <3>3 DEF StepAt
      <4>2. n = 8 => step = "endpoint"
        BY <4>1 DEF AppAt
      <4>3. n = 5 => step = "method"
        BY <4>1 DEF AppAt
      <4>4. n = 4 => step = "messages"
        BY <4>1 DEF AppAt
      <4>5. n = 2 => step = "metadata"
        BY <4>1 DEF AppAt
      <4>6. step = "proto" => n = 6
        BY <4>1 DEF AppAt
      <4> QED  BY <1>5, <2>1, <3>1, <3>3, <4>2, <4>3, <4>4, <4>5, <4>6 DEF Passes
    <3>4. Len(grpc_todo') \in Nat /\ Len(grpc_todo') = n - 1
      BY <1>3, <2>2
    <3> QED  BY <1>1, <1>3, <3>0, <3>2, <3>3, <3>4, CheckedNext
  <2>4. PlanInv'
    BY <1>1, <1>3, <2>2, <2>3 DEF PlanInv
  <2>5. ReflectionInv'
    <3>1. CASE Reflects(grpc_client, grpc_request)
      <4>1. grpc_schema' = grpc_schema
        <5>1. step # "proto"
          BY <1>3, <3>1 DEF StepAt, AppAt, ReflectAt, Reflects
        <5> QED  BY <2>1, <5>1
      <4>2. n - 1 > StepsAfter(grpc_client) => n > StepsAfter(grpc_client)
        BY <1>3 DEF StepsAfter
      <4> QED  BY <1>1, <1>2, <2>1, <2>2, <4>1, <4>2 DEF ReflectionInv
    <3>2. CASE ~Reflects(grpc_client, grpc_request)
      BY <1>1, <1>2, <2>1, <3>2 DEF ReflectionInv
    <3> QED  BY <3>1, <3>2
  <2>6. MessagesInv'
    <3>1. calls_out = 0 /\ served = 0
      BY <1>1, BeforeCall
    <3>2. ~(calls_out' > 0 \/ served' > 0)
      BY <1>1, <3>1
    <3> QED  BY <1>1, <1>2, <2>1, <3>2 DEF MessagesInv
  <2> QED  BY <2>4, <2>5, <2>6 DEF GrpcInv
<1> QED  BY <1>4, <1>5

LEMMA NetworkStepKeeps ==
  ASSUME GrpcInv, NEW step \in {"connect", "ready"}, NetworkStep(step)
  PROVE  GrpcInv'
<1> DEFINE n == Len(grpc_todo)
<1>1. AtStage(step) /\ UNCHANGED <<grpc_client, grpc_request, calls_out, served, received>>
  BY DEF NetworkStep
<1>2. PlanInv /\ ReflectionInv /\ MessagesInv
  BY DEF GrpcInv
<1>3. /\ n \in Nat /\ n >= 1 /\ grpc_ended = "no"
      /\ grpc_client \in {"cli", "app", "reflect"}
      /\ StepAt(step, n, grpc_client, grpc_request)
      /\ Follows(Tail(grpc_todo), grpc_client, grpc_request)
      /\ Len(Tail(grpc_todo)) = n - 1
  BY <1>1, <1>2, StageFacts
<1>4. CASE FailCall
  BY <1>1, <1>3, <1>4, FailStep
<1>5. CASE grpc_todo' = Tail(grpc_todo) /\ UNCHANGED <<grpc_schema, grpc_ended, reflection, grpc_shown>>
  <2>2. Len(grpc_todo') = n - 1 /\ Follows(grpc_todo', grpc_client', grpc_request')
    BY <1>1, <1>3, <1>5
  <2>3. Checked(Len(grpc_todo'), grpc_client', grpc_request', grpc_schema')
    <3>0. Checked(n, grpc_client, grpc_request, grpc_schema)
      BY <1>2 DEF PlanInv
    <3>1. ASSUME grpc_client = "cli" PROVE n \notin {2, 5, 6, 7}
      <4>1. CliAt(step, n)
        BY <1>3, <3>1 DEF StepAt
      <4> QED  BY <4>1 DEF CliAt
    <3>2. ASSUME grpc_client = "app" PROVE n \notin {2, 4, 5, 8}
      <4>1. AppAt(step, n, grpc_request)
        BY <1>3, <3>2 DEF StepAt
      <4> QED  BY <4>1 DEF AppAt
    <3>3. Len(grpc_todo') \in Nat /\ Len(grpc_todo') = n - 1
      BY <1>3, <2>2
    <3> QED  BY <1>1, <1>3, <1>5, <3>0, <3>1, <3>2, <3>3, CheckedNext
  <2>4. PlanInv'
    BY <1>1, <1>3, <2>2, <2>3 DEF PlanInv
  <2>5. ReflectionInv'
    <3>1. n - 1 > StepsAfter(grpc_client) => n > StepsAfter(grpc_client)
      BY <1>3 DEF StepsAfter
    <3> QED  BY <1>1, <1>2, <1>5, <2>2, <3>1 DEF ReflectionInv
  <2>6. MessagesInv'
    <3>1. calls_out = 0 /\ served = 0
      BY <1>1, BeforeCall
    <3>2. ~(calls_out' > 0 \/ served' > 0)
      BY <1>1, <3>1
    <3> QED  BY <1>1, <1>2, <1>5, <3>2 DEF MessagesInv
  <2> QED  BY <2>4, <2>5, <2>6 DEF GrpcInv
<1> QED  BY <1>4, <1>5 DEF NetworkStep

(* Where a client lists and describes, it has no schema yet.                        *)
LEMMA ReflectingFacts ==
  ASSUME GrpcInv, NEW step \in {"list", "describe"}, AtStage(step)
  PROVE  /\ Reflects(grpc_client, grpc_request) /\ grpc_schema = {}
         /\ grpc_client \in {"app", "reflect"} /\ grpc_ended = "no"
         /\ Len(grpc_todo) = StepsAfter(grpc_client) + 1
<1>1. PlanInv /\ ReflectionInv
  BY DEF GrpcInv
<1>2. /\ Len(grpc_todo) \in Nat /\ grpc_ended = "no"
      /\ grpc_client \in {"cli", "app", "reflect"}
      /\ StepAt(step, Len(grpc_todo), grpc_client, grpc_request)
  BY <1>1, StageFacts
<1>3. grpc_client # "cli"
  BY <1>2 DEF StepAt, CliAt
<1>4. Reflects(grpc_client, grpc_request) /\ Len(grpc_todo) = StepsAfter(grpc_client) + 1
  <2>2. CASE grpc_client = "app"
    BY <1>2, <2>2 DEF StepAt, AppAt, Reflects, StepsAfter
  <2>3. CASE grpc_client = "reflect"
    BY <1>2, <2>3 DEF StepAt, ReflectAt, Reflects, StepsAfter
  <2> QED  BY <1>2, <1>3, <2>2, <2>3
<1>5. Len(grpc_todo) > StepsAfter(grpc_client)
  BY <1>2, <1>4 DEF StepsAfter
<1>6. grpc_schema = {}
  BY <1>1, <1>4, <1>5 DEF ReflectionInv
<1> QED  BY <1>2, <1>3, <1>4, <1>6

(* The reflection falls back to v1alpha, or fails.                                *)
LEMMA ReflectionFailsKeeps ==
  ASSUME GrpcInv, NEW step \in {"list", "describe"}, AtStage(step), ReflectionFails,
         UNCHANGED <<grpc_client, grpc_request, calls_out, served, received>>
  PROVE  GrpcInv'
<1>1. PlanInv /\ ReflectionInv /\ MessagesInv
  BY DEF GrpcInv
<1>2. /\ Len(grpc_todo) \in Nat /\ grpc_ended = "no"
      /\ grpc_client \in {"cli", "app", "reflect"}
      /\ StepAt(step, Len(grpc_todo), grpc_client, grpc_request)
  BY <1>1, StageFacts
<1>3. CASE reflection.version = "v1alpha"
  <2>1. FailCall
    BY <1>3 DEF ReflectionFails
  <2> QED  BY <1>2, <2>1, FailStep
<1>4. CASE reflection.version # "v1alpha"
  <2>1. /\ reflection' = [NoReflection EXCEPT !.version = "v1alpha"]
        /\ grpc_todo' = <<"list">> \o Tail(grpc_todo)
        /\ UNCHANGED <<grpc_schema, grpc_ended, grpc_shown>>
    BY <1>4 DEF ReflectionFails, FallBack
  <2>2. /\ Follows(grpc_todo', grpc_client', grpc_request')
        /\ Len(grpc_todo') = Len(grpc_todo)
    BY <1>1, <2>1, ReplaceFacts
  <2>3. PlanInv'
    BY <1>1, <1>2, <2>1, <2>2 DEF PlanInv
  <2>4. ReflectionInv'
    <3>1. reflection' = [version |-> "v1alpha", listed |-> {}, left |-> {}, files |-> {}]
      BY <2>1 DEF NoReflection
    <3>2. Reflects(grpc_client, grpc_request) /\ grpc_schema = {}
      BY ReflectingFacts
    <3>3. grpc_schema' = {}
      BY <2>1, <3>2
    <3>4. Reflects(grpc_client, grpc_request)'
      BY <3>2 DEF Reflects
    <3> QED  BY <3>1, <3>3, <3>4 DEF ReflectionInv
  <2>5. MessagesInv'
    <3>1. calls_out = 0 /\ served = 0
      BY BeforeCall
    <3>2. ~(calls_out' > 0 \/ served' > 0)
      BY <3>1
    <3> QED  BY <1>1, <2>1, <3>2 DEF MessagesInv
  <2> QED  BY <2>3, <2>4, <2>5 DEF GrpcInv
<1> QED  BY <1>3, <1>4

LEMMA ListServicesKeeps ==
  ASSUME GrpcInv, ListServices
  PROVE  GrpcInv'
<1>1. /\ AtStage("list")
      /\ UNCHANGED <<grpc_client, grpc_request, calls_out, served, received>>
  BY DEF ListServices
<1>2. PlanInv /\ ReflectionInv /\ MessagesInv
  BY DEF GrpcInv
<1>3. CASE ReflectionFails
  BY <1>1, <1>3, ReflectionFailsKeeps
<1>4. ASSUME NEW listed \in SUBSET GrpcServices \ {{}},
             reflection' = [reflection EXCEPT
               !.version = IF @ = "none" THEN "v1" ELSE @, !.listed = listed, !.left = listed],
             grpc_todo' = <<"describe">> \o Tail(grpc_todo),
             UNCHANGED <<grpc_schema, grpc_ended, grpc_shown>>
      PROVE  GrpcInv'
  <2>1. /\ Reflects(grpc_client, grpc_request) /\ grpc_schema = {}
        /\ grpc_client \in {"app", "reflect"} /\ grpc_ended = "no"
    BY <1>1, ReflectingFacts
  <2>2. /\ Follows(grpc_todo', grpc_client', grpc_request')
        /\ Len(grpc_todo') = Len(grpc_todo)
    BY <1>1, <1>2, <1>4, ReplaceFacts
  <2>3. PlanInv'
    BY <1>1, <1>2, <1>4, <2>1, <2>2 DEF PlanInv
  <2>4. ReflectionInv'
    <3> DEFINE v == IF reflection.version = "none" THEN "v1" ELSE reflection.version
    <3>1. /\ reflection \in [version : {"none", "v1", "v1alpha"}, listed : SUBSET GrpcServices,
                             left : SUBSET GrpcServices,
                             files : SUBSET ({"none", "v1", "v1alpha"} \X GrpcServices)]
          /\ reflection.version = "none" => reflection = NoReflection
          /\ \A file \in reflection.files : file[1] = reflection.version
      BY <1>2 DEF ReflectionInv
    <3>2. reflection' = [version |-> v, listed |-> listed, left |-> listed,
                         files |-> reflection.files]
      BY <1>4, <3>1
    <3>3. v \in {"v1", "v1alpha"} /\ \A file \in reflection.files : file[1] = v
      BY <3>1 DEF NoReflection
    <3>4. Reflects(grpc_client, grpc_request)'
      BY <1>1, <2>1 DEF Reflects
    <3>5. grpc_schema' = {}
      BY <1>4, <2>1
    <3> HIDE DEF v
    <3>6. /\ reflection'.version = v /\ reflection'.listed = listed /\ reflection'.left = listed
          /\ reflection'.files = reflection.files
      BY <3>2
    <3>7. reflection' \in [version : {"none", "v1", "v1alpha"}, listed : SUBSET GrpcServices,
                           left : SUBSET GrpcServices,
                           files : SUBSET ({"none", "v1", "v1alpha"} \X GrpcServices)]
      BY <3>1, <3>2, <3>3
    <3>8. v # "none"
      BY <3>3
    <3> QED  BY <3>3, <3>4, <3>5, <3>6, <3>7, <3>8 DEF ReflectionInv
  <2>5. MessagesInv'
    <3>1. calls_out = 0 /\ served = 0
      BY <1>1, BeforeCall
    <3>2. ~(calls_out' > 0 \/ served' > 0)
      BY <1>1, <3>1
    <3> QED  BY <1>1, <1>2, <1>4, <3>2 DEF MessagesInv
  <2> QED  BY <2>3, <2>4, <2>5 DEF GrpcInv
<1> QED  BY <1>3, <1>4 DEF ListServices

LEMMA DescribeServiceKeeps ==
  ASSUME GrpcInv, DescribeService
  PROVE  GrpcInv'
<1>1. /\ AtStage("describe")
      /\ UNCHANGED <<grpc_client, grpc_request, calls_out, served, received>>
  BY DEF DescribeService
<1>2. PlanInv /\ ReflectionInv /\ MessagesInv
  BY DEF GrpcInv
<1>3. CASE ReflectionFails
  BY <1>1, <1>3, ReflectionFailsKeeps
<1>4. ASSUME NEW service \in reflection.left, NEW imports \in SUBSET GrpcServices,
             reflection' = [reflection EXCEPT
                 !.left = @ \ {service},
                 !.files = @ \cup {<<reflection.version, s>> : s \in imports \cup {service}}],
             UNCHANGED <<grpc_todo, grpc_schema, grpc_ended, grpc_shown>>
      PROVE  GrpcInv'
  <2>1. /\ Reflects(grpc_client, grpc_request) /\ grpc_schema = {}
        /\ grpc_client \in {"app", "reflect"} /\ grpc_ended = "no"
    BY <1>1, ReflectingFacts
  <2>3. PlanInv'
    BY <1>1, <1>2, <1>4 DEF PlanInv
  <2>4. ReflectionInv'
    <3> DEFINE fresh == {<<reflection.version, s>> : s \in imports \cup {service}}
               files == reflection.files \cup fresh
               left == reflection.left \ {service}
    <3>1. /\ reflection \in [version : {"none", "v1", "v1alpha"}, listed : SUBSET GrpcServices,
                             left : SUBSET GrpcServices,
                             files : SUBSET ({"none", "v1", "v1alpha"} \X GrpcServices)]
          /\ reflection.left \subseteq reflection.listed
          /\ \A file \in reflection.files : file[1] = reflection.version
          /\ \A s \in reflection.listed :
               s \in reflection.left \/ \E file \in reflection.files : file[2] = s
      BY <1>2 DEF ReflectionInv
    <3>2. reflection' = [version |-> reflection.version, listed |-> reflection.listed,
                         left |-> left, files |-> files]
      BY <1>4, <3>1
    <3>3. service \in GrpcServices /\ imports \cup {service} \subseteq GrpcServices
      BY <3>1
    <3>4. reflection.version # "none"
      <4>1. reflection # NoReflection
        BY DEF NoReflection
      <4> QED  BY <1>2, <4>1 DEF ReflectionInv
    <3>5. \A file \in files : file[1] = reflection.version
      BY <3>1
    <3>6. files \in SUBSET ({"none", "v1", "v1alpha"} \X GrpcServices)
      BY <3>1, <3>3
    <3>7. \A s \in reflection.listed : s \in left \/ \E file \in files : file[2] = s
      <4> TAKE s \in reflection.listed
      <4>1. CASE s = service
        <5>1. <<reflection.version, service>> \in files
          OBVIOUS
        <5> QED  BY <4>1, <5>1
      <4>2. CASE s # service
        BY <3>1, <4>2
      <4> QED  BY <4>1, <4>2
    <3>8. left \subseteq reflection.listed /\ left \in SUBSET GrpcServices
      BY <3>1
    <3>9. Reflects(grpc_client, grpc_request)'
      BY <1>1, <2>1 DEF Reflects
    <3>10. grpc_schema' = {}
      BY <1>4, <2>1
    <3> HIDE DEF files, left, fresh
    <3>11. /\ reflection'.version = reflection.version
           /\ reflection'.listed = reflection.listed
           /\ reflection'.left = left /\ reflection'.files = files
      BY <3>2
    <3>12. reflection' \in [version : {"none", "v1", "v1alpha"}, listed : SUBSET GrpcServices,
                            left : SUBSET GrpcServices,
                            files : SUBSET ({"none", "v1", "v1alpha"} \X GrpcServices)]
      BY <3>1, <3>2, <3>6, <3>8
    <3> QED  BY <3>4, <3>5, <3>7, <3>8, <3>9, <3>10, <3>11, <3>12 DEF ReflectionInv
  <2>5. MessagesInv'
    BY <1>1, <1>2, <1>4 DEF MessagesInv
  <2> QED  BY <2>3, <2>4, <2>5 DEF GrpcInv
<1> QED  BY <1>3, <1>4 DEF DescribeService

LEMMA BuildSchemaKeeps ==
  ASSUME GrpcInv, BuildSchema
  PROVE  GrpcInv'
<1> DEFINE n == Len(grpc_todo)
<1>1. /\ AtStage("describe") /\ reflection.left = {}
      /\ UNCHANGED <<grpc_client, grpc_request, calls_out, served, received>>
  BY DEF BuildSchema
<1>2. PlanInv /\ ReflectionInv /\ MessagesInv
  BY DEF GrpcInv
<1>3. CASE ReflectionFails
  BY <1>1, <1>3, ReflectionFailsKeeps
<1>4. CASE /\ grpc_schema' = {file[2] : file \in reflection.files}
           /\ grpc_todo' = Tail(grpc_todo)
           /\ grpc_ended' = IF grpc_client = "reflect" THEN "ok" ELSE "no"
           /\ UNCHANGED <<reflection, grpc_shown>>
  <2>1. /\ Reflects(grpc_client, grpc_request)
        /\ grpc_client \in {"app", "reflect"} /\ grpc_ended = "no"
        /\ n = StepsAfter(grpc_client) + 1
    BY <1>1, ReflectingFacts
  <2>2. /\ n \in Nat /\ Follows(Tail(grpc_todo), grpc_client, grpc_request)
        /\ Len(Tail(grpc_todo)) = n - 1
    BY <1>1, <1>2, StageFacts
  <2>3. Len(grpc_todo') \in Nat /\ Len(grpc_todo') = n - 1 /\ Len(grpc_todo') = StepsAfter(grpc_client)
    BY <1>4, <2>1, <2>2 DEF StepsAfter
  <2>4. Checked(Len(grpc_todo'), grpc_client', grpc_request', grpc_schema')
    <3>1. Checked(n, grpc_client, grpc_request, grpc_schema)
      BY <1>2 DEF PlanInv
    <3>2. ASSUME grpc_client = "app" PROVE n = 6 /\ n \notin {2, 4, 5, 8}
      BY <2>1, <3>2 DEF StepsAfter
    <3>3. grpc_client # "cli"
      BY <2>1
    <3> QED  BY <1>1, <2>2, <2>3, <3>1, <3>2, <3>3, CheckedNext
  <2>5. PlanInv'
    <3>1. Follows(grpc_todo', grpc_client', grpc_request')
      BY <1>1, <1>4, <2>2
    <3> QED  BY <1>1, <2>1, <2>4, <3>1 DEF PlanInv
  <2>6. ReflectionInv'
    <3>1. ~(Len(grpc_todo') > StepsAfter(grpc_client'))
      BY <1>1, <2>3
    <3> QED  BY <1>1, <1>2, <1>4, <3>1 DEF ReflectionInv, Reflects
  <2>7. MessagesInv'
    <3>1. calls_out = 0 /\ served = 0
      BY <1>1, BeforeCall
    <3>2. ~(calls_out' > 0 \/ served' > 0)
      BY <1>1, <3>1
    <3>3. grpc_shown = ShownFor(grpc_client, grpc_request, received)
      BY <1>2, <2>1 DEF MessagesInv
    <3>4. grpc_ended' = "ok" => grpc_client = "reflect"
      BY <1>4
    <3> QED  BY <1>1, <1>2, <1>4, <3>2, <3>3, <3>4 DEF MessagesInv
  <2> QED  BY <2>5, <2>6, <2>7 DEF GrpcInv
<1> QED  BY <1>3, <1>4 DEF BuildSchema

(* A step of the call changes its messages only.                                  *)
LEMMA CallStepKeeps ==
  ASSUME GrpcInv, AtStage("call"),
         UNCHANGED <<grpc_client, grpc_request, grpc_todo, grpc_schema, grpc_ended, reflection>>
  PROVE  PlanInv' /\ ReflectionInv'
<1>1. PlanInv /\ ReflectionInv
  BY DEF GrpcInv
<1>2. grpc_client # "none"
  BY <1>1, AtCallFacts
<1> QED  BY <1>1, <1>2 DEF PlanInv, ReflectionInv

LEMMA MessageSteps ==
  ASSUME GrpcInv, SendInput \/ ServeMessage \/ ReceiveMessage
  PROVE  GrpcInv'
<1>1. /\ AtStage("call")
      /\ UNCHANGED <<grpc_client, grpc_request, grpc_todo, grpc_schema, grpc_ended, reflection>>
  BY DEF SendInput, ServeMessage, ReceiveMessage
<1>2. PlanInv' /\ ReflectionInv'
  BY <1>1, CallStepKeeps
<1>3. /\ grpc_client \in {"cli", "app"} /\ grpc_ended = "no" /\ Len(grpc_todo) = 1
  BY <1>1, AtCallFacts DEF GrpcInv
<1>4. /\ calls_out \in Nat /\ served \in Nat /\ received \in Seq(Nat) /\ Len(received) <= served
      /\ grpc_shown = ShownFor(grpc_client, grpc_request, received)
  BY <1>3 DEF GrpcInv, MessagesInv
<1>5. /\ grpc_client' \in {"cli", "app"} /\ Len(grpc_todo') <= 1 /\ grpc_ended' # "ok"
  BY <1>1, <1>3
<1>6. CASE SendInput \/ ServeMessage
  <2>1. calls_out' \in Nat /\ served' \in Nat /\ served <= served'
    BY <1>4, <1>6 DEF SendInput, ServeMessage
  <2>2. received' = received /\ grpc_shown' = grpc_shown
    BY <1>6 DEF SendInput, ServeMessage
  <2>3. Len(received') <= served'
    BY <1>4, <2>1, <2>2
  <2>4. grpc_shown' = ShownFor(grpc_client', grpc_request', received')
    BY <1>1, <1>4, <2>2
  <2>5. MessagesInv'
    BY <1>4, <1>5, <2>1, <2>2, <2>3, <2>4 DEF MessagesInv
  <2> QED  BY <1>2, <2>5 DEF GrpcInv
<1>7. CASE ReceiveMessage
  <2>1. /\ Len(received) < served /\ received' = Append(received, Len(received) + 1)
        /\ grpc_shown' = IF grpc_request.server_streaming
                         THEN ShowStreamed(grpc_client, grpc_shown, received') ELSE grpc_shown
        /\ UNCHANGED <<calls_out, served>>
    BY <1>7 DEF ReceiveMessage
  <2>2. received' \in Seq(Nat) /\ Len(received') = Len(received) + 1
    <3>1. Len(received) + 1 \in Nat
      BY <1>4
    <3> QED  BY <1>4, <2>1, <3>1
  <2>3. Len(received') <= served'
    <3>1. Len(received) \in Nat
      BY <1>4
    <3> QED  BY <1>4, <2>1, <2>2, <3>1
  <2>4. grpc_shown' = ShownFor(grpc_client', grpc_request', received')
    BY <1>1, <1>4, <2>1 DEF ShownFor, ShowStreamed
  <2>5. MessagesInv'
    BY <1>4, <1>5, <2>1, <2>2, <2>3, <2>4 DEF MessagesInv
  <2> QED  BY <1>2, <2>5 DEF GrpcInv
<1> QED  BY <1>6, <1>7

LEMMA FinishCallKeeps ==
  ASSUME GrpcInv, FinishCall
  PROVE  GrpcInv'
<1>1. /\ AtStage("call") /\ Len(received) = served
      /\ grpc_ended' = "ok" /\ grpc_todo' = <<>> /\ grpc_shown' = received
      /\ UNCHANGED <<grpc_client, grpc_request, grpc_schema, reflection, calls_out, served, received>>
  BY DEF FinishCall, ShowResult
<1>2. PlanInv /\ ReflectionInv /\ MessagesInv
  BY DEF GrpcInv
<1>3. grpc_client \in {"cli", "app"} /\ Len(grpc_todo) = 1
  BY <1>1, <1>2, AtCallFacts
<1>4. Follows(grpc_todo', grpc_client', grpc_request') /\ Len(grpc_todo') = 0
  BY <1>1 DEF Follows
<1>5. Checked(Len(grpc_todo'), grpc_client', grpc_request', grpc_schema')
  <2>1. Checked(1, grpc_client, grpc_request, grpc_schema)
    BY <1>2, <1>3 DEF PlanInv
  <2>2. Checked(0, grpc_client, grpc_request, grpc_schema)
    <3>1. 0 = 1 - 1 /\ 0 \in Nat /\ 1 \in Nat
      OBVIOUS
    <3> QED  BY <2>1, <3>1, CheckedNext
  <2> QED  BY <1>1, <1>4, <2>2
<1>6. PlanInv'
  BY <1>1, <1>3, <1>4, <1>5 DEF PlanInv
<1>7. ReflectionInv'
  <2>1. ~(Len(grpc_todo') > StepsAfter(grpc_client'))
    BY <1>4 DEF StepsAfter
  <2> QED  BY <1>1, <1>2, <2>1 DEF ReflectionInv, Reflects
<1>8. MessagesInv'
  <2>1. Len(grpc_todo') <= 1
    BY <1>4
  <2> QED  BY <1>1, <1>2, <1>3, <2>1 DEF MessagesInv
<1> QED  BY <1>6, <1>7, <1>8 DEF GrpcInv

LEMMA CancelCallKeeps ==
  ASSUME GrpcInv, CancelCall
  PROVE  GrpcInv'
<1>1. /\ grpc_client = "app" /\ grpc_ended = "no" /\ grpc_ended' = "cancelled"
      /\ UNCHANGED <<grpc_client, grpc_request, grpc_todo, grpc_schema, reflection, calls_out,
                     served, received, grpc_shown>>
  BY DEF CancelCall
<1>2. PlanInv' /\ ReflectionInv'
  BY <1>1 DEF GrpcInv, PlanInv, ReflectionInv
<1>3. MessagesInv'
  BY <1>1 DEF GrpcInv, MessagesInv
<1> QED  BY <1>2, <1>3 DEF GrpcInv

LEMMA GrpcStep ==
  ASSUME GrpcInv, [GrpcNext]_grpcVars
  PROVE  GrpcInv'
<1>1. ASSUME NEW c \in {"cli", "app", "reflect"}, NEW r \in GrpcRequests, StartGrpc(c, r)
      PROVE  GrpcInv'
  BY <1>1, StartGrpcStep
<1>2. ASSUME NEW s \in {"endpoint", "proto", "method", "messages", "metadata"}, CheckStep(s)
      PROVE  GrpcInv'
  BY <1>2, CheckStepKeeps
<1>3. ASSUME NEW s \in {"connect", "ready"}, NetworkStep(s) PROVE GrpcInv'
  BY <1>3, NetworkStepKeeps
<1>4. CASE ListServices
  BY <1>4, ListServicesKeeps
<1>5. CASE DescribeService
  BY <1>5, DescribeServiceKeeps
<1>6. CASE BuildSchema
  BY <1>6, BuildSchemaKeeps
<1>7. CASE SendInput \/ ServeMessage \/ ReceiveMessage
  BY <1>7, MessageSteps
<1>8. CASE FinishCall
  BY <1>8, FinishCallKeeps
<1>9. CASE CallFails
  <2>1. /\ AtStage("call") /\ FailCall
        /\ UNCHANGED <<grpc_client, grpc_request, calls_out, served, received>>
    BY <1>9 DEF CallFails
  <2>2. grpc_ended = "no" /\ grpc_client # "none"
    BY <2>1, AtCallFacts DEF GrpcInv
  <2> QED  BY <2>1, <2>2, FailStep
<1>10. CASE CancelCall
  BY <1>10, CancelCallKeeps
<1>11. CASE UNCHANGED grpcVars
  BY <1>11 DEF grpcVars, GrpcInv, PlanInv, ReflectionInv, MessagesInv
<1> QED  BY <1>1, <1>2, <1>3, <1>4, <1>5, <1>6, <1>7, <1>8, <1>9, <1>10, <1>11 DEF GrpcNext

LEMMA GrpcInvariant == GrpcSpec => []GrpcInv
<1>1. GrpcInv /\ [GrpcNext]_grpcVars => GrpcInv'
  BY GrpcStep
<1> QED  BY <1>1, GrpcStart, PTL DEF GrpcSpec

(* A server hears only of a call that is wholly in order, whichever client checks   *)
(* it and however the network and the reflection fail; a reflected schema has every   *)
(* service listed, from one version; and the user sees all of a call's answer, or    *)
(* of a stream's so far (the grpc commands, start_grpc_current, reflect).            *)
THEOREM GrpcCallsAreWhole == GrpcSpec => []CallsAreWhole
<1>1. GrpcInv => CallsAreWhole
  <2> SUFFICES ASSUME GrpcInv PROVE CallsAreWhole
    OBVIOUS
  <2>0. PlanInv /\ ReflectionInv /\ MessagesInv
    BY DEF GrpcInv
  <2>1. ASSUME calls_out > 0 \/ served > 0
        PROVE  /\ MessagesAreValid(grpc_request)
               /\ grpc_request.endpoint.ca # "unreadable"
               /\ grpc_request.endpoint.scheme = "http" => grpc_request.endpoint.identity = "none"
               /\ grpc_request.metadata = "valid"
               /\ grpc_request.service \in grpc_schema
    <3>1. grpc_client \in {"cli", "app"} /\ Len(grpc_todo) <= 1
      BY <2>0, <2>1 DEF MessagesInv
    <3>2. Checked(Len(grpc_todo), grpc_client, grpc_request, grpc_schema)
      BY <2>0 DEF PlanInv
    <3>3. PICK n \in Nat : n = Len(grpc_todo)
      BY <2>0 DEF PlanInv, Follows
    <3>4. n <= 1 /\ n <= 3 /\ n <= 4 /\ n <= 5 /\ n <= 6 /\ n <= 7
      BY <3>1, <3>3
    <3>5. CASE grpc_client = "cli"
      <4>1. /\ grpc_request.service \in grpc_schema /\ MessagesAreValid(grpc_request)
            /\ CliEndpointIsValid(grpc_request.endpoint) /\ CliMetadataIsValid(grpc_request)
        BY <3>2, <3>3, <3>4, <3>5 DEF Checked
      <4> QED  BY <4>1 DEF CliEndpointIsValid, CliMetadataIsValid
    <3>6. CASE grpc_client = "app"
      <4>1. /\ grpc_request.service \in grpc_schema /\ MessagesAreValid(grpc_request)
            /\ AppEndpointIsValid(grpc_request.endpoint) /\ AppMetadataIsValid(grpc_request)
        BY <3>2, <3>3, <3>4, <3>6 DEF Checked
      <4> QED  BY <4>1 DEF AppEndpointIsValid, AppMetadataIsValid
    <3> QED  BY <3>1, <3>5, <3>6
  <2>2. ASSUME reflection.version # "none", grpc_schema # {}
        PROVE  /\ reflection.listed \subseteq grpc_schema
               /\ \A file \in reflection.files : file[1] = reflection.version
    <3>1. Reflects(grpc_client, grpc_request)
      <4>1. reflection # NoReflection
        BY <2>2 DEF NoReflection
      <4> QED  BY <2>0, <4>1 DEF ReflectionInv
    <3>2. /\ reflection.left = {} /\ grpc_schema = {file[2] : file \in reflection.files}
          /\ \A s \in reflection.listed :
               s \in reflection.left \/ \E file \in reflection.files : file[2] = s
          /\ \A file \in reflection.files : file[1] = reflection.version
      BY <2>0, <2>2, <3>1 DEF ReflectionInv
    <3> QED  BY <3>2
  <2>3. IF grpc_ended = "ok" THEN grpc_client = "reflect" \/ Len(grpc_shown) = served
        ELSE IF grpc_client = "cli" /\ received # <<>> /\ grpc_request.server_streaming
             THEN grpc_shown = received
             ELSE grpc_shown = <<>>
    BY <2>0 DEF MessagesInv, ShownFor
  <2> QED  BY <2>1, <2>2, <2>3 DEF CallsAreWhole
<1> QED  BY <1>1, GrpcInvariant, PTL

(***************************************************************************)
(* The streams together                                                    *)
(***************************************************************************)
(* Events and texts arrive in the order in which they were sent, across           *)
(* reconnections; tunnels hand over what the target sent; and gRPC calls are made   *)
(* and shown whole.                                                            *)
THEOREM StreamsStayInOrder ==
  EventStreamSpec /\ WebSocketSpec /\ TunnelSpec /\ GrpcSpec => []StreamsKeepOrder
<1>1. EventsResumeInOrder /\ TextsSentInOrder /\ TunnelIsClean /\ CallsAreWhole
      => StreamsKeepOrder
  BY DEF StreamsKeepOrder
<1> QED  BY <1>1, StreamResumesInOrder, SocketSendsInOrder, TunnelHandsOverClean,
            GrpcCallsAreWhole, PTL
=============================================================================
