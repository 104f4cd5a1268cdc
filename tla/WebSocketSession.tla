------------------------- MODULE WebSocketSession -------------------------
(***************************************************************************)
(* A WebSocket session: the desktop's worker with its command queue, its      *)
(* updates and its cancellation (start_websocket_current,                     *)
(* send_websocket_text, close_websocket, poll_websocket_pending), and          *)
(* `postly websocket` (run_websocket), which sends its list of messages on     *)
(* every connection and is killed rather than cancelled.                      *)
(*                                                                         *)
(* What the peer sends is left out except for pings and the end of a           *)
(* connection; the select of the desktop's worker takes a command, a message    *)
(* of the peer or the cancellation, whichever comes.  What it then writes, a     *)
(* text, a pong or the close frame, it awaits without a timeout, and while it    *)
(* does it sees neither commands nor the cancellation.                         *)
(***************************************************************************)
EXTENDS Naturals, Sequences

CONSTANTS
  MaxTexts,          \* bound: texts the user sends, and the CLI's list
  SocketReconnects,  \* websocket_reconnect_limit, --reconnect
  MaxUnread          \* bound: no ping comes while so many updates are unread

ASSUME WebSocketAssumption == {MaxTexts, SocketReconnects, MaxUnread} \subseteq Nat

VARIABLES
  socket_client,     \* "none", "app" or "cli"
  socket_phase,      \* "idle", "connecting", "open", "sending", "closing",
                     \* "sleeping" or "ended"
  handshakes,        \* history: connections tried
  commands,          \* the desktop's command queue: texts 1, 2, ... and 0 (Close)
  outgoing,          \* what is written while "sending": a text, or 0 (a pong)
  submitted,         \* history: texts submitted
  transmitted,       \* history: the texts sent (by the CLI: on this connection)
  socket_cancel,     \* cancel(): "no", "flagged" or "notified"
  socket_waiter,     \* cancelled(): "unchecked", "checked", "registered", "woken"
  updates,           \* the updates that the desktop has not polled yet
  websocket_connected,  \* what the desktop believes
  websocket_pending, \* the desktop has the receiver
  closing            \* history: the user asked for the end

socketUi == <<submitted, updates, websocket_connected, websocket_pending, closing>>
socketTexts == <<commands, outgoing, transmitted>>
socketVars ==
  <<socket_client, socket_phase, handshakes, socketTexts, socket_cancel,
    socket_waiter, socketUi>>

Close == 0
Pong == 0

WebSocketInit ==
  /\ socket_client = "none" /\ socket_phase = "idle" /\ handshakes = 0
  /\ commands = <<>> /\ outgoing = Pong /\ submitted = 0 /\ transmitted = <<>>
  /\ socket_cancel = "no" /\ socket_waiter = "unchecked"
  /\ updates = <<>> /\ websocket_connected = FALSE /\ websocket_pending = FALSE
  /\ closing = FALSE

IsApp == socket_client = "app"
(* sender.send: for the CLI a line on the terminal, and no error when the       *)
(* worker is on its way out anyway.                                          *)
Reports(update) ==
  updates' = IF IsApp /\ websocket_pending THEN Append(updates, update) ELSE updates
Hears == ~IsApp \/ websocket_pending
(* The worker goes on if its update was heard, and ends otherwise.             *)
Proceed(phase, update) ==
  /\ Reports(update)
  /\ socket_phase' = IF Hears THEN phase ELSE "ended"
  /\ socket_waiter' = "unchecked"
EndSession(update) == socket_phase' = "ended" /\ Reports(update) /\ UNCHANGED socket_waiter
(* A branch of the select is taken, which drops the wait for a cancellation, and *)
(* awaits what it writes.                                                    *)
AwaitPeer(phase) ==
  socket_phase' = phase /\ socket_waiter' = "unchecked" /\ UNCHANGED updates

StartWebSocket ==
  /\ socket_client = "none"
  /\ socket_client' \in {"app", "cli"}
  /\ socket_phase' = "connecting" /\ handshakes' = 1
  /\ websocket_pending' = (socket_client' = "app")
  /\ UNCHANGED <<socketTexts, submitted, socket_cancel, socket_waiter,
                 updates, websocket_connected, closing>>

HandshakeDone ==
  /\ socket_phase = "connecting"
  /\ Proceed("open", "connected")
  /\ transmitted' = IF IsApp THEN transmitted ELSE <<>>
  /\ UNCHANGED <<socket_client, handshakes, commands, outgoing, submitted, socket_cancel,
                 websocket_connected, websocket_pending, closing>>

Reconnecting == handshakes - 1 < SocketReconnects
TryAgain ==
  IF Reconnecting THEN Proceed("sleeping", "reconnecting") ELSE EndSession("failed or closed")

(* An error of the handshake; a timeout of it is retried by the desktop and    *)
(* ends the CLI.                                                             *)
HandshakeFails ==
  /\ socket_phase = "connecting"
  /\ \/ TryAgain
     \/ ~IsApp /\ EndSession("failed or closed")
  /\ UNCHANGED <<socket_client, handshakes, socketTexts, submitted, socket_cancel,
                 websocket_connected, websocket_pending, closing>>

SocketSleepEnds ==
  /\ socket_phase = "sleeping"
  /\ socket_phase' = "connecting" /\ socket_waiter' = "unchecked"
  /\ handshakes' = handshakes + 1
  /\ UNCHANGED <<socket_client, socketTexts, socket_cancel, socketUi>>

(* The peer closes or, for the desktop, the connection breaks.  For the CLI an  *)
(* error or a silence longer than its timeout ends the command.               *)
ConnectionEnds ==
  /\ socket_phase = "open"
  /\ \/ TryAgain
     \/ ~IsApp /\ EndSession("failed or closed")
  /\ UNCHANGED <<socket_client, handshakes, socketTexts, submitted, socket_cancel,
                 websocket_connected, websocket_pending, closing>>

(* The next command is a text, or the peer sends a ping, ...                   *)
KeepCommand == UNCHANGED commands
TakeCommand == commands' = Tail(commands)
SendCommandedText ==
  /\ IsApp /\ socket_phase = "open" /\ commands # <<>> /\ Head(commands) # Close
  /\ TakeCommand /\ outgoing' = Head(commands)
  /\ AwaitPeer("sending")
  /\ UNCHANGED <<socket_client, handshakes, transmitted, submitted, socket_cancel,
                 websocket_connected, websocket_pending, closing>>
AnswerPing ==
  /\ IsApp /\ socket_phase = "open" /\ Len(updates) < MaxUnread
  /\ AwaitPeer("sending")
  /\ UNCHANGED <<socket_client, handshakes, socketTexts, submitted, socket_cancel,
                 websocket_connected, websocket_pending, closing>>

(* ... and the send succeeds, or fails and with it the worker.                  *)
SendDone ==
  /\ socket_phase = "sending"
  /\ transmitted' = IF outgoing = Pong THEN transmitted ELSE Append(transmitted, outgoing)
  /\ outgoing' = Pong
  /\ Proceed("open", "message")
  /\ UNCHANGED <<socket_client, handshakes, commands, submitted, socket_cancel,
                 websocket_connected, websocket_pending, closing>>
SendFails ==
  /\ socket_phase = "sending"
  /\ outgoing' = Pong
  /\ EndSession("failed or closed")
  /\ UNCHANGED <<socket_client, handshakes, commands, transmitted, submitted, socket_cancel,
                 websocket_connected, websocket_pending, closing>>

(* Close, or a queue whose sender is gone.                                    *)
SenderIsGone == commands = <<>> /\ ~websocket_pending
AskedToClose == (commands # <<>> /\ Head(commands) = Close) \/ SenderIsGone
ObeyClose ==
  /\ IsApp /\ socket_phase = "open" /\ AskedToClose
  /\ commands' = IF commands = <<>> THEN <<>> ELSE Tail(commands)
  /\ AwaitPeer("closing")
  /\ UNCHANGED <<socket_client, handshakes, outgoing, transmitted, submitted, socket_cancel,
                 websocket_connected, websocket_pending, closing>>

(* The cancellation branch, and the wait for it: an open connection is closed.   *)
SocketSeesFlag == socket_waiter \in {"unchecked", "woken"} /\ socket_cancel # "no"
SocketCancelled ==
  /\ IsApp /\ socket_phase \in {"connecting", "open", "sleeping"}
  /\ \/ SocketSeesFlag /\ IF socket_phase = "open" THEN AwaitPeer("closing")
                          ELSE EndSession("failed or closed")
     \/ /\ ~SocketSeesFlag /\ socket_waiter \in {"unchecked", "checked"}
        /\ socket_waiter' = IF socket_waiter = "unchecked" THEN "checked" ELSE "registered"
        /\ UNCHANGED <<socket_phase, updates>>
  /\ UNCHANGED <<socket_client, handshakes, socketTexts, submitted, socket_cancel,
                 websocket_connected, websocket_pending, closing>>

(* socket.close(None) returns, with an error or not.                           *)
CloseDone ==
  /\ socket_phase = "closing"
  /\ EndSession("failed or closed")
  /\ UNCHANGED <<socket_client, handshakes, socketTexts, submitted, socket_cancel,
                 websocket_connected, websocket_pending, closing>>

(* The CLI sends its list after each handshake.                               *)
SendListedText ==
  /\ socket_client = "cli" /\ socket_phase = "open" /\ Len(transmitted) < MaxTexts
  /\ \/ transmitted' = Append(transmitted, Len(transmitted) + 1) /\ UNCHANGED socket_phase
     \/ socket_phase' = "ended" /\ UNCHANGED transmitted
  /\ UNCHANGED <<socket_client, handshakes, commands, outgoing, socket_cancel, socket_waiter,
                 socketUi>>

-----------------------------------------------------------------------------
(* The desktop: send_websocket_text, close_websocket, cancel_active (which      *)
(* cancels and closes), clear_response (which also drops both channels) and    *)
(* poll_websocket_pending.                                                   *)
SendText ==
  /\ websocket_pending /\ websocket_connected /\ submitted < MaxTexts
  /\ submitted' = submitted + 1
  /\ commands' = Append(commands, submitted')
  /\ UNCHANGED <<socket_client, socket_phase, handshakes, outgoing, transmitted, socket_cancel,
                 socket_waiter, updates, websocket_connected, websocket_pending, closing>>

CloseWebSocket ==
  /\ websocket_pending /\ ~closing
  /\ commands' = Append(commands, Close) /\ closing' = TRUE
  /\ UNCHANGED <<socket_client, socket_phase, handshakes, outgoing, transmitted, socket_cancel,
                 socket_waiter, submitted, updates, websocket_connected, websocket_pending>>

CancelWebSocket ==
  /\ websocket_pending /\ socket_cancel = "no"
  /\ socket_cancel' = "flagged"
  /\ UNCHANGED <<socket_client, socket_phase, handshakes, socketTexts, socket_waiter,
                 socketUi>>
NotifyWebSocket ==
  /\ socket_cancel = "flagged"
  /\ socket_cancel' = "notified" /\ closing' = TRUE
  /\ socket_waiter' = IF socket_waiter = "registered" THEN "woken" ELSE socket_waiter
  /\ commands' = IF websocket_pending THEN Append(commands, Close) ELSE commands
  /\ UNCHANGED <<socket_client, socket_phase, handshakes, outgoing, transmitted, submitted,
                 updates, websocket_connected, websocket_pending>>
ClearWebSocket ==
  /\ websocket_pending /\ socket_cancel = "notified"
  /\ websocket_pending' = FALSE /\ websocket_connected' = FALSE /\ updates' = <<>>
  /\ UNCHANGED <<socket_client, socket_phase, handshakes, socketTexts,
                 socket_cancel, socket_waiter, submitted, closing>>

PollWebSocket ==
  /\ websocket_pending /\ updates # <<>>
  /\ websocket_connected' =
       CASE Head(updates) = "connected" -> TRUE
         [] Head(updates) = "message" -> websocket_connected
         [] OTHER -> FALSE
  /\ websocket_pending' = (Head(updates) # "failed or closed")
  /\ updates' = Tail(updates)
  /\ UNCHANGED <<socket_client, socket_phase, handshakes, socketTexts,
                 socket_cancel, socket_waiter, submitted, closing>>

(* What the worker does by itself, and what it waits for the peer to do.         *)
TakesCommand == SendCommandedText \/ ObeyClose
SocketWorker ==
  HandshakeDone \/ HandshakeFails \/ SocketSleepEnds \/ TakesCommand \/ SocketCancelled
SocketPeer ==
  ConnectionEnds \/ AnswerPing \/ SendDone \/ SendFails \/ CloseDone \/ SendListedText
WebSocketNext ==
  \/ StartWebSocket \/ SocketWorker \/ SocketPeer
  \/ SendText \/ CloseWebSocket \/ CancelWebSocket \/ NotifyWebSocket
  \/ ClearWebSocket \/ PollWebSocket

(* The worker runs: handshakes take no longer than 30 s, a command that is there  *)
(* whenever the worker selects is taken, since select! polls its branches in a    *)
(* random order, and cancel() is completed.  The peer owes nothing: it need not    *)
(* answer, nor read what it is sent.                                           *)
WebSocketFairness ==
  /\ WF_socketVars(SocketWorker) /\ SF_socketVars(TakesCommand)
  /\ WF_socketVars(NotifyWebSocket)
WebSocketSpec == WebSocketInit /\ [][WebSocketNext]_socketVars /\ WebSocketFairness

-----------------------------------------------------------------------------
WebSocketTypeOK ==
  /\ socket_client \in {"none", "app", "cli"}
  /\ socket_phase \in {"idle", "connecting", "open", "sending", "closing", "sleeping", "ended"}
  /\ handshakes \in 0 .. SocketReconnects + 1
  /\ commands \in Seq(0 .. MaxTexts) /\ submitted \in 0 .. MaxTexts
  /\ outgoing \in 0 .. MaxTexts /\ (outgoing # Pong => socket_phase = "sending")
  /\ transmitted \in Seq(1 .. MaxTexts)
  /\ socket_cancel \in {"no", "flagged", "notified"}
  /\ socket_waiter \in {"unchecked", "checked", "registered", "woken"}
  /\ updates \in Seq({"connected", "reconnecting", "message", "failed or closed"})
  /\ {websocket_connected, websocket_pending, closing} \subseteq BOOLEAN

(* Every text goes out at most once and in the order it was submitted, over     *)
(* any number of reconnections, and until the session ends those that did not    *)
(* are in the queue, in order, but for one that is being written (the CLI sends  *)
(* its list again on every connection); and once the updates are polled, the     *)
(* desktop says "connected" exactly while the connection is open.               *)
SocketOpen == socket_phase \in {"open", "sending", "closing"}
TextsSentInOrder ==
  /\ \A i \in DOMAIN transmitted : transmitted[i] = i
  /\ IsApp /\ socket_phase # "ended" =>
       /\ ({outgoing} \cup {commands[i] : i \in DOMAIN commands}) \ {Close} =
            Len(transmitted) + 1 .. submitted
       /\ \A i \in DOMAIN commands :
            commands[i] # Close =>
              /\ outgoing < commands[i]
              /\ \A j \in 1 .. i - 1 : commands[j] < commands[i]
  /\ IsApp /\ websocket_pending /\ updates = <<>> => (websocket_connected <=> SocketOpen)

(* A session that the user closes or cancels ends, even if the peer never       *)
(* answers, the notification is missed, the close waits for a reconnection or    *)
(* pings keep coming; but not if the peer never reads: nothing bounds the time    *)
(* for which a text, a pong or the close frame is written, so that the session    *)
(* lasts until that write succeeds or the connection breaks.                    *)
WebSocketEnded == socket_phase = "ended"
WritesComplete == []<>(socket_phase \notin {"sending", "closing"})
CloseEndsWebSocket == WritesComplete => (closing ~> WebSocketEnded)
=============================================================================
