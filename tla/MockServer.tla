---------------------------- MODULE MockServer ----------------------------
(***************************************************************************)
(* postly mock (load_mock_routes and run_mock_server of postly-cli/src/main.rs):  *)
(* saved response examples, served to one client after the other.               *)
(*                                                                         *)
(* The server looks at its listener and at Ctrl-C only between two clients: a     *)
(* client that sends nothing keeps the others waiting, a Ctrl-C meanwhile is       *)
(* lost, and a client that is gone when its answer is written ends the server.     *)
(***************************************************************************)
EXTENDS Naturals, Sequences, SequencesExt

CONSTANTS
  MockClients,      \* the programs that connect
  MockProjects,     \* what is served: the requests of each collection, the filter and the variables
  MockTargets,      \* what each client may ask for: [method, path]
  MockHeaderLimit,  \* MAX_HEADER_BYTES, in pieces of a request
  MaxPieces         \* bound: the pieces a client sends

ASSUME MockAssumption == MockHeaderLimit \in Nat \ {0} /\ MaxPieces \in Nat

VARIABLES
  mock_project,   \* the project, its environment and whether --once was given
  mock_routes,    \* routes: [method, path, example]
  mock_server,    \* "off", "listening", "reading", "writing", "stopped" or "failed"
  mock_client,    \* the client that is served
  mock_backlog,   \* the clients that wait to be accepted, in order
  mock_sent,      \* what each client sent and the server did not read: [pieces, ended, target]
  mock_read,      \* how many pieces of its request were read
  mock_gone,      \* the clients that went away
  mock_answers    \* history: the clients that were answered, with their answers

mockVars == <<mock_project, mock_routes, mock_server, mock_client, mock_backlog, mock_sent,
              mock_read, mock_gone, mock_answers>>
NoClient == "none"
NoProject == [collections |-> <<>>]
NoPieces == [pieces |-> 0, ended |-> FALSE, complete |-> FALSE, target |-> <<>>]
NotFound == [status |-> 404, type |-> "application/json", body |-> "no example"]
BadRequest == [status |-> 400, type |-> "text/plain", body |-> "error"]

-----------------------------------------------------------------------------
(* load_mock_routes: one route for each example of the requests in scope, in their order.    *)
(* The variables of the URL and the body are resolved once; a URL that does not parse is     *)
(* what follows its first unresolved template, and without one it has no path.           *)
ResolvedIn(variables, value) == IF value \in DOMAIN variables THEN variables[value] ELSE value
RoutePath(variables, url) ==
  IF url.base \in {"host", "template"} THEN <<ResolvedIn(variables, url.path)>> ELSE <<>>
RoutesOfRequest(variables, request) ==
  LET paths == RoutePath(variables, request.url)
  IN IF paths = <<>> THEN <<>>
     ELSE [i \in DOMAIN request.examples |->
             [method |-> request.method, path |-> Head(paths),
              example |-> [request.examples[i] EXCEPT !.body = ResolvedIn(variables, @)]]]
RoutesOfCollection(project, collection) ==
  FlattenSeq([i \in DOMAIN collection.requests |->
                RoutesOfRequest(project.environment @@ collection.variables, collection.requests[i])])
InScope(project) ==
  SelectSeq(project.collections, LAMBDA c : project.only \in {"all", c.name})
RoutesOf(project) ==
  FlattenSeq([i \in DOMAIN InScope(project) |-> RoutesOfCollection(project, InScope(project)[i])])

(* mock_response_for: the first route of the method and path; the query is not looked at.    *)
FirstMatch(routes, target) ==
  SelectSeq(routes, LAMBDA r : r.method = target.method /\ r.path = target.path)
LastMatch(routes, target) == Reverse(FirstMatch(routes, target))
ResponseOf(example) ==
  [status |-> IF example.status = 0 THEN 200 ELSE example.status,
   type |-> IF example.type = "" THEN "text/plain" ELSE example.type, body |-> example.body]
MockResponseForLast(routes, target) ==
  LET matching == LastMatch(routes, target)
  IN IF matching = <<>> THEN NotFound ELSE ResponseOf(Head(matching).example)
MockResponseFor(routes, target) ==
  LET matching == FirstMatch(routes, target)
  IN IF matching = <<>> THEN NotFound ELSE ResponseOf(Head(matching).example)

-----------------------------------------------------------------------------
MockInit ==
  /\ mock_project = NoProject /\ mock_routes = <<>> /\ mock_server = "off" /\ mock_client = NoClient
  /\ mock_backlog = <<>> /\ mock_sent = [c \in MockClients |-> NoPieces]
  /\ mock_read = 0 /\ mock_gone = {} /\ mock_answers = <<>>

(* Without a route the command fails before it listens.                               *)
StartMock(project) ==
  /\ mock_server = "off"
  /\ mock_project' = project /\ mock_routes' = RoutesOf(project)
  /\ mock_server' = IF RoutesOf(project) = <<>> THEN "failed" ELSE "listening"
  /\ UNCHANGED <<mock_client, mock_backlog, mock_sent, mock_read, mock_gone, mock_answers>>

(* The clients.                                                              *)
HasConnected(c) ==
  \/ mock_client = c \/ Contains(mock_backlog, c)
  \/ \E i \in DOMAIN mock_answers : mock_answers[i].client = c
ConnectClient(c) ==
  /\ mock_server \in {"listening", "reading", "writing"} /\ ~HasConnected(c) /\ c \notin mock_gone
  /\ mock_backlog' = Append(mock_backlog, c)
  /\ UNCHANGED <<mock_project, mock_routes, mock_server, mock_client, mock_sent, mock_read,
                 mock_gone, mock_answers>>
(* The request line is in the first piece; the last one ends the header.                 *)
SendPiece(c, target, last) ==
  /\ HasConnected(c) /\ c \notin mock_gone /\ ~mock_sent[c].ended /\ ~mock_sent[c].complete
  /\ mock_sent[c].pieces < MaxPieces
  /\ mock_sent[c].target \in {<<>>, <<target>>}
  /\ mock_sent' = [mock_sent EXCEPT ![c].pieces = @ + 1, ![c].target = <<target>>, ![c].complete = last]
  /\ UNCHANGED <<mock_project, mock_routes, mock_server, mock_client, mock_backlog, mock_read,
                 mock_gone, mock_answers>>
EndSending(c) ==
  /\ HasConnected(c) /\ c \notin mock_gone /\ ~mock_sent[c].ended
  /\ mock_sent' = [mock_sent EXCEPT ![c].ended = TRUE]
  /\ UNCHANGED <<mock_project, mock_routes, mock_server, mock_client, mock_backlog, mock_read,
                 mock_gone, mock_answers>>
LeaveMock(c) ==
  /\ HasConnected(c) /\ c \notin mock_gone
  /\ mock_gone' = mock_gone \cup {c}
  /\ UNCHANGED <<mock_project, mock_routes, mock_server, mock_client, mock_backlog, mock_sent,
                 mock_read, mock_answers>>

-----------------------------------------------------------------------------
AcceptClient ==
  /\ mock_server = "listening" /\ mock_backlog # <<>>
  /\ mock_server' = "reading" /\ mock_client' = Head(mock_backlog)
  /\ mock_backlog' = Tail(mock_backlog) /\ mock_read' = 0
  /\ UNCHANGED <<mock_project, mock_routes, mock_sent, mock_gone, mock_answers>>

HeaderEnds == LET sent == mock_sent[mock_client] IN sent.complete /\ mock_read = sent.pieces
TooLong == mock_read > MockHeaderLimit /\ ~HeaderEnds
(* read_mock_request: until the header ends, the client sends no more, or it is too long.    *)
ReadPieces ==
  /\ mock_server = "reading" /\ ~HeaderEnds /\ ~TooLong
  /\ \E n \in mock_read + 1 .. mock_sent[mock_client].pieces : mock_read' = n
  /\ UNCHANGED <<mock_project, mock_routes, mock_server, mock_client, mock_backlog, mock_sent,
                 mock_gone, mock_answers>>
NoMoreComes ==
  /\ mock_read = mock_sent[mock_client].pieces
  /\ mock_sent[mock_client].ended \/ mock_client \in mock_gone
RequestIsRead ==
  /\ mock_server = "reading" /\ (HeaderEnds \/ TooLong \/ NoMoreComes)
  /\ mock_server' = "writing"
  /\ UNCHANGED <<mock_project, mock_routes, mock_client, mock_backlog, mock_sent, mock_read,
                 mock_gone, mock_answers>>
(* What was read has no request line if it is empty.                                  *)
AnswerOf ==
  IF TooLong \/ mock_read = 0 THEN BadRequest
  ELSE MockResponseFor(mock_routes, Head(mock_sent[mock_client].target))

(* write_mock_response, after the delay; only then does the server look at --once and at     *)
(* its listener again.                                                         *)
WriteAnswer ==
  /\ mock_server = "writing"
  /\ mock_answers' = Append(mock_answers, [client |-> mock_client, answer |-> AnswerOf, read |-> mock_read])
  /\ mock_server' = IF mock_project.once THEN "stopped" ELSE "listening"
  /\ mock_client' = NoClient
  /\ UNCHANGED <<mock_project, mock_routes, mock_backlog, mock_sent, mock_read, mock_gone>>
(* A connection that was reset: `?` leaves the loop.                                   *)
WriteFails ==
  /\ mock_server \in {"reading", "writing"} /\ mock_client \in mock_gone
  /\ mock_server' = "failed"
  /\ UNCHANGED <<mock_project, mock_routes, mock_client, mock_backlog, mock_sent, mock_read,
                 mock_gone, mock_answers>>

(* Ctrl-C is seen by a server that waits for a client, and lost by one that serves one.      *)
PressCtrlC ==
  /\ mock_server = "listening" /\ mock_server' = "stopped"
  /\ UNCHANGED <<mock_project, mock_routes, mock_client, mock_backlog, mock_sent, mock_read,
                 mock_gone, mock_answers>>

MockNext ==
  \/ \E p \in MockProjects : StartMock(p)
  \/ \E c \in MockClients :
       \/ ConnectClient(c) \/ EndSending(c) \/ LeaveMock(c)
       \/ \E t \in MockTargets[c], last \in BOOLEAN : SendPiece(c, t, last)
  \/ AcceptClient \/ ReadPieces \/ RequestIsRead \/ WriteAnswer \/ WriteFails \/ PressCtrlC

MockSpec == MockInit /\ [][MockNext]_mockVars

-----------------------------------------------------------------------------
MockTypeOK ==
  /\ mock_server \in {"off", "listening", "reading", "writing", "stopped", "failed"}
  /\ mock_client \in MockClients \cup {NoClient}
  /\ mock_server \in {"reading", "writing"} => mock_client # NoClient
  /\ ToSet(mock_backlog) \subseteq MockClients /\ mock_gone \subseteq MockClients
  /\ mock_read \in 0 .. MaxPieces

(* The answer the documentation promises: an example that was saved for the method and path  *)
(* in the collections that are served, none of another, and the first one of a request.     *)
IsPromised(answer, target) ==
  LET requests == {<<c, i>> \in (DOMAIN mock_project.collections) \X (0 .. 9) :
                     /\ mock_project.only \in {"all", mock_project.collections[c].name}
                     /\ i \in DOMAIN mock_project.collections[c].requests}
      Variables(c) == mock_project.environment @@ mock_project.collections[c].variables
      Request(r) == mock_project.collections[r[1]].requests[r[2]]
      matching == {r \in requests : /\ Request(r).method = target.method /\ Request(r).examples # <<>>
                                    /\ RoutePath(Variables(r[1]), Request(r).url) = <<target.path>>}
      Earlier(r, s) == r[1] < s[1] \/ (r[1] = s[1] /\ r[2] < s[2])
  IN IF matching = {} THEN answer.status = 404
     ELSE \E r \in matching :
            /\ \A s \in matching \ {r} : Earlier(r, s)
            /\ answer.body = ResolvedIn(Variables(r[1]), Request(r).examples[1].body)
            /\ answer.status \in {200, Request(r).examples[1].status}

(* Every answer is that of the request its client sent, though the request was cut short or   *)
(* came in pieces; one that is too long or empty is refused.  No client is answered twice,    *)
(* and one answer ends a server that was started with --once.                         *)
MockAnswersAreExact ==
  /\ \A i \in DOMAIN mock_answers :
       LET a == mock_answers[i]
       IN IF a.read = 0 THEN a.answer = BadRequest
          ELSE \/ a.answer = BadRequest /\ a.read > MockHeaderLimit
               \/ IsPromised(a.answer, Head(mock_sent[a.client].target))
  /\ \A i, j \in DOMAIN mock_answers : mock_answers[i].client = mock_answers[j].client => i = j
  /\ mock_server \in {"listening", "reading", "writing"} /\ mock_answers # <<>> => ~mock_project.once
=============================================================================
