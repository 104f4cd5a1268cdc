----------------------------- MODULE GrpcCall -----------------------------
(***************************************************************************)
(* A gRPC call of `postly grpc call` and of the desktop, and the reflection *)
(* of a server's schema that the desktop and `postly grpc reflect` make     *)
(* (postly-cli/src/main.rs, postly-app/src/main.rs, postly-core/src/grpc.rs).*)
(*                                                                         *)
(* A client works through a list of steps: checks of what it was given,     *)
(* which succeed or not by the request alone, and steps of the network,     *)
(* which may fail.  The call itself is one HTTP/2 stream: the messages of   *)
(* the client go out while those of the server come in.                    *)
(***************************************************************************)
EXTENDS Naturals, Sequences

CONSTANTS
  GrpcServices,    \* the services of the server
  GrpcRequests,    \* the calls the user may ask for
  ServerMessages   \* bound: the messages a streaming server sends

ASSUME GrpcAssumption == ServerMessages \in Nat

VARIABLES
  grpc_client,     \* who calls: "none", "cli", "app", or "reflect"
  grpc_request,    \* what was asked for
  grpc_todo,       \* the steps that are left
  grpc_schema,     \* the services of the compiled or reflected schema
  grpc_ended,      \* "no", "ok", "error" or "cancelled"
  reflection,      \* version, services left to ask for, descriptors received
  calls_out,       \* how many messages of the client the server has
  served,          \* how many messages the server has sent
  received,        \* what the client has read of them
  grpc_shown       \* what the user sees

grpcVars ==
  <<grpc_client, grpc_request, grpc_todo, grpc_schema, grpc_ended, reflection,
    calls_out, served, received, grpc_shown>>
NoCall == [service |-> "none"]
NoReflection == [version |-> "none", listed |-> {}, left |-> {}, files |-> {}]

GrpcInit ==
  /\ grpc_client = "none" /\ grpc_request = NoCall /\ grpc_todo = <<>>
  /\ grpc_schema = {} /\ grpc_ended = "no" /\ reflection = NoReflection
  /\ calls_out = 0 /\ served = 0 /\ received = <<>> /\ grpc_shown = <<>>

-----------------------------------------------------------------------------
(* What a request must be like.                                             *)

(* configure_grpc_endpoint_with_passphrase: files of certificates belong to   *)
(* https, and the passphrase of a PKCS#12 identity to the environment.       *)
CliEndpointIsValid(endpoint) ==
  \/ endpoint.scheme = "http" /\ endpoint.ca = "none" /\ endpoint.identity = "none"
  \/ /\ endpoint.scheme = "https" /\ endpoint.ca # "unreadable"
     /\ endpoint.identity = "pkcs12" => endpoint.passphrase

(* build_grpc_endpoint: the desktop has neither PKCS#12 identities nor        *)
(* unverified servers.                                                      *)
AppEndpointIsValid(endpoint) ==
  /\ ~endpoint.insecure /\ endpoint.identity # "pkcs12"
  /\ \/ endpoint.scheme = "http" /\ endpoint.ca = "none" /\ endpoint.identity = "none"
     \/ endpoint.scheme = "https" /\ endpoint.ca # "unreadable"

(* One message, by default an empty one, or for a method that streams from   *)
(* the client a JSON array of them; each fits the method's input.            *)
MessagesAreValid(request) ==
  /\ request.input # "unusable"
  /\ IF request.client_streaming THEN request.input = "list" ELSE request.input # "list"
  /\ \A i \in 1 .. Len(request.messages) : request.messages[i] = "valid"

(* apply_grpc_metadata.                                                     *)
CliMetadataIsValid(request) ==
  request.metadata = "valid" /\ request.auth \in {"none", "bearer", "basic"}
AppMetadataIsValid(request) ==
  request.metadata = "valid" /\ request.auth \in {"none", "bearer", "basic", "header key"}

Passes(step) ==
  CASE step = "endpoint" -> IF grpc_client = "app" THEN AppEndpointIsValid(grpc_request.endpoint)
                            ELSE CliEndpointIsValid(grpc_request.endpoint)
    [] step = "proto" -> grpc_request.proto # {}
    [] step = "method" -> grpc_request.service \in grpc_schema
    [] step = "messages" -> MessagesAreValid(grpc_request)
    [] step = "metadata" -> IF grpc_client = "cli" THEN CliMetadataIsValid(grpc_request)
                            ELSE AppMetadataIsValid(grpc_request)

-----------------------------------------------------------------------------
(* The order of the steps.                                                  *)
CliSteps == <<"proto", "method", "messages", "endpoint", "connect", "ready", "metadata", "call">>
AppSteps(request) ==
  <<"endpoint", "connect", IF request.reflected THEN "list" ELSE "proto",
    "method", "messages", "ready", "metadata", "call">>
ReflectSteps == <<"endpoint", "connect", "list">>

StartGrpc(client, request) ==
  /\ grpc_client = "none"
  /\ grpc_client' = client /\ grpc_request' = request
  /\ grpc_todo' = CASE client = "cli" -> CliSteps
                    [] client = "app" -> AppSteps(request)
                    [] client = "reflect" -> ReflectSteps
  /\ UNCHANGED <<grpc_schema, grpc_ended, reflection, calls_out, served, received, grpc_shown>>

AtStage(step) == grpc_ended = "no" /\ grpc_todo # <<>> /\ Head(grpc_todo) = step
FailCall ==
  grpc_ended' = "error" /\ UNCHANGED <<grpc_todo, grpc_schema, reflection, grpc_shown>>

(* A check of the request; one that fails is the end of the call.           *)
CheckStep(step) ==
  /\ AtStage(step)
  /\ IF Passes(step)
     THEN /\ grpc_todo' = Tail(grpc_todo)
          /\ grpc_schema' = IF step = "proto" THEN grpc_request.proto ELSE grpc_schema
          /\ UNCHANGED <<grpc_ended, reflection, grpc_shown>>
     ELSE FailCall
  /\ UNCHANGED <<grpc_client, grpc_request, calls_out, served, received>>

(* connect_grpc_endpoint and Grpc::ready.                                    *)
NetworkStep(step) ==
  /\ AtStage(step)
  /\ \/ /\ grpc_todo' = Tail(grpc_todo)
        /\ UNCHANGED <<grpc_schema, grpc_ended, reflection, grpc_shown>>
     \/ FailCall
  /\ UNCHANGED <<grpc_client, grpc_request, calls_out, served, received>>

-----------------------------------------------------------------------------
(* Reflection: the list of the services, then the files of each of them.     *)
(* Whatever fails with v1 is tried again from the start with v1alpha.        *)
FallBackKeepingFiles ==
  /\ reflection' = [reflection EXCEPT !.version = "v1alpha", !.listed = {}, !.left = {}]
  /\ grpc_todo' = <<"list">> \o Tail(grpc_todo)
FallBack ==
  /\ reflection' = [NoReflection EXCEPT !.version = "v1alpha"]
  /\ grpc_todo' = <<"list">> \o Tail(grpc_todo)
ReflectionFails ==
  IF reflection.version = "v1alpha" THEN FailCall
  ELSE FallBack /\ UNCHANGED <<grpc_schema, grpc_ended, grpc_shown>>

(* reflect_v1 and reflect_v1alpha up to the list: no service is an error.    *)
ListServices ==
  /\ AtStage("list")
  /\ \/ \E listed \in SUBSET GrpcServices \ {{}} :
          /\ reflection' = [reflection EXCEPT
               !.version = IF @ = "none" THEN "v1" ELSE @, !.listed = listed, !.left = listed]
          /\ grpc_todo' = <<"describe">> \o Tail(grpc_todo)
          /\ UNCHANGED <<grpc_schema, grpc_ended, grpc_shown>>
     \/ ReflectionFails
  /\ UNCHANGED <<grpc_client, grpc_request, calls_out, served, received>>

(* FileContainingSymbol for the next service: its file, and maybe the file    *)
(* of another service, which it imports.                                    *)
DescribeService ==
  /\ AtStage("describe") /\ reflection.left # {}
  /\ \E service \in reflection.left :
       \/ /\ \E imports \in SUBSET GrpcServices :
               reflection' = [reflection EXCEPT
                 !.left = @ \ {service},
                 !.files = @ \cup {<<reflection.version, s>> : s \in imports \cup {service}}]
          /\ UNCHANGED <<grpc_todo, grpc_schema, grpc_ended, grpc_shown>>
       \/ ReflectionFails
  /\ UNCHANGED <<grpc_client, grpc_request, calls_out, served, received>>

(* from_descriptor_protos; `postly grpc reflect` prints the schema and ends.  *)
BuildSchema ==
  /\ AtStage("describe") /\ reflection.left = {}
  /\ \/ /\ grpc_schema' = {file[2] : file \in reflection.files}
        /\ grpc_todo' = Tail(grpc_todo)
        /\ grpc_ended' = IF grpc_client = "reflect" THEN "ok" ELSE "no"
        /\ UNCHANGED <<reflection, grpc_shown>>
     \/ ReflectionFails
  /\ UNCHANGED <<grpc_client, grpc_request, calls_out, served, received>>

-----------------------------------------------------------------------------
(* The call.                                                                *)
Inputs == IF grpc_request.client_streaming THEN Len(grpc_request.messages) ELSE 1

SendInput ==
  /\ AtStage("call") /\ calls_out < Inputs
  /\ calls_out' = calls_out + 1
  /\ UNCHANGED <<grpc_client, grpc_request, grpc_todo, grpc_schema, grpc_ended, reflection,
                 served, received, grpc_shown>>

(* The server may answer a stream before it has all of it.                   *)
ServeMessage ==
  /\ AtStage("call")
  /\ grpc_request.client_streaming \/ calls_out = 1
  /\ served < (IF grpc_request.server_streaming THEN ServerMessages ELSE 1)
  /\ served' = served + 1
  /\ UNCHANGED <<grpc_client, grpc_request, grpc_todo, grpc_schema, grpc_ended, reflection,
                 calls_out, received, grpc_shown>>

(* `stream.message()`: the command prints each message of a streaming server  *)
(* as it comes, the desktop collects them.                                  *)
ShowStreamed(client, shown, messages) == IF client = "cli" THEN messages ELSE shown
ReceiveMessage ==
  /\ AtStage("call") /\ Len(received) < served
  /\ received' = Append(received, Len(received) + 1)
  /\ grpc_shown' = IF grpc_request.server_streaming
                   THEN ShowStreamed(grpc_client, grpc_shown, received') ELSE grpc_shown
  /\ UNCHANGED <<grpc_client, grpc_request, grpc_todo, grpc_schema, grpc_ended, reflection,
                 calls_out, served>>

(* The server's status is OK: there is no message after it, and a method that *)
(* does not stream has exactly one.                                         *)
ShowResult(messages) == messages
FinishCall ==
  /\ AtStage("call") /\ Len(received) = served
  /\ grpc_request.client_streaming \/ calls_out = 1
  /\ grpc_request.server_streaming \/ served = 1
  /\ grpc_ended' = "ok" /\ grpc_todo' = <<>>
  /\ grpc_shown' = ShowResult(received)
  /\ UNCHANGED <<grpc_client, grpc_request, grpc_schema, reflection, calls_out, served, received>>

(* Another status, a message that does not decode, a broken connection, or   *)
(* the deadline of the endpoint.                                            *)
CallFails ==
  /\ AtStage("call") /\ FailCall
  /\ UNCHANGED <<grpc_client, grpc_request, calls_out, served, received>>

(* start_grpc_current drops the call, wherever it waits, when the token is    *)
(* cancelled; the command has no such token.                                *)
CancelCall ==
  /\ grpc_client = "app" /\ grpc_ended = "no"
  /\ AtStage("connect") \/ AtStage("list") \/ AtStage("describe") \/ AtStage("ready") \/ AtStage("call")
  /\ grpc_ended' = "cancelled"
  /\ UNCHANGED <<grpc_client, grpc_request, grpc_todo, grpc_schema, reflection, calls_out,
                 served, received, grpc_shown>>

GrpcNext ==
  \/ \E c \in {"cli", "app", "reflect"}, r \in GrpcRequests : StartGrpc(c, r)
  \/ \E s \in {"endpoint", "proto", "method", "messages", "metadata"} : CheckStep(s)
  \/ \E s \in {"connect", "ready"} : NetworkStep(s)
  \/ ListServices \/ DescribeService \/ BuildSchema
  \/ SendInput \/ ServeMessage \/ ReceiveMessage \/ FinishCall
  \/ CallFails \/ CancelCall

GrpcSpec == GrpcInit /\ [][GrpcNext]_grpcVars

-----------------------------------------------------------------------------
GrpcTypeOK ==
  /\ grpc_client \in {"none", "cli", "app", "reflect"}
  /\ grpc_request \in GrpcRequests \cup {NoCall}
  /\ grpc_schema \subseteq GrpcServices
  /\ grpc_ended \in {"no", "ok", "error", "cancelled"}
  /\ reflection.version \in {"none", "v1", "v1alpha"}
  /\ reflection.left \subseteq reflection.listed
  /\ served \in 0 .. ServerMessages + 1 /\ received = [i \in 1 .. Len(received) |-> i]
  /\ Len(received) <= served

(* The server hears of a call only when all of it is in order: the endpoint,  *)
(* every message of a stream, the metadata and the authentication, whichever  *)
(* client checks them in its own order.  A schema that was reflected comes    *)
(* from one version of the protocol and has every service the server listed   *)
(* in it.  The command has printed what it received of a stream; the desktop   *)
(* shows a call once it has ended well, and all of it.                       *)
CallsAreWhole ==
  /\ calls_out > 0 \/ served > 0 =>
       /\ MessagesAreValid(grpc_request)
       /\ grpc_request.endpoint.ca # "unreadable"
       /\ grpc_request.endpoint.scheme = "http" => grpc_request.endpoint.identity = "none"
       /\ grpc_request.metadata = "valid"
       /\ grpc_request.service \in grpc_schema
  /\ reflection.version # "none" /\ grpc_schema # {} =>
       /\ reflection.listed \subseteq grpc_schema
       /\ \A file \in reflection.files : file[1] = reflection.version
  /\ IF grpc_ended = "ok" THEN grpc_client = "reflect" \/ Len(grpc_shown) = served
     ELSE IF grpc_client = "cli" /\ received # <<>> /\ grpc_request.server_streaming
          THEN grpc_shown = received
          ELSE grpc_shown = <<>>
=============================================================================
