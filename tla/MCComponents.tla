---- MODULE MCComponents ----
(***************************************************************************)
(* The components that share no state, in one run of TLC: the initial      *)
(* state says which one the run explores, and only that one moves.  The    *)
(* reachable states are the union of the components' own, so each property *)
(* says of its component what a run of the component alone would say.      *)
(***************************************************************************)
EXTENDS Components, Variables, RequestEditor, HttpExchange, MCRequests,
        MCFormats, TLC

VARIABLE exploring   \* the component of this behaviour

Components ==
  {"variables", "environments", "files", "cookies", "tokens", "events",
   "websocket", "script", "workers", "editor", "exchange", "pkce",
   "tunnel", "grpc", "harness", "facade", "assertions", "postman",
   "openapi", "mock", "curl", "comparison"}

componentVars ==
  <<exploring, resolutionVars, environmentVars, fileVars, jarVars, oauthVars,
    streamVars, socketVars, scriptVars, deskVars, editorVars,
    httpVars, pkceVars, tunnelVars, grpcVars, harnessVars,
    facadeVars, assertionVars, formatVars, openApiVars, mockVars,
    curlVars, compareVars>>

ComponentsInit ==
  /\ exploring \in Components
  /\ ResolutionInit
  /\ EnvironmentsInit
  /\ WorkspaceFilesInit
  /\ CookieJarInit
  /\ OAuthInit
  /\ EventStreamInit
  /\ WebSocketInit
  /\ ScriptProcessInit
  /\ DesktopWorkersInit
  /\ RequestEditorInit
  /\ HttpExchangeInit
  /\ PkceBrowserInit
  /\ TunnelInit
  /\ GrpcInit
  /\ HarnessInit
  /\ FacadeInit
  /\ AssertionsInit
  /\ FormatInit
  /\ OpenApiInit
  /\ MockInit
  /\ CurlInit
  /\ ComparisonInit
  /\ exploring # "workers" => plan = CHOOSE p \in WorkPlans : TRUE
  /\ exploring # "comparison" => compare_request = CHOOSE r \in ComparedRequests : TRUE

ComponentsNext ==
  /\ UNCHANGED exploring
  /\ IF exploring = "variables" THEN ResolutionNext ELSE UNCHANGED resolutionVars
  /\ IF exploring = "environments" THEN EnvironmentsNext ELSE UNCHANGED environmentVars
  /\ IF exploring = "files" THEN WorkspaceFilesNext ELSE UNCHANGED fileVars
  /\ IF exploring = "cookies" THEN CookieJarNext ELSE UNCHANGED jarVars
  /\ IF exploring = "tokens" THEN OAuthNext ELSE UNCHANGED oauthVars
  /\ IF exploring = "events" THEN EventStreamNext ELSE UNCHANGED streamVars
  /\ IF exploring = "websocket" THEN WebSocketNext ELSE UNCHANGED socketVars
  /\ IF exploring = "script" THEN ScriptProcessNext ELSE UNCHANGED scriptVars
  /\ IF exploring = "workers" THEN DesktopWorkersNext ELSE UNCHANGED deskVars
  /\ IF exploring = "editor" THEN RequestEditorNext ELSE UNCHANGED editorVars
  /\ IF exploring = "exchange" THEN HttpExchangeNext ELSE UNCHANGED httpVars
  /\ IF exploring = "pkce" THEN PkceBrowserNext ELSE UNCHANGED pkceVars
  /\ IF exploring = "tunnel" THEN TunnelNext ELSE UNCHANGED tunnelVars
  /\ IF exploring = "grpc" THEN GrpcNext ELSE UNCHANGED grpcVars
  /\ IF exploring = "harness" THEN HarnessNext ELSE UNCHANGED harnessVars
  /\ IF exploring = "facade" THEN FacadeNext ELSE UNCHANGED facadeVars
  /\ IF exploring = "assertions" THEN AssertionsNext ELSE UNCHANGED assertionVars
  /\ IF exploring = "postman" THEN FormatNext ELSE UNCHANGED formatVars
  /\ IF exploring = "openapi" THEN OpenApiNext ELSE UNCHANGED openApiVars
  /\ IF exploring = "mock" THEN MockNext ELSE UNCHANGED mockVars
  /\ IF exploring = "curl" THEN CurlNext ELSE UNCHANGED curlVars
  /\ IF exploring = "comparison" THEN ComparisonNext ELSE UNCHANGED compareVars

ComponentsSpec ==
  /\ ComponentsInit /\ [][ComponentsNext]_componentVars
  /\ EventStreamFairness
  /\ WebSocketFairness
  /\ ScriptProcessFairness
  /\ PkceBrowserFairness

-----------------------------------------------------------------------------
Explored(component, property) == exploring = component => property

(* The state of the component that moves has its type.                      *)
ComponentsTypeOK ==
  /\ exploring \in Components
  /\ Explored("variables", ResolutionTypeOK)
  /\ Explored("environments", EnvironmentsTypeOK)
  /\ Explored("files", WorkspaceFilesTypeOK)
  /\ Explored("cookies", CookieJarTypeOK)
  /\ Explored("tokens", OAuthTypeOK)
  /\ Explored("events", EventStreamTypeOK)
  /\ Explored("websocket", WebSocketTypeOK)
  /\ Explored("script", ScriptProcessTypeOK)
  /\ Explored("workers", DesktopWorkersTypeOK)
  /\ Explored("editor", RequestEditorTypeOK)
  /\ Explored("exchange", HttpExchangeTypeOK)
  /\ Explored("pkce", PkceBrowserTypeOK)
  /\ Explored("tunnel", TunnelTypeOK)
  /\ Explored("grpc", GrpcTypeOK)
  /\ Explored("harness", HarnessTypeOK)
  /\ Explored("facade", FacadeTypeOK)
  /\ Explored("assertions", AssertionsTypeOK)
  /\ Explored("postman", FormatTypeOK)
  /\ Explored("openapi", OpenApiTypeOK)
  /\ Explored("mock", MockTypeOK)
  /\ Explored("curl", CurlTypeOK)
  /\ Explored("comparison", ComparisonTypeOK)

(* What is sent is the saved request with its variables resolved: templates *)
(* without a cycle resolve (Variables), the editor gives back the request   *)
(* it shows (RequestEditor), a script changes what it edits and nothing     *)
(* else (ScriptRequest), and nothing undefined or unsigned is sent          *)
(* (HttpExchange).                                                          *)
RequestsAreSentAsWritten ==
  /\ Explored("variables", AcyclicTemplatesResolve)
  /\ Explored("editor", EditorKeepsRequest)
  /\ Explored("exchange", ExchangeIsSound)
  /\ Explored("facade", ScriptKeepsRequest)

(* A request means the same after a format was written and read again       *)
(* (PostmanFormat, OpenApiFormat, CurlFormat), but for what each of these    *)
(* modules lists as lost: above all the token of a Postman bearer, which     *)
(* CredentialsSurviveImport is about, and the API keys of an OpenAPI         *)
(* document, which the import drops with a warning.  An OpenAPI document means *)
(* what its references stand for, schemas that mean the same accept the     *)
(* same values (ResponseAssertions), a comparison shows what is different   *)
(* (JsonComparison), and a client of the mock server gets the example that  *)
(* was saved for its request (MockServer).                                  *)
TranslationsKeepMeaning ==
  /\ Explored("postman", PostmanKeepsRequests)
  /\ Explored("curl", CurlKeepsRequests)
  /\ Explored("comparison", ComparisonIsExact)
  /\ Explored("openapi", OpenApiKeepsMeaning)
  /\ Explored("assertions", AssertionsAgree)
  /\ Explored("mock", MockAnswersAreExact)

(* Whatever is cancelled or times out ends: CancelEndsStream,               *)
(* CloseEndsWebSocket, ScriptReturns and BrowserWaitEnds in one formula,    *)
(* which says the same because only one of the four components moves and    *)
(* none of the others has ended.  Its premise is that of the WebSocket: the *)
(* desktop bounds the time of no write to the peer, so that a peer that     *)
(* does not read holds a closed or cancelled session.                       *)
CancelledWorkEnds ==
  WritesComplete =>
    \A f \in Flows :
      (StreamCancelled \/ closing \/ ScriptStarted \/ FlowWaits(f))
        ~> (StreamEnded \/ WebSocketEnded \/ ScriptReturned \/ FlowEnded(f))

-----------------------------------------------------------------------------
(* The instances. *)
SomeDefinitions ==
  {"environment", "collection"} \X {<<Literal>>, <<"b">>, <<"a", "b">>}
SomeTemplates == {<<"a">>, <<"b", Literal, "a">>, <<"a", "a", Unclosed>>}

FileNames == "Local" :> "local" @@ "local" :> "local" @@ "prod" :> "prod"
SamePrefix == [i \in RequestIds |-> "8a"]

OrdersOfWork ==
  {<<"http", "http">>, <<"http", "tests">>, <<"sse", "http">>, <<"schema", "script">>,
   <<"websocket", "grpc">>, <<"import", "http">>, <<"import", "run">>, <<"run", "import">>,
   <<"run", "run">>}

NoAuth == [kind |-> "None", fields |-> <<>>, location |-> "Header", hidden |-> NoText]
EditedAuths ==
  {[kind |-> "Basic", fields |-> <<"a", "b">>, location |-> "Header", hidden |-> NoText],
   [kind |-> "ApiKey", fields |-> <<"a", "b">>, location |-> "Query", hidden |-> NoText],
   [kind |-> "Pkce", fields |-> <<"a", "b", "a", "b", "", "", NoText>>,
    location |-> "Header", hidden |-> "s"],
   [kind |-> "DeviceCode", fields |-> <<"a", "b", "a", NoText, "b">>,
    location |-> "Header", hidden |-> NoText]}
NoBody == [kind |-> "None"]
EditedBodies ==
  {NoBody,
   [kind |-> "Raw", text |-> "a", content_type |-> NoText],
   [kind |-> "Raw", text |-> "b", content_type |-> "text/html"],
   [kind |-> "Json", text |-> "{}"],
   [kind |-> "Graphql", text |-> "a", variables |-> "null", operation_name |-> "b"],
   [kind |-> "Graphql", text |-> "b", variables |-> "{}", operation_name |-> NoText],
   [kind |-> "Form", fields |-> "a"]}
EditedRequests ==
  LET Request(body, auth, grpc, assertions, script) ==
        [body |-> body, auth |-> auth, grpc |-> grpc, assertions |-> assertions,
         script |-> script, rest |-> "r"]
  IN {Request(b, NoAuth, NoText, <<>>, NoText) : b \in EditedBodies}
     \cup {Request(NoBody, a, NoText, <<>>, " ") : a \in EditedAuths}
     \cup {Request(NoBody, NoAuth, "svc", <<>>, "a"),
           Request(NoBody, NoAuth, NoText,
             <<[kind |-> "JsonPointerEquals", value |-> "a"],
               [kind |-> "Status", value |-> "200"],
               [kind |-> "JsonSchema", value |-> "{}"]>>, "a")}

RequestsToSend ==
  LET Request(parts, defect, auth, content, empty) ==
        [p \in ResolvedParts |-> IF p \in DOMAIN parts THEN parts[p] ELSE "plain"]
        @@ [defect |-> defect, auth |-> auth, content |-> content,
            empty_credentials |-> empty]
  IN {Request([q \in {p} |-> v], "none", "client credentials", "text", FALSE) :
        p \in ResolvedParts, v \in {"undefined", "disabled"}}
     \cup {Request(<<>>, d, "bearer", "text", FALSE) :
             d \in {"grpc", "url", "method", "header"}}
     \cup {Request(<<>>, "none", a, c, e) :
             a \in {"none", "digest", "aws", "device code"},
             c \in {"text", "multipart"}, e \in BOOLEAN}
Challenges ==
  LET Digest(nonce, realm, algorithm, qop) ==
        [scheme |-> "Digest", nonce |-> nonce, realm |-> realm,
         algorithm |-> algorithm, qop |-> qop]
      Basic == [scheme |-> "Basic", nonce |-> 0]
  IN {<<>>, <<Basic>>, <<Basic, Digest(1, TRUE, "SHA-256", {"auth-int"})>>,
      <<Digest(0, TRUE, "MD5", {}), Digest(2, TRUE, "MD5", {})>>,
      <<Digest(2, TRUE, "MD5", {"other"})>>}

====
