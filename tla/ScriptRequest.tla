-------------------------- MODULE ScriptRequest --------------------------
(***************************************************************************)
(* pm.request: the request a script is given, in Postman's shape, and the     *)
(* native request that is made of it when the script has ended               *)
(* (NODE_HARNESS of postly-core/src/scripting.rs: makeUrlFacade,              *)
(* nativeAuthToPostman, nativeBodyToPostman, and their ways back).            *)
(*                                                                         *)
(* A request keeps its query in two places: in the URL's own text, and in a   *)
(* list.  A query entry is a key, a value and whether it is disabled; the      *)
(* value of an entry of the text may be a template.  A content type is its      *)
(* two parts, the family the code finds in it, and whether it has parameters.  *)
(***************************************************************************)
EXTENDS Naturals, Sequences

CONSTANTS
  NativeRequests,   \* the requests scripts are run for
  NewQueries,       \* the query entries a script adds
  NewBodies,        \* the bodies a script puts in, in Postman's shape
  MaxRequestSteps   \* bound: what a script does to its request

ASSUME ScriptRequestAssumption == MaxRequestSteps \in Nat

VARIABLES
  pm_native,     \* the request that was given
  pm_url,        \* the facade of its URL
  pm_auth,       \* type, parameters and the native one they were made of
  pm_body,       \* the body, in Postman's shape
  pm_result,     \* serializeRequest, once the script has ended
  pm_expected,   \* history: the query as the script must see it
  pm_steps       \* history: what the script has done to each part

facadeVars == <<pm_native, pm_url, pm_auth, pm_body, pm_result, pm_expected, pm_steps>>
NoNative == [url |-> "none"]

FacadeInit ==
  /\ pm_native = NoNative /\ pm_url = NoNative /\ pm_auth = NoNative /\ pm_body = NoNative
  /\ pm_result = NoNative /\ pm_expected = <<>>
  /\ pm_steps = [query |-> 0, auth |-> 0, body |-> 0]

-----------------------------------------------------------------------------
(* The URL.                                                                 *)

(* replaceIn: the value of a template's variable, if it has one.              *)
Resolved(entry) ==
  [key |-> entry.key, value |-> IF entry.value = "{{v}}" THEN "v" ELSE entry.value,
   disabled |-> entry.disabled]
ResolvedAll(entries) == [i \in 1 .. Len(entries) |-> Resolved(entries[i])]
Enabled(entries) == SelectSeq(entries, LAMBDA e : ~e.disabled)

(* makeUrlFacade: the list, if there is one; or the entries of the text, if the  *)
(* URL can be parsed with its variables.                                      *)
UrlFacade(native) ==
  [text |-> native.text, parses |-> native.parses, structured |-> native.query # <<>>,
   query |-> IF native.query # <<>> THEN native.query
             ELSE IF native.parses THEN ResolvedAll(native.text) ELSE <<>>,
   query_dirty |-> FALSE, variable_dirty |-> FALSE]

(* serializeRequest: the list of the facade takes the place of both queries;      *)
(* or else the text, whose query, if a variable of the URL was changed, is that    *)
(* of the facade, with the values it had when the script began.               *)
UrlKeepingText(url) ==
  [text |-> url.text, query |-> IF url.structured \/ url.query_dirty THEN url.query ELSE <<>>]
UrlResult(url) ==
  IF url.structured \/ url.query_dirty THEN [text |-> <<>>, query |-> url.query]
  ELSE [text |-> IF url.variable_dirty THEN Enabled(url.query) ELSE url.text, query |-> <<>>]

(* What is sent: the entries of the text, then the enabled ones of the list.      *)
SentQuery(url) == ResolvedAll(url.text) \o Enabled(url.query)

-----------------------------------------------------------------------------
(* The authentication.  A parameter has the name of the field it stands for.     *)
RequiredFields(type) ==
  CASE type \in {"basic", "digest"} -> {"username", "password"}
    [] type = "bearer" -> {"token"}
    [] type = "client_credentials" -> {"token_url", "client_id", "client_secret"}
    [] type = "refresh_token" -> {"token_url", "client_id", "refresh_token"}
    [] OTHER -> {}
OptionalFacadeFields(type) ==
  CASE type = "client_credentials" -> {"scope"}
    [] type = "refresh_token" -> {"client_secret", "scope"}
    [] OTHER -> {}
PostmanType(type) == IF type \in {"client_credentials", "refresh_token"} THEN "oauth2" ELSE type

AuthFacade(native) ==
  [type |-> PostmanType(native.type), native |-> native,
   parameters |-> [f \in (RequiredFields(native.type) \cup OptionalFacadeFields(native.type))
                           \cap DOMAIN native.fields |-> native.fields[f]]]

(* postmanAuthToNative: the plain types are made anew; an OAuth type is the one    *)
(* the request had, with the parameters that are there; what the facade does      *)
(* not know stays as it was.                                                 *)
AuthResult(auth) ==
  LET Parameter(f) == IF f \in DOMAIN auth.parameters THEN auth.parameters[f] ELSE ""
      given == auth.native.fields
      oauth == auth.type = "oauth2" /\ PostmanType(auth.native.type) = "oauth2"
  IN IF auth.type \in {"basic", "digest", "bearer"}
     THEN [type |-> auth.type, fields |-> [f \in RequiredFields(auth.type) |-> Parameter(f)]]
     ELSE IF auth.type = "noauth" THEN [type |-> "noauth", fields |-> <<>>]
     ELSE IF ~oauth THEN auth.native
     ELSE [type |-> auth.native.type, fields |->
            [f \in DOMAIN given \cup RequiredFields(auth.native.type)
                     \cup (OptionalFacadeFields(auth.native.type) \cap DOMAIN auth.parameters) |->
               IF f \in RequiredFields(auth.native.type) \/ f \in DOMAIN auth.parameters
               THEN Parameter(f) ELSE given[f]]]

-----------------------------------------------------------------------------
(* The body.                                                                *)
ContentType(major, minor, family) ==
  [major |-> major, minor |-> minor, family |-> family, parameters |-> FALSE]
NoType == ContentType("none", "none", "none")

(* rawLanguage and contentTypeForLanguage: only the family of a content type, or   *)
(* its second part, makes the way through Postman's shape.                     *)
RawLanguage(type) == IF type.family = "other" THEN type.minor ELSE type.family
ContentTypeForLanguage(language) ==
  CASE language = "none" -> NoType
    [] language = "json" -> ContentType("application", "json", "json")
    [] language = "xml" -> ContentType("application", "xml", "xml")
    [] language = "html" -> ContentType("text", "html", "html")
    [] OTHER -> ContentType("text", language, "other")

PostmanBody(body) ==
  CASE body.type = "raw" ->
         [mode |-> "raw", text |-> body.text, language |-> RawLanguage(body.content_type)]
    [] body.type = "json" -> [mode |-> "raw", text |-> body.text, language |-> "json"]
    [] body.type = "graphql" ->
         [mode |-> "graphql", text |-> body.text,
          variables |-> IF body.variables = "null" THEN "object" ELSE body.variables]
    [] OTHER -> [mode |-> body.type, text |-> body.text]

(* postmanBodyToNative: a text of language json becomes a JSON body, if it is one.  *)
BodyResult(body) ==
  CASE body.mode = "raw" /\ body.language = "json" /\ body.text # "not json" ->
         [type |-> "json", text |-> body.text]
    [] body.mode = "raw" /\ ~(body.language = "json" /\ body.text # "not json") ->
         [type |-> "raw", text |-> body.text, content_type |-> ContentTypeForLanguage(body.language)]
    [] body.mode = "graphql" ->
         [type |-> "graphql", text |-> body.text,
          variables |-> IF body.variables = "scalar" THEN "object" ELSE body.variables]
    [] OTHER -> [type |-> body.mode, text |-> body.text]

-----------------------------------------------------------------------------
GiveRequest(native) ==
  /\ pm_native = NoNative
  /\ pm_native' = native
  /\ pm_url' = UrlFacade(native.url) /\ pm_auth' = AuthFacade(native.auth)
  /\ pm_body' = PostmanBody(native.body)
  /\ pm_expected' = UrlFacade(native.url).query
  /\ UNCHANGED <<pm_result, pm_steps>>

EditFacade(part) ==
  /\ pm_native # NoNative /\ pm_result = NoNative
  /\ pm_steps.query + pm_steps.auth + pm_steps.body < MaxRequestSteps
  /\ pm_steps' = [pm_steps EXCEPT ![part] = @ + 1]
  /\ UNCHANGED <<pm_native, pm_result>>

(* pm.request.url.query.add and addQueryParams.                               *)
AddQuery(entry) ==
  /\ EditFacade("query")
  /\ pm_url' = [pm_url EXCEPT !.query = Append(@, entry), !.query_dirty = TRUE]
  /\ pm_expected' = Append(pm_expected, entry)
  /\ UNCHANGED <<pm_auth, pm_body>>
RemoveQuery(key) ==
  /\ EditFacade("query")
  /\ LET kept == SelectSeq(pm_url.query, LAMBDA e : e.key # key)
     IN pm_url' = [pm_url EXCEPT !.query = kept, !.query_dirty = @ \/ kept # pm_url.query]
  /\ pm_expected' = SelectSeq(pm_expected, LAMBDA e : e.key # key)
  /\ UNCHANGED <<pm_auth, pm_body>>
(* pm.request.url.variables: another value for the variable of a template.        *)
SetUrlVariable ==
  /\ EditFacade("query")
  /\ pm_url' = [pm_url EXCEPT !.variable_dirty = TRUE]
  /\ UNCHANGED <<pm_expected, pm_auth, pm_body>>

(* pm.request.auth.upsert, and remove or a disabled parameter.                   *)
SetAuthParameter(field) ==
  /\ EditFacade("auth")
  /\ pm_auth' = [pm_auth EXCEPT !.parameters =
       [f \in DOMAIN @ \cup {field} |-> IF f = field THEN "new" ELSE @[f]]]
  /\ UNCHANGED <<pm_expected, pm_url, pm_body>>
RemoveAuthParameter(field) ==
  /\ EditFacade("auth") /\ field \in DOMAIN pm_auth.parameters
  /\ pm_auth' = [pm_auth EXCEPT !.parameters = [f \in DOMAIN @ \ {field} |-> @[f]]]
  /\ UNCHANGED <<pm_expected, pm_url, pm_body>>
SetAuthType(type) ==
  /\ EditFacade("auth")
  /\ pm_auth' = [pm_auth EXCEPT !.type = type]
  /\ UNCHANGED <<pm_expected, pm_url, pm_body>>

(* pm.request.body.update.                                                    *)
UpdateBody(body) ==
  /\ EditFacade("body")
  /\ pm_body' = body
  /\ UNCHANGED <<pm_expected, pm_url, pm_auth>>

(* serializeRequest.                                                          *)
ReturnRequest ==
  /\ pm_native # NoNative /\ pm_result = NoNative
  /\ pm_result' = [url |-> UrlResult(pm_url), auth |-> AuthResult(pm_auth),
                   body |-> BodyResult(pm_body)]
  /\ UNCHANGED <<pm_native, pm_url, pm_auth, pm_body, pm_expected, pm_steps>>

FacadeFields == {"username", "token", "client_id", "client_secret", "scope"}
FacadeNext ==
  \/ \E native \in NativeRequests : GiveRequest(native)
  \/ \E e \in NewQueries : AddQuery(e) \/ RemoveQuery(e.key)
  \/ SetUrlVariable
  \/ \E f \in FacadeFields : SetAuthParameter(f) \/ RemoveAuthParameter(f)
  \/ \E type \in {"noauth", "bearer", "oauth2"} : SetAuthType(type)
  \/ \E body \in NewBodies : UpdateBody(body)
  \/ ReturnRequest

FacadeSpec == FacadeInit /\ [][FacadeNext]_facadeVars

-----------------------------------------------------------------------------
FacadeTypeOK ==
  /\ pm_native \in NativeRequests \cup {NoNative}
  /\ pm_native # NoNative =>
       /\ {pm_url.structured, pm_url.query_dirty, pm_url.variable_dirty} \subseteq BOOLEAN
       /\ DOMAIN pm_auth.parameters \subseteq
            FacadeFields \cup {"password", "token_url", "refresh_token"}
  /\ pm_steps \in [{"query", "auth", "body"} -> 0 .. MaxRequestSteps]

(* A part of the request that a script does not touch is sent as it was: the same   *)
(* authentication; the same text as body, of the same family of content types;      *)
(* and the same query, unless the URL's text has one beside the list, which is        *)
(* dropped.  The query a script edits is sent as the script left it, and once.        *)
(* The result never mixes the credentials of two types.                          *)
ScriptKeepsRequest ==
  pm_result # NoNative =>
    /\ pm_steps.query = 0 /\ (pm_native.url.text = <<>> \/ pm_native.url.query = <<>>) =>
         SentQuery(pm_result.url) = SentQuery(pm_native.url)
    /\ pm_url.parses \/ pm_url.structured => SentQuery(pm_result.url) = Enabled(pm_expected)
    /\ pm_steps.auth = 0 => pm_result.auth = pm_native.auth
    /\ pm_result.auth.type = pm_native.auth.type
       \/ DOMAIN pm_result.auth.fields \subseteq RequiredFields(pm_result.auth.type)
    /\ pm_steps.body = 0 =>
         /\ pm_result.body.text = pm_native.body.text
         /\ pm_native.body.type = "raw" =>
              IF pm_result.body.type = "raw"
              THEN RawLanguage(pm_result.body.content_type)
                     = RawLanguage(pm_native.body.content_type)
              ELSE pm_native.body.content_type.family = "json"
=============================================================================
