---------------------------- MODULE RequestEditor ----------------------------
(***************************************************************************)
(* The desktop's request editor (postly-app/src/main.rs): load_request_editors *)
(* spreads a request over text fields that every request shares, the panels      *)
(* change them, and edited_request puts a request together again, for every       *)
(* save, send and change of tab.                                             *)
(*                                                                         *)
(* Texts are tokens: "" is empty, Blank is white space, a JSON text stands for     *)
(* the value it parses to, and Broken does not parse.  Parts of a request that     *)
(* the editor changes in place (name, address, query, headers, form fields) are   *)
(* `rest`.                                                                   *)
(***************************************************************************)
EXTENDS Naturals, Sequences, SequencesExt

CONSTANTS
  SavedRequests,     \* the requests that can be opened
  EditorTexts,       \* what the user types
  MaxEditorSteps     \* bound: requests opened and edits

ASSUME RequestEditorAssumption == MaxEditorSteps \in Nat

Blank == " "
Broken == "{"
EmptyObject == "{}"
ExampleQuery == "query Example"
NoText == "None"                 \* an absent Option<String>

VARIABLES
  saved,         \* self.request
  opened_request,    \* history: the request as it was opened
  body_kind, body_text, raw_content_type,
  graphql_query, graphql_variables, graphql_operation_name,
  auth_kind, auth_text, api_key_location,
  assertion_json_text,
  script_text,
  meant,         \* history: the JSON value each assertion should have, by name
  untouched,     \* history: no edit since the request was opened
  editor_steps

bodyVars == <<body_kind, body_text, raw_content_type, graphql_query,
              graphql_variables, graphql_operation_name>>
authVars == <<auth_kind, auth_text, api_key_location>>
editorVars == <<saved, opened_request, bodyVars, authVars, assertion_json_text, script_text,
                meant, untouched, editor_steps>>

AuthSlots == 1..7
(* How many of the text fields each kind of authentication uses, and which of    *)
(* them are optional.                                                        *)
AuthFields ==
  [None |-> 0, Bearer |-> 1, Basic |-> 2, Digest |-> 2, ApiKey |-> 2,
   ClientCredentials |-> 4, Pkce |-> 7, RefreshToken |-> 4, DeviceCode |-> 5, Aws |-> 5]
OptionalFields(kind) ==
  CASE kind = "ClientCredentials" -> {4}
    [] kind = "Pkce"              -> {7}
    [] kind = "RefreshToken"      -> {4}
    [] kind = "DeviceCode"        -> {4, 5}
    [] kind = "Aws"               -> {5}
    [] OTHER                      -> {}
(* `..` in the patterns of load_request_editors.                               *)
KindsWithHiddenSecret == {"Pkce", "RefreshToken"}

IsBlank(text) == text \in {"", Blank, NoText}
Optional(text) == IF IsBlank(text) THEN NoText ELSE text
TextOf(option) == IF option = NoText THEN "" ELSE option

RawKind(content_type) ==
  CASE content_type = "application/xml" -> "Xml"
    [] content_type = "text/html"       -> "Html"
    [] content_type = "text/javascript" -> "JavaScript"
    [] OTHER                            -> "Raw"
RawKinds == {"Raw", "Xml", "Html", "JavaScript"}

JsonAssertions == {"JsonPointerEquals", "JsonPointerContains", "JsonSchema"}

RequestEditorInit ==
  /\ saved = CHOOSE r \in SavedRequests : r.body.kind = "None" /\ r.assertions = <<>> /\ r.grpc = NoText
  /\ opened_request = saved
  /\ body_kind = "None" /\ body_text = "" /\ raw_content_type = ""
  /\ graphql_query = "" /\ graphql_variables = "" /\ graphql_operation_name = ""
  /\ auth_kind = "None" /\ auth_text = [i \in AuthSlots |-> ""]
  /\ api_key_location = "Header"
  /\ assertion_json_text = <<>> /\ script_text = ""
  /\ meant = <<>> /\ untouched = FALSE /\ editor_steps = 0

Count == editor_steps < MaxEditorSteps /\ editor_steps' = editor_steps + 1
Edit == Count /\ untouched' = FALSE

-----------------------------------------------------------------------------
(* load_request_editors, branch by branch: a raw body's kind comes from its     *)
(* content type, and only a GraphQL body writes the GraphQL fields.            *)
LoadBody(r) ==
  LET b == r.body
      kind == IF b.kind = "Raw" THEN RawKind(b.content_type) ELSE b.kind
  IN /\ body_kind' = IF r.grpc # NoText /\ kind = "None" THEN "Json" ELSE kind
     /\ body_text' = CASE b.kind \in {"Raw", "Json"}          -> b.text
                       [] r.grpc # NoText /\ kind = "None"    -> EmptyObject
                       [] OTHER                               -> ""
     /\ raw_content_type' = IF b.kind = "Raw" THEN TextOf(b.content_type) ELSE ""
     /\ IF b.kind = "Graphql"
        THEN /\ graphql_query' = b.text
             /\ graphql_variables' = b.variables
             /\ graphql_operation_name' = TextOf(b.operation_name)
        ELSE UNCHANGED <<graphql_query, graphql_variables, graphql_operation_name>>

LoadAuth(a) ==
  /\ auth_kind' = a.kind
  /\ auth_text' = [i \in AuthSlots |-> IF i <= AuthFields[a.kind] THEN TextOf(a.fields[i])
                                       ELSE ""]
  /\ api_key_location' = IF a.kind = "ApiKey" THEN a.location ELSE "Header"

JsonText(assertion) == IF assertion.kind \in JsonAssertions THEN assertion.value ELSE ""

LoadRequest(r) ==
  /\ Count
  /\ saved' = r /\ opened_request' = r
  /\ LoadBody(r) /\ LoadAuth(r.auth)
  /\ assertion_json_text' = [i \in DOMAIN r.assertions |-> JsonText(r.assertions[i])]
  /\ script_text' = TextOf(r.script)
  /\ meant' = [i \in DOMAIN r.assertions |-> JsonText(r.assertions[i])]
  /\ untouched' = TRUE

-----------------------------------------------------------------------------
(* The panels.                                                               *)

(* render_body: another kind of body fills an empty text and sets the content   *)
(* type; the structured bodies start empty.                                   *)
SelectBodyKind(kind) ==
  /\ Edit /\ kind # body_kind
  /\ body_kind' = kind
  /\ body_text' = IF kind = "Json" /\ body_text = "" THEN EmptyObject ELSE body_text
  /\ graphql_query' =
       IF kind = "Graphql" /\ graphql_query = "" THEN ExampleQuery ELSE graphql_query
  /\ graphql_variables' =
       IF kind = "Graphql" /\ graphql_variables = "" THEN EmptyObject ELSE graphql_variables
  /\ raw_content_type' = CASE kind = "Xml"        -> "application/xml"
                           [] kind = "Html"       -> "text/html"
                           [] kind = "JavaScript" -> "text/javascript"
                           [] kind = "Json"       -> ""
                           [] OTHER               -> raw_content_type
  /\ saved' = IF kind = "Form" THEN [saved EXCEPT !.body = [kind |-> "Form", fields |-> ""]]
              ELSE saved
  /\ UNCHANGED <<opened_request, graphql_operation_name, authVars, assertion_json_text, script_text, meant>>

TypeBody(text) ==
  /\ Edit /\ body_kind \in RawKinds \cup {"Json"} /\ text # body_text
  /\ body_text' = text
  /\ UNCHANGED <<saved, opened_request, body_kind, raw_content_type, graphql_query, graphql_variables,
                 graphql_operation_name, authVars, assertion_json_text, script_text, meant>>

(* render_auth: another kind shows the same texts under other labels.           *)
SelectAuthKind(kind) ==
  /\ Edit /\ kind # auth_kind
  /\ auth_kind' = kind
  /\ UNCHANGED <<saved, opened_request, bodyVars, auth_text, api_key_location, assertion_json_text,
                 script_text, meant>>

TypeAuth(i, text) ==
  /\ Edit /\ i <= AuthFields[auth_kind] /\ text # auth_text[i]
  /\ auth_text' = [auth_text EXCEPT ![i] = text]
  /\ UNCHANGED <<saved, opened_request, bodyVars, auth_kind, api_key_location, assertion_json_text,
                 script_text, meant>>

(* render_assertions: the assertions and their texts are two lists.            *)
AddAssertion(kind) ==
  /\ Edit
  /\ LET added == [kind |-> kind, value |-> EmptyObject] IN
     /\ saved' = [saved EXCEPT !.assertions = Append(@, added)]
     /\ assertion_json_text' = Append(assertion_json_text, JsonText(added))
     /\ meant' = Append(meant, JsonText(added))
  /\ UNCHANGED <<opened_request, bodyVars, authVars, script_text>>

KeepText(i) == UNCHANGED assertion_json_text
RemoveText(i) ==
  assertion_json_text' =
    IF i <= Len(assertion_json_text) THEN RemoveAt(assertion_json_text, i)
    ELSE assertion_json_text

RemoveAssertion(i) ==
  /\ Edit
  /\ saved' = [saved EXCEPT !.assertions = RemoveAt(@, i)]
  /\ RemoveText(i)
  /\ meant' = RemoveAt(meant, i)
  /\ UNCHANGED <<opened_request, bodyVars, authVars, script_text>>

TypeAssertion(i, text) ==
  /\ Edit /\ saved.assertions[i].kind \in JsonAssertions /\ text # assertion_json_text[i]
  /\ assertion_json_text' = [assertion_json_text EXCEPT ![i] = text]
  /\ meant' = [meant EXCEPT ![i] = text]
  /\ UNCHANGED <<saved, opened_request, bodyVars, authVars, script_text>>

RequestEditorNext ==
  \/ \E r \in SavedRequests : LoadRequest(r)
  \/ \E kind \in {"None", "Json", "Graphql", "Form"} \cup RawKinds : SelectBodyKind(kind)
  \/ \E kind \in DOMAIN AuthFields : SelectAuthKind(kind)
  \/ \E text \in EditorTexts :
       \/ TypeBody(text)
       \/ \E i \in AuthSlots : TypeAuth(i, text)
       \/ \E i \in DOMAIN saved.assertions : TypeAssertion(i, text)
  \/ \E kind \in {"Status", "JsonSchema"} : AddAssertion(kind)
  \/ \E i \in DOMAIN saved.assertions : RemoveAssertion(i)

RequestEditorSpec == RequestEditorInit /\ [][RequestEditorNext]_editorVars

-----------------------------------------------------------------------------
(* edited_request.                                                           *)
Parses(text) == text \notin {"", Blank, Broken}
(* parse_variables_json: null is the empty object, and anything but an object  *)
(* is refused.                                                               *)
Variables(text) == IF text = "null" THEN EmptyObject ELSE text

EditedBody ==
  CASE body_kind \in RawKinds -> [kind |-> "Raw", text |-> body_text,
                                  content_type |-> Optional(raw_content_type)]
    [] body_kind = "Json"     -> [kind |-> "Json", text |-> body_text]
    [] body_kind = "Graphql"  -> [kind |-> "Graphql", text |-> graphql_query,
                                  variables |-> Variables(graphql_variables),
                                  operation_name |-> Optional(graphql_operation_name)]
    [] body_kind = "Form"     -> IF saved.body.kind = "Form" THEN saved.body
                                 ELSE [kind |-> "Form", fields |-> ""]
    [] OTHER                  -> [kind |-> "None"]

EditedAuth ==
  [kind |-> auth_kind,
   fields |-> [i \in 1..AuthFields[auth_kind] |->
                 IF i \in OptionalFields(auth_kind) THEN Optional(auth_text[i])
                 ELSE auth_text[i]],
   location |-> IF auth_kind = "ApiKey" THEN api_key_location ELSE "Header",
   hidden |-> NoText]

EditedAssertions ==
  [i \in DOMAIN saved.assertions |->
     IF saved.assertions[i].kind \in JsonAssertions
     THEN [saved.assertions[i] EXCEPT !.value =
             IF i <= Len(assertion_json_text) THEN assertion_json_text[i] ELSE "null"]
     ELSE saved.assertions[i]]

BodyIsValid ==
  CASE body_kind = "Json"    -> Parses(body_text)
    [] body_kind = "Graphql" -> ~IsBlank(graphql_query) /\ Parses(graphql_variables)
    [] OTHER                 -> TRUE
AssertionIsValid(a) ==
  a.kind \in JsonAssertions => Parses(a.value) /\ (a.kind = "JsonSchema" => a.value # "null")

(* Otherwise edited_request returns an error.                                  *)
EditIsValid ==
  BodyIsValid /\ \A i \in DOMAIN EditedAssertions : AssertionIsValid(EditedAssertions[i])

EditedRequest ==
  [saved EXCEPT !.body = EditedBody, !.auth = EditedAuth,
                !.assertions = EditedAssertions, !.script = Optional(script_text)]

-----------------------------------------------------------------------------
RequestEditorTypeOK ==
  /\ body_kind \in {"None", "Json", "Graphql", "Form"} \cup RawKinds
  /\ auth_kind \in DOMAIN AuthFields /\ DOMAIN auth_text = AuthSlots
  /\ api_key_location \in {"Header", "Query"}
  /\ editor_steps \in 0..MaxEditorSteps /\ untouched \in BOOLEAN
  /\ Len(meant) = Len(saved.assertions)

(* A request in its normal form: what the editor cannot tell apart from it.     *)
NormalBody(r) ==
  CASE r.grpc # NoText /\ r.body.kind = "None" -> [kind |-> "Json", text |-> EmptyObject]
    [] r.body.kind = "Raw" ->
         [r.body EXCEPT !.content_type = Optional(TextOf(@))]
    [] r.body.kind = "Graphql" ->
         [r.body EXCEPT !.variables = Variables(@), !.operation_name = Optional(TextOf(@))]
    [] OTHER -> r.body
Normal(r) ==
  [r EXCEPT
     !.body = NormalBody(r), !.script = Optional(@),
     !.auth = [@ EXCEPT !.hidden = IF r.auth.kind \in KindsWithHiddenSecret THEN NoText ELSE @,
                        !.fields = [i \in DOMAIN r.auth.fields |->
                          IF i \in OptionalFields(r.auth.kind)
                          THEN Optional(r.auth.fields[i]) ELSE r.auth.fields[i]]]]

(* Whatever requests the editor showed and whatever was typed before, opening a *)
(* request and saving it as it is gives that request, up to blank options, the  *)
(* body a gRPC call needs, and the client secret of two OAuth grants, which has *)
(* no field and is lost.                                                     *)
UntouchedRequestStays == untouched => EditIsValid /\ EditedRequest = Normal(opened_request)

(* However assertions are added, removed and typed, each one is saved with the  *)
(* JSON text that belongs to it.                                              *)
AssertionsKeepTheirValues ==
  EditIsValid =>
    \A i \in DOMAIN saved.assertions :
      saved.assertions[i].kind \in JsonAssertions =>
        EditedRequest.assertions[i].value = meant[i]

EditorKeepsRequest == UntouchedRequestStays /\ AssertionsKeepTheirValues
=============================================================================
