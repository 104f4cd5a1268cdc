-------------------------- MODULE PostmanFormat --------------------------
(***************************************************************************)
(* Postman collections: what import_postman_collection makes of a document   *)
(* (postly-core/src/import.rs), and the document export_postman_collection    *)
(* makes of a collection (postly-core/src/export.rs).                         *)
(*                                                                         *)
(* A document is kept flat: its items with the path of the folder they are in,  *)
(* and what each folder says of itself.  A script is the sequence of the         *)
(* scripts that were joined in it; a URL is its path, the query of its text       *)
(* and the list of its query; a variable of a path is a sequence of letters,       *)
(* since `:key` is replaced in the text.  "" is a value that is not there.        *)
(***************************************************************************)
EXTENDS Naturals, Sequences, SequencesExt

CONSTANTS
  NativeCollections,   \* collections of Postly, to export
  PostmanDocuments,    \* documents of Postman, to import
  MaxRounds            \* bound: how often a collection is exported and imported again

ASSUME PostmanAssumption == MaxRounds \in Nat

VARIABLES
  pf_collection,   \* the native collection
  pf_original,     \* history: the collection that was exported first
  pf_document,     \* the document that is imported
  pf_items,        \* how many of its items are imported
  pf_review,       \* manual_review_requests: the items of the document that need a review
  pf_rounds        \* history: for the bound

formatVars == <<pf_collection, pf_original, pf_document, pf_items, pf_review, pf_rounds>>
NoCollection == [requests |-> <<>>]
NoDocument == [items |-> <<>>]
Known == {"followRedirects", "maxRedirects", "disableCookies"}

-----------------------------------------------------------------------------
(* Lists of keys and values: parse_pairs and parse_headers.  An entry without a key  *)
(* is skipped, and the request needs a review; so does a list that is none.          *)
ExportEntry(entry) == [key |-> entry.key, value |-> entry.value, disabled |-> ~entry.enabled]
ExportEntries(entries) == [i \in DOMAIN entries |-> ExportEntry(entries[i])]
ImportEntry(entry) == [key |-> entry.key, value |-> entry.value, enabled |-> ~entry.disabled]
Keyed(entries) == SelectSeq(entries, LAMBDA e : e.key # "")
ImportEntries(entries) ==
  LET keyed == Keyed(entries) IN [i \in DOMAIN keyed |-> ImportEntry(keyed[i])]
EntriesNeedReview(entries) == Keyed(entries) # entries

-----------------------------------------------------------------------------
(* Authentication: the key a field is exported under, and those it is read from.     *)
AuthTypes ==
  [none |-> "noauth", basic |-> "basic", digest |-> "digest", bearer |-> "bearer",
   apikey |-> "apikey", aws |-> "awsv4", client_credentials |-> "oauth2",
   authorization_code |-> "oauth2", refresh_token |-> "oauth2", device_code |-> "oauth2"]
RequiredOf(kind) ==
  CASE kind = "aws" -> {"access_key_id", "secret_access_key", "region", "service"}
    [] kind = "client_credentials" -> {"token_url", "client_id", "client_secret"}
    [] kind = "authorization_code" ->
         {"authorization_url", "token_url", "client_id", "redirect_uri", "code", "code_verifier"}
    [] kind = "refresh_token" -> {"token_url", "client_id", "refresh_token"}
    [] kind = "device_code" -> {"device_authorization_url", "token_url", "client_id"}
    [] OTHER -> {}
FieldsOf(kind) ==
  RequiredOf(kind) \cup
  CASE kind \in {"basic", "digest"} -> {"username", "password"}
    [] kind = "bearer" -> {"token"}
    [] kind = "apikey" -> {"key", "value", "in"}
    [] kind = "aws" -> {"session_token"}
    [] kind = "none" -> {}
    [] OTHER -> {"client_secret", "scope"}
ExportedAs(field) ==
  CASE field = "access_key_id" -> "accessKey"
    [] field = "secret_access_key" -> "secretKey"
    [] field = "session_token" -> "sessionToken"
    [] field = "token_url" -> "accessTokenUrl"
    [] field = "client_id" -> "clientId"
    [] field = "client_secret" -> "clientSecret"
    [] field = "authorization_url" -> "authUrl"
    [] field = "redirect_uri" -> "redirectUri"
    [] field = "code_verifier" -> "codeVerifier"
    [] field = "refresh_token" -> "refreshToken"
    [] field = "device_authorization_url" -> "deviceAuthorizationUrl"
    [] OTHER -> field
ReadFromExported(kind, field) == <<ExportedAs(field)>>
ReadFrom(kind, field) ==
  CASE kind = "bearer" -> <<"value">>
    [] kind = "digest" -> IF field = "username" THEN <<"username", "user">> ELSE <<"password", "passwd">>
    [] field = "token_url" -> <<"accessTokenUrl", "tokenUrl", "token_url", "access_token_url">>
    [] field = "authorization_url" -> <<"authUrl", "authorizationUrl", "authorization_url">>
    [] field = "code" -> <<"code", "authorizationCode">>
    [] field = "device_authorization_url" ->
         <<"deviceAuthorizationUrl", "device_authorization_url", "deviceAuthUrl">>
    [] OTHER -> <<ExportedAs(field), field>>

NoAuthentication == [kind |-> "none", fields |-> <<>>]
Bearer(token) == [kind |-> "bearer", fields |-> [token |-> token]]
ExportAuth(auth) ==
  [type |-> AuthTypes[auth.kind],
   entries |-> [k \in {ExportedAs(f) : f \in DOMAIN auth.fields} |->
                  auth.fields[CHOOSE f \in DOMAIN auth.fields : ExportedAs(f) = k]]
               @@ IF AuthTypes[auth.kind] = "oauth2" THEN [grant_type |-> auth.kind] ELSE <<>>]

(* auth_value_any: the first of the keys that has a value.                          *)
Value(entries, keys) ==
  LET there == SelectSeq(keys, LAMBDA k : k \in DOMAIN entries /\ entries[k] # "")
  IN IF there = <<>> THEN "" ELSE entries[Head(there)]

(* parse_auth: an OAuth type that is incomplete or unknown leaves the token that was     *)
(* saved with it.                                                               *)
ImportAuth(document) ==
  LET grant == Value(document.entries, <<"grant_type", "grantType">>)
      urn == "urn:ietf:params:oauth:grant-type:device_code"
      kind == IF document.type = "oauth2"
              THEN IF grant = "" THEN "client_credentials" ELSE IF grant = urn THEN "device_code" ELSE grant
              ELSE IF document.type = "awsv4" THEN "aws"
              ELSE IF document.type = "noauth" THEN "none" ELSE document.type
      saved == Value(document.entries, <<"accessToken", "access_token", "token">>)
      fields == [f \in FieldsOf(kind) |-> Value(document.entries, ReadFrom(kind, f))]
  IN IF kind \notin DOMAIN AuthTypes \/ \E f \in RequiredOf(kind) : fields[f] = ""
     THEN [auth |-> IF document.type = "oauth2" /\ saved # "" THEN Bearer(saved) ELSE NoAuthentication,
           review |-> TRUE]
     ELSE [auth |-> [kind |-> kind, fields |-> fields], review |-> FALSE]

-----------------------------------------------------------------------------
(* Bodies.                                                                  *)
LanguageOf(type) ==
  CASE type \in {"application/json", "application/vnd.api+json"} -> "json"
    [] type \in {"application/xml", "image/svg+xml"} -> "xml"
    [] type = "text/html" -> "html"
    [] type \in {"application/javascript", "text/javascript"} -> "javascript"
    [] OTHER -> ""
TypeOf(language) ==
  CASE language \in {"json", "xml"} -> "application/" \o language
    [] OTHER -> "text/" \o language
IsJson(text) == text = "{}"

ExportBody(body) ==
  CASE body.kind = "raw" -> [mode |-> "raw", text |-> body.text, language |-> LanguageOf(body.type)]
    [] body.kind = "json" -> [mode |-> "raw", text |-> body.text, language |-> "json"]
    [] body.kind = "form" -> [mode |-> "urlencoded", entries |-> ExportEntries(body.entries)]
    [] body.kind = "file" -> [mode |-> "file", path |-> body.path]
    [] OTHER -> body @@ [mode |-> body.kind]
HeaderType(headers) ==
  LET types == SelectSeq(headers, LAMBDA h : h.key = "content-type")
  IN IF types = <<>> THEN "" ELSE types[1].value
ImportBody(body, headers) ==
  CASE body.mode = "raw" ->
         LET type == IF body.language # "" THEN TypeOf(body.language) ELSE HeaderType(headers)
         IN IF LanguageOf(type) = "json" /\ IsJson(body.text) THEN [kind |-> "json", text |-> body.text]
            ELSE [kind |-> "raw", text |-> body.text, type |-> type]
    [] body.mode = "urlencoded" -> [kind |-> "form", entries |-> ImportEntries(body.entries)]
    [] body.mode = "file" -> [kind |-> "file", path |-> body.path, type |-> ""]
    [] body.mode \in {"none", "graphql", "formdata"} ->
         [k \in DOMAIN body \ {"mode"} |-> body[k]] @@ [kind |-> body.mode]
    [] OTHER -> [kind |-> "raw", text |-> "the whole body", type |-> "application/json"]

-----------------------------------------------------------------------------
(* URLs.  parse_request takes the query of the text away if there is a list;            *)
(* import_url_variables makes templates of the variables, in the order of their list,    *)
(* wherever their names begin.                                                    *)
PlainSegment(segment) == [variable |-> FALSE, name |-> segment]
Template(key, rest) == [template |-> key, rest |-> rest]
MadeTemplate(segment, key) ==
  IF "template" \notin DOMAIN segment /\ segment.variable /\ IsPrefix(key, segment.name)
  THEN Template(key, SubSeq(segment.name, Len(key) + 1, Len(segment.name))) ELSE segment
ImportPath(path, variables) ==
  FoldLeft(LAMBDA p, v : [i \in DOMAIN p |-> MadeTemplate(p[i], v.key)], path, variables)
Activated(variables) == SelectSeq(variables, LAMBDA v : ~v.disabled /\ v.value # "")
ImportUrl(url) ==
  [path |-> ImportPath(url.path, url.variables),
   text_query |-> IF ImportEntries(url.query) = <<>> THEN url.text_query ELSE <<>>,
   query |-> ImportEntries(url.query)]
ExportUrl(url) ==
  [path |-> url.path, text_query |-> url.text_query, query |-> ExportEntries(url.query),
   variables |-> <<>>]

-----------------------------------------------------------------------------
(* Requests and examples: parse_request and postman_request_value.                   *)
ExportRequest(request) ==
  [url |-> ExportUrl(request.url), headers |-> ExportEntries(request.headers),
   cookies |-> ExportEntries(request.cookies), body |-> ExportBody(request.body),
   transport |-> request.transport, unsupported |-> FALSE]
  @@ IF request.auth.kind = "none" THEN <<>> ELSE [auth |-> ExportAuth(request.auth)]
ImportRequest(document) ==
  LET headers == ImportEntries(document.headers)
  IN [url |-> ImportUrl(document.url), headers |-> headers,
      cookies |-> ImportEntries(document.cookies), body |-> ImportBody(document.body, headers),
      transport |-> document.transport \cap Known,
      auth |-> IF "auth" \in DOMAIN document THEN ImportAuth(document.auth).auth
               ELSE NoAuthentication]
RequestNeedsReview(document) ==
  \/ \E e \in {document.url.query, document.headers, document.cookies} : EntriesNeedReview(e)
  \/ document.transport \ Known # {} \/ document.unsupported
  \/ "auth" \in DOMAIN document /\ ImportAuth(document.auth).review

ExportExample(example) ==
  [status |-> example.status, headers |-> ExportEntries(example.headers),
   original |-> [i \in DOMAIN example.original |-> ExportRequest(example.original[i])]]
ImportExample(example) ==
  [status |-> example.status, headers |-> ImportEntries(example.headers),
   original |-> [i \in DOMAIN example.original |-> ImportRequest(example.original[i])]]
ExampleNeedsReview(example) ==
  \/ EntriesNeedReview(example.headers)
  \/ \E i \in DOMAIN example.original : RequestNeedsReview(example.original[i])

(* request_needs_review.                                                     *)
IsReviewed(request) ==
  \/ request.url.path = <<>> \/ request.body.kind = "file"
  \/ request.body.kind = "graphql" /\ (request.body.query = "" \/ ~request.body.object)
  \/ request.body.kind = "formdata" /\ request.body.files
  \/ request.scripts # <<>>

-----------------------------------------------------------------------------
(* Folders: what an item inherits from those it is in, the outermost first.             *)
Ancestors(document, folder) ==
  LET inside == [n \in 1 .. Len(folder) |-> SubSeq(folder, 1, n)]
      present == SelectSeq(inside, LAMBDA p : p \in DOMAIN document.folders)
  IN <<[auth |-> document.auth, scripts |-> document.scripts]>>
       \o [i \in DOMAIN present |-> document.folders[present[i]]]
InheritedAuth(ancestors) ==
  FoldLeft(LAMBDA found, a : IF a.auth = <<>> THEN found ELSE ImportAuth(a.auth[1]),
           [auth |-> NoAuthentication, review |-> FALSE], ancestors)
InheritedScripts(ancestors) == FoldLeft(LAMBDA joined, a : joined \o a.scripts, <<>>, ancestors)

(* import_item: the collection gets the values of the URL's variables.                *)
WithVariables(variables, added) ==
  FoldLeft(LAMBDA vs, v : [k \in {v.key} |-> v.value] @@ vs, variables, added)
Imported(document, item) ==
  LET ancestors == Ancestors(document, item.folder)
      inherits == "auth" \notin DOMAIN item.request
      request == [ImportRequest(item.request) EXCEPT !.auth = IF inherits THEN InheritedAuth(ancestors).auth ELSE @]
  IN request @@ [folder |-> item.folder, scripts |-> InheritedScripts(ancestors) \o item.scripts,
                 examples |-> [i \in DOMAIN item.examples |-> ImportExample(item.examples[i])]]
ItemNeedsReview(document, item) ==
  \/ RequestNeedsReview(item.request)
  \/ "auth" \notin DOMAIN item.request /\ InheritedAuth(Ancestors(document, item.folder)).review
  \/ \E i \in DOMAIN item.examples : ExampleNeedsReview(item.examples[i])
  \/ IsReviewed(Imported(document, item))

-----------------------------------------------------------------------------
FormatInit ==
  /\ pf_collection = NoCollection /\ pf_original = NoCollection /\ pf_document = NoDocument
  /\ pf_items = 0 /\ pf_review = {} /\ pf_rounds = 0

TakeCollection(collection) ==
  /\ pf_collection = NoCollection /\ pf_document = NoDocument
  /\ pf_collection' = collection /\ pf_original' = collection
  /\ UNCHANGED <<pf_document, pf_items, pf_review, pf_rounds>>

(* export_postman_collection: folders are made of the requests' paths; neither they     *)
(* nor the collection have an authentication of their own.                          *)
ExportItem(request) ==
  [folder |-> request.folder, request |-> ExportRequest(request), scripts |-> request.scripts,
   examples |-> [i \in DOMAIN request.examples |-> ExportExample(request.examples[i])]]
ExportCollection ==
  /\ pf_collection # NoCollection /\ pf_items = Len(pf_document.items) /\ pf_rounds < MaxRounds
  /\ pf_document' =
       [items |-> [i \in DOMAIN pf_collection.requests |-> ExportItem(pf_collection.requests[i])],
        auth |-> <<>>, scripts |-> pf_collection.scripts, folders |-> <<>>,
        variables |-> pf_collection.variables]
  /\ pf_items' = 0 /\ pf_review' = {} /\ pf_rounds' = pf_rounds + 1
  /\ UNCHANGED <<pf_collection, pf_original>>

(* import_postman_collection begins: the collection's own authentication, scripts and   *)
(* variables.                                                                   *)
NewCollection(document) ==
  [requests |-> <<>>, scripts |-> document.scripts, variables |-> document.variables,
   auth |-> InheritedAuth(<<[auth |-> document.auth]>>).auth]
TakeDocument(document) ==
  /\ pf_collection = NoCollection /\ pf_document = NoDocument
  /\ pf_document' = document
  /\ UNCHANGED <<pf_collection, pf_original, pf_items, pf_review, pf_rounds>>
ImportItem ==
  /\ pf_items < Len(pf_document.items)
  /\ LET item == pf_document.items[pf_items + 1]
         collection == IF pf_items = 0 THEN NewCollection(pf_document) ELSE pf_collection
     IN /\ pf_collection' =
             [collection EXCEPT
                !.requests = Append(@, Imported(pf_document, item)),
                !.variables = WithVariables(@, Activated(item.request.url.variables))]
        /\ pf_review' = IF ItemNeedsReview(pf_document, item) THEN pf_review \cup {pf_items + 1}
                        ELSE pf_review
  /\ pf_items' = pf_items + 1
  /\ UNCHANGED <<pf_original, pf_document, pf_rounds>>

FormatNext ==
  \/ \E c \in NativeCollections : TakeCollection(c)
  \/ \E d \in PostmanDocuments : TakeDocument(d)
  \/ ExportCollection \/ ImportItem

FormatSpec == FormatInit /\ [][FormatNext]_formatVars

-----------------------------------------------------------------------------
FormatTypeOK ==
  /\ pf_items \in 0 .. Len(pf_document.items)
  /\ pf_review \subseteq 1 .. pf_items /\ pf_rounds \in 0 .. MaxRounds

(* What the document says a request is sent with: the query and the entries that are     *)
(* enabled, the body, and the authentication of the item or of the nearest folder        *)
(* that has one.  The token of a bearer is left out here: CredentialsSurviveImport says    *)
(* what becomes of it.                                                           *)
SentEntries(entries) ==
  LET sent == SelectSeq(entries, LAMBDA e : e.key # "" /\ ~e.disabled)
  IN [i \in DOMAIN sent |-> <<sent[i].key, sent[i].value>>]
EnabledEntries(entries) ==
  LET sent == SelectSeq(entries, LAMBDA e : e.enabled)
  IN [i \in DOMAIN sent |-> <<sent[i].key, sent[i].value>>]
AuthOf(document, item) ==
  LET paths == {p \in DOMAIN document.folders :
                  IsPrefix(p, item.folder) /\ document.folders[p].auth # <<>>}
  IN IF "auth" \in DOMAIN item.request THEN {item.request.auth}
     ELSE IF paths # {}
     THEN {document.folders[CHOOSE p \in paths : \A q \in paths : Len(q) <= Len(p)].auth[1]}
     ELSE {document.auth[i] : i \in DOMAIN document.auth}

CarriesCredentials(request, auth) ==
  {request.auth.fields[f] : f \in DOMAIN request.auth.fields} \ {""} =
    {auth.entries[k] : k \in DOMAIN auth.entries \ {"grant_type"}} \ {""}
SentAlike(request, document, item) ==
  /\ EnabledEntries(request.headers) = SentEntries(item.request.headers)
  /\ EnabledEntries(request.cookies) = SentEntries(item.request.cookies)
  /\ EnabledEntries(request.url.query) = SentEntries(item.request.url.query)
  /\ request.url.query = <<>> => request.url.text_query = item.request.url.text_query
  /\ AuthOf(document, item) = {} => request.auth = NoAuthentication
  /\ \A auth \in AuthOf(document, item) :
       /\ AuthTypes[request.auth.kind] = auth.type
       /\ auth.type # "bearer" => CarriesCredentials(request, auth)
  /\ LET keys == {v.key : v \in ToSet(item.request.url.variables)}
     IN \A i \in DOMAIN item.request.url.path :
          LET segment == item.request.url.path[i]
          IN "template" \notin DOMAIN segment =>
               IF segment.variable /\ {k \in keys : IsPrefix(k, segment.name)} = {segment.name}
               THEN request.url.path[i] = Template(segment.name, <<>>)
               ELSE ~segment.variable => request.url.path[i] = segment

(* What a request loses on the way to Postman's format and back, in the code: the query of  *)
(* its text beside a list, the content type of a file or of a text the format has no word    *)
(* for, and the token of Bearer authentication, which the format has a place for and the     *)
(* import does not read (CredentialsSurviveImport).                                 *)
SameBody(new, old) ==
  CASE old.kind = "raw" ->
         /\ new.text = old.text
         /\ LanguageOf(old.type) \notin {"", "json"} =>
              new.kind = "raw" /\ LanguageOf(new.type) = LanguageOf(old.type)
         /\ LanguageOf(old.type) = "json" => new.kind = IF IsJson(old.text) THEN "json" ELSE "raw"
    [] old.kind = "file" -> new.kind = "file" /\ new.path = old.path
    [] OTHER -> new = old
SameRequest(new, old) ==
  /\ new.headers = old.headers /\ new.cookies = old.cookies /\ new.transport = old.transport
  /\ new.url.path = old.url.path /\ new.url.query = old.url.query
  /\ old.url.query = <<>> => new.url.text_query = old.url.text_query
  /\ SameBody(new.body, old.body)
  /\ IF old.auth.kind = "bearer" THEN new.auth.kind = "bearer" ELSE new.auth = old.auth

(* An item of a document that is not marked for a review is sent with the headers, cookies  *)
(* and query the document gives it, alone or through its folders, and with its             *)
(* authentication, but for a bearer's token.  A request that was exported and imported      *)
(* again is the same, but for what SameRequest leaves out; it runs the scripts of its        *)
(* ancestors and its own, in that order.                                           *)
PostmanKeepsRequests ==
  \A i \in 1 .. pf_items :
    LET item == pf_document.items[i]
        request == pf_collection.requests[i]
    IN /\ i \notin pf_review => SentAlike(request, pf_document, item)
       /\ request.scripts =
            FoldLeft(LAMBDA joined, a : joined \o a.scripts, <<>>, Ancestors(pf_document, item.folder))
              \o item.scripts
       /\ pf_original # NoCollection =>
            LET old == pf_original.requests[i]
            IN /\ SameRequest(request, old) /\ request.folder = old.folder
               /\ \A j \in DOMAIN old.examples :
                    /\ request.examples[j].headers = old.examples[j].headers
                    /\ \A k \in DOMAIN old.examples[j].original :
                         SameRequest(request.examples[j].original[k], old.examples[j].original[k])

(* CredentialsSurviveImport, what docs/migration-from-postman.md promises: the importer        *)
(* preserves common authentication, and reports what it cannot.  An item that is not marked  *)
(* for a review carries the credentials the document gives it.  parse_auth breaks it: it     *)
(* reads a bearer's token under the key "value", where Postman, the export and the fixture    *)
(* of compat/postman-import have "token".                                          *)
CredentialsSurviveImport ==
  \A i \in 1 .. pf_items :
    i \notin pf_review =>
      \A auth \in AuthOf(pf_document, pf_document.items[i]) :
        CarriesCredentials(pf_collection.requests[i], auth)
=============================================================================
