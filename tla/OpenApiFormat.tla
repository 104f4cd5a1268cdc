-------------------------- MODULE OpenApiFormat --------------------------
(***************************************************************************)
(* OpenAPI documents (postly-core/src/openapi.rs): the remote documents an     *)
(* import reads first, the references it expands, the requests it makes, and    *)
(* the document an export makes of a collection.                              *)
(*                                                                         *)
(* A document is a record of nodes; an object whose keys are names is the       *)
(* sequence of its nodes, in the order of their names.  A reference is the       *)
(* field `ref` of a node: the document, "" for its own, and the name of what      *)
(* it points to, "" for all of it.  Values are leaves, lists and objects.          *)
(***************************************************************************)
EXTENDS Naturals, Sequences, SequencesExt

CONSTANTS
  Specifications,       \* what is imported: [root, urls, files, inlined]
  NativeApis,           \* collections to export
  MaxRemoteDocuments    \* MAX_OPENAPI_REMOTE_DOCUMENTS

ASSUME OpenApiAssumption == MaxRemoteDocuments \in Nat \ {0}

VARIABLES
  oa_phase,      \* "idle", "fetching", "importing", "done" or "failed"
  oa_source,     \* the specification
  oa_native,     \* history: the collection it was exported from
  oa_fetched,    \* remote_documents: the URLs that were fetched
  oa_queue,      \* the URLs to fetch, in order
  oa_queued,     \* those that were in the queue
  oa_document,   \* the document, its references expanded
  oa_next,       \* how many of its operations were looked at
  oa_requests,   \* the requests of the transaction
  oa_variables   \* the variables of its collection

openApiVars == <<oa_phase, oa_source, oa_native, oa_fetched, oa_queue, oa_queued, oa_document,
                 oa_next, oa_requests, oa_variables>>
NoSource == [root |-> ""]
NoApi == [requests |-> <<>>]

-----------------------------------------------------------------------------
(* Values.                                                                  *)
JsonLeaf(type, text) == [json |-> type, text |-> text]
JsonObject(fields) == [json |-> "object", fields |-> fields]
JsonList(items) == [json |-> "array", items |-> items]
TextOfJson(value) ==
  CASE value.json = "null" -> <<>>
    [] value.json \in {"object", "array"} -> <<"its JSON text">>
    [] OTHER -> <<value.text>>
FirstOf(options) ==
  LET given == SelectSeq(options, LAMBDA o : o # <<>>) IN IF given = <<>> THEN <<>> ELSE Head(given)
OptionalKeyword(node, keyword) == IF keyword \in DOMAIN node THEN <<node[keyword]>> ELSE <<>>
FirstGiven(node, keyword) ==
  IF keyword \in DOMAIN node /\ node[keyword] # <<>> THEN <<Head(node[keyword])>> ELSE <<>>

-----------------------------------------------------------------------------
(* References: what a node holds, the documents it refers to, and Resolver::expand.   *)
NodeFields == {"schema", "items", "body"}
ListFields == {"paths", "operations", "parameters", "content", "responses", "allOf", "oneOf", "anyOf"}
NodesIn(node) ==
  {node[f] : f \in DOMAIN node \cap NodeFields}
  \cup UNION {ToSet(node[f]) : f \in DOMAIN node \cap ListFields}
  \cup (IF "properties" \in DOMAIN node THEN {node.properties[p] : p \in DOMAIN node.properties} ELSE {})

RECURSIVE ReferencesIn(_)
ReferencesIn(node) ==
  (IF "ref" \in DOMAIN node THEN {node.ref} ELSE {}) \cup UNION {ReferencesIn(n) : n \in NodesIn(node)}
ReferencesOf(document) ==
  ReferencesIn(document) \cup UNION {ReferencesIn(document.components[c]) : c \in DOMAIN document.components}
RemoteReferences(source, document) == {r[1] : r \in ReferencesOf(document)} \cap source.urls

(* load_external_document: a URL must have been fetched, a file must be there.         *)
Loaded(source, fetched, file) ==
  IF file \in source.urls THEN file \in fetched ELSE file \in DOMAIN source.files
TargetsOf(document, name) ==
  IF name = "" THEN {document}
  ELSE IF name \in DOMAIN document.components THEN {document.components[name]} ELSE {}

RECURSIVE ExpandNode(_, _, _, _, _)
ExpandFields(source, fetched, node, file, stack) ==
  LET Inner(n) == ExpandNode(source, fetched, n, file, stack)
  IN [f \in DOMAIN node |->
        IF f \in NodeFields THEN Inner(node[f])
        ELSE IF f \in ListFields THEN [i \in DOMAIN node[f] |-> Inner(node[f][i])]
        ELSE IF f = "properties" THEN [p \in DOMAIN node[f] |-> Inner(node[f][p])]
        ELSE node[f]]
ReferenceIsBusy(stack, key) == Contains(stack, key)
ExpandNode(source, fetched, node, file, stack) ==
  LET key == IF "ref" \in DOMAIN node THEN <<IF node.ref[1] = "" THEN file ELSE node.ref[1], node.ref[2]>>
             ELSE <<>>
      targets == IF key = <<>> \/ ~Loaded(source, fetched, key[1]) \/ ReferenceIsBusy(stack, key) THEN {}
                 ELSE TargetsOf(source.files[key[1]], key[2])
  IN IF targets = {} THEN ExpandFields(source, fetched, node, file, stack)
     ELSE LET target == ExpandNode(source, fetched, CHOOSE t \in targets : TRUE, key[1], Append(stack, key))
              beside == ExpandFields(source, fetched, [f \in DOMAIN node \ {"ref"} |-> node[f]], file, stack)
          IN beside @@ target

-----------------------------------------------------------------------------
(* sample_from_schema: none or one value.                                     *)
RECURSIVE SampleFromSchema(_)
DeclaredType(schema) ==
  LET listed == IF "type" \in DOMAIN schema THEN schema.type ELSE <<"object">>
      types == SelectSeq(listed, LAMBDA t : t # "null" \/ Len(listed) = 1)
  IN IF types = <<>> THEN "object" ELSE Head(types)
SampleOfAll(schema) ==
  LET samples == [i \in DOMAIN schema.allOf |-> SampleFromSchema(schema.allOf[i])]
      given == SelectSeq(samples, LAMBDA s : s # <<>>)
      objects == SelectSeq(given, LAMBDA s : s[1].json = "object")
      merged == FoldLeft(LAMBDA all, s : s[1].fields @@ all, <<>>, objects)
  IN IF merged # <<>> THEN <<JsonObject(merged)>>
     ELSE FirstOf(SelectSeq(given, LAMBDA s : s[1].json # "object"))
SampleOfProperties(schema) ==
  LET properties == IF "properties" \in DOMAIN schema THEN schema.properties ELSE <<>>
      sampled == {p \in DOMAIN properties : SampleFromSchema(properties[p]) # <<>>}
  IN <<JsonObject([p \in sampled |-> SampleFromSchema(properties[p])[1]])>>
SampleOfType(schema) ==
  LET type == DeclaredType(schema)
  IN CASE type = "object" -> SampleOfProperties(schema)
       [] type = "array" ->
            <<JsonList(IF "items" \in DOMAIN schema THEN SampleFromSchema(schema.items) ELSE <<>>)>>
       [] type \in {"boolean", "integer", "number"} -> <<JsonLeaf(type, "0")>>
       [] type = "string" -> <<JsonLeaf(type, IF "format" \in DOMAIN schema THEN schema.format ELSE "")>>
       [] OTHER -> <<>>
SampleFromSchema(schema) ==
  LET Alternatives(keyword) ==
        IF keyword \notin DOMAIN schema THEN <<>>
        ELSE FirstOf([i \in DOMAIN schema[keyword] |-> SampleFromSchema(schema[keyword][i])])
      given == FirstOf(<<OptionalKeyword(schema, "example"), FirstGiven(schema, "examples"),
                         OptionalKeyword(schema, "default"), OptionalKeyword(schema, "const"), FirstGiven(schema, "enum")>>)
      all == IF "allOf" \in DOMAIN schema THEN SampleOfAll(schema) ELSE <<>>
  IN FirstOf(<<given, all, Alternatives("oneOf"), Alternatives("anyOf"), SampleOfType(schema)>>)

(* example_value.                                                            *)
ExampleOf(node) ==
  FirstOf(<<OptionalKeyword(node, "example"), FirstGiven(node, "examples"),
            IF "schema" \in DOMAIN node THEN SampleFromSchema(node.schema) ELSE <<>>>>)

-----------------------------------------------------------------------------
(* Parameters: those of the operation replace those of its path; an entry without an    *)
(* example is a template, and disabled unless it is required.                       *)
OaTemplate(name) == "{{" \o name \o "}}"
SchemaText(schema) ==
  LET Texts(o) == IF o = <<>> THEN <<>> ELSE TextOfJson(o[1])
  IN FirstOf(<<Texts(OptionalKeyword(schema, "example")), Texts(FirstGiven(schema, "examples")),
               Texts(OptionalKeyword(schema, "default")), Texts(OptionalKeyword(schema, "const")),
               Texts(FirstGiven(schema, "enum"))>>)
ParameterText(parameter) ==
  FirstOf(<<IF "example" \in DOMAIN parameter THEN TextOfJson(parameter.example) ELSE <<>>,
            IF "schema" \in DOMAIN parameter THEN SchemaText(parameter.schema) ELSE <<>>>>)
MergeParametersItemLast(item, operation) ==
  LET listed == SelectSeq(operation.parameters \o item.parameters, LAMBDA p : "ref" \notin DOMAIN p)
  IN FoldLeft(LAMBDA all, p : (<<p.name, p.in>> :> p) @@ all, <<>>, listed)
MergeParameters(item, operation) ==
  LET listed == SelectSeq(item.parameters \o operation.parameters, LAMBDA p : "ref" \notin DOMAIN p)
  IN FoldLeft(LAMBDA all, p : (<<p.name, p.in>> :> p) @@ all, <<>>, listed)
IsTemplate(parameter, text) == text = <<>> \/ "template" \in DOMAIN parameter
EntryOf(parameter) ==
  LET text == ParameterText(parameter)
  IN [value |-> IF text = <<>> THEN OaTemplate(parameter.name) ELSE text[1],
      enabled |-> parameter.required \/ ~IsTemplate(parameter, text)]
EntriesIn(parameters, location) ==
  [name \in {k[1] : k \in {q \in DOMAIN parameters : q[2] = location}} |->
     EntryOf(parameters[<<name, location>>])]
PathVariables(parameters) ==
  LET given == {k \in DOMAIN parameters : k[2] = "path" /\ ParameterText(parameters[k]) # <<>>}
  IN [name \in {k[1] : k \in given} |-> ParameterText(parameters[<<name, "path">>])[1]]

-----------------------------------------------------------------------------
(* Bodies, examples and security of an operation.                               *)
IsBinary(media) ==
  \/ media.type = "application/octet-stream"
  \/ "schema" \in DOMAIN media /\ "format" \in DOMAIN media.schema /\ media.schema.format = "binary"
FieldsOfForm(media) ==
  LET example == ExampleOf(media)
      values == IF example # <<>> /\ example[1].json = "object" THEN example[1].fields ELSE <<>>
      properties == IF "schema" \in DOMAIN media /\ "properties" \in DOMAIN media.schema
                    THEN media.schema.properties ELSE <<>>
      Texts(o) == IF o = <<>> THEN <<>> ELSE TextOfJson(o[1])
      Given(n) == IF n \in DOMAIN values THEN TextOfJson(values[n]) ELSE <<>>
      Sampled(n) == IF n \in DOMAIN properties THEN Texts(SampleFromSchema(properties[n])) ELSE <<>>
  IN [n \in DOMAIN values \cup DOMAIN properties |->
        [value |-> FirstOf(<<Given(n), Sampled(n), <<"">>>>)[1],
         file |-> media.type = "multipart/form-data" /\ n \in DOMAIN properties /\ "format" \in DOMAIN properties[n]
                    /\ properties[n].format = "binary"]]
JsonTypes == {"application/json", "application/hal+json"}
NoApiBody == [kind |-> "none"]
ImportBodyOf(operation) ==
  IF "body" \notin DOMAIN operation \/ "ref" \in DOMAIN operation.body \/ operation.body.content = <<>>
  THEN NoApiBody
  ELSE LET content == operation.body.content
           json == SelectSeq(content, LAMBDA m : m.type = "application/json")
           media == Head(json \o content)
           example == ExampleOf(media)
       IN CASE media.type \in JsonTypes ->
                 [kind |-> "json", value |-> IF example = <<>> THEN JsonObject(<<>>) ELSE example[1]]
            [] media.type = "application/x-www-form-urlencoded" ->
                 [kind |-> "form", fields |-> FieldsOfForm(media)]
            [] media.type = "multipart/form-data" -> [kind |-> "multipart", fields |-> FieldsOfForm(media)]
            [] media.type \in {"text/plain", "text/html"} ->
                 [kind |-> "raw", type |-> media.type,
                  text |-> FirstOf(<<IF example = <<>> THEN <<>> ELSE TextOfJson(example[1]), <<"">>>>)[1]]
            [] IsBinary(media) -> [kind |-> "file", type |-> media.type]
            [] OTHER -> NoApiBody

(* apply_response_examples: a cookie is kept as such and as a header; 0 stands for       *)
(* the key `default`.                                                       *)
DefaultStatus == 0
ImportResponse(response) ==
  LET typed == \E i \in DOMAIN response.headers : response.headers[i].name = "content-type"
      medias == SelectSeq(response.content, LAMBDA m : m.type = "application/json") \o response.content
      body == IF medias = <<>> THEN <<>> ELSE ExampleOf(Head(medias))
      content == IF medias = <<>> \/ typed THEN <<>>
                 ELSE <<[name |-> "content-type", value |-> Head(medias).type]>>
  IN [status |-> response.status, cookies |-> response.set_cookie, body |-> body,
      headers |-> response.headers
                    \o [i \in DOMAIN response.set_cookie |->
                          [name |-> "set-cookie", value |-> response.set_cookie[i]]] \o content]
ImportResponses(operation) ==
  LET known == SelectSeq(operation.responses, LAMBDA r : r.status \in {DefaultStatus} \cup 100 .. 599)
  IN [i \in DOMAIN known |-> ImportResponse(known[i])]

(* apply_security: the first scheme of the first requirement.                         *)
NoApiAuth == [kind |-> "none", of |-> ""]
ImportSecurity(document, operation) ==
  LET security == IF "security" \in DOMAIN operation THEN operation.security ELSE document.security
      name == IF security = <<>> \/ Head(security) = <<>> THEN "" ELSE Head(Head(security))
  IN IF name \notin DOMAIN document.schemes THEN NoApiAuth
     ELSE LET scheme == document.schemes[name]
          IN CASE scheme.type = "http" /\ scheme.scheme \in {"bearer", "basic", "digest"} ->
                    [kind |-> scheme.scheme, of |-> name]
               [] scheme.type = "apikey" -> [kind |-> "apikey", of |-> name]
               [] OTHER -> NoApiAuth

(* One request; a server's variables are replaced by their defaults.                    *)
Parameter(name) == [parameter |-> name]
PathVariable(name) == [variable |-> name]
UrlSegment(segment) == IF "parameter" \in DOMAIN segment THEN PathVariable(segment.parameter) ELSE segment
Imports(operation) == "ref" \notin DOMAIN operation
ImportOperationOf(document, item, operation) ==
  LET parameters == MergeParameters(item, operation)
  IN [method |-> operation.method, server |-> document.server.default,
      path |-> [i \in DOMAIN item.path |-> UrlSegment(item.path[i])],
      query |-> EntriesIn(parameters, "query"), headers |-> EntriesIn(parameters, "header"),
      cookies |-> EntriesIn(parameters, "cookie"), body |-> ImportBodyOf(operation),
      auth |-> ImportSecurity(document, operation), examples |-> ImportResponses(operation)]
OperationsOf(document) ==
  FlattenSeq([i \in DOMAIN document.paths |->
    LET item == document.paths[i]
        operations == IF "operations" \in DOMAIN item THEN item.operations ELSE <<>>
    IN [j \in DOMAIN operations |-> [item |-> item, operation |-> operations[j]]]])
ServerVariables(document) ==
  IF document.server.variable = "" THEN <<>> ELSE document.server.variable :> document.server.default

-----------------------------------------------------------------------------
(* Export.  A parameter keeps whether it was disabled, which the import does not read.    *)
ExportParameter(entry, location) ==
  [name |-> entry.key, in |-> location, required |-> location = "path",
   example |-> JsonLeaf("string", entry.value), disabled |-> ~entry.enabled]
  @@ IF entry.template THEN [template |-> TRUE] ELSE <<>>
ExportParametersOf(request) ==
  LET variables == SelectSeq(request.path, LAMBDA s : "variable" \in DOMAIN s)
      headers == SelectSeq(request.headers, LAMBDA h : h.key # "content-type")
      All(entries, location) == [i \in DOMAIN entries |-> ExportParameter(entries[i], location)]
  IN [i \in DOMAIN variables |-> [name |-> variables[i].variable, in |-> "path", required |-> TRUE]]
       \o All(request.query, "query") \o All(headers, "header") \o All(request.cookies, "cookie")
ContentTypeOf(request, default) ==
  LET typed == SelectSeq(request.headers, LAMBDA h : h.enabled /\ h.key = "content-type")
  IN IF typed = <<>> THEN default ELSE Head(typed).value
ExportFields(fields) ==
  LET files == {f \in DOMAIN fields : fields[f].file}
  IN [schema |-> [type |-> <<"object">>,
                  properties |-> [f \in DOMAIN fields |->
                     [type |-> <<"string">>] @@ IF f \in files THEN [format |-> "binary"] ELSE <<>>]],
      example |-> JsonObject([f \in DOMAIN fields \ files |-> JsonLeaf("string", fields[f].value)])]
ExportBodyOf(request) ==
  LET body == request.body
      Media(type, node) == [body |-> [content |-> <<[type |-> type] @@ node>>]]
  IN CASE body.kind = "none" -> <<>>
       [] body.kind = "raw" ->
            Media(IF body.type # "" THEN body.type ELSE ContentTypeOf(request, "text/plain"),
                  [example |-> JsonLeaf("string", body.text)])
       [] body.kind = "json" ->
            LET type == ContentTypeOf(request, "application/json")
            IN Media(IF type \in JsonTypes THEN type ELSE "application/json", [example |-> body.value])
       [] body.kind = "graphql" -> Media("application/json", [example |-> body.value])
       [] body.kind = "form" -> Media("application/x-www-form-urlencoded", ExportFields(body.fields))
       [] body.kind = "multipart" -> Media("multipart/form-data", ExportFields(body.fields))
       [] OTHER -> Media(body.type, [schema |-> [type |-> <<"string">>, format |-> "binary"]])
(* A map keeps the last of the entries with a key; responses, the first of a status.      *)
LastOfEach(entries, keys) ==
  LET Later(i) == {keys[j] : j \in i + 1 .. Len(entries)}
      kept == SelectSeq([i \in DOMAIN entries |-> i], LAMBDA i : keys[i] \notin Later(i))
  IN [i \in DOMAIN kept |-> entries[kept[i]]]
FirstPerStatus(examples) ==
  LET last == Reverse(examples)
  IN Reverse(LastOfEach(last, [i \in DOMAIN last |-> last[i].status]))
ExportHeaders(example) ==
  LET kept == SelectSeq(example.headers, LAMBDA h : h.name # "set-cookie" \/ example.cookies = <<>>)
  IN LastOfEach(kept, [i \in DOMAIN kept |-> kept[i].name])
ExportResponses(request) ==
  LET examples == FirstPerStatus(request.examples)
      TypeOfBody(value) == IF value.json = "none" THEN "text/plain" ELSE "application/json"
      Response(e) == [status |-> e.status, set_cookie |-> e.cookies, headers |-> ExportHeaders(e),
                      content |-> [i \in DOMAIN e.body |->
                                     [type |-> TypeOfBody(e.body[i]), example |-> e.body[i]]]]
  IN IF examples = <<>>
     THEN <<[status |-> DefaultStatus, set_cookie |-> <<>>, headers |-> <<>>, content |-> <<>>]>>
     ELSE [i \in DOMAIN examples |-> Response(examples[i])]
SchemeOf(kind) ==
  CASE kind = "apikey" -> [type |-> "apiKey"]
    [] kind \in {"basic", "digest"} -> [type |-> "http", scheme |-> kind]
    [] kind = "aws" -> [type |-> "apiKey"]
    [] kind \in {"client_credentials", "authorization_code"} -> [type |-> "oauth2"]
    [] OTHER -> [type |-> "http", scheme |-> "bearer"]
SecurityOf(kind) == IF kind = "none" THEN <<>> ELSE [security |-> <<<<kind>>>>]
ExportOperation(request) ==
  [method |-> request.method, parameters |-> ExportParametersOf(request),
   responses |-> ExportResponses(request)]
  @@ ExportBodyOf(request) @@ SecurityOf(request.auth)

(* The operations of a path, the last of a method; gRPC requests and methods of one's    *)
(* own are left out of the paths.                                            *)
Exported(native) == SelectSeq(native.requests, LAMBDA r : r.kind = "http")
PathSegment(segment) == IF "variable" \in DOMAIN segment THEN Parameter(segment.variable) ELSE segment
LastWith(requests) ==
  LastOfEach(requests, [i \in DOMAIN requests |-> <<requests[i].path, requests[i].method>>])
ServerOf(native) ==
  LET requests == SelectSeq(native.requests, LAMBDA r : r.kind # "grpc")
  IN IF requests = <<>> THEN [variable |-> "", default |-> "http://localhost:3000"]
     ELSE [requests[1].server EXCEPT !.default =
             LET name == requests[1].server.variable
             IN IF name = "" THEN @
                ELSE IF name \in DOMAIN native.variables THEN native.variables[name]
                ELSE "https://api.example.invalid"]
ExportApi(native) ==
  LET requests == LastWith(Exported(native))
      kinds == {native.auth} \cup {requests[i].auth : i \in DOMAIN requests}
  IN [paths |-> [i \in DOMAIN requests |->
                   [path |-> [k \in DOMAIN requests[i].path |-> PathSegment(requests[i].path[k])],
                    parameters |-> <<>>, operations |-> <<ExportOperation(requests[i])>>]],
      components |-> <<>>, schemes |-> [k \in kinds \ {"none"} |-> SchemeOf(k)],
      server |-> ServerOf(native),
      security |-> IF native.auth = "none" THEN <<>> ELSE <<<<native.auth>>>>]

-----------------------------------------------------------------------------
OpenApiInit ==
  /\ oa_phase = "idle" /\ oa_source = NoSource /\ oa_native = NoApi
  /\ oa_fetched = {} /\ oa_queue = <<>> /\ oa_queued = {} /\ oa_document = <<>>
  /\ oa_next = 0 /\ oa_requests = <<>> /\ oa_variables = <<>>

(* prefetch_remote_references begins; a root that was fetched itself is one of the      *)
(* remote documents.                                                       *)
Begin(source) ==
  LET urls == RemoteReferences(source, source.files[source.root])
  IN /\ oa_phase' = "fetching" /\ oa_source' = source
     /\ oa_queue' = SetToSeq(urls) /\ oa_queued' = urls
     /\ oa_fetched' = {source.root} \cap source.urls
TakeSpecification(source) ==
  /\ oa_phase = "idle" /\ Begin(source)
  /\ UNCHANGED <<oa_native, oa_document, oa_next, oa_requests, oa_variables>>
ExportNative(native) ==
  /\ oa_phase = "idle" /\ native.requests # <<>>
  /\ Begin([root |-> "exported", urls |-> {}, files |-> [exported |-> ExportApi(native)],
            inlined |-> <<>>])
  /\ oa_native' = native
  /\ UNCHANGED <<oa_document, oa_next, oa_requests, oa_variables>>

FailImport ==
  /\ oa_phase' = "failed" /\ oa_requests' = <<>> /\ oa_variables' = <<>>
  /\ UNCHANGED <<oa_source, oa_native, oa_fetched, oa_queue, oa_queued, oa_document, oa_next>>
AtLimit == Cardinality(oa_fetched) >= MaxRemoteDocuments
SkipFetched ==
  /\ oa_phase = "fetching" /\ oa_queue # <<>> /\ Head(oa_queue) \in oa_fetched
  /\ oa_queue' = Tail(oa_queue)
  /\ UNCHANGED <<oa_phase, oa_source, oa_native, oa_fetched, oa_queued, oa_document, oa_next,
                 oa_requests, oa_variables>>
FetchNext ==
  /\ oa_phase = "fetching" /\ oa_queue # <<>> /\ ~AtLimit
  /\ LET url == Head(oa_queue)
     IN /\ url \in DOMAIN oa_source.files \ oa_fetched
        /\ LET found == RemoteReferences(oa_source, oa_source.files[url]) \ oa_queued
           IN /\ oa_fetched' = oa_fetched \cup {url}
              /\ oa_queue' = Tail(oa_queue) \o SetToSeq(found)
              /\ oa_queued' = oa_queued \cup found
  /\ UNCHANGED <<oa_phase, oa_source, oa_native, oa_document, oa_next, oa_requests, oa_variables>>
(* The limit, or an answer that is none of a document, or too long or too late.        *)
FetchDocumentFails ==
  /\ oa_phase = "fetching" /\ oa_queue # <<>> /\ Head(oa_queue) \notin oa_fetched
  /\ FailImport
ExpandDocument ==
  /\ oa_phase = "fetching" /\ oa_queue = <<>>
  /\ oa_document' = ExpandNode(oa_source, oa_fetched, oa_source.files[oa_source.root], oa_source.root, <<>>)
  /\ oa_phase' = "importing" /\ oa_variables' = ServerVariables(oa_source.files[oa_source.root])
  /\ UNCHANGED <<oa_source, oa_native, oa_fetched, oa_queue, oa_queued, oa_next, oa_requests>>

(* The operations in their order; the first path that is no object ends the import.    *)
ImportNext ==
  /\ oa_phase = "importing" /\ oa_next < Len(OperationsOf(oa_document))
  /\ LET next == OperationsOf(oa_document)[oa_next + 1]
     IN IF Imports(next.operation)
        THEN /\ oa_requests' = Append(oa_requests, ImportOperationOf(oa_document, next.item, next.operation))
             /\ oa_variables' = PathVariables(MergeParameters(next.item, next.operation)) @@ oa_variables
        ELSE UNCHANGED <<oa_requests, oa_variables>>
  /\ oa_next' = oa_next + 1
  /\ UNCHANGED <<oa_phase, oa_source, oa_native, oa_fetched, oa_queue, oa_queued, oa_document>>
IsBroken(document) == \E i \in DOMAIN document.paths : "broken" \in DOMAIN document.paths[i]
FinishImport ==
  /\ oa_phase = "importing" /\ oa_next = Len(OperationsOf(oa_document)) /\ ~IsBroken(oa_document)
  /\ oa_phase' = "done"
  /\ UNCHANGED <<oa_source, oa_native, oa_fetched, oa_queue, oa_queued, oa_document, oa_next,
                 oa_requests, oa_variables>>
RefuseDocument ==
  /\ oa_phase = "importing" /\ oa_next = Len(OperationsOf(oa_document)) /\ IsBroken(oa_document)
  /\ FailImport

OpenApiNext ==
  \/ \E s \in Specifications : TakeSpecification(s)
  \/ \E n \in NativeApis : ExportNative(n)
  \/ SkipFetched \/ FetchNext \/ FetchDocumentFails
  \/ ExpandDocument \/ ImportNext \/ FinishImport \/ RefuseDocument

OpenApiSpec == OpenApiInit /\ [][OpenApiNext]_openApiVars

-----------------------------------------------------------------------------
OpenApiTypeOK ==
  /\ oa_phase \in {"idle", "fetching", "importing", "done", "failed"}
  /\ oa_fetched \cup oa_queued \subseteq (IF oa_source = NoSource THEN {} ELSE oa_source.urls)
  /\ ToSet(oa_queue) \subseteq oa_queued
  /\ oa_next \in 0 .. IF oa_document = <<>> THEN 0 ELSE Len(OperationsOf(oa_document))

(* What a value must be for a schema without references, as JSON Schema has it, to be      *)
(* a sample of it: its properties are there, but for those that can only be null.         *)
RECURSIVE Conforms(_, _)
Conforms(value, schema) ==
  /\ "enum" \in DOMAIN schema => Contains(schema.enum, value)
  /\ "const" \in DOMAIN schema => value = schema.const
  /\ "type" \in DOMAIN schema => Contains(schema.type, value.json)
  /\ "allOf" \in DOMAIN schema => \A i \in DOMAIN schema.allOf : Conforms(value, schema.allOf[i])
  /\ \A alternatives \in {"oneOf", "anyOf"} \cap DOMAIN schema :
       \E i \in DOMAIN schema[alternatives] : Conforms(value, schema[alternatives][i])
  /\ "properties" \in DOMAIN schema /\ value.json = "object" =>
       \A p \in DOMAIN schema.properties :
         IF p \in DOMAIN value.fields THEN Conforms(value.fields[p], schema.properties[p])
         ELSE schema.properties[p] = [type |-> <<"null">>]
  /\ "items" \in DOMAIN schema /\ value.json = "array" =>
       \A i \in DOMAIN value.items : Conforms(value.items[i], schema.items)

(* Every document a remote document refers to was read when the first request is made,    *)
(* and not more of them than the limit; an import that fails leaves no request.          *)
RemoteIsRead ==
  /\ Cardinality(oa_fetched) <= MaxRemoteDocuments
  /\ oa_phase \in {"importing", "done"} =>
       \A file \in oa_fetched \cup {oa_source.root} :
         RemoteReferences(oa_source, oa_source.files[file]) \subseteq oa_fetched
  /\ oa_phase = "failed" => oa_requests = <<>> /\ oa_variables = <<>>

(* A document with references means what it means with their targets in their place.      *)
ReferencesAreTargets ==
  oa_phase \in {"importing", "done"} =>
    \A i \in DOMAIN oa_source.inlined : oa_document.paths = oa_source.inlined[i]

(* A parameter of an operation is that of the operation if it has one of its name and     *)
(* place, and never invented; a generated body is one its schema allows; no request is      *)
(* given the credentials of a scheme the operation does not name.                       *)
OperationIsKept(request, item, operation) ==
  LET Of(list, name, in) == {list[i] : i \in {j \in DOMAIN list : "ref" \notin DOMAIN list[j]
                                               /\ list[j].name = name /\ list[j].in = in}}
      Entries(location) == CASE location = "query" -> request.query [] location = "header" -> request.headers
                             [] location = "cookie" -> request.cookies
  IN /\ request.method = operation.method /\ Len(request.path) = Len(item.path)
     /\ \A location \in {"query", "header", "cookie"} :
          LET named == {p.name : p \in {q \in ToSet(item.parameters \o operation.parameters) :
                                           "ref" \notin DOMAIN q /\ q.in = location}}
              entries == Entries(location)
          IN /\ DOMAIN entries = named
             /\ \A name \in named :
                  LET own == Of(operation.parameters, name, location)
                      parameters == IF own # {} THEN own ELSE Of(item.parameters, name, location)
                  IN \E p \in parameters :
                       /\ p.required => entries[name].enabled
                       /\ IF ParameterText(p) # <<>> THEN entries[name].value = ParameterText(p)[1]
                          ELSE entries[name] = [value |-> OaTemplate(name), enabled |-> p.required]
     /\ request.body.kind = "json" /\ "body" \in DOMAIN operation =>
          \A i \in DOMAIN operation.body.content :
            LET media == operation.body.content[i]
            IN media.type = "application/json" /\ "schema" \in DOMAIN media =>
                 Conforms(request.body.value, media.schema)
     /\ request.auth # NoApiAuth =>
          request.auth.of \in UNION {ToSet(r) : r \in ToSet(IF "security" \in DOMAIN operation
                                                         THEN operation.security ELSE oa_document.security)}
OperationsAreKept ==
  LET looked == SelectSeq(SubSeq(OperationsOf(oa_document), 1, oa_next), LAMBDA o : Imports(o.operation))
  IN oa_phase \in {"importing", "done"} =>
       /\ Len(oa_requests) = Len(looked)
       /\ \A i \in DOMAIN looked : OperationIsKept(oa_requests[i], looked[i].item, looked[i].operation)

(* What a request keeps on the way to OpenAPI and back, in the code: its URL, the keys and    *)
(* values of its entries, its body, its kind of HTTP authentication, and the first example   *)
(* of a status.  An API key is not among it: docs/openapi.md says that API-key schemes are    *)
(* imported, and apply_security, which knows "apikey", leaves those of type "apiKey" out     *)
(* with a warning.                                                              *)
SameEntries(new, old) ==
  /\ DOMAIN new = {old[i].key : i \in DOMAIN old} \ {"content-type"}
  /\ \A key \in DOMAIN new :
       \E i \in DOMAIN old : old[i].key = key /\ old[i].value = new[key].value
SameExample(new, old) ==
  /\ new.cookies = old.cookies /\ new.body = old.body
  /\ {h.name : h \in ToSet(old.headers)} \subseteq {h.name : h \in ToSet(new.headers)}
ApiKeepsRequest(new, old) ==
  /\ new.method = old.method /\ new.path = old.path
  /\ SameEntries(new.query, old.query) /\ SameEntries(new.headers, old.headers)
  /\ SameEntries(new.cookies, old.cookies)
  /\ CASE old.body.kind \in {"none", "json"} -> new.body = old.body
       [] old.body.kind = "graphql" -> new.body = [kind |-> "json", value |-> old.body.value]
       [] old.body.kind = "raw" /\ old.body.type \in {"text/plain", "text/html"} -> new.body = old.body
       [] old.body.kind \in {"form", "multipart"} ->
            /\ new.body.kind = old.body.kind /\ DOMAIN new.body.fields = DOMAIN old.body.fields
            /\ \A f \in DOMAIN old.body.fields :
                 /\ new.body.fields[f].file = old.body.fields[f].file
                 /\ ~old.body.fields[f].file => new.body.fields[f] = old.body.fields[f]
       [] old.body.kind = "file" -> new.body.kind = "file" /\ new.body.type = old.body.type
       [] OTHER -> TRUE
  /\ old.auth \in {"basic", "digest", "bearer"} => new.auth.kind = old.auth
  /\ \A i \in DOMAIN old.examples :
       (\A j \in 1 .. i - 1 : old.examples[j].status # old.examples[i].status) =>
         \E e \in ToSet(new.examples) : e.status = old.examples[i].status /\ SameExample(e, old.examples[i])

(* OpenApiKeepsMeaning: an import reads every remote document it needs within the limit or    *)
(* leaves nothing, puts targets in the place of references, and gives each operation its     *)
(* own parameters, a body its schema allows and no credentials it does not name; a request    *)
(* that is exported and imported again is the request it was, but for what ApiKeepsRequest    *)
(* leaves out: what OpenAPI has no place for, and API keys.                             *)
OpenApiKeepsMeaning ==
  /\ RemoteIsRead /\ ReferencesAreTargets /\ OperationsAreKept
  /\ oa_phase = "done" /\ oa_native # NoApi =>
       LET exported == LastWith(SelectSeq(oa_native.requests, LAMBDA r : r.kind \notin {"grpc", "custom"}))
       IN /\ Len(oa_requests) = Len(exported)
          /\ \A i \in DOMAIN exported :
               /\ ApiKeepsRequest(oa_requests[i], exported[i])
               /\ exported[i].server = oa_native.requests[1].server =>
                    oa_requests[i].server =
                      IF exported[i].server.variable \in DOMAIN oa_native.variables
                      THEN oa_native.variables[exported[i].server.variable]
                      ELSE oa_requests[i].server
=============================================================================
