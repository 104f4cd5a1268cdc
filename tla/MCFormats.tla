---- MODULE MCFormats ----
(***************************************************************************)
(* The instances of the formats that MCComponents checks: JSON Schemas     *)
(* with pairs that mean the same and pairs that mean opposites, Postman    *)
(* collections in both directions, OpenAPI documents with each construct   *)
(* of a schema or a reference once, cURL commands, and JSON bodies to      *)
(* compare.                                                                *)
(***************************************************************************)
EXTENDS ResponseAssertions, PostmanFormat, OpenApiFormat, CurlFormat,
        JsonComparison, TLC

-----------------------------------------------------------------------------
(* Responses, their values and the schemas they are held against.           *)
SomeValues ==
  {Null, Text("a"), Text("ab"), Number(2), Number(3), Number(4), Array(<<>>),
   Array(<<Text("a"), Text("a")>>), Array(<<Number(2), Text("a")>>), Object(<<>>),
   Object("a" :> Text("a")), Object("a" :> Number(3) @@ "next" :> Null),
   Object("next" :> Object("next" :> Object(<<>>))),
       Object("next" :> Text("a") @@ "a" :> Text("ab")),
   Object("next" :> Object("next" :> Object("a" :> Number(2)))),
   Object("next" :> Object("next" :> Object("next" :> Object(<<>>))))}
SomeResponses ==
  LET Response(status, headers, json, value) ==
        [status |-> status, headers |-> headers, cookies |-> headers, duration |-> status % 3,
         json |-> json, value |-> value, words |-> {"", "a"}]
      header == [name |-> "X", value |-> "a"]
  IN {Response(200, {header}, TRUE, v) : v \in SomeValues}
     \cup {Response(302, {[header EXCEPT !.name = "x", !.value = "b"], header}, FALSE, Null),
           Response(404, {}, FALSE, Null)}
Regex(matches) == [compiles |-> TRUE, matches |-> matches]
Uncompilable == [compiles |-> FALSE, matches |-> {}]
PositiveSchemas ==
  LET Of(type) == [type |-> {type}]
  IN
        "true" :> <<>> @@ "false" :> <<>> @@ "integer" :> Of("integer") @@ "string" :> Of("string")
        @@ "whole" :> [ref |-> "integer", minimum |-> 3, multipleOf |-> 2]
        @@ "short" :> [maxLength |-> 1, pattern |-> Regex({"a", "ab"}), format |-> "word"]
        @@ "letters" :> [enum |-> {Text("a"), Number(3)}, exclusiveMinimum |-> [is |-> "true"],
                         minimum |-> 3, exclusiveMaximum |-> [is |-> "number", halves |-> 4]]
        @@ "one" :> [oneOf |-> <<"integer", "string", "letters">>]
        @@ "any" :> [anyOf |-> <<"whole", "short">>, allOf |-> <<"one", "true">>]
        @@ "choose" :> [if |-> "integer", then |-> "whole", else |-> "not string"]
        @@ "list" :> [type |-> {"object"}, properties |-> [next |-> "list"],
                      additionalProperties |-> "whole list"]
        @@ "linked" :> [ref |-> "list node"]
        @@ "list node" :> [type |-> {"object", "null"}, properties |-> [next |-> "linked"],
                           minProperties |-> 0, maxProperties |-> 2]
        @@ "whole list" :> [anyOf |-> <<"integer", "string", "list">>]
        @@ "named" :> [propertyNames |-> "short", required |-> {"a"},
                       dependentRequired |-> [a |-> [list |-> TRUE, keys |-> {"next"}]]]
        @@ "patterns" :> [patternProperties |-> {Regex({"a"}) @@ [schema |-> "string"]},
                          additionalProperties |-> "false"]
        @@ "dependent" :> [dependentSchemas |-> [next |-> "linked"],
                           dependentRequired |-> [b |-> [list |-> FALSE, keys |-> {}]]]
        @@ "tuple" :> [prefixItems |-> <<"integer">>, tuple |-> <<"short">>,
                       additionalItems |-> "false", minItems |-> 1, uniqueItems |-> TRUE]
        @@ "items" :> [items |-> "string", contains |-> "short", maxContains |-> 1]
        @@ "bounds" :> [contains |-> "integer", minContains |-> 1, maxContains |-> 0]
        @@ "pattern" :> [pattern |-> Uncompilable]
        @@ "cycle" :> [allOf |-> <<"back">>] @@ "back" :> [ref |-> "cycle"]
        @@ "one again" :> [anyOf |-> <<"integer alone", "string alone", "letters alone">>]
        @@ "integer alone" :> [type |-> {"integer"}, allOf |-> <<"not string", "not letters">>]
        @@ "string alone" :> [type |-> {"string"}, allOf |-> <<"not integer", "not letters">>]
        @@ "letters alone" :> [ref |-> "letters", allOf |-> <<"not integer", "not string">>]
        @@ "choose again" :> [anyOf |-> <<"whole integer", "neither">>]
        @@ "whole integer" :> [allOf |-> <<"integer", "whole">>]
        @@ "neither" :> [allOf |-> <<"not integer", "not string">>]
        @@ "patterns again" :> [properties |-> [a |-> "string"], propertyNames |-> "only a"]
        @@ "only a" :> [const |-> Text("a")]
        @@ "dependent b" :> [dependentSchemas |-> [next |-> "with a"]]
        @@ "with a" :> [required |-> {"a"}]
        @@ "dependent again" :> [if |-> "with next", then |-> "with a"]
        @@ "with next" :> [type |-> {"object"}, required |-> {"next"}]
        @@ "dependent keys" :> [dependentRequired |-> [next |-> [list |-> TRUE, keys |-> {"a"}]]]
        @@ "some short" :> [contains |-> "short"] @@ "short twice" :> [contains |-> "short",
            minContains |-> 2, type |-> {"array"}]
        @@ "no short" :> [type |-> {"array"}, items |-> "not short"]
        @@ "arrays" :> [type |-> {"array"}]
        @@ "some again" :> [if |-> "arrays", then |-> "not no short"]
        @@ "two short" :> [prefixItems |-> <<"short", "short">>, minItems |-> 2,
            items |-> "not short", type |-> {"array"}]
        @@ "tuple again" :> [tuple |-> <<"integer", "short">>, additionalItems |-> "false",
            minItems |-> 1, uniqueItems |-> TRUE]
        @@ "above" :> [exclusiveMinimum |-> [is |-> "number", halves |-> 3]]
        @@ "above again" :> [minimum |-> 3, not |-> "three"] @@ "three" :> [enum |-> {Number(3)}]
        @@ "above too" :> [minimum |-> 3, exclusiveMinimum |-> [is |-> "true"]]
        @@ "listed twice" :> [ref |-> "arrays", items |-> "list"]
        @@ "listed again" :> [type |-> {"array"},
            allOf |-> <<"linked items">>] @@ "linked items" :> [items |-> "list"]
        @@ "missing" :> [ref |-> "nowhere"]
Negation(n) == "not " \o n
SomeSchemas ==
  LET names == DOMAIN PositiveSchemas \ {"true", "false"}
  IN PositiveSchemas @@ [m \in {Negation(n) : n \in names} |-> [not |-> CHOOSE n \in names : m = Negation(n)]]
SomeOpposites == {<<n, Negation(n)>> : n \in DOMAIN PositiveSchemas \ {"true", "false"}}
SamePairs ==
  {<<"one", "one again">>, <<"choose", "choose again">>, <<"patterns", "patterns again">>,
   <<"dependent b", "dependent again">>, <<"dependent b", "dependent keys">>, <<"some short",
       "some again">>,
   <<"short twice", "two short">>, <<"tuple", "tuple again">>, <<"above", "above again">>,
       <<"above", "above too">>,
   <<"list node", "linked">>, <<"listed twice", "listed again">>}
LowerCase == "X" :> "x" @@ "x" :> "x"
TextLengths == "a" :> 1 @@ "ab" :> 2 @@ "next" :> 4 @@ "b" :> 1
SomeFormats == "word" :> {"a"}
SomePaths == {<<>>, <<"a">>, <<"0">>, <<"next", "next">>}

-----------------------------------------------------------------------------
(* Postman collections. *)
Pair(k, v, e) == [key |-> k, value |-> v, enabled |-> e]
NativeAuths ==
  {NoAuthentication, Bearer("t"),
   [kind |-> "basic", fields |-> [username |-> "u", password |-> ""]],
   [kind |-> "digest", fields |-> [username |-> "u", password |-> "p"]],
   [kind |-> "apikey", fields |-> [key |-> "k", value |-> "v", in |-> "query"]],
   [kind |-> "aws", fields |-> [access_key_id |-> "a", secret_access_key |-> "s", region |-> "r",
       service |-> "e", session_token |-> ""]],
   [kind |-> "client_credentials", fields |-> [token_url |-> "u", client_id |-> "i",
       client_secret |-> "s", scope |-> ""]],
   [kind |-> "refresh_token", fields |-> [token_url |-> "u", client_id |-> "i",
       client_secret |-> "", refresh_token |-> "r", scope |-> "p"]],
   [kind |-> "device_code", fields |-> [token_url |-> "u", client_id |-> "i", client_secret |-> "",
       device_authorization_url |-> "d", scope |-> ""]],
   [kind |-> "authorization_code", fields |-> [token_url |-> "u", client_id |-> "i",
       client_secret |-> "", authorization_url |-> "a",
      redirect_uri |-> "r", code |-> "c", code_verifier |-> "v", scope |-> ""]]}
NativeBodies ==
  {[kind |-> "none"], [kind |-> "json", text |-> "{}"], [kind |-> "form", entries |-> <<Pair("a",
      "b", FALSE)>>],
   [kind |-> "file", path |-> "f", type |-> "image/png"],
   [kind |-> "graphql", query |-> "q", variables |-> "{}", object |-> TRUE],
   [kind |-> "formdata", parts |-> "p", files |-> TRUE]}
  \cup {[kind |-> "raw", text |-> x, type |-> y] : x \in {"{}", "text"},
          y \in {"", "application/vnd.api+json", "image/svg+xml", "text/html", "text/plain"}}
Native(auth, body, query, headers) ==
  [folder |-> <<"a", "b">>, scripts |-> <<"own">>, auth |-> auth, body |-> body,
      transport |-> {"maxRedirects"},
   url |-> [path |-> <<PlainSegment("users"), Template("id", <<>>)>>, text_query |-> <<"x">>,
       query |-> query],
   headers |-> headers, cookies |-> <<Pair("c", "d", TRUE)>>, examples |-> <<>>]
SomeCollections ==
  LET One(r) == [requests |-> <<r>>, scripts |-> <<>>, variables |-> <<>>, auth |-> Bearer("t")]
      plain == Native(NoAuthentication, [kind |-> "none"], <<>>, <<>>)
      json == <<Pair("content-type", "application/json", TRUE), Pair("x", "", FALSE)>>
  IN {One(Native(a, [kind |-> "none"], <<Pair("q", "", TRUE)>>, <<>>)) : a \in NativeAuths}
     \cup {One(Native(NoAuthentication, b, <<>>, h)) : b \in NativeBodies, h \in {<<>>, json}}
     \cup {[requests |-> <<plain, [plain EXCEPT !.folder = <<>>, !.examples =
              <<[status |-> 200, headers |-> json,
                 original |-> <<Native(NoAuthentication, [kind |-> "none"], <<>>, json)>>]>>]>>,
            scripts |-> <<>>, variables |-> [id |-> "1"], auth |-> NoAuthentication]}
SomeDocuments ==
  LET Entry(k, d) == [key |-> k, value |-> "v", disabled |-> d]
      Id == <<"i", "d">>
      Auth(type, entries) == [type |-> type, entries |-> entries]
      Variable(key, value, disabled) == [key |-> key, value |-> value, disabled |-> disabled]
      request == [url |-> [path |-> <<PlainSegment("users"), [variable |-> TRUE, name |-> Id]>>,
          text_query |-> <<"q">>,
                           query |-> <<Entry("q", FALSE)>>, variables |-> <<Variable(Id, "1",
                               FALSE)>>],
                  headers |-> <<Entry("h", FALSE), Entry("g", TRUE)>>, cookies |-> <<>>,
                  body |-> [mode |-> "none"], transport |-> {}, unsupported |-> FALSE]
      Item(folder, r) == [folder |-> folder, request |-> r, scripts |-> <<"own">>,
          examples |-> <<>>]
      Document(items, folders, scripts) ==
        [items |-> items, auth |-> <<Auth("basic", [username |-> "u", password |-> "p"])>>,
         scripts |-> scripts, folders |-> folders, variables |-> <<>>]
      auths == {Auth("noauth", <<>>), Auth("hawk", <<>>),
                Auth("digest", [user |-> "u", password |-> "p"]),
                Auth("oauth2", [grant_type |-> "password", accessToken |-> "t"]),
                Auth("oauth2", [tokenUrl |-> "u", clientId |-> "i"]),
                Auth("oauth2", [tokenUrl |-> "u", clientId |-> "i", clientSecret |-> "s"]),
                Auth("oauth2", [grant_type |-> "refresh_token", accessTokenUrl |-> "u",
                    access_token |-> "t"]),
                Auth("awsv4", [accessKey |-> "a", secretKey |-> "s", region |-> "r",
                    service |-> "e"])}
      quiet == [Item(<<>>, request) EXCEPT !.scripts = <<>>]
      inner == <<"a">> :> [auth |-> <<>>, scripts |-> <<"folder">>]
  IN {Document(<<quiet, Item(<<"a">>, request @@ [auth |-> a])>>, inner,
      <<"collection">>) : a \in auths}
     \cup {Document(<<[quiet EXCEPT !.folder = <<"a", "b">>],
         [quiet EXCEPT !.request = request @@ [auth |-> a]]>>,
             <<"a">> :> [auth |-> <<a>>, scripts |-> <<>>]
             @@ <<"a", "b">> :> [auth |-> <<>>, scripts |-> <<>>], <<>>) : a \in auths}
     \cup {Document(<<[quiet EXCEPT !.request = r]>>, <<>>, <<>>) :
             r \in {[request EXCEPT !.headers = <<Entry("", FALSE), Entry("h", FALSE)>>],
                    [request EXCEPT !.url.query = <<>>, !.url.variables = <<Variable(Id, "",
                        TRUE)>>],
                    [request EXCEPT !.url.variables = <<Variable(<<"i">>, "1", FALSE), Variable(Id,
                        "1", FALSE)>>],
                    [request EXCEPT !.url.variables = <<Variable(Id, "1", FALSE), Variable(<<"i">>,
                        "1", TRUE)>>],
                    [request EXCEPT !.transport = {"followRedirects", "strictSSL"}],
                    [request EXCEPT !.unsupported = TRUE],
                        [request EXCEPT !.body = [mode |-> "other"]],
                    [request EXCEPT !.url.path = <<>>]}}

-----------------------------------------------------------------------------
(* OpenAPI documents. *)
Str(t) == JsonLeaf("string", t)
OfType(t) == [type |-> <<t>>]
To(file, name) == [ref |-> <<file, name>>]
OaOperation(method, parameters, more) ==
  more @@ [method |-> method, parameters |-> parameters,
           responses |-> <<[status |-> 200, set_cookie |-> <<"c=1">>, headers |-> <<>>,
                            content |-> <<[type |-> "application/json",
                                schema |-> OfType("integer")]>>],
                           [status |-> 700, set_cookie |-> <<>>, headers |-> <<>>,
                               content |-> <<>>]>>]
OaParameter(name, in, required, more) == more @@ [name |-> name, in |-> in, required |-> required]
OaBody(schema) == [body |-> [content |-> <<[type |-> "application/json", schema |-> schema]>>]]
OaDocument(components, paths) ==
  [paths |-> paths, components |-> components, server |-> [variable |-> "base",
      default |-> "https://h"],
   schemes |-> [basic |-> [type |-> "http", scheme |-> "basic"], key |-> [type |-> "apiKey"],
                oauth |-> [type |-> "oauth2"]],
   security |-> <<<<"basic">>>>]
Users == <<[name |-> "users"], Parameter("id")>>
OaPath(parameters, operations) == [path |-> Users, parameters |-> parameters,
    operations |-> operations]
OneBody(schema) == OaDocument(<<>>, <<OaPath(<<>>, <<OaOperation("post", <<>>, OaBody(schema))>>)>>)
Specification(files, urls, inlined) == [root |-> "main", urls |-> urls, files |-> files,
    inlined |-> inlined]
Remote(name, components) == OaDocument(components, <<>>)
SampledSchemas ==
  {OfType("integer"), [type |-> <<"null", "boolean">>], [type |-> <<"string">>, format |-> "date"],
   [enum |-> <<Str("a"), Str("b")>>], [const |-> Str("c")], [default |-> Str("d"),
       type |-> <<"string">>],
   [type |-> <<"array">>, items |-> OfType("string")], [type |-> <<"array">>],
   [oneOf |-> <<OfType("null"), OfType("integer")>>],
   [anyOf |-> <<OfType("string")>>, type |-> <<"string">>],
   [allOf |-> <<[type |-> <<"object">>, properties |-> [a |-> OfType("string")]],
                [type |-> <<"object">>, properties |-> [b |-> [enum |-> <<Str("b")>>]]]>>],
   [allOf |-> <<[default |-> JsonLeaf("integer", "7")], OfType("integer")>>],
   [type |-> <<"object">>, properties |-> [a |-> [type |-> <<"array">>, items |-> OfType("number")],
                                           n |-> OfType("null")]]}
SomeSpecifications ==
  LET query == OaParameter("q", "query", FALSE, [example |-> Str("path")])
      header == OaParameter("h", "header", TRUE, <<>>)
      own == OaParameter("q", "query", FALSE, [schema |-> [default |-> Str("own"),
          type |-> <<"string">>]])
      inPath == OaParameter("q", "header", FALSE, [example |-> JsonLeaf("null", "")])
      id == OaParameter("id", "path", TRUE, [example |-> JsonLeaf("integer", "42")])
      a == OfType("string")
      list == [type |-> <<"object">>, properties |-> [next |-> To("", "List")]]
      listOnce == [type |-> <<"object">>,
                   properties |-> [next |-> [type |-> <<"object">>, properties |-> [next |-> To("",
                       "List")]]]]
      With(file) == OneBody([type |-> <<"array">>, items |-> To(file, "A")])
      In(schema) == OneBody([type |-> <<"array">>, items |-> schema])
  IN {Specification([main |-> OneBody(s)], {}, <<OneBody(s).paths>>) : s \in SampledSchemas}
     \cup
     {Specification([main |-> OaDocument([Q |-> query, O |-> OaOperation("get", <<own, To("",
         "Missing")>>, <<>>)],
                <<OaPath(<<To("", "Q"), header, id>>,
                    <<OaOperation("get", <<own, inPath>>, [security |-> <<>>]),
                      OaOperation("put", <<To("", "Q")>>, [security |-> <<<<"key">>>>]),
                      To("", "Gone"), [method |-> "delete"] @@ To("", "O")>>)>>)], {},
            <<<<OaPath(<<query, header, id>>,
                   <<OaOperation("get", <<own, inPath>>, [security |-> <<>>]),
                     OaOperation("put", <<query>>, [security |-> <<<<"key">>>>]),
                     To("", "Gone"), OaOperation("delete", <<own, To("", "Missing")>>,
                         <<>>)>>)>>>>),
      Specification([main |-> OaDocument([List |-> list], OneBody(To("", "List")).paths)], {},
          <<OneBody(list).paths>>),
      Specification([main |-> With("file"), file |-> Remote("file", [A |-> To("", "B"), B |-> a])],
          {}, <<In(a).paths>>),
      Specification([main |-> With("u1"), u1 |-> Remote("u1", [A |-> To("u2", "B")]),
             u2 |-> Remote("u2", [B |-> a, C |-> To("u1", "A")])], {"u1", "u2"}, <<In(a).paths>>),
      Specification([main |-> With("u1"), u1 |-> Remote("u1", [A |-> To("u2", "A")]),
             u2 |-> Remote("u2", [A |-> To("main", "A"), B |-> To("u3", "")]),
             u3 |-> Remote("u3", <<>>)], {"main", "u1", "u2", "u3"}, <<>>),
      Specification([main |-> With("u1"), u1 |-> Remote("u1", [A |-> To("u1", "A")])], {"u1"},
          <<In(To("u1", "A")).paths>>),
      Specification([main |-> [OneBody([default |-> Str("own")] @@ To("", "D")) EXCEPT !.components =
                [D |-> [default |-> Str("theirs"), type |-> <<"string">>]]]], {},
            <<OneBody([default |-> Str("own"), type |-> <<"string">>]).paths>>),
      Specification([main |-> With("file")], {}, <<In(To("file", "A")).paths>>),
      Specification([main |-> OaDocument(<<>>, OneBody(a).paths \o <<[broken |-> TRUE]>>)], {}, <<>>)}
NativeEntry(key, value, enabled, template) == [key |-> key, value |-> value, enabled |-> enabled,
    template |-> template]
ApiRequest(method, body, auth) ==
  [kind |-> "http", method |-> method, server |-> [variable |-> "base", default |-> ""],
   path |-> <<[name |-> "users"], PathVariable("id")>>,
   query |-> <<NativeEntry("q", "1", FALSE, FALSE), NativeEntry("t", "{{t}}", TRUE, TRUE)>>,
   headers |-> <<NativeEntry("content-type", "application/hal+json", TRUE, FALSE), NativeEntry("h",
       "", TRUE, FALSE)>>,
   cookies |-> <<NativeEntry("c", "2", TRUE, FALSE)>>, body |-> body, auth |-> auth,
   examples |-> <<>>]
SomeApis ==
  LET FormField(v, f) == [value |-> v, file |-> f]
      bodies == {NoApiBody, [kind |-> "json", value |-> JsonObject([a |-> Str("b")])],
                 [kind |-> "graphql", value |-> JsonObject([query |-> Str("q")])],
                 [kind |-> "form", fields |-> [a |-> FormField("1", FALSE), b |-> FormField("",
                     FALSE)]],
                 [kind |-> "multipart", fields |-> [a |-> FormField("1", FALSE),
                     f |-> FormField("", TRUE)]],
                 [kind |-> "file", type |-> "image/png"],
                 [kind |-> "raw", type |-> "text/html", text |-> "t"],
                 [kind |-> "raw", type |-> "application/xml", text |-> "t"]}
      auths == {"none", "basic", "digest", "bearer", "apikey", "aws", "client_credentials",
          "refresh_token"}
      Api(requests, auth) == [requests |-> requests, auth |-> auth,
          variables |-> [base |-> "https://h"]]
      Example(status, headers, cookies, body) ==
        [status |-> status, headers |-> headers, cookies |-> cookies, body |-> body]
      header == [name |-> "content-type", value |-> "application/json"]
      request == ApiRequest("get", NoApiBody, "none")
  IN {Api(<<ApiRequest("post", b, "none")>>, "none") : b \in bodies}
     \cup {Api(<<ApiRequest("get", NoApiBody, a)>>, "basic") : a \in auths}
     \cup {Api(<<[request EXCEPT !.kind = "grpc"], [request EXCEPT !.kind = "custom"], request,
                 [ApiRequest("put", NoApiBody, "none") EXCEPT !.server.variable = "other"], 
                 ApiRequest("get", NoApiBody, "bearer")>>, "none"),
           Api(<<[request EXCEPT !.examples =
                    <<Example(200, <<header, [name |-> "set-cookie", value |-> "x"]>>, <<"c=1">>,
                        <<Str("a")>>),
                      Example(200, <<>>, <<>>, <<>>), Example(0, <<>>, <<>>, <<JsonLeaf("none",
                          "t")>>)>>]>>,
               "none")}

-----------------------------------------------------------------------------
(* Requests to copy as a cURL command: one of each body and authentication, with    *)
(* blanks, quotes and backslashes where a shell would stumble over them.            *)
CopiedEntry(k, v, e) == [key |-> k, value |-> v, enabled |-> e]
Awkward == {<<"a">>, <<"it", "'", "s">>, <<"a", " ", "\"", "b">>, <<"\\", "'">>, <<>>}
CopiedRequests ==
  LET Plain == [method |-> <<"PUT">>, url |-> <<"u">>, query |-> <<>>, headers |-> <<>>,
                cookies |-> <<>>, auth |-> [kind |-> "none"], body |-> [kind |-> "none"]]
      Login(k) == [kind |-> k, user |-> <<"a">>, password |-> <<"b", ":", "'">>]
      Keyed_(k) == [kind |-> k, key |-> <<"X-Key">>, value |-> <<"s">>]
      RawText(t, type) == [kind |-> "raw", text |-> t, type |-> type]
      Typed_(t) == <<CopiedEntry(<<"content-type">>, t, TRUE)>>
  IN {Plain, [Plain EXCEPT !.method = <<"GET">>, !.url = <<"u", "?", "a">>, !.query = <<CopiedEntry(<<"k">>, <<"x", "&">>, TRUE)>>],
      [Plain EXCEPT !.url = <<"u", "#", "f">>, !.query = <<CopiedEntry(<<"k">>, <<"v">>, TRUE)>>],
      [Plain EXCEPT !.cookies = <<CopiedEntry(<<"c">>, <<"1">>, TRUE), CopiedEntry(<<"d">>, <<"2">>, FALSE)>>],
      [Plain EXCEPT !.cookies = <<CopiedEntry(<<"c">>, <<"1">>, TRUE), CopiedEntry(<<"d">>, <<"2">>, TRUE)>>],
      [Plain EXCEPT !.headers = Typed_(<<"text/", "plain">>), !.body = [kind |-> "json", text |-> <<"{", "'", "}">>]],
      [Plain EXCEPT !.headers = Typed_(Json), !.body = RawText(<<"not", " ", "{">>, <<Json>>)],
      [Plain EXCEPT !.headers = Typed_(Json), !.body = RawText(<<"{", "}">>, <<>>)]}
     \cup {[Plain EXCEPT !.headers = <<CopiedEntry(<<"k">>, v, TRUE), CopiedEntry(<<"l">>, v, FALSE)>>] : v \in Awkward}
     \cup {[Plain EXCEPT !.body = RawText(v, <<>>), !.query = <<CopiedEntry(<<"k">>, v, TRUE), CopiedEntry(v, <<"v">>, FALSE)>>] : v \in Awkward}
     \cup {[Plain EXCEPT !.auth = a, !.query = <<CopiedEntry(<<"k">>, <<"v">>, TRUE)>>] :
             a \in {Login("basic"), Login("digest"), Keyed_("header key"), Keyed_("query key"),
                    [kind |-> "bearer", token |-> <<"t", " ">>], [kind |-> "oauth2"], [kind |-> "aws"]}}
     \cup {[Plain EXCEPT !.body = b] :
             b \in {RawText(<<"a">>, <<<<"text/", "plain">>>>), [kind |-> "json", text |-> <<"{", " ", "}">>],
                    [kind |-> "graphql", text |-> <<"{", "\"", "}">>],
                    [kind |-> "form", fields |-> <<CopiedEntry(<<"k">>, <<"v">>, TRUE), CopiedEntry(<<"l">>, <<"w", " ">>, TRUE)>>],
                    [kind |-> "multipart", fields |-> <<CopiedEntry(<<"k">>, <<"v">>, TRUE)>>],
                    [kind |-> "file", path |-> <<"p">>]}}

(* Commands that ask for the same request: other names and orders of the options,    *)
(* other quotes, options that change nothing; and commands that are refused.          *)
PastedCommands ==
  LET Curl(words) == <<"curl">> \o FlattenSeq([i \in DOMAIN words |-> <<" ">> \o words[i]])
      Q(text) == <<"'">> \o text \o <<"'">>
      u == <<"u">>
      XPost == <<"-X", " ", "POST">>
      Data(o, t) == <<o, " ">> \o t
      JsonHeader == <<"-H", " ">> \o Q(<<"Content-Type", ":", " ">> \o Json)
  IN {<<Curl(<<XPost, u, Data("-d", <<"a">>)>>), Curl(<<Data("--data", <<"a">>), u, <<"--request", "=", "POST">>>>)>>,
      <<Curl(<<u, <<"-H", " ">> \o Q(<<"k", ":", " ", "v">>)>>), Curl(<<<<"--header", "=", "k", ":", "v">>, <<"--url", "=", "u">>>>)>>,
      <<Curl(<<Data("-d", <<"a">>), Data("--data-binary", <<"b">>), u>>), Curl(<<u, Data("--data-raw", Q(<<"a", "&", "b">>))>>)>>,
      <<Curl(<<<<"-G">>, Data("-d", <<"a">>), u>>), Curl(<<Q(<<"u", "?", "a">>)>>)>>,
      <<Curl(<<<<"--get">>, <<"--data-raw", "=", "a">>, Q(<<"u", "?", "b">>), XPost>>), Curl(<<Q(<<"u", "?", "b", "&", "a">>)>>)>>,
      <<Curl(<<<<"--digest">>, Data("-u", <<"a", ":", "b">>), u>>), Curl(<<u, Data("--user", <<"a", ":", "b">>), <<"--digest">>>>)>>,
      <<Curl(<<Data("-A", <<"x">>), Data("-e", <<"y">>), Data("-b", <<"c">>), u>>),
        Curl(<<u, <<"-H", " ">> \o Q(<<"cookie", ":", "c">>), <<"-H", " ">> \o Q(<<"referer", ":", "y">>),
               <<"-H", " ">> \o Q(<<"user-agent", ":", "x">>)>>)>>,
      <<Curl(<<<<"--">>, u>>), Curl(<<u, <<"--">>>>)>>,
      <<Curl(<<<<"-k">>, <<"-L">>, <<"--compressed">>, u, <<"v">>>>), Curl(<<u>>)>>,
      <<Curl(<<u, Data("-d", <<"\"", "it", "'", "s", " ", "\\", "\"", "\"">>)>>),
        Curl(<<u, Data("-d", <<"it", "\\", "'", "s", "\\", " ", "\\", "\"">>)>>)>>,
      <<Curl(<<u, Data("-d", Q(<<"{", "}">>)), JsonHeader>>), Curl(<<JsonHeader, Data("--data-raw", Q(<<"{", "}">>)), u>>)>>,
      <<Curl(<<u, Data("--data-urlencode", <<"a">>)>>), Curl(<<Data("-d", <<"a">>), u>>)>>,
      <<Curl(<<u, Data("-F", <<"a">>)>>), Curl(<<Data("--form", <<"b">>), u>>)>>,
      <<Curl(<<u, Data("-u", <<"a">>)>>), Curl(<<<<"-O">>, u>>)>>,
      <<Curl(<<u, Data("-H", <<"a">>)>>), Curl(<<u, <<"--header", "=", ":", "a">>>>)>>,
      <<Curl(<<u, <<"-d">>>>), Curl(<<<<"-X", "POST">>, u>>)>>,
      <<Curl(<<u, Data("-d", <<"'", "a">>)>>), <<"wget", " ", "u">>>>,
      <<Curl(<<>>), Curl(<<<<"''">>>>) \o <<"'", "\\">>>>}

-----------------------------------------------------------------------------
(* Two documents that differ in a key with a slash, one with a tilde, a missing     *)
(* member, a kind, the length of an array and in depth; and texts that are no JSON   *)
(* or too long.                                                             *)
KeysToCompare == <<<<"a">>, <<"a", "/", "1">>, <<"a", "~", "1">>, <<"b">>>>
ComparedDocuments ==
  LET one == Leaf("1") two == Leaf("2")
      Deep(v) == Members(<<"a">> :> Members(<<"b">> :> Members(<<"a">> :> v)))
  IN {Members(<<"a", "/", "1">> :> one @@ <<"a", "~", "1">> :> one),
      Members(<<"a", "/", "1">> :> two @@ <<"a", "~", "1">> :> one @@ <<"b">> :> Items(<<>>)),
      Members(<<"a", "~", "1">> :> two @@ <<"b">> :> Items(<<one, Members(<<"a">> :> one)>>)),
      Members(<<"a">> :> one @@ <<"b">> :> Items(<<two>>)),
      Items(<<one, two>>), Deep(one), Deep(two), one}
BodiesToCompare ==
  {[size |-> 1, json |-> <<d>>] : d \in ComparedDocuments}
    \cup {[size |-> 1, json |-> <<>>], [size |-> 2, json |-> <<Leaf("1")>>]}
RequestsToCompare ==
  LET Body(d) == <<[size |-> 1, json |-> <<d>>]>>
  IN {[name |-> "a", examples |-> <<<<>>, Body(Leaf("1")), Body(Items(<<Leaf("1")>>))>>],
      [name |-> "b", examples |-> <<>>]}
SomeExclusions ==
  {{}, {<<"/", "a", "~", "1", "1">>}, {<<"/", "b", "/", "1">>, <<"/", "a">>}, {<<"b">>},
   {<<"/", "~">>}, {<<"/", "a", "~", "0", "1">>}}
====
