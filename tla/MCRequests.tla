---- MODULE MCRequests ----
(***************************************************************************)
(* The instances of the tunnels, gRPC calls, requests in a script and      *)
(* served projects that MCComponents checks.                               *)
(***************************************************************************)
EXTENDS Tunnel, GrpcCall, ScriptRequest, MockServer, TLC

(* A target that fits the address of a SOCKS reply and one that does not, and    *)
(* proxies of each scheme with rules that do and do not skip the target.         *)
TunnelTargets ==
  {[host |-> <<"api", "example">>, port |-> 443, fits |-> TRUE],
   [host |-> <<"long", "example">>, port |-> 443, fits |-> FALSE]}
Rule(h, p) == [host |-> h, port |-> p]
SomeProxies ==
  {[scheme |-> s, rules |-> r, credentials |-> c] :
     s \in {"none", "http", "socks5", "https"},
     r \in {{}, {Rule(<<"example">>, 0)}, {Rule(<<"api", "example">>, 80)}},
     c \in {"none", "short"}}
  \cup {[scheme |-> s, rules |-> {}, credentials |-> "too long"] : s \in {"http", "socks5"}}

(* Calls of the four kinds, and one defect or option at a time.                 *)
GrpcCalls ==
  LET Endpoint(s, ca, id, pass, insecure) ==
        [scheme |-> s, ca |-> ca, identity |-> id, passphrase |-> pass, insecure |-> insecure]
      Plain == Endpoint("http", "none", "none", FALSE, FALSE)
      Call(cs, ss, input, messages) ==
        [service |-> "a", proto |-> {"a"}, reflected |-> FALSE, client_streaming |-> cs,
         server_streaming |-> ss, input |-> input, messages |-> messages,
         endpoint |-> Plain, metadata |-> "valid", auth |-> "none"]
      Unary == Call(FALSE, FALSE, "one", <<"valid">>)
  IN {Call(cs, ss, IF cs THEN "list" ELSE "none", IF cs THEN <<"valid", "valid">> ELSE <<>>) :
        cs \in BOOLEAN, ss \in BOOLEAN}
     \cup {Call(TRUE, TRUE, i, <<"valid", "invalid">>) : i \in {"list", "one"}}
     \cup {[Unary EXCEPT !.proto = p, !.reflected = r] : p \in {{}, {"b"}}, r \in BOOLEAN}
     \cup {[Unary EXCEPT !.auth = a] : a \in {"bearer", "basic", "header key", "digest"}}
     \cup {[Unary EXCEPT !.metadata = "invalid"], [Unary EXCEPT !.input = "unusable"]}
     \cup {[Unary EXCEPT !.endpoint = e] :
             e \in {Endpoint("http", "file", "none", FALSE, FALSE),
                    Endpoint("https", "file", "pkcs12", TRUE, FALSE),
                    Endpoint("https", "none", "pkcs12", FALSE, FALSE),
                    Endpoint("https", "unreadable", "none", FALSE, FALSE),
                    Endpoint("https", "none", "pem", FALSE, TRUE),
                    Endpoint("other", "none", "none", FALSE, FALSE)}}

(* Requests a script sees, one part varied at a time, and what it puts in.      *)
Entry(k, v, d) == [key |-> k, value |-> v, disabled |-> d]
ScriptedRequests ==
  LET Native(url, auth, body) == [url |-> url, auth |-> auth, body |-> body]
      Url(text, query, parses) == [text |-> text, query |-> query, parses |-> parses]
      NoAuthentication == [type |-> "noauth", fields |-> <<>>]
      NoContent == [type |-> "none", text |-> ""]
      Raw(text, type) == [type |-> "raw", text |-> text, content_type |-> type]
      Plain == Url(<<>>, <<>>, TRUE)
      Basic == [type |-> "basic", fields |-> [username |-> "u", password |-> "p"]]
      Credentials == [type |-> "client_credentials",
        fields |-> [token_url |-> "t", client_id |-> "i", client_secret |-> "s"]]
      Refresh == [type |-> "refresh_token",
        fields |-> [token_url |-> "t", client_id |-> "i", refresh_token |-> "r", scope |-> "a"]]
      Aws == [type |-> "aws", fields |-> [secret |-> "s"]]
  IN {Native(Url(t, q, p), NoAuthentication, NoContent) :
        t \in {<<>>, <<Entry("a", "{{v}}", FALSE), Entry("b", "1", FALSE)>>},
        q \in {<<>>, <<Entry("a", "2", FALSE), Entry("b", "3", TRUE)>>}, p \in BOOLEAN}
     \cup {Native(Plain, a, NoContent) : a \in {Basic, Credentials, Refresh, Aws}}
     \cup {Native(Plain, NoAuthentication, b) : b \in
        {Raw(t, c) : t \in {"not json", "json"},
           c \in {NoType, [ContentType("application", "vnd.api+json",
               "json") EXCEPT !.parameters = TRUE],
                  ContentType("image", "svg+xml", "xml"), ContentType("text", "csv", "other"),
                  ContentType("application", "octet-stream", "other")}}
        \cup {[type |-> "graphql", text |-> "q", variables |-> v] : v \in {"null", "object",
            "scalar"}}
        \cup {[type |-> t, text |-> "x"] : t \in {"json", "form", "multipart", "file"}}}
NewEntries == {Entry("b", "new", FALSE), Entry("c", "new", TRUE)}
NewContents == {[mode |-> "none", text |-> ""], [mode |-> "raw", text |-> "json",
    language |-> "json"]}

(* Two collections with the same route, a route that depends on the environment, *)
(* an example without status and type, and a project without a route.            *)
AskedTargets ==
  LET Users(method) == [method |-> method, path |-> "/users"]
  IN [c |-> {Users("GET")}, d |-> {Users("POST")}]
ServedProjects ==
  LET Example(status, type, body) == [status |-> status, type |-> type, body |-> body]
      Request(method, base, path, examples) ==
        [method |-> method, url |-> [base |-> base, path |-> path], examples |-> examples]
      users == Request("GET", "host", "{{path}}", <<Example(0, "", "{{name}}"), Example(500,
          "json", "x")>>)
      bare == Request("GET", "none", "/users", <<Example(200, "", "bare")>>)
      empty == Request("POST", "template", "/users", <<>>)
      again == Request("GET", "template", "/users", <<Example(201, "json", "again")>>)
      first == [name |-> "first", variables |-> ("{{path}}" :> "/users" @@ "{{name}}" :> "Ada"),
                requests |-> <<bare, empty, users, again>>]
      second == [name |-> "second", variables |-> <<>>, requests |-> <<again, users>>]
      Project(collections, only, environment, once) ==
        [collections |-> collections, only |-> only, environment |-> environment, once |-> once]
  IN {Project(<<first, second>>, "all", "{{name}}" :> "Eve", FALSE),
      Project(<<first, second>>, "second", <<>>, TRUE),
      Project(<<[first EXCEPT !.requests = <<bare, empty>>]>>, "all", <<>>, FALSE)}
====
