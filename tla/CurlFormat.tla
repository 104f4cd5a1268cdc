---------------------------- MODULE CurlFormat ----------------------------
(***************************************************************************)
(* cURL commands (postly-core/src/curl.rs): the command that "Copy cURL" and *)
(* `postly snippet` make of a request, and the request that "Import cURL" and *)
(* `postly import curl` make of a command.                                   *)
(*                                                                         *)
(* A text is the sequence of its pieces: blanks, quotes, backslashes and the   *)
(* signs that separate texts are pieces of their own, an option is one piece,   *)
(* and "{" begins a JSON text.  An option that may be missing is <<>> or the     *)
(* sequence of its value.                                                    *)
(***************************************************************************)
EXTENDS Naturals, Sequences, SequencesExt

CONSTANTS
  CurlRequests,   \* requests to copy as a command
  SameCommands    \* pairs of commands that ask for the same request, or for none

VARIABLES
  curl_native,    \* the request that was copied, none for a pair of commands
  curl_warnings,  \* the warnings of the copy
  curl_queue,     \* commands still to be imported
  curl_words,     \* the words of the command that is being imported
  curl_at,        \* index of the loop over them
  curl_parsed,    \* what the words before it have said
  curl_imports    \* the requests that came out, or what was wrong

curlVars ==
  <<curl_native, curl_warnings, curl_queue, curl_words, curl_at, curl_parsed, curl_imports>>
Refused == [request |-> <<>>, warnings |-> {}]

CurlEntries(entries) == SelectSeq(entries, LAMBDA e : e.enabled)
JoinTexts(texts, sign) ==
  FlattenSeq([i \in DOMAIN texts |-> IF i = 1 THEN texts[i] ELSE <<sign>> \o texts[i]])
IsContentType(key) == key \in {<<"Content-Type">>, <<"content-type">>}
ContentTypes(headers) == SelectSeq(CurlEntries(headers), LAMBDA h : IsContentType(h.key))

-----------------------------------------------------------------------------
(* export_curl_command.                                                     *)
ShellQuoteBare(text) == <<"'">> \o text \o <<"'">>
ShellQuote(text) ==
  LET Inside(p) == IF p = "'" THEN <<"'", "\\", "'", "'">> ELSE <<p>>
  IN <<"'">> \o FlattenSeq([i \in DOMAIN text |-> Inside(text[i])]) \o <<"'">>

(* form_urlencoded leaves letters and digits as they are.                      *)
Encoded(text) ==
  [i \in DOMAIN text |->
     IF text[i] \in {" ", "'", "\"", "\\", "?", "#", "&", "=", ":", "{"}
     THEN "%" \o text[i] ELSE text[i]]
EncodedPairs(entries) ==
  LET sent == CurlEntries(entries)
  IN JoinTexts([i \in DOMAIN sent |-> Encoded(sent[i].key) \o <<"=">> \o Encoded(sent[i].value)], "&")
AppendQueryParameters(url, entries) ==
  LET query == EncodedPairs(entries)
  IN IF query = <<>> THEN url
     ELSE url \o <<IF Contains(url, "?") THEN "&" ELSE "?">> \o query

Option(name, value) == <<" ", name, " ">> \o ShellQuote(value)
Options(name, entries, sign) ==
  FlattenSeq([i \in DOMAIN entries |->
                Option(name, entries[i].key \o sign \o entries[i].value)])
Json == <<"application/", "json">>
FormType == <<"application/", "x-www-form-urlencoded">>
BodyContentType(body) ==
  CASE body.kind \in {"json", "graphql"} -> <<Json>>
    [] body.kind = "form" -> <<FormType>>
    [] OTHER -> <<>>
ExportedAuth(auth) ==
  CASE auth.kind = "basic" -> Option("--user", auth.user \o <<":">> \o auth.password)
    [] auth.kind = "digest" ->
         <<" ", "--digest">> \o Option("--user", auth.user \o <<":">> \o auth.password)
    [] auth.kind = "bearer" -> Option("--header", <<"Authorization", ":", " ", "Bearer", " ">> \o auth.token)
    [] auth.kind = "header key" -> Option("--header", auth.key \o <<":", " ">> \o auth.value)
    [] OTHER -> <<>>
ExportedBody(body) ==
  CASE body.kind \in {"raw", "json", "graphql"} -> Option("--data-raw", body.text)
    [] body.kind = "form" -> Options("--data-urlencode", CurlEntries(body.fields), <<"=">>)
    [] body.kind = "multipart" -> Options("--form", CurlEntries(body.fields), <<"=">>)
    [] body.kind = "file" -> Option("--data-binary", <<"@">> \o body.path)
    [] OTHER -> <<>>
QueryKey(auth) ==
  IF auth.kind = "query key"
  THEN <<[key |-> auth.key, value |-> auth.value, enabled |-> TRUE]>> ELSE <<>>
ExportedCommand(r) ==
  LET url == AppendQueryParameters(AppendQueryParameters(r.url, r.query), QueryKey(r.auth))
      type == IF ContentTypes(r.headers) = <<>> THEN BodyContentType(r.body) ELSE <<>>
  IN <<"curl">> \o Option("--request", r.method) \o <<" ">> \o ShellQuote(url)
       \o Options("--header", CurlEntries(r.headers), <<":", " ">>)
       \o FlattenSeq([i \in DOMAIN type |-> Option("--header", <<"Content-Type", ":", " ">> \o type[i])])
       \o Options("--cookie", CurlEntries(r.cookies), <<"=">>)
       \o ExportedAuth(r.auth) \o ExportedBody(r.body)
ExportWarnings(r) ==
  {k \in {r.auth.kind} : k \in {"query key", "oauth2", "aws"}}

-----------------------------------------------------------------------------
(* shell_words: a character at a time; an empty word is dropped, quoted or not.  *)
EndWord(s) ==
  IF s.current = <<>> THEN s ELSE [s EXCEPT !.words = Append(@, s.current), !.current = <<>>]
ShellStep(s, c) ==
  CASE s.escaped -> [s EXCEPT !.current = Append(@, c), !.escaped = FALSE]
    [] ~s.escaped /\ c = "\\" /\ s.quote # "'" -> [s EXCEPT !.escaped = TRUE]
    [] ~s.escaped /\ s.quote # "" /\ c = s.quote -> [s EXCEPT !.quote = ""]
    [] ~s.escaped /\ s.quote = "" /\ c \in {"'", "\""} -> [s EXCEPT !.quote = c]
    [] ~s.escaped /\ s.quote = "" /\ c = " " -> EndWord(s)
    [] OTHER -> [s EXCEPT !.current = Append(@, c)]
ShellState(command) ==
  FoldLeft(ShellStep, [words |-> <<>>, current |-> <<>>, quote |-> "", escaped |-> FALSE], command)
ShellWords(command) ==
  LET s == ShellState(command)
  IN EndWord(IF s.escaped THEN [s EXCEPT !.current = Append(@, "\\")] ELSE s).words

-----------------------------------------------------------------------------
(* Texts with a separator.                                                  *)
IndexIn(text, sign) == CHOOSE i \in DOMAIN text : text[i] = sign /\ sign \notin {text[j] : j \in 1 .. i - 1}
Before(text, sign) == SubSeq(text, 1, IndexIn(text, sign) - 1)
After(text, sign) == SubSeq(text, IndexIn(text, sign) + 1, Len(text))
Trim(text) ==
  LET solid == {i \in DOMAIN text : text[i] # " "}
  IN IF solid = {} THEN <<>>
     ELSE SubSeq(text, CHOOSE i \in solid : \A j \in solid : i <= j,
                       CHOOSE i \in solid : \A j \in solid : j <= i)
Header(key, value) == [key |-> key, value |-> value, enabled |-> TRUE]
IsHeader(text) == Contains(text, ":") /\ Trim(Before(text, ":")) # <<>>
ParseHeader(text) == Header(Trim(Before(text, ":")), Trim(After(text, ":")))

(* One option with its value.                                               *)
MethodOptions == {"-X", "--request"}
HeaderOptions == {"-H", "--header"}
DataOptions == {"-d", "--data", "--data-raw", "--data-binary"}
ValueOptions ==
  MethodOptions \cup HeaderOptions \cup DataOptions
    \cup {"--data-urlencode", "-u", "--user", "-b", "--cookie", "-A", "--user-agent",
          "-e", "--referer", "-F", "--form"}
ValueIsValid(option, value) ==
  CASE option \in HeaderOptions -> IsHeader(value)
    [] option \in {"-u", "--user"} -> Contains(value, ":")
    [] OTHER -> TRUE
WithOption(p, option, value) ==
  CASE option \in MethodOptions -> [p EXCEPT !.method = <<value>>]
    [] option \in HeaderOptions -> [p EXCEPT !.headers = Append(@, ParseHeader(value))]
    [] option \in DataOptions -> [p EXCEPT !.body_values = Append(@, value)]
    [] option = "--data-urlencode" ->
         [p EXCEPT !.body_values = Append(@, value), !.warnings = @ \cup {"encoding"}]
    [] option \in {"-u", "--user"} ->
         [p EXCEPT !.auth = [kind |-> "basic", user |-> Before(value, ":"), password |-> After(value, ":")]]
    [] option \in {"-b", "--cookie"} -> [p EXCEPT !.cookies = <<value>>]
    [] option \in {"-A", "--user-agent"} -> [p EXCEPT !.headers = Append(@, Header(<<"user-agent">>, value))]
    [] option \in {"-e", "--referer"} -> [p EXCEPT !.headers = Append(@, Header(<<"referer">>, value))]
    [] option \in {"-F", "--form"} -> [p EXCEPT !.warnings = @ \cup {"form"}]
    [] option = "--url" -> [p EXCEPT !.url = <<value>>]

-----------------------------------------------------------------------------
NoWordsYet ==
  [method |-> <<>>, url |-> <<>>, headers |-> <<>>, body_values |-> <<>>,
   auth |-> [kind |-> "none"], cookies |-> <<>>, warnings |-> {},
   get_mode |-> FALSE, digest_mode |-> FALSE]
CurlInit ==
  /\ curl_native = <<>> /\ curl_warnings = {} /\ curl_queue = <<>> /\ curl_words = <<>>
  /\ curl_at = 0 /\ curl_parsed = NoWordsYet /\ curl_imports = <<>>

NoCurlYet == curl_native = <<>> /\ curl_queue = <<>> /\ curl_imports = <<>> /\ curl_at = 0
CopyCurl(r) ==
  /\ NoCurlYet
  /\ curl_native' = <<r>> /\ curl_warnings' = ExportWarnings(r)
  /\ curl_queue' = <<ExportedCommand(r)>>
  /\ UNCHANGED <<curl_words, curl_at, curl_parsed, curl_imports>>
PasteCommands(pair) ==
  /\ NoCurlYet /\ curl_queue' = pair
  /\ UNCHANGED <<curl_native, curl_warnings, curl_words, curl_at, curl_parsed, curl_imports>>

(* The import of a command ends.                                             *)
EndImport(result) ==
  /\ curl_imports' = Append(curl_imports, result)
  /\ curl_queue' = Tail(curl_queue)
  /\ curl_words' = <<>> /\ curl_at' = 0 /\ curl_parsed' = NoWordsYet
  /\ UNCHANGED <<curl_native, curl_warnings>>
ParseFrom(at, parsed) ==
  /\ curl_at' = at /\ curl_parsed' = parsed
  /\ UNCHANGED <<curl_native, curl_warnings, curl_queue, curl_words, curl_imports>>

(* The quotes are closed and the first word is curl.                           *)
SplitWords ==
  /\ curl_queue # <<>> /\ curl_at = 0
  /\ LET words == ShellWords(Head(curl_queue)) IN
     IF ShellState(Head(curl_queue)).quote = "" /\ words # <<>> /\ Head(words) = <<"curl">>
     THEN /\ curl_words' = words /\ curl_at' = 2
          /\ UNCHANGED <<curl_native, curl_warnings, curl_queue, curl_parsed, curl_imports>>
     ELSE EndImport(Refused)

(* The loop over the words: an iteration is one of these.                       *)
AtWord == curl_at \in DOMAIN curl_words
Word == curl_words[curl_at]
Is(names) == \E n \in names : Word = <<n>>
Inlined ==
  /\ Len(Word) >= 2 /\ Word[2] = "="
  /\ Word[1] \in {"-X", "--request", "-H", "--header", "-d", "--data", "--data-raw",
                  "--data-binary", "--url"}
Flags == {"-G", "--get", "--digest", "-k", "--insecure", "-L", "--location", "--compressed"}
EndOptions ==
  /\ AtWord /\ Is({"--"})
  /\ ParseFrom(Len(curl_words) + 1,
       [curl_parsed EXCEPT !.url = IF curl_at = Len(curl_words) THEN @ ELSE <<curl_words[curl_at + 1]>>])
ParseFlag ==
  /\ AtWord /\ Is(Flags)
  /\ ParseFrom(curl_at + 1,
       CASE Is({"-G", "--get"}) -> [curl_parsed EXCEPT !.get_mode = TRUE]
         [] Is({"--digest"}) -> [curl_parsed EXCEPT !.digest_mode = TRUE]
         [] OTHER -> [curl_parsed EXCEPT !.warnings = @ \cup {Word[1]}])
ParseInline ==
  /\ AtWord /\ Inlined
  /\ LET value == SubSeq(Word, 3, Len(Word)) IN
     IF ValueIsValid(Word[1], value)
     THEN ParseFrom(curl_at + 1, WithOption(curl_parsed, Word[1], value))
     ELSE EndImport(Refused)
ParseOption ==
  /\ AtWord /\ Is(ValueOptions)
  /\ IF /\ curl_at < Len(curl_words)
        /\ ValueIsValid(Word[1], curl_words[curl_at + 1])
     THEN ParseFrom(curl_at + 2, WithOption(curl_parsed, Word[1], curl_words[curl_at + 1]))
     ELSE EndImport(Refused)
ParsePositional ==
  /\ AtWord /\ ~Inlined /\ ~Is({"--"} \cup Flags \cup ValueOptions)
  /\ IF Word[1] \in {"-O", "--url", "--"} \cup Flags \cup ValueOptions THEN EndImport(Refused)
     ELSE IF curl_parsed.url = <<>>
     THEN ParseFrom(curl_at + 1, [curl_parsed EXCEPT !.url = <<Word>>])
     ELSE ParseFrom(curl_at + 1, [curl_parsed EXCEPT !.warnings = @ \cup {"positional"}])

(* What the words have said becomes a request.                                *)
IsJsonText(text) == text # <<>> /\ Head(text) = "{"
ParsedBody(p, body) ==
  IF \E h \in ToSet(p.headers) : IsContentType(h.key) /\ Contains(h.value, "json")
  THEN IF IsJsonText(body) THEN [kind |-> "json", text |-> body]
       ELSE [kind |-> "raw", text |-> body, type |-> <<Json>>]
  ELSE [kind |-> "raw", text |-> body, type |-> <<>>]
ParsedRequest(p) ==
  LET data == p.body_values # <<>>
      body == JoinTexts(p.body_values, "&")
      url == p.url[1]
  IN [method |-> IF data /\ p.get_mode THEN <<"GET">>
                 ELSE IF p.method # <<>> THEN p.method[1]
                 ELSE IF data \/ p.get_mode THEN <<"POST">> ELSE <<"GET">>,
      url |-> IF data /\ p.get_mode
              THEN url \o <<IF Contains(url, "?") THEN "&" ELSE "?">> \o body ELSE url,
      query |-> <<>>, cookies |-> <<>>,
      headers |-> p.headers \o [i \in DOMAIN p.cookies |-> Header(<<"cookie">>, p.cookies[i])],
      auth |-> IF p.digest_mode /\ p.auth.kind = "basic" THEN [p.auth EXCEPT !.kind = "digest"] ELSE p.auth,
      body |-> IF data /\ ~p.get_mode THEN ParsedBody(p, body) ELSE [kind |-> "none"]]
EndParse ==
  /\ curl_queue # <<>> /\ curl_at > Len(curl_words)
  /\ EndImport(IF curl_parsed.url = <<>> THEN Refused
               ELSE [request |-> <<ParsedRequest(curl_parsed)>>, warnings |-> curl_parsed.warnings])

CurlNext ==
  \/ \E r \in CurlRequests : CopyCurl(r)
  \/ \E pair \in SameCommands : PasteCommands(pair)
  \/ SplitWords \/ EndOptions \/ ParseFlag \/ ParseInline \/ ParseOption \/ ParsePositional
  \/ EndParse

CurlSpec == CurlInit /\ [][CurlNext]_curlVars

-----------------------------------------------------------------------------
CurlTypeOK ==
  /\ curl_native = <<>> \/ curl_native[1] \in CurlRequests
  /\ Len(curl_queue) <= 2 /\ Len(curl_imports) <= 2
  /\ curl_at \in 0 .. Len(curl_words) + 1
  /\ Len(curl_parsed.url) <= 1 /\ Len(curl_parsed.method) <= 1 /\ Len(curl_parsed.cookies) <= 1

(* What the engine sends of a request, in the form in which two of them can be    *)
(* compared (HttpExchange sends it): the fragment of the URL stays at home, and a    *)
(* cookie, a token and a key are headers.                                      *)
SentTarget(r) ==
  LET page == IF Contains(r.url, "#") THEN Before(r.url, "#") ELSE r.url
  IN AppendQueryParameters(AppendQueryParameters(page, r.query), QueryKey(r.auth))
SentType(r) ==
  IF ContentTypes(r.headers) # <<>> THEN <<ContentTypes(r.headers)[1].value>>
  ELSE IF r.body.kind = "raw" THEN r.body.type ELSE BodyContentType(r.body)
SentHeaders(r) ==
  LET pairs == CurlEntries(r.cookies)
      cookie == JoinTexts([i \in DOMAIN pairs |-> pairs[i].key \o <<"=">> \o pairs[i].value], "; ")
      own == SelectSeq(CurlEntries(r.headers), LAMBDA h : ~IsContentType(h.key))
  IN {<<h.key, Trim(h.value)>> : h \in ToSet(own)}
       \cup {<<<<"cookie">>, cookie>> : i \in DOMAIN pairs}
       \cup CASE r.auth.kind = "bearer" -> {<<<<"Authorization">>, Trim(<<"Bearer", " ">> \o r.auth.token)>>}
              [] r.auth.kind = "header key" -> {<<r.auth.key, Trim(r.auth.value)>>}
              [] OTHER -> {}
SentCredentials(r) == IF r.auth.kind \in {"basic", "digest"} THEN r.auth ELSE [kind |-> "none"]
SentBody(r) ==
  CASE r.body.kind \in {"raw", "json", "graphql"} -> r.body.text
    [] r.body.kind = "form" -> EncodedPairs(r.body.fields)
    [] OTHER -> <<>>
SentForm(r) ==
  <<r.method, SentTarget(r), SentType(r), SentHeaders(r), SentCredentials(r), SentBody(r)>>

(* What the copy of a request cannot say without a warning: the file of a body, a    *)
(* content type that only the body has, more than one cookie, a query after a        *)
(* fragment; and an empty word, which the import drops.                         *)
Copyable(r) ==
  /\ r.body.kind # "file"
  /\ r.body.kind = "raw" => r.body.text # <<>> /\ (r.body.type = <<>> \/ ContentTypes(r.headers) # <<>>)
  /\ Len(CurlEntries(r.cookies)) <= 1
  /\ Contains(r.url, "#") => CurlEntries(r.query) \o QueryKey(r.auth) = <<>>

(* Whatever blanks, quotes and backslashes it has, a copied request that is pasted    *)
(* again is sent as before, unless the copy or the import warned; and two commands    *)
(* that differ only in the order of their options, their names or their quotes ask     *)
(* for the same request, or are both refused.                                  *)
CurlKeepsRequests ==
  curl_queue = <<>> /\ curl_imports # <<>> =>
    LET result == curl_imports[1]
    IN IF curl_native = <<>>
       THEN \/ result.request = <<>> /\ curl_imports[2].request = <<>>
            \/ /\ result.request # <<>> /\ curl_imports[2].request # <<>>
               /\ SentForm(result.request[1]) = SentForm(curl_imports[2].request[1])
       ELSE Copyable(curl_native[1]) =>
              /\ result.request # <<>>
              /\ curl_warnings \cup result.warnings = {} =>
                   SentForm(result.request[1]) = SentForm(curl_native[1])
=============================================================================
