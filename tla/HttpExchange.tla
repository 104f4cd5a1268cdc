---------------------------- MODULE HttpExchange ----------------------------
(***************************************************************************)
(* One HTTP request of the engine (postly-core/src/http.rs): the request is       *)
(* resolved and checked, built, authorized, signed, sent, sent once more for a     *)
(* Digest challenge, and its body is read up to a limit (execute) or handed on     *)
(* unread (execute_stream).                                                     *)
(*                                                                         *)
(* A request is what can make a difference: how each of its parts uses variables,  *)
(* its first defect, its authentication and its body.  A part is "plain",           *)
(* "undefined" (it names a variable nobody defines), "disabled" (undefined, but     *)
(* switched off) or "absent".                                                   *)
(***************************************************************************)
EXTENDS Naturals, Sequences, FiniteSets, SequencesExt

CONSTANTS
  SentRequests,      \* the requests the user sends
  ChallengeLists,    \* the WWW-Authenticate headers a server can answer with
  MaxResponseBytes,  \* max_response_bytes
  ChunkSizes         \* sizes of the chunks of a body

ASSUME HttpExchangeAssumption ==
  MaxResponseBytes \in Nat /\ ChunkSizes \subseteq Nat \ {0}

VARIABLES
  sending,      \* the request being sent, or NothingSent
  streaming,    \* execute_stream
  http_phase,   \* what comes next
  on_wire,      \* what went to the network, in order
  answers,      \* the answers of the server to the request
  body_bytes,   \* bytes of the body read so far
  outcome       \* "none", "response", "stream" or the error

httpVars == <<sending, streaming, http_phase, on_wire, answers, body_bytes, outcome>>
NothingSent == [auth |-> "none"]

HttpExchangeInit ==
  /\ sending = NothingSent /\ streaming = FALSE /\ http_phase = "idle"
  /\ on_wire = <<>> /\ answers = <<>> /\ body_bytes = 0 /\ outcome = "none"

Fail(error) == http_phase' = "done" /\ outcome' = error
GoOn(phase) == http_phase' = phase /\ UNCHANGED outcome

(* execute and execute_stream; client_for_request builds another client when    *)
(* the request has its own redirects or no cookies, which can fail.            *)
SendHttp ==
  /\ http_phase = "idle"
  /\ sending' \in SentRequests /\ streaming' \in BOOLEAN
  /\ GoOn("prepare") \/ Fail("client")
  /\ UNCHANGED <<on_wire, answers, body_bytes>>

(* prepare_builder: the parts whose texts are resolved for their diagnostics.    *)
(* The switched-off pairs, headers, cookies, fields and parts are left out.      *)
ResolvedParts == {"url", "query", "headers", "cookies", "credentials", "body"}
UndefinedParts(request) == {p \in ResolvedParts : request[p] = "undefined"}

Prepare ==
  /\ http_phase = "prepare"
  /\ \/ sending.defect = "grpc" /\ Fail("grpc")
     \/ sending.defect # "grpc" /\ UndefinedParts(sending) # {} /\ Fail("variables")
     \/ /\ UndefinedParts(sending) = {}
        /\ sending.defect \in {"url", "method", "header"} /\ Fail(sending.defect)
     \/ UndefinedParts(sending) = {} /\ sending.defect = "none" /\ GoOn("files")
  /\ UNCHANGED <<sending, streaming, on_wire, answers, body_bytes>>

(* apply_body: the files of the body are read one after the other.  The path of  *)
(* a part of a form is used as it was written.                                *)
ReadFiles ==
  /\ http_phase = "files"
  /\ \/ GoOn("token")
     \/ sending.content \in {"file", "multipart"} /\ Fail("body file")
  /\ UNCHANGED <<sending, streaming, on_wire, answers, body_bytes>>

OAuthGrants == {"client credentials", "pkce", "refresh token", "device code"}

(* oauth_access_token: from the cache or from the token endpoint.               *)
AcquireToken ==
  /\ http_phase = "token"
  /\ IF sending.auth \notin OAuthGrants
     THEN GoOn("sign") /\ UNCHANGED on_wire
     ELSE \/ GoOn("sign") /\ UNCHANGED on_wire
          \/ GoOn("sign") /\ on_wire' = Append(on_wire, [to |-> "token", authorization |-> "none"])
          \/ Fail("token") /\ on_wire' = Append(on_wire, [to |-> "token", authorization |-> "none"])
  /\ UNCHANGED <<sending, streaming, answers, body_bytes>>

(* apply_auth.                                                                *)
Authorization(request) ==
  CASE request.auth \in {"basic", "bearer"} -> "header"
    [] request.auth = "api key"             -> "key"
    [] request.auth \in OAuthGrants         -> "token"
    [] request.auth = "aws"                 -> "signature"
    [] OTHER                                -> "none"

(* A form with parts is a stream, which can be sent only once: try_clone fails.  *)
Replayable(request) == request.content # "multipart"

(* sign_aws_request, and the copy for the answer to a challenge; an event        *)
(* stream keeps no copy and answers none.                                     *)
SignAndClone ==
  /\ http_phase = "sign"
  /\ \/ sending.auth = "aws" /\ sending.empty_credentials /\ Fail("aws")
     \/ /\ sending.auth = "digest" /\ ~streaming /\ ~Replayable(sending) /\ Fail("digest")
     \/ /\ ~(sending.auth = "aws" /\ sending.empty_credentials)
        /\ ~(sending.auth = "digest" /\ ~streaming /\ ~Replayable(sending))
        /\ GoOn("exchange")
  /\ UNCHANGED <<sending, streaming, on_wire, answers, body_bytes>>

SentMessage(authorization) == [to |-> "server", authorization |-> authorization]

(* The server answers 401 with challenges or anything else, or the exchange      *)
(* fails or times out.                                                        *)
Answered(phase, authorization) ==
  /\ on_wire' = Append(on_wire, SentMessage(authorization))
  /\ \/ /\ \E status \in {200, 401}, list \in ChallengeLists, length \in ChunkSizes \cup {0} :
             answers' = Append(answers, [status |-> status, challenges |-> list, length |-> length])
        /\ GoOn(phase)
     \/ Fail("network") /\ UNCHANGED answers

Exchange ==
  /\ http_phase = "exchange"
  /\ Answered(IF streaming THEN "stream" ELSE "answer", Authorization(sending))
  /\ UNCHANGED <<sending, streaming, body_bytes>>

(* digest_challenge and parse_digest_challenge: the first header with the        *)
(* scheme counts, and what is wrong with it is an error even when a later one     *)
(* would do.                                                                  *)
DigestHeaders(list) == SelectSeq(list, LAMBDA c : c.scheme = "Digest")
ChallengeIsValid(c) ==
  /\ c.realm /\ c.nonce # 0
  /\ c.algorithm \in {"MD5", "MD5-sess", "SHA-256", "SHA-256-sess"}
  /\ c.qop # {} => c.qop \cap {"auth", "auth-int"} # {}

(* A 401 without a Digest challenge, or any other answer, is the response.      *)
NeedsDigest ==
  /\ Last(answers).status = 401 /\ sending.auth = "digest"
  /\ DigestHeaders(Last(answers).challenges) # <<>>
ReadAnswer ==
  /\ http_phase = "answer"
  /\ IF ~NeedsDigest THEN GoOn("body")
     ELSE IF /\ ChallengeIsValid(Head(DigestHeaders(Last(answers).challenges)))
             /\ ~sending.empty_credentials
          THEN GoOn("retry") ELSE Fail("digest")
  /\ UNCHANGED <<sending, streaming, on_wire, answers, body_bytes>>

(* The copy goes out with an answer to the challenge; what comes back is the     *)
(* response, whatever its status.                                             *)
AfterRetryAgain == "answer"
AfterRetry == "body"
Retry ==
  /\ http_phase = "retry"
  /\ Answered(AfterRetry, Head(DigestHeaders(Last(answers).challenges)).nonce)
  /\ UNCHANGED <<sending, streaming, body_bytes>>

HandOnStream ==
  /\ http_phase = "stream" /\ http_phase' = "done" /\ outcome' = "stream"
  /\ UNCHANGED <<sending, streaming, on_wire, answers, body_bytes>>

(* read_bounded_response_body: the announced length first, 0 when there is none, *)
(* then every chunk before it is kept.                                        *)
Exceeds(length) == body_bytes + length > MaxResponseBytes

ReadChunk ==
  /\ http_phase = "body"
  /\ \/ /\ body_bytes = 0 /\ Last(answers).length > MaxResponseBytes
        /\ Fail("too large") /\ UNCHANGED body_bytes
     \/ /\ body_bytes > 0 \/ Last(answers).length <= MaxResponseBytes
        /\ \E size \in ChunkSizes :
             IF Exceeds(size) THEN Fail("too large") /\ UNCHANGED body_bytes
             ELSE GoOn("body") /\ body_bytes' = body_bytes + size
  /\ UNCHANGED <<sending, streaming, on_wire, answers>>

BodyReadEnds ==
  /\ http_phase = "body"
  /\ body_bytes > 0 \/ Last(answers).length <= MaxResponseBytes
  /\ http_phase' = "done" /\ outcome' \in {"response", "network"}
  /\ UNCHANGED <<sending, streaming, on_wire, answers, body_bytes>>

HttpExchangeNext ==
  \/ SendHttp \/ Prepare \/ ReadFiles \/ AcquireToken \/ SignAndClone
  \/ Exchange \/ ReadAnswer \/ Retry \/ HandOnStream \/ ReadChunk \/ BodyReadEnds

HttpExchangeSpec == HttpExchangeInit /\ [][HttpExchangeNext]_httpVars

HttpExchangeTypeOK ==
  /\ sending \in SentRequests \cup {NothingSent} /\ streaming \in BOOLEAN
  /\ http_phase \in {"idle", "prepare", "files", "token", "sign", "exchange", "answer",
                     "retry", "stream", "body", "done"}
  /\ Len(on_wire) <= 3 /\ Len(answers) <= 2
  /\ body_bytes \in 0..MaxResponseBytes
  /\ outcome \in {"none", "response", "stream", "client", "grpc", "variables", "url",
                  "method", "header", "body file", "token", "aws", "digest", "network",
                  "too large"}

-----------------------------------------------------------------------------
ToServer == SelectSeq(on_wire, LAMBDA m : m.to = "server")

(* Nothing goes to the network, not even for a token, for a request that names   *)
(* an undefined variable in a part that is switched on, or that has a defect.    *)
NothingUndefinedIsSent ==
  on_wire # <<>> =>
    sending.defect = "none" /\ \A p \in ResolvedParts : sending[p] # "undefined"

(* A request is sent twice only to answer the Digest challenge of a 401, with    *)
(* that challenge's nonce, and never a third time; a 401 that the caller sees is  *)
(* the answer to such an answer, or had no Digest challenge, or is a stream's.   *)
DigestAnswersOneChallenge ==
  /\ Len(ToServer) <= 2
  /\ Len(ToServer) = 2 =>
       /\ sending.auth = "digest" /\ answers[1].status = 401
       /\ \E i \in DOMAIN answers[1].challenges :
            /\ answers[1].challenges[i].scheme = "Digest"
            /\ answers[1].challenges[i].nonce = ToServer[2].authorization
  /\ outcome = "response" /\ Last(answers).status = 401 /\ sending.auth = "digest" =>
       Len(ToServer) = 2 \/ DigestHeaders(answers[1].challenges) = <<>>

(* A body that reaches the caller is whole and within the limit.               *)
BodyIsBounded ==
  /\ body_bytes <= MaxResponseBytes
  /\ outcome = "response" => Last(answers).length <= MaxResponseBytes

ExchangeIsSound ==
  NothingUndefinedIsSent /\ DigestAnswersOneChallenge /\ BodyIsBounded
=============================================================================
