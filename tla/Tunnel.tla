------------------------------ MODULE Tunnel ------------------------------
(***************************************************************************)
(* How a WebSocket or a gRPC channel reaches its target through a proxy:     *)
(* the choice of the route, the HTTP CONNECT handshake and the SOCKS5         *)
(* handshake (connect_websocket and GrpcProxyConnector of postly-cli and      *)
(* postly-app, connect_socks5_stream of postly-core/src/http.rs).             *)
(*                                                                         *)
(* A connection is the sequence of the bytes that are on their way to the     *)
(* client.  A byte of the proxy has the value the code looks at, or 0; the    *)
(* n-th byte of the target, relayed after the proxy's reply, is -n.  What     *)
(* the client reads with read_exact is read at once.  Addresses have          *)
(* AddressLength bytes where the code reads 4, 16 or as many as the length    *)
(* byte says.                                                              *)
(***************************************************************************)
EXTENDS Integers, FiniteSets, Sequences, SequencesExt

CONSTANTS
  Targets,         \* the targets: host (a sequence of labels, the most
                   \* specific one first), port, and whether a SOCKS request
                   \* can hold the name
  Proxies,         \* the proxy settings: scheme, rules of the bypass list,
                   \* and whether the URL has credentials, and how long
  AddressLength,   \* bytes of an address
  HeaderLimit,     \* 64 KiB: the longest reply to CONNECT that is read
  HeaderLengths,   \* the lengths of the proxies' replies to CONNECT
  ReadSizes,       \* what one `read` returns, at most 1024 bytes
  TargetBytes      \* bound: the bytes the target sends by itself

ASSUME TunnelAssumption ==
  /\ \A t \in Targets : t.host \in Seq(STRING) /\ t.port \in Nat
  /\ AddressLength \in Nat /\ HeaderLimit \in Nat /\ TargetBytes \in Nat
  /\ HeaderLengths \subseteq Nat \ {0} /\ ReadSizes \subseteq Nat \ {0}

VARIABLES
  tunnel_phase,    \* where the client is
  target, proxy,   \* what it was asked for
  incoming,        \* the bytes on their way to the client
  heard,           \* what the client has read of the present reply
  relayed,         \* history: how many bytes the target has sent
  skipped,         \* history: bytes of the target that were dropped
  replied,         \* history: the proxy has agreed to the connection
  asked,           \* history: the proxy has asked for credentials
  given            \* history: credentials were sent

tunnelVars ==
  <<tunnel_phase, target, proxy, incoming, heard, relayed, skipped,
    replied, asked, given>>
Ended == {"open", "direct", "refused"}
NoRoute == [scheme |-> "none", rules |-> {}, credentials |-> "none"]
Nowhere == [host |-> <<>>, port |-> 0, fits |-> TRUE]

TunnelInit ==
  /\ tunnel_phase = "idle" /\ target = Nowhere /\ proxy = NoRoute
  /\ incoming = <<>> /\ heard = <<>> /\ relayed = 0 /\ skipped = 0
  /\ replied = FALSE /\ asked = FALSE /\ given = FALSE

(* no_proxy_matches: `*`, or a host or one of its parent domains, for one      *)
(* port or for all (0).                                                      *)
Bypasses(t, rules) ==
  \E rule \in rules :
    \/ rule.host = <<"*">>
    \/ rule.port \in {0, t.port} /\ rule.host # <<>> /\ IsSuffix(rule.host, t.host)

(* connect_websocket and connect_grpc_endpoint up to the first write: without  *)
(* a proxy, or past it, the target is reached directly.                      *)
ChooseRoute(t, p) ==
  /\ tunnel_phase = "idle"
  /\ target' = t /\ proxy' = p
  /\ tunnel_phase' =
       IF p.scheme = "none" \/ Bypasses(t, p.rules) THEN "direct"
       ELSE CASE p.scheme = "http" -> "connect"
              [] p.scheme = "socks5" -> IF p.credentials = "too long"
                                        THEN "refused" ELSE "greeting"
              [] OTHER -> "refused"
  /\ UNCHANGED <<incoming, heard, relayed, skipped, replied, asked, given>>

(* The proxy, or the way to it, breaks, and what the client waits for fails.   *)
LoseProxy ==
  /\ tunnel_phase \notin Ended \cup {"idle"}
  /\ tunnel_phase' = "refused"
  /\ UNCHANGED <<target, proxy, incoming, heard, relayed, skipped, replied, asked, given>>

Zeros(n) == [i \in 1 .. n |-> 0]

(* The proxy speaks, in answer to what the client has written in `phase`.      *)
Answer(phase, bytes) ==
  /\ tunnel_phase = phase /\ incoming = <<>>
  /\ incoming' = bytes /\ heard' = <<>>
  /\ UNCHANGED <<target, proxy, relayed, skipped>>

(* What the target says before it is spoken to, as an HTTP/2 server does.      *)
RelayTarget ==
  /\ replied /\ relayed < TargetBytes /\ tunnel_phase # "refused"
  /\ incoming' = Append(incoming, -(relayed + 1)) /\ relayed' = relayed + 1
  /\ UNCHANGED <<tunnel_phase, target, proxy, heard, skipped, replied, asked, given>>
OfTarget(bytes) == Cardinality({i \in DOMAIN bytes : bytes[i] < 0})

-----------------------------------------------------------------------------
(* HTTP CONNECT, with the URL's credentials in the request: a status line and  *)
(* headers, and the last byte of the blank line.                             *)
BlankLine == 999
AnswerConnect ==
  /\ \E length \in HeaderLengths, status \in {200, 407} :
       /\ Answer("connect", <<status>> \o Zeros(length - 1) \o <<BlankLine>>)
       /\ replied' = (status = 200)
  /\ tunnel_phase' = "header"
  /\ given' = (proxy.credentials # "none")
  /\ UNCHANGED asked

(* One round of the loop that reads the reply: what a read returns behind the   *)
(* blank line is dropped with it.                                            *)
ReadHeader ==
  /\ tunnel_phase = "header" /\ incoming # <<>>
  /\ \E count \in ReadSizes :
       LET bytes == SubSeq(incoming, 1, count) IN
       /\ count <= Len(incoming)
       /\ incoming' = SubSeq(incoming, count + 1, Len(incoming))
       /\ IF Len(heard) + count > HeaderLimit
          THEN tunnel_phase' = "refused" /\ UNCHANGED heard
          ELSE /\ heard' = heard \o bytes
               /\ tunnel_phase' = IF BlankLine \notin Range(heard') THEN "header"
                                  ELSE IF heard'[1] = 200 THEN "open" ELSE "refused"
       /\ skipped' = skipped + OfTarget(bytes)
  /\ UNCHANGED <<target, proxy, relayed, replied, asked, given>>

-----------------------------------------------------------------------------
(* SOCKS5: each reply is read with read_exact.                               *)
ReadExactly(n) ==
  /\ Len(incoming) >= n
  /\ incoming' = SubSeq(incoming, n + 1, Len(incoming))
  /\ heard' = heard \o SubSeq(incoming, 1, n)
  /\ skipped' = skipped + OfTarget(SubSeq(incoming, 1, n))
  /\ UNCHANGED <<target, proxy, relayed, replied>>

AnswerGreeting ==
  /\ \E version \in {4, 5}, method \in {0, 1, 2, 255} :
       /\ Answer("greeting", <<version, method>>)
       /\ asked' = (method = 2)
  /\ tunnel_phase' = "method"
  /\ UNCHANGED <<replied, given>>

(* The method the proxy chose; credentials go out when it is theirs.           *)
TakesCredentialsAlways(method) == proxy.credentials = "short"
TakesCredentials(method) == method = 2 /\ proxy.credentials = "short"
ReadMethod ==
  /\ tunnel_phase = "method" /\ ReadExactly(2)
  /\ tunnel_phase' =
       IF heard'[1] # 5 THEN "refused"
       ELSE IF TakesCredentials(heard'[2]) THEN "credentials"
       ELSE IF heard'[2] = 0 /\ target.fits THEN "request" ELSE "refused"
  /\ given' = (tunnel_phase' = "credentials")
  /\ UNCHANGED asked

AnswerCredentials ==
  /\ \E status \in {0, 1} : Answer("credentials", <<1, status>>)
  /\ tunnel_phase' = "status"
  /\ UNCHANGED <<replied, asked, given>>

ReadStatus ==
  /\ tunnel_phase = "status" /\ ReadExactly(2)
  /\ tunnel_phase' = IF heard' = <<1, 0>> /\ target.fits THEN "request" ELSE "refused"
  /\ UNCHANGED <<asked, given>>

(* Version, code, a reserved byte, the type of the address that follows, the    *)
(* address and a port of two bytes.                                          *)
AnswerRequest ==
  /\ \E code \in {0, 5}, type \in {1, 2, 3} :
       /\ Answer("request",
            <<5, code, 0, type>> \o (IF type = 3 THEN <<AddressLength + 1>> ELSE <<>>)
              \o Zeros(IF type = 3 THEN AddressLength + 1 ELSE AddressLength) \o Zeros(2))
       /\ replied' = (code = 0 /\ type # 2)
  /\ tunnel_phase' = "reply"
  /\ UNCHANGED <<asked, given>>

ReadReply ==
  /\ tunnel_phase = "reply" /\ ReadExactly(4)
  /\ tunnel_phase' =
       IF heard'[1] # 5 \/ heard'[2] # 0 THEN "refused"
       ELSE CASE heard'[4] = 1 -> "address" [] heard'[4] = 3 -> "length" [] OTHER -> "refused"
  /\ UNCHANGED <<asked, given>>

ReadLength ==
  /\ tunnel_phase = "length" /\ ReadExactly(1)
  /\ tunnel_phase' = "address"
  /\ UNCHANGED <<asked, given>>

AddressSizeFixed(reply) == AddressLength
AddressSize(reply) == IF reply[4] = 3 THEN reply[5] ELSE AddressLength
ReadAddress ==
  /\ tunnel_phase = "address" /\ ReadExactly(AddressSize(heard) + 2)
  /\ tunnel_phase' = "open"
  /\ UNCHANGED <<asked, given>>

TunnelNext ==
  \/ \E t \in Targets, p \in Proxies : ChooseRoute(t, p)
  \/ LoseProxy \/ RelayTarget
  \/ AnswerConnect \/ ReadHeader
  \/ AnswerGreeting \/ ReadMethod \/ AnswerCredentials \/ ReadStatus
  \/ AnswerRequest \/ ReadReply \/ ReadLength \/ ReadAddress

TunnelSpec == TunnelInit /\ [][TunnelNext]_tunnelVars

-----------------------------------------------------------------------------
TunnelTypeOK ==
  /\ tunnel_phase \in Ended \cup
       {"idle", "connect", "header", "greeting", "method", "credentials", "status",
        "request", "reply", "length", "address"}
  /\ target \in Targets \cup {Nowhere} /\ proxy \in Proxies \cup {NoRoute}
  /\ relayed \in 0 .. TargetBytes /\ skipped \in 0 .. relayed
  /\ {replied, asked, given} \subseteq BOOLEAN
  /\ Len(heard) <= HeaderLimit \/ proxy.scheme # "http"

(* A stream is handed to the WebSocket or gRPC client only after the proxy has   *)
(* agreed, and begins with the target's own bytes, in their order: the whole    *)
(* reply of the proxy has been read and, after a SOCKS handshake, nothing of    *)
(* the target (after CONNECT, what came in the read that ended the reply is     *)
(* missing).  Credentials are sent to a SOCKS proxy only if it chose them and    *)
(* they fit its message.                                                    *)
TunnelIsClean ==
  /\ tunnel_phase = "open" =>
       /\ replied
       /\ incoming = [i \in 1 .. relayed - skipped |-> -(skipped + i)]
       /\ proxy.scheme = "socks5" => skipped = 0
  /\ given => /\ proxy.credentials # "none"
              /\ proxy.scheme = "socks5" => proxy.credentials = "short" /\ asked
  /\ Bypasses(target, proxy.rules) => tunnel_phase \in {"idle", "direct"}
=============================================================================
