---------------------------- MODULE OAuthTokens ----------------------------
(***************************************************************************)
(* OAuth access tokens of one engine (oauth_access_token of                   *)
(* postly-core/src/http.rs): the cache that its concurrent requests share,    *)
(* with a skew before a token's expiry and a bound on its size, and the       *)
(* polling of the device flow.                                               *)
(*                                                                         *)
(* The lock is held for a lookup and for an insertion, not while a token is   *)
(* fetched.  The clock counts in units of which the skew has Skew; a timer     *)
(* fires when it is due and the steps of the program take no time, while an   *)
(* answer of a server takes up to MaxDelay.                                  *)
(***************************************************************************)
EXTENDS Integers, FiniteSets, Functions

CONSTANTS
  Fetchers,          \* the requests that run at the same time
  TokenKeys,         \* the keys of the cache
  DeviceKeys,        \* those whose grant is the device flow
  Skew,              \* OAUTH_CACHE_SKEW
  MaxCachedTokens,   \* MAX_OAUTH_CACHED_TOKENS
  Lifetimes,         \* the expires_in of tokens, 0 when there is none
  CodeLifetimes,     \* the expires_in of device codes
  Intervals,         \* the intervals servers ask for
  MinInterval, MaxInterval, SlowDown,   \* 1, 60 and 5 seconds
  MaxDelay,          \* assumption on servers: how long an answer takes
  MaxTime            \* bound: the clock

ASSUME OAuthAssumption ==
  /\ TokenKeys # {} /\ DeviceKeys \subseteq TokenKeys
  /\ Skew \in Nat /\ MaxDelay \in 0 .. Skew /\ MaxTime \in Nat
  /\ Lifetimes \subseteq Nat /\ CodeLifetimes \subseteq Nat \ {0}
  /\ Intervals \subseteq Nat /\ SlowDown \in Nat
  /\ MinInterval \in Nat \ {0} /\ MaxInterval \in Nat /\ MinInterval <= MaxInterval
  /\ MaxCachedTokens \in Nat \ {0}

VARIABLES
  clock,             \* Instant::now()
  token_cache,       \* the cached tokens: expires_at, and until when the
                     \* server takes the token
  fetcher            \* what each request is doing

oauthVars == <<clock, token_cache, fetcher>>

(* `since`: when the phase began; `started`: the `now` of the lookup; `asked`:  *)
(* history, the interval that the server wants; `last_poll`: history, the last *)
(* poll, or the answer that began the device flow.                            *)
IdleFetcher ==
  [phase |-> "idle", key |-> CHOOSE k \in TokenKeys : TRUE, since |-> 0,
   started |-> 0, lifetime |-> 0, valid_until |-> 0, deadline |-> 0,
   interval |-> 0, asked |-> 0, last_poll |-> 0]

OAuthInit ==
  /\ clock = 0 /\ token_cache = <<>>
  /\ fetcher = [r \in Fetchers |-> IdleFetcher]

(* Fetcher r enters a phase, as the record w but for the phase and its time.   *)
EnterPhase(r, phase, w) ==
  fetcher' = [fetcher EXCEPT ![r] = [w EXCEPT !.phase = phase, !.since = clock]]
Return(r) == fetcher' = [fetcher EXCEPT ![r] = IdleFetcher]

(* The lookup drops what has expired, and takes a token that lives longer     *)
(* than the skew.                                                            *)
RetainedTokens(cache) ==
  Restrict(cache, {k \in DOMAIN cache : cache[k].expires_at > clock})
UsableUntilExpiry(cached) == cached.expires_at > clock
Usable(cached) == cached.expires_at > clock + Skew

LookUpToken(r, k) ==
  /\ fetcher[r].phase = "idle"
  /\ token_cache' = RetainedTokens(token_cache)
  /\ IF k \in DOMAIN token_cache' /\ Usable(token_cache'[k])
     THEN EnterPhase(r, "using",
            [fetcher[r] EXCEPT !.key = k, !.valid_until = token_cache'[k].valid_until])
     ELSE EnterPhase(r, IF k \in DeviceKeys THEN "authorizing" ELSE "fetching",
            [fetcher[r] EXCEPT !.key = k, !.started = clock])
  /\ UNCHANGED clock

(* The server issues a token, and its answer is on the way.                   *)
IssueToken(r) ==
  /\ fetcher[r].phase \in {"fetching", "polling"}
  /\ \E lifetime \in Lifetimes :
       EnterPhase(r, "answered",
         [fetcher[r] EXCEPT !.lifetime = lifetime, !.valid_until = clock + lifetime])
  /\ UNCHANGED <<clock, token_cache>>

(* The answer arrives.  Without expires_in, or with one within the skew, the   *)
(* token is used once; otherwise it is cached, in place of an arbitrary one    *)
(* when the cache is full.  The device flow counts from the answer, the other  *)
(* grants from the lookup.                                                    *)
ExpiresAt(r) ==
  (IF fetcher[r].key \in DeviceKeys THEN clock ELSE fetcher[r].started)
    + fetcher[r].lifetime
RoomMade(cache) ==
  IF Cardinality(DOMAIN cache) < MaxCachedTokens THEN {cache}
  ELSE {Restrict(cache, DOMAIN cache \ {k}) : k \in DOMAIN cache}
ReceiveToken(r) ==
  LET token == [expires_at |-> ExpiresAt(r), valid_until |-> fetcher[r].valid_until]
  IN /\ fetcher[r].phase = "answered"
     /\ IF fetcher[r].lifetime > Skew
        THEN \E room \in RoomMade(token_cache) :
               token_cache' = [k \in DOMAIN room \cup {fetcher[r].key} |->
                                 IF k = fetcher[r].key THEN token ELSE room[k]]
        ELSE UNCHANGED token_cache
     /\ Return(r)
     /\ UNCHANGED clock

(* The request is sent with a cached token.                                   *)
UseToken(r) ==
  /\ fetcher[r].phase = "using"
  /\ Return(r)
  /\ UNCHANGED <<clock, token_cache>>

(* The answer of the device authorization endpoint.  An interval above the     *)
(* client's own maximum is cut to it.                                         *)
AtMost(interval) == IF interval > MaxInterval THEN MaxInterval ELSE interval
ShortestInterval(i) == MinInterval
ClampInterval(i) == IF i < MinInterval THEN MinInterval ELSE AtMost(i)
AuthorizeDevice(r) ==
  /\ fetcher[r].phase = "authorizing"
  /\ \E e \in CodeLifetimes, i \in Intervals :
       EnterPhase(r, "checking",
         [fetcher[r] EXCEPT !.deadline = clock + e, !.interval = ClampInterval(i),
                            !.asked = i, !.last_poll = clock])
  /\ UNCHANGED <<clock, token_cache>>

(* The head of the loop, ...                                                  *)
CheckDeadlineNot(r) == EnterPhase(r, "sleeping", fetcher[r])
CheckDeadline(r) ==
  IF clock >= fetcher[r].deadline THEN Return(r) ELSE EnterPhase(r, "sleeping", fetcher[r])
LoopOrExpire(r) ==
  /\ fetcher[r].phase = "checking"
  /\ CheckDeadline(r)
  /\ UNCHANGED <<clock, token_cache>>

(* ... the sleep, and the poll.                                               *)
TimerFires(r) ==
  fetcher[r].phase = "sleeping" /\ clock >= fetcher[r].since + fetcher[r].interval
PollToken(r) ==
  /\ TimerFires(r)
  /\ EnterPhase(r, "polling", [fetcher[r] EXCEPT !.last_poll = clock])
  /\ UNCHANGED <<clock, token_cache>>

(* authorization_pending, or slow_down which lengthens the interval.          *)
Slower(interval) == AtMost(interval + SlowDown)
PollAgain(r) ==
  /\ fetcher[r].phase = "polling"
  /\ \/ EnterPhase(r, "checking", fetcher[r])
     \/ EnterPhase(r, "checking",
          [fetcher[r] EXCEPT !.interval = Slower(@), !.asked = @ + SlowDown])
  /\ UNCHANGED <<clock, token_cache>>

(* The endpoint cannot be reached, answers with an error or with something     *)
(* that is no token; or the request is cancelled.                             *)
FetchFails(r) ==
  /\ fetcher[r].phase \in {"fetching", "authorizing", "sleeping", "polling", "answered"}
  /\ Return(r)
  /\ UNCHANGED <<clock, token_cache>>

Waiting(r) == fetcher[r].phase \in {"fetching", "authorizing", "polling", "answered"}
Tick ==
  /\ clock < MaxTime
  /\ \A r \in Fetchers :
       /\ fetcher[r].phase \notin {"using", "checking"} /\ ~TimerFires(r)
       /\ Waiting(r) => clock < fetcher[r].since + MaxDelay
  /\ clock' = clock + 1
  /\ UNCHANGED <<token_cache, fetcher>>

OAuthNext ==
  \/ Tick
  \/ \E r \in Fetchers :
       \/ \E k \in TokenKeys : LookUpToken(r, k)
       \/ IssueToken(r) \/ ReceiveToken(r) \/ UseToken(r)
       \/ AuthorizeDevice(r) \/ LoopOrExpire(r) \/ PollToken(r) \/ PollAgain(r)
       \/ FetchFails(r)

OAuthSpec == OAuthInit /\ [][OAuthNext]_oauthVars

-----------------------------------------------------------------------------
LongestToken == MaxTime + CHOOSE l \in Lifetimes : \A m \in Lifetimes : m <= l
OAuthTypeOK ==
  /\ clock \in 0 .. MaxTime
  /\ DOMAIN token_cache \subseteq TokenKeys
  /\ \A k \in DOMAIN token_cache :
       token_cache[k] \in [expires_at : 0 .. LongestToken, valid_until : 0 .. LongestToken]
  /\ \A r \in Fetchers :
       /\ fetcher[r].phase \in {"idle", "using", "fetching", "authorizing", "checking",
                                "sleeping", "polling", "answered"}
       /\ fetcher[r].key \in TokenKeys
       /\ fetcher[r].since \in 0 .. clock /\ fetcher[r].started \in 0 .. clock
       /\ fetcher[r].interval \in {0} \cup MinInterval .. MaxInterval
       /\ fetcher[r].asked \in Nat /\ fetcher[r].last_poll \in 0 .. clock

(* A request that takes a token from the cache sends one that the server still *)
(* accepts, however many requests fetch at the same time and whichever answer  *)
(* is inserted last, if answers arrive within the skew; and the cache never     *)
(* holds more than its bound.                                                *)
CachedTokensAreValid ==
  /\ \A r \in Fetchers : fetcher[r].phase = "using" => fetcher[r].valid_until > clock
  /\ Cardinality(DOMAIN token_cache) <= MaxCachedTokens

(* The device flow waits before each poll, the first included, as long as the  *)
(* server wants it to: the interval of its first answer and SlowDown more for   *)
(* each slow_down.  Only a server that wants more than MaxInterval, which the    *)
(* code caps the interval at, is polled sooner, and then not before MaxInterval. *)
(* The flow ends by itself: it makes no poll later than one interval after the    *)
(* code has expired.                                                         *)
DeviceFlowIsPaced ==
  [][\A r \in Fetchers :
       fetcher[r].phase = "sleeping" /\ fetcher'[r].phase = "polling" =>
         /\ clock < fetcher[r].deadline + fetcher[r].interval
         /\ clock >= fetcher[r].last_poll + AtMost(fetcher[r].asked)]_oauthVars
=============================================================================
