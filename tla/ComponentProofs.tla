-------------------------- MODULE ComponentProofs --------------------------
(***************************************************************************)
(* Proofs about components that share no state and store nothing.  Each part *)
(* has the inductive invariant of its component, what a step keeps of it,     *)
(* and the theorems that follow for every value of the constants:            *)
(*   - OAuthTokens: cached tokens are valid and device flows are paced;       *)
(*   - PkceBrowser: each flow exchanges the code of its own state;            *)
(*   - ScriptProcess: a script that has returned has no child left;           *)
(*   - ScriptHarness: what a script did is in its output once;               *)
(*   - DesktopWorkers: no worker's result is lost or shown for another's;     *)
(* and what Components says of several of them together.                     *)
(***************************************************************************)
EXTENDS Components, FiniteSetTheorems, TLAPS

(***************************************************************************)
(* OAuth tokens                                                            *)
(***************************************************************************)
FetchPhases ==
  {"idle", "using", "fetching", "authorizing", "checking", "sleeping", "polling", "answered"}
FetcherRecord ==
  [phase : FetchPhases, key : TokenKeys, since : Nat, started : Nat, lifetime : Nat,
   valid_until : Nat, deadline : Nat, interval : Nat, asked : Nat, last_poll : Nat]
CachedToken == [expires_at : Nat, valid_until : Nat]
OAuthTyped ==
  /\ clock \in Nat
  /\ fetcher \in [Fetchers -> FetcherRecord]
  /\ \A k \in DOMAIN token_cache : token_cache[k] \in CachedToken

(* The times of a fetcher: what it waits for comes within MaxDelay, its sleep    *)
(* ends with its interval, which is what the server wants up to the client's      *)
(* maximum, and began before the code expired; and the server counts a token's    *)
(* life from when it answered.                                               *)
TimesOf(w) ==
  /\ w.since <= clock /\ w.last_poll <= w.since
  /\ w.phase \in {"fetching", "authorizing", "polling", "answered"} =>
       clock <= w.since + MaxDelay
  /\ w.phase = "sleeping" => clock <= w.since + w.interval /\ w.since < w.deadline
  /\ w.phase \in {"checking", "sleeping", "polling"} => AtMost(w.asked) <= w.interval
  /\ w.phase \in {"fetching", "answered"} /\ w.key \notin DeviceKeys => w.started <= w.since
  /\ w.phase \in {"authorizing", "checking", "sleeping", "polling"} => w.key \in DeviceKeys
  /\ w.phase = "answered" => w.valid_until = w.since + w.lifetime
  /\ w.phase = "using" => w.valid_until > clock
FetcherTimes == \A r \in Fetchers : TimesOf(fetcher[r])

(* A cached token expires for the cache at most the skew after it does for the    *)
(* server, and there are no more than fit.                                   *)
CacheInv ==
  /\ \A k \in DOMAIN token_cache :
       token_cache[k].expires_at <= token_cache[k].valid_until + Skew
  /\ IsFiniteSet(DOMAIN token_cache)
  /\ Cardinality(DOMAIN token_cache) <= MaxCachedTokens
OAuthInv == OAuthTyped /\ FetcherTimes /\ CacheInv

LEMMA IdleFetcherFacts ==
  /\ IdleFetcher \in FetcherRecord /\ IdleFetcher.phase = "idle"
  /\ clock \in Nat => TimesOf(IdleFetcher)
<1>1. \E k : k \in TokenKeys
  BY OAuthAssumption
<1>2. (CHOOSE k \in TokenKeys : TRUE) \in TokenKeys
  BY <1>1
<1>3. IdleFetcher \in FetcherRecord /\ IdleFetcher.phase = "idle"
  BY <1>2 DEF IdleFetcher, FetcherRecord, FetchPhases
<1>4. IdleFetcher.since = 0 /\ IdleFetcher.last_poll = 0
  BY DEF IdleFetcher
<1> QED  BY <1>3, <1>4 DEF TimesOf

(* What EnterPhase leaves in the fetcher's record.                              *)
Entered(w, phase) == [w EXCEPT !.phase = phase, !.since = clock]
LEMMA EnteredFacts ==
  ASSUME clock \in Nat, NEW w \in FetcherRecord, NEW phase \in FetchPhases
  PROVE  LET new == Entered(w, phase) IN
         /\ new \in FetcherRecord /\ new.phase = phase /\ new.since = clock
         /\ new.key = w.key /\ new.started = w.started /\ new.lifetime = w.lifetime
         /\ new.valid_until = w.valid_until /\ new.deadline = w.deadline
         /\ new.interval = w.interval /\ new.asked = w.asked
         /\ new.last_poll = w.last_poll
  BY DEF Entered, FetcherRecord

(* An interval that is at least what the server wants, up to the maximum, stays     *)
(* so when the server asks for more.                                         *)
LEMMA IntervalFacts ==
  ASSUME NEW i \in Nat, NEW j \in Nat
  PROVE  /\ AtMost(i) \in Nat /\ ClampInterval(i) \in Nat /\ Slower(j) \in Nat
         /\ i + SlowDown \in Nat
         /\ AtMost(i) <= ClampInterval(i)
         /\ AtMost(i) <= j => AtMost(i + SlowDown) <= Slower(j)
  BY OAuthAssumption DEF AtMost, ClampInterval, Slower

LEMMA RetainedFacts ==
  LET retained == RetainedTokens(token_cache) IN
  /\ DOMAIN retained \subseteq DOMAIN token_cache
  /\ \A k \in DOMAIN retained : retained[k] = token_cache[k]
  BY DEF RetainedTokens, Restrict

(* Every step but a tick moves one fetcher, to a record of its type and with     *)
(* times that hold.                                                          *)
FetcherMoves ==
  /\ UNCHANGED clock
  /\ \E r \in Fetchers, w \in FetcherRecord :
       fetcher' = [fetcher EXCEPT ![r] = w] /\ TimesOf(w)

LEMMA ReturnMoves ==
  ASSUME OAuthInv, NEW r \in Fetchers, Return(r), UNCHANGED clock
  PROVE  FetcherMoves
  BY IdleFetcherFacts DEF OAuthInv, OAuthTyped, Return, FetcherMoves

LEMMA EnterMoves ==
  ASSUME OAuthInv, NEW r \in Fetchers, NEW w \in FetcherRecord, NEW phase \in FetchPhases,
         EnterPhase(r, phase, w), UNCHANGED clock, TimesOf(Entered(w, phase))
  PROVE  FetcherMoves
<1>1. Entered(w, phase) \in FetcherRecord
  BY EnteredFacts DEF OAuthInv, OAuthTyped
<1> QED  BY <1>1 DEF EnterPhase, Entered, FetcherMoves

LEMMA LookUpMoves ==
  ASSUME OAuthInv, NEW r \in Fetchers, NEW k \in TokenKeys, LookUpToken(r, k)
  PROVE  FetcherMoves
<1>1. clock \in Nat /\ fetcher[r] \in FetcherRecord /\ clock' = clock /\ TimesOf(fetcher[r])
  BY DEF OAuthInv, OAuthTyped, FetcherTimes, LookUpToken
<1>2. CASE k \in DOMAIN token_cache' /\ Usable(token_cache'[k])
  <2> DEFINE w == [fetcher[r] EXCEPT !.key = k, !.valid_until = token_cache'[k].valid_until]
  <2>1. EnterPhase(r, "using", w)
    BY <1>2 DEF LookUpToken
  <2>2. k \in DOMAIN token_cache /\ token_cache'[k] = token_cache[k]
    BY <1>2, RetainedFacts DEF LookUpToken
  <2>3. /\ token_cache[k] \in CachedToken
        /\ token_cache[k].expires_at <= token_cache[k].valid_until + Skew
    BY <2>2 DEF OAuthInv, OAuthTyped, CacheInv
  <2>4. token_cache[k].valid_until \in Nat /\ token_cache[k].valid_until > clock
    BY <1>1, <1>2, <2>2, <2>3, OAuthAssumption DEF Usable, CachedToken
  <2>5. w \in FetcherRecord /\ w.valid_until > clock /\ w.last_poll = fetcher[r].last_poll
    BY <1>1, <2>2, <2>4 DEF FetcherRecord
  <2>6. fetcher[r].last_poll <= clock
    BY <1>1 DEF TimesOf, FetcherRecord
  <2> HIDE DEF w
  <2>7. TimesOf(Entered(w, "using"))
    <3>1. "using" \in FetchPhases
      BY DEF FetchPhases
    <3> QED  BY <1>1, <2>5, <2>6, <3>1, EnteredFacts DEF TimesOf
  <2> QED  BY <1>1, <2>1, <2>5, <2>7, EnterMoves DEF FetchPhases
<1>3. CASE ~(k \in DOMAIN token_cache' /\ Usable(token_cache'[k]))
  <2> DEFINE w == [fetcher[r] EXCEPT !.key = k, !.started = clock]
             phase == IF k \in DeviceKeys THEN "authorizing" ELSE "fetching"
  <2>1. EnterPhase(r, phase, w)
    BY <1>3 DEF LookUpToken
  <2>2. /\ w \in FetcherRecord /\ w.key = k /\ w.started = clock
        /\ w.last_poll = fetcher[r].last_poll
    BY <1>1 DEF FetcherRecord
  <2>3. fetcher[r].last_poll <= clock
    BY <1>1 DEF TimesOf, FetcherRecord
  <2>4. phase \in FetchPhases /\ (k \in DeviceKeys => phase = "authorizing")
        /\ (k \notin DeviceKeys => phase = "fetching")
    BY DEF FetchPhases
  <2> HIDE DEF w, phase
  <2>5. TimesOf(Entered(w, phase))
    BY <1>1, <2>2, <2>3, <2>4, EnteredFacts, OAuthAssumption DEF TimesOf
  <2> QED  BY <1>1, <2>1, <2>2, <2>4, <2>5, EnterMoves
<1> QED  BY <1>2, <1>3

LEMMA FetchMoves ==
  ASSUME OAuthInv, NEW r \in Fetchers,
         \/ IssueToken(r) \/ AuthorizeDevice(r) \/ LoopOrExpire(r) \/ PollToken(r)
         \/ PollAgain(r)
  PROVE  FetcherMoves
<1>1. clock \in Nat /\ fetcher[r] \in FetcherRecord /\ TimesOf(fetcher[r])
  BY DEF OAuthInv, OAuthTyped, FetcherTimes
<1>2. clock' = clock
  BY DEF IssueToken, AuthorizeDevice, LoopOrExpire, PollToken, PollAgain
<1>3. fetcher[r].last_poll <= clock /\ fetcher[r].since <= clock
  BY <1>1 DEF TimesOf, FetcherRecord
<1>4. CASE IssueToken(r)
  <2>1. PICK lifetime \in Lifetimes :
          EnterPhase(r, "answered",
            [fetcher[r] EXCEPT !.lifetime = lifetime, !.valid_until = clock + lifetime])
    BY <1>4 DEF IssueToken
  <2> DEFINE w == [fetcher[r] EXCEPT !.lifetime = lifetime, !.valid_until = clock + lifetime]
  <2>2. lifetime \in Nat /\ clock + lifetime \in Nat
    BY <1>1, OAuthAssumption
  <2>3. /\ w \in FetcherRecord /\ w.valid_until = clock + lifetime /\ w.lifetime = lifetime
        /\ w.key = fetcher[r].key /\ w.started = fetcher[r].started
        /\ w.last_poll = fetcher[r].last_poll
    BY <1>1, <2>2 DEF FetcherRecord
  <2>4. fetcher[r].key \notin DeviceKeys => fetcher[r].started <= clock
    <3>1. fetcher[r].phase \in {"fetching", "polling"}
      BY <1>4 DEF IssueToken
    <3>2. fetcher[r].started \in Nat /\ fetcher[r].since \in Nat
      BY <1>1 DEF FetcherRecord
    <3>3. fetcher[r].key \notin DeviceKeys => fetcher[r].started <= fetcher[r].since
      BY <1>1, <3>1 DEF TimesOf
    <3> QED  BY <1>1, <1>3, <3>2, <3>3
  <2>5. "answered" \in FetchPhases
    BY DEF FetchPhases
  <2> HIDE DEF w
  <2>6. TimesOf(Entered(w, "answered"))
    BY <1>1, <1>3, <2>2, <2>3, <2>4, <2>5, EnteredFacts, OAuthAssumption DEF TimesOf
  <2> QED  BY <1>2, <2>1, <2>3, <2>5, <2>6, EnterMoves DEF w
<1>5. CASE AuthorizeDevice(r)
  <2>1. PICK e \in CodeLifetimes, i \in Intervals :
          EnterPhase(r, "checking",
            [fetcher[r] EXCEPT !.deadline = clock + e, !.interval = ClampInterval(i),
                               !.asked = i, !.last_poll = clock])
    BY <1>5 DEF AuthorizeDevice
  <2> DEFINE w == [fetcher[r] EXCEPT !.deadline = clock + e, !.interval = ClampInterval(i),
                                     !.asked = i, !.last_poll = clock]
  <2>2. /\ clock + e \in Nat /\ i \in Nat /\ ClampInterval(i) \in Nat
        /\ AtMost(i) <= ClampInterval(i)
    BY <1>1, IntervalFacts, OAuthAssumption
  <2>3. /\ w \in FetcherRecord /\ w.key = fetcher[r].key /\ w.last_poll = clock
        /\ w.asked = i /\ w.interval = ClampInterval(i)
    BY <1>1, <2>2 DEF FetcherRecord
  <2>4. fetcher[r].key \in DeviceKeys
    BY <1>1, <1>5 DEF AuthorizeDevice, TimesOf
  <2>5. "checking" \in FetchPhases
    BY DEF FetchPhases
  <2> HIDE DEF w
  <2>6. TimesOf(Entered(w, "checking"))
    BY <1>1, <2>2, <2>3, <2>4, <2>5, EnteredFacts DEF TimesOf
  <2> QED  BY <1>2, <2>1, <2>3, <2>5, <2>6, EnterMoves DEF w
<1>6. CASE LoopOrExpire(r)
  <2>1. CASE clock >= fetcher[r].deadline
    BY <1>2, <1>6, <2>1, ReturnMoves DEF LoopOrExpire, CheckDeadline
  <2>2. CASE ~(clock >= fetcher[r].deadline)
    <3>1. EnterPhase(r, "sleeping", fetcher[r]) /\ "sleeping" \in FetchPhases
      BY <1>6, <2>2 DEF LoopOrExpire, CheckDeadline, FetchPhases
    <3>2. fetcher[r].key \in DeviceKeys /\ AtMost(fetcher[r].asked) <= fetcher[r].interval
      BY <1>1, <1>6 DEF LoopOrExpire, TimesOf
    <3>3. clock < fetcher[r].deadline /\ clock <= clock + fetcher[r].interval
      BY <1>1, <2>2 DEF FetcherRecord
    <3>4. TimesOf(Entered(fetcher[r], "sleeping"))
      BY <1>1, <1>3, <3>1, <3>2, <3>3, EnteredFacts DEF TimesOf
    <3> QED  BY <1>1, <1>2, <3>1, <3>4, EnterMoves
  <2> QED  BY <2>1, <2>2
<1>7. CASE PollToken(r)
  <2> DEFINE w == [fetcher[r] EXCEPT !.last_poll = clock]
  <2>1. EnterPhase(r, "polling", w) /\ "polling" \in FetchPhases
    BY <1>7 DEF PollToken, FetchPhases
  <2>2. /\ w \in FetcherRecord /\ w.key = fetcher[r].key /\ w.last_poll = clock
        /\ w.asked = fetcher[r].asked /\ w.interval = fetcher[r].interval
    BY <1>1 DEF FetcherRecord
  <2>3. fetcher[r].key \in DeviceKeys /\ AtMost(fetcher[r].asked) <= fetcher[r].interval
    BY <1>1, <1>7 DEF PollToken, TimerFires, TimesOf
  <2> HIDE DEF w
  <2>4. TimesOf(Entered(w, "polling"))
    BY <1>1, <2>1, <2>2, <2>3, EnteredFacts, OAuthAssumption DEF TimesOf
  <2> QED  BY <1>2, <2>1, <2>2, <2>4, EnterMoves
<1>8. CASE PollAgain(r)
  <2>1. /\ fetcher[r].key \in DeviceKeys /\ AtMost(fetcher[r].asked) <= fetcher[r].interval
        /\ fetcher[r].asked \in Nat /\ fetcher[r].interval \in Nat
    BY <1>1, <1>8 DEF PollAgain, TimesOf, FetcherRecord
  <2>2. "checking" \in FetchPhases
    BY DEF FetchPhases
  <2>3. CASE EnterPhase(r, "checking", fetcher[r])
    <3>1. TimesOf(Entered(fetcher[r], "checking"))
      BY <1>1, <1>3, <2>1, <2>2, EnteredFacts DEF TimesOf
    <3> QED  BY <1>1, <1>2, <2>2, <2>3, <3>1, EnterMoves
  <2> DEFINE w == [fetcher[r] EXCEPT !.interval = Slower(@), !.asked = @ + SlowDown]
  <2>4. CASE EnterPhase(r, "checking", w)
    <3>1. /\ Slower(fetcher[r].interval) \in Nat /\ fetcher[r].asked + SlowDown \in Nat
          /\ AtMost(fetcher[r].asked + SlowDown) <= Slower(fetcher[r].interval)
      BY <2>1, IntervalFacts
    <3>2. /\ w \in FetcherRecord /\ w.key = fetcher[r].key /\ w.last_poll = fetcher[r].last_poll
          /\ w.asked = fetcher[r].asked + SlowDown /\ w.interval = Slower(fetcher[r].interval)
      BY <1>1, <3>1 DEF FetcherRecord
    <3> HIDE DEF w
    <3>3. TimesOf(Entered(w, "checking"))
      BY <1>1, <1>3, <2>1, <2>2, <3>1, <3>2, EnteredFacts DEF TimesOf
    <3> QED  BY <1>2, <2>2, <2>4, <3>2, <3>3, EnterMoves
  <2> QED  BY <1>8, <2>3, <2>4 DEF PollAgain
<1> QED  BY <1>4, <1>5, <1>6, <1>7, <1>8

LEMMA OAuthCases ==
  ASSUME OAuthInv, [OAuthNext]_oauthVars
  PROVE  Tick \/ FetcherMoves \/ UNCHANGED oauthVars
<1>1. ASSUME NEW r \in Fetchers, ReceiveToken(r) \/ UseToken(r) \/ FetchFails(r)
      PROVE  FetcherMoves
  BY <1>1, ReturnMoves DEF ReceiveToken, UseToken, FetchFails
<1> QED  BY <1>1, LookUpMoves, FetchMoves DEF OAuthNext

LEMMA StepFetchers ==
  ASSUME OAuthInv, [OAuthNext]_oauthVars
  PROVE  /\ clock' \in Nat /\ fetcher' \in [Fetchers -> FetcherRecord]
         /\ FetcherTimes'
<1>a. /\ clock \in Nat /\ fetcher \in [Fetchers -> FetcherRecord]
      /\ \A r \in Fetchers : TimesOf(fetcher[r])
  BY DEF OAuthInv, OAuthTyped, FetcherTimes
<1>1. CASE Tick
  <2>1. /\ clock' = clock + 1 /\ UNCHANGED fetcher
        /\ \A r \in Fetchers :
             /\ fetcher[r].phase \notin {"using", "checking"} /\ ~TimerFires(r)
             /\ Waiting(r) => clock < fetcher[r].since + MaxDelay
    BY <1>1 DEF Tick
  <2>2. ASSUME NEW r \in Fetchers PROVE TimesOf(fetcher[r])'
    <3> DEFINE w == fetcher[r]
    <3>1. w \in FetcherRecord /\ TimesOf(w) /\ fetcher'[r] = w
      BY <1>a, <2>1
    <3>2. /\ w.since \in Nat /\ w.interval \in Nat /\ w.last_poll \in Nat
          /\ MaxDelay \in Nat
      BY <3>1, OAuthAssumption DEF FetcherRecord
    <3>3. w.since <= clock'
      BY <1>a, <2>1, <3>1, <3>2 DEF TimesOf
    <3>4. w.phase \in {"fetching", "authorizing", "polling", "answered"} =>
            clock' <= w.since + MaxDelay
      BY <1>a, <2>1, <3>2 DEF Waiting
    <3>5. w.phase = "sleeping" => clock' <= w.since + w.interval
      BY <1>a, <2>1, <3>2 DEF TimerFires
    <3> QED  BY <2>1, <3>1, <3>3, <3>4, <3>5 DEF TimesOf
  <2> QED  BY <1>a, <2>1, <2>2 DEF FetcherTimes
<1>2. CASE FetcherMoves
  <2>1. PICK r \in Fetchers, w \in FetcherRecord :
          fetcher' = [fetcher EXCEPT ![r] = w] /\ TimesOf(w) /\ UNCHANGED clock
    BY <1>2 DEF FetcherMoves
  <2>2. \A q \in Fetchers : fetcher'[q] = IF q = r THEN w ELSE fetcher[q]
    BY <1>a, <2>1
  <2>3. \A q \in Fetchers : TimesOf(fetcher'[q])
    BY <1>a, <2>1, <2>2
  <2>4. FetcherTimes'
    BY <2>1, <2>3 DEF FetcherTimes, TimesOf
  <2> QED  BY <1>a, <2>1, <2>4
<1>3. CASE UNCHANGED oauthVars
  BY <1>a, <1>3 DEF oauthVars, FetcherTimes, TimesOf
<1> QED  BY <1>1, <1>2, <1>3, OAuthCases

(* A cache with room for a token: what it keeps is unchanged.                   *)
LEMMA RoomFacts ==
  ASSUME CacheInv, NEW room \in RoomMade(token_cache)
  PROVE  /\ DOMAIN room \subseteq DOMAIN token_cache
         /\ \A k \in DOMAIN room : room[k] = token_cache[k]
         /\ IsFiniteSet(DOMAIN room) /\ Cardinality(DOMAIN room) + 1 <= MaxCachedTokens
<1> DEFINE D == DOMAIN token_cache
<1>1. IsFiniteSet(D) /\ Cardinality(D) \in Nat /\ Cardinality(D) <= MaxCachedTokens
  BY FS_CardinalityType DEF CacheInv
<1>2. MaxCachedTokens \in Nat \ {0}
  BY OAuthAssumption
<1>3. CASE Cardinality(D) < MaxCachedTokens
  <2>1. room = token_cache
    BY <1>3 DEF RoomMade
  <2> QED  BY <1>1, <1>2, <1>3, <2>1
<1>4. CASE ~(Cardinality(D) < MaxCachedTokens)
  <2>1. PICK k \in D : room = Restrict(token_cache, D \ {k})
    BY <1>4 DEF RoomMade
  <2>2. DOMAIN room = D \ {k} /\ \A j \in D \ {k} : room[j] = token_cache[j]
    BY <2>1 DEF Restrict
  <2>3. IsFiniteSet(D \ {k}) /\ Cardinality(D \ {k}) = Cardinality(D) - 1
    BY <1>1, FS_RemoveElement
  <2> QED  BY <1>1, <1>2, <2>2, <2>3
<1> QED  BY <1>3, <1>4

LEMMA StepCache ==
  ASSUME OAuthInv, [OAuthNext]_oauthVars
  PROVE  CacheInv' /\ \A k \in DOMAIN token_cache' : token_cache'[k] \in CachedToken
<1>a. /\ CacheInv /\ clock \in Nat
      /\ \A k \in DOMAIN token_cache : token_cache[k] \in CachedToken
  BY DEF OAuthInv, OAuthTyped
<1> DEFINE Goal == CacheInv' /\ \A k \in DOMAIN token_cache' : token_cache'[k] \in CachedToken
<1>b. UNCHANGED token_cache => Goal
  BY <1>a DEF CacheInv
<1>1. ASSUME NEW r \in Fetchers, NEW k \in TokenKeys, LookUpToken(r, k) PROVE Goal
  <2> DEFINE D == DOMAIN token_cache'
  <2>1. D \subseteq DOMAIN token_cache /\ \A j \in D : token_cache'[j] = token_cache[j]
    BY <1>1, RetainedFacts DEF LookUpToken
  <2>2. IsFiniteSet(D) /\ Cardinality(D) <= Cardinality(DOMAIN token_cache)
    BY <1>a, <2>1, FS_Subset DEF CacheInv
  <2>3. /\ Cardinality(D) \in Nat /\ Cardinality(DOMAIN token_cache) \in Nat
        /\ Cardinality(DOMAIN token_cache) <= MaxCachedTokens /\ MaxCachedTokens \in Nat
    BY <1>a, <2>2, FS_CardinalityType, OAuthAssumption DEF CacheInv
  <2>4. Cardinality(D) <= MaxCachedTokens
    BY <2>2, <2>3
  <2> QED  BY <1>a, <2>1, <2>2, <2>4 DEF CacheInv
<1>2. ASSUME NEW r \in Fetchers, ReceiveToken(r) PROVE Goal
  <2> DEFINE w == fetcher[r]
             token == [expires_at |-> ExpiresAt(r), valid_until |-> w.valid_until]
  <2>1. w \in FetcherRecord /\ TimesOf(w) /\ w.phase = "answered"
    BY <1>2 DEF OAuthInv, OAuthTyped, FetcherTimes, ReceiveToken
  <2>2. /\ w.since \in Nat /\ w.started \in Nat /\ w.lifetime \in Nat
        /\ w.valid_until = w.since + w.lifetime /\ clock <= w.since + MaxDelay
        /\ w.key \notin DeviceKeys => w.started <= w.since
    BY <2>1 DEF FetcherRecord, TimesOf
  <2>3. MaxDelay \in Nat /\ Skew \in Nat /\ MaxDelay <= Skew
    BY OAuthAssumption
  <2>4. /\ ExpiresAt(r) \in Nat /\ w.valid_until \in Nat
        /\ ExpiresAt(r) <= w.valid_until + Skew
    BY <1>a, <2>2, <2>3 DEF ExpiresAt
  <2>5. token \in CachedToken /\ token.expires_at <= token.valid_until + Skew
    BY <2>4 DEF CachedToken
  <2>6. CASE UNCHANGED token_cache
    BY <1>b, <2>6
  <2>7. ASSUME NEW room \in RoomMade(token_cache),
               token_cache' = [k \in DOMAIN room \cup {w.key} |->
                                 IF k = w.key THEN token ELSE room[k]]
        PROVE  Goal
    <3> HIDE DEF token, w
    <3>1. /\ DOMAIN room \subseteq DOMAIN token_cache
          /\ \A k \in DOMAIN room : room[k] = token_cache[k]
          /\ IsFiniteSet(DOMAIN room) /\ Cardinality(DOMAIN room) + 1 <= MaxCachedTokens
      BY <1>a, <2>7, RoomFacts
    <3>2. /\ DOMAIN token_cache' = DOMAIN room \cup {w.key}
          /\ \A k \in DOMAIN token_cache' :
               token_cache'[k] = IF k = w.key THEN token ELSE room[k]
      BY <2>7
    <3>3. \A k \in DOMAIN token_cache' :
            token_cache'[k] = token \/ (k \in DOMAIN token_cache /\ token_cache'[k] = token_cache[k])
      BY <3>1, <3>2
    <3>4. IsFiniteSet(DOMAIN token_cache')
          /\ Cardinality(DOMAIN token_cache') <= MaxCachedTokens
      <4>1. Cardinality(DOMAIN room) \in Nat /\ MaxCachedTokens \in Nat
        BY <3>1, FS_CardinalityType, OAuthAssumption
      <4>2. /\ IsFiniteSet(DOMAIN token_cache')
            /\ Cardinality(DOMAIN token_cache') =
                 IF w.key \in DOMAIN room THEN Cardinality(DOMAIN room)
                 ELSE Cardinality(DOMAIN room) + 1
        BY <3>1, <3>2, FS_AddElement
      <4> QED  BY <3>1, <4>1, <4>2
    <3> QED  BY <1>a, <2>5, <3>3, <3>4 DEF CacheInv
  <2> QED  BY <1>2, <2>6, <2>7 DEF ReceiveToken
<1> QED
  BY <1>1, <1>2, <1>b
     DEF OAuthNext, Tick, IssueToken, UseToken, AuthorizeDevice, LoopOrExpire, PollToken,
         PollAgain, FetchFails, oauthVars

LEMMA OAuthInvariant == OAuthSpec => []OAuthInv
<1>1. OAuthInit => OAuthInv
  <2> SUFFICES ASSUME OAuthInit PROVE OAuthInv
    OBVIOUS
  <2>1. /\ clock = 0 /\ DOMAIN token_cache = {}
        /\ fetcher = [r \in Fetchers |-> IdleFetcher]
    BY DEF OAuthInit
  <2>2. OAuthTyped /\ FetcherTimes
    BY <2>1, IdleFetcherFacts DEF OAuthTyped, FetcherTimes
  <2>3. CacheInv
    BY <2>1, FS_EmptySet, OAuthAssumption DEF CacheInv
  <2> QED  BY <2>2, <2>3 DEF OAuthInv
<1>2. OAuthInv /\ [OAuthNext]_oauthVars => OAuthInv'
  BY StepFetchers, StepCache DEF OAuthInv, OAuthTyped
<1> QED  BY <1>1, <1>2, PTL DEF OAuthSpec

(* A request that takes a token from the cache sends one that the server still    *)
(* accepts, and the cache keeps within its bound, in whichever order answers are  *)
(* inserted.                                                              *)
THEOREM OAuthCachedTokens == OAuthSpec => []CachedTokensAreValid
<1>1. OAuthInv => CachedTokensAreValid
  BY DEF OAuthInv, FetcherTimes, TimesOf, CacheInv, CachedTokensAreValid
<1> QED  BY <1>1, OAuthInvariant, PTL

(* The action of DeviceFlowIsPaced.                                            *)
PollsAreSpaced ==
  \A r \in Fetchers :
    fetcher[r].phase = "sleeping" /\ fetcher'[r].phase = "polling" =>
      /\ clock < fetcher[r].deadline + fetcher[r].interval
      /\ clock >= fetcher[r].last_poll + AtMost(fetcher[r].asked)

(* Before each poll the device flow waits as long as the server wants it to, the    *)
(* slow_downs counted in, or MaxInterval if the server wants more; and it polls     *)
(* not later than an interval after the code expired.                         *)
THEOREM OAuthDeviceFlowIsPaced == OAuthSpec => DeviceFlowIsPaced
<1>1. ASSUME OAuthInv, [OAuthNext]_oauthVars PROVE PollsAreSpaced
  <2> SUFFICES ASSUME NEW r \in Fetchers,
                      fetcher[r].phase = "sleeping", fetcher'[r].phase = "polling"
               PROVE  /\ clock < fetcher[r].deadline + fetcher[r].interval
                      /\ clock >= fetcher[r].last_poll + AtMost(fetcher[r].asked)
    BY DEF PollsAreSpaced
  <2>1. /\ clock \in Nat /\ fetcher \in [Fetchers -> FetcherRecord]
        /\ fetcher[r] \in FetcherRecord /\ TimesOf(fetcher[r])
    BY <1>1 DEF OAuthInv, OAuthTyped, FetcherTimes
  <2>2. /\ fetcher[r].since \in Nat /\ fetcher[r].interval \in Nat
        /\ fetcher[r].deadline \in Nat /\ fetcher[r].last_poll \in Nat
        /\ AtMost(fetcher[r].asked) \in Nat
    BY <2>1, IntervalFacts DEF FetcherRecord
  <2>3. /\ clock <= fetcher[r].since + fetcher[r].interval
        /\ fetcher[r].since < fetcher[r].deadline
        /\ fetcher[r].last_poll <= fetcher[r].since
        /\ AtMost(fetcher[r].asked) <= fetcher[r].interval
    BY <2>1 DEF TimesOf
  <2>4. TimerFires(r)
    <3>1. ASSUME NEW q \in Fetchers, NEW w, fetcher' = [fetcher EXCEPT ![q] = w]
          PROVE  q = r /\ w.phase = "polling"
      BY <2>1, <3>1
    <3>2. ASSUME NEW q \in Fetchers, NEW k \in TokenKeys, LookUpToken(q, k) PROVE FALSE
      BY <3>1, <3>2 DEF LookUpToken, EnterPhase
    <3>3. ASSUME NEW q \in Fetchers, Return(q) PROVE FALSE
      BY <3>1, <3>3, IdleFetcherFacts DEF Return
    <3>4. ASSUME NEW q \in Fetchers, IssueToken(q) \/ AuthorizeDevice(q) \/ PollAgain(q)
          PROVE  FALSE
      BY <3>1, <3>4 DEF IssueToken, AuthorizeDevice, PollAgain, EnterPhase
    <3>5. ASSUME NEW q \in Fetchers, LoopOrExpire(q) PROVE FALSE
      BY <3>1, <3>3, <3>5 DEF LoopOrExpire, CheckDeadline, EnterPhase
    <3>6. ASSUME NEW q \in Fetchers, PollToken(q) PROVE TimerFires(r)
      BY <3>1, <3>6 DEF PollToken, EnterPhase
    <3> QED
      BY <1>1, <3>2, <3>3, <3>4, <3>5, <3>6
         DEF OAuthNext, Tick, ReceiveToken, UseToken, FetchFails, oauthVars
  <2>5. clock >= fetcher[r].since + fetcher[r].interval
    BY <2>4 DEF TimerFires
  <2> QED  BY <2>1, <2>2, <2>3, <2>5
<1>2. OAuthInv /\ [OAuthNext]_oauthVars => [PollsAreSpaced]_oauthVars
  BY <1>1
<1>3. OAuthSpec => [][PollsAreSpaced]_oauthVars
  BY <1>2, OAuthInvariant, PTL DEF OAuthSpec
<1>4. DeviceFlowIsPaced <=> [][PollsAreSpaced]_oauthVars
  BY DEF DeviceFlowIsPaced, PollsAreSpaced
<1> QED  BY <1>3, <1>4, PTL

(***************************************************************************)
(* The PKCE browser flow                                                   *)
(***************************************************************************)
FlowPhases ==
  {"idle", "opening", "waiting", "reading", "answering", "exchanging", "done", "failed"}
PkceTyped ==
  /\ flow_phase \in [Flows -> FlowPhases]
  /\ opened_flows \subseteq Flows /\ port_owner \in Flows \cup {NoFlow}
  /\ DOMAIN backlog = 1 .. Len(backlog) /\ Len(backlog) \in 0 .. MaxBacklog
  /\ granted \in [Flows -> Flows \cup {NoFlow}]

(* A flow in progress owns the port, one that waited was opened in the browser,   *)
(* and a flow is granted its own code or none.                               *)
FlowInv(f) ==
  /\ At(f, {"opening", "waiting", "reading", "answering", "exchanging"}) => port_owner = f
  /\ At(f, {"waiting", "reading", "answering", "exchanging", "done"}) => f \in opened_flows
  /\ granted[f] \in {f, NoFlow}
  /\ At(f, {"exchanging", "done"}) => granted[f] = f
PkceInv == PkceTyped /\ \A f \in Flows : FlowInv(f)

LEMMA StepPkceTyped ==
  ASSUME PkceInv, [PkceBrowserNext]_pkceVars
  PROVE  PkceTyped'
<1>a. PkceTyped /\ \A f \in Flows : FlowInv(f)
  BY DEF PkceInv
<1> USE DEF PkceTyped
<1>b. MaxBacklog \in Nat
  BY PkceBrowserAssumption
<1>c. ASSUME NEW f \in Flows, NEW phase \in FlowPhases, EnterFlowPhase(f, phase)
      PROVE  flow_phase' \in [Flows -> FlowPhases]
  BY <1>a, <1>c DEF EnterFlowPhase
<1>d. ASSUME backlog' = <<>> PROVE DOMAIN backlog' = 1 .. Len(backlog') /\ Len(backlog') = 0
  BY <1>d
<1>e. ASSUME NEW f \in Flows, EndFlow(f, "failed") \/ EndFlow(f, "done"),
             UNCHANGED <<opened_flows, granted>>
      PROVE  PkceTyped'
  BY <1>a, <1>b, <1>c, <1>d, <1>e DEF EndFlow, FlowPhases
<1>1. CASE BrowserConnects
  <2>1. PICK c : backlog' = Append(backlog, c)
    BY <1>1 DEF BrowserConnects
  <2> QED  BY <1>1, <1>a, <1>b, <2>1 DEF BrowserConnects
<1>2. ASSUME NEW f \in Flows, StartFlow(f) \/ OpenAuthorization(f) PROVE PkceTyped'
  BY <1>2, <1>a, <1>c DEF StartFlow, OpenAuthorization, FlowPhases
<1>3. ASSUME NEW f \in Flows, AcceptConnection(f) PROVE PkceTyped'
  BY <1>3, <1>a, <1>b, <1>c DEF AcceptConnection, FlowPhases
<1>4. ASSUME NEW f \in Flows, ReadCallback(f) PROVE PkceTyped'
  <2>1. granted' \in [Flows -> Flows \cup {NoFlow}]
    BY <1>4, <1>a DEF ReadCallback, IsCallback
  <2> QED  BY <1>4, <1>a, <1>c, <2>1 DEF ReadCallback, FlowPhases
<1>5. ASSUME NEW f \in Flows, AnswerCallback(f) PROVE PkceTyped'
  BY <1>5, <1>a, <1>c, <1>e DEF AnswerCallback, FlowPhases
<1>6. ASSUME NEW f \in Flows, ExchangeCode(f) \/ TimeOutFlow(f) \/ DropFlow(f)
      PROVE  PkceTyped'
  BY <1>6, <1>e DEF ExchangeCode, TimeOutFlow, DropFlow
<1>7. CASE UNCHANGED pkceVars
  BY <1>7, <1>a DEF pkceVars
<1> QED  BY <1>1, <1>2, <1>3, <1>4, <1>5, <1>6, <1>7 DEF PkceBrowserNext

LEMMA StepFlow ==
  ASSUME PkceInv, [PkceBrowserNext]_pkceVars, NEW g \in Flows
  PROVE  FlowInv(g)'
<1>a. PkceTyped /\ FlowInv(g) /\ NoFlow \notin Flows
  BY PkceBrowserAssumption DEF PkceInv
<1>b. ASSUME NEW f \in Flows, NEW phase, EnterFlowPhase(f, phase)
      PROVE  flow_phase'[g] = IF g = f THEN phase ELSE flow_phase[g]
  BY <1>a, <1>b DEF EnterFlowPhase, PkceTyped
<1> USE DEF FlowInv, At
<1>c. ASSUME NEW f \in Flows,
             At(f, {"opening", "waiting", "reading", "answering", "exchanging"}),
             \/ EndFlow(f, "failed")
             \/ EndFlow(f, "done") /\ At(f, {"exchanging"}),
             UNCHANGED <<opened_flows, granted>>
      PROVE  FlowInv(g)'
  <2>1. FlowInv(f)
    BY DEF PkceInv
  <2> QED  BY <1>a, <1>b, <1>c, <2>1 DEF EndFlow
<1>1. CASE BrowserConnects \/ UNCHANGED pkceVars
  BY <1>1, <1>a DEF BrowserConnects, pkceVars
<1>2. ASSUME NEW f \in Flows, StartFlow(f) PROVE FlowInv(g)'
  BY <1>2, <1>a, <1>b DEF StartFlow
<1>3. ASSUME NEW f \in Flows, OpenAuthorization(f) \/ AcceptConnection(f) PROVE FlowInv(g)'
  BY <1>3, <1>a, <1>b DEF OpenAuthorization, AcceptConnection
<1>4. ASSUME NEW f \in Flows, ReadCallback(f) PROVE FlowInv(g)'
  <2>1. granted'[g] = IF g = f THEN IF IsCallback(f, accepted[f]) THEN f ELSE NoFlow
                      ELSE granted[g]
    BY <1>4, <1>a DEF ReadCallback, IsCallback, PkceTyped
  <2> QED  BY <1>4, <1>a, <1>b, <2>1 DEF ReadCallback
<1>5. ASSUME NEW f \in Flows, AnswerCallback(f) PROVE FlowInv(g)'
  <2>1. CASE granted[f] # NoFlow /\ EnterFlowPhase(f, "exchanging") /\ UNCHANGED port_owner
    BY <1>5, <1>a, <1>b, <2>1 DEF AnswerCallback
  <2>2. CASE EndFlow(f, "failed")
    BY <1>5, <1>c, <2>2 DEF AnswerCallback
  <2> QED  BY <1>5, <2>1, <2>2 DEF AnswerCallback
<1>6. ASSUME NEW f \in Flows, ExchangeCode(f) \/ TimeOutFlow(f) \/ DropFlow(f)
      PROVE  FlowInv(g)'
  BY <1>6, <1>c DEF ExchangeCode, TimeOutFlow, DropFlow
<1> QED  BY <1>1, <1>2, <1>3, <1>4, <1>5, <1>6 DEF PkceBrowserNext

LEMMA PkceInvariant == PkceBrowserSpec => []PkceInv
<1>1. PkceBrowserInit => PkceInv
  BY PkceBrowserAssumption
     DEF PkceBrowserInit, PkceInv, PkceTyped, FlowInv, FlowPhases, At
<1>2. PkceInv /\ [PkceBrowserNext]_pkceVars => PkceInv'
  BY StepPkceTyped, StepFlow DEF PkceInv
<1> QED  BY <1>1, <1>2, PTL DEF PkceBrowserSpec

(* The PKCE flows have their types: no more connections wait than the bound.      *)
THEOREM PkceTypeCorrect == PkceBrowserSpec => []PkceBrowserTypeOK
<1>1. PkceInv => PkceBrowserTypeOK
  BY DEF PkceInv, PkceTyped, PkceBrowserTypeOK, At, FlowPhases
<1> QED  BY <1>1, PkceInvariant, PTL

(* Whatever reaches the port, a flow exchanges the code that its own              *)
(* authorization was given, while it listens.                                  *)
THEOREM PkceUsesOwnCode == PkceBrowserSpec => []FlowUsesOwnCode
<1>1. PkceInv => FlowUsesOwnCode
  BY DEF PkceInv, FlowInv, FlowUsesOwnCode, At
<1> QED  BY <1>1, PkceInvariant, PTL

(***************************************************************************)
(* The script's process                                                    *)
(***************************************************************************)
ScriptTyped ==
  /\ waiter_phase \in {"idle", "writing", "polling", "join stdout", "join stderr", "returned"}
  /\ script_outcome \in {"none", "refused", "cancelled", "timeout", "failed", "too large", "ok"}
  /\ child \in {"none", "running", "succeeded", "failed", "reaped"}
  /\ child_failed \in BOOLEAN /\ script_cancelled \in BOOLEAN /\ script_deadline \in BOOLEAN
  /\ input_left \in Nat /\ stdin_pipe \in 0 .. PipeCapacity
  /\ output_pipe \in [Pipes -> 0 .. PipeCapacity]
  /\ produced \in [Pipes -> 0 .. MaxProduced] /\ collected \in [Pipes -> 0 .. MaxOutput]
  /\ reader \in [Pipes -> {"none", "reading", "done", "over"}]

(* What the child wrote is collected or in the pipe until a reader has given up;  *)
(* a reader that is done has all, and the child writes no more.               *)
PipeInv(p) ==
  /\ reader[p] # "over" => produced[p] = collected[p] + output_pipe[p]
  /\ reader[p] = "done" => output_pipe[p] = 0 /\ Gone

(* Where the thread is says what is known of the child.                        *)
WaiterInv ==
  /\ waiter_phase = "idle" => child = "none" /\ script_outcome = "none"
  /\ waiter_phase \in {"idle", "writing"} => \A p \in Pipes : reader[p] = "none"
  /\ waiter_phase \in {"writing", "polling"} =>
       child \in {"running", "succeeded", "failed"} /\ script_outcome = "none"
  /\ waiter_phase \in {"join stdout", "join stderr"} =>
       child = "reaped" /\ script_outcome \in {"none", "cancelled", "timeout"}
  /\ waiter_phase = "join stderr" =>
       Joined("stdout") /\ (script_outcome = "none" => reader["stdout"] = "done")
  /\ waiter_phase = "returned" =>
       /\ child \in {"none", "reaped"} \/ (script_outcome = "failed" /\ input_left > 0)
       /\ script_outcome = "ok" =>
            ~child_failed /\ \A p \in Pipes : reader[p] = "done"
ScriptInv == ScriptTyped /\ WaiterInv /\ \A p \in Pipes : PipeInv(p)

LEMMA StepScriptTyped ==
  ASSUME ScriptInv, [ScriptProcessNext]_scriptVars
  PROVE  ScriptTyped'
<1>a. ScriptTyped /\ PipeCapacity \in Nat \ {0} /\ MaxOutput \in Nat /\ MaxProduced \in Nat
      /\ InputSizes \subseteq Nat \ {0}
  BY ScriptProcessAssumption DEF ScriptInv
<1>n. /\ PipeCapacity \in Nat \ {0} /\ MaxOutput \in Nat /\ MaxProduced \in Nat
      /\ input_left \in Nat /\ stdin_pipe \in 0 .. PipeCapacity
      /\ output_pipe \in [Pipes -> 0 .. PipeCapacity]
      /\ produced \in [Pipes -> 0 .. MaxProduced] /\ collected \in [Pipes -> 0 .. MaxOutput]
  BY <1>a, Zenon DEF ScriptTyped
<1> USE DEF ScriptTyped
<1>1. CASE StartScriptProcess
  BY <1>1, <1>a DEF StartScriptProcess, ReturnOutcome, pipeVars
<1>2. CASE WriteInput
  <2>1. input_left' \in Nat /\ stdin_pipe' \in 0 .. PipeCapacity
    BY <1>2, <1>n DEF WriteInput
  <2>2. /\ waiter_phase' \in {waiter_phase, "returned"}
        /\ script_outcome' \in {script_outcome, "failed"}
        /\ UNCHANGED <<child, child_failed, output_pipe, produced, collected, reader,
                       script_cancelled, script_deadline>>
    BY <1>2 DEF WriteInput, ReturnOutcome, childVars, pipeVars
  <2> QED  BY <1>a, <2>1, <2>2, Zenon, SMTT(60)
<1>3. CASE SpawnReaders
  BY <1>3, <1>a DEF SpawnReaders, childVars
<1>4. CASE PollChild
  BY <1>4, <1>a DEF PollChild, KillChild, pipeVars
<1>5. CASE JoinStdout
  BY <1>5, <1>a DEF JoinStdout, ReturnOutcome, childVars, pipeVars
<1>6. CASE JoinStderr
  BY <1>6, <1>a DEF JoinStderr, ReturnOutcome, ScriptResult, childVars, pipeVars
<1>7. ASSUME NEW p \in Pipes, ReadPipe(p) PROVE ScriptTyped'
  <2>1. /\ output_pipe' \in [Pipes -> 0 .. PipeCapacity]
        /\ collected' \in [Pipes -> 0 .. MaxOutput]
        /\ reader' \in [Pipes -> {"none", "reading", "done", "over"}]
    <3>1. CASE AtEnd(p) /\ reader' = [reader EXCEPT ![p] = "done"]
                /\ UNCHANGED <<output_pipe, collected>>
      BY <1>a, <3>1
    <3>2. CASE /\ output_pipe[p] > 0
               /\ output_pipe' = [output_pipe EXCEPT ![p] = @ - 1]
               /\ \/ reader' = [reader EXCEPT ![p] = "over"] /\ UNCHANGED collected
                  \/ /\ collected[p] + 1 <= MaxOutput
                     /\ collected' = [collected EXCEPT ![p] = @ + 1] /\ UNCHANGED reader
      <4>1. output_pipe[p] \in 0 .. PipeCapacity /\ collected[p] \in 0 .. MaxOutput
        BY <1>a
      <4>2. output_pipe[p] - 1 \in 0 .. PipeCapacity
        BY <1>n, <3>2, <4>1
      <4>3. output_pipe' \in [Pipes -> 0 .. PipeCapacity]
        BY <1>a, <3>2, <4>2
      <4>4. collected[p] + 1 <= MaxOutput => collected[p] + 1 \in 0 .. MaxOutput
        BY <1>n, <4>1
      <4>5. collected' \in [Pipes -> 0 .. MaxOutput]
        BY <1>a, <3>2, <4>4
      <4>6. reader' \in [Pipes -> {"none", "reading", "done", "over"}]
        BY <1>a, <3>2
      <4> QED  BY <4>3, <4>5, <4>6
    <3>3. collected[p] + 1 > MaxOutput \/ collected[p] + 1 <= MaxOutput
      BY <1>n
    <3> QED  BY <1>7, <3>1, <3>2, <3>3 DEF ReadPipe
  <2> QED  BY <1>7, <1>a, <2>1, ZenonT(30) DEF ReadPipe, childVars
<1>8. ASSUME NEW p \in Pipes, ChildWrites(p) PROVE ScriptTyped'
  <2>1. /\ output_pipe' \in [Pipes -> 0 .. PipeCapacity]
        /\ produced' \in [Pipes -> 0 .. MaxProduced]
    <3>1. /\ output_pipe[p] \in 0 .. PipeCapacity /\ output_pipe[p] < PipeCapacity
          /\ produced[p] \in 0 .. MaxProduced /\ produced[p] < MaxProduced
      BY <1>8, <1>n DEF ChildWrites
    <3>2. output_pipe[p] + 1 \in 0 .. PipeCapacity /\ produced[p] + 1 \in 0 .. MaxProduced
      BY <1>n, <3>1
    <3>3. /\ output_pipe' = [output_pipe EXCEPT ![p] = @ + 1]
          /\ produced' = [produced EXCEPT ![p] = @ + 1]
      BY <1>8 DEF ChildWrites
    <3> QED  BY <1>n, <3>2, <3>3
  <2> QED  BY <1>8, <1>a, <2>1 DEF ChildWrites, childVars
<1>9. CASE ChildReads
  <2>1. stdin_pipe' \in 0 .. PipeCapacity
    BY <1>9, <1>n DEF ChildReads
  <2> QED  BY <1>9, <1>a, <2>1, Zenon DEF ChildReads, childVars, pipeVars
<1>10. CASE ChildExits
  BY <1>10, <1>a DEF ChildExits, pipeVars
<1>11. CASE CancelScriptProcess \/ DeadlinePasses
  BY <1>11, <1>a, ZenonT(30) DEF CancelScriptProcess, DeadlinePasses, childVars, pipeVars
<1>12. CASE UNCHANGED scriptVars
  BY <1>12, <1>a, ZenonT(30) DEF scriptVars, childVars, pipeVars
<1> QED
  BY <1>1, <1>2, <1>3, <1>4, <1>5, <1>6, <1>7, <1>8, <1>9, <1>10, <1>11, <1>12
     DEF ScriptProcessNext, ScriptThread

LEMMA StepPipe ==
  ASSUME ScriptInv, [ScriptProcessNext]_scriptVars, NEW p \in Pipes
  PROVE  PipeInv(p)'
<1>a. /\ ScriptTyped /\ WaiterInv /\ PipeInv(p)
      /\ output_pipe[p] \in Nat /\ produced[p] \in Nat /\ collected[p] \in Nat
  <2>1. ScriptTyped /\ WaiterInv /\ PipeInv(p)
    BY DEF ScriptInv
  <2>2. /\ output_pipe \in [Pipes -> 0 .. PipeCapacity]
        /\ produced \in [Pipes -> 0 .. MaxProduced] /\ collected \in [Pipes -> 0 .. MaxOutput]
    BY <2>1, Zenon DEF ScriptTyped
  <2> QED  BY <2>1, <2>2
<1>b. ASSUME UNCHANGED <<output_pipe, produced, collected, reader>>, Gone => Gone'
      PROVE  PipeInv(p)'
  BY <1>a, <1>b DEF PipeInv
<1>1. CASE StartScriptProcess
  <2>1. ~Gone
    BY <1>1, <1>a DEF StartScriptProcess, WaiterInv, Gone, Exited
  <2> QED  BY <1>1, <1>b, <2>1 DEF StartScriptProcess, pipeVars
<1>2. CASE WriteInput \/ JoinStdout \/ JoinStderr
  BY <1>2, <1>b DEF WriteInput, JoinStdout, JoinStderr, childVars, pipeVars, Gone, Exited
<1>3. CASE SpawnReaders
  <2>1. reader'[p] = "reading" /\ reader[p] = "none"
        /\ UNCHANGED <<output_pipe, produced, collected>>
    BY <1>3, <1>a DEF SpawnReaders, WaiterInv
  <2> QED  BY <1>a, <2>1 DEF PipeInv
<1>4. CASE PollChild
  BY <1>4, <1>b DEF PollChild, KillChild, pipeVars, Gone, Exited
<1>5. ASSUME NEW q \in Pipes, ReadPipe(q) PROVE PipeInv(p)'
  <2>1. Gone' = Gone
    BY <1>5 DEF ReadPipe, childVars, Gone, Exited
  <2>2. CASE q # p
    <3>1. /\ output_pipe'[p] = output_pipe[p] /\ produced'[p] = produced[p]
          /\ collected'[p] = collected[p] /\ reader'[p] = reader[p]
      BY <1>5, <1>a, <2>2 DEF ReadPipe, ScriptTyped
    <3> QED  BY <1>a, <2>1, <3>1 DEF PipeInv
  <2>3. CASE q = p
    <3>1. /\ reader[p] = "reading" /\ produced' = produced
          /\ \/ /\ AtEnd(p) /\ reader'[p] = "done"
                /\ output_pipe'[p] = output_pipe[p] /\ collected'[p] = collected[p]
             \/ /\ output_pipe[p] > 0 /\ output_pipe'[p] = output_pipe[p] - 1
                /\ \/ reader'[p] = "over"
                   \/ collected'[p] = collected[p] + 1 /\ reader'[p] = reader[p]
      BY <1>5, <1>a, <2>3 DEF ReadPipe, ScriptTyped
    <3> QED  BY <1>a, <2>1, <3>1 DEF PipeInv, AtEnd
  <2> QED  BY <2>2, <2>3
<1>6. ASSUME NEW q \in Pipes, ChildWrites(q) PROVE PipeInv(p)'
  <2>1. ~Gone /\ UNCHANGED <<collected, reader>>
    BY <1>6 DEF ChildWrites, Gone, Exited
  <2>2. \/ output_pipe'[p] = output_pipe[p] /\ produced'[p] = produced[p]
        \/ output_pipe'[p] = output_pipe[p] + 1 /\ produced'[p] = produced[p] + 1
    BY <1>6, <1>a DEF ChildWrites, ScriptTyped
  <2> QED  BY <1>a, <2>1, <2>2 DEF PipeInv
<1>7. CASE ChildReads \/ CancelScriptProcess \/ DeadlinePasses \/ UNCHANGED scriptVars
  BY <1>7, <1>b
     DEF ChildReads, CancelScriptProcess, DeadlinePasses, scriptVars, childVars, pipeVars,
         Gone, Exited
<1>8. CASE ChildExits
  BY <1>8, <1>b DEF ChildExits, pipeVars, Gone, Exited
<1> QED
  BY <1>1, <1>2, <1>3, <1>4, <1>5, <1>6, <1>7, <1>8 DEF ScriptProcessNext, ScriptThread

LEMMA StepWaiter ==
  ASSUME ScriptInv, [ScriptProcessNext]_scriptVars
  PROVE  WaiterInv'
<1>a. ScriptTyped /\ WaiterInv
  BY DEF ScriptInv
<1> USE DEF WaiterInv, Joined
<1>1. CASE StartScriptProcess
  BY <1>1, <1>a DEF StartScriptProcess, ReturnOutcome, pipeVars
<1>2. CASE WriteInput
  BY <1>2, <1>a DEF WriteInput, ReturnOutcome, childVars, pipeVars
<1>3. CASE SpawnReaders
  BY <1>3, <1>a DEF SpawnReaders, childVars
<1>4. CASE PollChild
  BY <1>4, <1>a DEF PollChild, KillChild, Exited
<1>5. CASE JoinStdout
  BY <1>5, <1>a DEF JoinStdout, ReturnOutcome, childVars, pipeVars
<1>6. CASE JoinStderr
  <2>1. waiter_phase = "join stderr" /\ waiter_phase' = "returned"
        /\ script_outcome' = ScriptResult /\ UNCHANGED <<child, child_failed, reader>>
        /\ Joined("stderr")
    BY <1>6 DEF JoinStderr, ReturnOutcome, childVars, pipeVars
  <2>2. child' = "reaped"
    BY <1>a, <2>1
  <2>3. ASSUME script_outcome' = "ok"
        PROVE  ~child_failed' /\ \A p \in Pipes : reader'[p] = "done"
    <3>1. script_outcome = "none" /\ reader["stderr"] # "over" /\ ~child_failed
      BY <1>a, <2>1, <2>3 DEF ScriptResult
    <3>2. reader["stdout"] = "done" /\ reader["stderr"] = "done"
      BY <1>a, <2>1, <3>1
    <3> QED  BY <2>1, <3>1, <3>2 DEF Pipes
  <2> QED  BY <2>1, <2>2, <2>3
<1>7. ASSUME NEW p \in Pipes, ReadPipe(p) PROVE WaiterInv'
  <2>1. /\ UNCHANGED <<waiter_phase, script_outcome, child, child_failed, input_left>>
        /\ reader[p] = "reading"
        /\ \A q \in Pipes : q # p => reader'[q] = reader[q]
    BY <1>7, <1>a DEF ReadPipe, childVars, ScriptTyped
  <2>2. "stdout" \in Pipes
    BY DEF Pipes
  <2> QED  BY <1>a, <2>1, <2>2
<1>8. ASSUME NEW p \in Pipes, ChildWrites(p) PROVE WaiterInv'
  BY <1>8, <1>a DEF ChildWrites, childVars
<1>9. CASE ChildReads \/ CancelScriptProcess \/ DeadlinePasses \/ UNCHANGED scriptVars
  <2>1. UNCHANGED <<waiter_phase, script_outcome, child, child_failed, input_left, reader>>
    BY <1>9
       DEF ChildReads, CancelScriptProcess, DeadlinePasses, scriptVars, childVars, pipeVars
  <2> QED  BY <1>a, <2>1
<1>10. CASE ChildExits
  BY <1>10, <1>a DEF ChildExits, pipeVars
<1> QED
  BY <1>1, <1>2, <1>3, <1>4, <1>5, <1>6, <1>7, <1>8, <1>9, <1>10
     DEF ScriptProcessNext, ScriptThread

LEMMA ScriptInvariant == ScriptProcessSpec => []ScriptInv
<1>1. ScriptProcessInit => ScriptInv
  <2> SUFFICES ASSUME ScriptProcessInit PROVE ScriptInv
    OBVIOUS
  <2>1. /\ output_pipe \in [Pipes -> 0 .. PipeCapacity]
        /\ produced \in [Pipes -> 0 .. MaxProduced] /\ collected \in [Pipes -> 0 .. MaxOutput]
        /\ input_left \in Nat /\ stdin_pipe \in 0 .. PipeCapacity
    BY ScriptProcessAssumption DEF ScriptProcessInit
  <2>2. reader \in [Pipes -> {"none", "reading", "done", "over"}]
    BY DEF ScriptProcessInit
  <2>3. child_failed \in BOOLEAN /\ script_cancelled \in BOOLEAN /\ script_deadline \in BOOLEAN
    BY Zenon DEF ScriptProcessInit
  <2>4. ScriptTyped
    BY <2>1, <2>2, <2>3, Zenon DEF ScriptProcessInit, ScriptTyped
  <2>5. WaiterInv
    BY DEF ScriptProcessInit, WaiterInv
  <2>6. \A p \in Pipes : PipeInv(p)
    BY DEF ScriptProcessInit, PipeInv
  <2> QED  BY <2>4, <2>5, <2>6 DEF ScriptInv
<1>2. ScriptInv /\ [ScriptProcessNext]_scriptVars => ScriptInv'
  BY StepScriptTyped, StepPipe, StepWaiter DEF ScriptInv
<1> QED  BY <1>1, <1>2, PTL DEF ScriptProcessSpec

(* A script that returned left no process behind, and a successful one all that    *)
(* its child wrote, in whatever order exit, deadline, cancellation and readers     *)
(* come (part of WorkersAreAccountedFor).                                    *)
THEOREM ScriptIsReaped == ScriptProcessSpec => []ReturnedScriptIsReaped
<1>1. ASSUME ScriptInv PROVE ReturnedScriptIsReaped
  <2>1. ASSUME \A p \in Pipes : reader[p] = "done" PROVE collected = produced
    <3>1. /\ produced \in [Pipes -> Nat] /\ collected \in [Pipes -> Nat]
          /\ output_pipe \in [Pipes -> Nat]
      <4>1. /\ produced \in [Pipes -> 0 .. MaxProduced]
            /\ collected \in [Pipes -> 0 .. MaxOutput]
            /\ output_pipe \in [Pipes -> 0 .. PipeCapacity]
        BY <1>1, Zenon DEF ScriptInv, ScriptTyped
      <4> QED  BY <4>1
    <3>2. \A p \in Pipes : produced[p] = collected[p]
      BY <1>1, <2>1, <3>1 DEF ScriptInv, PipeInv
    <3> QED  BY <3>1, <3>2
  <2> QED  BY <1>1, <2>1 DEF ScriptInv, WaiterInv, ReturnedScriptIsReaped
<1> QED  BY <1>1, ScriptInvariant, PTL

(* The state of a script's process has its type: no pipe holds more than it can    *)
(* and the readers keep no more than the limit.                              *)
THEOREM ScriptTypeCorrect == ScriptProcessSpec => []ScriptProcessTypeOK
<1>1. ScriptInv => ScriptProcessTypeOK
  BY Zenon DEF ScriptInv, ScriptTyped, ScriptProcessTypeOK
<1> QED  BY <1>1, ScriptInvariant, PTL

(***************************************************************************)
(* The script harness                                                      *)
(***************************************************************************)
PmTable == [PmScopes -> [PmKeys -> PmValues \cup {0}]]
HarnessPhase ==
  {"idle", "script", "callback", "continuation", "waiting", "written", "failed",
   "applied", "invalid request"}
InTurn == {"script", "callback", "continuation"}
HarnessTyped ==
  /\ harness \in HarnessPhase
  /\ pm_given \in PmTable /\ pm_values \in PmTable /\ pm_changes \in PmTable
  /\ pm_removals \in [PmScopes -> SUBSET PmKeys]
  /\ sub_requests \in [1 .. MaxSends -> {"none", "first", "second", "ok", "error"}]
  /\ awaited \subseteq Sent
  /\ script_error \in {"none", "script", "callback"}

(* Until they are applied, what the script sees is what it was given with its     *)
(* changes; nothing has changed before it starts.                               *)
Overlay(table, changes, removals) ==
  [s \in PmScopes |-> [k \in PmKeys |->
     IF changes[s][k] # 0 THEN changes[s][k]
     ELSE IF k \in removals[s] THEN 0 ELSE table[s][k]]]
ChangesInv ==
  /\ harness = "idle" => pm_changes = Nothing /\ pm_removals = [s \in PmScopes |-> {}]
  /\ harness \notin {"applied", "invalid request"} =>
       \A s \in PmScopes, k \in PmKeys :
         pm_values[s][k] = Overlay(pm_given, pm_changes, pm_removals)[s][k]
  /\ harness \in {"applied", "invalid request"} => pm_given = pm_values

(* The entries of the tests: there is one for each test, until the last one says   *)
(* that there are too many.                                                     *)
TestsInv ==
  /\ pm_tests \in [asked : Nat, recorded : 0 .. MaxTestEntries, failed : BOOLEAN,
                   failures : BOOLEAN]
  /\ pm_tests.failed => pm_tests.failures
  /\ pm_tests.recorded = MaxTestEntries => pm_tests.failures
  /\ pm_tests.recorded # MaxTestEntries => pm_tests.asked = pm_tests.recorded

(* An output is what there was when it was written, and nothing changes after it.  *)
OutputInv ==
  /\ harness \in {"written", "applied", "invalid request"} => script_output.written
  /\ script_output.written =>
       /\ harness \in {"written", "failed", "applied", "invalid request"}
       /\ script_error = "none" /\ Pending = {}
       /\ script_output.changes = pm_changes /\ script_output.removals = pm_removals
       /\ script_output.tests = pm_tests.recorded
       /\ script_output.failures = pm_tests.failures
HarnessInv == HarnessTyped /\ ChangesInv /\ TestsInv /\ OutputInv

LEMMA HarnessCases ==
  ASSUME HarnessNext
  PROVE  \/ \E table \in PmTable : StartHarness(table)
         \/ \E s \in PmScopes, keys \in SUBSET PmKeys : UnsetVariables(s, keys)
         \/ \E s \in PmScopes, k \in PmKeys, v \in PmValues : SetVariable(s, k, v)
         \/ \E b \in BOOLEAN : RecordTest(b) \/ SendRequest(b) \/ EndTurn(b)
         \/ \E r \in 1 .. MaxSends, o \in {"ok", "error"} : RetryDigest(r) \/ Settle(r, o)
         \/ Continue \/ WriteOutput \/ ContinueLate \/ ApplyResult
<1>1. \A s \in PmScopes :
        UnsetVariable(s) => \E keys \in SUBSET PmKeys : UnsetVariables(s, keys)
  BY DEF UnsetVariable
<1> QED  BY <1>1 DEF HarnessNext, PmTable

(* What the parent applies is what the script has seen.                          *)
LEMMA ApplyGivesValues ==
  ASSUME HarnessTyped, ChangesInv, OutputInv, ApplyResult
  PROVE  pm_given' = pm_values
<1>1. pm_given' = ApplyChanges(pm_given, script_output) /\ harness = "written"
  BY DEF ApplyResult
<1>2. script_output.changes = pm_changes /\ script_output.removals = pm_removals
  BY <1>1 DEF OutputInv
<1>3. pm_given' = Overlay(pm_given, pm_changes, pm_removals)
  BY <1>1, <1>2 DEF ApplyChanges, Overlay
<1>4. \A s \in PmScopes, k \in PmKeys :
        pm_values[s][k] = Overlay(pm_given, pm_changes, pm_removals)[s][k]
  BY <1>1 DEF ChangesInv
<1>5. pm_values \in [PmScopes -> [PmKeys -> PmValues \cup {0}]]
  BY DEF HarnessTyped, PmTable
<1>6. \A s \in PmScopes : pm_values[s] = Overlay(pm_given, pm_changes, pm_removals)[s]
  <2>1. TAKE s \in PmScopes
  <2>2. pm_values[s] \in [PmKeys -> PmValues \cup {0}]
    BY <1>5
  <2>3. pm_values[s] = [k \in PmKeys |-> pm_values[s][k]]
    BY <2>2
  <2>4. Overlay(pm_given, pm_changes, pm_removals)[s] =
          [k \in PmKeys |-> Overlay(pm_given, pm_changes, pm_removals)[s][k]]
    BY DEF Overlay
  <2> QED  BY <1>4, <2>3, <2>4
<1>7. pm_values = [s \in PmScopes |-> pm_values[s]]
  BY <1>5
<1> QED  BY <1>3, <1>6, <1>7 DEF Overlay

LEMMA StepHarnessTyped ==
  ASSUME HarnessTyped, ChangesInv, OutputInv, [HarnessNext]_harnessVars
  PROVE  HarnessTyped'
<1>1. CASE UNCHANGED harnessVars
  BY <1>1 DEF HarnessTyped, harnessVars, Sent
<1>2. CASE HarnessNext
  <2>0. /\ harness \in HarnessPhase
        /\ pm_given \in PmTable /\ pm_values \in PmTable /\ pm_changes \in PmTable
        /\ pm_removals \in [PmScopes -> SUBSET PmKeys]
        /\ sub_requests \in [1 .. MaxSends -> {"none", "first", "second", "ok", "error"}]
        /\ awaited \subseteq Sent /\ script_error \in {"none", "script", "callback"}
    BY DEF HarnessTyped
  <2>1. ASSUME NEW table \in PmTable, StartHarness(table)
        PROVE  HarnessTyped'
    BY <2>0, <2>1 DEF StartHarness, HarnessTyped, HarnessPhase, Sent
  <2>2. ASSUME NEW s \in PmScopes, NEW keys \in SUBSET PmKeys, UnsetVariables(s, keys)
        PROVE  HarnessTyped'
    <3>1. pm_values' \in PmTable
      BY <2>0, <2>2 DEF UnsetVariables, PmTable
    <3>2. pm_changes' \in PmTable
      BY <2>0, <2>2 DEF UnsetVariables, DropChanges, PmTable
    <3>3. pm_removals' \in [PmScopes -> SUBSET PmKeys]
      BY <2>0, <2>2 DEF UnsetVariables
    <3> QED  BY <2>0, <2>2, <3>1, <3>2, <3>3 DEF UnsetVariables, HarnessTyped, Sent
  <2>3. ASSUME NEW s \in PmScopes, NEW k \in PmKeys, NEW v \in PmValues, SetVariable(s, k, v)
        PROVE  HarnessTyped'
    <3>1. pm_values' \in PmTable /\ pm_changes' \in PmTable
      BY <2>0, <2>3 DEF SetVariable, PmTable
    <3>3. pm_removals' \in [PmScopes -> SUBSET PmKeys]
      BY <2>0, <2>3 DEF SetVariable
    <3> QED  BY <2>0, <2>3, <3>1, <3>3 DEF SetVariable, HarnessTyped, Sent
  <2>4. ASSUME NEW b \in BOOLEAN, RecordTest(b)
        PROVE  HarnessTyped'
    BY <2>0, <2>4 DEF RecordTest, HarnessTyped, Sent, pmVars
  <2>5. ASSUME NEW b \in BOOLEAN, SendRequest(b)
        PROVE  HarnessTyped'
    <3>1. CASE UNCHANGED <<sub_requests, awaited>>
      BY <2>0, <2>5, <3>1 DEF SendRequest, HarnessTyped, Sent, pmVars
    <3>2. ASSUME NEW r \in 1 .. MaxSends, sub_requests[r] = "none",
                 sub_requests' = [sub_requests EXCEPT ![r] = "first"],
                 awaited' = IF b THEN awaited \cup {r} ELSE awaited,
                 UNCHANGED script_error
          PROVE  HarnessTyped'
      <4>1. sub_requests' \in [1 .. MaxSends -> {"none", "first", "second", "ok", "error"}]
        BY <2>0, <3>2
      <4>2. \A q \in 1 .. MaxSends : sub_requests[q] # "none" => sub_requests'[q] # "none"
        BY <2>0, <3>2
      <4>3. sub_requests'[r] # "none"
        BY <2>0, <3>2
      <4>4. awaited' \subseteq Sent'
        BY <2>0, <3>2, <4>2, <4>3 DEF Sent
      <4> QED  BY <2>0, <2>5, <3>2, <4>1, <4>4 DEF SendRequest, HarnessTyped, pmVars
    <3> QED  BY <2>5, <3>1, <3>2 DEF SendRequest
  <2>6. ASSUME NEW b \in BOOLEAN, EndTurn(b)
        PROVE  HarnessTyped'
    BY <2>0, <2>6 DEF EndTurn, HarnessTyped, HarnessPhase, Sent, pmVars
  <2>7. ASSUME NEW r \in 1 .. MaxSends, NEW o \in {"ok", "error"},
               RetryDigest(r) \/ Settle(r, o)
        PROVE  HarnessTyped'
    <3>1. PICK x \in {"second", "ok", "error"} :
            sub_requests' = [sub_requests EXCEPT ![r] = x]
      BY <2>7 DEF RetryDigest, Settle
    <3>2. sub_requests' \in [1 .. MaxSends -> {"none", "first", "second", "ok", "error"}]
      BY <2>0, <3>1
    <3>3. \A q \in 1 .. MaxSends : sub_requests[q] # "none" => sub_requests'[q] # "none"
      BY <2>0, <3>1
    <3>4. awaited' \subseteq Sent'
      BY <2>0, <2>7, <3>3 DEF Sent, RetryDigest, Settle
    <3> QED  BY <2>0, <2>7, <3>2, <3>4 DEF RetryDigest, Settle, HarnessTyped, HarnessPhase, pmVars
  <2>8. ASSUME Continue \/ WriteOutput \/ ContinueLate
        PROVE  HarnessTyped'
    BY <2>0, <2>8
       DEF Continue, WriteOutput, ContinueLate, HarnessTyped, HarnessPhase, Sent, pmVars, Resumable
  <2>9. ASSUME ApplyResult
        PROVE  HarnessTyped'
    <3>1. pm_given' = pm_values
      BY <2>9, ApplyGivesValues
    <3> QED  BY <2>0, <2>9, <3>1 DEF ApplyResult, HarnessTyped, HarnessPhase, Sent, pmVars
  <2> QED  BY <1>2, <2>1, <2>2, <2>3, <2>4, <2>5, <2>6, <2>7, <2>8, <2>9, HarnessCases
<1> QED  BY <1>1, <1>2

LEMMA StepChanges ==
  ASSUME HarnessTyped, ChangesInv, OutputInv, [HarnessNext]_harnessVars
  PROVE  ChangesInv'
<1>1. CASE UNCHANGED harnessVars
  BY <1>1 DEF ChangesInv, harnessVars
<1>2. CASE HarnessNext
  <2>0. /\ pm_given \in PmTable /\ pm_values \in PmTable /\ pm_changes \in PmTable
        /\ pm_removals \in [PmScopes -> SUBSET PmKeys]
    BY DEF HarnessTyped
  <2>a. harness \in InTurn =>
          \A s \in PmScopes, k \in PmKeys :
            pm_values[s][k] = IF pm_changes[s][k] # 0 THEN pm_changes[s][k]
                              ELSE IF k \in pm_removals[s] THEN 0 ELSE pm_given[s][k]
    BY DEF ChangesInv, InTurn, Overlay
  <2>b. ASSUME \A s \in PmScopes, k \in PmKeys :
                 pm_values'[s][k] = IF pm_changes'[s][k] # 0 THEN pm_changes'[s][k]
                                    ELSE IF k \in pm_removals'[s] THEN 0 ELSE pm_given'[s][k],
               harness' \notin {"idle", "applied", "invalid request"}
        PROVE  ChangesInv'
    <3>1. \A s \in PmScopes, k \in PmKeys :
            pm_values'[s][k] = Overlay(pm_given', pm_changes', pm_removals')[s][k]
      BY <2>b DEF Overlay
    <3> QED  BY <2>b, <3>1 DEF ChangesInv
  <2>1. ASSUME NEW table \in PmTable, StartHarness(table)
        PROVE  ChangesInv'
    <3>1. /\ harness = "idle" /\ harness' = "script" /\ pm_given' = table /\ pm_values' = table
          /\ pm_changes' = pm_changes /\ pm_removals' = pm_removals
      BY <2>1 DEF StartHarness
    <3>2. pm_changes = Nothing /\ pm_removals = [s \in PmScopes |-> {}]
      BY <3>1 DEF ChangesInv
    <3>3. \A s \in PmScopes, k \in PmKeys :
            pm_changes'[s][k] = 0 /\ k \notin pm_removals'[s]
      BY <3>1, <3>2 DEF Nothing
    <3> QED  BY <2>b, <3>1, <3>3
  <2>2. ASSUME NEW s \in PmScopes, NEW keys \in SUBSET PmKeys, UnsetVariables(s, keys)
        PROVE  ChangesInv'
    <3>1. harness \in InTurn /\ harness' = harness /\ pm_given' = pm_given
      BY <2>2 DEF UnsetVariables, Step, InTurn
    <3>2. ASSUME NEW t \in PmScopes, NEW k \in PmKeys
          PROVE  /\ pm_values'[t][k] = IF t = s /\ k \in keys THEN 0 ELSE pm_values[t][k]
                 /\ pm_changes'[t][k] = IF t = s /\ k \in keys THEN 0 ELSE pm_changes[t][k]
                 /\ (k \in pm_removals'[t]) <=> ((t = s /\ k \in keys) \/ k \in pm_removals[t])
      <4>1. pm_values'[t][k] = IF t = s /\ k \in keys THEN 0 ELSE pm_values[t][k]
        BY <2>0, <2>2 DEF UnsetVariables, PmTable
      <4>2. pm_changes'[t][k] = IF t = s /\ k \in keys THEN 0 ELSE pm_changes[t][k]
        BY <2>0, <2>2 DEF UnsetVariables, DropChanges, PmTable
      <4>3. (k \in pm_removals'[t]) <=> ((t = s /\ k \in keys) \/ k \in pm_removals[t])
        BY <2>0, <2>2 DEF UnsetVariables
      <4> QED  BY <4>1, <4>2, <4>3
    <3>3. \A t \in PmScopes, k \in PmKeys :
            pm_values'[t][k] = IF pm_changes'[t][k] # 0 THEN pm_changes'[t][k]
                               ELSE IF k \in pm_removals'[t] THEN 0 ELSE pm_given'[t][k]
      BY <2>a, <3>1, <3>2
    <3> QED  BY <2>b, <3>1, <3>3 DEF InTurn
  <2>3. ASSUME NEW s \in PmScopes, NEW k \in PmKeys, NEW v \in PmValues, SetVariable(s, k, v)
        PROVE  ChangesInv'
    <3>1. harness \in InTurn /\ harness' = harness /\ pm_given' = pm_given /\ v # 0
      BY <2>3, HarnessAssumption DEF SetVariable, Step, InTurn
    <3>2. ASSUME NEW t \in PmScopes, NEW l \in PmKeys
          PROVE  /\ pm_values'[t][l] = IF t = s /\ l = k THEN v ELSE pm_values[t][l]
                 /\ pm_changes'[t][l] = IF t = s /\ l = k THEN v ELSE pm_changes[t][l]
                 /\ (l \in pm_removals'[t]) <=> (l \in pm_removals[t] /\ ~(t = s /\ l = k))
      <4>1. pm_values'[t][l] = IF t = s /\ l = k THEN v ELSE pm_values[t][l]
        BY <2>0, <2>3 DEF SetVariable, PmTable
      <4>2. pm_changes'[t][l] = IF t = s /\ l = k THEN v ELSE pm_changes[t][l]
        BY <2>0, <2>3 DEF SetVariable, PmTable
      <4>3. (l \in pm_removals'[t]) <=> (l \in pm_removals[t] /\ ~(t = s /\ l = k))
        BY <2>0, <2>3 DEF SetVariable
      <4> QED  BY <4>1, <4>2, <4>3
    <3>3. \A t \in PmScopes, l \in PmKeys :
            pm_values'[t][l] = IF pm_changes'[t][l] # 0 THEN pm_changes'[t][l]
                               ELSE IF l \in pm_removals'[t] THEN 0 ELSE pm_given'[t][l]
      BY <2>a, <3>1, <3>2
    <3> QED  BY <2>b, <3>1, <3>3 DEF InTurn
  <2>4. ASSUME UNCHANGED <<pm_given, pmVars>>,
               harness \notin {"idle", "applied", "invalid request"},
               harness' \notin {"idle", "applied", "invalid request"}
        PROVE  ChangesInv'
    BY <2>4 DEF ChangesInv, pmVars
  <2>5. ASSUME NEW b \in BOOLEAN, RecordTest(b) \/ SendRequest(b) \/ EndTurn(b)
        PROVE  ChangesInv'
    BY <2>4, <2>5 DEF RecordTest, SendRequest, EndTurn, Step
  <2>7. ASSUME NEW r \in 1 .. MaxSends, NEW o \in {"ok", "error"},
               RetryDigest(r) \/ Settle(r, o)
        PROVE  ChangesInv'
    BY <2>4, <2>7 DEF RetryDigest, Settle
  <2>8. ASSUME Continue \/ WriteOutput \/ ContinueLate
        PROVE  ChangesInv'
    <3>1. /\ UNCHANGED <<pm_given, pmVars>> /\ harness \in {"waiting", "written"}
          /\ harness' \in {"continuation", "failed", "written"}
      BY <2>8 DEF Continue, WriteOutput, ContinueLate
    <3> QED  BY <2>4, <3>1
  <2>9. ASSUME ApplyResult
        PROVE  ChangesInv'
    <3>1. pm_given' = pm_values' /\ harness' \in {"applied", "invalid request"}
      BY <2>9, ApplyGivesValues DEF ApplyResult, pmVars
    <3> QED  BY <3>1 DEF ChangesInv
  <2> QED  BY <1>2, <2>1, <2>2, <2>3, <2>5, <2>7, <2>8, <2>9, HarnessCases
<1> QED  BY <1>1, <1>2

LEMMA StepTests ==
  ASSUME TestsInv, [HarnessNext]_harnessVars
  PROVE  TestsInv'
<1>1. CASE UNCHANGED pm_tests
  BY <1>1 DEF TestsInv
<1>2. ASSUME NEW passes \in BOOLEAN, RecordTest(passes)
      PROVE  TestsInv'
  <2> DEFINE full == pm_tests.recorded >= MaxTestEntries
             final == pm_tests.recorded = MaxTestEntries - 1
             n == IF full THEN pm_tests.recorded ELSE pm_tests.recorded + 1
             fails == pm_tests.failed \/ ~passes
             bad == pm_tests.failures \/ final \/ (~full /\ ~passes)
  <2>1. pm_tests' = [asked |-> pm_tests.asked + 1, recorded |-> n,
                     failed |-> fails, failures |-> bad]
    BY <1>2 DEF RecordTest
  <2>2. /\ pm_tests.asked \in Nat /\ pm_tests.recorded \in 0 .. MaxTestEntries
        /\ MaxTestEntries \in Nat \ {0}
    BY HarnessAssumption DEF TestsInv
  <2>3. /\ pm_tests.failed \in BOOLEAN /\ pm_tests.failures \in BOOLEAN
        /\ pm_tests.failed => pm_tests.failures
        /\ pm_tests.recorded = MaxTestEntries => pm_tests.failures
        /\ pm_tests.recorded # MaxTestEntries => pm_tests.asked = pm_tests.recorded
    BY DEF TestsInv
  <2>4. /\ pm_tests'.asked = pm_tests.asked + 1 /\ pm_tests'.recorded = n
        /\ pm_tests'.failed = fails /\ pm_tests'.failures = bad
    BY <2>1
  <2>5. /\ n \in 0 .. MaxTestEntries
        /\ full <=> pm_tests.recorded = MaxTestEntries
        /\ n = MaxTestEntries => full \/ final
        /\ n # MaxTestEntries => ~full /\ n = pm_tests.recorded + 1
    BY <2>2
  <2> HIDE DEF full, final, n
  <2>6. pm_tests' \in [asked : Nat, recorded : 0 .. MaxTestEntries, failed : BOOLEAN,
                       failures : BOOLEAN]
    <3>1. pm_tests.asked + 1 \in Nat
      BY <2>2
    <3>2. fails \in BOOLEAN /\ bad \in BOOLEAN
      OBVIOUS
    <3> HIDE DEF bad, fails
    <3> QED  BY <2>1, <2>5, <3>1, <3>2
  <2>7. fails => bad
    BY <2>3, <2>5, Zenon
  <2>8. n = MaxTestEntries => bad
    BY <2>3, <2>5, Zenon
  <2> HIDE DEF bad, fails
  <2>a. /\ pm_tests'.failed => pm_tests'.failures
        /\ pm_tests'.recorded = MaxTestEntries => pm_tests'.failures
    BY <2>4, <2>7, <2>8
  <2>9. pm_tests'.recorded # MaxTestEntries => pm_tests'.asked = pm_tests'.recorded
    <3>1. ~full => pm_tests.asked = pm_tests.recorded
      BY <2>3, <2>5
    <3> QED  BY <2>4, <2>5, <3>1
  <2> QED  BY <2>6, <2>a, <2>9 DEF TestsInv
<1> QED
  BY <1>1, <1>2, HarnessCases
     DEF harnessVars, StartHarness, UnsetVariables, SetVariable, SendRequest, EndTurn,
         RetryDigest, Settle, Continue, WriteOutput, ContinueLate, ApplyResult

LEMMA StepOutput ==
  ASSUME HarnessTyped, OutputInv, [HarnessNext]_harnessVars
  PROVE  OutputInv'
<1>1. CASE UNCHANGED harnessVars
  BY <1>1 DEF OutputInv, harnessVars, Pending
<1>2. CASE HarnessNext
  (* Before the output is written nothing is said of it.                       *)
  <2>1. CASE /\ harness \in {"idle", "script", "callback", "continuation", "waiting"}
             /\ ~WriteOutput
    <3>1. script_output' = script_output
          /\ harness' \notin {"written", "applied", "invalid request"}
      BY <1>2, <2>1, HarnessCases
         DEF StartHarness, UnsetVariables, SetVariable, RecordTest, SendRequest, EndTurn, Step,
             RetryDigest, Settle, Continue, WriteOutput, ContinueLate, ApplyResult
    <3>2. ~script_output.written
      BY <2>1 DEF OutputInv
    <3> QED  BY <3>1, <3>2 DEF OutputInv
  <2>2. CASE WriteOutput
    <3>1. CASE script_error # "none"
      <4>1. harness' = "failed" /\ script_output' = script_output /\ harness = "waiting"
        BY <2>2, <3>1 DEF WriteOutput
      <4> QED  BY <4>1 DEF OutputInv
    <3>2. CASE script_error = "none"
      <4>1. /\ harness' = "written" /\ Pending = {} /\ script_error' = "none"
            /\ script_output' =
                 [written |-> TRUE, changes |-> pm_changes, removals |-> pm_removals,
                  tests |-> pm_tests.recorded, failures |-> pm_tests.failures]
            /\ UNCHANGED <<pm_changes, pm_removals, pm_tests, sub_requests>>
        BY <2>2, <3>2 DEF WriteOutput, MayWrite, pmVars
      <4>2. Pending' = {}
        BY <4>1 DEF Pending
      <4> QED  BY <4>1, <4>2 DEF OutputInv
    <3> QED  BY <3>1, <3>2
  <2>3. CASE harness \in {"written", "failed", "applied", "invalid request"}
    <3>1. ContinueLate \/ ApplyResult
      BY <1>2, <2>3, HarnessCases
         DEF StartHarness, UnsetVariables, SetVariable, RecordTest, SendRequest, EndTurn, Step,
             RetryDigest, Settle, Continue, WriteOutput
    <3>2. /\ UNCHANGED <<pm_changes, pm_removals, pm_tests, sub_requests, script_error,
                        script_output>>
          /\ harness = "written"
          /\ harness' \in {"written", "failed", "applied", "invalid request"}
      BY <3>1 DEF ContinueLate, ApplyResult, pmVars
    <3>3. Pending' = Pending
      BY <3>2 DEF Pending
    <3> QED  BY <3>2, <3>3 DEF OutputInv
  <2> QED  BY <2>1, <2>2, <2>3 DEF HarnessTyped, HarnessPhase
<1> QED  BY <1>1, <1>2

LEMMA HarnessInvariant == HarnessSpec => []HarnessInv
<1>1. HarnessInit => HarnessInv
  <2>1. SUFFICES ASSUME HarnessInit PROVE HarnessInv
    OBVIOUS
  <2>2. /\ harness = "idle" /\ pm_given = Nothing /\ pm_values = Nothing /\ pm_changes = Nothing
        /\ pm_removals = [s \in PmScopes |-> {}]
        /\ sub_requests = [r \in 1 .. MaxSends |-> "none"] /\ awaited = {}
        /\ pm_tests = [asked |-> 0, recorded |-> 0, failed |-> FALSE, failures |-> FALSE]
        /\ script_error = "none" /\ script_output = NoOutput
    BY <2>1 DEF HarnessInit
  <2>3. HarnessTyped
    BY <2>2 DEF HarnessTyped, HarnessPhase, PmTable, Nothing, Sent
  <2>4. ChangesInv
    BY <2>2 DEF ChangesInv, Overlay, Nothing
  <2>5. TestsInv
    <3>1. 0 \in 0 .. MaxTestEntries /\ 0 # MaxTestEntries
      BY HarnessAssumption
    <3> QED  BY <2>2, <3>1 DEF TestsInv
  <2>6. OutputInv
    BY <2>2 DEF OutputInv, NoOutput
  <2> QED  BY <2>3, <2>4, <2>5, <2>6 DEF HarnessInv
<1>2. HarnessInv /\ [HarnessNext]_harnessVars => HarnessInv'
  BY StepHarnessTyped, StepChanges, StepTests, StepOutput DEF HarnessInv
<1> QED  BY <1>1, <1>2, PTL DEF HarnessSpec

(* The parent has, after a script, the variables that the script and its callbacks   *)
(* saw last, and an output stands for a script that threw nothing, whose requests    *)
(* were all answered, and which says so if a test failed or found no room.          *)
THEOREM HarnessOutputIsExact == HarnessSpec => []ScriptOutputIsExact
<1>1. HarnessInv => ScriptOutputIsExact
  <2>1. SUFFICES ASSUME HarnessInv PROVE ScriptOutputIsExact
    OBVIOUS
  <2>2. pm_tests.failed \/ pm_tests.asked > pm_tests.recorded => pm_tests.failures
    <3>1. pm_tests.asked \in Nat /\ pm_tests.recorded \in Nat
      BY <2>1, HarnessAssumption DEF HarnessInv, TestsInv
    <3>2. pm_tests.asked > pm_tests.recorded => pm_tests.asked # pm_tests.recorded
      BY <3>1
    <3> QED  BY <2>1, <3>2 DEF HarnessInv, TestsInv
  <2> QED  BY <2>1, <2>2 DEF HarnessInv, ChangesInv, OutputInv, ScriptOutputIsExact
<1> QED  BY <1>1, HarnessInvariant, PTL

(***************************************************************************)
(* The workers of the desktop                                              *)
(***************************************************************************)
Ends == {"none", "cancelled", "lost", "no schema", "ok", "ok with report",
         "ok with script error", "ok with report and script error", "error"}
WorkRecord == [kind : WorkKinds, updates : 0 .. 1, end : Ends, cancelled : BOOLEAN]
Scripts == {"script", "tests"}
SendPanels == {"response", "response_error", "graphql_schema", "graphql_schema_error",
               "device_code_prompt", "stream"}
ScriptPanels == {"script_report", "script_error"}
WorkTyped ==
  /\ plan \in WorkPlans /\ work \in Seq(WorkRecord) /\ Len(work) <= Len(plan)
  /\ slots \in [Slots -> 0 .. Len(work)]
  /\ frame \in {"commands", "device", "operation", "workflows"}
  /\ panel \in [Panels -> 0 .. FailedLabel] /\ run_label \in 0 .. FailedLabel
  /\ left_behind \subseteq Worker
  /\ \A w \in Worker : work[w].end = "cancelled" => work[w].cancelled

(* The worker that was started last of some kinds.                            *)
IsLast(w, kinds) ==
  /\ w \in Worker /\ work[w].kind \in kinds
  /\ \A v \in Worker : work[v].kind \in kinds => v <= w

(* A slot has a worker of its kind; of the operations there is one at a time,     *)
(* and it is the last that was started.                                         *)
SlotsInv ==
  /\ \A s \in Slots : slots[s] # 0 => SlotOf[work[slots[s]].kind] = s
  /\ \A s, t \in Operations : slots[s] # 0 /\ slots[t] # 0 => s = t
  /\ \A s \in Operations : slots[s] # 0 => IsLast(slots[s], Sends \cup Scripts)
  /\ device_slot # 0 => device_slot = slots["pending"]

(* A panel shows the last worker that could have filled it.                     *)
ShownInv ==
  /\ \A p \in SendPanels : panel[p] # 0 => IsLast(panel[p], Sends)
  /\ \A p \in ScriptPanels : panel[p] # 0 => IsLast(panel[p], Sends \cup Scripts)

(* The summary, the label and the run belong together, and an import on the screen   *)
(* is not running any more.                                                    *)
RunPanelsInv ==
  /\ panel["summary"] # 0 => run_label \in {panel["summary"], FailedLabel}
  /\ slots["running"] # 0 => panel["summary"] = 0 /\ run_label = slots["running"]
  /\ panel["imported"] # 0 => slots["importing"] = 0

(* What is recorded has ended and been seen: it is in no slot.                 *)
RecordedInv ==
  /\ recorded \in Seq(Nat)
  /\ \A i \in DOMAIN recorded :
       /\ recorded[i] \in Worker /\ recorded[i] # slots["pending"]
       /\ ~Running(recorded[i]) /\ work[recorded[i]].end # "cancelled"
       /\ work[recorded[i]].kind \in {"http", "grpc"}
  /\ \A i, j \in DOMAIN recorded : i < j => recorded[i] < recorded[j]
  /\ \A p \in {"response", "response_error"} :
       panel[p] # 0 /\ work[panel[p]].kind \in {"http", "grpc"} =>
         \E i \in DOMAIN recorded : recorded[i] = panel[p]
WorkersInv ==
  /\ WorkTyped /\ SlotsInv /\ ShownInv /\ RunPanelsInv /\ AbandonedWorkIsCancelled
  /\ RecordedInv

LEMMA SlotKinds ==
  /\ SlotOf["http"] = "pending" /\ SlotOf["grpc"] = "pending" /\ SlotOf["schema"] = "pending"
  /\ SlotOf["script"] = "script_pending" /\ SlotOf["tests"] = "script_pending"
  /\ SlotOf["sse"] = "sse_pending" /\ SlotOf["websocket"] = "websocket_pending"
  /\ SlotOf["run"] = "running" /\ SlotOf["import"] = "importing"
  BY DEF SlotOf

LEMMA SlotFacts ==
  ASSUME NEW kind \in WorkKinds
  PROVE  /\ SlotOf[kind] \in Slots
         /\ SlotOf[kind] \in Operations <=> kind \in Sends \cup Scripts
         /\ SlotOf[kind] \in {"pending", "sse_pending", "websocket_pending"} <=> kind \in Sends
         /\ SlotOf[kind] = "pending" <=> kind \in {"http", "grpc", "schema"}
         /\ SlotOf[kind] = "script_pending" <=> kind \in Scripts
         /\ SlotOf[kind] = "running" <=> kind = "run"
         /\ SlotOf[kind] = "importing" <=> kind = "import"
  BY SlotKinds DEF WorkKinds, Slots, Operations, Sends, Scripts

LEMMA WorkerFacts ==
  ASSUME WorkTyped
  PROVE  /\ Worker = 1 .. Len(work) /\ Len(work) \in Nat /\ Len(plan) \in Nat
         /\ MaxWork = Len(plan) /\ FailedLabel = Len(plan) + 1
         /\ \A w \in Worker :
              /\ work[w] \in WorkRecord /\ work[w].kind \in WorkKinds
              /\ work[w].end \in Ends /\ work[w].cancelled \in BOOLEAN
         /\ \A s \in Slots : slots[s] \in 0 .. Len(work)
                             /\ (slots[s] # 0 => slots[s] \in Worker)
<1>1. /\ work \in Seq(WorkRecord) /\ plan \in WorkPlans /\ Len(work) <= Len(plan)
      /\ slots \in [Slots -> 0 .. Len(work)]
  BY DEF WorkTyped
<1>2. plan \in Seq(WorkKinds)
  BY <1>1, DesktopWorkersAssumption
<1>3. Worker = 1 .. Len(work) /\ Len(work) \in Nat /\ Len(plan) \in Nat
  BY <1>1, <1>2 DEF Worker
<1>4. \A w \in Worker : work[w] \in WorkRecord
  BY <1>1, <1>3
<1>5. \A s \in Slots : slots[s] \in 0 .. Len(work) /\ (slots[s] # 0 => slots[s] \in Worker)
  BY <1>1, <1>3
<1> QED  BY <1>3, <1>4, <1>5 DEF WorkRecord, MaxWork, FailedLabel

(* The table of workers after a step that starts none.                          *)
WorkKept ==
  /\ work' \in Seq(WorkRecord) /\ Len(work') = Len(work) /\ plan' = plan
  /\ \A w \in Worker :
       /\ work'[w].kind = work[w].kind
       /\ work[w].cancelled => work'[w].cancelled
       /\ ~Running(w) => work'[w].end = work[w].end
       /\ work'[w].end = "cancelled" => work'[w].cancelled

LEMMA KeptWorkers ==
  ASSUME WorkTyped, WorkKept
  PROVE  /\ Worker' = Worker /\ FailedLabel' = FailedLabel
         /\ \A w, kinds : IsLast(w, kinds) => IsLast(w, kinds)'
         /\ \A w \in Worker : (Running(w))' => Running(w)
<1>1. Worker' = Worker
  <2>1. work' \in Seq(WorkRecord) /\ Len(work') = Len(work) /\ work \in Seq(WorkRecord)
    BY DEF WorkKept, WorkTyped
  <2> QED  BY <2>1 DEF Worker
<1>2. \A w, kinds : IsLast(w, kinds) => IsLast(w, kinds)'
  BY <1>1 DEF WorkKept, IsLast
<1> QED  BY <1>1, <1>2 DEF WorkKept, FailedLabel, MaxWork, Running

(* One worker's record changes.                                               *)
LEMMA OneWorker ==
  ASSUME WorkTyped, NEW w \in Worker, NEW r \in WorkRecord, plan' = plan,
         work' = [work EXCEPT ![w] = r], r.kind = work[w].kind,
         work[w].cancelled => r.cancelled, ~Running(w) => r.end = work[w].end,
         r.end = "cancelled" => r.cancelled
  PROVE  WorkKept
<1>1. work \in Seq(WorkRecord) /\ Worker = 1 .. Len(work)
  BY WorkerFacts DEF WorkTyped
<1>2. /\ work' \in Seq(WorkRecord) /\ Len(work') = Len(work) /\ work'[w] = r
      /\ \A v \in Worker : v # w => work'[v] = work[v]
  BY <1>1
<1>3. \A v \in Worker : work[v].end = "cancelled" => work[v].cancelled
  BY DEF WorkTyped
<1> QED  BY <1>2, <1>3 DEF WorkKept

LEMMA CancelledWork ==
  ASSUME WorkTyped, plan' = plan, NEW P,
         work' = [w \in Worker |-> [work[w] EXCEPT !.cancelled = @ \/ w \in P]]
  PROVE  WorkKept /\ \A w \in Worker \cap P : work'[w].cancelled
<1>1. Worker = 1 .. Len(work) /\ Len(work) \in Nat
      /\ \A w \in Worker : work[w] \in WorkRecord /\ work[w].cancelled \in BOOLEAN
  BY WorkerFacts
<1> DEFINE now(w) == work[w].cancelled \/ w \in P
<1>2. \A w \in Worker : now(w) \in BOOLEAN
  OBVIOUS
<1>3. \A w \in Worker : work'[w] = [work[w] EXCEPT !.cancelled = now(w)]
  OBVIOUS
<1> HIDE DEF now
<1>4. \A w \in Worker :
        /\ work'[w] \in WorkRecord /\ work'[w].kind = work[w].kind
        /\ work'[w].end = work[w].end /\ work'[w].cancelled = now(w)
  BY <1>1, <1>2, <1>3, ZenonT(30) DEF WorkRecord
<1>5. work' \in [1 .. Len(work) -> WorkRecord]
  BY <1>1, <1>4
<1>6. work' \in Seq(WorkRecord) /\ Len(work') = Len(work)
  BY <1>1, <1>5
<1>7. \A w \in Worker : work'[w].cancelled <=> (work[w].cancelled \/ w \in P)
  BY <1>4 DEF now
<1>8. \A w \in Worker : work[w].end = "cancelled" => work[w].cancelled
  BY DEF WorkTyped
<1> QED  BY <1>4, <1>6, <1>7, <1>8 DEF WorkKept

(* The table after a step that starts one.                                     *)
LEMMA StartedWorker ==
  ASSUME WorkTyped, NEW kind \in WorkKinds, work' = NewWork(kind), Len(work) < Len(plan),
         plan' = plan
  PROVE  /\ Worker' = Worker \cup {Len(work) + 1} /\ Len(work) + 1 \notin Worker
         /\ work' \in Seq(WorkRecord) /\ Len(work') = Len(work) + 1
         /\ Len(work') <= Len(plan') /\ FailedLabel' = FailedLabel
         /\ \A w \in Worker : work'[w] = work[w]
         /\ work'[Len(work) + 1].kind = kind /\ work'[Len(work) + 1].end = "none"
         /\ \A w, kinds : IsLast(w, kinds) /\ kind \notin kinds => IsLast(w, kinds)'
         /\ \A n, kinds : n = Len(work) + 1 /\ kind \in kinds => IsLast(n, kinds)'
<1> DEFINE r == [kind |-> kind, updates |-> 0, end |-> "none", cancelled |-> FALSE]
           n == Len(work) + 1
<1>1. Worker = 1 .. Len(work) /\ Len(work) \in Nat /\ Len(plan) \in Nat
      /\ work \in Seq(WorkRecord)
  BY WorkerFacts DEF WorkTyped
<1>2. r \in WorkRecord /\ r.kind = kind /\ r.end = "none"
  BY DEF WorkRecord, Ends
<1>3. work' = Append(work, r)
  BY DEF NewWork
<1> HIDE DEF r
<1>4. /\ work' \in Seq(WorkRecord) /\ Len(work') = n /\ work'[n] = r
      /\ \A w \in 1 .. Len(work) : work'[w] = work[w]
  BY <1>1, <1>2, <1>3
<1>5. Worker' = Worker \cup {n} /\ n \notin Worker
  <2>1. Worker' = 1 .. n
    BY <1>4 DEF Worker
  <2> QED  BY <1>1, <2>1
<1>6. ASSUME NEW w, NEW kinds, IsLast(w, kinds), kind \notin kinds
      PROVE  IsLast(w, kinds)'
  <2>1. w \in Worker /\ work[w].kind \in kinds
        /\ \A v \in Worker : work[v].kind \in kinds => v <= w
    BY <1>6 DEF IsLast
  <2>2. \A v \in Worker' : work'[v].kind \in kinds => v <= w
    BY <1>1, <1>2, <1>4, <1>5, <1>6, <2>1
  <2> QED  BY <1>1, <1>4, <1>5, <2>1, <2>2 DEF IsLast
<1>7. ASSUME NEW m, m = n, NEW kinds, kind \in kinds
      PROVE  IsLast(m, kinds)'
  <2>1. \A v \in Worker' : v <= m
    BY <1>1, <1>5, <1>7
  <2>2. m \in Worker' /\ work'[m].kind \in kinds
    BY <1>2, <1>4, <1>5, <1>7
  <2> HIDE DEF n
  <2> QED  BY <2>1, <2>2 DEF IsLast
<1>8. n <= Len(plan') /\ FailedLabel' = FailedLabel
  BY <1>1 DEF FailedLabel, MaxWork
<1> QED  BY <1>1, <1>2, <1>4, <1>5, <1>6, <1>7, <1>8

(* Steps that start no worker: which slots they may empty, and what of.           *)
SendSlots == {"pending", "sse_pending", "websocket_pending"}
SlotsFall ==
  /\ slots' \in [Slots -> 0 .. Len(work')]
  /\ \A s \in Slots : slots'[s] \in {0, slots[s]}
  /\ device_slot' # 0 => device_slot' = slots'["pending"]
DroppedKnown ==
  /\ left_behind \subseteq left_behind'
  /\ \A s \in Slots : slots[s] # 0 /\ slots'[s] = 0 =>
       \/ ~Running(slots[s])
       \/ s \in Operations /\ (work'[slots[s]].cancelled \/ slots[s] \in left_behind')
ShowsOfSlots ==
  /\ \A p \in SendPanels :
       panel'[p] = 0 \/ panel'[p] = panel[p] \/ \E s \in SendSlots : panel'[p] = slots[s]
  /\ \A p \in ScriptPanels :
       panel'[p] = 0 \/ panel'[p] = panel[p] \/ \E s \in Operations : panel'[p] = slots[s]

LEMMA SlotsFallKeep ==
  ASSUME WorkTyped, SlotsInv, WorkKept, SlotsFall
  PROVE  SlotsInv'
<1>1. ASSUME NEW s \in Slots, slots'[s] # 0
      PROVE  slots'[s] = slots[s] /\ slots[s] # 0 /\ work'[slots[s]].kind = work[slots[s]].kind
  <2>1. slots'[s] = slots[s] /\ slots[s] # 0
    BY <1>1 DEF SlotsFall
  <2> QED  BY <2>1, WorkerFacts DEF WorkKept
<1>2. Operations \subseteq Slots
  BY DEF Slots
<1>3. \A s \in Slots : slots'[s] # 0 => SlotOf[work'[slots'[s]].kind] = s
  BY <1>1 DEF SlotsInv
<1>4. \A s, t \in Operations : slots'[s] # 0 /\ slots'[t] # 0 => s = t
  BY <1>1, <1>2 DEF SlotsInv
<1>5. ASSUME NEW s \in Operations, slots'[s] # 0
      PROVE  IsLast(slots[s], Sends \cup Scripts)' /\ slots'[s] = slots[s]
  <2>1. slots'[s] = slots[s] /\ slots[s] # 0
    BY <1>1, <1>2, <1>5
  <2>2. IsLast(slots[s], Sends \cup Scripts)
    BY <2>1 DEF SlotsInv
  <2>3. PICK w : w = slots[s]
    OBVIOUS
  <2>4. IsLast(w, Sends \cup Scripts)'
    BY <2>2, <2>3, KeptWorkers
  <2> QED  BY <2>1, <2>3, <2>4 DEF IsLast
<1> QED  BY <1>3, <1>4, <1>5 DEF SlotsInv, SlotsFall

LEMMA AbandonedKept ==
  ASSUME WorkTyped, SlotsInv, AbandonedWorkIsCancelled, WorkKept, SlotsFall, DroppedKnown
  PROVE  AbandonedWorkIsCancelled'
<1>1. SUFFICES ASSUME NEW w \in Worker', (Running(w))', w \notin {slots'[s] : s \in Slots}
               PROVE  /\ work'[w].cancelled \/ w \in left_behind'
                      /\ work'[w].kind \notin {"run", "import"}
  BY DEF AbandonedWorkIsCancelled
<1>2. w \in Worker /\ Running(w) /\ w # 0 /\ work[w].kind \in WorkKinds
  BY <1>1, KeptWorkers, WorkerFacts
<1>3. work'[w].kind = work[w].kind /\ (work[w].cancelled => work'[w].cancelled)
  BY <1>2 DEF WorkKept
<1>4. CASE w \in {slots[s] : s \in Slots}
  <2>1. PICK s \in Slots : w = slots[s]
    BY <1>4
  <2>2. slots[s] # 0 /\ slots'[s] = 0
    BY <1>1, <1>2, <2>1 DEF SlotsFall
  <2>3. s \in Operations /\ (work'[w].cancelled \/ w \in left_behind')
    BY <1>2, <2>1, <2>2 DEF DroppedKnown
  <2>4. SlotOf[work[w].kind] = s
    BY <2>1, <2>2 DEF SlotsInv
  <2>5. work[w].kind \notin {"run", "import"}
    BY <1>2, <2>3, <2>4, SlotFacts DEF Operations
  <2> QED  BY <1>3, <2>3, <2>5
<1>5. CASE w \notin {slots[s] : s \in Slots}
  <2>1. /\ work[w].cancelled \/ w \in left_behind
        /\ work[w].kind \notin {"run", "import"}
    BY <1>2, <1>5 DEF AbandonedWorkIsCancelled
  <2> QED  BY <1>3, <2>1 DEF DroppedKnown
<1> QED  BY <1>4, <1>5

(* The operation in a slot is the last of its kind.                              *)
LEMMA SlotIsLast ==
  ASSUME WorkTyped, SlotsInv, NEW s \in Operations, slots[s] # 0
  PROVE  /\ IsLast(slots[s], Sends \cup Scripts)
         /\ s \in SendSlots => IsLast(slots[s], Sends)
<1>1. IsLast(slots[s], Sends \cup Scripts) /\ s \in Slots
  BY DEF SlotsInv, Slots
<1>2. slots[s] \in Worker /\ work[slots[s]].kind \in WorkKinds
  BY <1>1, WorkerFacts DEF IsLast
<1>3. SlotOf[work[slots[s]].kind] = s
  BY <1>1 DEF SlotsInv
<1>4. s \in SendSlots => work[slots[s]].kind \in Sends
  BY <1>2, <1>3, SlotFacts DEF SendSlots
<1> QED  BY <1>1, <1>4 DEF IsLast

LEMMA ShownKept ==
  ASSUME WorkTyped, SlotsInv, ShownInv, WorkKept, ShowsOfSlots
  PROVE  ShownInv'
<1>1. SendSlots \subseteq Operations
  BY DEF SendSlots, Operations
<1>2. ASSUME NEW p \in SendPanels, panel'[p] # 0
      PROVE  \E w : w = panel'[p] /\ IsLast(w, Sends)'
  <2>1. PICK w : w = panel'[p]
    OBVIOUS
  <2>2. IsLast(w, Sends)
    BY <1>1, <1>2, <2>1, SlotIsLast DEF ShowsOfSlots, ShownInv
  <2> QED  BY <2>1, <2>2, KeptWorkers
<1>3. ASSUME NEW p \in ScriptPanels, panel'[p] # 0
      PROVE  \E w : w = panel'[p] /\ IsLast(w, Sends \cup Scripts)'
  <2>1. PICK w : w = panel'[p]
    OBVIOUS
  <2>2. IsLast(w, Sends \cup Scripts)
    BY <1>1, <1>3, <2>1, SlotIsLast DEF ShowsOfSlots, ShownInv
  <2> QED  BY <2>1, <2>2, KeptWorkers
<1> QED  BY <1>2, <1>3 DEF ShownInv, IsLast

LEMMA RecordedKept ==
  ASSUME WorkTyped, RecordedInv, WorkKept, SlotsFall, recorded' = recorded,
         panel \in [Panels -> 0 .. FailedLabel],
         \A p \in {"response", "response_error"} :
           \/ panel'[p] = 0 \/ panel'[p] = panel[p]
           \/ panel'[p] \in Worker /\ work[panel'[p]].kind \notin {"http", "grpc"},
         \A p \in {"response", "response_error"} : panel[p] # 0 => panel[p] \in Worker
  PROVE  RecordedInv'
<1>1. ASSUME NEW i \in DOMAIN recorded
      PROVE  /\ recorded[i] \in Worker' /\ recorded[i] # slots'["pending"]
             /\ work'[recorded[i]].end # "none" /\ work'[recorded[i]].end # "cancelled"
             /\ work'[recorded[i]].kind \in {"http", "grpc"}
  <2>1. /\ recorded[i] \in Worker /\ recorded[i] # slots["pending"]
        /\ ~Running(recorded[i]) /\ work[recorded[i]].end # "cancelled"
        /\ work[recorded[i]].kind \in {"http", "grpc"}
    BY DEF RecordedInv
  <2>2. recorded[i] # 0 /\ slots'["pending"] \in {0, slots["pending"]}
    BY <2>1, WorkerFacts DEF SlotsFall, Slots, Operations
  <2> QED  BY <2>1, <2>2, KeptWorkers DEF WorkKept, Running
<1>2. ASSUME NEW p \in {"response", "response_error"}, panel'[p] # 0,
             work'[panel'[p]].kind \in {"http", "grpc"}
      PROVE  \E i \in DOMAIN recorded : recorded[i] = panel'[p]
  <2>1. panel'[p] \in Worker
    BY <1>2
  <2>2. work[panel'[p]].kind \in {"http", "grpc"}
    BY <1>2, <2>1 DEF WorkKept
  <2>3. panel'[p] = panel[p]
    BY <1>2, <2>2
  <2> QED  BY <1>2, <2>2, <2>3 DEF RecordedInv
<1> QED  BY <1>1, <1>2 DEF RecordedInv, Running

(* What a step that starts no worker owes the invariant.                          *)
LEMMA FallingStep ==
  ASSUME WorkersInv, WorkKept, SlotsFall, DroppedKnown, ShowsOfSlots,
         left_behind' \subseteq Worker, panel' \in [Panels -> 0 .. FailedLabel],
         run_label' \in 0 .. FailedLabel,
         frame' \in {"commands", "device", "operation", "workflows"},
         RunPanelsInv', RecordedInv'
  PROVE  WorkersInv'
<1>1. WorkTyped /\ SlotsInv /\ ShownInv /\ AbandonedWorkIsCancelled
  BY DEF WorkersInv
<1>2. SlotsInv' /\ ShownInv' /\ AbandonedWorkIsCancelled'
  BY <1>1, SlotsFallKeep, ShownKept, AbandonedKept
<1>3. WorkTyped'
  <2>1. Worker' = Worker /\ FailedLabel' = FailedLabel
    BY <1>1, KeptWorkers
  <2>2. Len(work') <= Len(plan') /\ plan' \in WorkPlans /\ work' \in Seq(WorkRecord)
    BY <1>1 DEF WorkTyped, WorkKept
  <2>3. \A w \in Worker' : work'[w].end = "cancelled" => work'[w].cancelled
    BY <2>1 DEF WorkKept
  <2> QED  BY <2>1, <2>2, <2>3 DEF WorkTyped, SlotsFall
<1> QED  BY <1>2, <1>3 DEF WorkersInv

LEMMA InvFacts ==
  ASSUME WorkersInv
  PROVE  /\ WorkTyped /\ SlotsInv /\ ShownInv /\ RunPanelsInv /\ RecordedInv
         /\ panel \in [Panels -> 0 .. FailedLabel] /\ slots \in [Slots -> 0 .. Len(work)]
         /\ left_behind \subseteq Worker /\ run_label \in 0 .. FailedLabel
         /\ \A p \in {"response", "response_error"} : panel[p] # 0 => panel[p] \in Worker
         /\ device_slot # 0 => device_slot = slots["pending"] /\ device_slot \in Worker
<1>1. WorkTyped /\ SlotsInv /\ ShownInv /\ RunPanelsInv /\ RecordedInv
  BY DEF WorkersInv
<1>2. device_slot # 0 => device_slot = slots["pending"] /\ slots["pending"] # 0
  BY <1>1 DEF SlotsInv
<1>3. device_slot # 0 => device_slot \in Worker
  BY <1>1, <1>2, WorkerFacts DEF Slots, Operations
<1> QED  BY <1>1, <1>2, <1>3 DEF WorkTyped, ShownInv, IsLast, SendPanels

(* Steps that change nothing but the table of workers, and the frame.             *)
LEMMA QuietStep ==
  ASSUME WorkersInv, WorkKept,
         UNCHANGED <<slots, device_slot, panel, run_label, recorded, left_behind>>,
         frame' \in {"commands", "device", "operation", "workflows"}
  PROVE  WorkersInv'
<1>0. /\ WorkTyped /\ SlotsInv /\ ShownInv /\ RunPanelsInv /\ RecordedInv
      /\ panel \in [Panels -> 0 .. FailedLabel] /\ slots \in [Slots -> 0 .. Len(work)]
      /\ left_behind \subseteq Worker /\ run_label \in 0 .. FailedLabel
      /\ \A p \in {"response", "response_error"} : panel[p] # 0 => panel[p] \in Worker
      /\ device_slot # 0 => device_slot = slots["pending"]
  BY InvFacts
<1>1. SlotsFall
  BY <1>0 DEF SlotsFall, WorkKept
<1>2. DroppedKnown /\ ShowsOfSlots
  BY DEF DroppedKnown, ShowsOfSlots
<1>3. RunPanelsInv'
  BY <1>0, KeptWorkers DEF RunPanelsInv
<1>4. RecordedInv'
  BY <1>0, <1>1, RecordedKept
<1> QED  BY <1>0, <1>1, <1>2, <1>3, <1>4, FallingStep

LEMMA WorkerSteps ==
  ASSUME WorkersInv, plan' = plan, NEW w \in Worker,
         SendUpdate(w) \/ FinishWork(w) \/ StopCancelledWork(w) \/ LoseWorker(w)
  PROVE  WorkersInv'
<1>0. WorkTyped /\ work[w] \in WorkRecord /\ work[w].kind \in WorkKinds
  BY InvFacts, WorkerFacts
<1>1. UNCHANGED <<slots, device_slot, panel, run_label, recorded, left_behind>> /\ frame' = frame
  BY DEF SendUpdate, FinishWork, StopCancelledWork, LoseWorker, Untouched
<1>2. frame' \in {"commands", "device", "operation", "workflows"}
  BY <1>0, <1>1 DEF WorkTyped
<1>3. Running(w)
  BY DEF SendUpdate, FinishWork, StopCancelledWork, LoseWorker
<1>4. CASE SendUpdate(w)
  <2> DEFINE r == [work[w] EXCEPT !.updates = work[w].updates + 1]
  <2>1. work[w].updates = 0 /\ work' = [work EXCEPT ![w] = r]
    BY <1>0, <1>4 DEF SendUpdate, Message, WorkRecord, WorkTyped
  <2>2. /\ r \in WorkRecord /\ r.kind = work[w].kind /\ r.cancelled = work[w].cancelled
        /\ r.end = work[w].end
    BY <1>0, <2>1 DEF WorkRecord
  <2>3. r.end # "cancelled"
    BY <1>3, <2>2 DEF Running
  <2> HIDE DEF r
  <2>4. WorkKept
    BY <1>0, <1>3, <2>1, <2>2, <2>3, OneWorker
  <2> QED  BY <1>1, <1>2, <2>4, QuietStep
<1>5. ASSUME NEW end \in Ends, EndsWith(w, end), end = "cancelled" => work[w].cancelled
      PROVE  WorkersInv'
  <2> DEFINE r == [work[w] EXCEPT !.end = end]
  <2>1. work' = [work EXCEPT ![w] = r]
    BY <1>0, <1>5 DEF EndsWith, WorkRecord, WorkTyped
  <2>2. /\ r \in WorkRecord /\ r.kind = work[w].kind /\ r.cancelled = work[w].cancelled
        /\ r.end = end
    BY <1>0 DEF WorkRecord
  <2> HIDE DEF r
  <2>4. WorkKept
    BY <1>0, <1>3, <1>5, <2>1, <2>2, OneWorker
  <2> QED  BY <1>1, <1>2, <2>4, QuietStep
<1>6. CASE FinishWork(w)
  <2>1. PICK end \in Answers(work[w].kind) : EndsWith(w, end)
    BY <1>6 DEF FinishWork
  <2>2. end \in Ends /\ end # "cancelled"
    <3>1. Answers(work[w].kind) \in
            {{"ok", "ok with report", "ok with script error",
              "ok with report and script error", "error"},
             {"ok", "no schema", "error"}, {"ok", "error"}}
      BY DEF Answers
    <3> QED  BY <2>1, <3>1 DEF Ends
  <2> QED  BY <1>5, <2>1, <2>2
<1>7. CASE StopCancelledWork(w)
  BY <1>5, <1>7 DEF StopCancelledWork, Ends
<1>8. CASE LoseWorker(w)
  BY <1>5, <1>8 DEF LoseWorker, Ends
<1> QED  BY <1>4, <1>6, <1>7, <1>8

LEMMA SameWork ==
  ASSUME WorkTyped, UNCHANGED <<plan, work>>
  PROVE  WorkKept
  BY DEF WorkTyped, WorkKept, Worker

LEMMA CancelSteps ==
  ASSUME WorkersInv, plan' = plan,
         CancelActive \/ CancelRun \/ NewFrame \/ NoOperation
  PROVE  WorkersInv'
<1>0. WorkTyped
  BY InvFacts
<1>1. /\ UNCHANGED <<slots, device_slot, panel, run_label, recorded, left_behind>>
      /\ frame' \in {"commands", "device", "operation", "workflows"}
  BY <1>0 DEF CancelActive, CancelRun, NewFrame, NoOperation, WorkTyped
<1>2. CASE CancelActive
  <2>1. work' = [v \in Worker |-> [work[v] EXCEPT !.cancelled = @ \/ v \in Pressed]]
    BY <1>2 DEF CancelActive, CancelAll, Worker
  <2> QED  BY <1>0, <1>1, <2>1, CancelledWork, QuietStep
<1>3. CASE CancelRun
  <2> DEFINE w == slots["running"]
             r == [work[w] EXCEPT !.cancelled = TRUE]
  <2>1. w \in Worker
    BY <1>0, <1>3, WorkerFacts DEF CancelRun, Slots
  <2>2. work[w] \in WorkRecord
    BY <1>0, <2>1, WorkerFacts
  <2>3. work' = [work EXCEPT ![w] = r]
    BY <1>0, <1>3, <2>2 DEF CancelRun, WorkTyped, WorkRecord
  <2>4. r \in WorkRecord /\ r.kind = work[w].kind /\ r.cancelled /\ r.end = work[w].end
    BY <2>2 DEF WorkRecord
  <2> HIDE DEF r, w
  <2>5. WorkKept
    BY <1>0, <2>1, <2>3, <2>4, OneWorker
  <2> QED  BY <1>1, <2>5, QuietStep
<1>4. CASE NewFrame \/ NoOperation
  BY <1>0, <1>1, <1>4, SameWork, QuietStep DEF NewFrame, NoOperation
<1> QED  BY <1>2, <1>3, <1>4

LEMMA NoSlotsFacts ==
  ASSUME WorkersInv, WorkKept, NEW names, slots' = NoSlots(names)
  PROVE  /\ slots' \in [Slots -> 0 .. Len(work')]
         /\ \A s \in Slots : slots'[s] = IF s \in names THEN 0 ELSE slots[s]
<1>1. slots \in [Slots -> 0 .. Len(work)] /\ Len(work) \in Nat /\ Len(work') = Len(work)
  BY InvFacts, WorkerFacts DEF WorkKept
<1> QED  BY <1>1 DEF NoSlots

LEMMA ShowFacts ==
  ASSUME WorkersInv, NEW names, NEW w \in 0 .. FailedLabel
  PROVE  /\ Show(names, w) \in [Panels -> 0 .. FailedLabel]
         /\ \A p \in Panels : Show(names, w)[p] = IF p \in names THEN w ELSE panel[p]
  BY InvFacts DEF Show

LEMMA ZeroLabel ==
  ASSUME WorkersInv
  PROVE  0 \in 0 .. FailedLabel /\ FailedLabel \in 0 .. FailedLabel
         /\ \A w \in Worker : w \in 0 .. FailedLabel /\ w # 0 /\ w # FailedLabel
<1>1. /\ Worker = 1 .. Len(work) /\ Len(work) \in Nat /\ Len(plan) \in Nat
      /\ FailedLabel = Len(plan) + 1 /\ Len(work) <= Len(plan)
  BY InvFacts, WorkerFacts DEF WorkTyped
<1> QED  BY <1>1

LEMMA ClearSteps ==
  ASSUME WorkersInv, plan' = plan, ClearWork \/ OpenImportedProject
  PROVE  WorkersInv'
<1>0. /\ WorkTyped /\ SlotsInv /\ ShownInv /\ RunPanelsInv /\ RecordedInv
      /\ panel \in [Panels -> 0 .. FailedLabel]
      /\ left_behind \subseteq Worker /\ run_label \in 0 .. FailedLabel
      /\ \A p \in {"response", "response_error"} : panel[p] # 0 => panel[p] \in Worker
      /\ frame \in {"commands", "device", "operation", "workflows"}
  BY InvFacts DEF WorkTyped
<1>z. 0 \in 0 .. FailedLabel
  BY ZeroLabel
<1>p. SendPanels \cup ScriptPanels \subseteq ResponsePanels /\ ResponsePanels \subseteq Panels
      /\ "summary" \in Panels \ ResponsePanels /\ "imported" \in Panels \ ResponsePanels
      /\ {"response", "response_error"} \subseteq SendPanels
  BY DEF SendPanels, ScriptPanels, ResponsePanels, Panels
<1>s. Operations \subseteq Slots /\ {"running", "importing"} \subseteq Slots \ Operations
      /\ "pending" \in Operations
  BY DEF Operations, Slots
<1>1. CASE ClearWork
  <2>1. /\ work' = [v \in Worker |-> [work[v] EXCEPT !.cancelled = @ \/ v \in Pressed]]
        /\ slots' = NoSlots(Operations) /\ device_slot' = 0
        /\ panel' = Show(ResponsePanels, 0)
        /\ UNCHANGED <<frame, run_label, recorded, left_behind>>
    BY <1>1 DEF ClearWork, ClearPanels, CancelAll, Worker
  <2>2. WorkKept /\ \A v \in Worker \cap Pressed : work'[v].cancelled
    BY <1>0, <2>1, CancelledWork
  <2>3. /\ slots' \in [Slots -> 0 .. Len(work')]
        /\ \A s \in Slots : slots'[s] = IF s \in Operations THEN 0 ELSE slots[s]
    BY <2>1, <2>2, NoSlotsFacts
  <2>4. /\ panel' \in [Panels -> 0 .. FailedLabel]
        /\ \A p \in Panels : panel'[p] = IF p \in ResponsePanels THEN 0 ELSE panel[p]
    BY <2>1, <1>z, ShowFacts
  <2>5. SlotsFall
    BY <2>1, <2>3 DEF SlotsFall
  <2>6. DroppedKnown
    <3>1. \A s \in Operations : slots[s] # 0 => slots[s] \in Worker /\ slots[s] \in Pressed
      BY <1>0, <1>s, WorkerFacts DEF Pressed
    <3> QED  BY <2>1, <2>2, <2>3, <3>1 DEF DroppedKnown
  <2>7. ShowsOfSlots
    BY <1>p, <2>4 DEF ShowsOfSlots
  <2>8. RunPanelsInv'
    BY <1>0, <1>p, <1>s, <2>1, <2>2, <2>3, <2>4, KeptWorkers DEF RunPanelsInv
  <2>9. RecordedInv'
    BY <1>0, <1>p, <2>1, <2>2, <2>4, <2>5, RecordedKept
  <2> QED  BY <1>0, <2>1, <2>2, <2>4, <2>5, <2>6, <2>7, <2>8, <2>9, FallingStep
<1>2. CASE OpenImportedProject
  <2> DEFINE P == {slots["running"]}
             left == {w \in Worker : Running(w) /\ w \in Pressed \cup {slots["importing"]}}
  <2>1. /\ work' = [v \in Worker |-> [work[v] EXCEPT !.cancelled = @ \/ v = slots["running"]]]
        /\ left_behind' = left_behind \cup left
        /\ slots' = NoSlots(Slots) /\ device_slot' = 0
        /\ panel' = Show(Panels, 0) /\ run_label' = 0
        /\ UNCHANGED <<frame, recorded>>
        /\ panel["imported"] # 0 /\ slots["running"] = 0
    BY <1>2 DEF OpenImportedProject, MayOpen
  <2>a. work' = [v \in Worker |-> [work[v] EXCEPT !.cancelled = @ \/ v \in P]]
    BY <2>1
  <2>2. WorkKept
    BY <1>0, <2>a, CancelledWork
  <2>3. /\ slots' \in [Slots -> 0 .. Len(work')] /\ \A s \in Slots : slots'[s] = 0
    BY <2>1, <2>2, NoSlotsFacts
  <2>4. /\ panel' \in [Panels -> 0 .. FailedLabel] /\ \A p \in Panels : panel'[p] = 0
    BY <2>1, <1>z, ShowFacts
  <2>5. SlotsFall
    BY <2>1, <2>3 DEF SlotsFall
  <2>6. DroppedKnown
    <3>1. slots["importing"] = 0 /\ slots["running"] = 0
      BY <1>0, <2>1 DEF RunPanelsInv
    <3>2. \A s \in Slots : s \in Operations \/ s \in {"running", "importing"}
      BY DEF Slots
    <3>3. \A s \in Operations : slots[s] # 0 => slots[s] \in Worker /\ slots[s] \in Pressed
      BY <1>0, <1>s, WorkerFacts DEF Pressed
    <3> QED  BY <2>1, <3>1, <3>2, <3>3 DEF DroppedKnown
  <2>7. ShowsOfSlots
    BY <1>p, <2>4 DEF ShowsOfSlots
  <2>8. RunPanelsInv'
    BY <1>p, <1>s, <2>3, <2>4 DEF RunPanelsInv
  <2>9. RecordedInv'
    BY <1>0, <1>p, <2>1, <2>2, <2>4, <2>5, RecordedKept
  <2> HIDE DEF left
  <2>b. left_behind' \subseteq Worker
    BY <1>0, <2>1 DEF left
  <2> QED  BY <1>0, <1>z, <2>1, <2>b, <2>2, <2>4, <2>5, <2>6, <2>7, <2>8, <2>9, FallingStep
<1> QED  BY <1>1, <1>2

(* A start that fails changes the label or the panels only.                       *)
LEMMA FailedStarts ==
  ASSUME WorkersInv, plan' = plan, StartCollectionRunFails \/ StartImportFails
  PROVE  WorkersInv'
<1>0. /\ WorkTyped /\ SlotsInv /\ ShownInv /\ RunPanelsInv /\ RecordedInv
      /\ panel \in [Panels -> 0 .. FailedLabel] /\ slots \in [Slots -> 0 .. Len(work)]
      /\ left_behind \subseteq Worker /\ run_label \in 0 .. FailedLabel
      /\ \A p \in {"response", "response_error"} : panel[p] # 0 => panel[p] \in Worker
      /\ frame \in {"commands", "device", "operation", "workflows"}
      /\ device_slot # 0 => device_slot = slots["pending"]
  BY InvFacts DEF WorkTyped
<1>z. 0 \in 0 .. FailedLabel /\ FailedLabel \in 0 .. FailedLabel
  BY ZeroLabel
<1>1. UNCHANGED <<plan, work, slots, device_slot, frame, recorded, left_behind>>
  BY DEF StartCollectionRunFails, StartImportFails
<1>2. WorkKept
  BY <1>0, <1>1, SameWork
<1>3. SlotsFall /\ DroppedKnown
  BY <1>0, <1>1 DEF SlotsFall, DroppedKnown
<1>4. ASSUME panel' \in [Panels -> 0 .. FailedLabel],
             \A p \in SendPanels \cup ScriptPanels : panel'[p] = panel[p],
             run_label' \in 0 .. FailedLabel, RunPanelsInv'
      PROVE  WorkersInv'
  <2>1. ShowsOfSlots
    BY <1>4 DEF ShowsOfSlots
  <2>2. RecordedInv'
    BY <1>0, <1>1, <1>2, <1>3, <1>4, RecordedKept DEF SendPanels
  <2> QED  BY <1>0, <1>1, <1>2, <1>3, <1>4, <2>1, <2>2, FallingStep
<1>5. CASE StartCollectionRunFails
  <2>1. /\ slots["running"] = 0 /\ run_label' \in {run_label, FailedLabel}
        /\ panel' = Show({"runner_error"}, FailedLabel)
    BY <1>5 DEF StartCollectionRunFails
  <2>2. /\ panel' \in [Panels -> 0 .. FailedLabel]
        /\ \A p \in Panels : panel'[p] = IF p \in {"runner_error"} THEN FailedLabel ELSE panel[p]
    BY <1>z, <2>1, ShowFacts
  <2>3. \A p \in SendPanels \cup ScriptPanels \cup {"summary", "imported"} : panel'[p] = panel[p]
    BY <2>2 DEF SendPanels, ScriptPanels, Panels
  <2>4. RunPanelsInv'
    BY <1>0, <1>1, <1>2, <2>1, <2>3, KeptWorkers DEF RunPanelsInv
  <2> QED  BY <1>0, <1>4, <1>z, <2>1, <2>2, <2>3, <2>4
<1>6. CASE StartImportFails
  <2>1. /\ panel' = [Show({"imported"}, 0) EXCEPT !["import_error"] = FailedLabel]
        /\ run_label' = run_label
    BY <1>6 DEF StartImportFails
  <2>2. /\ Show({"imported"}, 0) \in [Panels -> 0 .. FailedLabel]
        /\ \A p \in Panels : Show({"imported"}, 0)[p] = IF p \in {"imported"} THEN 0 ELSE panel[p]
    BY <1>z, ShowFacts
  <2>3. panel' \in [Panels -> 0 .. FailedLabel]
    BY <1>z, <2>1, <2>2
  <2>4. /\ \A p \in SendPanels \cup ScriptPanels \cup {"summary"} : panel'[p] = panel[p]
        /\ panel'["imported"] = 0
    BY <2>1, <2>2 DEF SendPanels, ScriptPanels, Panels
  <2>5. RunPanelsInv'
    BY <1>0, <1>1, <1>2, <2>1, <2>4, KeptWorkers DEF RunPanelsInv
  <2> QED  BY <1>0, <1>4, <2>1, <2>3, <2>4, <2>5
<1> QED  BY <1>5, <1>6

LEMMA PollDeviceStep ==
  ASSUME WorkersInv, plan' = plan, PollDeviceCode
  PROVE  WorkersInv'
<1>0. /\ WorkTyped /\ SlotsInv /\ ShownInv /\ RunPanelsInv /\ RecordedInv
      /\ panel \in [Panels -> 0 .. FailedLabel] /\ slots \in [Slots -> 0 .. Len(work)]
      /\ left_behind \subseteq Worker /\ run_label \in 0 .. FailedLabel
      /\ \A p \in {"response", "response_error"} : panel[p] # 0 => panel[p] \in Worker
      /\ device_slot # 0 => device_slot = slots["pending"] /\ device_slot \in Worker
  BY InvFacts
<1>1. /\ UNCHANGED <<slots, run_label, recorded, left_behind>> /\ frame' = "operation"
      /\ device_slot' \in {0, device_slot}
      /\ \/ panel' = panel
         \/ device_slot # 0 /\ panel' = Show({"device_code_prompt"}, device_slot)
  <2>1. CASE device_slot = 0
    BY <2>1 DEF PollDeviceCode
  <2>2. CASE device_slot # 0
    <3>1. /\ UNCHANGED <<slots, run_label, recorded, left_behind>> /\ frame' = "operation"
          /\ device_slot' = IF Running(device_slot) THEN device_slot ELSE 0
          /\ panel' = IF work[device_slot].updates > 0
                      THEN Show({"device_code_prompt"}, device_slot) ELSE panel
      BY <2>2 DEF PollDeviceCode
    <3> QED  BY <2>2, <3>1
  <2> QED  BY <2>1, <2>2
<1>2. WorkKept
  <2>1. CASE device_slot = 0
    BY <1>0, <2>1, SameWork DEF PollDeviceCode
  <2>2. CASE device_slot # 0
    <3> DEFINE w == device_slot
               r == [work[w] EXCEPT !.updates = 0]
    <3>1. w \in Worker /\ work[w] \in WorkRecord
      BY <1>0, <2>2, WorkerFacts
    <3>2. work' = [work EXCEPT ![w] = r]
      BY <1>0, <2>2, <3>1 DEF PollDeviceCode, WorkTyped, WorkRecord
    <3>3. /\ r \in WorkRecord /\ r.kind = work[w].kind /\ r.cancelled = work[w].cancelled
          /\ r.end = work[w].end
      BY <3>1 DEF WorkRecord
    <3>4. r.end = "cancelled" => r.cancelled
      BY <1>0, <3>1, <3>3 DEF WorkTyped
    <3> HIDE DEF r, w
    <3> QED  BY <1>0, <3>1, <3>2, <3>3, <3>4, OneWorker
  <2> QED  BY <2>1, <2>2
<1>3. SlotsFall
  <2>1. Len(work') = Len(work)
    BY <1>2 DEF WorkKept
  <2> QED  BY <1>0, <1>1, <2>1 DEF SlotsFall
<1>4. DroppedKnown
  BY <1>1 DEF DroppedKnown
<1>5. /\ panel' \in [Panels -> 0 .. FailedLabel]
      /\ \A p \in Panels :
           \/ panel'[p] = panel[p]
           \/ p = "device_code_prompt" /\ device_slot # 0 /\ panel'[p] = device_slot
  <2>1. device_slot # 0 => device_slot \in 0 .. FailedLabel
    BY <1>0, ZeroLabel
  <2>2. CASE panel' = panel
    BY <1>0, <2>2
  <2>3. CASE device_slot # 0 /\ panel' = Show({"device_code_prompt"}, device_slot)
    BY <2>1, <2>3, ShowFacts
  <2> QED  BY <1>1, <2>2, <2>3
<1>6. ShowsOfSlots
  BY <1>0, <1>5 DEF ShowsOfSlots, SendPanels, ScriptPanels, SendSlots, Panels
<1>7. RunPanelsInv'
  <2>1. panel'["summary"] = panel["summary"] /\ panel'["imported"] = panel["imported"]
    BY <1>5 DEF Panels
  <2> QED  BY <1>0, <1>1, <1>2, <2>1, KeptWorkers DEF RunPanelsInv
<1>8. RecordedInv'
  <2>1. \A p \in {"response", "response_error"} : panel'[p] = panel[p]
    BY <1>5 DEF Panels
  <2> QED  BY <1>0, <1>1, <1>2, <1>3, <2>1, RecordedKept
<1> QED  BY <1>0, <1>1, <1>2, <1>3, <1>4, <1>5, <1>6, <1>7, <1>8, FallingStep

LEMMA PollScriptStep ==
  ASSUME WorkersInv, plan' = plan, PollScript
  PROVE  WorkersInv'
<1> DEFINE w == slots["script_pending"]
<1>0. /\ WorkTyped /\ SlotsInv /\ ShownInv /\ RunPanelsInv /\ RecordedInv
      /\ panel \in [Panels -> 0 .. FailedLabel] /\ slots \in [Slots -> 0 .. Len(work)]
      /\ left_behind \subseteq Worker /\ run_label \in 0 .. FailedLabel
      /\ \A p \in {"response", "response_error"} : panel[p] # 0 => panel[p] \in Worker
      /\ device_slot # 0 => device_slot = slots["pending"] /\ device_slot \in Worker
  BY InvFacts
<1>1. /\ UNCHANGED <<work, device_slot, run_label, recorded, left_behind>>
      /\ frame' = "workflows" /\ w # 0
  BY DEF PollScript
<1>2. WorkKept
  BY <1>0, <1>1, SameWork
<1>3. CASE Running(w)
  <2>1. UNCHANGED <<slots, panel>>
    BY <1>3 DEF PollScript
  <2> QED  BY <1>1, <1>2, <2>1, QuietStep
<1>4. CASE ~Running(w)
  <2>1. /\ slots' = NoSlots({"script_pending"})
        /\ panel' = [Show({"script_report", "script_error"}, 0) EXCEPT
                       !["script_report"] = IF work[w].end = "ok" THEN w ELSE 0,
                       !["script_error"] = IF ErrorOf(w) THEN w ELSE 0]
    BY <1>4 DEF PollScript
  <2>2. /\ slots' \in [Slots -> 0 .. Len(work')]
        /\ \A s \in Slots : slots'[s] = IF s \in {"script_pending"} THEN 0 ELSE slots[s]
    BY <1>2, <2>1, NoSlotsFacts
  <2>3. w \in Worker
    BY <1>0, <1>1, WorkerFacts DEF Slots, Operations
  <2>4. 0 \in 0 .. FailedLabel /\ w \in 0 .. FailedLabel
    BY <2>3, ZeroLabel
  <2>5. /\ Show({"script_report", "script_error"}, 0) \in [Panels -> 0 .. FailedLabel]
        /\ \A p \in Panels : Show({"script_report", "script_error"}, 0)[p] =
             IF p \in {"script_report", "script_error"} THEN 0 ELSE panel[p]
    BY <2>4, ShowFacts
  <2>6. /\ panel' \in [Panels -> 0 .. FailedLabel]
        /\ \A p \in Panels : \/ p \notin ScriptPanels /\ panel'[p] = panel[p]
                             \/ p \in ScriptPanels /\ panel'[p] \in {0, w}
    BY <2>1, <2>4, <2>5 DEF ScriptPanels
  <2>7. SlotsFall
    BY <1>0, <1>1, <2>2 DEF SlotsFall, Slots, Operations
  <2>8. DroppedKnown
    BY <1>1, <1>4, <2>2 DEF DroppedKnown
  <2>9. ShowsOfSlots
    BY <2>6 DEF ShowsOfSlots, SendPanels, ScriptPanels, Operations, Panels
  <2>10. RunPanelsInv'
    <3>1. panel'["summary"] = panel["summary"] /\ panel'["imported"] = panel["imported"]
      BY <2>6 DEF Panels, ScriptPanels
    <3>2. slots'["running"] = slots["running"] /\ slots'["importing"] = slots["importing"]
      BY <2>2 DEF Slots
    <3> QED  BY <1>0, <1>1, <1>2, <3>1, <3>2, KeptWorkers DEF RunPanelsInv
  <2>11. RecordedInv'
    <3>1. \A p \in {"response", "response_error"} : panel'[p] = panel[p]
      BY <2>6 DEF Panels, ScriptPanels
    <3> QED  BY <1>0, <1>1, <1>2, <2>7, <3>1, RecordedKept
  <2> QED  BY <1>0, <1>1, <1>2, <2>6, <2>7, <2>8, <2>9, <2>10, <2>11, FallingStep
<1> QED  BY <1>3, <1>4

LEMMA PollStreamStep ==
  ASSUME WorkersInv, plan' = plan, NEW slot \in {"sse_pending", "websocket_pending"},
         PollStream(slot)
  PROVE  WorkersInv'
<1> DEFINE w == slots[slot]
           r == [work[w] EXCEPT !.updates = 0]
           streams == IF work[w].updates > 0 THEN w ELSE panel["stream"]
           error == IF ~ErrorOf(w) THEN panel["response_error"]
                    ELSE IF work[w].cancelled THEN 0 ELSE w
<1>0. /\ WorkTyped /\ SlotsInv /\ ShownInv /\ RunPanelsInv /\ RecordedInv
      /\ panel \in [Panels -> 0 .. FailedLabel] /\ slots \in [Slots -> 0 .. Len(work)]
      /\ left_behind \subseteq Worker /\ run_label \in 0 .. FailedLabel
      /\ \A p \in {"response", "response_error"} : panel[p] # 0 => panel[p] \in Worker
      /\ device_slot # 0 => device_slot = slots["pending"] /\ device_slot \in Worker
  BY InvFacts
<1>1. /\ UNCHANGED <<device_slot, run_label, recorded, left_behind>>
      /\ frame' = "workflows" /\ w # 0
      /\ work' = [work EXCEPT ![w].updates = 0]
      /\ slots' = IF Running(w) THEN slots ELSE NoSlots({slot})
  BY DEF PollStream
<1>2. panel' = [panel EXCEPT !["stream"] = streams, !["response_error"] = error]
  BY DEF PollStream
<1>3. w \in Worker /\ work[w] \in WorkRecord /\ work[w].kind \in WorkKinds
      /\ slot \in Operations /\ slot \in Slots
  BY <1>0, <1>1, WorkerFacts DEF Slots, Operations
<1>4. WorkKept
  <2>1. work' = [work EXCEPT ![w] = r]
    BY <1>0, <1>1, <1>3 DEF WorkTyped, WorkRecord
  <2>2. /\ r \in WorkRecord /\ r.kind = work[w].kind /\ r.cancelled = work[w].cancelled
        /\ r.end = work[w].end
    BY <1>3 DEF WorkRecord
  <2>3. r.end = "cancelled" => r.cancelled
    BY <1>0, <1>3, <2>2 DEF WorkTyped
  <2> HIDE DEF r, w
  <2> QED  BY <1>0, <1>3, <2>1, <2>2, <2>3, OneWorker
<1>5. /\ slots' \in [Slots -> 0 .. Len(work')]
      /\ \A s \in Slots :
           \/ slots'[s] = slots[s]
           \/ s = slot /\ slots'[s] = 0 /\ ~Running(w)
  <2>1. Len(work') = Len(work)
    BY <1>4 DEF WorkKept
  <2> HIDE DEF w
  <2>2. CASE Running(w)
    BY <1>0, <1>1, <2>1, <2>2
  <2>3. CASE ~Running(w)
    <3>1. /\ slots' \in [Slots -> 0 .. Len(work')]
          /\ \A s \in Slots : slots'[s] = IF s \in {slot} THEN 0 ELSE slots[s]
      BY <1>1, <1>4, <2>3, NoSlotsFacts
    <3> QED  BY <2>3, <3>1
  <2> QED  BY <2>2, <2>3
<1>6. work[w].kind \in {"sse", "websocket"}
  <2>1. SlotOf[work[w].kind] = slot
    BY <1>0, <1>1, <1>3 DEF SlotsInv
  <2> QED  BY <1>3, <2>1, SlotKinds DEF WorkKinds
<1>7. streams \in {w, panel["stream"]} /\ error \in {0, w, panel["response_error"]}
  OBVIOUS
<1>8. w \in 0 .. FailedLabel /\ 0 \in 0 .. FailedLabel
  BY <1>3, ZeroLabel
<1> HIDE DEF streams, error
<1>9. /\ panel' \in [Panels -> 0 .. FailedLabel]
      /\ \A p \in Panels :
           \/ panel'[p] = panel[p]
           \/ p \in {"stream", "response_error"} /\ panel'[p] \in {0, w}
  BY <1>0, <1>2, <1>7, <1>8 DEF Panels
<1>10. SlotsFall
  <2>1. "pending" \in Slots /\ slot # "pending"
    BY DEF Slots, Operations
  <2> QED  BY <1>0, <1>1, <1>5, <2>1 DEF SlotsFall
<1>11. DroppedKnown
  BY <1>1, <1>5 DEF DroppedKnown
<1>12. ShowsOfSlots
  <2>1. \A p \in SendPanels :
          panel'[p] = 0 \/ panel'[p] = panel[p] \/ panel'[p] = slots[slot]
    BY <1>9 DEF SendPanels, Panels
  <2>2. \A p \in ScriptPanels : panel'[p] = panel[p]
    BY <1>9 DEF ScriptPanels, Panels
  <2>3. slot \in SendSlots
    BY DEF SendSlots
  <2> QED  BY <2>1, <2>2, <2>3 DEF ShowsOfSlots
<1>13. RunPanelsInv'
  <2>1. panel'["summary"] = panel["summary"] /\ panel'["imported"] = panel["imported"]
    BY <1>9 DEF Panels
  <2>2. slots'["running"] = slots["running"] /\ slots'["importing"] = slots["importing"]
    BY <1>5 DEF Slots
  <2> QED  BY <1>0, <1>1, <1>4, <2>1, <2>2, KeptWorkers DEF RunPanelsInv
<1>14. RecordedInv'
  <2>1. \A p \in {"response", "response_error"} :
          panel'[p] = 0 \/ panel'[p] = panel[p] \/ panel'[p] = w
    BY <1>9 DEF Panels
  <2> HIDE DEF w
  <2>2. \A p \in {"response", "response_error"} :
          \/ panel'[p] = 0 \/ panel'[p] = panel[p]
          \/ panel'[p] \in Worker /\ work[panel'[p]].kind \notin {"http", "grpc"}
    BY <1>3, <1>6, <2>1
  <2> QED  BY <1>0, <1>1, <1>4, <1>10, <2>2, RecordedKept
<1> QED  BY <1>0, <1>1, <1>4, <1>9, <1>10, <1>11, <1>12, <1>13, <1>14, FallingStep

(* The end of a send is appended to the history.                                 *)
LEMMA RecordedAppend ==
  ASSUME WorkersInv, NEW w \in Worker, w = slots["pending"], w # 0, ~Running(w),
         UNCHANGED <<plan, work>>, work[w].end # "cancelled", slots'["pending"] = 0,
         work[w].kind \in {"http", "grpc"}, recorded' = Append(recorded, w),
         \A p \in {"response", "response_error"} : panel'[p] \in {0, w, panel[p]}
  PROVE  RecordedInv'
<1>0. WorkTyped /\ SlotsInv /\ RecordedInv
  BY InvFacts
<1>1. recorded \in Seq(Nat) /\ w \in Nat /\ 0 \notin Worker /\ Worker \subseteq Nat
  BY <1>0, WorkerFacts, SMTT(30) DEF RecordedInv
<1>2. /\ recorded' \in Seq(Nat) /\ Len(recorded') = Len(recorded) + 1
      /\ DOMAIN recorded = 1 .. Len(recorded) /\ Len(recorded) \in Nat
      /\ DOMAIN recorded' = 1 .. Len(recorded) + 1
      /\ recorded'[Len(recorded) + 1] = w
      /\ \A i \in 1 .. Len(recorded) : recorded'[i] = recorded[i]
  BY <1>1
<1>3. ASSUME NEW i \in 1 .. Len(recorded)
      PROVE  /\ recorded'[i] \in Worker /\ recorded'[i] # 0 /\ recorded'[i] < w
             /\ ~Running(recorded'[i]) /\ work[recorded'[i]].end # "cancelled"
             /\ work[recorded'[i]].kind \in {"http", "grpc"}
  <2>1. /\ recorded[i] \in Worker /\ recorded[i] # w
        /\ ~Running(recorded[i]) /\ work[recorded[i]].end # "cancelled"
        /\ work[recorded[i]].kind \in {"http", "grpc"} /\ recorded'[i] = recorded[i]
    BY <1>0, <1>2 DEF RecordedInv
  <2>2. IsLast(w, Sends \cup Scripts)
    BY <1>0, SlotIsLast DEF Operations
  <2>3. recorded[i] <= w
    BY <2>1, <2>2 DEF IsLast, Sends
  <2> QED  BY <1>1, <2>1, <2>3
<1>4. Worker' = Worker /\ \A v : (Running(v))' <=> Running(v)
  BY DEF Worker, Running
<1>5. ASSUME NEW i \in DOMAIN recorded'
      PROVE  /\ recorded'[i] \in Worker' /\ recorded'[i] # slots'["pending"]
             /\ work'[recorded'[i]].end # "none" /\ work'[recorded'[i]].end # "cancelled"
             /\ work'[recorded'[i]].kind \in {"http", "grpc"}
  <2>1. i \in 1 .. Len(recorded) \/ i = Len(recorded) + 1
    BY <1>2
  <2> QED  BY <1>2, <1>3, <1>4, <2>1 DEF Running
<1>6. \A i, j \in DOMAIN recorded' : i < j => recorded'[i] < recorded'[j]
  <2>1. SUFFICES ASSUME NEW i \in DOMAIN recorded', NEW j \in DOMAIN recorded', i < j
                 PROVE  recorded'[i] < recorded'[j]
    OBVIOUS
  <2>2. i \in 1 .. Len(recorded) /\ (j \in 1 .. Len(recorded) \/ j = Len(recorded) + 1)
    BY <1>2, <2>1
  <2>3. CASE j \in 1 .. Len(recorded)
    BY <1>0, <1>2, <2>1, <2>2, <2>3 DEF RecordedInv
  <2>4. CASE j = Len(recorded) + 1
    BY <1>2, <1>3, <2>2, <2>4
  <2> QED  BY <2>2, <2>3, <2>4
<1>7. ASSUME NEW p \in {"response", "response_error"}, panel'[p] # 0,
             work'[panel'[p]].kind \in {"http", "grpc"}
      PROVE  \E i \in DOMAIN recorded' : recorded'[i] = panel'[p]
  <2>1. CASE panel'[p] = w
    BY <1>2, <2>1
  <2>2. CASE panel'[p] = panel[p]
    <3>1. PICK i \in DOMAIN recorded : recorded[i] = panel[p]
      BY <1>0, <1>7, <2>2 DEF RecordedInv
    <3> QED  BY <1>2, <2>2, <3>1
  <2> QED  BY <1>7, <2>1, <2>2
<1> QED  BY <1>2, <1>5, <1>6, <1>7 DEF RecordedInv, Running

LEMMA PollHttpStep ==
  ASSUME WorkersInv, plan' = plan, PollHttp
  PROVE  WorkersInv'
<1> DEFINE w == slots["pending"]
           report == IF HasReport(w) THEN w ELSE panel["script_report"]
           error == IF ~HasReport(w) THEN panel["script_error"]
                    ELSE IF HasScriptError(w) THEN w ELSE 0
<1>0. /\ WorkTyped /\ SlotsInv /\ ShownInv /\ RunPanelsInv /\ RecordedInv
      /\ panel \in [Panels -> 0 .. FailedLabel] /\ slots \in [Slots -> 0 .. Len(work)]
      /\ left_behind \subseteq Worker /\ run_label \in 0 .. FailedLabel
      /\ \A p \in {"response", "response_error"} : panel[p] # 0 => panel[p] \in Worker
      /\ device_slot # 0 => device_slot = slots["pending"] /\ device_slot \in Worker
  BY InvFacts
<1>1. UNCHANGED <<work, run_label, left_behind>> /\ frame' = "workflows" /\ w # 0
  BY DEF PollHttp
<1>2. WorkKept
  BY <1>0, <1>1, SameWork
<1>3. CASE Running(w)
  <2>1. UNCHANGED <<slots, device_slot, panel, recorded>>
    BY <1>3 DEF PollHttp
  <2> QED  BY <1>1, <1>2, <2>1, QuietStep
<1>4. CASE ~Running(w)
  <2>1. /\ slots' = NoSlots({"pending"}) /\ device_slot' = 0
        /\ IF work[w].end \in {"error", "cancelled", "lost"} THEN ShowFailure(w)
           ELSE IF work[w].kind = "schema" THEN ShowSchema(w) ELSE ShowResponse(w)
    BY <1>4 DEF PollHttp
  <2>2. /\ slots' \in [Slots -> 0 .. Len(work')]
        /\ \A s \in Slots : slots'[s] = IF s \in {"pending"} THEN 0 ELSE slots[s]
    BY <1>2, <2>1, NoSlotsFacts
  <2>3. w \in Worker /\ slots'["pending"] = 0
    BY <1>0, <1>1, <2>2, WorkerFacts DEF Slots, Operations
  <2>4. 0 \in 0 .. FailedLabel /\ w \in 0 .. FailedLabel
    BY <2>3, ZeroLabel
  <2>5. work[w].kind \in {"http", "grpc", "schema"}
    <3>1. SlotOf[work[w].kind] = "pending" /\ work[w].kind \in WorkKinds
      BY <1>0, <1>1, <2>3, WorkerFacts DEF SlotsInv, Slots, Operations
    <3> QED  BY <3>1, SlotFacts
  <2>6. SlotsFall /\ DroppedKnown
    BY <1>1, <1>4, <2>1, <2>2 DEF SlotsFall, DroppedKnown
  <2>7. ASSUME panel' \in [Panels -> 0 .. FailedLabel],
               \A p \in SendPanels \cup ScriptPanels : panel'[p] \in {0, w, panel[p]},
               panel'["summary"] = panel["summary"], panel'["imported"] = panel["imported"],
               RecordedInv'
        PROVE  WorkersInv'
    <3>1. ShowsOfSlots
      <4>1. "pending" \in SendSlots /\ "pending" \in Operations
        BY DEF SendSlots, Operations
      <4> QED  BY <2>7, <4>1 DEF ShowsOfSlots
    <3>2. slots'["running"] = slots["running"] /\ slots'["importing"] = slots["importing"]
      BY <2>2 DEF Slots
    <3>3. RunPanelsInv'
      BY <1>0, <1>1, <1>2, <2>7, <3>2, KeptWorkers DEF RunPanelsInv
    <3> QED  BY <1>0, <1>1, <1>2, <2>6, <2>7, <3>1, <3>3, FallingStep
  <2>8. ASSUME NEW names \in SUBSET {"response", "response_error"}, NEW v \in {0, w}
        PROVE  /\ Show(names, v) \in [Panels -> 0 .. FailedLabel]
               /\ \A p \in Panels : Show(names, v)[p] = IF p \in names THEN v ELSE panel[p]
    BY <2>4, ShowFacts
  <2>9. SendPanels \cup ScriptPanels \cup {"summary", "imported"} \subseteq Panels
    BY DEF SendPanels, ScriptPanels, Panels
  <2>10. CASE ShowResponse(w) /\ work[w].kind # "schema" /\ work[w].end # "cancelled"
    <3>1. panel' = [Show({"response"}, w) EXCEPT !["response_error"] = 0,
                      !["script_report"] = report, !["script_error"] = error]
      <4>1. Show({"response"}, w)["script_report"] = panel["script_report"]
            /\ Show({"response"}, w)["script_error"] = panel["script_error"]
        BY <2>8, <2>9 DEF ScriptPanels
      <4> QED  BY <2>10, <4>1 DEF ShowResponse
    <3>2. report \in {w, panel["script_report"]} /\ error \in {0, w, panel["script_error"]}
      OBVIOUS
    <3> HIDE DEF report, error
    <3>3. /\ panel' \in [Panels -> 0 .. FailedLabel]
          /\ \A p \in Panels : panel'[p] =
               IF p = "response" THEN w ELSE IF p = "response_error" THEN 0
               ELSE IF p = "script_report" THEN report ELSE IF p = "script_error" THEN error
               ELSE panel[p]
      <4>1. report \in 0 .. FailedLabel /\ error \in 0 .. FailedLabel
        BY <1>0, <2>4, <2>9, <3>2 DEF ScriptPanels
      <4>2. /\ Show({"response"}, w) \in [Panels -> 0 .. FailedLabel]
            /\ \A p \in Panels : Show({"response"}, w)[p] =
                 IF p \in {"response"} THEN w ELSE panel[p]
        BY <2>8
      <4> HIDE DEF w
      <4> QED  BY <2>4, <3>1, <4>1, <4>2
    <3>4. \A p \in SendPanels \cup ScriptPanels : panel'[p] \in {0, w, panel[p]}
      BY <2>9, <3>2, <3>3
    <3>5. panel'["summary"] = panel["summary"] /\ panel'["imported"] = panel["imported"]
      BY <2>9, <3>3
    <3>6. RecordedInv'
      <4>1. recorded' = Append(recorded, w) /\ work[w].kind \in {"http", "grpc"}
        BY <2>5, <2>10 DEF ShowResponse
      <4>2. \A p \in {"response", "response_error"} : panel'[p] \in {0, w, panel[p]}
        BY <3>4 DEF SendPanels
      <4> QED  BY <1>1, <1>4, <2>3, <2>10, <4>1, <4>2, RecordedAppend
    <3> QED  BY <2>7, <3>3, <3>4, <3>5, <3>6
  <2>11. CASE ShowSchema(w) /\ work[w].kind = "schema"
    <3> DEFINE schema == IF work[w].end = "ok" THEN w ELSE panel["graphql_schema"]
               bad == IF work[w].end = "ok" THEN 0 ELSE w
    <3>1. panel' = [Show({"response"}, w) EXCEPT !["response_error"] = 0,
                      !["graphql_schema"] = schema, !["graphql_schema_error"] = bad]
      <4>1. Show({"response"}, w)["graphql_schema"] = panel["graphql_schema"]
        BY <2>8, <2>9 DEF SendPanels
      <4> QED  BY <2>11, <4>1 DEF ShowSchema
    <3>2. schema \in {w, panel["graphql_schema"]} /\ bad \in {0, w}
      OBVIOUS
    <3> HIDE DEF schema, bad
    <3>3. /\ panel' \in [Panels -> 0 .. FailedLabel]
          /\ \A p \in Panels : panel'[p] =
               IF p = "response" THEN w ELSE IF p = "response_error" THEN 0
               ELSE IF p = "graphql_schema" THEN schema
               ELSE IF p = "graphql_schema_error" THEN bad ELSE panel[p]
      <4>1. schema \in 0 .. FailedLabel /\ bad \in 0 .. FailedLabel
        BY <1>0, <2>4, <2>9, <3>2 DEF SendPanels
      <4>2. /\ Show({"response"}, w) \in [Panels -> 0 .. FailedLabel]
            /\ \A p \in Panels : Show({"response"}, w)[p] =
                 IF p \in {"response"} THEN w ELSE panel[p]
        BY <2>8
      <4> HIDE DEF w
      <4> QED  BY <2>4, <3>1, <4>1, <4>2
    <3>4. \A p \in SendPanels \cup ScriptPanels : panel'[p] \in {0, w, panel[p]}
      BY <2>9, <3>2, <3>3
    <3>5. panel'["summary"] = panel["summary"] /\ panel'["imported"] = panel["imported"]
      BY <2>9, <3>3
    <3>6. RecordedInv'
      <4>1. recorded' = recorded
        BY <2>11 DEF ShowSchema
      <4>2. \A p \in {"response", "response_error"} :
              \/ panel'[p] = 0 \/ panel'[p] = panel[p]
              \/ panel'[p] \in Worker /\ work[panel'[p]].kind \notin {"http", "grpc"}
        <5>1. panel'["response"] = w /\ panel'["response_error"] = 0
          BY <2>9, <3>3 DEF SendPanels
        <5> QED  BY <2>3, <2>11, <5>1
      <4> QED  BY <1>0, <1>2, <2>6, <4>1, <4>2, RecordedKept
    <3> QED  BY <2>7, <3>3, <3>4, <3>5, <3>6
  <2>12. CASE ShowFailure(w)
    <3>1. CASE work[w].kind = "schema"
      <4> DEFINE bad == IF work[w].cancelled THEN panel["graphql_schema_error"] ELSE w
      <4>1. /\ panel' = [Show({"response_error"}, 0) EXCEPT !["graphql_schema_error"] = bad]
            /\ recorded' = recorded
        <5>1. Show({"response_error"}, 0)["graphql_schema_error"] = panel["graphql_schema_error"]
          BY <2>8, <2>9 DEF SendPanels
        <5> QED  BY <2>12, <3>1, <5>1 DEF ShowFailure
      <4>2. bad \in {w, panel["graphql_schema_error"]}
        OBVIOUS
      <4> HIDE DEF bad
      <4>3. /\ panel' \in [Panels -> 0 .. FailedLabel]
            /\ \A p \in Panels : panel'[p] =
                 IF p = "response_error" THEN 0
                 ELSE IF p = "graphql_schema_error" THEN bad ELSE panel[p]
        <5>1. bad \in 0 .. FailedLabel
          BY <1>0, <2>4, <2>9, <4>2 DEF SendPanels
        <5>2. /\ Show({"response_error"}, 0) \in [Panels -> 0 .. FailedLabel]
              /\ \A p \in Panels : Show({"response_error"}, 0)[p] =
                   IF p \in {"response_error"} THEN 0 ELSE panel[p]
          BY <2>8
        <5> QED  BY <4>1, <5>1, <5>2
      <4>4. \A p \in SendPanels \cup ScriptPanels : panel'[p] \in {0, w, panel[p]}
        BY <2>9, <4>2, <4>3
      <4>5. panel'["summary"] = panel["summary"] /\ panel'["imported"] = panel["imported"]
        BY <2>9, <4>3
      <4>6. \A p \in {"response", "response_error"} : panel'[p] = 0 \/ panel'[p] = panel[p]
        BY <2>9, <4>3 DEF SendPanels
      <4>7. RecordedInv'
        BY <1>0, <1>2, <2>6, <4>1, <4>6, RecordedKept
      <4> QED  BY <2>7, <4>3, <4>4, <4>5, <4>7
    <3>2. CASE work[w].kind # "schema"
      <4> DEFINE v == IF work[w].cancelled THEN 0 ELSE w
      <4>1. /\ panel' = Show({"response_error"}, v)
            /\ recorded' = IF work[w].cancelled THEN recorded ELSE Append(recorded, w)
        BY <2>12, <3>2 DEF ShowFailure
      <4>2. v \in {0, w}
        OBVIOUS
      <4>3. /\ panel' \in [Panels -> 0 .. FailedLabel]
            /\ \A p \in Panels : panel'[p] = IF p \in {"response_error"} THEN v ELSE panel[p]
        <5> HIDE DEF v
        <5> QED  BY <2>8, <4>1, <4>2
      <4>4. \A p \in SendPanels \cup ScriptPanels : panel'[p] \in {0, w, panel[p]}
        BY <2>9, <4>2, <4>3
      <4>5. panel'["summary"] = panel["summary"] /\ panel'["imported"] = panel["imported"]
        BY <2>9, <4>3
      <4>6. panel'["response"] = panel["response"] /\ panel'["response_error"] = v
        BY <2>9, <4>3 DEF SendPanels
      <4>7. RecordedInv'
        <5>1. CASE work[w].cancelled
          BY <1>0, <1>2, <2>6, <4>1, <4>6, <5>1, RecordedKept
        <5>2. CASE ~work[w].cancelled
          <6>1. work[w].end # "cancelled"
            BY <1>0, <2>3, <5>2 DEF WorkTyped
          <6>2. recorded' = Append(recorded, w) /\ work[w].kind \in {"http", "grpc"}
            BY <2>5, <3>2, <4>1, <5>2
          <6>3. \A p \in {"response", "response_error"} : panel'[p] \in {0, w, panel[p]}
            BY <4>2, <4>6
          <6> QED  BY <1>1, <1>4, <2>3, <6>1, <6>2, <6>3, RecordedAppend
        <5> QED  BY <5>1, <5>2
      <4> QED  BY <2>7, <4>3, <4>4, <4>5, <4>7
    <3> QED  BY <3>1, <3>2
  <2>13. \/ ShowFailure(w)
         \/ ShowSchema(w) /\ work[w].kind = "schema"
         \/ ShowResponse(w) /\ work[w].kind # "schema" /\ work[w].end # "cancelled"
    BY <2>1
  <2> QED  BY <2>10, <2>11, <2>12, <2>13
<1> QED  BY <1>3, <1>4

LEMMA PollWorkflowsStep ==
  ASSUME WorkersInv, plan' = plan, PollWorkflows
  PROVE  WorkersInv'
<1> DEFINE i == slots["importing"]
           r == slots["running"]
           importEnds == i # 0 /\ ~Running(i)
           runEnds == r # 0 /\ ~Running(r)
           import == IF ErrorOf(i) THEN "import_error" ELSE "imported"
           run == IF ErrorOf(r) THEN "runner_error" ELSE "summary"
           shown == IF importEnds THEN [panel EXCEPT ![import] = i] ELSE panel
<1>0. /\ WorkTyped /\ SlotsInv /\ ShownInv /\ RunPanelsInv /\ RecordedInv
      /\ panel \in [Panels -> 0 .. FailedLabel] /\ slots \in [Slots -> 0 .. Len(work)]
      /\ left_behind \subseteq Worker /\ run_label \in 0 .. FailedLabel
      /\ \A p \in {"response", "response_error"} : panel[p] # 0 => panel[p] \in Worker
      /\ device_slot # 0 => device_slot = slots["pending"] /\ device_slot \in Worker
  BY InvFacts
<1>1. UNCHANGED <<work, device_slot, run_label, recorded, left_behind>> /\ frame' = "commands"
  BY DEF PollWorkflows
<1>2. WorkKept
  BY <1>0, <1>1, SameWork
<1>3. /\ slots' = NoSlots({s \in {"importing", "running"} : slots[s] # 0 /\ ~Running(slots[s])})
      /\ panel' = IF runEnds THEN [shown EXCEPT ![run] = r] ELSE shown
  BY DEF PollWorkflows
<1>4. /\ slots' \in [Slots -> 0 .. Len(work')]
      /\ \A s \in Slots : slots'[s] =
           IF s \in {v \in {"importing", "running"} : slots[v] # 0 /\ ~Running(slots[v])}
           THEN 0 ELSE slots[s]
  BY <1>2, <1>3, NoSlotsFacts
<1>5. /\ slots'["importing"] = IF importEnds THEN 0 ELSE i
      /\ slots'["running"] = IF runEnds THEN 0 ELSE r
      /\ slots'["pending"] = slots["pending"]
  BY <1>4 DEF Slots, Operations
<1>6. i \in 0 .. FailedLabel /\ r \in 0 .. FailedLabel
  BY <1>0, WorkerFacts, ZeroLabel DEF Slots
<1>7. import \in {"import_error", "imported"} /\ run \in {"runner_error", "summary"}
  OBVIOUS
<1>8. (~ErrorOf(i) => import = "imported") /\ (~ErrorOf(r) => run = "summary")
  OBVIOUS
<1>p. {"import_error", "imported", "runner_error", "summary"} \subseteq Panels
      /\ (SendPanels \cup ScriptPanels) \cap {"import_error", "imported", "runner_error", "summary"} = {}
      /\ SendPanels \cup ScriptPanels \subseteq Panels
  BY DEF Panels, SendPanels, ScriptPanels
<1> HIDE DEF import, run
<1>9. /\ shown \in [Panels -> 0 .. FailedLabel]
      /\ \A p \in Panels : shown[p] = IF importEnds /\ p = import THEN i ELSE panel[p]
  BY <1>0, <1>6, <1>7, <1>p
<1> HIDE DEF shown
<1>10. /\ panel' \in [Panels -> 0 .. FailedLabel]
       /\ \A p \in Panels : panel'[p] = IF runEnds /\ p = run THEN r ELSE shown[p]
  BY <1>3, <1>6, <1>7, <1>9, <1>p
<1>11. /\ \A p \in SendPanels \cup ScriptPanels : panel'[p] = panel[p]
       /\ panel'["imported"] = IF importEnds /\ import = "imported" THEN i ELSE panel["imported"]
       /\ panel'["summary"] = IF runEnds /\ run = "summary" THEN r ELSE panel["summary"]
  BY <1>7, <1>9, <1>10, <1>p
<1>12. SlotsFall
  BY <1>0, <1>1, <1>4, <1>5 DEF SlotsFall
<1>13. DroppedKnown
  BY <1>1, <1>4 DEF DroppedKnown
<1>14. ShowsOfSlots
  BY <1>11 DEF ShowsOfSlots
<1>15. RunPanelsInv'
  <2>1. /\ panel["summary"] # 0 => run_label \in {panel["summary"], FailedLabel}
        /\ r # 0 => panel["summary"] = 0 /\ run_label = r
        /\ panel["imported"] # 0 => i = 0
    BY <1>0 DEF RunPanelsInv
  <2>2. run_label' = run_label /\ FailedLabel' = FailedLabel
    BY <1>0, <1>1, <1>2, KeptWorkers
  <2>3. panel'["summary"] # 0 => run_label' \in {panel'["summary"], FailedLabel'}
    BY <1>11, <2>1, <2>2
  <2>4. slots'["running"] # 0 => panel'["summary"] = 0 /\ run_label' = slots'["running"]
    BY <1>5, <1>11, <2>1, <2>2
  <2>5. panel'["imported"] # 0 => slots'["importing"] = 0
    BY <1>5, <1>11, <2>1
  <2> QED  BY <2>3, <2>4, <2>5 DEF RunPanelsInv
<1>16. RecordedInv'
  <2>1. \A p \in {"response", "response_error"} : panel'[p] = panel[p]
    BY <1>11 DEF SendPanels
  <2> QED  BY <1>0, <1>1, <1>2, <1>12, <2>1, RecordedKept
<1> QED  BY <1>0, <1>1, <1>2, <1>10, <1>12, <1>13, <1>14, <1>15, <1>16, FallingStep

(* What a step that starts a worker owes the invariant.                           *)
LEMMA StartStep ==
  ASSUME WorkersInv, NEW kind \in WorkKinds, Planned(kind), work' = NewWork(kind),
         plan' = plan, NEW n, n = Len(work) + 1, slots[SlotOf[kind]] = 0,
         slots' \in [Slots -> 0 .. n], slots'[SlotOf[kind]] = n,
         \A s \in Slots : s # SlotOf[kind] => slots'[s] = slots[s],
         device_slot' # 0 => device_slot' = slots'["pending"],
         kind \in Sends \cup Scripts => \A s \in Operations : slots[s] = 0,
         UNCHANGED <<frame, left_behind, recorded>>, panel' \in [Panels -> 0 .. FailedLabel],
         \A p \in Panels : panel'[p] \in {0, panel[p]},
         kind \in Sends => \A p \in SendPanels : panel'[p] = 0,
         kind \in Sends \cup Scripts => \A p \in ScriptPanels : panel'[p] = 0,
         run_label' \in 0 .. FailedLabel, RunPanelsInv'
  PROVE  WorkersInv'
<1>0. /\ WorkTyped /\ SlotsInv /\ ShownInv /\ RecordedInv /\ AbandonedWorkIsCancelled
      /\ left_behind \subseteq Worker
      /\ \A p \in {"response", "response_error"} : panel[p] # 0 => panel[p] \in Worker
  BY InvFacts DEF WorkersInv
<1>1. Len(work) < Len(plan)
  BY DEF Planned
<1>2. /\ Worker' = Worker \cup {n} /\ n \notin Worker
      /\ work' \in Seq(WorkRecord) /\ Len(work') = n
      /\ Len(work') <= Len(plan') /\ FailedLabel' = FailedLabel
      /\ \A w \in Worker : work'[w] = work[w]
      /\ work'[n].kind = kind /\ work'[n].end = "none"
      /\ \A w, kinds : IsLast(w, kinds) /\ kind \notin kinds => IsLast(w, kinds)'
      /\ \A m, kinds : m = Len(work) + 1 /\ kind \in kinds => IsLast(m, kinds)'
  BY <1>0, <1>1, StartedWorker
<1>3. /\ Worker = 1 .. Len(work) /\ Len(work) \in Nat /\ 0 \notin Worker /\ n # 0
      /\ \A s \in Slots : slots[s] # 0 => slots[s] \in Worker
  BY <1>0, WorkerFacts
<1>4. /\ SlotOf[kind] \in Slots
      /\ SlotOf[kind] \in Operations <=> kind \in Sends \cup Scripts
  BY SlotFacts
<1>5. \A w \in Worker : (Running(w))' <=> Running(w)
  BY <1>2 DEF Running
<1>6. SlotsInv'
  <2>0. Operations \subseteq Slots
    BY DEF Slots
  <2>1. ASSUME NEW s \in Slots, slots'[s] # 0
        PROVE  SlotOf[work'[slots'[s]].kind] = s
    <3>1. CASE s = SlotOf[kind]
      BY <1>2, <3>1
    <3>2. CASE s # SlotOf[kind]
      BY <1>0, <1>2, <1>3, <2>1, <3>2 DEF SlotsInv
    <3> QED  BY <3>1, <3>2
  <2>2. ASSUME NEW s \in Operations, NEW t \in Operations, slots'[s] # 0, slots'[t] # 0
        PROVE  s = t
    <3>1. CASE kind \in Sends \cup Scripts
      BY <2>0, <2>2, <3>1
    <3>2. CASE kind \notin Sends \cup Scripts
      BY <1>0, <1>4, <2>0, <2>2, <3>2 DEF SlotsInv
    <3> QED  BY <3>1, <3>2
  <2>3. ASSUME NEW s \in Operations, slots'[s] # 0
        PROVE  \E w : w = slots'[s] /\ IsLast(w, Sends \cup Scripts)'
    <3>1. CASE s = SlotOf[kind]
      BY <1>2, <1>4, <3>1
    <3>2. CASE s # SlotOf[kind]
      <4>1. slots'[s] = slots[s] /\ slots[s] # 0 /\ kind \notin Sends \cup Scripts
        BY <2>0, <2>3, <3>2
      <4>2. PICK w : w = slots[s]
        OBVIOUS
      <4>3. IsLast(w, Sends \cup Scripts)
        BY <1>0, <4>1, <4>2 DEF SlotsInv
      <4> QED  BY <1>2, <4>1, <4>2, <4>3
    <3> QED  BY <3>1, <3>2
  <2> QED  BY <2>1, <2>2, <2>3 DEF SlotsInv, IsLast
<1>7. ShownInv'
  <2>1. ASSUME NEW p \in SendPanels, panel'[p] # 0
        PROVE  \E w : w = panel'[p] /\ IsLast(w, Sends)'
    <3>1. panel'[p] = panel[p] /\ kind \notin Sends
      BY <2>1 DEF SendPanels, Panels
    <3>2. PICK w : w = panel[p]
      OBVIOUS
    <3>3. IsLast(w, Sends)
      BY <1>0, <2>1, <3>1, <3>2 DEF ShownInv
    <3> QED  BY <1>2, <3>1, <3>2, <3>3
  <2>2. ASSUME NEW p \in ScriptPanels, panel'[p] # 0
        PROVE  \E w : w = panel'[p] /\ IsLast(w, Sends \cup Scripts)'
    <3>1. panel'[p] = panel[p] /\ kind \notin Sends \cup Scripts
      BY <2>2 DEF ScriptPanels, Panels
    <3>2. PICK w : w = panel[p]
      OBVIOUS
    <3>3. IsLast(w, Sends \cup Scripts)
      BY <1>0, <2>2, <3>1, <3>2 DEF ShownInv
    <3> QED  BY <1>2, <3>1, <3>2, <3>3
  <2> QED  BY <2>1, <2>2 DEF ShownInv, IsLast
<1>8. AbandonedWorkIsCancelled'
  <2>1. SUFFICES ASSUME NEW w \in Worker', (Running(w))', w \notin {slots'[s] : s \in Slots}
                 PROVE  /\ work'[w].cancelled \/ w \in left_behind'
                        /\ work'[w].kind \notin {"run", "import"}
    BY DEF AbandonedWorkIsCancelled
  <2>2. w \in Worker /\ work'[w] = work[w] /\ Running(w)
    BY <1>2, <1>4, <1>5, <2>1
  <2>3. w \notin {slots[s] : s \in Slots}
    BY <1>3, <2>1, <2>2
  <2> QED  BY <1>0, <2>2, <2>3 DEF AbandonedWorkIsCancelled
<1>9. RecordedInv'
  <2>1. ASSUME NEW j \in DOMAIN recorded
        PROVE  /\ recorded[j] \in Worker' /\ recorded[j] # slots'["pending"]
               /\ work'[recorded[j]].end # "none" /\ work'[recorded[j]].end # "cancelled"
               /\ work'[recorded[j]].kind \in {"http", "grpc"}
    <3>1. /\ recorded[j] \in Worker /\ recorded[j] # slots["pending"]
          /\ ~Running(recorded[j]) /\ work[recorded[j]].end # "cancelled"
          /\ work[recorded[j]].kind \in {"http", "grpc"}
      BY <1>0 DEF RecordedInv
    <3>2. slots'["pending"] \in {n, slots["pending"]}
      BY DEF Slots, Operations
    <3> QED  BY <1>2, <3>1, <3>2 DEF Running
  <2>2. ASSUME NEW p \in {"response", "response_error"}, panel'[p] # 0,
               work'[panel'[p]].kind \in {"http", "grpc"}
        PROVE  \E j \in DOMAIN recorded : recorded[j] = panel'[p]
    <3>1. panel'[p] = panel[p]
      BY <2>2 DEF Panels
    <3>2. work'[panel[p]] = work[panel[p]]
      BY <1>0, <1>2, <2>2, <3>1
    <3> QED  BY <1>0, <2>2, <3>1, <3>2 DEF RecordedInv
  <2> QED  BY <1>0, <2>1, <2>2 DEF RecordedInv, Running
<1>10. WorkTyped'
  <2>1. \A w \in Worker' : work'[w].end = "cancelled" => work'[w].cancelled
    BY <1>0, <1>2 DEF WorkTyped
  <2> QED  BY <1>0, <1>2, <2>1 DEF WorkTyped
<1> QED  BY <1>6, <1>7, <1>8, <1>9, <1>10 DEF WorkersInv

LEMMA StartSteps ==
  ASSUME WorkersInv, plan' = plan, NEW kind \in WorkKinds,
         \/ StartOperation(kind) \/ StartDesktopScript(kind)
         \/ kind = "run" /\ StartCollectionRun
         \/ kind = "import" /\ StartImport
  PROVE  WorkersInv'
<1> DEFINE n == Len(work) + 1
<1>0. /\ WorkTyped /\ SlotsInv /\ RunPanelsInv
      /\ panel \in [Panels -> 0 .. FailedLabel] /\ slots \in [Slots -> 0 .. Len(work)]
      /\ run_label \in 0 .. FailedLabel
      /\ device_slot # 0 => device_slot = slots["pending"] /\ device_slot \in Worker
  BY InvFacts
<1>1. Planned(kind) /\ work' = NewWork(kind)
  BY DEF StartOperation, StartDesktopScript, StartCollectionRun, StartImport
<1>2. Len(work) < Len(plan)
  BY <1>1 DEF Planned
<1>3. Len(work) \in Nat /\ n \in 0 .. n /\ n \in 0 .. FailedLabel
  <2>1. Len(work) \in Nat /\ Len(plan) \in Nat /\ FailedLabel = Len(plan) + 1
    BY <1>0, WorkerFacts
  <2> QED  BY <1>2, <2>1
<1>4. 0 \in 0 .. FailedLabel /\ FailedLabel' = FailedLabel
  BY <1>0, <1>1, <1>2, ZeroLabel, StartedWorker
<1>5. /\ SlotOf[kind] \in Slots
      /\ SlotOf[kind] \in Operations <=> kind \in Sends \cup Scripts
      /\ SlotOf[kind] = "running" <=> kind = "run"
      /\ SlotOf[kind] = "importing" <=> kind = "import"
  BY SlotFacts
<1>6. /\ Operations \subseteq Slots /\ "pending" \in Operations
      /\ "running" \in Slots \ Operations /\ "importing" \in Slots \ Operations
  BY DEF Operations, Slots
<1>7. /\ SendPanels \cup ScriptPanels \subseteq ResponsePanels /\ ResponsePanels \subseteq Panels
      /\ ScriptPanels = {"script_report", "script_error"}
      /\ "summary" \in Panels \ ResponsePanels /\ "imported" \in Panels \ ResponsePanels
      /\ {"summary", "runner_error", "imported", "import_error"} \subseteq Panels \ ResponsePanels
  BY DEF SendPanels, ScriptPanels, ResponsePanels, Panels
<1>8. ASSUME NEW names, panel' = Show(names, 0)
      PROVE  /\ panel' \in [Panels -> 0 .. FailedLabel]
             /\ \A p \in Panels : panel'[p] = IF p \in names THEN 0 ELSE panel[p]
  BY <1>4, <1>8, ShowFacts
<1>9. /\ panel["summary"] # 0 => run_label \in {panel["summary"], FailedLabel}
      /\ slots["running"] # 0 => panel["summary"] = 0 /\ run_label = slots["running"]
      /\ panel["imported"] # 0 => slots["importing"] = 0
  BY <1>0 DEF RunPanelsInv
<1>10. CASE StartOperation(kind)
  <2>1. /\ kind \notin {"script", "tests", "run", "import"} /\ ~Busy
        /\ slots' = [NoSlots(Operations) EXCEPT ![SlotOf[kind]] = n]
        /\ device_slot' = IF kind = "http" THEN n ELSE 0
        /\ panel' = Show(ResponsePanels, 0)
        /\ UNCHANGED <<frame, run_label, recorded, left_behind>>
    BY <1>10 DEF StartOperation
  <2>2. kind \in Sends /\ \A s \in Operations : slots[s] = 0
    BY <2>1 DEF WorkKinds, Sends, Busy
  <2>3. /\ slots' \in [Slots -> 0 .. n] /\ slots'[SlotOf[kind]] = n
        /\ \A s \in Slots : s # SlotOf[kind] => slots'[s] = slots[s]
    <3>1. NoSlots(Operations) = slots
      BY <1>0, <1>6, <2>2 DEF NoSlots
    <3> QED  BY <1>0, <1>3, <1>5, <2>1, <3>1
  <2>4. device_slot' # 0 => device_slot' = slots'["pending"]
    BY <2>1, <2>3, SlotKinds
  <2>5. /\ panel' \in [Panels -> 0 .. FailedLabel]
        /\ \A p \in Panels : panel'[p] = IF p \in ResponsePanels THEN 0 ELSE panel[p]
    BY <1>8, <2>1
  <2>6. slots'["running"] = slots["running"] /\ slots'["importing"] = slots["importing"]
    BY <1>5, <1>6, <2>1, <2>3
  <2>7. RunPanelsInv'
    BY <1>4, <1>7, <1>9, <2>1, <2>5, <2>6 DEF RunPanelsInv
  <2>8. slots[SlotOf[kind]] = 0
    BY <1>5, <2>2
  <2>9. /\ \A p \in Panels : panel'[p] \in {0, panel[p]}
        /\ \A p \in SendPanels \cup ScriptPanels : panel'[p] = 0
    BY <1>7, <2>5
  <2>10. PICK m : m = n
    OBVIOUS
  <2> HIDE DEF n
  <2> QED  BY <1>0, <1>1, <2>1, <2>2, <2>3, <2>4, <2>5, <2>7, <2>8, <2>9, <2>10, StartStep DEF n
<1>11. CASE StartDesktopScript(kind)
  <2>1. /\ kind \in {"script", "tests"} /\ ~Busy
        /\ slots' = [slots EXCEPT !["script_pending"] = n]
        /\ panel' = Show({"script_report", "script_error"}, 0)
        /\ UNCHANGED <<device_slot, frame, run_label, recorded, left_behind>>
    BY <1>11 DEF StartDesktopScript
  <2>2. kind \in Scripts /\ kind \notin Sends /\ \A s \in Operations : slots[s] = 0
    BY <2>1 DEF Scripts, Sends, Busy
  <2>3. /\ slots' \in [Slots -> 0 .. n] /\ slots'[SlotOf[kind]] = n
        /\ \A s \in Slots : s # SlotOf[kind] => slots'[s] = slots[s]
    <3>1. SlotOf[kind] = "script_pending"
      BY <2>1, SlotKinds
    <3> QED  BY <1>0, <1>3, <1>5, <2>1, <3>1
  <2>4. device_slot' = 0
    BY <1>0, <1>6, <2>1, <2>2
  <2>5. /\ panel' \in [Panels -> 0 .. FailedLabel]
        /\ \A p \in Panels : panel'[p] = IF p \in ScriptPanels THEN 0 ELSE panel[p]
    BY <1>7, <1>8, <2>1
  <2>6. slots'["running"] = slots["running"] /\ slots'["importing"] = slots["importing"]
    BY <1>5, <1>6, <2>1, <2>3
  <2>7. RunPanelsInv'
    <3>1. panel'["summary"] = panel["summary"] /\ panel'["imported"] = panel["imported"]
      BY <1>7, <2>5
    <3> QED  BY <1>4, <1>9, <2>1, <2>6, <3>1 DEF RunPanelsInv
  <2>8. slots[SlotOf[kind]] = 0
    BY <1>5, <2>2
  <2>9. /\ \A p \in Panels : panel'[p] \in {0, panel[p]}
        /\ \A p \in ScriptPanels : panel'[p] = 0
    BY <1>7, <2>5
  <2>10. PICK m : m = n
    OBVIOUS
  <2> HIDE DEF n
  <2> QED  BY <1>0, <1>1, <2>1, <2>2, <2>3, <2>4, <2>5, <2>7, <2>8, <2>9, <2>10, StartStep DEF n
<1>12. CASE kind = "run" /\ StartCollectionRun
  <2>1. /\ slots["running"] = 0 /\ SlotOf[kind] = "running"
        /\ slots' = [slots EXCEPT !["running"] = n] /\ run_label' = n
        /\ panel' = Show({"summary", "runner_error"}, 0)
        /\ UNCHANGED <<device_slot, frame, recorded, left_behind>>
    BY <1>5, <1>12 DEF StartCollectionRun
  <2>2. kind \notin Sends /\ kind \notin Scripts
    BY <1>12 DEF Scripts, Sends
  <2>3. /\ slots' \in [Slots -> 0 .. n] /\ slots'[SlotOf[kind]] = n
        /\ \A s \in Slots : s # SlotOf[kind] => slots'[s] = slots[s]
    BY <1>0, <1>3, <1>5, <2>1
  <2>4. device_slot' # 0 => device_slot' = slots'["pending"]
    BY <1>0, <1>6, <2>1, <2>3
  <2>5. /\ panel' \in [Panels -> 0 .. FailedLabel]
        /\ \A p \in Panels : panel'[p] = IF p \in {"summary", "runner_error"} THEN 0 ELSE panel[p]
    BY <1>8, <2>1
  <2>6. slots'["running"] = n /\ slots'["importing"] = slots["importing"]
    BY <1>6, <2>1, <2>3
  <2>7. RunPanelsInv'
    <3>1. panel'["summary"] = 0 /\ panel'["imported"] = panel["imported"]
      BY <1>7, <2>5
    <3> QED  BY <1>4, <1>9, <2>1, <2>6, <3>1 DEF RunPanelsInv
  <2>9. \A p \in Panels : panel'[p] \in {0, panel[p]}
    BY <2>5
  <2>10. PICK m : m = n
    OBVIOUS
  <2>11. run_label' \in 0 .. FailedLabel
    BY <1>3, <2>1
  <2> HIDE DEF n
  <2> QED  BY <1>0, <1>1, <2>1, <2>2, <2>3, <2>4, <2>5, <2>7, <2>9, <2>10, <2>11, StartStep DEF n
<1>13. CASE kind = "import" /\ StartImport
  <2>1. /\ slots["importing"] = 0 /\ SlotOf[kind] = "importing"
        /\ slots' = [slots EXCEPT !["importing"] = n]
        /\ panel' = Show({"imported", "import_error"}, 0)
        /\ UNCHANGED <<device_slot, frame, run_label, recorded, left_behind>>
    BY <1>5, <1>13 DEF StartImport
  <2>2. kind \notin Sends /\ kind \notin Scripts
    BY <1>13 DEF Scripts, Sends
  <2>3. /\ slots' \in [Slots -> 0 .. n] /\ slots'[SlotOf[kind]] = n
        /\ \A s \in Slots : s # SlotOf[kind] => slots'[s] = slots[s]
    BY <1>0, <1>3, <1>5, <2>1
  <2>4. device_slot' # 0 => device_slot' = slots'["pending"]
    BY <1>0, <1>6, <2>1, <2>3
  <2>5. /\ panel' \in [Panels -> 0 .. FailedLabel]
        /\ \A p \in Panels : panel'[p] = IF p \in {"imported", "import_error"} THEN 0 ELSE panel[p]
    BY <1>8, <2>1
  <2>6. slots'["running"] = slots["running"]
    BY <1>6, <2>1, <2>3
  <2>7. RunPanelsInv'
    <3>1. panel'["summary"] = panel["summary"] /\ panel'["imported"] = 0
      BY <1>7, <2>5
    <3> QED  BY <1>4, <1>9, <2>1, <2>6, <3>1 DEF RunPanelsInv
  <2>9. \A p \in Panels : panel'[p] \in {0, panel[p]}
    BY <2>5
  <2>10. PICK m : m = n
    OBVIOUS
  <2> HIDE DEF n
  <2> QED  BY <1>0, <1>1, <2>1, <2>2, <2>3, <2>4, <2>5, <2>7, <2>9, <2>10, StartStep DEF n
<1> QED  BY <1>10, <1>11, <1>12, <1>13

LEMMA WorkersInvariant == DesktopWorkersSpec => []WorkersInv
<1>1. DesktopWorkersInit => WorkersInv
  <2> SUFFICES ASSUME DesktopWorkersInit PROVE WorkersInv
    OBVIOUS
  <2>1. /\ plan \in WorkPlans /\ work = <<>> /\ slots = [s \in Slots |-> 0] /\ device_slot = 0
        /\ frame = "commands" /\ panel = [p \in Panels |-> 0]
        /\ run_label = 0 /\ recorded = <<>> /\ left_behind = {}
    BY DEF DesktopWorkersInit
  <2>2. plan \in Seq(WorkKinds) /\ Len(plan) \in Nat
    BY <2>1, DesktopWorkersAssumption
  <2>3. work \in Seq(WorkRecord) /\ Len(work) = 0 /\ Worker = {}
    BY <2>1 DEF Worker
  <2>4. FailedLabel \in Nat
    BY <2>2 DEF FailedLabel, MaxWork
  <2>5. WorkTyped
    BY <2>1, <2>2, <2>3, <2>4 DEF WorkTyped
  <2>6. /\ \A s \in Slots : slots[s] = 0
        /\ Operations \subseteq Slots /\ "running" \in Slots /\ "importing" \in Slots
        /\ \A p \in Panels : panel[p] = 0
        /\ SendPanels \cup ScriptPanels \cup {"summary", "imported"} \subseteq Panels
        /\ {"response", "response_error"} \subseteq Panels
    BY <2>1 DEF Slots, Operations, Panels, SendPanels, ScriptPanels
  <2>7. SlotsInv
    BY <2>1, <2>6 DEF SlotsInv
  <2>8. ShownInv /\ RunPanelsInv
    BY <2>6 DEF ShownInv, RunPanelsInv
  <2>9. AbandonedWorkIsCancelled
    BY <2>3 DEF AbandonedWorkIsCancelled
  <2>10. RecordedInv
    <3>1. recorded \in Seq(Nat) /\ DOMAIN recorded = {}
      BY <2>1
    <3> QED  BY <2>6, <3>1 DEF RecordedInv
  <2> QED  BY <2>5, <2>7, <2>8, <2>9, <2>10 DEF WorkersInv
<1>2. WorkersInv /\ [DesktopWorkersNext]_deskVars => WorkersInv'
  <2> SUFFICES ASSUME WorkersInv, [DesktopWorkersNext]_deskVars PROVE WorkersInv'
    OBVIOUS
  <2>0. WorkTyped
    BY InvFacts
  <2>1. CASE UNCHANGED deskVars
    <3>1. UNCHANGED <<plan, work, slots, device_slot, frame, panel, run_label, recorded, left_behind>>
      BY <2>1 DEF deskVars
    <3> QED  BY <2>0, <3>1, SameWork, QuietStep DEF WorkTyped
  <2>2. CASE DesktopWorkersNext
    <3>1. plan' = plan
      BY <2>2 DEF DesktopWorkersNext
    <3>2. ASSUME NEW w \in Worker,
                 SendUpdate(w) \/ FinishWork(w) \/ StopCancelledWork(w) \/ LoseWorker(w)
          PROVE  WorkersInv'
      BY <3>1, <3>2, WorkerSteps
    <3>3. ASSUME NEW kind \in WorkKinds, StartOperation(kind) \/ StartDesktopScript(kind)
          PROVE  WorkersInv'
      BY <3>1, <3>3, StartSteps
    <3>4. CASE StartCollectionRun \/ StartImport
      <4>1. "run" \in WorkKinds /\ "import" \in WorkKinds
        BY DEF WorkKinds
      <4> QED  BY <3>1, <3>4, <4>1, StartSteps
    <3>5. CASE StartCollectionRunFails \/ StartImportFails
      BY <3>1, <3>5, FailedStarts
    <3>6. CASE CancelActive \/ CancelRun \/ NewFrame \/ NoOperation
      BY <3>1, <3>6, CancelSteps
    <3>7. CASE ClearWork \/ OpenImportedProject
      BY <3>1, <3>7, ClearSteps
    <3>8. CASE PollDeviceCode
      BY <3>1, <3>8, PollDeviceStep
    <3>9. CASE PollScript
      BY <3>1, <3>9, PollScriptStep
    <3>10. CASE PollHttp
      BY <3>1, <3>10, PollHttpStep
    <3>11. ASSUME NEW slot \in {"sse_pending", "websocket_pending"}, PollStream(slot)
           PROVE  WorkersInv'
      BY <3>1, <3>11, PollStreamStep
    <3>12. CASE PollWorkflows
      BY <3>1, <3>12, PollWorkflowsStep
    <3> QED
      BY <2>2, <3>2, <3>3, <3>4, <3>5, <3>6, <3>7, <3>8, <3>9, <3>10, <3>11, <3>12
      DEF DesktopWorkersNext
  <2> QED  BY <2>1, <2>2
<1> QED  BY <1>1, <1>2, PTL DEF DesktopWorkersSpec

(* There is at most one last worker of some kinds.                              *)
LEMMA LastIsUnique ==
  ASSUME WorkTyped, NEW w, NEW kinds, IsLast(w, kinds)
  PROVE  LastOf(kinds) = w
<1> DEFINE of == {v \in Worker : work[v].kind \in kinds}
<1>1. w \in of /\ \A v \in of : v <= w
  BY DEF IsLast
<1>2. of \subseteq Nat
  BY WorkerFacts
<1>3. LastOf(kinds) = CHOOSE x \in of : \A v \in of : v <= x
  BY <1>1 DEF LastOf
<1> HIDE DEF of
<1>4. PICK y : y = (CHOOSE x \in of : \A v \in of : v <= x)
  OBVIOUS
<1>5. y \in of /\ \A v \in of : v <= y
  BY <1>1, <1>4
<1>6. y = w
  BY <1>1, <1>2, <1>5
<1> QED  BY <1>3, <1>4, <1>6

(* Whatever order the workers of the desktop answer in: none goes on behind the     *)
(* user's back, the panels show what belongs to the operation started last, and the   *)
(* history has the sends whose end was seen, once and in order.                   *)
THEOREM WorkStaysAccountedFor == DesktopWorkersSpec => []WorkIsAccountedFor
<1>1. WorkersInv => WorkIsAccountedFor
  <2> SUFFICES ASSUME WorkersInv PROVE WorkIsAccountedFor
    OBVIOUS
  <2>1. WorkTyped /\ SlotsInv /\ ShownInv /\ RunPanelsInv /\ AbandonedWorkIsCancelled /\ RecordedInv
    BY DEF WorkersInv
  <2>2. \A p \in SendPanels : panel[p] \in {0, LastOf(Sends)}
    BY <2>1, LastIsUnique DEF ShownInv
  <2>3. \A p \in ScriptPanels : panel[p] \in {0, LastOf(Sends \cup {"script", "tests"})}
    BY <2>1, LastIsUnique DEF ShownInv, Scripts
  <2>4. PanelsShowLatestWork
    BY <2>1, <2>2, <2>3 DEF PanelsShowLatestWork, SendPanels, ScriptPanels, RunPanelsInv
  <2>5. HistoryHasSeenSends
    <3>1. ASSUME NEW w \in {panel["response"], panel["response_error"]} \cap Worker,
                 work[w].kind \in {"http", "grpc"}
          PROVE  \E i \in DOMAIN recorded : recorded[i] = w
      <4>1. w # 0
        BY <2>1, WorkerFacts
      <4> QED  BY <2>1, <3>1, <4>1 DEF RecordedInv
    <3> QED  BY <2>1, <3>1 DEF HistoryHasSeenSends, RecordedInv
  <2> QED  BY <2>1, <2>4, <2>5 DEF WorkIsAccountedFor, SlotsInv
<1> QED  BY <1>1, WorkersInvariant, PTL

(* The window, its channels and its panels keep their types in every state.          *)
THEOREM DesktopWorkersTypeCorrect == DesktopWorkersSpec => []DesktopWorkersTypeOK
<1>1. WorkersInv => DesktopWorkersTypeOK
  <2> SUFFICES ASSUME WorkersInv PROVE DesktopWorkersTypeOK
    OBVIOUS
  <2>1. WorkTyped /\ RecordedInv /\ (device_slot # 0 => device_slot \in Worker)
    BY InvFacts
  <2>2. /\ Worker = 1 .. Len(work) /\ Len(work) \in Nat /\ MaxWork = Len(plan)
        /\ Len(plan) \in Nat /\ Len(work) <= Len(plan)
    BY <2>1, WorkerFacts DEF WorkTyped
  <2>3. slots \in [Slots -> 0 .. MaxWork]
    BY <2>1, <2>2 DEF WorkTyped
  <2>4. device_slot \in 0 .. MaxWork
    BY <2>1, <2>2
  <2>5. ASSUME NEW w \in Worker
        PROVE  work[w] \in [kind : WorkKinds, updates : 0 .. 1, cancelled : BOOLEAN,
                  end : {"none", "cancelled", "lost", "no schema"} \cup Answers("http")]
    <3>1. work[w] \in WorkRecord
      BY <2>1, WorkerFacts
    <3>2. Ends = {"none", "cancelled", "lost", "no schema"} \cup Answers("http")
      BY DEF Ends, Answers
    <3> QED  BY <3>1, <3>2 DEF WorkRecord
  <2> QED  BY <2>1, <2>2, <2>3, <2>4, <2>5 DEF DesktopWorkersTypeOK, WorkTyped, RecordedInv
<1> QED  BY <1>1, WorkersInvariant, PTL

(***************************************************************************)
(* Components together                                                     *)
(***************************************************************************)
(* Every token a request carries is its own and valid: one from the cache is still  *)
(* accepted, and one of a browser flow was given to that flow.                     *)
THEOREM TokensStayOwnAndValid == OAuthSpec /\ PkceBrowserSpec => []TokensAreOwnAndValid
<1>1. CachedTokensAreValid /\ FlowUsesOwnCode => TokensAreOwnAndValid
  BY DEF TokensAreOwnAndValid
<1> QED  BY <1>1, OAuthCachedTokens, PkceUsesOwnCode, PTL

(* Work given to another thread or process is accounted for: shown or cancelled at   *)
(* the desktop, reaped where a child ran a script, and in the output once.          *)
THEOREM WorkersStayAccountedFor ==
  DesktopWorkersSpec /\ ScriptProcessSpec /\ HarnessSpec => []WorkersAreAccountedFor
<1>1. WorkIsAccountedFor /\ ReturnedScriptIsReaped /\ ScriptOutputIsExact
      => WorkersAreAccountedFor
  BY DEF WorkersAreAccountedFor
<1> QED  BY <1>1, WorkStaysAccountedFor, ScriptIsReaped, HarnessOutputIsExact, PTL
=============================================================================
