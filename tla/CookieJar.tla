----------------------------- MODULE CookieJar -----------------------------
(***************************************************************************)
(* The cookie jar of a workspace, .postly/cookies.json (PersistentCookieJar  *)
(* of postly-core/src/http.rs).  Each engine loads it once, keeps its own     *)
(* copy behind a lock, and writes the whole copy back after every change:     *)
(* the desktop makes an engine for every send, an older one may still wait    *)
(* for its response, and a CLI process has its own.                          *)
(*                                                                         *)
(* They all write the same temporary name and rename it, so what matters is   *)
(* which file a name refers to: the steps are the system calls.  fs::write    *)
(* truncates and then writes from the start, so a text that another engine    *)
(* wrote in between keeps its tail when it was the longer one.               *)
(***************************************************************************)
EXTENDS Naturals, Sequences, FiniteSets

CONSTANTS
  Engines,          \* the engines that are alive at some time
  Cookies,          \* the cookies servers set
  MaxCookies,       \* how many fit in MAX_COOKIE_JAR_BYTES
  MaxJarWrites,     \* bound: changes of a jar in a behaviour
  MaxJarFailures    \* bound: failed system calls and crashes in a behaviour

ASSUME CookieJarAssumption ==
  MaxCookies \in Nat /\ MaxJarWrites \in Nat /\ MaxJarFailures \in Nat

VARIABLES
  jar_contents,     \* what each file holds that ever had one of the names
  temporary_name,   \* the file that is cookies.json.tmp, 0 if none
  jar_name,         \* the file that is cookies.json, 0 if none
  engine,           \* each engine: the cookies it holds and its persist
  persists_raced,   \* history: two engines persisted at the same time
  jar_writes,       \* history: changes begun
  jar_failures      \* history: failures and crashes

jarFiles == <<jar_contents, temporary_name, jar_name>>
jarVars == <<jarFiles, engine, persists_raced, jar_writes, jar_failures>>

Torn == [whole |-> FALSE, cookies |-> {}]
Whole(cookies) == [whole |-> TRUE, cookies |-> cookies]

(* `unsaved`: its last persist failed; `foreign`: another engine has renamed   *)
(* its file onto the jar since this one was loaded.                          *)
NoEngine ==
  [phase |-> "none", cookies |-> {}, fd |-> 0, unsaved |-> FALSE, foreign |-> FALSE]

CookieJarInit ==
  /\ jar_contents = <<>> /\ temporary_name = 0 /\ jar_name = 0
  /\ engine = [e \in Engines |-> NoEngine]
  /\ persists_raced = FALSE /\ jar_writes = 0 /\ jar_failures = 0

Persisting(e) == engine[e].phase \in {"persist", "opened", "written", "private"}

(* PersistentCookieJar::load: no file is an empty jar, a file that is torn or  *)
(* too long is an error and there is no engine.                               *)
LoadEngine(e) ==
  /\ engine[e].phase = "none"
  /\ jar_name # 0 => /\ jar_contents[jar_name].whole
                     /\ Cardinality(jar_contents[jar_name].cookies) <= MaxCookies
  /\ engine' = [engine EXCEPT ![e] =
       [NoEngine EXCEPT !.phase = "idle",
          !.cookies = IF jar_name = 0 THEN {} ELSE jar_contents[jar_name].cookies]]
  /\ UNCHANGED <<jarFiles, persists_raced, jar_writes, jar_failures>>

(* The engine is dropped, or its process dies inside a persist.               *)
DropEngine(e) ==
  /\ engine[e].phase # "none"
  /\ IF Persisting(e)
     THEN jar_failures < MaxJarFailures /\ jar_failures' = jar_failures + 1
     ELSE UNCHANGED jar_failures
  /\ engine' = [engine EXCEPT ![e] = NoEngine]
  /\ UNCHANGED <<jarFiles, persists_raced, jar_writes>>

(* set_cookies of a response, add_cookie and clear_cookies: the copy changes   *)
(* before anything is written, and a jar that has grown too long is refused.   *)
Changed(cookies) ==
  {cookies \cup {c} : c \in Cookies} \cup {cookies \ {c} : c \in Cookies} \cup {{}}
FitsAlways(cookies) == TRUE
JarFits(cookies) == Cardinality(cookies) <= MaxCookies
ChangeCookies(e) ==
  /\ engine[e].phase = "idle" /\ jar_writes < MaxJarWrites
  /\ jar_writes' = jar_writes + 1
  /\ \E cookies \in Changed(engine[e].cookies) :
       engine' = [engine EXCEPT ![e].cookies = cookies,
                                ![e].phase = IF JarFits(cookies) THEN "persist" ELSE "idle",
                                ![e].unsaved = ~JarFits(cookies)]
  /\ UNCHANGED <<jarFiles, persists_raced, jar_failures>>

(* fs::write: open with create and truncate, ...                              *)
OpenJarItself(e) ==
  /\ jar_contents' = IF jar_name = 0 THEN Append(jar_contents, Torn)
                     ELSE [jar_contents EXCEPT ![jar_name] = Torn]
  /\ jar_name' = IF jar_name = 0 THEN Len(jar_contents) + 1 ELSE jar_name
  /\ engine' = [engine EXCEPT ![e].phase = "opened", ![e].fd = jar_name']
  /\ UNCHANGED temporary_name
OpenTemporary(e) ==
  /\ jar_contents' = IF temporary_name = 0 THEN Append(jar_contents, Torn)
                     ELSE [jar_contents EXCEPT ![temporary_name] = Torn]
  /\ temporary_name' = IF temporary_name = 0 THEN Len(jar_contents) + 1
                       ELSE temporary_name
  /\ engine' = [engine EXCEPT ![e].phase = "opened", ![e].fd = temporary_name']
  /\ UNCHANGED jar_name
OpenForPersist(e) ==
  /\ engine[e].phase = "persist"
  /\ OpenTemporary(e)
  /\ persists_raced' =
       (persists_raced \/ \E d \in Engines \ {e} : engine[d].phase \in {"opened", "written", "private"})
  /\ UNCHANGED <<jar_writes, jar_failures>>

(* ... and write_all.                                                        *)
WriteJar(e) ==
  LET old == jar_contents[engine[e].fd] IN
  /\ engine[e].phase = "opened"
  /\ jar_contents' = [jar_contents EXCEPT ![engine[e].fd] =
       IF old.whole /\ Cardinality(old.cookies) > Cardinality(engine[e].cookies)
       THEN Torn ELSE Whole(engine[e].cookies)]
  /\ engine' = [engine EXCEPT ![e].phase = "written", ![e].fd = 0]
  /\ UNCHANGED <<temporary_name, jar_name, persists_raced, jar_writes, jar_failures>>

(* metadata and set_permissions of whatever has the temporary name now.       *)
RestrictPermissions(e) ==
  /\ engine[e].phase = "written" /\ temporary_name # 0
  /\ engine' = [engine EXCEPT ![e].phase = "private"]
  /\ UNCHANGED <<jarFiles, persists_raced, jar_writes, jar_failures>>

RenameJar(e) ==
  /\ engine[e].phase = "private" /\ temporary_name # 0
  /\ jar_name' = temporary_name
  /\ temporary_name' = 0
  /\ engine' = [d \in Engines |->
       IF d = e THEN [engine[e] EXCEPT !.phase = "idle", !.unsaved = FALSE,
                                       !.foreign = FALSE]
       ELSE IF engine[d].phase = "none" THEN NoEngine
       ELSE [engine[d] EXCEPT !.foreign = TRUE]]
  /\ UNCHANGED <<jar_contents, persists_raced, jar_writes, jar_failures>>

(* A step fails, or there is no temporary file any more: the copy keeps the    *)
(* change, and only a warning (set_cookies) or an error (the others) says so. *)
ForgetFailure(e) == engine' = [engine EXCEPT ![e].phase = "idle", ![e].fd = 0]
ReportFailure(e) ==
  engine' = [engine EXCEPT ![e].phase = "idle", ![e].fd = 0, ![e].unsaved = TRUE]
PersistFails(e) ==
  /\ Persisting(e)
  /\ \/ jar_failures < MaxJarFailures /\ jar_failures' = jar_failures + 1
     \/ /\ engine[e].phase \in {"written", "private"} /\ temporary_name = 0
        /\ UNCHANGED jar_failures
  /\ ReportFailure(e)
  /\ UNCHANGED <<jarFiles, persists_raced, jar_writes>>

CookieJarNext ==
  \E e \in Engines :
    \/ LoadEngine(e) \/ DropEngine(e) \/ ChangeCookies(e)
    \/ OpenForPersist(e) \/ WriteJar(e) \/ RestrictPermissions(e)
    \/ RenameJar(e) \/ PersistFails(e)

CookieJarSpec == CookieJarInit /\ [][CookieJarNext]_jarVars

-----------------------------------------------------------------------------
CookieJarTypeOK ==
  /\ jar_contents \in Seq([whole : BOOLEAN, cookies : SUBSET Cookies])
  /\ {temporary_name, jar_name} \subseteq 0 .. Len(jar_contents)
  /\ engine \in [Engines ->
       [phase : {"none", "idle", "persist", "opened", "written", "private"},
        cookies : SUBSET Cookies, fd : 0 .. Len(jar_contents),
        unsaved : BOOLEAN, foreign : BOOLEAN]]
  /\ persists_raced \in BOOLEAN
  /\ jar_writes \in 0 .. MaxJarWrites /\ jar_failures \in 0 .. MaxJarFailures

JarCookies == IF jar_name = 0 THEN {} ELSE jar_contents[jar_name].cookies
JarLoads ==
  jar_name # 0 => jar_contents[jar_name].whole /\ Cardinality(JarCookies) <= MaxCookies

(* As long as no two engines persist at the same moment, the jar's file is     *)
(* whole and within its bound whatever fails or dies (an engine can always be *)
(* made), and an engine that is idle, whose last persist did not fail and      *)
(* behind whose back no other one has persisted, has in memory what the file   *)
(* holds: what it cleared or a server deleted does not come back.             *)
JarFollowsEngine ==
  ~persists_raced =>
    /\ JarLoads
    /\ \A e \in Engines :
         /\ engine[e].phase = "idle" /\ ~engine[e].unsaved /\ ~engine[e].foreign
         => engine[e].cookies = JarCookies
=============================================================================
