-------------------------- MODULE StoredDataProofs --------------------------
(***************************************************************************)
(* Proofs about what Postly stores.  Each part has the inductive invariant   *)
(* of its component, what a step keeps of it, and the theorems that follow    *)
(* for every value of the constants:                                        *)
(*   - WorkspaceFiles: a request has one file as long as no two operations     *)
(*     overlap, and the files implement RequestStore;                        *)
(*   - Environments: secrets resolve, and failed saves and migrations lose    *)
(*     no value;                                                            *)
(*   - CookieJar: cookies.json is what the engine that wrote it last holds;   *)
(* and what Components says of the files and the jar together.                *)
(***************************************************************************)
EXTENDS Components, FiniteSetTheorems, TLAPS

(***************************************************************************)
(* The files of a collection                                               *)
(***************************************************************************)
Writing(p) == writing[p].phase # "idle"

Paths == {NoPath} \cup {PathCandidate(r, i) : r \in Requests, i \in Nat \ {0}}
OpenRecord == [path : Paths, request : Requests \cup {NoRequest}]
WriteRecord ==
  [phase : {"idle", "choose", "write", "remove"}, old : Paths,
   request : Requests \cup {NoRequest}, tries : Nat]

(* Files hold requests, each under a candidate of its name; an operation and   *)
(* an open path have their request.                                          *)
FilesTyped ==
  /\ request_files \in [DOMAIN request_files -> Requests]
  /\ DOMAIN request_files \subseteq Paths \ {NoPath}
  /\ \A path \in DOMAIN request_files : path[1] = request_files[path].name
ProcessesTyped ==
  /\ opened \in [FileProcs -> OpenRecord]
  /\ writing \in [FileProcs -> WriteRecord]
  /\ \A p \in FileProcs : Writing(p) => writing[p].request \in Requests /\ writing[p].tries # 0
  /\ \A p \in FileProcs : opened[p].path # NoPath => opened[p].request \in Requests
CountsTyped ==
  /\ deleted \subseteq RequestIds /\ raced \in BOOLEAN
  /\ file_saves \in 0 .. MaxFileSaves /\ file_failures \in Nat
TypeInv == FilesTyped /\ ProcessesTyped /\ CountsTyped

(* As long as nothing raced, one process at most is in an operation; the path   *)
(* it started from still holds its request; the path it is about to write is     *)
(* free or its own; and while the old file is to be removed, both hold it.      *)
OneBusy == \A p, q \in FileProcs : Writing(p) /\ Writing(q) => p = q
OldIsOwn == \A p \in FileProcs :
  Writing(p) /\ writing[p].old # NoPath =>
    /\ Exists(writing[p].old)
    /\ request_files[writing[p].old].id = writing[p].request.id
TargetIsFree == \A p \in FileProcs : writing[p].phase = "write" => PathIsFree(p)
BothWritten == \A p \in FileProcs : writing[p].phase = "remove" =>
  /\ writing[p].old \notin {NoPath, Target(p)}
  /\ Exists(Target(p)) /\ request_files[Target(p)] = writing[p].request
AloneInv == ~raced => OneBusy /\ OldIsOwn /\ TargetIsFree /\ BothWritten

(* With no failure either, two files hold versions of one request only between  *)
(* the two halves of a relocation, and a new request's id is in no file.        *)
TwinsAreSaved == \A path, q \in DOMAIN request_files :
  path # q /\ request_files[path].id = request_files[q].id =>
    \E p \in FileProcs :
      writing[p].phase = "remove" /\ {path, q} = {writing[p].old, Target(p)}
NewIsNew == \A p \in FileProcs :
  Writing(p) /\ writing[p].old = NoPath =>
    \A path \in DOMAIN request_files : request_files[path].id # writing[p].request.id
TwinsInv == ~raced /\ file_failures = 0 => TwinsAreSaved /\ NewIsNew

FilesInv == TypeInv /\ AloneInv /\ TwinsInv

(***************************************************************************)
(* Paths and files                                                         *)
(***************************************************************************)
(* A candidate begins with the name, whatever was tried before.              *)
LEMMA CandidateNames ==
  ASSUME NEW r \in Requests, NEW i \in Nat \ {0}
  PROVE  /\ PathCandidate(r, i) \in Paths
         /\ PathCandidate(r, i)[1] = r.name
         /\ PathCandidate(r, i) # NoPath
<1>1. PathCandidate(r, i) \in Paths
  BY DEF Paths
<1>2. CASE i = 1
  BY <1>1, <1>2 DEF PathCandidate, NoPath
<1>3. CASE i = 2
  BY <1>1, <1>3 DEF PathCandidate, NoPath
<1>4. CASE i > 2
  BY <1>1, <1>4 DEF PathCandidate, NoPath
<1> QED  BY <1>2, <1>3, <1>4

(* What the two changes of the files do to each path.                        *)
LEMMA WriteFacts ==
  ASSUME NEW path, NEW request, NEW new,
         new = [q \in DOMAIN request_files \cup {path} |->
                  IF q = path THEN request ELSE request_files[q]]
  PROVE  /\ new \in [DOMAIN new -> {new[q] : q \in DOMAIN new}]
         /\ DOMAIN new = DOMAIN request_files \cup {path}
         /\ new[path] = request
         /\ \A q \in DOMAIN request_files : q # path => new[q] = request_files[q]
  OBVIOUS
LEMMA WithoutFacts ==
  ASSUME NEW path
  PROVE  /\ Without(path) \in [DOMAIN request_files \ {path} ->
                                 {Without(path)[q] : q \in DOMAIN Without(path)}]
         /\ DOMAIN Without(path) = DOMAIN request_files \ {path}
         /\ \A q \in DOMAIN request_files \ {path} : Without(path)[q] = request_files[q]
  BY DEF Without, Restrict

(***************************************************************************)
(* Types                                                                   *)
(***************************************************************************)
LEMMA InitTypeInv == WorkspaceFilesInit => TypeInv
<1> SUFFICES ASSUME WorkspaceFilesInit PROVE TypeInv
  OBVIOUS
<1>1. FilesTyped
  BY DEF WorkspaceFilesInit, FilesTyped
<1>2. NoPath \in Paths
  BY DEF Paths
<1>3. ProcessesTyped
  BY <1>2 DEF WorkspaceFilesInit, ProcessesTyped, OpenRecord, WriteRecord, NothingOpen,
     NotWriting, Writing
<1>4. CountsTyped
  <2>1. MaxFileSaves \in Nat
    BY WorkspaceFilesAssumption, Zenon
  <2>2. file_saves \in 0 .. MaxFileSaves /\ file_failures \in Nat
    BY <2>1 DEF WorkspaceFilesInit
  <2> QED  BY <2>2, Zenon DEF WorkspaceFilesInit, CountsTyped
<1> QED  BY <1>1, <1>3, <1>4 DEF TypeInv

(* Files written or removed by a step stay typed.                             *)
LEMMA TargetType ==
  ASSUME TypeInv, NEW p \in FileProcs, Writing(p)
  PROVE  /\ writing[p].request \in Requests
         /\ Target(p) \in Paths /\ Target(p) # NoPath
         /\ Target(p)[1] = writing[p].request.name
         /\ writing[p] \in WriteRecord
<1>1. writing[p].request \in Requests /\ writing[p].tries \in Nat \ {0} /\ writing[p] \in WriteRecord
  BY DEF TypeInv, ProcessesTyped, WriteRecord
<1> QED  BY <1>1, CandidateNames DEF Target

LEMMA WrittenTyped ==
  ASSUME FilesTyped, NEW path \in Paths \ {NoPath}, NEW request \in Requests,
         path[1] = request.name,
         request_files' = [q \in DOMAIN request_files \cup {path} |->
                             IF q = path THEN request ELSE request_files[q]]
  PROVE  FilesTyped'
<1>1. ASSUME NEW q \in DOMAIN request_files'
      PROVE  /\ request_files'[q] \in Requests /\ q[1] = request_files'[q].name
             /\ q \in Paths \ {NoPath}
  <2>1. CASE q = path
    BY <2>1
  <2>2. CASE q # path
    BY <2>2 DEF FilesTyped
  <2> QED  BY <2>1, <2>2
<1>2. request_files' \in [DOMAIN request_files' -> Requests]
  BY <1>1
<1> QED  BY <1>1, <1>2 DEF FilesTyped

LEMMA RemovedTyped ==
  ASSUME FilesTyped, NEW path, request_files' = Without(path)
  PROVE  FilesTyped'
<1>1. DOMAIN request_files' = DOMAIN request_files \ {path}
  BY WithoutFacts
<1>2. request_files' \in [DOMAIN request_files' -> {request_files'[q] : q \in DOMAIN request_files'}]
  BY WithoutFacts, <1>1
<1>3. ASSUME NEW q \in DOMAIN request_files'
      PROVE  /\ request_files'[q] \in Requests /\ q[1] = request_files'[q].name
             /\ q \in Paths \ {NoPath}
  BY WithoutFacts, <1>1 DEF FilesTyped
<1> QED  BY <1>2, <1>3 DEF FilesTyped

(* Every change of the files is a write of a busy process's target, or a       *)
(* removal of one path, or none.                                             *)
LEMMA StepFilesTyped ==
  ASSUME TypeInv, [WorkspaceFilesNext]_fileVars
  PROVE  FilesTyped'
<1>1. CASE \E p \in FileProcs : WriteRequestFile(p)
  <2>1. PICK p \in FileProcs : WriteRequestFile(p)
    BY <1>1
  <2>2. Writing(p)
    BY <2>1 DEF WriteRequestFile, Writing
  <2> QED  BY <2>1, <2>2, TargetType, WrittenTyped DEF WriteRequestFile, TypeInv
<1>2. CASE \E path : request_files' = Without(path)
  BY <1>2, RemovedTyped DEF TypeInv
<1>3. CASE request_files' = request_files
  BY <1>3 DEF TypeInv, FilesTyped
<1> QED
  BY <1>1, <1>2, <1>3
     DEF WorkspaceFilesNext, SaveNewRequest, RelocateRequest, BeginWriting, OpenRequest, TryPath,
         RemoveOldFile, OperationFails, RollBackNew, ProcessDies, DeleteOpenRequest, fileVars

(* A process that enters or goes on with an operation keeps its record typed.  *)
LEMMA StepProcessesTyped ==
  ASSUME TypeInv, [WorkspaceFilesNext]_fileVars
  PROVE  ProcessesTyped'
<1> DEFINE WritingOK(w) == /\ w \in WriteRecord
                           /\ w.phase # "idle" => w.request \in Requests /\ w.tries # 0
           OpenOK(o) == /\ o \in OpenRecord
                        /\ o.path # NoPath => o.request \in Requests
<1>a. NoPath \in Paths /\ WritingOK(NotWriting) /\ OpenOK(NothingOpen)
  BY DEF Paths, WriteRecord, OpenRecord, NotWriting, NothingOpen
<1>b. \A p \in FileProcs : WritingOK(writing[p]) /\ OpenOK(opened[p])
  BY DEF TypeInv, ProcessesTyped, Writing
<1>c. writing \in [FileProcs -> WriteRecord] /\ opened \in [FileProcs -> OpenRecord]
  BY DEF TypeInv, ProcessesTyped
<1> HIDE DEF WritingOK, OpenOK
<1>d. ASSUME \A p \in FileProcs : WritingOK(writing'[p]) /\ OpenOK(opened'[p]),
             writing' \in [FileProcs -> {writing'[p] : p \in FileProcs}],
             opened' \in [FileProcs -> {opened'[p] : p \in FileProcs}]
      PROVE  ProcessesTyped'
  BY <1>d DEF WritingOK, OpenOK, ProcessesTyped, Writing
<1>e. ASSUME NEW p \in FileProcs, NEW w, WritingOK(w),
             writing' = [writing EXCEPT ![p] = w], UNCHANGED opened
      PROVE  ProcessesTyped'
  BY <1>b, <1>c, <1>d, <1>e
<1>f. ASSUME NEW p \in FileProcs, NEW w, WritingOK(w), NEW o, OpenOK(o),
             writing' = [writing EXCEPT ![p] = w], opened' = [opened EXCEPT ![p] = o]
      PROVE  ProcessesTyped'
  BY <1>b, <1>c, <1>d, <1>f
<1>g. ASSUME NEW p \in FileProcs, NEW o, OpenOK(o),
             opened' = [opened EXCEPT ![p] = o], UNCHANGED writing
      PROVE  ProcessesTyped'
  BY <1>b, <1>c, <1>d, <1>g
<1>h. file_saves < MaxFileSaves => file_saves \in 0 .. MaxFileSaves
  BY DEF TypeInv, CountsTyped
<1>i. ASSUME NEW p \in FileProcs, NEW old \in Paths, NEW request \in Requests,
             BeginWriting(p, old, request)
      PROVE  ProcessesTyped'
  <2> DEFINE w == [phase |-> "choose", old |-> old, request |-> request, tries |-> 1]
  <2>1. WritingOK(w)
    BY DEF WritingOK, WriteRecord
  <2>2. writing' = [writing EXCEPT ![p] = w] /\ UNCHANGED opened
    BY <1>i DEF BeginWriting
  <2> HIDE DEF w
  <2> QED  BY <1>e, <2>1, <2>2
<1>1. ASSUME NEW p \in FileProcs, SaveNewRequest(p) PROVE ProcessesTyped'
  <2>1. PICK id \in RequestIds, n \in RequestNames :
          BeginWriting(p, NoPath, [id |-> id, name |-> n, version |-> file_saves])
    BY <1>1 DEF SaveNewRequest
  <2>2. [id |-> id, name |-> n, version |-> file_saves] \in Requests
    BY <2>1, <1>h DEF Requests, BeginWriting
  <2> QED  BY <2>1, <2>2, <1>a, <1>i
<1>2. ASSUME NEW p \in FileProcs, RelocateRequest(p) PROVE ProcessesTyped'
  <2> DEFINE edited(n) == [opened[p].request EXCEPT !.name = n, !.version = file_saves]
  <2>1. PICK n \in RequestNames : BeginWriting(p, opened[p].path, edited(n))
    BY <1>2 DEF RelocateRequest
  <2>2. opened[p].request \in Requests /\ opened[p].path \in Paths
    BY <1>2, <1>b DEF RelocateRequest, OpenOK, OpenRecord
  <2>3. edited(n) \in Requests
    BY <2>1, <2>2, <1>h DEF Requests, BeginWriting
  <2> HIDE DEF edited
  <2> QED  BY <2>1, <2>2, <2>3, <1>i
<1>3. ASSUME NEW p \in FileProcs, OpenRequest(p) PROVE ProcessesTyped'
  <2>1. PICK path \in DOMAIN request_files :
          opened' = [opened EXCEPT ![p] = [path |-> path, request |-> request_files[path]]]
    BY <1>3 DEF OpenRequest
  <2>2. OpenOK([path |-> path, request |-> request_files[path]])
    BY DEF OpenOK, OpenRecord, TypeInv, FilesTyped
  <2> QED  BY <2>1, <2>2, <1>g, <1>3 DEF OpenRequest
<1>4. ASSUME NEW p \in FileProcs, TryPath(p) PROVE ProcessesTyped'
  <2> DEFINE w == IF PathIsFree(p) THEN [writing[p] EXCEPT !.phase = "write"]
                  ELSE [writing[p] EXCEPT !.tries = writing[p].tries + 1]
  <2>1. writing' = [writing EXCEPT ![p] = w]
    <3>1. CASE PathIsFree(p)
      BY <1>4, <3>1 DEF TryPath
    <3>2. CASE ~PathIsFree(p)
      BY <1>4, <3>2, <1>c DEF TryPath, WriteRecord
    <3> QED  BY <3>1, <3>2
  <2>2. writing[p] \in WriteRecord /\ writing[p].phase = "choose"
        /\ writing[p].request \in Requests /\ writing[p].tries \in Nat \ {0}
    BY <1>4, <1>b DEF WritingOK, TryPath, WriteRecord
  <2>3. WritingOK(w)
    BY <2>2 DEF WritingOK, WriteRecord
  <2> HIDE DEF w
  <2> QED  BY <2>1, <2>3, <1>e, <1>4 DEF TryPath
<1>j. ASSUME NEW p \in FileProcs, Writing(p), Finish(p) PROVE ProcessesTyped'
  <2>1. OpenOK([path |-> Target(p), request |-> writing[p].request])
    BY <1>j, TargetType DEF OpenOK, OpenRecord
  <2> QED  BY <1>a, <1>f, <1>j, <2>1 DEF Finish
<1>5. ASSUME NEW p \in FileProcs, WriteRequestFile(p) PROVE ProcessesTyped'
  <2>1. Writing(p) /\ writing[p].phase = "write"
    BY <1>5 DEF WriteRequestFile, Writing
  <2>2. CASE Stays(p)
    BY <1>5, <1>j, <2>1, <2>2 DEF WriteRequestFile
  <2>3. CASE ~Stays(p)
    <3>1. PICK w : /\ w = [writing[p] EXCEPT !.phase = "remove"]
                   /\ writing' = [writing EXCEPT ![p] = w]
      BY <1>5, <1>c, <2>3 DEF WriteRequestFile
    <3>2. WritingOK(w)
      BY <1>b, <2>1, <3>1 DEF WritingOK, WriteRecord
    <3> QED  BY <1>5, <1>e, <2>3, <3>1, <3>2 DEF WriteRequestFile
  <2> QED  BY <2>2, <2>3
<1>6. ASSUME NEW p \in FileProcs, RemoveOldFile(p) PROVE ProcessesTyped'
  BY <1>6, <1>j DEF RemoveOldFile, Writing
<1>7. ASSUME NEW p \in FileProcs, OperationFails(p) PROVE ProcessesTyped'
  BY <1>7, <1>a, <1>e DEF OperationFails
<1>8. ASSUME NEW p \in FileProcs, ProcessDies(p) PROVE ProcessesTyped'
  BY <1>8, <1>a, <1>f DEF ProcessDies
<1>9. ASSUME NEW p \in FileProcs, DeleteOpenRequest(p) PROVE ProcessesTyped'
  BY <1>9, <1>a, <1>g DEF DeleteOpenRequest
<1>10. CASE UNCHANGED fileVars
  BY <1>10, <1>b, <1>c, <1>d DEF fileVars
<1> QED
  BY <1>1, <1>2, <1>3, <1>4, <1>5, <1>6, <1>7, <1>8, <1>9, <1>10 DEF WorkspaceFilesNext

LEMMA StepCountsTyped ==
  ASSUME TypeInv, [WorkspaceFilesNext]_fileVars
  PROVE  CountsTyped'
<1>1. deleted \subseteq RequestIds /\ raced \in BOOLEAN
      /\ file_saves \in 0 .. MaxFileSaves /\ file_failures \in Nat
      /\ MaxFileSaves \in Nat
  BY WorkspaceFilesAssumption, Zenon DEF TypeInv, CountsTyped
<1>2. raced' \in BOOLEAN
  BY <1>1, Zenon DEF WorkspaceFilesNext, SaveNewRequest, RelocateRequest, BeginWriting, OpenRequest,
     TryPath, WriteRequestFile, RemoveOldFile, OperationFails, ProcessDies, DeleteOpenRequest, fileVars
<1>3. file_saves' \in 0 .. MaxFileSaves
  <2>1. \/ file_saves' = file_saves
        \/ file_saves < MaxFileSaves /\ file_saves' = file_saves + 1
    BY Zenon DEF WorkspaceFilesNext, SaveNewRequest, RelocateRequest, BeginWriting, OpenRequest,
       TryPath, WriteRequestFile, RemoveOldFile, OperationFails, ProcessDies, DeleteOpenRequest, fileVars
  <2> QED  BY <1>1, <2>1
<1>4. file_failures' \in Nat
  <2>1. file_failures' = file_failures \/ file_failures' = file_failures + 1
    BY Zenon DEF WorkspaceFilesNext, SaveNewRequest, RelocateRequest, BeginWriting, OpenRequest,
       TryPath, WriteRequestFile, RemoveOldFile, OperationFails, ProcessDies, DeleteOpenRequest, fileVars
  <2> QED  BY <1>1, <2>1
<1>5. deleted' \subseteq RequestIds
  <2>1. CASE \E p \in FileProcs : DeleteOpenRequest(p)
    <3>1. PICK p \in FileProcs : DeleteOpenRequest(p)
      BY <2>1
    <3>2. opened[p].request \in Requests
      <4>1. opened[p].path # NoPath
        BY <3>1 DEF DeleteOpenRequest, TypeInv, FilesTyped, Exists
      <4> QED  BY <4>1 DEF TypeInv, ProcessesTyped
    <3> QED  BY <3>1, <3>2, <1>1 DEF DeleteOpenRequest, Requests
  <2>2. CASE deleted' = deleted
    BY <1>1, <2>2
  <2> QED
    BY <2>1, <2>2, Zenon DEF WorkspaceFilesNext, SaveNewRequest, RelocateRequest, BeginWriting, OpenRequest,
       TryPath, WriteRequestFile, RemoveOldFile, OperationFails, ProcessDies, fileVars
<1> QED  BY <1>2, <1>3, <1>4, <1>5 DEF CountsTyped

LEMMA StepTypeInv == TypeInv /\ [WorkspaceFilesNext]_fileVars => TypeInv'
  BY StepFilesTyped, StepProcessesTyped, StepCountsTyped DEF TypeInv

(***************************************************************************)
(* A process that has the files to itself                                  *)
(***************************************************************************)
LEMMA InitAloneInv == WorkspaceFilesInit => AloneInv /\ TwinsInv
  BY DEF WorkspaceFilesInit, AloneInv, TwinsInv, OneBusy, OldIsOwn, TargetIsFree, BothWritten,
         TwinsAreSaved, NewIsNew, NotWriting, Writing

(* What every step keeps: nothing forgets a race or a failure.                *)
LEMMA RaceStays ==
  ASSUME TypeInv, [WorkspaceFilesNext]_fileVars
  PROVE  /\ raced => raced'
         /\ file_failures' = 0 => file_failures = 0
<1>1. raced => raced'
  BY Zenon DEF WorkspaceFilesNext, SaveNewRequest, RelocateRequest, BeginWriting, OpenRequest,
     TryPath, WriteRequestFile, RemoveOldFile, OperationFails, ProcessDies, DeleteOpenRequest, fileVars
<1>2. \/ file_failures' = file_failures
      \/ file_failures' = file_failures + 1
  BY Zenon DEF WorkspaceFilesNext, SaveNewRequest, RelocateRequest, BeginWriting, OpenRequest,
     TryPath, WriteRequestFile, RemoveOldFile, OperationFails, ProcessDies, DeleteOpenRequest, fileVars
<1> QED  BY <1>1, <1>2 DEF TypeInv, CountsTyped

(* The invariants are about the files and the operation of the one process      *)
(* that is busy: they hold when no process is, ...                            *)
NobodyBusy == \A p \in FileProcs : ~Writing(p)
LEMMA IdleAlone ==
  ASSUME NobodyBusy
  PROVE  OneBusy /\ OldIsOwn /\ TargetIsFree /\ BothWritten /\ NewIsNew
  BY DEF NobodyBusy, OneBusy, OldIsOwn, TargetIsFree, BothWritten, NewIsNew, Writing

(* ... and otherwise for that process alone.                                 *)
OnlyBusy(p) == \A q \in FileProcs \ {p} : ~Writing(q)
LEMMA OneAlone ==
  ASSUME NEW p \in FileProcs, OnlyBusy(p),
         Writing(p) /\ writing[p].old # NoPath =>
           /\ writing[p].old \in DOMAIN request_files
           /\ request_files[writing[p].old].id = writing[p].request.id,
         writing[p].phase = "write" =>
           Target(p) = writing[p].old \/ Target(p) \notin DOMAIN request_files,
         writing[p].phase = "remove" =>
           /\ writing[p].old \notin {NoPath, Target(p)}
           /\ Target(p) \in DOMAIN request_files
           /\ request_files[Target(p)] = writing[p].request
  PROVE  OneBusy /\ OldIsOwn /\ TargetIsFree /\ BothWritten
  BY DEF OnlyBusy, OneBusy, OldIsOwn, TargetIsFree, BothWritten, Writing, PathIsFree, Exists

(* The step of a process in an operation leaves the others idle.              *)
LEMMA OthersIdle ==
  ASSUME TypeInv, AloneInv, ~raced, NEW p \in FileProcs,
         Writing(p) \/ ~OthersBusy(p), NEW w, writing' = [writing EXCEPT ![p] = w]
  PROVE  /\ OnlyBusy(p) /\ OnlyBusy(p)'
         /\ writing'[p] = w
         /\ w.phase = "idle" => NobodyBusy'
<1>1. writing \in [FileProcs -> WriteRecord]
  BY DEF TypeInv, ProcessesTyped
<1>2. OnlyBusy(p)
  BY DEF OnlyBusy, AloneInv, OneBusy, OthersBusy, Writing, Idle
<1>3. writing'[p] = w /\ \A q \in FileProcs \ {p} : writing'[q] = writing[q]
  BY <1>1
<1> QED  BY <1>2, <1>3 DEF OnlyBusy, NobodyBusy, Writing

(* The start of an operation.                                               *)
LEMMA BeginAlone ==
  ASSUME TypeInv, AloneInv, ~raced', NEW p \in FileProcs, NEW old, NEW request,
         BeginWriting(p, old, request), ~Writing(p),
         old # NoPath => Exists(old) /\ request_files[old].id = request.id
  PROVE  /\ (OneBusy /\ OldIsOwn /\ TargetIsFree /\ BothWritten)'
         /\ NobodyBusy /\ OnlyBusy(p)' /\ UNCHANGED request_files
         /\ writing'[p].old = old /\ writing'[p].request = request
<1> DEFINE w == [phase |-> "choose", old |-> old, request |-> request, tries |-> 1]
<1>1. ~raced /\ ~OthersBusy(p)
  BY DEF BeginWriting
<1>2. writing' = [writing EXCEPT ![p] = w]
  BY DEF BeginWriting
<1>3. w.phase = "choose" /\ w.old = old /\ w.request = request
  OBVIOUS
<1> HIDE DEF w
<1>4. OnlyBusy(p) /\ OnlyBusy(p)' /\ writing'[p] = w
  BY <1>1, <1>2, OthersIdle
<1>5. UNCHANGED request_files
  BY DEF BeginWriting
<1>6. (OneBusy /\ OldIsOwn /\ TargetIsFree /\ BothWritten)'
  BY <1>3, <1>4, <1>5 DEF OnlyBusy, OneBusy, OldIsOwn, TargetIsFree, BothWritten, Writing, Exists
<1> QED  BY <1>3, <1>4, <1>5, <1>6 DEF NobodyBusy, OnlyBusy

(* The open request of a process that is not stale is the one in its file.     *)
LEMMA FreshOpen ==
  ASSUME TypeInv, NEW p \in FileProcs, ~Stale(p)
  PROVE  /\ Exists(opened[p].path) /\ opened[p].path # NoPath
         /\ request_files[opened[p].path] = opened[p].request
         /\ opened[p].request \in Requests
<1>1. Exists(opened[p].path) /\ request_files[opened[p].path] = opened[p].request
  BY DEF Stale
<1> QED  BY <1>1 DEF Exists, TypeInv, FilesTyped

LEMMA SaveNewFacts ==
  ASSUME TypeInv, AloneInv, ~raced', NEW p \in FileProcs, SaveNewRequest(p)
  PROVE  \E request :
           /\ BeginWriting(p, NoPath, request) /\ ~Writing(p)
           /\ \A path \in DOMAIN request_files : request_files[path].id # request.id
<1>1. PICK id \in RequestIds, n \in RequestNames :
        /\ \A path \in DOMAIN request_files : request_files[path].id # id
        /\ BeginWriting(p, NoPath, [id |-> id, name |-> n, version |-> file_saves])
  BY DEF SaveNewRequest
<1> QED  BY <1>1 DEF SaveNewRequest, Idle, Writing

LEMMA RelocateFacts ==
  ASSUME TypeInv, AloneInv, ~raced', NEW p \in FileProcs, RelocateRequest(p)
  PROVE  \E request :
           /\ BeginWriting(p, opened[p].path, request) /\ ~Writing(p)
           /\ opened[p].path # NoPath
           /\ Exists(opened[p].path) /\ request_files[opened[p].path].id = request.id
<1> DEFINE edited(n) == [opened[p].request EXCEPT !.name = n, !.version = file_saves]
<1>1. PICK n \in RequestNames : BeginWriting(p, opened[p].path, edited(n))
  BY DEF RelocateRequest
<1>2. ~Writing(p) /\ opened[p].path # NoPath
  BY DEF RelocateRequest, Idle, Writing
<1>3. ~Stale(p)
  BY <1>1, <1>2 DEF BeginWriting
<1>4. edited(n).id = opened[p].request.id
  BY <1>3, FreshOpen DEF Requests
<1> HIDE DEF edited
<1> QED  BY <1>1, <1>2, <1>3, <1>4, FreshOpen

(* The operation of a process goes on.                                       *)
LEMMA TryFacts ==
  ASSUME TypeInv, NEW p \in FileProcs, TryPath(p)
  PROVE  \E w : /\ writing' = [writing EXCEPT ![p] = w]
                /\ w.old = writing[p].old /\ w.request = writing[p].request
                /\ w.phase \in {"choose", "write"}
                /\ w.phase = "write" =>
                     PathIsFree(p) /\ w.tries = writing[p].tries
<1>1. writing[p] \in WriteRecord /\ writing[p].phase = "choose"
  BY DEF TypeInv, ProcessesTyped, TryPath
<1>2. CASE PathIsFree(p)
  <2> DEFINE w == [writing[p] EXCEPT !.phase = "write"]
  <2>1. writing' = [writing EXCEPT ![p] = w]
    BY <1>2 DEF TryPath
  <2>2. /\ w.old = writing[p].old /\ w.request = writing[p].request
        /\ w.phase = "write" /\ w.tries = writing[p].tries
    BY <1>1 DEF WriteRecord
  <2> QED  BY <1>2, <2>1, <2>2
<1>3. CASE ~PathIsFree(p)
  <2> DEFINE w == [writing[p] EXCEPT !.tries = @ + 1]
  <2>1. writing' = [writing EXCEPT ![p] = w]
    BY <1>3 DEF TryPath
  <2>2. /\ w.old = writing[p].old /\ w.request = writing[p].request
        /\ w.phase = "choose"
    BY <1>1 DEF WriteRecord
  <2> QED  BY <1>3, <2>1, <2>2
<1> QED  BY <1>2, <1>3

LEMMA WriteStepFacts ==
  ASSUME TypeInv, NEW p \in FileProcs, WriteRequestFile(p)
  PROVE  /\ Writing(p) /\ writing[p].phase = "write"
         /\ DOMAIN request_files' = DOMAIN request_files \cup {Target(p)}
         /\ request_files'[Target(p)] = writing[p].request
         /\ \A q \in DOMAIN request_files : q # Target(p) => request_files'[q] = request_files[q]
         /\ \E w : /\ writing' = [writing EXCEPT ![p] = w]
                   /\ \/ w.phase = "idle" /\ writing[p].old \in {NoPath, Target(p)}
                      \/ /\ w.phase = "remove" /\ writing[p].old \notin {NoPath, Target(p)}
                         /\ w.old = writing[p].old /\ w.request = writing[p].request
                         /\ w.tries = writing[p].tries
<1>1. writing[p] \in WriteRecord /\ writing[p].phase = "write"
  BY DEF TypeInv, ProcessesTyped, WriteRequestFile
<1>2. /\ DOMAIN request_files' = DOMAIN request_files \cup {Target(p)}
      /\ request_files'[Target(p)] = writing[p].request
      /\ \A q \in DOMAIN request_files : q # Target(p) => request_files'[q] = request_files[q]
  BY WriteFacts DEF WriteRequestFile
<1>3. CASE Stays(p)
  <2>1. writing' = [writing EXCEPT ![p] = NotWriting] /\ NotWriting.phase = "idle"
    BY <1>3 DEF WriteRequestFile, Finish, NotWriting
  <2> QED  BY <1>1, <1>2, <1>3, <2>1 DEF Stays, Writing
<1>4. CASE ~Stays(p)
  <2> DEFINE w == [writing[p] EXCEPT !.phase = "remove"]
  <2>1. writing' = [writing EXCEPT ![p] = w]
    BY <1>4 DEF WriteRequestFile
  <2>2. /\ w.phase = "remove" /\ w.old = writing[p].old
        /\ w.request = writing[p].request /\ w.tries = writing[p].tries
    BY <1>1 DEF WriteRecord
  <2> HIDE DEF w
  <2> QED  BY <1>1, <1>2, <1>4, <2>1, <2>2 DEF Stays, Writing
<1> QED  BY <1>3, <1>4

(* When nothing raced, a relocation that cannot go on leaves the old file; and   *)
(* one that can removes it, with the new one written.                        *)
LEMMA RemoveFacts ==
  ASSUME AloneInv, ~raced, NEW p \in FileProcs, writing[p].phase = "remove"
  PROVE  /\ Writing(p) /\ Exists(writing[p].old) /\ Exists(Target(p))
         /\ writing[p].old # Target(p)
         /\ request_files[writing[p].old].id = writing[p].request.id
         /\ request_files[Target(p)] = writing[p].request
  BY DEF AloneInv, OldIsOwn, BothWritten, Writing

LEMMA FailFacts ==
  ASSUME AloneInv, ~raced, TypeInv, NEW p \in FileProcs, OperationFails(p)
  PROVE  /\ Writing(p) /\ file_failures' # 0
         /\ writing' = [writing EXCEPT ![p] = NotWriting]
         /\ \/ UNCHANGED request_files
            \/ writing[p].phase = "remove" /\ request_files' = Without(Target(p))
         /\ UNCHANGED <<deleted, raced>>
<1>1. file_failures' = file_failures + 1
  BY RemoveFacts DEF OperationFails
<1> QED  BY <1>1 DEF OperationFails, RollBackNew, Writing, Idle, TypeInv, CountsTyped

LEMMA DeleteFacts ==
  ASSUME TypeInv, AloneInv, ~raced', NEW p \in FileProcs, DeleteOpenRequest(p)
  PROVE  /\ ~raced /\ NobodyBusy /\ UNCHANGED writing
         /\ Exists(opened[p].path) /\ opened[p].request \in Requests
         /\ request_files[opened[p].path] = opened[p].request
         /\ request_files' = Without(opened[p].path)
         /\ deleted' = deleted \cup {opened[p].request.id}
<1>1. ~raced /\ ~OthersBusy(p) /\ ~Stale(p) /\ Idle(p)
  BY DEF DeleteOpenRequest
<1>2. NobodyBusy
  BY <1>1 DEF NobodyBusy, OthersBusy, Idle, Writing
<1> QED  BY <1>1, <1>2, FreshOpen DEF DeleteOpenRequest

(* The target of a process is that of its request and its tries.               *)
LEMMA SameTarget ==
  ASSUME NEW p \in FileProcs, writing'[p].request = writing[p].request,
         writing'[p].tries = writing[p].tries
  PROVE  Target(p)' = Target(p)
  BY DEF Target, PathCandidate

LEMMA StepAloneInv ==
  ASSUME TypeInv, AloneInv, [WorkspaceFilesNext]_fileVars
  PROVE  AloneInv'
<1> DEFINE Parts == OneBusy /\ OldIsOwn /\ TargetIsFree /\ BothWritten
<1> SUFFICES ASSUME ~raced' PROVE Parts'
  BY DEF AloneInv
<1>a. ~raced /\ Parts
  BY RaceStays DEF AloneInv
<1>b. ASSUME UNCHANGED <<request_files, writing>> PROVE Parts'
  BY <1>a, <1>b DEF OneBusy, OldIsOwn, TargetIsFree, BothWritten, Writing, PathIsFree, Exists, Target
<1>c. ASSUME NEW p \in FileProcs, Writing(p) \/ ~OthersBusy(p),
             writing' = [writing EXCEPT ![p] = NotWriting]
      PROVE  Parts'
  <2>1. NobodyBusy'
    BY <1>a, <1>c, OthersIdle DEF NotWriting
  <2> QED  BY <2>1 DEF NobodyBusy, OneBusy, OldIsOwn, TargetIsFree, BothWritten, Writing
<1>1. ASSUME NEW p \in FileProcs, SaveNewRequest(p) PROVE Parts'
  BY <1>1, SaveNewFacts, BeginAlone
<1>2. ASSUME NEW p \in FileProcs, RelocateRequest(p) PROVE Parts'
  BY <1>2, RelocateFacts, BeginAlone
<1>3. ASSUME NEW p \in FileProcs, OpenRequest(p) PROVE Parts'
  BY <1>3, <1>b DEF OpenRequest
<1>4. ASSUME NEW p \in FileProcs, TryPath(p) PROVE Parts'
  <2>1. Writing(p) /\ UNCHANGED request_files
    BY <1>4 DEF TryPath, Writing
  <2>2. PICK w : /\ writing' = [writing EXCEPT ![p] = w]
                 /\ w.old = writing[p].old /\ w.request = writing[p].request
                 /\ w.phase \in {"choose", "write"}
                 /\ w.phase = "write" => PathIsFree(p) /\ w.tries = writing[p].tries
    BY <1>4, TryFacts
  <2>3. OnlyBusy(p)' /\ writing'[p] = w
    BY <1>a, <2>1, <2>2, OthersIdle
  <2>4. writing[p].old # NoPath =>
          /\ Exists(writing[p].old)
          /\ request_files[writing[p].old].id = writing[p].request.id
    BY <1>a, <2>1 DEF OldIsOwn
  <2>5. w.phase = "write" => Target(p)' = Target(p)
    BY <2>2, <2>3, SameTarget
  <2> QED
    BY <2>1, <2>2, <2>3, <2>4, <2>5
       DEF OnlyBusy, OneBusy, OldIsOwn, TargetIsFree, BothWritten, Writing, PathIsFree, Exists
<1>5. ASSUME NEW p \in FileProcs, WriteRequestFile(p) PROVE Parts'
  <2>1. PICK w : /\ writing' = [writing EXCEPT ![p] = w]
                 /\ \/ w.phase = "idle"
                    \/ /\ w.phase = "remove" /\ writing[p].old \notin {NoPath, Target(p)}
                       /\ w.old = writing[p].old /\ w.request = writing[p].request
                       /\ w.tries = writing[p].tries
    BY <1>5, WriteStepFacts
  <2>2. Writing(p)
    BY <1>5, WriteStepFacts
  <2>3. OnlyBusy(p)' /\ writing'[p] = w
    BY <1>a, <2>1, <2>2, OthersIdle
  <2>4. CASE w.phase = "idle"
    BY <2>3, <2>4 DEF OnlyBusy, OneBusy, OldIsOwn, TargetIsFree, BothWritten, Writing
  <2>5. CASE w.phase # "idle"
    <3>1. /\ w.phase = "remove" /\ writing[p].old \notin {NoPath, Target(p)}
          /\ w.old = writing[p].old /\ w.request = writing[p].request
          /\ Target(p)' = Target(p)
      BY <2>1, <2>3, <2>5, SameTarget
    <3>2. /\ writing[p].old \in DOMAIN request_files
          /\ request_files[writing[p].old].id = writing[p].request.id
      BY <1>a, <2>2, <3>1 DEF OldIsOwn, Exists
    <3>3. /\ writing[p].old \in DOMAIN request_files'
          /\ request_files'[writing[p].old].id = writing[p].request.id
          /\ Target(p) \in DOMAIN request_files'
          /\ request_files'[Target(p)] = writing[p].request
      BY <1>5, <3>1, <3>2, WriteStepFacts
    <3> QED
      BY <2>3, <3>1, <3>3
         DEF OnlyBusy, OneBusy, OldIsOwn, TargetIsFree, BothWritten, Writing, Exists
  <2> QED  BY <2>4, <2>5
<1>6. ASSUME NEW p \in FileProcs, RemoveOldFile(p) PROVE Parts'
  BY <1>6, <1>c DEF RemoveOldFile, Finish, Writing
<1>7. ASSUME NEW p \in FileProcs, OperationFails(p) PROVE Parts'
  BY <1>7, <1>c DEF OperationFails, Idle, Writing
<1>8. ASSUME NEW p \in FileProcs, ProcessDies(p) PROVE Parts'
  BY <1>8, <1>c DEF ProcessDies, Idle, Writing
<1>9. ASSUME NEW p \in FileProcs, DeleteOpenRequest(p) PROVE Parts'
  <2>1. NobodyBusy'
    BY <1>9, DeleteFacts DEF NobodyBusy, Writing
  <2> QED  BY <2>1 DEF NobodyBusy, OneBusy, OldIsOwn, TargetIsFree, BothWritten, Writing
<1>10. CASE UNCHANGED fileVars
  BY <1>10, <1>b DEF fileVars
<1> QED
  BY <1>1, <1>2, <1>3, <1>4, <1>5, <1>6, <1>7, <1>8, <1>9, <1>10 DEF WorkspaceFilesNext

LEMMA StepTwinsInv ==
  ASSUME TypeInv, AloneInv, TwinsInv, [WorkspaceFilesNext]_fileVars
  PROVE  TwinsInv'
<1> SUFFICES ASSUME ~raced', file_failures' = 0 PROVE (TwinsAreSaved /\ NewIsNew)'
  BY DEF TwinsInv
<1>a. ~raced /\ TwinsAreSaved /\ NewIsNew
  BY RaceStays DEF TwinsInv
<1>b. AloneInv' /\ TypeInv'
  BY StepAloneInv, StepTypeInv
<1>c. ASSUME UNCHANGED <<request_files, writing>> PROVE (TwinsAreSaved /\ NewIsNew)'
  BY <1>a, <1>c DEF TwinsAreSaved, NewIsNew, Writing, Target
(* When the files have no twins before or after and nobody is busy after.      *)
<1>d. ASSUME NobodyBusy,
             \A path \in DOMAIN request_files' :
               path \in DOMAIN request_files /\ request_files'[path] = request_files[path],
             NobodyBusy'
      PROVE  (TwinsAreSaved /\ NewIsNew)'
  <2>1. \A path, q \in DOMAIN request_files :
          request_files[path].id = request_files[q].id => path = q
    BY <1>a, <1>d DEF TwinsAreSaved, NobodyBusy, Writing
  <2>2. \A path, q \in DOMAIN request_files' :
          request_files'[path].id = request_files'[q].id => path = q
    BY <1>d, <2>1
  <2> QED  BY <1>d, <2>2 DEF TwinsAreSaved, NewIsNew, NobodyBusy
<1>e. ASSUME NEW p \in FileProcs, NEW old, NEW request, BeginWriting(p, old, request),
             ~Writing(p),
             old # NoPath => Exists(old) /\ request_files[old].id = request.id,
             old = NoPath =>
               \A path \in DOMAIN request_files : request_files[path].id # request.id
      PROVE  (TwinsAreSaved /\ NewIsNew)'
  <2>1. /\ NobodyBusy /\ OnlyBusy(p)' /\ UNCHANGED request_files
        /\ writing'[p].old = old /\ writing'[p].request = request
    BY <1>e, BeginAlone
  <2>2. \A path, q \in DOMAIN request_files :
          request_files[path].id = request_files[q].id => path = q
    BY <1>a, <2>1 DEF TwinsAreSaved, NobodyBusy, Writing
  <2> QED  BY <1>e, <2>1, <2>2 DEF TwinsAreSaved, NewIsNew, OnlyBusy
<1>1. ASSUME NEW p \in FileProcs, SaveNewRequest(p) PROVE (TwinsAreSaved /\ NewIsNew)'
  BY <1>1, <1>e, SaveNewFacts
<1>2. ASSUME NEW p \in FileProcs, RelocateRequest(p) PROVE (TwinsAreSaved /\ NewIsNew)'
  BY <1>2, <1>e, RelocateFacts
<1>3. ASSUME NEW p \in FileProcs, OpenRequest(p) PROVE (TwinsAreSaved /\ NewIsNew)'
  BY <1>3, <1>c DEF OpenRequest
<1>4. ASSUME NEW p \in FileProcs, TryPath(p) PROVE (TwinsAreSaved /\ NewIsNew)'
  <2>1. Writing(p) /\ writing[p].phase = "choose" /\ UNCHANGED request_files
    BY <1>4 DEF TryPath, Writing
  <2>2. PICK w : /\ writing' = [writing EXCEPT ![p] = w]
                 /\ w.old = writing[p].old /\ w.request = writing[p].request
    BY <1>4, TryFacts
  <2>3. OnlyBusy(p) /\ OnlyBusy(p)' /\ writing'[p] = w
    BY <1>a, <2>1, <2>2, OthersIdle
  <2>4. \A path, q \in DOMAIN request_files :
          request_files[path].id = request_files[q].id => path = q
    BY <1>a, <2>1, <2>3 DEF TwinsAreSaved, OnlyBusy, Writing
  <2> QED  BY <1>a, <2>1, <2>2, <2>3, <2>4 DEF TwinsAreSaved, NewIsNew, OnlyBusy
<1>5. ASSUME NEW p \in FileProcs, WriteRequestFile(p) PROVE (TwinsAreSaved /\ NewIsNew)'
  <2>1. /\ Writing(p) /\ writing[p].phase = "write"
        /\ DOMAIN request_files' = DOMAIN request_files \cup {Target(p)}
        /\ request_files'[Target(p)] = writing[p].request
        /\ \A q \in DOMAIN request_files : q # Target(p) => request_files'[q] = request_files[q]
    BY <1>5, WriteStepFacts
  <2>2. PICK w :
          /\ writing' = [writing EXCEPT ![p] = w]
          /\ \/ w.phase = "idle" /\ writing[p].old \in {NoPath, Target(p)}
             \/ /\ w.phase = "remove" /\ writing[p].old \notin {NoPath, Target(p)}
                /\ w.old = writing[p].old /\ w.request = writing[p].request
                /\ w.tries = writing[p].tries
    BY <1>5, WriteStepFacts
  <2>3. OnlyBusy(p) /\ OnlyBusy(p)' /\ writing'[p] = w
    BY <1>a, <2>1, <2>2, OthersIdle
  <2>4. \A path, q \in DOMAIN request_files :
          request_files[path].id = request_files[q].id => path = q
    BY <1>a, <2>1, <2>3 DEF TwinsAreSaved, OnlyBusy, Writing
  <2>5. \A path \in DOMAIN request_files :
          request_files[path].id = writing[p].request.id => path = writing[p].old
    BY <1>a, <2>1, <2>4 DEF NewIsNew, AloneInv, OldIsOwn, Exists
  <2>6. NewIsNew'
    <3>1. ~Writing(p)' \/ writing'[p].old # NoPath
      BY <2>2, <2>3 DEF Writing
    <3> QED  BY <2>3, <3>1 DEF NewIsNew, OnlyBusy
  <2>7. \A q \in DOMAIN request_files' :
          q # Target(p) /\ request_files'[q].id = writing[p].request.id =>
            q = writing[p].old
    BY <2>1, <2>5
  <2>8. ASSUME NEW path \in DOMAIN request_files', NEW q \in DOMAIN request_files',
               path # q, request_files'[path].id = request_files'[q].id
        PROVE  {path, q} = {writing[p].old, Target(p)} /\ writing[p].old # Target(p)
    <3>1. CASE path = Target(p)
      BY <2>1, <2>7, <2>8, <3>1
    <3>2. CASE q = Target(p)
      BY <2>1, <2>7, <2>8, <3>2
    <3>3. CASE path # Target(p) /\ q # Target(p)
      BY <2>1, <2>4, <2>8, <3>3
    <3> QED  BY <3>1, <3>2, <3>3
  <2>9. CASE w.phase = "idle"
    <3>1. \A path \in DOMAIN request_files' : path # NoPath
      BY <1>b DEF TypeInv, FilesTyped
    <3>2. writing[p].old \in {NoPath, Target(p)}
      BY <2>2, <2>9
    <3>3. \A path, q \in DOMAIN request_files' :
            ~(path # q /\ request_files'[path].id = request_files'[q].id)
      BY <2>1, <2>8, <3>1, <3>2
    <3> QED  BY <2>6, <3>3 DEF TwinsAreSaved
  <2>10. CASE w.phase # "idle"
    <3>1. /\ writing'[p].phase = "remove" /\ writing'[p].old = writing[p].old
          /\ Target(p)' = Target(p)
      BY <2>2, <2>3, <2>10, SameTarget
    <3> QED  BY <2>6, <2>8, <3>1 DEF TwinsAreSaved
  <2> QED  BY <2>9, <2>10
<1>6. ASSUME NEW p \in FileProcs, RemoveOldFile(p) PROVE (TwinsAreSaved /\ NewIsNew)'
  <2>1. Writing(p) /\ writing[p].phase = "remove" /\ request_files' = Without(writing[p].old)
        /\ writing' = [writing EXCEPT ![p] = NotWriting]
    BY <1>6 DEF RemoveOldFile, Finish, Writing
  <2>2. OnlyBusy(p) /\ NobodyBusy'
    BY <1>a, <2>1, OthersIdle DEF NotWriting
  <2>3. /\ DOMAIN request_files' = DOMAIN request_files \ {writing[p].old}
        /\ \A q \in DOMAIN request_files' : request_files'[q] = request_files[q]
    BY <2>1, WithoutFacts
  <2>4. ASSUME NEW path \in DOMAIN request_files', NEW q \in DOMAIN request_files',
               request_files'[path].id = request_files'[q].id, path # q
        PROVE  FALSE
    <3>1. PICK r \in FileProcs :
            writing[r].phase = "remove" /\ {path, q} = {writing[r].old, Target(r)}
      BY <1>a, <2>3, <2>4 DEF TwinsAreSaved
    <3>2. r = p
      BY <2>2, <3>1 DEF OnlyBusy, Writing
    <3> QED  BY <2>3, <3>1, <3>2
  <2> QED  BY <2>2, <2>4 DEF TwinsAreSaved, NewIsNew, NobodyBusy
<1>7. ASSUME NEW p \in FileProcs, OperationFails(p) PROVE FALSE
  BY <1>a, <1>7, FailFacts
<1>8. ASSUME NEW p \in FileProcs, ProcessDies(p) PROVE FALSE
  BY <1>8 DEF ProcessDies, TypeInv, CountsTyped
<1>9. ASSUME NEW p \in FileProcs, DeleteOpenRequest(p) PROVE (TwinsAreSaved /\ NewIsNew)'
  <2>1. NobodyBusy /\ UNCHANGED writing /\ request_files' = Without(opened[p].path)
    BY <1>9, DeleteFacts
  <2>2. NobodyBusy'
    BY <2>1 DEF NobodyBusy, Writing
  <2> QED  BY <1>d, <2>1, <2>2, WithoutFacts
<1>10. CASE UNCHANGED fileVars
  BY <1>10, <1>c DEF fileVars
<1> QED
  BY <1>1, <1>2, <1>3, <1>4, <1>5, <1>6, <1>7, <1>8, <1>9, <1>10 DEF WorkspaceFilesNext

LEMMA FilesInvariant == WorkspaceFilesSpec => []FilesInv
<1>1. WorkspaceFilesInit => FilesInv
  BY InitTypeInv, InitAloneInv DEF FilesInv
<1>2. FilesInv /\ [WorkspaceFilesNext]_fileVars => FilesInv'
  BY StepTypeInv, StepAloneInv, StepTwinsInv DEF FilesInv
<1> QED  BY <1>1, <1>2, PTL DEF WorkspaceFilesSpec

(* With nothing cut short, a process that has the files to itself keeps one    *)
(* file for each request, under the path of its name.                        *)
THEOREM WorkspaceFilesOnePerRequest == WorkspaceFilesSpec => []OneFilePerRequest
<1>1. FilesInv => OneFilePerRequest
  BY DEF FilesInv, TypeInv, FilesTyped, TwinsInv, TwinsAreSaved, OneFilePerRequest, Idle
<1> QED  BY <1>1, FilesInvariant, PTL

(***************************************************************************)
(* Refinement of RequestStore                                              *)
(***************************************************************************)
(* The versions of a request that files hold.                                *)
VersionsOf(id) ==
  {request_files[path] : path \in {q \in DOMAIN request_files : request_files[q].id = id}}
Stored == [id \in RequestIds |-> VersionsOf(id)]

LEMMA StoreUnfolded ==
  /\ Store!StoreInit <=>
       Stored = [id \in RequestIds |-> {}] /\ deleted = {} /\ raced = FALSE
  /\ Store!StoreNext <=>
       \/ \E id \in RequestIds :
            /\ \A other \in RequestIds \ {id} : Stored'[other] = Stored[other]
            /\ \/ /\ \E version \in Requests : /\ version \in Stored'[id]
                                               /\ Stored'[id] \subseteq Stored[id] \cup {version}
                  /\ UNCHANGED <<deleted, raced>>
               \/ /\ Stored'[id] # {} /\ Stored'[id] \subseteq Stored[id]
                  /\ UNCHANGED <<deleted, raced>>
               \/ /\ Stored'[id] \subseteq Stored[id]
                  /\ deleted' = deleted \cup {id}
                  /\ UNCHANGED raced
       \/ raced' = TRUE
<1>1. Store!StoreInit <=>
       Stored = [id \in RequestIds |-> {}] /\ deleted = {} /\ raced = FALSE
  BY DEF Store!StoreInit, Stored, VersionsOf
<1>2. Store!StoreNext <=>
       \/ \E id \in RequestIds :
            /\ \A other \in RequestIds \ {id} : Stored'[other] = Stored[other]
            /\ \/ /\ \E version \in Requests : /\ version \in Stored'[id]
                                               /\ Stored'[id] \subseteq Stored[id] \cup {version}
                  /\ UNCHANGED <<deleted, raced>>
               \/ /\ Stored'[id] # {} /\ Stored'[id] \subseteq Stored[id]
                  /\ UNCHANGED <<deleted, raced>>
               \/ /\ Stored'[id] \subseteq Stored[id]
                  /\ deleted' = deleted \cup {id}
                  /\ UNCHANGED raced
       \/ raced' = TRUE
  BY Zenon DEF Store!StoreNext, Store!SaveVersion, Store!DropVersions, Store!DeleteStored,
         Store!KeepsOthers, Store!Race, Stored, VersionsOf
<1> QED  BY <1>1, <1>2

LEMMA StoredFacts ==
  ASSUME NEW id \in RequestIds
  PROVE  /\ Stored[id] = VersionsOf(id) /\ Stored'[id] = VersionsOf(id)'
         /\ \A path \in DOMAIN request_files :
              request_files[path].id = id => request_files[path] \in Stored[id]
         /\ \A version \in Stored[id] : \E path \in DOMAIN request_files :
              version = request_files[path] /\ version.id = id
         /\ \A path \in DOMAIN request_files' :
              request_files'[path].id = id => request_files'[path] \in Stored'[id]
         /\ \A version \in Stored'[id] : \E path \in DOMAIN request_files' :
              version = request_files'[path] /\ version.id = id
  BY DEF Stored, VersionsOf

(* Removing one file takes versions of its request away, and of no other.      *)
LEMMA RemovalDrops ==
  ASSUME NEW path \in DOMAIN request_files, request_files' = Without(path),
         NEW id \in RequestIds
  PROVE  /\ Stored'[id] \subseteq Stored[id]
         /\ request_files[path].id # id => Stored'[id] = Stored[id]
         /\ \A q \in DOMAIN request_files :
              q # path /\ request_files[q].id = id => request_files[q] \in Stored'[id]
<1>1. /\ DOMAIN request_files' = DOMAIN request_files \ {path}
      /\ \A q \in DOMAIN request_files' : request_files'[q] = request_files[q]
  BY WithoutFacts
<1>2. Stored'[id] \subseteq Stored[id]
  <2> SUFFICES ASSUME NEW version \in Stored'[id] PROVE version \in Stored[id]
    OBVIOUS
  <2>1. PICK q \in DOMAIN request_files' : version = request_files'[q] /\ version.id = id
    BY StoredFacts
  <2> QED  BY <1>1, <2>1, StoredFacts
<1>3. \A q \in DOMAIN request_files :
        q # path /\ request_files[q].id = id => request_files[q] \in Stored'[id]
  BY <1>1, StoredFacts
<1>4. ASSUME request_files[path].id # id, NEW version \in Stored[id]
      PROVE  version \in Stored'[id]
  <2>1. PICK q \in DOMAIN request_files : version = request_files[q] /\ version.id = id
    BY StoredFacts
  <2> QED  BY <1>3, <1>4, <2>1
<1> QED  BY <1>2, <1>3, <1>4

LEMMA SameFiles ==
  ASSUME UNCHANGED <<request_files, deleted, raced>>
  PROVE  UNCHANGED <<Stored, deleted, raced>>
  BY DEF Stored, VersionsOf

LEMMA StepImplementsStore ==
  ASSUME FilesInv, [WorkspaceFilesNext]_fileVars
  PROVE  [Store!StoreNext]_<<Stored, deleted, raced>>
<1> SUFFICES ASSUME ~raced' PROVE [Store!StoreNext]_<<Stored, deleted, raced>>
  <2>1. raced' \in BOOLEAN
    BY StepCountsTyped DEF FilesInv, CountsTyped
  <2>2. raced' = TRUE \/ ~raced'
    BY <2>1
  <2> QED  BY <2>2, StoreUnfolded
<1> DEFINE Goal == Store!StoreNext \/ UNCHANGED <<Stored, deleted, raced>>
<1> SUFFICES Goal
  OBVIOUS
<1>a. TypeInv /\ AloneInv /\ ~raced
  BY RaceStays DEF FilesInv
<1>b. ASSUME UNCHANGED <<request_files, deleted, raced>> PROVE Goal
  BY <1>b, SameFiles
<1>c. raced' = raced
  BY <1>a, Zenon, StepCountsTyped DEF TypeInv, CountsTyped
<1>1. ASSUME NEW p \in FileProcs,
             SaveNewRequest(p) \/ RelocateRequest(p) \/ OpenRequest(p) \/ TryPath(p)
               \/ ProcessDies(p)
      PROVE  Goal
  BY <1>1, <1>b, <1>c
     DEF SaveNewRequest, RelocateRequest, BeginWriting, OpenRequest, TryPath, ProcessDies
(* A write adds one version of its own request, and what it overwrites is a     *)
(* version of that request too: a SaveVersion.                               *)
<1>2. ASSUME NEW p \in FileProcs, WriteRequestFile(p) PROVE Goal
  <2>1. /\ Writing(p) /\ writing[p].phase = "write"
        /\ DOMAIN request_files' = DOMAIN request_files \cup {Target(p)}
        /\ request_files'[Target(p)] = writing[p].request
        /\ \A q \in DOMAIN request_files : q # Target(p) => request_files'[q] = request_files[q]
    BY <1>2, <1>a, WriteStepFacts
  <2>2. writing[p].request \in Requests /\ Target(p) # NoPath
    BY <1>a, <2>1, TargetType
  <2>3. Target(p) \in DOMAIN request_files =>
          request_files[Target(p)].id = writing[p].request.id
    BY <1>a, <2>1, <2>2 DEF AloneInv, TargetIsFree, PathIsFree, OldIsOwn, Exists
  <2> DEFINE version == writing[p].request
             id == writing[p].request.id
  <2>4. id \in RequestIds
    BY <2>2 DEF Requests
  <2>5. version \in Stored'[id]
    BY <2>1, <2>4, StoredFacts
  <2>6. Stored'[id] \subseteq Stored[id] \cup {version}
    <3> SUFFICES ASSUME NEW v \in Stored'[id], v # version PROVE v \in Stored[id]
      OBVIOUS
    <3>1. PICK q \in DOMAIN request_files' : v = request_files'[q] /\ v.id = id
      BY <2>4, StoredFacts
    <3> QED  BY <2>1, <2>4, <3>1, StoredFacts
  <2>7. ASSUME NEW other \in RequestIds, other # id PROVE Stored'[other] = Stored[other]
    <3>1. ASSUME NEW v \in Stored'[other] PROVE v \in Stored[other]
      <4>1. PICK q \in DOMAIN request_files' : v = request_files'[q] /\ v.id = other
        BY StoredFacts
      <4> QED  BY <2>1, <2>7, <4>1, StoredFacts
    <3>2. ASSUME NEW v \in Stored[other] PROVE v \in Stored'[other]
      <4>1. PICK q \in DOMAIN request_files : v = request_files[q] /\ v.id = other
        BY StoredFacts
      <4>2. q # Target(p)
        BY <2>3, <2>7, <4>1
      <4>3. q \in DOMAIN request_files' /\ request_files'[q] = v
        BY <2>1, <4>1, <4>2
      <4> QED  BY <4>1, <4>3, StoredFacts
    <3> QED  BY <3>1, <3>2
  <2>8. UNCHANGED <<deleted, raced>>
    BY <1>2 DEF WriteRequestFile
  <2> HIDE DEF version, id
  <2> QED  BY <2>2, <2>4, <2>5, <2>6, <2>7, <2>8, StoreUnfolded DEF version
(* Either file of a relocation can go: the other one holds the request.        *)
<1>d. ASSUME NEW p \in FileProcs, writing[p].phase = "remove",
             NEW path, path \in {writing[p].old, Target(p)}, request_files' = Without(path),
             UNCHANGED <<deleted, raced>>
      PROVE  Goal
  <2>1. /\ Writing(p) /\ Exists(writing[p].old) /\ Exists(Target(p))
        /\ writing[p].old # Target(p)
        /\ request_files[writing[p].old].id = writing[p].request.id
        /\ request_files[Target(p)] = writing[p].request
    BY <1>a, <1>d, RemoveFacts
  <2> DEFINE id == writing[p].request.id
  <2>2. id \in RequestIds
    BY <1>a, <2>1, TargetType DEF Requests
  <2>3. path \in DOMAIN request_files /\ request_files[path].id = id
    BY <1>d, <2>1 DEF Exists
  <2>4. PICK q \in DOMAIN request_files : q # path /\ request_files[q].id = id
    BY <1>d, <2>1 DEF Exists
  <2> HIDE DEF id
  <2>5. Stored'[id] # {} /\ Stored'[id] \subseteq Stored[id]
    BY <1>d, <2>2, <2>3, <2>4, RemovalDrops
  <2>6. \A other \in RequestIds \ {id} : Stored'[other] = Stored[other]
    BY <1>d, <2>3, RemovalDrops
  <2> QED  BY <1>d, <2>2, <2>5, <2>6, StoreUnfolded
<1>3. ASSUME NEW p \in FileProcs, RemoveOldFile(p) PROVE Goal
  BY <1>3, <1>d DEF RemoveOldFile
<1>4. ASSUME NEW p \in FileProcs, OperationFails(p) PROVE Goal
  BY <1>4, <1>a, <1>b, <1>d, FailFacts
<1>5. ASSUME NEW p \in FileProcs, DeleteOpenRequest(p) PROVE Goal
  <2>1. /\ Exists(opened[p].path) /\ opened[p].request \in Requests
        /\ request_files[opened[p].path] = opened[p].request
        /\ request_files' = Without(opened[p].path)
        /\ deleted' = deleted \cup {opened[p].request.id}
    BY <1>5, <1>a, DeleteFacts
  <2>2. opened[p].request.id \in RequestIds
    BY <2>1 DEF Requests
  <2>3. Stored'[opened[p].request.id] \subseteq Stored[opened[p].request.id]
    BY <2>1, <2>2, RemovalDrops DEF Exists
  <2>4. \A other \in RequestIds \ {opened[p].request.id} : Stored'[other] = Stored[other]
    BY <2>1, RemovalDrops DEF Exists
  <2> QED  BY <1>c, <2>1, <2>2, <2>3, <2>4, StoreUnfolded
<1>6. CASE UNCHANGED fileVars
  BY <1>6, <1>b DEF fileVars
<1> QED
  BY <1>1, <1>2, <1>3, <1>4, <1>5, <1>6 DEF WorkspaceFilesNext

(* The files of a collection implement a store of requests by id: as long as     *)
(* nothing raced, every step of a save, a rename, a failure, a crash or a          *)
(* deletion is one of the store, whatever names and id prefixes clash.         *)
THEOREM WorkspaceFilesImplementStore == WorkspaceFilesSpec => ImplementsRequestStore
<1>1. WorkspaceFilesInit => Store!StoreInit
  <2> SUFFICES ASSUME WorkspaceFilesInit PROVE Store!StoreInit
    OBVIOUS
  <2>1. Stored = [id \in RequestIds |-> {}]
    BY DEF WorkspaceFilesInit, Stored, VersionsOf
  <2> QED  BY <2>1, StoreUnfolded DEF WorkspaceFilesInit
<1>2. Store!StoreSpec <=> Store!StoreInit /\ [][Store!StoreNext]_<<Stored, deleted, raced>>
  BY DEF Store!StoreSpec, Stored, VersionsOf
<1> QED
  BY <1>1, <1>2, FilesInvariant, StepImplementsStore, PTL
     DEF WorkspaceFilesSpec, ImplementsRequestStore
(***************************************************************************)
(* Environments                                                            *)
(***************************************************************************)
Saving(p) == saving[p].phase # "idle"
EditedVariable == Variable \cup {Typed(v) : v \in SecretValues}
EditedRecord == [name : EnvironmentNames, variables : [VariableKeys -> EditedVariable]]
SavingRecord ==
  [phase : {"idle", "secrets", "remove"}, old : Slugs \cup {""},
   environment : EditedRecord \cup {NoEnvironment}, migrating : BOOLEAN]
KeychainValue == {<<v>> : v \in SecretValues} \cup {Absent}

(* Files are read into the list and each is under the slug of its name; an      *)
(* operation has an environment, and one that has still to remove a file came   *)
(* from another slug than that of its name.                                  *)
EnvironmentFilesTyped ==
  /\ environment_files \in [Slugs -> EnvironmentRecord]
  /\ environments \in [Slugs -> EnvironmentRecord]
  /\ files_before \in [Slugs -> EnvironmentRecord]
  /\ \A s \in Slugs : environment_files[s] # NoEnvironment => s = Slug[environment_files[s].name]
SavingTyped ==
  /\ saving \in [Savers -> SavingRecord]
  /\ \A p \in Savers : Saving(p) => saving[p].environment \in EditedRecord
  /\ \A p \in Savers : saving[p].migrating => Saving(p)
  /\ \A p \in Savers : saving[p].phase = "remove" =>
       /\ saving[p].old \notin {"", Slug[saving[p].environment.name]}
       /\ saving[p].environment \in EnvironmentRecord
EnvironmentCountsTyped ==
  /\ keychain \in [References -> KeychainValue]
  /\ inherited \in BOOLEAN /\ concurrent_saves \in BOOLEAN
  /\ saves \in 0 .. MaxSaves
  /\ save_failures \in Nat /\ saver_deaths \in Nat
  /\ save_failures + saver_deaths \in 0 .. MaxSaveFailures
  /\ \A p \in Savers : Saving(p) => saves # 0
EnvironmentsTyped == EnvironmentFilesTyped /\ SavingTyped /\ EnvironmentCountsTyped

(* Whatever a file, the desktop's list or an operation refers to is stored.      *)
Resolves(variables) ==
  \A k \in VariableKeys : IsReference(variables[k]) => keychain[variables[k]] # Absent
ResolveInv ==
  /\ \A s \in Slugs : Resolves(environment_files[s].variables)
  /\ \A s \in Slugs : Resolves(environments[s].variables)
  /\ \A p \in Savers : Saving(p) => Resolves(saving[p].environment.variables)

(* Unless a reference was inherited, a file has references of its own name.      *)
OwnReferences ==
  ~inherited => \A s \in Slugs : ~Inherits(environment_files[s])

(* An operation that is alone finds the files as they were, its own new file      *)
(* aside; and a migration changes nothing of its file but stored secrets.        *)
Migrated(p, k) ==
  LET n == saving[p].environment.name
      new == saving[p].environment.variables[k]
      old == environment_files[Slug[n]].variables[k]
  IN \/ old = new /\ \A v \in SecretValues : old # Legacy(v) /\ old # Typed(v)
     \/ \E v \in SecretValues : old = Legacy(v) /\ new = Typed(v)
     \/ \E v \in SecretValues :
          old = Legacy(v) /\ new = Reference(n, k) /\ keychain[new] = <<v>>
SaveAlone(p) ==
  /\ environment_files =
       IF saving[p].phase = "remove"
       THEN [files_before EXCEPT ![Slug[saving[p].environment.name]] = saving[p].environment]
       ELSE files_before
  /\ saving[p].migrating =>
       /\ saving[p].old = "" /\ saving[p].phase = "secrets"
       /\ environment_files[Slug[saving[p].environment.name]].name = saving[p].environment.name
       /\ \A k \in VariableKeys : Migrated(p, k)
SavesAlone ==
  ~concurrent_saves =>
    /\ \A p, q \in Savers : Saving(p) /\ Saving(q) => p = q
    /\ \A p \in Savers : Saving(p) => SaveAlone(p)
EnvironmentsInv == EnvironmentsTyped /\ ResolveInv /\ OwnReferences /\ SavesAlone

(* The kinds of variables differ, and a reference belongs to one variable.      *)
LEMMA VariableKinds ==
  /\ \A v : ~IsReference(Plain(v)) /\ ~IsReference(Legacy(v)) /\ ~IsReference(Typed(v))
  /\ ~IsReference(Absent)
  /\ \A v, w : Typed(v) = Typed(w) => v = w
  /\ \A v, w : Typed(v) # Legacy(w) /\ Typed(v) # Plain(w) /\ Typed(v) # Absent
  /\ \A v, w : Legacy(v) # Plain(w) /\ Legacy(v) # Absent
  /\ \A v, w : Legacy(v) = Legacy(w) => v = w
  /\ \A m, n, j, k : Reference(m, j) = Reference(n, k) => m = n /\ j = k
  /\ \A v : Typed(v)[2] = v /\ Legacy(v)[2] = v /\ <<v>> # Absent
<1>1. \A v : ~IsReference(Plain(v)) /\ ~IsReference(Legacy(v)) /\ ~IsReference(Typed(v))
  BY DEF IsReference, References, Reference, Plain, Legacy, Typed
<1>2. ~IsReference(Absent)
  BY DEF IsReference, References, Reference, Absent
<1> QED  BY <1>1, <1>2 DEF Typed, Legacy, Plain, Absent, Reference

LEMMA ReferenceKinds ==
  ASSUME NEW n \in EnvironmentNames, NEW k \in VariableKeys
  PROVE  /\ IsReference(Reference(n, k)) /\ Reference(n, k) \in References
         /\ \A v : Reference(n, k) # Legacy(v) /\ Reference(n, k) # Typed(v)
                   /\ Reference(n, k) # Plain(v)
         /\ Reference(n, k) # Absent
<1>1. IsReference(Reference(n, k)) /\ Reference(n, k) \in References
  BY DEF IsReference, References
<1> QED  BY <1>1, VariableKinds

LEMMA NoEnvironmentFacts ==
  /\ NoEnvironment.name = "" /\ NoEnvironment \in EnvironmentRecord
  /\ NoEnvironment.variables \in [VariableKeys -> Variable]
  /\ \A k \in VariableKeys : NoEnvironment.variables[k] = Absent
  /\ NoEnvironment \notin EditedRecord
  /\ ~Inherits(NoEnvironment)
<1>1. /\ NoEnvironment.name = "" /\ NoEnvironment \in EnvironmentRecord
      /\ NoEnvironment.variables \in [VariableKeys -> Variable]
      /\ \A k \in VariableKeys : NoEnvironment.variables[k] = Absent
  BY DEF NoEnvironment, EnvironmentRecord, Variable, Absent
<1>2. NoEnvironment \notin EditedRecord
  BY <1>1, EnvironmentsAssumption DEF EditedRecord
<1> QED  BY <1>1, <1>2, VariableKinds DEF Inherits

(* What is known of an environment of a file, and of one that is edited.        *)
LEMMA RecordFacts ==
  ASSUME NEW environment \in EnvironmentRecord
  PROVE  /\ environment.variables \in [VariableKeys -> Variable]
         /\ environment # NoEnvironment => environment \in EditedRecord
                                            /\ environment.name \in EnvironmentNames
         /\ environment.name \in EnvironmentNames => environment # NoEnvironment
<1>1. CASE environment = NoEnvironment
  BY <1>1, NoEnvironmentFacts, EnvironmentsAssumption
<1>2. CASE environment # NoEnvironment
  <2>1. environment \in [name : EnvironmentNames, variables : [VariableKeys -> Variable]]
    BY <1>2 DEF EnvironmentRecord
  <2>2. environment.variables \in [VariableKeys -> EditedVariable]
    BY <2>1 DEF EditedVariable
  <2> QED  BY <1>2, <2>1, <2>2 DEF EditedRecord
<1> QED  BY <1>1, <1>2

LEMMA EditedFacts ==
  ASSUME NEW environment \in EditedRecord,
         \A k \in VariableKeys, v \in SecretValues : environment.variables[k] # Typed(v)
  PROVE  environment \in EnvironmentRecord
<1>1. environment.variables \in [VariableKeys -> Variable]
  <2>1. environment.variables \in [VariableKeys -> EditedVariable]
    BY DEF EditedRecord
  <2>2. \A k \in VariableKeys : environment.variables[k] \in Variable
    BY <2>1 DEF EditedVariable
  <2> QED  BY <2>1, <2>2
<1> QED  BY <1>1 DEF EditedRecord, EnvironmentRecord

(***************************************************************************)
(* Types of environments                                                   *)
(***************************************************************************)
LEMMA InitEnvironments == EnvironmentsInit => EnvironmentsInv
<1> SUFFICES ASSUME EnvironmentsInit PROVE EnvironmentsInv
  OBVIOUS
<1>1. EnvironmentFilesTyped
  BY NoEnvironmentFacts DEF EnvironmentsInit, EnvironmentFilesTyped
<1>2. \A p \in Savers : saving[p] = NotSaving
  BY DEF EnvironmentsInit
<1>3. \A p \in Savers : ~Saving(p)
  <2>1. NotSaving.phase = "idle"
    BY DEF NotSaving
  <2> QED  BY <1>2, <2>1 DEF Saving
<1>4. SavingTyped
  <2>1. NotSaving \in SavingRecord /\ ~NotSaving.migrating
    BY DEF NotSaving, SavingRecord
  <2> QED  BY <1>2, <1>3, <2>1 DEF EnvironmentsInit, SavingTyped, Saving
<1>5. EnvironmentCountsTyped
  <2>1. keychain \in [References -> KeychainValue]
    BY DEF EnvironmentsInit, KeychainValue
  <2>2. inherited \in BOOLEAN /\ concurrent_saves \in BOOLEAN
    BY Zenon DEF EnvironmentsInit
  <2>3. MaxSaves \in Nat /\ MaxSaveFailures \in Nat
    BY EnvironmentsAssumption
  <2>4. saves = 0 /\ save_failures = 0 /\ saver_deaths = 0
    BY DEF EnvironmentsInit
  <2>5. saves \in 0 .. MaxSaves /\ save_failures \in Nat /\ saver_deaths \in Nat
        /\ save_failures + saver_deaths \in 0 .. MaxSaveFailures
    BY <2>3, <2>4
  <2> QED  BY <1>3, <2>1, <2>2, <2>5, Zenon DEF EnvironmentCountsTyped
<1>6. ResolveInv
  BY <1>3, NoEnvironmentFacts, VariableKinds DEF EnvironmentsInit, ResolveInv, Resolves
<1>7. OwnReferences
  BY NoEnvironmentFacts DEF EnvironmentsInit, OwnReferences
<1>8. SavesAlone
  BY <1>3 DEF SavesAlone
<1> QED  BY <1>1, <1>4, <1>5, <1>6, <1>7, <1>8 DEF EnvironmentsInv, EnvironmentsTyped

(***************************************************************************)
(* The beginning of an operation                                           *)
(***************************************************************************)
(* Every operation begins with an environment whose references resolve; a         *)
(* migration with that of a file, its legacy secrets to be stored.              *)
Begins(p, old, environment, migrating) ==
  /\ BeginSave(p, old, environment, migrating)
  /\ p \in Savers /\ old \in Slugs \cup {""} /\ environment \in EditedRecord
  /\ migrating \in BOOLEAN
  /\ Resolves(environment.variables)
  /\ migrating =>
       /\ old = "" /\ environment_files[Slug[environment.name]].name = environment.name
       /\ \A k \in VariableKeys :
            LET was == environment_files[Slug[environment.name]].variables[k] IN
            \/ was = environment.variables[k]
               /\ \A v \in SecretValues : was # Legacy(v) /\ was # Typed(v)
            \/ \E v \in SecretValues : was = Legacy(v) /\ environment.variables[k] = Typed(v)
BeginStep == \E p, old, environment, migrating : Begins(p, old, environment, migrating)

LEMMA EditorBegins ==
  ASSUME EnvironmentsTyped, ResolveInv, SaveEnvironmentEditor
  PROVE  BeginStep
<1>1. PICK s \in Slugs \cup {""}, n \in EnvironmentNames :
        LET source == IF s = "" THEN NoEnvironment ELSE environments[s] IN
        \E rows \in Rows(source) :
          BeginSave("app", s, [name |-> n, variables |-> rows], FALSE)
  BY DEF SaveEnvironmentEditor
<1> DEFINE source == IF s = "" THEN NoEnvironment ELSE environments[s]
<1>2. PICK rows \in Rows(source) :
        BeginSave("app", s, [name |-> n, variables |-> rows], FALSE)
  BY <1>1
<1>3. source \in EnvironmentRecord /\ Resolves(source.variables)
  BY NoEnvironmentFacts, VariableKinds, ZenonT(30)
     DEF EnvironmentsTyped, EnvironmentFilesTyped, ResolveInv, Resolves
<1>4. source.variables \in [VariableKeys -> Variable]
  BY <1>3, RecordFacts
<1> HIDE DEF source
<1>5. rows \in [VariableKeys -> Row(source)]
  BY <1>2 DEF Rows
<1>6. ASSUME NEW k \in VariableKeys
      PROVE  /\ rows[k] \in EditedVariable
             /\ IsReference(rows[k]) => \E j \in VariableKeys : rows[k] = source.variables[j]
  <2>1. rows[k] \in Row(source)
    BY <1>5
  <2>2. \/ rows[k] = Absent
        \/ \E v \in SecretValues : rows[k] = Plain(v)
        \/ \E v \in SecretValues : rows[k] = Typed(v)
        \/ \E j \in VariableKeys : rows[k] = source.variables[j]
    BY <2>1 DEF Row
  <2>3. rows[k] \in EditedVariable
    BY <2>2, <1>4 DEF EditedVariable, Variable
  <2> QED  BY <2>2, <2>3, VariableKinds, ZenonT(30)
<1>7. rows \in [VariableKeys -> EditedVariable]
  BY <1>5, <1>6
<1>8. Resolves(rows)
  BY <1>3, <1>6 DEF Resolves
<1>9. [name |-> n, variables |-> rows] \in EditedRecord
  BY <1>7 DEF EditedRecord
<1>10. "app" \in Savers /\ [name |-> n, variables |-> rows].variables = rows
  BY DEF Savers
<1>11. Begins("app", s, [name |-> n, variables |-> rows], FALSE)
  BY <1>2, <1>8, <1>9, <1>10 DEF Begins
<1> QED  BY <1>11, Zenon DEF BeginStep

(* The operations of the command line, with a new or an imported environment.    *)
LEMMA CommandBegins ==
  ASSUME NEW n \in EnvironmentNames, NEW variables \in [VariableKeys -> EditedVariable],
         Resolves(variables),
         BeginSave("cli", "", [name |-> n, variables |-> variables], FALSE)
  PROVE  BeginStep
<1>1. [name |-> n, variables |-> variables] \in EditedRecord
  BY DEF EditedRecord
<1>2. "cli" \in Savers /\ [name |-> n, variables |-> variables].variables = variables
  BY DEF Savers
<1>3. Begins("cli", "", [name |-> n, variables |-> variables], FALSE)
  BY <1>1, <1>2 DEF Begins
<1> QED  BY <1>3, Zenon DEF BeginStep

LEMMA SetBegins ==
  ASSUME EnvironmentsTyped, ResolveInv, SetEnvironment
  PROVE  BeginStep
<1>1. PICK n \in EnvironmentNames, k \in VariableKeys, v \in SecretValues :
        \E variable \in {Plain(v), Typed(v)} :
          LET found == {s \in Slugs : environment_files[s].name = n}
              base == IF found = {} THEN NoEnvironment
                      ELSE environment_files[CHOOSE s \in found : TRUE]
          IN BeginSave("cli", "",
               [name |-> n, variables |-> [base.variables EXCEPT ![k] = variable]], FALSE)
  BY DEF SetEnvironment
<1> DEFINE found == {s \in Slugs : environment_files[s].name = n}
           base == IF found = {} THEN NoEnvironment
                   ELSE environment_files[CHOOSE s \in found : TRUE]
<1>2. PICK variable \in {Plain(v), Typed(v)} :
        BeginSave("cli", "",
          [name |-> n, variables |-> [base.variables EXCEPT ![k] = variable]], FALSE)
  BY <1>1
<1>3. base \in EnvironmentRecord /\ Resolves(base.variables)
  BY NoEnvironmentFacts, VariableKinds, ZenonT(30)
     DEF EnvironmentsTyped, EnvironmentFilesTyped, ResolveInv, Resolves
<1>4. base.variables \in [VariableKeys -> Variable]
  BY <1>3, RecordFacts
<1> HIDE DEF base
<1>5. variable \in EditedVariable /\ ~IsReference(variable)
  BY VariableKinds DEF EditedVariable, Variable
<1> DEFINE new == [base.variables EXCEPT ![k] = variable]
<1>6. new \in [VariableKeys -> EditedVariable]
  BY <1>4, <1>5 DEF EditedVariable
<1>7. Resolves(new)
  BY <1>3, <1>4, <1>5 DEF Resolves
<1> HIDE DEF new
<1>8. BeginSave("cli", "", [name |-> n, variables |-> new], FALSE)
  BY <1>2 DEF new
<1> QED  BY <1>6, <1>7, <1>8, CommandBegins

LEMMA ImportBegins ==
  ASSUME ImportEnvironment \/ ImportDotenv
  PROVE  BeginStep
<1>1. PICK n \in EnvironmentNames,
           variables \in [VariableKeys ->
             {Absent} \cup {Plain(v) : v \in SecretValues} \cup
             {Typed(v) : v \in SecretValues} \cup {Legacy(v) : v \in SecretValues}] :
        BeginSave("cli", "", [name |-> n, variables |-> variables], FALSE)
  <2>1. CASE ImportDotenv
    BY <2>1 DEF ImportDotenv
  <2>2. CASE ImportEnvironment
    <3>1. PICK n \in EnvironmentNames, secure \in BOOLEAN :
            \E variables \in [VariableKeys ->
                {Absent} \cup {Plain(v) : v \in SecretValues}
                  \cup {IF secure THEN Typed(v) ELSE Legacy(v) : v \in SecretValues}] :
              BeginSave("cli", "", [name |-> n, variables |-> variables], FALSE)
      BY <2>2 DEF ImportEnvironment
    <3>2. CASE secure
      BY <3>1, <3>2
    <3>3. CASE ~secure
      BY <3>1, <3>3
    <3> QED  BY <3>2, <3>3
  <2> QED  BY <2>1, <2>2
<1>2. ASSUME NEW k \in VariableKeys
      PROVE  variables[k] \in EditedVariable /\ ~IsReference(variables[k])
  <2>1. \/ variables[k] = Absent
        \/ \E v \in SecretValues :
             \/ variables[k] = Plain(v)
             \/ variables[k] = Typed(v)
             \/ variables[k] = Legacy(v)
    BY <1>1
  <2>2. variables[k] \in EditedVariable
    BY <2>1 DEF EditedVariable, Variable
  <2> QED  BY <2>1, <2>2, VariableKinds
<1>3. variables \in [VariableKeys -> EditedVariable] /\ Resolves(variables)
  BY <1>1, <1>2 DEF Resolves
<1> QED  BY <1>1, <1>3, CommandBegins

LEMMA MigrationBegins ==
  ASSUME EnvironmentsTyped, ResolveInv, MigrateEnvironmentSecrets
  PROVE  BeginStep
<1>1. PICK s \in Slugs :
        LET environment == environment_files[s] IN
        /\ \E k \in VariableKeys, v \in SecretValues : environment.variables[k] = Legacy(v)
        /\ BeginSave("cli", "",
             [environment EXCEPT !.variables = [k \in VariableKeys |->
                IF @[k] \in {Legacy(v) : v \in SecretValues} THEN Typed(@[k][2]) ELSE @[k]]],
             TRUE)
  BY DEF MigrateEnvironmentSecrets
<1> DEFINE environment == environment_files[s]
           n == environment.name
           was == environment.variables
           new == [k \in VariableKeys |->
                     IF was[k] \in {Legacy(v) : v \in SecretValues}
                     THEN Typed(was[k][2]) ELSE was[k]]
<1>2. environment \in EnvironmentRecord /\ Resolves(was)
  BY DEF EnvironmentsTyped, EnvironmentFilesTyped, ResolveInv
<1>3. environment # NoEnvironment
  BY <1>1, NoEnvironmentFacts, VariableKinds
<1>4. n \in EnvironmentNames /\ was \in [VariableKeys -> Variable] /\ s = Slug[n]
  BY <1>2, <1>3, RecordFacts DEF EnvironmentsTyped, EnvironmentFilesTyped
<1>5. environment \in [name : EnvironmentNames, variables : [VariableKeys -> Variable]]
  BY <1>2, <1>3 DEF EnvironmentRecord
<1>6. BeginSave("cli", "", [environment EXCEPT !.variables = new], TRUE)
  BY <1>1
<1>7. [environment EXCEPT !.variables = new] = [name |-> n, variables |-> new]
  BY <1>5
<1>8. ASSUME NEW k \in VariableKeys
      PROVE  \/ was[k] = new[k]
                /\ \A v \in SecretValues : was[k] # Legacy(v) /\ was[k] # Typed(v)
             \/ \E v \in SecretValues : was[k] = Legacy(v) /\ new[k] = Typed(v)
  <2>1. CASE was[k] \in {Legacy(v) : v \in SecretValues}
    BY <2>1, VariableKinds
  <2>2. CASE was[k] \notin {Legacy(v) : v \in SecretValues}
    <3>1. was[k] \in Variable
      BY <1>4
    <3>2. \A v \in SecretValues : was[k] # Typed(v)
      BY <3>1, VariableKinds, ReferenceKinds DEF Variable, References
    <3> QED  BY <2>2, <3>2
  <2> QED  BY <2>1, <2>2
<1> DEFINE saved == [name |-> n, variables |-> new]
<1>9. saved.name = n /\ saved.variables = new
  OBVIOUS
<1>10. \A k \in VariableKeys : new[k] \in EditedVariable
  BY <1>4, <1>8 DEF EditedVariable
<1>11. new \in [VariableKeys -> EditedVariable]
  BY <1>10
<1> HIDE DEF new, saved
<1>12. Resolves(new)
  BY <1>2, <1>8, VariableKinds DEF Resolves
<1>13. saved \in EditedRecord
  BY <1>4, <1>11 DEF EditedRecord, saved
<1>14. "cli" \in Savers /\ BeginSave("cli", "", saved, TRUE)
  BY <1>6, <1>7 DEF Savers, saved
<1>15. Begins("cli", "", saved, TRUE)
  BY <1>4, <1>8, <1>9, <1>12, <1>13, <1>14 DEF Begins
<1> QED  BY <1>15, Zenon DEF BeginStep

(***************************************************************************)
(* The steps of an operation                                               *)
(***************************************************************************)
LEMMA SavingFacts ==
  ASSUME EnvironmentsTyped, NEW p \in Savers
  PROVE  /\ saving[p] \in SavingRecord
         /\ Saving(p) =>
              /\ saving[p].environment \in EditedRecord
              /\ saving[p].environment.name \in EnvironmentNames
              /\ Slug[saving[p].environment.name] \in Slugs
              /\ saving[p].environment.variables \in [VariableKeys -> EditedVariable]
         /\ saving[p].phase = "remove" =>
              /\ saving[p].old \in Slugs
              /\ saving[p].old # Slug[saving[p].environment.name]
              /\ saving[p].environment \in EnvironmentRecord
<1>1. saving[p] \in SavingRecord
  BY DEF EnvironmentsTyped, SavingTyped
<1>2. Saving(p) => saving[p].environment \in EditedRecord
  BY DEF EnvironmentsTyped, SavingTyped
<1>3. saving[p].old \in Slugs \cup {""}
  BY <1>1 DEF SavingRecord
<1>4. saving[p].phase = "remove" =>
        /\ saving[p].old \notin {"", Slug[saving[p].environment.name]}
        /\ saving[p].environment \in EnvironmentRecord
  BY DEF EnvironmentsTyped, SavingTyped
<1>5. \A r \in EditedRecord :
        /\ r.name \in EnvironmentNames /\ Slug[r.name] \in Slugs
        /\ r.variables \in [VariableKeys -> EditedVariable]
  BY DEF EditedRecord, Slugs
<1> QED  BY <1>1, <1>2, <1>3, <1>4, <1>5

(* An operation goes on, ...                                                *)
LEMMA SavingGoesOn ==
  ASSUME EnvironmentsTyped, NEW p \in Savers, NEW w \in SavingRecord,
         saving' = [saving EXCEPT ![p] = w],
         w.phase # "idle" => w.environment \in EditedRecord,
         w.migrating => w.phase # "idle",
         w.phase = "remove" => /\ w.old \notin {"", Slug[w.environment.name]}
                               /\ w.environment \in EnvironmentRecord
  PROVE  /\ SavingTyped' /\ saving'[p] = w
         /\ \A q \in Savers : q # p => saving'[q] = saving[q]
<1>1. saving \in [Savers -> SavingRecord]
  BY DEF EnvironmentsTyped, SavingTyped
<1>2. saving' \in [Savers -> SavingRecord]
  BY <1>1
<1>3. saving'[p] = w /\ \A q \in Savers : q # p => saving'[q] = saving[q]
  BY <1>1
<1>4. ASSUME NEW q \in Savers
      PROVE  /\ Saving(q)' => saving'[q].environment \in EditedRecord
             /\ saving'[q].migrating => Saving(q)'
             /\ saving'[q].phase = "remove" =>
                  /\ saving'[q].old \notin {"", Slug[saving'[q].environment.name]}
                  /\ saving'[q].environment \in EnvironmentRecord
  BY <1>3 DEF EnvironmentsTyped, SavingTyped, Saving
<1> QED  BY <1>2, <1>3, <1>4 DEF SavingTyped

(* ... or ends.                                                             *)
LEMMA SavingEnds ==
  ASSUME EnvironmentsTyped, NEW p \in Savers, saving' = [saving EXCEPT ![p] = NotSaving]
  PROVE  /\ SavingTyped' /\ ~Saving(p)'
         /\ \A q \in Savers : q # p => saving'[q] = saving[q]
<1>1. NotSaving \in SavingRecord /\ NotSaving.phase = "idle" /\ ~NotSaving.migrating
  BY DEF NotSaving, SavingRecord
<1> QED  BY <1>1, SavingGoesOn DEF Saving

(* The next secret: the variable becomes a reference to what is now stored.      *)
LEMMA StoreFacts ==
  ASSUME EnvironmentsTyped, NEW p \in Savers, StoreNextSecret(p)
  PROVE  \E k \in VariableKeys, v \in SecretValues, w \in SavingRecord :
           LET n == saving[p].environment.name IN
           /\ saving[p].phase = "secrets" /\ w.phase = "secrets"
           /\ saving[p].environment.variables[k] = Typed(v)
           /\ keychain' = [keychain EXCEPT ![Reference(n, k)] = <<v>>]
           /\ saving' = [saving EXCEPT ![p] = w]
           /\ w.old = saving[p].old /\ w.migrating = saving[p].migrating
           /\ w.environment \in EditedRecord /\ w.environment.name = n
           /\ w.environment.variables[k] = Reference(n, k)
           /\ \A j \in VariableKeys : j # k =>
                w.environment.variables[j] = saving[p].environment.variables[j]
<1> DEFINE n == saving[p].environment.name
           environment == saving[p].environment
<1>1. saving[p].phase = "secrets"
  BY DEF StoreNextSecret
<1>2. PICK k \in Unstored(p) : StoreSecret(p, k)
  BY DEF StoreNextSecret
<1>3. k \in VariableKeys
  BY <1>2 DEF Unstored
<1>4. PICK v \in SecretValues : environment.variables[k] = Typed(v)
  BY <1>2 DEF Unstored
<1>5. keychain' = [keychain EXCEPT ![Reference(n, k)] = <<v>>]
  BY <1>2, <1>4, VariableKinds DEF StoreSecret
<1>6. /\ saving[p] \in SavingRecord /\ environment \in EditedRecord
      /\ n \in EnvironmentNames /\ environment.variables \in [VariableKeys -> EditedVariable]
  BY <1>1, SavingFacts DEF Saving
<1> DEFINE variables == [environment.variables EXCEPT ![k] = Reference(n, k)]
           new == [name |-> n, variables |-> variables]
           w == [saving[p] EXCEPT !.environment = new]
<1>7. environment = [name |-> n, variables |-> environment.variables]
  BY <1>6 DEF EditedRecord
<1>8. saving' = [saving EXCEPT ![p] = w]
  <2>1. [environment EXCEPT !.variables[k] = Reference(n, k)] = new
    BY <1>7
  <2>2. [saving[p] EXCEPT !.environment.variables[k] = Reference(n, k)] = w
    BY <2>1, <1>6 DEF SavingRecord
  <2> QED  BY <1>2, <2>2 DEF StoreSecret
<1>9. Reference(n, k) \in EditedVariable
  BY <1>3, <1>6, ReferenceKinds DEF EditedVariable, Variable
<1>10. variables \in [VariableKeys -> EditedVariable]
  BY <1>3, <1>6, <1>9
<1>11. new \in EditedRecord
  BY <1>6, <1>10 DEF EditedRecord
<1>12. /\ variables[k] = Reference(n, k)
       /\ \A j \in VariableKeys : j # k => variables[j] = environment.variables[j]
  BY <1>3, <1>6
<1>13. new.name = n /\ new.variables = variables
  OBVIOUS
<1> HIDE DEF new, variables
<1>14. /\ w \in SavingRecord /\ w.phase = "secrets" /\ w.old = saving[p].old
       /\ w.migrating = saving[p].migrating /\ w.environment = new
  BY <1>1, <1>6, <1>11 DEF SavingRecord
<1> HIDE DEF w
<1>15. /\ w.environment \in EditedRecord /\ w.environment.name = n
       /\ w.environment.variables[k] = Reference(n, k)
       /\ \A j \in VariableKeys : j # k =>
            w.environment.variables[j] = environment.variables[j]
  BY <1>11, <1>12, <1>13, <1>14
<1> QED  BY <1>1, <1>3, <1>4, <1>5, <1>8, <1>14, <1>15

(* The new file: written under the slug of its name, which ends the operation     *)
(* unless an old file is still to be removed.                                *)
LEMMA WriteEnvironmentFacts ==
  ASSUME EnvironmentsTyped, NEW p \in Savers, WriteEnvironment(p)
  PROVE  LET environment == saving[p].environment
             new == Slug[saving[p].environment.name]
         IN /\ saving[p].phase = "secrets" /\ Saving(p)
            /\ environment \in EnvironmentRecord /\ environment # NoEnvironment
            /\ environment_files' = [environment_files EXCEPT ![new] = environment]
            /\ inherited' = (inherited \/ Inherits(environment))
            /\ \/ /\ saving' = [saving EXCEPT ![p] = NotSaving] /\ Reread(p)
                  /\ saving[p].old \in {"", new}
               \/ \E w \in SavingRecord :
                    /\ saving' = [saving EXCEPT ![p] = w]
                    /\ w.phase = "remove" /\ w.environment = environment
                    /\ w.old = saving[p].old /\ w.migrating = saving[p].migrating
                    /\ saving[p].old \notin {"", new}
                    /\ UNCHANGED environments
            /\ UNCHANGED <<keychain, concurrent_saves, files_before, saves, save_failures,
                           saver_deaths>>
<1> DEFINE environment == saving[p].environment
           new == Slug[saving[p].environment.name]
<1>1. saving[p].phase = "secrets" /\ Unstored(p) = {} /\ Saving(p)
  BY DEF WriteEnvironment, Saving
<1>2. /\ environment \in EditedRecord /\ environment.name \in EnvironmentNames
      /\ saving[p] \in SavingRecord
  BY <1>1, SavingFacts
<1>3. environment \in EnvironmentRecord
  BY <1>1, <1>2, EditedFacts DEF Unstored
<1>4. environment # NoEnvironment
  BY <1>2, NoEnvironmentFacts, EnvironmentsAssumption
<1>5. /\ environment_files' = [environment_files EXCEPT ![new] = environment]
      /\ inherited' = (inherited \/ Inherits(environment))
      /\ UNCHANGED <<keychain, concurrent_saves, files_before, saves, save_failures,
                     saver_deaths>>
  BY DEF WriteEnvironment
<1>6. CASE saving[p].old \in {"", new}
  <2>1. saving' = [saving EXCEPT ![p] = NotSaving] /\ Reread(p)
    BY <1>6 DEF WriteEnvironment
  <2> QED  BY <1>1, <1>3, <1>4, <1>5, <1>6, <2>1
<1>7. CASE saving[p].old \notin {"", new}
  <2> DEFINE w == [saving[p] EXCEPT !.phase = "remove"]
  <2>1. saving' = [saving EXCEPT ![p] = w] /\ UNCHANGED environments
    BY <1>7 DEF WriteEnvironment
  <2>2. /\ w \in SavingRecord /\ w.phase = "remove" /\ w.environment = environment
        /\ w.old = saving[p].old /\ w.migrating = saving[p].migrating
    BY <1>2 DEF SavingRecord
  <2> HIDE DEF w
  <2> QED  BY <1>1, <1>3, <1>4, <1>5, <1>7, <2>1, <2>2
<1> QED  BY <1>6, <1>7

(* A file that is taken away, by a removal or a rollback.                      *)
FileTaken(s) == environment_files' = [environment_files EXCEPT ![s] = NoEnvironment]

LEMMA FailureFacts ==
  ASSUME EnvironmentsTyped, NEW p \in Savers, SaveFails(p)
  PROVE  /\ Saving(p) /\ saving' = [saving EXCEPT ![p] = NotSaving]
         /\ \/ saving[p].phase = "remove" /\ FileTaken(Slug[saving[p].environment.name])
            \/ saving[p].phase # "remove" /\ UNCHANGED environment_files
         /\ UNCHANGED <<keychain, environments, inherited, concurrent_saves, files_before,
                        saves, saver_deaths>>
         /\ \/ MayFail /\ save_failures' = save_failures + 1
            \/ UNCHANGED save_failures
  BY DEF SaveFails, Saving, RollBack, FileTaken

LEMMA EnvironmentsCases ==
  ASSUME EnvironmentsTyped, ResolveInv, [EnvironmentsNext]_environmentVars
  PROVE  \/ BeginStep
         \/ CheckOutEnvironment
         \/ \E p \in Savers : \/ StoreNextSecret(p) \/ WriteEnvironment(p)
                              \/ RemoveOldEnvironment(p) \/ SaveFails(p) \/ SaverDies(p)
         \/ UNCHANGED environmentVars
  BY EditorBegins, SetBegins, ImportBegins, MigrationBegins DEF EnvironmentsNext

(* Writing a file under the slug of its name, or taking one away, keeps every      *)
(* file in its place.                                                        *)
LEMMA FilesInPlace ==
  ASSUME EnvironmentFilesTyped, NEW s \in Slugs, NEW environment \in EnvironmentRecord,
         environment # NoEnvironment => s = Slug[environment.name],
         environment_files' = [environment_files EXCEPT ![s] = environment]
  PROVE  /\ environment_files' \in [Slugs -> EnvironmentRecord]
         /\ \A t \in Slugs : environment_files'[t] # NoEnvironment =>
              t = Slug[environment_files'[t].name]
         /\ environment_files'[s] = environment
         /\ \A t \in Slugs : t # s => environment_files'[t] = environment_files[t]
<1>1. environment_files \in [Slugs -> EnvironmentRecord]
  BY DEF EnvironmentFilesTyped
<1>2. /\ environment_files' \in [Slugs -> EnvironmentRecord]
      /\ environment_files'[s] = environment
      /\ \A t \in Slugs : t # s => environment_files'[t] = environment_files[t]
  BY <1>1
<1>3. ASSUME NEW t \in Slugs, environment_files'[t] # NoEnvironment
      PROVE  t = Slug[environment_files'[t].name]
  BY <1>2, <1>3 DEF EnvironmentFilesTyped
<1> QED  BY <1>2, <1>3

LEMMA StepEnvironmentFiles ==
  ASSUME EnvironmentsTyped, ResolveInv, [EnvironmentsNext]_environmentVars
  PROVE  EnvironmentFilesTyped'
<1>a. EnvironmentFilesTyped
  BY DEF EnvironmentsTyped
<1>b. ASSUME UNCHANGED environment_files,
             environments' \in {environments, environment_files},
             files_before' \in {files_before, environment_files}
      PROVE  EnvironmentFilesTyped'
  <2>1. environments' \in [Slugs -> EnvironmentRecord]
        /\ files_before' \in [Slugs -> EnvironmentRecord]
    BY <1>a, <1>b DEF EnvironmentFilesTyped
  <2> QED  BY <1>a, <1>b, <2>1 DEF EnvironmentFilesTyped
<1>c. ASSUME NEW s \in Slugs, NEW environment \in EnvironmentRecord,
             environment # NoEnvironment => s = Slug[environment.name],
             environment_files' = [environment_files EXCEPT ![s] = environment],
             environments' \in {environments, environment_files'}, UNCHANGED files_before
      PROVE  EnvironmentFilesTyped'
  <2>1. /\ environment_files' \in [Slugs -> EnvironmentRecord]
        /\ \A t \in Slugs : environment_files'[t] # NoEnvironment =>
             t = Slug[environment_files'[t].name]
    BY <1>a, <1>c, FilesInPlace
  <2>2. environments' \in [Slugs -> EnvironmentRecord]
    BY <1>a, <1>c, <2>1 DEF EnvironmentFilesTyped
  <2> QED  BY <1>a, <1>c, <2>1, <2>2 DEF EnvironmentFilesTyped
<1>1. CASE BeginStep
  BY <1>1, <1>b DEF BeginStep, Begins, BeginSave
<1>2. CASE CheckOutEnvironment
  <2>1. PICK n \in EnvironmentNames, k \in VariableKeys, v \in SecretValues :
          /\ environment_files' = [environment_files EXCEPT ![Slug[n]] =
               [name |-> n, variables |-> [NoEnvironment.variables EXCEPT ![k] = Legacy(v)]]]
          /\ environments' = environment_files'
          /\ UNCHANGED files_before
    BY <1>2 DEF CheckOutEnvironment, environmentHistoryVars
  <2> DEFINE variables == [NoEnvironment.variables EXCEPT ![k] = Legacy(v)]
             environment == [name |-> n, variables |-> variables]
  <2>2. variables \in [VariableKeys -> Variable]
    BY NoEnvironmentFacts DEF Variable
  <2>3. environment \in EnvironmentRecord /\ environment.name = n
    BY <2>2 DEF EnvironmentRecord
  <2>4. Slug[n] \in Slugs
    BY DEF Slugs
  <2> HIDE DEF variables
  <2>5. environment_files' = [environment_files EXCEPT ![Slug[n]] = environment]
    BY <2>1 DEF variables
  <2> HIDE DEF environment
  <2> QED  BY <1>c, <2>1, <2>3, <2>4, <2>5
<1>3. ASSUME NEW p \in Savers, StoreNextSecret(p) PROVE EnvironmentFilesTyped'
  BY <1>3, <1>b DEF StoreNextSecret, environmentHistoryVars
<1>4. ASSUME NEW p \in Savers, WriteEnvironment(p) PROVE EnvironmentFilesTyped'
  <2>1. Slug[saving[p].environment.name] \in Slugs
    BY <1>4, WriteEnvironmentFacts, SavingFacts
  <2>2. environments' \in {environments, environment_files'}
    BY <1>4, WriteEnvironmentFacts DEF Reread
  <2> QED  BY <1>4, <1>c, <2>1, <2>2, WriteEnvironmentFacts
<1>5. ASSUME NEW p \in Savers, RemoveOldEnvironment(p) PROVE EnvironmentFilesTyped'
  <2>1. saving[p].old \in Slugs
    BY <1>5, SavingFacts DEF RemoveOldEnvironment
  <2> QED
    BY <1>5, <1>c, <2>1, NoEnvironmentFacts
       DEF RemoveOldEnvironment, Reread, environmentHistoryVars
<1>6. ASSUME NEW p \in Savers, SaveFails(p) PROVE EnvironmentFilesTyped'
  <2>1. Slug[saving[p].environment.name] \in Slugs
    BY <1>6, FailureFacts, SavingFacts
  <2> QED  BY <1>6, <1>b, <1>c, <2>1, FailureFacts, NoEnvironmentFacts DEF FileTaken
<1>7. ASSUME NEW p \in Savers, SaverDies(p) PROVE EnvironmentFilesTyped'
  BY <1>7, <1>b DEF SaverDies
<1>8. CASE UNCHANGED environmentVars
  BY <1>8, <1>b DEF environmentVars, environmentHistoryVars
<1> QED
  BY <1>1, <1>2, <1>3, <1>4, <1>5, <1>6, <1>7, <1>8, EnvironmentsCases

LEMMA StepSavingTyped ==
  ASSUME EnvironmentsTyped, ResolveInv, [EnvironmentsNext]_environmentVars
  PROVE  SavingTyped'
<1>a. ASSUME UNCHANGED saving PROVE SavingTyped'
  BY <1>a DEF EnvironmentsTyped, SavingTyped, Saving
<1>1. CASE BeginStep
  <2>1. PICK p, old, environment, migrating : Begins(p, old, environment, migrating)
    BY <1>1, Zenon DEF BeginStep
  <2> DEFINE w == [phase |-> "secrets", old |-> old, environment |-> environment,
                   migrating |-> migrating]
  <2>2. p \in Savers /\ saving' = [saving EXCEPT ![p] = w] /\ environment \in EditedRecord
    BY <2>1 DEF Begins, BeginSave
  <2>3. w \in SavingRecord /\ w.phase = "secrets" /\ w.environment = environment
    BY <2>1 DEF Begins, SavingRecord
  <2> HIDE DEF w
  <2> QED  BY <2>2, <2>3, SavingGoesOn
<1>3. ASSUME NEW p \in Savers, StoreNextSecret(p) PROVE SavingTyped'
  BY <1>3, StoreFacts, SavingGoesOn
<1>4. ASSUME NEW p \in Savers, WriteEnvironment(p) PROVE SavingTyped'
  <2>1. saving[p].environment \in EditedRecord
    BY <1>4, WriteEnvironmentFacts, SavingFacts
  <2> QED  BY <1>4, <2>1, WriteEnvironmentFacts, SavingGoesOn, SavingEnds
<1>5. ASSUME NEW p \in Savers, RemoveOldEnvironment(p) \/ SaveFails(p) \/ SaverDies(p)
      PROVE  SavingTyped'
  BY <1>5, SavingEnds DEF RemoveOldEnvironment, SaveFails, SaverDies
<1>6. CASE CheckOutEnvironment \/ UNCHANGED environmentVars
  BY <1>6, <1>a DEF CheckOutEnvironment, environmentVars
<1> QED  BY <1>1, <1>3, <1>4, <1>5, <1>6, EnvironmentsCases

LEMMA StepEnvironmentCounts ==
  ASSUME EnvironmentsTyped, ResolveInv, [EnvironmentsNext]_environmentVars
  PROVE  EnvironmentCountsTyped'
<1>1. keychain' \in [References -> KeychainValue]
  <2>1. ASSUME NEW p \in Savers, StoreNextSecret(p)
        PROVE  keychain' \in [References -> KeychainValue]
    <3>1. PICK k \in VariableKeys, v \in SecretValues :
            /\ keychain' = [keychain EXCEPT ![Reference(saving[p].environment.name, k)] = <<v>>]
            /\ saving[p].phase = "secrets"
      BY <2>1, StoreFacts
    <3>2. Reference(saving[p].environment.name, k) \in References
      BY <3>1, SavingFacts, ReferenceKinds DEF Saving
    <3>3. <<v>> \in KeychainValue
      BY DEF KeychainValue
    <3> QED  BY <3>1, <3>2, <3>3 DEF EnvironmentsTyped, EnvironmentCountsTyped
  <2>2. CASE UNCHANGED keychain
    BY <2>2 DEF EnvironmentsTyped, EnvironmentCountsTyped
  <2> QED
    BY <2>1, <2>2, EnvironmentsCases, Zenon
       DEF BeginStep, Begins, BeginSave, CheckOutEnvironment, WriteEnvironment,
           RemoveOldEnvironment, SaveFails, SaverDies, environmentVars
<1>2. inherited \in BOOLEAN /\ concurrent_saves \in BOOLEAN
      /\ saves \in 0 .. MaxSaves /\ save_failures \in Nat /\ saver_deaths \in Nat
      /\ save_failures + saver_deaths \in 0 .. MaxSaveFailures
      /\ \A p \in Savers : Saving(p) => saves # 0
  BY Zenon DEF EnvironmentsTyped, EnvironmentCountsTyped
<1>3. inherited' \in BOOLEAN /\ concurrent_saves' \in BOOLEAN
  BY <1>2, EnvironmentsCases, Zenon, SMTT(60)
     DEF BeginStep, Begins, BeginSave, CheckOutEnvironment, StoreNextSecret, WriteEnvironment,
         RemoveOldEnvironment, SaveFails, SaverDies, environmentVars, environmentHistoryVars
<1>4. MaxSaves \in Nat /\ MaxSaveFailures \in Nat
  BY EnvironmentsAssumption
<1>5. /\ saves' \in 0 .. MaxSaves
      /\ saves # 0 => saves' # 0
  <2>1. \/ saves' = saves
        \/ saves < MaxSaves /\ saves' = saves + 1
    BY EnvironmentsCases, Zenon, SMTT(60)
       DEF BeginStep, Begins, BeginSave, CheckOutEnvironment, StoreNextSecret, WriteEnvironment,
           RemoveOldEnvironment, SaveFails, SaverDies, environmentVars, environmentHistoryVars
  <2> QED  BY <1>2, <1>4, <2>1
<1>6. /\ save_failures' \in Nat /\ saver_deaths' \in Nat
      /\ save_failures' + saver_deaths' \in 0 .. MaxSaveFailures
  <2>1. \/ UNCHANGED <<save_failures, saver_deaths>>
        \/ /\ save_failures + saver_deaths < MaxSaveFailures
           /\ \/ save_failures' = save_failures + 1 /\ saver_deaths' = saver_deaths
              \/ saver_deaths' = saver_deaths + 1 /\ save_failures' = save_failures
    BY EnvironmentsCases, Zenon, SMTT(60)
       DEF BeginStep, Begins, BeginSave, CheckOutEnvironment, StoreNextSecret, WriteEnvironment,
           RemoveOldEnvironment, SaveFails, SaverDies, MayFail, environmentVars,
           environmentHistoryVars
  <2> QED  BY <1>2, <1>4, <2>1
<1>7. ASSUME NEW p \in Savers, Saving(p)' PROVE saves' # 0
  <2>1. CASE BeginStep
    <3>1. saves' = saves + 1
      BY <2>1, Zenon DEF BeginStep, Begins, BeginSave
    <3>2. saves \in Nat
      BY <1>2
    <3> QED  BY <3>1, <3>2
  <2>2. CASE Saving(p)
    BY <1>2, <1>5, <2>2
  <2>3. CASE ~BeginStep /\ ~Saving(p)
    <3>1. ASSUME NEW q \in Savers, StoreNextSecret(q) PROVE Saving(p)
      <4>1. PICK w \in SavingRecord :
              /\ saving' = [saving EXCEPT ![q] = w]
              /\ w.phase = "secrets" /\ saving[q].phase = "secrets"
              /\ w.environment \in EditedRecord
        BY <3>1, StoreFacts
      <4>2. \A r \in Savers : r # q => saving'[r] = saving[r]
        BY <4>1, SavingGoesOn
      <4> QED  BY <1>7, <4>1, <4>2 DEF Saving
    <3>2. ASSUME NEW q \in Savers, WriteEnvironment(q) PROVE Saving(p)
      <4>1. saving[q].environment \in EditedRecord
        BY <3>2, WriteEnvironmentFacts, SavingFacts
      <4> QED  BY <1>7, <3>2, <4>1, WriteEnvironmentFacts, SavingGoesOn, SavingEnds, ZenonT(30) DEF Saving
    <3>3. ASSUME NEW q \in Savers,
                 RemoveOldEnvironment(q) \/ SaveFails(q) \/ SaverDies(q)
          PROVE  Saving(p)
      <4>1. saving' = [saving EXCEPT ![q] = NotSaving]
        BY <3>3 DEF RemoveOldEnvironment, SaveFails, SaverDies
      <4> QED  BY <1>7, <4>1, SavingEnds DEF Saving
    <3>4. CASE UNCHANGED saving
      BY <1>7, <2>3, <3>4 DEF Saving
    <3> QED
      BY <2>3, <3>1, <3>2, <3>3, <3>4, EnvironmentsCases
         DEF CheckOutEnvironment, environmentVars
  <2> QED  BY <2>1, <2>2, <2>3
<1> QED  BY <1>1, <1>3, <1>5, <1>6, <1>7, Zenon DEF EnvironmentCountsTyped

LEMMA StepEnvironmentsTyped ==
  ASSUME EnvironmentsTyped, ResolveInv, [EnvironmentsNext]_environmentVars
  PROVE  EnvironmentsTyped'
  BY StepEnvironmentFiles, StepSavingTyped, StepEnvironmentCounts DEF EnvironmentsTyped

(***************************************************************************)
(* References resolve                                                      *)
(***************************************************************************)
ResolvesNext(variables) ==
  \A k \in VariableKeys : IsReference(variables[k]) => keychain'[variables[k]] # Absent

(* Nothing that is stored is ever taken from the keychain.                     *)
LEMMA KeychainKeeps ==
  ASSUME EnvironmentsTyped, ResolveInv, [EnvironmentsNext]_environmentVars,
         NEW variables, Resolves(variables)
  PROVE  ResolvesNext(variables)
<1>1. ASSUME NEW p \in Savers, StoreNextSecret(p) PROVE ResolvesNext(variables)
  <2>1. PICK k \in VariableKeys, v \in SecretValues :
          keychain' = [keychain EXCEPT ![Reference(saving[p].environment.name, k)] = <<v>>]
    BY <1>1, StoreFacts
  <2>2. keychain \in [References -> KeychainValue]
    BY DEF EnvironmentsTyped, EnvironmentCountsTyped
  <2>3. ASSUME NEW r \in References, keychain[r] # Absent PROVE keychain'[r] # Absent
    BY <2>1, <2>2, <2>3, VariableKinds
  <2> QED  BY <2>3 DEF Resolves, ResolvesNext, IsReference
<1>2. CASE UNCHANGED keychain
  BY <1>2 DEF Resolves, ResolvesNext
<1> QED
  BY <1>1, <1>2, EnvironmentsCases, Zenon
     DEF BeginStep, Begins, BeginSave, CheckOutEnvironment, WriteEnvironment,
         RemoveOldEnvironment, SaveFails, SaverDies, environmentVars

LEMMA StepResolveInv ==
  ASSUME EnvironmentsTyped, ResolveInv, [EnvironmentsNext]_environmentVars
  PROVE  ResolveInv'
<1> DEFINE Files == \A s \in Slugs : ResolvesNext(environment_files'[s].variables)
           List == \A s \in Slugs : ResolvesNext(environments'[s].variables)
           Edits == \A p \in Savers : Saving(p)' =>
                      ResolvesNext(saving'[p].environment.variables)
<1>a. /\ \A s \in Slugs : ResolvesNext(environment_files[s].variables)
      /\ \A s \in Slugs : ResolvesNext(environments[s].variables)
      /\ \A p \in Savers : Saving(p) => ResolvesNext(saving[p].environment.variables)
  BY KeychainKeeps DEF ResolveInv
<1>b. Files /\ List /\ Edits => ResolveInv'
  BY DEF ResolveInv, Resolves, ResolvesNext
<1>c. ResolvesNext(NoEnvironment.variables)
  BY NoEnvironmentFacts, VariableKinds DEF ResolvesNext
<1>d. ASSUME NEW s \in Slugs, NEW environment \in EnvironmentRecord,
             ResolvesNext(environment.variables),
             environment_files' = [environment_files EXCEPT ![s] = environment]
      PROVE  Files
  <2>1. environment_files \in [Slugs -> EnvironmentRecord]
    BY DEF EnvironmentsTyped, EnvironmentFilesTyped
  <2>2. ASSUME NEW t \in Slugs PROVE ResolvesNext(environment_files'[t].variables)
    BY <1>a, <1>d, <2>1
  <2> QED  BY <2>2
<1>e. UNCHANGED environment_files => Files
  BY <1>a
<1>f. Files /\ environments' \in {environments, environment_files', environment_files} => List
  BY <1>a
<1>g. ASSUME NEW p \in Savers, saving' = [saving EXCEPT ![p] = NotSaving] PROVE Edits
  <2>1. ~Saving(p)' /\ \A q \in Savers : q # p => saving'[q] = saving[q]
    BY <1>g, SavingEnds
  <2> QED  BY <1>a, <2>1 DEF Saving
<1>h. ASSUME NEW p \in Savers, NEW w \in SavingRecord, saving' = [saving EXCEPT ![p] = w],
             ResolvesNext(w.environment.variables)
      PROVE  Edits
  <2>1. saving \in [Savers -> SavingRecord]
    BY DEF EnvironmentsTyped, SavingTyped
  <2>2. saving'[p] = w /\ \A q \in Savers : q # p => saving'[q] = saving[q]
    BY <1>h, <2>1
  <2> QED  BY <1>a, <1>h, <2>2 DEF Saving
<1>i. UNCHANGED saving => Edits
  BY <1>a DEF Saving
<1> HIDE DEF Files, List, Edits
<1>1. CASE BeginStep
  <2>1. PICK p, old, environment, migrating : Begins(p, old, environment, migrating)
    BY <1>1, Zenon DEF BeginStep
  <2> DEFINE w == [phase |-> "secrets", old |-> old, environment |-> environment,
                   migrating |-> migrating]
  <2>2. p \in Savers /\ saving' = [saving EXCEPT ![p] = w]
        /\ UNCHANGED <<environment_files, environments>>
    BY <2>1 DEF Begins, BeginSave
  <2>3. w \in SavingRecord /\ w.environment = environment
    BY <2>1 DEF Begins, SavingRecord
  <2>4. ResolvesNext(environment.variables)
    BY <2>1, KeychainKeeps DEF Begins
  <2> HIDE DEF w
  <2> QED  BY <1>b, <1>e, <1>f, <1>h, <2>2, <2>3, <2>4
<1>2. CASE CheckOutEnvironment
  <2>1. PICK n \in EnvironmentNames, k \in VariableKeys, v \in SecretValues :
          /\ environment_files' = [environment_files EXCEPT ![Slug[n]] =
               [name |-> n, variables |-> [NoEnvironment.variables EXCEPT ![k] = Legacy(v)]]]
          /\ environments' = environment_files'
          /\ UNCHANGED saving
    BY <1>2 DEF CheckOutEnvironment
  <2> DEFINE variables == [NoEnvironment.variables EXCEPT ![k] = Legacy(v)]
             environment == [name |-> n, variables |-> variables]
  <2>2. variables \in [VariableKeys -> Variable]
    BY NoEnvironmentFacts DEF Variable
  <2>3. \A j \in VariableKeys : variables[j] = Absent \/ variables[j] = Legacy(v)
    BY NoEnvironmentFacts
  <2>4. environment \in EnvironmentRecord /\ environment.variables = variables
    BY <2>2 DEF EnvironmentRecord
  <2> HIDE DEF variables
  <2>5. environment_files' = [environment_files EXCEPT ![Slug[n]] = environment]
    BY <2>1 DEF variables
  <2>6. ResolvesNext(variables)
    BY <2>3, VariableKinds DEF ResolvesNext
  <2>7. Slug[n] \in Slugs
    BY DEF Slugs
  <2> HIDE DEF environment
  <2> QED  BY <1>b, <1>d, <1>f, <1>i, <2>1, <2>4, <2>5, <2>6, <2>7
<1>3. ASSUME NEW p \in Savers, StoreNextSecret(p) PROVE ResolveInv'
  <2>1. PICK k \in VariableKeys, v \in SecretValues, w \in SavingRecord :
          LET n == saving[p].environment.name IN
          /\ saving[p].phase = "secrets"
          /\ keychain' = [keychain EXCEPT ![Reference(n, k)] = <<v>>]
          /\ saving' = [saving EXCEPT ![p] = w]
          /\ w.environment.variables[k] = Reference(n, k)
          /\ \A j \in VariableKeys : j # k =>
               w.environment.variables[j] = saving[p].environment.variables[j]
    BY <1>3, StoreFacts
  <2> DEFINE n == saving[p].environment.name
  <2>2. n \in EnvironmentNames /\ Saving(p)
    BY <2>1, SavingFacts DEF Saving
  <2>3. keychain'[Reference(n, k)] # Absent
    <3>1. Reference(n, k) \in References
      BY <2>2, ReferenceKinds
    <3>2. keychain \in [References -> KeychainValue]
      BY DEF EnvironmentsTyped, EnvironmentCountsTyped
    <3> QED  BY <2>1, <3>1, <3>2, VariableKinds
  <2>4. ResolvesNext(w.environment.variables)
    <3> SUFFICES ASSUME NEW j \in VariableKeys, IsReference(w.environment.variables[j])
                 PROVE  keychain'[w.environment.variables[j]] # Absent
      BY DEF ResolvesNext
    <3>1. CASE j = k
      BY <2>1, <2>3, <3>1
    <3>2. CASE j # k
      BY <1>a, <2>1, <2>2, <3>2 DEF ResolvesNext
    <3> QED  BY <3>1, <3>2
  <2> QED  BY <1>3, <1>b, <1>e, <1>f, <1>h, <2>1, <2>4 DEF StoreNextSecret
<1>4. ASSUME NEW p \in Savers, WriteEnvironment(p) PROVE ResolveInv'
  <2>1. /\ Saving(p) /\ saving[p].environment \in EnvironmentRecord
        /\ environment_files' = [environment_files EXCEPT
             ![Slug[saving[p].environment.name]] = saving[p].environment]
        /\ environments' \in {environments, environment_files'}
    BY <1>4, WriteEnvironmentFacts DEF Reread
  <2>2. ResolvesNext(saving[p].environment.variables)
    BY <1>a, <2>1
  <2>3. Slug[saving[p].environment.name] \in Slugs
    BY <2>1, SavingFacts
  <2>4. Files /\ List
    BY <1>d, <1>f, <2>1, <2>2, <2>3
  <2>5. Edits
    BY <1>4, <1>g, <1>h, <2>2, WriteEnvironmentFacts
  <2> QED  BY <1>b, <2>4, <2>5
<1>5. ASSUME NEW p \in Savers, RemoveOldEnvironment(p) PROVE ResolveInv'
  <2>1. saving[p].old \in Slugs
    BY <1>5, SavingFacts DEF RemoveOldEnvironment
  <2>2. Files
    BY <1>5, <1>c, <1>d, <2>1, NoEnvironmentFacts DEF RemoveOldEnvironment
  <2> QED  BY <1>5, <1>b, <1>f, <1>g, <2>2 DEF RemoveOldEnvironment, Reread
<1>6. ASSUME NEW p \in Savers, SaveFails(p) PROVE ResolveInv'
  <2>1. Slug[saving[p].environment.name] \in Slugs
    BY <1>6, FailureFacts, SavingFacts
  <2>2. Files
    BY <1>6, <1>c, <1>d, <1>e, <2>1, FailureFacts, NoEnvironmentFacts DEF FileTaken
  <2> QED  BY <1>6, <1>b, <1>f, <1>g, <2>2, FailureFacts
<1>7. ASSUME NEW p \in Savers, SaverDies(p) PROVE ResolveInv'
  BY <1>7, <1>b, <1>e, <1>f, <1>g DEF SaverDies
<1>8. CASE UNCHANGED environmentVars
  BY <1>8, <1>b, <1>e, <1>f, <1>i DEF environmentVars
<1> QED
  BY <1>1, <1>2, <1>3, <1>4, <1>5, <1>6, <1>7, <1>8, EnvironmentsCases

LEMMA StepOwnReferences ==
  ASSUME EnvironmentsTyped, ResolveInv, OwnReferences, [EnvironmentsNext]_environmentVars
  PROVE  OwnReferences'
<1> SUFFICES ASSUME ~inherited' PROVE \A s \in Slugs : ~Inherits(environment_files'[s])
  BY DEF OwnReferences
<1>a. environment_files \in [Slugs -> EnvironmentRecord]
  BY DEF EnvironmentsTyped, EnvironmentFilesTyped
<1>b. ~inherited => \A s \in Slugs : ~Inherits(environment_files[s])
  BY DEF OwnReferences
<1>c. ASSUME ~inherited, NEW s \in Slugs, NEW environment, ~Inherits(environment),
             environment_files' = [environment_files EXCEPT ![s] = environment]
      PROVE  \A t \in Slugs : ~Inherits(environment_files'[t])
  BY <1>a, <1>b, <1>c
<1>1. CASE inherited' = inherited /\ UNCHANGED environment_files
  BY <1>1, <1>b
<1>2. CASE CheckOutEnvironment
  <2>1. PICK n \in EnvironmentNames, k \in VariableKeys, v \in SecretValues :
          /\ environment_files' = [environment_files EXCEPT ![Slug[n]] =
               [name |-> n, variables |-> [NoEnvironment.variables EXCEPT ![k] = Legacy(v)]]]
          /\ UNCHANGED inherited
    BY <1>2 DEF CheckOutEnvironment, environmentHistoryVars
  <2> DEFINE variables == [NoEnvironment.variables EXCEPT ![k] = Legacy(v)]
  <2>2. \A j \in VariableKeys : variables[j] = Absent \/ variables[j] = Legacy(v)
    BY NoEnvironmentFacts
  <2> HIDE DEF variables
  <2>3. ~Inherits([name |-> n, variables |-> variables])
    BY <2>2, VariableKinds DEF Inherits
  <2>4. Slug[n] \in Slugs
    BY DEF Slugs
  <2> QED  BY <1>c, <2>1, <2>3, <2>4 DEF variables
<1>4. ASSUME NEW p \in Savers, WriteEnvironment(p)
      PROVE  \A s \in Slugs : ~Inherits(environment_files'[s])
  BY <1>4, <1>c, WriteEnvironmentFacts, SavingFacts, ZenonT(30)
<1>5. ASSUME NEW p \in Savers, RemoveOldEnvironment(p)
      PROVE  \A s \in Slugs : ~Inherits(environment_files'[s])
  <2>1. saving[p].old \in Slugs
    BY <1>5, SavingFacts DEF RemoveOldEnvironment
  <2> QED
    BY <1>5, <1>c, <2>1, NoEnvironmentFacts DEF RemoveOldEnvironment, environmentHistoryVars
<1>6. ASSUME NEW p \in Savers, SaveFails(p)
      PROVE  \A s \in Slugs : ~Inherits(environment_files'[s])
  <2>1. Slug[saving[p].environment.name] \in Slugs
    BY <1>6, FailureFacts, SavingFacts
  <2> QED  BY <1>6, <1>1, <1>c, <2>1, FailureFacts, NoEnvironmentFacts DEF FileTaken
<1> QED
  BY <1>1, <1>2, <1>4, <1>5, <1>6, EnvironmentsCases, ZenonT(30)
     DEF BeginStep, Begins, BeginSave, StoreNextSecret, SaverDies, environmentVars,
         environmentHistoryVars

(***************************************************************************)
(* An operation that is alone                                              *)
(***************************************************************************)
LEMMA AloneFacts ==
  ASSUME EnvironmentsTyped, ResolveInv, SavesAlone, [EnvironmentsNext]_environmentVars,
         NEW p \in Savers, Saving(p), ~concurrent_saves
  PROVE  SaveAlone(p) /\ \A q \in Savers : q # p => ~Saving(q)
  BY DEF SavesAlone

LEMMA ConcurrencyStays ==
  ASSUME EnvironmentsTyped, ResolveInv, [EnvironmentsNext]_environmentVars
  PROVE  concurrent_saves => concurrent_saves'
  BY EnvironmentsCases, Zenon
     DEF BeginStep, Begins, BeginSave, CheckOutEnvironment, StoreNextSecret, WriteEnvironment,
         RemoveOldEnvironment, SaveFails, SaverDies, environmentVars, environmentHistoryVars

(* A secret that a migration has still to store is the legacy one of the file.    *)
LEMMA StoredIsLegacy ==
  ASSUME NEW p \in Savers, NEW k \in VariableKeys, NEW v \in SecretValues, Migrated(p, k),
         saving[p].environment.variables[k] = Typed(v)
  PROVE  environment_files[Slug[saving[p].environment.name]].variables[k] = Legacy(v)
<1> DEFINE n == saving[p].environment.name
           before == saving[p].environment.variables[k]
           old == environment_files[Slug[n]].variables[k]
<1>1. \/ old = before /\ \A u \in SecretValues : old # Legacy(u) /\ old # Typed(u)
      \/ \E u \in SecretValues : old = Legacy(u) /\ before = Typed(u)
      \/ \E u \in SecretValues :
           old = Legacy(u) /\ before = Reference(n, k) /\ keychain[before] = <<u>>
  BY Zenon DEF Migrated
<1>2. before = Typed(v)
  OBVIOUS
<1> HIDE DEF before, old, n
<1>3. /\ \A m, i : Typed(v) # Reference(m, i)
      /\ \A u : Typed(v) = Typed(u) => u = v
  BY VariableKinds, Zenon DEF Typed, Reference
<1> QED  BY <1>1, <1>2, <1>3 DEF before, old, n

LEMMA StepSavesAlone ==
  ASSUME EnvironmentsTyped, ResolveInv, SavesAlone, [EnvironmentsNext]_environmentVars
  PROVE  SavesAlone'
<1> SUFFICES ASSUME ~concurrent_saves'
             PROVE  /\ \A p, q \in Savers : Saving(p)' /\ Saving(q)' => p = q
                    /\ \A p \in Savers : Saving(p)' => SaveAlone(p)'
  BY DEF SavesAlone
<1>a. ~concurrent_saves
  BY ConcurrencyStays
<1> DEFINE Goal == /\ \A p, q \in Savers : Saving(p)' /\ Saving(q)' => p = q
                   /\ \A p \in Savers : Saving(p)' => SaveAlone(p)'
<1> SUFFICES Goal
  OBVIOUS
<1>b. ASSUME NEW p \in Savers, \A q \in Savers : q # p => ~Saving(q)',
             Saving(p)' => SaveAlone(p)'
      PROVE  Goal
  BY <1>b
<1>c. ASSUME NEW p \in Savers, Saving(p), saving' = [saving EXCEPT ![p] = NotSaving]
      PROVE  Goal
  <2>1. ~Saving(p)' /\ \A q \in Savers : q # p => saving'[q] = saving[q]
    BY <1>c, SavingEnds
  <2>2. \A q \in Savers : q # p => ~Saving(q)
    BY <1>a, <1>c, AloneFacts
  <2> QED  BY <1>b, <2>1, <2>2 DEF Saving
<1> HIDE DEF Goal
<1>1. CASE BeginStep
  <2>1. PICK p, old, environment, migrating : Begins(p, old, environment, migrating)
    BY <1>1, Zenon DEF BeginStep
  <2> DEFINE w == [phase |-> "secrets", old |-> old, environment |-> environment,
                   migrating |-> migrating]
  <2>2. /\ p \in Savers /\ saving' = [saving EXCEPT ![p] = w] /\ environment \in EditedRecord
        /\ files_before' = environment_files /\ UNCHANGED <<environment_files, keychain>>
    BY <2>1 DEF Begins, BeginSave
  <2>3. /\ w \in SavingRecord /\ w.phase = "secrets" /\ w.environment = environment
        /\ w.old = old /\ w.migrating = migrating
    BY <2>1 DEF Begins, SavingRecord
  <2> HIDE DEF w
  <2>4. saving'[p] = w /\ \A q \in Savers : q # p => saving'[q] = saving[q]
    BY <2>2, <2>3, SavingGoesOn
  <2>5. \A q \in Savers : ~Saving(q)
    BY <2>1 DEF Begins, BeginSave, Saving
  <2>6. \A q \in Savers : q # p => ~Saving(q)'
    BY <2>4, <2>5 DEF Saving
  <2>7. ASSUME migrating
        PROVE  /\ old = "" /\ environment_files[Slug[environment.name]].name = environment.name
               /\ \A k \in VariableKeys : Migrated(p, k)'
    <3>1. /\ old = "" /\ environment_files[Slug[environment.name]].name = environment.name
          /\ \A k \in VariableKeys :
               \/ /\ environment_files[Slug[environment.name]].variables[k] = environment.variables[k]
                  /\ \A v \in SecretValues :
                       /\ environment_files[Slug[environment.name]].variables[k] # Legacy(v)
                       /\ environment_files[Slug[environment.name]].variables[k] # Typed(v)
               \/ \E v \in SecretValues :
                    /\ environment_files[Slug[environment.name]].variables[k] = Legacy(v)
                    /\ environment.variables[k] = Typed(v)
      BY <2>1, <2>7, Zenon DEF Begins
    <3>3. /\ saving'[p].environment = environment
          /\ environment_files' = environment_files
      BY <2>2, <2>3, <2>4
    <3>4. ASSUME NEW k \in VariableKeys PROVE Migrated(p, k)'
      BY <3>1, <3>3 DEF Migrated
    <3> QED  BY <3>1, <3>4
  <2>8. SaveAlone(p)'
    BY <2>2, <2>3, <2>4, <2>7 DEF SaveAlone
  <2> QED  BY <1>b, <2>2, <2>6, <2>8
<1>2. CASE CheckOutEnvironment
  <2>1. \A p \in Savers : ~Saving(p)
    BY <1>2 DEF CheckOutEnvironment, EnvironmentsTyped, EnvironmentCountsTyped
  <2>2. \A p \in Savers : ~Saving(p)'
    BY <1>2, <2>1 DEF CheckOutEnvironment, Saving
  <2> QED  BY <2>2 DEF Goal
<1>3. ASSUME NEW p \in Savers, StoreNextSecret(p) PROVE Goal
  <2> DEFINE n == saving[p].environment.name
  <2>1. PICK k \in VariableKeys, v \in SecretValues, w \in SavingRecord :
          /\ saving[p].phase = "secrets" /\ w.phase = "secrets"
          /\ saving[p].environment.variables[k] = Typed(v)
          /\ keychain' = [keychain EXCEPT ![Reference(n, k)] = <<v>>]
          /\ saving' = [saving EXCEPT ![p] = w]
          /\ w.old = saving[p].old /\ w.migrating = saving[p].migrating
          /\ w.environment \in EditedRecord /\ w.environment.name = n
          /\ w.environment.variables[k] = Reference(n, k)
          /\ \A j \in VariableKeys : j # k =>
               w.environment.variables[j] = saving[p].environment.variables[j]
    BY <1>3, StoreFacts
  <2>2. saving'[p] = w /\ \A q \in Savers : q # p => saving'[q] = saving[q]
    BY <2>1, SavingGoesOn
  <2>3. Saving(p) /\ SaveAlone(p) /\ \A q \in Savers : q # p => ~Saving(q)
    BY <1>a, <2>1, AloneFacts DEF Saving
  <2>4. UNCHANGED <<environment_files, files_before>>
    BY <1>3 DEF StoreNextSecret, environmentHistoryVars
  <2>5. n \in EnvironmentNames
    BY <2>3, SavingFacts
  <2>6. ASSUME saving[p].migrating, NEW j \in VariableKeys PROVE Migrated(p, j)'
    <3> DEFINE old == environment_files[Slug[n]].variables[j]
               before == saving[p].environment.variables[j]
               after == saving'[p].environment.variables[j]
    <3>1. Migrated(p, j)
      BY <2>3, <2>6 DEF SaveAlone
    <3>2. /\ environment_files'[Slug[saving'[p].environment.name]].variables[j] = old
          /\ saving'[p].environment.name = n
      BY <2>1, <2>2, <2>4
    <3>3. keychain \in [References -> KeychainValue]
      BY DEF EnvironmentsTyped, EnvironmentCountsTyped
    <3>4. CASE j = k
      <4>1. before = Typed(v) /\ after = Reference(n, j)
        BY <2>1, <2>2, <3>4
      <4>2. old = Legacy(v)
        BY <2>1, <3>1, <3>4, StoredIsLegacy
      <4>3. keychain'[Reference(n, j)] = <<v>>
        BY <2>1, <2>5, <3>3, <3>4, ReferenceKinds
      <4> QED  BY <3>2, <4>1, <4>2, <4>3 DEF Migrated
    <3>5. CASE j # k
      <4>1. after = before
        BY <2>1, <2>2, <3>5
      <4>2. keychain'[Reference(n, j)] = keychain[Reference(n, j)]
        BY <2>1, <2>5, <3>3, <3>5, ReferenceKinds, VariableKinds
      <4> QED  BY <3>1, <3>2, <4>1, <4>2 DEF Migrated
    <3> QED  BY <3>4, <3>5
  <2>7. SaveAlone(p)'
    BY <2>1, <2>2, <2>3, <2>4, <2>6, ZenonT(30) DEF SaveAlone
  <2>8. \A q \in Savers : q # p => ~Saving(q)'
    BY <2>2, <2>3 DEF Saving
  <2> QED  BY <1>b, <2>7, <2>8
<1>4. ASSUME NEW p \in Savers, WriteEnvironment(p) PROVE Goal
  <2>1. /\ saving[p].phase = "secrets" /\ Saving(p)
        /\ saving[p].environment \in EditedRecord
        /\ environment_files' = [environment_files EXCEPT
             ![Slug[saving[p].environment.name]] = saving[p].environment]
        /\ UNCHANGED files_before
    BY <1>4, WriteEnvironmentFacts, SavingFacts
  <2>2. SaveAlone(p) /\ \A q \in Savers : q # p => ~Saving(q)
    BY <1>a, <2>1, AloneFacts
  <2>3. CASE saving' = [saving EXCEPT ![p] = NotSaving]
    BY <1>c, <2>1, <2>3
  <2>4. ASSUME NEW w \in SavingRecord, saving' = [saving EXCEPT ![p] = w],
               w.phase = "remove", w.environment = saving[p].environment,
               w.old = saving[p].old, w.migrating = saving[p].migrating,
               saving[p].old \notin {"", Slug[saving[p].environment.name]}
        PROVE  Goal
    <3>1. saving[p].environment \in EnvironmentRecord
      BY <1>4, WriteEnvironmentFacts
    <3>2. saving'[p] = w /\ \A q \in Savers : q # p => saving'[q] = saving[q]
      BY <2>1, <2>4, <3>1, SavingGoesOn
    <3>3. ~saving[p].migrating
      BY <2>2, <2>4 DEF SaveAlone
    <3>4. environment_files = files_before
      BY <2>1, <2>2 DEF SaveAlone
    <3>5. SaveAlone(p)'
      BY <2>1, <2>4, <3>2, <3>3, <3>4 DEF SaveAlone
    <3>6. \A q \in Savers : q # p => ~Saving(q)'
      BY <2>2, <3>2 DEF Saving
    <3> QED  BY <1>b, <3>5, <3>6
  <2> QED  BY <1>4, <2>3, <2>4, WriteEnvironmentFacts
<1>5. ASSUME NEW p \in Savers, RemoveOldEnvironment(p) \/ SaveFails(p) \/ SaverDies(p)
      PROVE  Goal
  <2>1. Saving(p) /\ saving' = [saving EXCEPT ![p] = NotSaving]
    BY <1>5 DEF RemoveOldEnvironment, SaveFails, SaverDies, Saving
  <2> QED  BY <1>c, <2>1
<1>6. CASE UNCHANGED environmentVars
  <2>1. UNCHANGED <<keychain, environment_files, saving, files_before>>
    BY <1>6 DEF environmentVars, environmentHistoryVars
  <2>2. \A p \in Savers : Saving(p) => SaveAlone(p)
    BY <1>a DEF SavesAlone
  <2>3. \A p \in Savers : (Saving(p)' <=> Saving(p)) /\ (SaveAlone(p)' <=> SaveAlone(p))
    BY <2>1 DEF Saving, SaveAlone, Migrated
  <2> QED  BY <1>a, <2>2, <2>3 DEF Goal, SavesAlone
<1> QED  BY <1>1, <1>2, <1>3, <1>4, <1>5, <1>6, EnvironmentsCases

LEMMA EnvironmentsInvariant == EnvironmentsSpec => []EnvironmentsInv
<1>1. EnvironmentsInv /\ [EnvironmentsNext]_environmentVars => EnvironmentsInv'
  BY StepEnvironmentsTyped, StepResolveInv, StepOwnReferences, StepSavesAlone
     DEF EnvironmentsInv
<1> QED  BY <1>1, InitEnvironments, PTL DEF EnvironmentsSpec

(***************************************************************************)
(* Theorems about environments                                             *)
(***************************************************************************)
(* However saves fail, die and overlap, every reference in a file has its value     *)
(* in the keychain, and belongs to one variable unless one was inherited.       *)
THEOREM SecretsAlwaysResolve == EnvironmentsSpec => []SecretsResolve
<1>1. ASSUME EnvironmentsInv PROVE SecretsResolve
  <2>1. ASSUME NEW s \in Slugs, NEW k \in VariableKeys,
               IsReference(environment_files[s].variables[k])
        PROVE  keychain[environment_files[s].variables[k]] # Absent
    BY <1>1, <2>1 DEF EnvironmentsInv, ResolveInv, Resolves
  <2>2. ASSUME ~inherited, NEW s \in Slugs, NEW t \in Slugs,
               NEW j \in VariableKeys, NEW k \in VariableKeys,
               IsReference(environment_files[s].variables[j]),
               environment_files[s].variables[j] = environment_files[t].variables[k]
        PROVE  s = t /\ j = k
    <3>1. /\ environment_files[s].variables[j] = Reference(environment_files[s].name, j)
          /\ environment_files[t].variables[k] = Reference(environment_files[t].name, k)
      BY <1>1, <2>2 DEF EnvironmentsInv, OwnReferences, Inherits
    <3>d. Reference(environment_files[s].name, j) = Reference(environment_files[t].name, k)
      BY <2>2, <3>1
    <3>2. environment_files[s].name = environment_files[t].name /\ j = k
      BY <3>d DEF Reference
    <3>b. \A i \in VariableKeys : ~IsReference(NoEnvironment.variables[i])
      BY NoEnvironmentFacts, VariableKinds
    <3>c. IsReference(environment_files[t].variables[k])
      BY <2>2
    <3>3. environment_files[s] # NoEnvironment /\ environment_files[t] # NoEnvironment
      BY <2>2, <3>b, <3>c, Zenon
    <3>4. s = Slug[environment_files[s].name] /\ t = Slug[environment_files[t].name]
      BY <1>1, <3>3 DEF EnvironmentsInv, EnvironmentsTyped, EnvironmentFilesTyped
    <3> QED  BY <3>2, <3>4
  <2> QED  BY <2>1, <2>2 DEF SecretsResolve
<1> QED  BY <1>1, EnvironmentsInvariant, PTL

(* A failed save leaves the files as they were, a dead one adds the new file at     *)
(* most: the action of FailedSaveKeepsFiles.                                 *)
FilesKept ==
  \A p \in Savers :
    /\ saving[p].phase # "idle" /\ saving'[p].phase = "idle"
    /\ save_failures' + saver_deaths' # save_failures + saver_deaths
    /\ ~concurrent_saves
    /\ (saving[p].phase = "remove" =>
          files_before[Slug[saving[p].environment.name]] = NoEnvironment)
    => \A s \in Slugs :
         \/ environment_files'[s] = files_before[s]
         \/ /\ saver_deaths' # saver_deaths
            /\ files_before[s] = NoEnvironment
            /\ environment_files'[s] = saving[p].environment
LEMMA StepFilesKept ==
  ASSUME EnvironmentsInv, [EnvironmentsNext]_environmentVars
  PROVE  FilesKept
<1> SUFFICES ASSUME NEW p \in Savers,
                    saving[p].phase # "idle", saving'[p].phase = "idle",
                    save_failures' + saver_deaths' # save_failures + saver_deaths,
                    ~concurrent_saves,
                    saving[p].phase = "remove" =>
                      files_before[Slug[saving[p].environment.name]] = NoEnvironment
             PROVE  \A s \in Slugs :
                      \/ environment_files'[s] = files_before[s]
                      \/ /\ saver_deaths' # saver_deaths
                         /\ files_before[s] = NoEnvironment
                         /\ environment_files'[s] = saving[p].environment
  BY DEF FilesKept
<1>a. EnvironmentsTyped /\ ResolveInv /\ SavesAlone
  BY DEF EnvironmentsInv
<1>b. Saving(p) /\ SaveAlone(p) /\ \A q \in Savers : q # p => ~Saving(q)
  BY <1>a, AloneFacts DEF Saving
<1>c. files_before \in [Slugs -> EnvironmentRecord]
  BY <1>a DEF EnvironmentsTyped, EnvironmentFilesTyped
<1>d. saving[p].phase # "remove" => environment_files = files_before
  BY <1>b DEF SaveAlone
<1>e. saving[p].phase = "remove" =>
        environment_files = [files_before EXCEPT
          ![Slug[saving[p].environment.name]] = saving[p].environment]
  BY <1>b DEF SaveAlone
<1>1. ASSUME NEW q \in Savers, SaveFails(q)
      PROVE  \A s \in Slugs : environment_files'[s] = files_before[s]
  <2>1. q = p
    BY <1>1, <1>a, <1>b, FailureFacts
  <2>2. CASE saving[p].phase = "remove"
    BY <1>1, <1>a, <1>c, <1>e, <2>1, <2>2, FailureFacts DEF FileTaken
  <2>3. CASE saving[p].phase # "remove"
    BY <1>1, <1>a, <1>d, <2>1, <2>3, FailureFacts
  <2> QED  BY <2>2, <2>3
<1>2. ASSUME NEW q \in Savers, SaverDies(q)
      PROVE  \A s \in Slugs :
               \/ environment_files'[s] = files_before[s]
               \/ /\ saver_deaths' # saver_deaths
                  /\ files_before[s] = NoEnvironment
                  /\ environment_files'[s] = saving[p].environment
  <2>1. saver_deaths' # saver_deaths
    <3>1. saver_deaths' = saver_deaths + 1
      BY <1>2 DEF SaverDies
    <3>2. saver_deaths \in Nat
      BY <1>a DEF EnvironmentsTyped, EnvironmentCountsTyped
    <3> QED  BY <3>1, <3>2
  <2>2. UNCHANGED environment_files
    BY <1>2 DEF SaverDies
  <2> QED  BY <1>c, <1>d, <1>e, <2>1, <2>2
<1>3. ASSUME UNCHANGED <<save_failures, saver_deaths>> PROVE FALSE
  BY <1>3
<1> QED
  BY <1>1, <1>2, <1>3, <1>a, EnvironmentsCases, ZenonT(30)
     DEF BeginStep, Begins, BeginSave, CheckOutEnvironment, StoreNextSecret, WriteEnvironment,
         RemoveOldEnvironment, environmentVars, environmentHistoryVars

(* A migration changes what no variable resolves to: the action of              *)
(* MigrationKeepsValues.                                                     *)
ResolvedNext(variable) ==
  IF IsReference(variable) THEN keychain'[variable]
  ELSE IF variable = Absent THEN Absent ELSE <<variable[2]>>
ValuesKept ==
  \A p \in Savers, s \in Slugs, k \in VariableKeys :
    saving[p].migrating /\ ~inherited /\ ~concurrent_saves =>
      ResolvedValue(environment_files[s].variables[k])' =
        ResolvedValue(environment_files[s].variables[k])

LEMMA StepValuesKept ==
  ASSUME EnvironmentsInv, [EnvironmentsNext]_environmentVars
  PROVE  ValuesKept
<1> SUFFICES ASSUME NEW p \in Savers, NEW s \in Slugs, NEW k \in VariableKeys,
                    saving[p].migrating, ~inherited, ~concurrent_saves
             PROVE  ResolvedNext(environment_files'[s].variables[k]) =
                      ResolvedValue(environment_files[s].variables[k])
  BY DEF ValuesKept, ResolvedValue, ResolvedNext
<1> DEFINE n == saving[p].environment.name
           variable == environment_files[s].variables[k]
           Goal == ResolvedNext(environment_files'[s].variables[k]) = ResolvedValue(variable)
<1>a. EnvironmentsTyped /\ ResolveInv /\ OwnReferences /\ SavesAlone
  BY DEF EnvironmentsInv
<1>b. Saving(p) /\ SaveAlone(p) /\ \A q \in Savers : q # p => ~Saving(q)
  <2>1. Saving(p)
    BY <1>a DEF EnvironmentsTyped, SavingTyped
  <2> QED  BY <1>a, <2>1, AloneFacts
<1>c. /\ saving[p].phase = "secrets"
      /\ environment_files[Slug[n]].name = n
      /\ \A j \in VariableKeys : Migrated(p, j)
  BY <1>b DEF SaveAlone
<1>d. /\ n \in EnvironmentNames /\ Slug[n] \in Slugs
      /\ saving[p].environment.variables \in [VariableKeys -> EditedVariable]
  BY <1>a, <1>b, SavingFacts
<1>e. UNCHANGED <<keychain, environment_files>> => Goal
  BY DEF ResolvedNext, ResolvedValue
<1>1. CASE CheckOutEnvironment
  BY <1>1, <1>a, <1>b DEF CheckOutEnvironment, EnvironmentsTyped, EnvironmentCountsTyped
<1>2. CASE StoreNextSecret(p)
  <2>1. PICK j \in VariableKeys, v \in SecretValues :
          /\ saving[p].environment.variables[j] = Typed(v)
          /\ keychain' = [keychain EXCEPT ![Reference(n, j)] = <<v>>]
    BY <1>2, <1>a, StoreFacts
  <2>2. UNCHANGED environment_files
    BY <1>2 DEF StoreNextSecret
  <2>3. CASE ~IsReference(variable)
    BY <2>2, <2>3 DEF ResolvedNext, ResolvedValue
  <2>4. CASE IsReference(variable)
    <3>1. variable = Reference(environment_files[s].name, k)
      BY <1>a, <2>4 DEF OwnReferences, Inherits
    <3>2. environment_files[s] # NoEnvironment
      BY <2>4, NoEnvironmentFacts, VariableKinds
    <3>3. s = Slug[environment_files[s].name]
      BY <1>a, <3>2 DEF EnvironmentsTyped, EnvironmentFilesTyped
    <3>4. environment_files[Slug[n]].variables[j] # Reference(n, j)
      <4>1. environment_files[Slug[n]].variables[j] = Legacy(v)
        BY <1>c, <2>1, StoredIsLegacy
      <4>2. Reference(n, j) # Legacy(v)
        BY <1>d, <2>1, ReferenceKinds
      <4> QED  BY <4>1, <4>2
    <3>5. variable # Reference(n, j)
      <4>1. SUFFICES ASSUME variable = Reference(n, j) PROVE FALSE
        OBVIOUS
      <4>2. environment_files[s].name = n /\ k = j
        BY <3>1, <4>1 DEF Reference
      <4> QED  BY <3>3, <3>4, <4>1, <4>2
    <3>6. keychain'[variable] = keychain[variable]
      BY <1>a, <2>1, <2>4, <3>5 DEF EnvironmentsTyped, EnvironmentCountsTyped, IsReference
    <3> QED  BY <2>2, <2>4, <3>6 DEF ResolvedNext, ResolvedValue
  <2> QED  BY <2>3, <2>4
<1>3. CASE WriteEnvironment(p)
  <2>1. /\ environment_files' = [environment_files EXCEPT ![Slug[n]] = saving[p].environment]
        /\ UNCHANGED keychain /\ saving[p].environment \in EnvironmentRecord
    BY <1>3, <1>a, WriteEnvironmentFacts
  <2>2. environment_files \in [Slugs -> EnvironmentRecord]
    BY <1>a DEF EnvironmentsTyped, EnvironmentFilesTyped
  <2>3. CASE s # Slug[n]
    <3>1. environment_files'[s] = environment_files[s]
      BY <2>1, <2>2, <2>3
    <3> QED  BY <2>1, <3>1 DEF ResolvedNext, ResolvedValue
  <2>4. CASE s = Slug[n]
    <3> DEFINE after == saving[p].environment.variables[k]
    <3>1. environment_files'[s].variables[k] = after
      BY <1>d, <2>1, <2>2, <2>4
    <3>2. \A v \in SecretValues : after # Typed(v)
      BY <1>3 DEF WriteEnvironment, Unstored
    <3>3. \/ variable = after
          \/ \E v \in SecretValues :
               variable = Legacy(v) /\ after = Reference(n, k) /\ keychain[after] = <<v>>
      BY <1>c, <2>4, <3>2, Zenon DEF Migrated
    <3>4. ASSUME NEW v \in SecretValues,
                 variable = Legacy(v), after = Reference(n, k), keychain[after] = <<v>>
          PROVE  Goal
      <4>1. ResolvedValue(variable) = <<v>>
        BY <3>4, VariableKinds DEF ResolvedValue
      <4>2. ResolvedNext(after) = <<v>>
        BY <1>d, <2>1, <3>4, ReferenceKinds DEF ResolvedNext
      <4> QED  BY <3>1, <4>1, <4>2
    <3>5. CASE variable = after
      BY <2>1, <3>1, <3>5 DEF ResolvedNext, ResolvedValue
    <3> QED  BY <3>3, <3>4, <3>5
  <2> QED  BY <2>3, <2>4
<1>4. ASSUME NEW q \in Savers,
             \/ StoreNextSecret(q) \/ WriteEnvironment(q) \/ RemoveOldEnvironment(q)
             \/ SaveFails(q) \/ SaverDies(q)
      PROVE  Goal
  <2>1. Saving(q)
    BY <1>4 DEF Saving, StoreNextSecret, WriteEnvironment, RemoveOldEnvironment, SaveFails,
                SaverDies
  <2>2. q = p
    BY <1>b, <2>1
  <2>3. SaveFails(p) => UNCHANGED <<keychain, environment_files>>
    BY <1>a, <1>c, FailureFacts
  <2> QED
    BY <1>2, <1>3, <1>4, <1>c, <1>e, <2>2, <2>3 DEF RemoveOldEnvironment, SaverDies
<1> QED
  BY <1>1, <1>4, <1>a, <1>e, EnvironmentsCases, ZenonT(30)
     DEF BeginStep, Begins, BeginSave, environmentVars

(* A save that fails or dies leaves the users' files, and a migration changes no  *)
(* value, whatever becomes of it.                                           *)
THEOREM SavesKeepUsersValues == EnvironmentsSpec => SavesKeepValues
<1>1. EnvironmentsInv /\ [EnvironmentsNext]_environmentVars => [FilesKept]_environmentVars
  BY StepFilesKept
<1>2. EnvironmentsInv /\ [EnvironmentsNext]_environmentVars => [ValuesKept]_environmentVars
  BY StepValuesKept
<1>3. EnvironmentsSpec => [][FilesKept]_environmentVars /\ [][ValuesKept]_environmentVars
  BY <1>1, <1>2, EnvironmentsInvariant, PTL DEF EnvironmentsSpec
<1>4. SavesKeepValues <=> [][FilesKept]_environmentVars /\ [][ValuesKept]_environmentVars
  BY DEF SavesKeepValues, FailedSaveKeepsFiles, MigrationKeepsValues, FilesKept, ValuesKept
<1> QED  BY <1>3, <1>4, PTL

(***************************************************************************)
(* The cookie jar                                                          *)
(***************************************************************************)
JarFile == [whole : BOOLEAN, cookies : SUBSET Cookies]
EngineRecord ==
  [phase : {"none", "idle", "persist", "opened", "written", "private"},
   cookies : SUBSET Cookies, fd : Nat, unsaved : BOOLEAN, foreign : BOOLEAN]
JarTyped ==
  /\ jar_contents \in Seq(JarFile)
  /\ temporary_name \in 0 .. Len(jar_contents) /\ jar_name \in 0 .. Len(jar_contents)
  /\ temporary_name # 0 => temporary_name # jar_name
  /\ engine \in [Engines -> EngineRecord]
  /\ \A e \in Engines : /\ engine[e].fd \in 0 .. Len(jar_contents)
                        /\ engine[e].phase = "opened" => engine[e].fd # 0
  /\ persists_raced \in BOOLEAN
  /\ jar_writes \in 0 .. MaxJarWrites /\ jar_failures \in 0 .. MaxJarFailures

(* As long as no two engines wrote at the same time: the engine that writes has   *)
(* the temporary file to itself, and the jar is what an engine has saved.        *)
WritesJar(e) == engine[e].phase \in {"opened", "written", "private"}
TemporaryInv(e) ==
  /\ Persisting(e) => Cardinality(engine[e].cookies) <= MaxCookies
  /\ WritesJar(e) => temporary_name # 0
  /\ engine[e].phase = "opened" =>
       engine[e].fd = temporary_name /\ jar_contents[temporary_name] = Torn
  /\ engine[e].phase \in {"written", "private"} =>
       jar_contents[temporary_name] = Whole(engine[e].cookies)
SavedInv(e) ==
  engine[e].phase = "idle" /\ ~engine[e].unsaved /\ ~engine[e].foreign =>
    engine[e].cookies = JarCookies
AloneInJar ==
  ~persists_raced =>
    /\ JarLoads
    /\ \A d, e \in Engines : WritesJar(d) /\ WritesJar(e) => d = e
    /\ \A e \in Engines : TemporaryInv(e) /\ SavedInv(e)
JarInv == JarTyped /\ AloneInJar

LEMMA EngineMoves ==
  ASSUME JarTyped, NEW e \in Engines, NEW w \in EngineRecord,
         engine' = [engine EXCEPT ![e] = w]
  PROVE  /\ engine' \in [Engines -> EngineRecord] /\ engine'[e] = w
         /\ \A d \in Engines : d # e => engine'[d] = engine[d]
  BY DEF JarTyped

LEMMA NoEngineFacts ==
  /\ NoEngine \in EngineRecord /\ NoEngine.phase = "none" /\ NoEngine.fd = 0
  /\ NoEngine.cookies = {} /\ ~NoEngine.unsaved /\ ~NoEngine.foreign
  BY DEF NoEngine, EngineRecord

(* What each step makes of the engine that takes it, and of the files.          *)
LEMMA LoadFacts ==
  ASSUME JarTyped, NEW e \in Engines, LoadEngine(e)
  PROVE  /\ UNCHANGED <<jar_contents, temporary_name, jar_name, persists_raced, jar_writes,
                        jar_failures>>
         /\ \E w \in EngineRecord :
              /\ engine' = [engine EXCEPT ![e] = w]
              /\ w.phase = "idle" /\ w.fd = 0 /\ w.cookies = JarCookies
<1> DEFINE w == [NoEngine EXCEPT !.phase = "idle",
                   !.cookies = IF jar_name = 0 THEN {} ELSE jar_contents[jar_name].cookies]
<1>1. JarCookies \in SUBSET Cookies
  <2>1. CASE jar_name = 0
    BY <2>1 DEF JarCookies
  <2>2. CASE jar_name # 0
    <3>1. jar_name \in 1 .. Len(jar_contents) /\ jar_contents \in Seq(JarFile)
      BY <2>2 DEF JarTyped
    <3>2. jar_contents[jar_name] \in JarFile
      BY <3>1
    <3> QED  BY <2>2, <3>2 DEF JarCookies, JarFile
  <2> QED  BY <2>1, <2>2
<1>2. engine' = [engine EXCEPT ![e] = w]
  BY DEF LoadEngine
<1>3. w = [NoEngine EXCEPT !.phase = "idle", !.cookies = JarCookies]
  BY DEF JarCookies
<1>4. w \in EngineRecord /\ w.phase = "idle" /\ w.fd = 0 /\ w.cookies = JarCookies
  BY <1>1, <1>3, NoEngineFacts DEF EngineRecord
<1> HIDE DEF w
<1> QED  BY <1>2, <1>4 DEF LoadEngine, jarFiles

LEMMA DropFacts ==
  ASSUME JarTyped, NEW e \in Engines, DropEngine(e)
  PROVE  /\ UNCHANGED <<jar_contents, temporary_name, jar_name, persists_raced, jar_writes>>
         /\ engine' = [engine EXCEPT ![e] = NoEngine]
         /\ jar_failures' \in 0 .. MaxJarFailures
<1>1. jar_failures \in 0 .. MaxJarFailures /\ MaxJarFailures \in Nat
  BY CookieJarAssumption DEF JarTyped
<1>2. jar_failures' \in 0 .. MaxJarFailures
  BY <1>1 DEF DropEngine
<1> QED  BY <1>2 DEF DropEngine, jarFiles

LEMMA ChangeFacts ==
  ASSUME JarTyped, NEW e \in Engines, ChangeCookies(e)
  PROVE  /\ UNCHANGED <<jar_contents, temporary_name, jar_name, persists_raced, jar_failures>>
         /\ jar_writes' \in 0 .. MaxJarWrites
         /\ \E w \in EngineRecord :
              /\ engine' = [engine EXCEPT ![e] = w] /\ w.fd = engine[e].fd
              /\ \/ w.phase = "persist" /\ Cardinality(w.cookies) <= MaxCookies
                 \/ w.phase = "idle" /\ w.unsaved
<1>1. engine[e] \in EngineRecord /\ engine[e].cookies \subseteq Cookies
  BY DEF JarTyped, EngineRecord
<1>2. PICK cookies \in Changed(engine[e].cookies) :
        engine' = [engine EXCEPT ![e].cookies = cookies,
                                 ![e].phase = IF JarFits(cookies) THEN "persist" ELSE "idle",
                                 ![e].unsaved = ~JarFits(cookies)]
  BY DEF ChangeCookies
<1>3. cookies \in SUBSET Cookies
  BY <1>1, <1>2 DEF Changed
<1> DEFINE w == [engine[e] EXCEPT !.cookies = cookies,
                   !.phase = IF JarFits(cookies) THEN "persist" ELSE "idle",
                   !.unsaved = ~JarFits(cookies)]
<1>4. engine' = [engine EXCEPT ![e] = w]
  BY <1>1, <1>2 DEF JarTyped, EngineRecord
<1>5. w \in EngineRecord /\ w.fd = engine[e].fd /\ w.cookies = cookies
      /\ w.phase = (IF JarFits(cookies) THEN "persist" ELSE "idle")
      /\ w.unsaved = ~JarFits(cookies)
  BY <1>1, <1>3 DEF EngineRecord
<1>6. jar_writes' \in 0 .. MaxJarWrites
  BY CookieJarAssumption DEF JarTyped, ChangeCookies
<1> HIDE DEF w
<1> QED  BY <1>4, <1>5, <1>6 DEF ChangeCookies, jarFiles, JarFits

LEMMA OpenFacts ==
  ASSUME JarTyped, NEW e \in Engines, OpenForPersist(e)
  PROVE  /\ engine[e].phase = "persist"
         /\ jar_contents' \in Seq(JarFile) /\ Len(jar_contents) <= Len(jar_contents')
         /\ temporary_name' \in 1 .. Len(jar_contents') /\ temporary_name' # jar_name
         /\ jar_contents'[temporary_name'] = Torn
         /\ jar_name # 0 => jar_contents'[jar_name] = jar_contents[jar_name]
         /\ UNCHANGED <<jar_name, jar_writes, jar_failures>>
         /\ persists_raced' \in BOOLEAN
         /\ ~persists_raced' => ~persists_raced /\ \A d \in Engines \ {e} : ~WritesJar(d)
         /\ \E w \in EngineRecord :
              /\ engine' = [engine EXCEPT ![e] = w]
              /\ w.phase = "opened" /\ w.fd = temporary_name' /\ w.cookies = engine[e].cookies
<1>1. /\ engine[e] \in EngineRecord /\ jar_contents \in Seq(JarFile)
      /\ temporary_name \in 0 .. Len(jar_contents) /\ jar_name \in 0 .. Len(jar_contents)
      /\ temporary_name # 0 => temporary_name # jar_name
  BY DEF JarTyped
<1>2. Torn \in JarFile
  BY DEF Torn, JarFile
<1>3. /\ jar_contents' \in Seq(JarFile) /\ Len(jar_contents) <= Len(jar_contents')
      /\ temporary_name' \in 1 .. Len(jar_contents') /\ temporary_name' # jar_name
      /\ jar_contents'[temporary_name'] = Torn
      /\ jar_name # 0 => jar_contents'[jar_name] = jar_contents[jar_name]
  <2>1. CASE temporary_name = 0
    <3>1. /\ jar_contents' = Append(jar_contents, Torn)
          /\ temporary_name' = Len(jar_contents) + 1
      BY <2>1 DEF OpenForPersist, OpenTemporary
    <3> QED  BY <1>1, <1>2, <3>1
  <2>2. CASE temporary_name # 0
    <3>1. /\ jar_contents' = [jar_contents EXCEPT ![temporary_name] = Torn]
          /\ temporary_name' = temporary_name
      BY <2>2 DEF OpenForPersist, OpenTemporary
    <3> QED  BY <1>1, <1>2, <2>2, <3>1
  <2> QED  BY <2>1, <2>2
<1> DEFINE w == [engine[e] EXCEPT !.phase = "opened", !.fd = temporary_name']
<1>4. engine' = [engine EXCEPT ![e] = w]
  BY <1>1 DEF JarTyped, EngineRecord, OpenForPersist, OpenTemporary
<1>5. w \in EngineRecord /\ w.phase = "opened" /\ w.fd = temporary_name'
      /\ w.cookies = engine[e].cookies
  <2>1. temporary_name' \in Nat
    BY <1>3
  <2> QED  BY <1>1, <2>1 DEF EngineRecord
<1>6. /\ persists_raced' \in BOOLEAN
      /\ ~persists_raced' => ~persists_raced /\ \A d \in Engines \ {e} : ~WritesJar(d)
  <2>1. persists_raced' =
          (persists_raced \/ \E d \in Engines \ {e} : engine[d].phase \in {"opened", "written", "private"})
    BY DEF OpenForPersist
  <2> QED  BY <2>1, Zenon DEF WritesJar, JarTyped
<1> HIDE DEF w
<1> QED  BY <1>3, <1>4, <1>5, <1>6 DEF OpenForPersist, OpenTemporary

LEMMA WriteJarFacts ==
  ASSUME JarTyped, NEW e \in Engines, WriteJar(e), engine[e].fd # 0
  PROVE  /\ engine[e].phase = "opened"
         /\ jar_contents' \in Seq(JarFile) /\ Len(jar_contents') = Len(jar_contents)
         /\ \A i \in 1 .. Len(jar_contents) :
              i # engine[e].fd => jar_contents'[i] = jar_contents[i]
         /\ jar_contents[engine[e].fd] = Torn =>
              jar_contents'[engine[e].fd] = Whole(engine[e].cookies)
         /\ UNCHANGED <<temporary_name, jar_name, persists_raced, jar_writes, jar_failures>>
         /\ \E w \in EngineRecord :
              /\ engine' = [engine EXCEPT ![e] = w]
              /\ w.phase = "written" /\ w.fd = 0 /\ w.cookies = engine[e].cookies
<1> DEFINE fd == engine[e].fd
           new == IF jar_contents[fd].whole
                     /\ Cardinality(jar_contents[fd].cookies) > Cardinality(engine[e].cookies)
                  THEN Torn ELSE Whole(engine[e].cookies)
           w == [engine[e] EXCEPT !.phase = "written", !.fd = 0]
<1>1. /\ engine[e] \in EngineRecord /\ jar_contents \in Seq(JarFile)
      /\ fd \in 1 .. Len(jar_contents)
  <2>1. engine[e] \in EngineRecord /\ jar_contents \in Seq(JarFile)
        /\ fd \in 0 .. Len(jar_contents)
    BY Zenon DEF JarTyped
  <2> QED  BY <2>1
<1>2. new \in JarFile
  BY <1>1 DEF Torn, Whole, JarFile, EngineRecord
<1>3. jar_contents' = [jar_contents EXCEPT ![fd] = new]
  BY DEF WriteJar
<1>4. jar_contents[fd] = Torn => new = Whole(engine[e].cookies)
  BY DEF Torn
<1> HIDE DEF new
<1>5. /\ jar_contents' \in Seq(JarFile) /\ Len(jar_contents') = Len(jar_contents)
      /\ \A i \in 1 .. Len(jar_contents) : i # fd => jar_contents'[i] = jar_contents[i]
      /\ jar_contents'[fd] = new
  BY <1>1, <1>2, <1>3
<1>6. engine' = [engine EXCEPT ![e] = w]
  BY <1>1 DEF JarTyped, EngineRecord, WriteJar
<1>7. w \in EngineRecord /\ w.phase = "written" /\ w.fd = 0 /\ w.cookies = engine[e].cookies
  BY <1>1 DEF EngineRecord
<1> HIDE DEF w
<1> QED  BY <1>4, <1>5, <1>6, <1>7 DEF WriteJar

LEMMA PrivateFacts ==
  ASSUME JarTyped, NEW e \in Engines, RestrictPermissions(e)
  PROVE  /\ engine[e].phase = "written"
         /\ UNCHANGED <<jar_contents, temporary_name, jar_name, persists_raced, jar_writes,
                        jar_failures>>
         /\ \E w \in EngineRecord :
              /\ engine' = [engine EXCEPT ![e] = w]
              /\ w.phase = "private" /\ w.fd = engine[e].fd /\ w.cookies = engine[e].cookies
<1> DEFINE w == [engine[e] EXCEPT !.phase = "private"]
<1>1. engine[e] \in EngineRecord
  BY DEF JarTyped
<1>2. engine' = [engine EXCEPT ![e] = w]
  BY <1>1 DEF JarTyped, RestrictPermissions
<1>3. w \in EngineRecord /\ w.phase = "private" /\ w.fd = engine[e].fd
      /\ w.cookies = engine[e].cookies
  BY <1>1 DEF EngineRecord
<1> HIDE DEF w
<1> QED  BY <1>2, <1>3 DEF RestrictPermissions, jarFiles

LEMMA RenameFacts ==
  ASSUME JarTyped, NEW e \in Engines, RenameJar(e)
  PROVE  /\ engine[e].phase = "private" /\ temporary_name # 0
         /\ jar_name' = temporary_name /\ temporary_name' = 0
         /\ UNCHANGED <<jar_contents, persists_raced, jar_writes, jar_failures>>
         /\ engine' \in [Engines -> EngineRecord]
         /\ engine'[e].phase = "idle" /\ engine'[e].cookies = engine[e].cookies
         /\ \A d \in Engines : engine'[d].fd \in {0, engine[d].fd}
         /\ \A d \in Engines : d # e =>
              /\ engine'[d].phase = engine[d].phase
              /\ engine[d].phase # "none" =>
                   /\ engine'[d].foreign /\ engine'[d].cookies = engine[d].cookies
                   /\ engine'[d].fd = engine[d].fd
<1> DEFINE w == [engine[e] EXCEPT !.phase = "idle", !.unsaved = FALSE, !.foreign = FALSE]
           other(d) == [engine[d] EXCEPT !.foreign = TRUE]
<1>1. \A d \in Engines : engine[d] \in EngineRecord
  BY DEF JarTyped
<1>2. engine' = [d \in Engines |->
        IF d = e THEN w ELSE IF engine[d].phase = "none" THEN NoEngine ELSE other(d)]
  BY DEF RenameJar
<1>3. w \in EngineRecord /\ w.phase = "idle" /\ w.cookies = engine[e].cookies
      /\ w.fd = engine[e].fd
  BY <1>1 DEF EngineRecord
<1>4. \A d \in Engines :
        /\ other(d) \in EngineRecord /\ other(d).phase = engine[d].phase /\ other(d).foreign
        /\ other(d).cookies = engine[d].cookies /\ other(d).fd = engine[d].fd
  BY <1>1 DEF EngineRecord
<1> HIDE DEF w, other
<1>5. engine' \in [Engines -> EngineRecord]
  BY <1>2, <1>3, <1>4, NoEngineFacts
<1>6. engine'[e] = w
  BY <1>2
<1>7. \A d \in Engines : d # e =>
        engine'[d] = IF engine[d].phase = "none" THEN NoEngine ELSE other(d)
  BY <1>2
<1> QED  BY <1>3, <1>4, <1>5, <1>6, <1>7, NoEngineFacts DEF RenameJar

LEMMA PersistFailsFacts ==
  ASSUME JarTyped, NEW e \in Engines, PersistFails(e)
  PROVE  /\ UNCHANGED <<jar_contents, temporary_name, jar_name, persists_raced, jar_writes>>
         /\ jar_failures' \in 0 .. MaxJarFailures
         /\ \E w \in EngineRecord :
              engine' = [engine EXCEPT ![e] = w] /\ w.phase = "idle" /\ w.fd = 0 /\ w.unsaved
<1> DEFINE w == [engine[e] EXCEPT !.phase = "idle", !.fd = 0, !.unsaved = TRUE]
<1>1. engine[e] \in EngineRecord
  BY DEF JarTyped
<1>2. engine' = [engine EXCEPT ![e] = w]
  BY <1>1 DEF JarTyped, EngineRecord, PersistFails, ReportFailure
<1>3. w \in EngineRecord /\ w.phase = "idle" /\ w.fd = 0 /\ w.unsaved
  BY <1>1 DEF EngineRecord
<1>4. jar_failures \in 0 .. MaxJarFailures /\ MaxJarFailures \in Nat
  BY CookieJarAssumption DEF JarTyped
<1>5. jar_failures' \in 0 .. MaxJarFailures
  BY <1>4 DEF PersistFails
<1> HIDE DEF w
<1> QED  BY <1>2, <1>3, <1>5 DEF PersistFails, jarFiles

(* One step of one engine: the type, and whose files they are.                  *)
LEMMA StepJarTyped ==
  ASSUME JarTyped, [CookieJarNext]_jarVars
  PROVE  JarTyped'
<1>1. CASE UNCHANGED jarVars
  BY <1>1 DEF JarTyped, jarVars, jarFiles
<1>2. CASE CookieJarNext
  <2>0. /\ jar_contents \in Seq(JarFile) /\ engine \in [Engines -> EngineRecord]
        /\ temporary_name \in 0 .. Len(jar_contents) /\ jar_name \in 0 .. Len(jar_contents)
        /\ temporary_name # 0 => temporary_name # jar_name
        /\ persists_raced \in BOOLEAN /\ jar_writes \in 0 .. MaxJarWrites
        /\ jar_failures \in 0 .. MaxJarFailures
        /\ \A d \in Engines : /\ engine[d].fd \in 0 .. Len(jar_contents)
                              /\ engine[d].phase = "opened" => engine[d].fd # 0
    BY Zenon DEF JarTyped
  <2>1. PICK e \in Engines :
          \/ LoadEngine(e) \/ DropEngine(e) \/ ChangeCookies(e)
          \/ OpenForPersist(e) \/ WriteJar(e) \/ RestrictPermissions(e)
          \/ RenameJar(e) \/ PersistFails(e)
    BY <1>2 DEF CookieJarNext
  <2>m. ASSUME NEW w \in EngineRecord, engine' = [engine EXCEPT ![e] = w],
               w.fd \in 0 .. Len(jar_contents'), Len(jar_contents) <= Len(jar_contents'),
               jar_contents' \in Seq(JarFile), w.phase = "opened" => w.fd # 0
        PROVE  /\ engine' \in [Engines -> EngineRecord]
               /\ \A d \in Engines : /\ engine'[d].fd \in 0 .. Len(jar_contents')
                                     /\ engine'[d].phase = "opened" => engine'[d].fd # 0
    <3>1. /\ engine' \in [Engines -> EngineRecord] /\ engine'[e] = w
          /\ \A d \in Engines : d # e => engine'[d] = engine[d]
      BY <2>m, EngineMoves
    <3>2. Len(jar_contents) \in Nat /\ Len(jar_contents') \in Nat
      BY <2>0, <2>m
    <3>3. ASSUME NEW d \in Engines
          PROVE  /\ engine'[d].fd \in 0 .. Len(jar_contents')
                 /\ engine'[d].phase = "opened" => engine'[d].fd # 0
      <4>1. CASE d = e
        BY <2>m, <3>1, <4>1
      <4>2. CASE d # e
        <5>1. engine'[d] = engine[d]
          BY <3>1, <4>2
        <5>2. engine[d].fd \in 0 .. Len(jar_contents)
          BY <2>0
        <5>3. engine[d].fd \in 0 .. Len(jar_contents')
          BY <2>m, <3>2, <5>2
        <5> QED  BY <2>0, <5>1, <5>3
      <4> QED  BY <4>1, <4>2
    <3> QED  BY <3>1, <3>3
  <2>2. CASE LoadEngine(e)
    <3>1. PICK w \in EngineRecord : engine' = [engine EXCEPT ![e] = w]
                                    /\ w.phase = "idle" /\ w.fd = 0
      BY <2>2, LoadFacts
    <3>2. UNCHANGED <<jar_contents, temporary_name, jar_name, persists_raced, jar_writes,
                      jar_failures>>
      BY <2>2, LoadFacts
    <3>3. w.fd \in 0 .. Len(jar_contents') /\ Len(jar_contents) <= Len(jar_contents')
      BY <2>0, <3>1, <3>2
    <3>4. jar_contents' \in Seq(JarFile) /\ (w.phase = "opened" => w.fd # 0)
      BY <2>0, <3>1, <3>2
    <3> QED  BY <2>0, <2>m, <3>1, <3>2, <3>3, <3>4 DEF JarTyped
  <2>3. CASE DropEngine(e)
    <3>1. /\ UNCHANGED <<jar_contents, temporary_name, jar_name, persists_raced, jar_writes>>
          /\ engine' = [engine EXCEPT ![e] = NoEngine] /\ jar_failures' \in 0 .. MaxJarFailures
      BY <2>3, DropFacts
    <3>3. NoEngine.fd \in 0 .. Len(jar_contents') /\ Len(jar_contents) <= Len(jar_contents')
      BY <2>0, <3>1, NoEngineFacts
    <3>4. jar_contents' \in Seq(JarFile) /\ NoEngine \in EngineRecord /\ NoEngine.phase # "opened"
      BY <2>0, <3>1, NoEngineFacts
    <3>5. /\ engine' \in [Engines -> EngineRecord]
          /\ \A d \in Engines : /\ engine'[d].fd \in 0 .. Len(jar_contents')
                                /\ engine'[d].phase = "opened" => engine'[d].fd # 0
      BY <2>m, <3>1, <3>3, <3>4
    <3> QED  BY <2>0, <3>1, <3>5 DEF JarTyped
  <2>4. CASE ChangeCookies(e)
    <3>1. PICK w \in EngineRecord : engine' = [engine EXCEPT ![e] = w]
                                    /\ w.phase \in {"idle", "persist"} /\ w.fd = engine[e].fd
      BY <2>4, ChangeFacts
    <3>2. /\ UNCHANGED <<jar_contents, temporary_name, jar_name, persists_raced, jar_failures>>
          /\ jar_writes' \in 0 .. MaxJarWrites
      BY <2>4, ChangeFacts
    <3>3. w.fd \in 0 .. Len(jar_contents') /\ Len(jar_contents) <= Len(jar_contents')
      BY <2>0, <3>1, <3>2
    <3>4. jar_contents' \in Seq(JarFile) /\ (w.phase = "opened" => w.fd # 0)
      BY <2>0, <3>1, <3>2
    <3> QED  BY <2>0, <2>m, <3>1, <3>2, <3>3, <3>4 DEF JarTyped
  <2>5. CASE OpenForPersist(e)
    <3>1. /\ jar_contents' \in Seq(JarFile) /\ Len(jar_contents) <= Len(jar_contents')
          /\ temporary_name' \in 1 .. Len(jar_contents') /\ temporary_name' # jar_name
          /\ UNCHANGED <<jar_name, jar_writes, jar_failures>> /\ persists_raced' \in BOOLEAN
      BY <2>5, OpenFacts
    <3>2. PICK w \in EngineRecord : engine' = [engine EXCEPT ![e] = w] /\ w.fd = temporary_name'
      BY <2>5, OpenFacts
    <3>3. /\ temporary_name' \in 0 .. Len(jar_contents') /\ temporary_name' # 0
          /\ jar_name' \in 0 .. Len(jar_contents')
      BY <2>0, <3>1
    <3>5. /\ engine' \in [Engines -> EngineRecord]
          /\ \A d \in Engines : /\ engine'[d].fd \in 0 .. Len(jar_contents')
                                /\ engine'[d].phase = "opened" => engine'[d].fd # 0
      BY <2>m, <3>1, <3>2, <3>3
    <3> QED  BY <2>0, <3>1, <3>3, <3>5 DEF JarTyped
  <2>6. CASE WriteJar(e)
    <3>0. engine[e].fd # 0
      BY <2>0, <2>6 DEF WriteJar
    <3>1. /\ jar_contents' \in Seq(JarFile) /\ Len(jar_contents') = Len(jar_contents)
          /\ UNCHANGED <<temporary_name, jar_name, persists_raced, jar_writes, jar_failures>>
      BY <2>6, <3>0, WriteJarFacts
    <3>2. PICK w \in EngineRecord : engine' = [engine EXCEPT ![e] = w]
                                    /\ w.phase = "written" /\ w.fd = 0
      BY <2>6, <3>0, WriteJarFacts
    <3>3. w.fd \in 0 .. Len(jar_contents') /\ Len(jar_contents) <= Len(jar_contents')
      BY <2>0, <3>1, <3>2
    <3>5. /\ engine' \in [Engines -> EngineRecord]
          /\ \A d \in Engines : /\ engine'[d].fd \in 0 .. Len(jar_contents')
                                /\ engine'[d].phase = "opened" => engine'[d].fd # 0
      BY <2>m, <3>1, <3>2, <3>3
    <3> QED  BY <2>0, <3>1, <3>5 DEF JarTyped
  <2>7. CASE RestrictPermissions(e)
    <3>1. PICK w \in EngineRecord : engine' = [engine EXCEPT ![e] = w]
                                    /\ w.phase = "private" /\ w.fd = engine[e].fd
      BY <2>7, PrivateFacts
    <3>2. UNCHANGED <<jar_contents, temporary_name, jar_name, persists_raced, jar_writes,
                      jar_failures>>
      BY <2>7, PrivateFacts
    <3>3. w.fd \in 0 .. Len(jar_contents') /\ Len(jar_contents) <= Len(jar_contents')
      BY <2>0, <3>1, <3>2
    <3>4. jar_contents' \in Seq(JarFile) /\ (w.phase = "opened" => w.fd # 0)
      BY <2>0, <3>1, <3>2
    <3> QED  BY <2>0, <2>m, <3>1, <3>2, <3>3, <3>4 DEF JarTyped
  <2>8. CASE RenameJar(e)
    <3>1. /\ temporary_name # 0 /\ jar_name' = temporary_name /\ temporary_name' = 0
          /\ UNCHANGED <<jar_contents, persists_raced, jar_writes, jar_failures>>
          /\ engine' \in [Engines -> EngineRecord]
          /\ engine'[e].phase = "idle"
          /\ \A d \in Engines : engine'[d].fd \in {0, engine[d].fd}
          /\ \A d \in Engines : d # e =>
               /\ engine'[d].phase = engine[d].phase
               /\ engine[d].phase # "none" => engine'[d].fd = engine[d].fd
      BY <2>8, RenameFacts
    <3>2. Len(jar_contents) \in Nat
      BY <2>0
    <3>3. ASSUME NEW d \in Engines
          PROVE  /\ engine'[d].fd \in 0 .. Len(jar_contents')
                 /\ engine'[d].phase = "opened" => engine'[d].fd # 0
      <4>1. engine'[d].fd \in 0 .. Len(jar_contents')
        <5>1. engine[d].fd \in 0 .. Len(jar_contents) /\ engine'[d].fd \in {0, engine[d].fd}
          BY <2>0, <3>1
        <5> QED  BY <3>1, <3>2, <5>1
      <4>2. engine'[d].phase = "opened" => engine'[d].fd # 0
        <5>1. CASE d = e
          BY <3>1, <5>1
        <5>2. CASE d # e
          BY <2>0, <3>1, <5>2
        <5> QED  BY <5>1, <5>2
      <4> QED  BY <4>1, <4>2
    <3>4. temporary_name' \in 0 .. Len(jar_contents')
      BY <3>1, <3>2
    <3> QED  BY <2>0, <3>1, <3>3, <3>4 DEF JarTyped
  <2>9. CASE PersistFails(e)
    <3>1. PICK w \in EngineRecord : engine' = [engine EXCEPT ![e] = w]
                                    /\ w.phase = "idle" /\ w.fd = 0
      BY <2>9, PersistFailsFacts
    <3>2. /\ UNCHANGED <<jar_contents, temporary_name, jar_name, persists_raced, jar_writes>>
          /\ jar_failures' \in 0 .. MaxJarFailures
      BY <2>9, PersistFailsFacts
    <3>3. w.fd \in 0 .. Len(jar_contents') /\ Len(jar_contents) <= Len(jar_contents')
      BY <2>0, <3>1, <3>2
    <3>4. jar_contents' \in Seq(JarFile) /\ (w.phase = "opened" => w.fd # 0)
      BY <2>0, <3>1, <3>2
    <3> QED  BY <2>0, <2>m, <3>1, <3>2, <3>3, <3>4 DEF JarTyped
  <2> QED  BY <2>1, <2>2, <2>3, <2>4, <2>5, <2>6, <2>7, <2>8, <2>9
<1> QED  BY <1>1, <1>2

(* A step of e that leaves the jar as it is, and another engine's temporary file.  *)
LEMMA JarKept ==
  ASSUME JarTyped, AloneInJar, ~persists_raced,
         NEW e \in Engines, NEW w \in EngineRecord, engine' = [engine EXCEPT ![e] = w],
         JarLoads', JarCookies' = JarCookies,
         \A d \in Engines : d # e /\ WritesJar(d) =>
           /\ temporary_name' = temporary_name
           /\ jar_contents'[temporary_name] = jar_contents[temporary_name],
         w.phase \in {"opened", "written", "private"} =>
           \A d \in Engines : d # e => ~WritesJar(d),
         TemporaryInv(e)', SavedInv(e)'
  PROVE  AloneInJar'
<1>1. /\ engine'[e] = w /\ \A d \in Engines : d # e => engine'[d] = engine[d]
  BY EngineMoves
<1>2. /\ \A c, d \in Engines : WritesJar(c) /\ WritesJar(d) => c = d
      /\ \A d \in Engines : TemporaryInv(d) /\ SavedInv(d)
  BY DEF AloneInJar
<1>3. \A d \in Engines : d # e => /\ (WritesJar(d))' = WritesJar(d)
                                  /\ (Persisting(d))' = Persisting(d)
  BY <1>1 DEF WritesJar, Persisting
<1>4. (WritesJar(e))' = (w.phase \in {"opened", "written", "private"})
  BY <1>1 DEF WritesJar
<1>5. \A c, d \in Engines : (WritesJar(c) /\ WritesJar(d))' => c = d
  BY <1>2, <1>3, <1>4
<1>6. ASSUME NEW d \in Engines, d # e
      PROVE  TemporaryInv(d)' /\ SavedInv(d)'
  <2>1. engine'[d] = engine[d] /\ TemporaryInv(d) /\ SavedInv(d)
    BY <1>1, <1>2, <1>6
  <2>2. SavedInv(d)'
    BY <2>1 DEF SavedInv
  <2>3. CASE WritesJar(d)
    <3>1. /\ temporary_name' = temporary_name
          /\ jar_contents'[temporary_name] = jar_contents[temporary_name]
      BY <1>6, <2>3
    <3>2. TemporaryInv(d)'
      BY <2>1, <3>1 DEF TemporaryInv, Persisting, WritesJar
    <3> QED  BY <2>2, <3>2
  <2>4. CASE ~WritesJar(d)
    <3>1. TemporaryInv(d)'
      BY <2>1, <2>4 DEF TemporaryInv, Persisting, WritesJar
    <3> QED  BY <2>2, <3>1
  <2> QED  BY <2>3, <2>4
<1> QED  BY <1>5, <1>6 DEF AloneInJar

LEMMA StepAloneInJar ==
  ASSUME JarTyped, AloneInJar, [CookieJarNext]_jarVars
  PROVE  AloneInJar'
<1>1. CASE UNCHANGED jarVars
  BY <1>1 DEF AloneInJar, JarLoads, JarCookies, WritesJar, TemporaryInv, SavedInv, Persisting,
              jarVars, jarFiles
<1>2. CASE CookieJarNext
  <2>a. SUFFICES ASSUME ~persists_raced'
                 PROVE  AloneInJar'
    BY DEF AloneInJar
  <2>1. PICK e \in Engines :
          \/ LoadEngine(e) \/ DropEngine(e) \/ ChangeCookies(e)
          \/ OpenForPersist(e) \/ WriteJar(e) \/ RestrictPermissions(e)
          \/ RenameJar(e) \/ PersistFails(e)
    BY <1>2 DEF CookieJarNext
  <2>b. ~persists_raced
    BY <2>1, <2>a, OpenFacts
       DEF LoadEngine, DropEngine, ChangeCookies, WriteJar, RestrictPermissions, RenameJar,
           PersistFails
  <2>c. /\ JarLoads /\ TemporaryInv(e) /\ SavedInv(e)
        /\ \A c, d \in Engines : WritesJar(c) /\ WritesJar(d) => c = d
    BY <2>b DEF AloneInJar
  <2>d. ASSUME UNCHANGED <<jar_contents, temporary_name, jar_name>>
        PROVE  /\ JarLoads' /\ JarCookies' = JarCookies
               /\ \A d \in Engines : d # e /\ WritesJar(d) =>
                    /\ temporary_name' = temporary_name
                    /\ jar_contents'[temporary_name] = jar_contents[temporary_name]
    BY <2>c, <2>d DEF JarLoads, JarCookies
  <2>2. CASE LoadEngine(e)
    <3>1. PICK w \in EngineRecord : engine' = [engine EXCEPT ![e] = w]
                                    /\ w.phase = "idle" /\ w.cookies = JarCookies
      BY <2>2, LoadFacts
    <3>2. UNCHANGED <<jar_contents, temporary_name, jar_name>>
      BY <2>2, LoadFacts
    <3>3. engine'[e] = w
      BY <3>1, EngineMoves
    <3>4. TemporaryInv(e)' /\ SavedInv(e)'
      BY <2>d, <3>1, <3>2, <3>3 DEF TemporaryInv, SavedInv, Persisting, WritesJar
    <3> QED  BY <2>b, <2>d, <3>1, <3>2, <3>4, JarKept
  <2>3. CASE DropEngine(e)
    <3>1. engine' = [engine EXCEPT ![e] = NoEngine]
      BY <2>3, DropFacts
    <3>2. UNCHANGED <<jar_contents, temporary_name, jar_name>>
      BY <2>3, DropFacts
    <3>3. engine'[e] = NoEngine
      BY <3>1, EngineMoves, NoEngineFacts
    <3>4. TemporaryInv(e)' /\ SavedInv(e)'
      BY <3>3, NoEngineFacts DEF TemporaryInv, SavedInv, Persisting, WritesJar
    <3> QED  BY <2>b, <2>d, <3>1, <3>2, <3>4, NoEngineFacts, JarKept
  <2>4. CASE ChangeCookies(e)
    <3>1. PICK w \in EngineRecord :
            /\ engine' = [engine EXCEPT ![e] = w]
            /\ \/ w.phase = "persist" /\ Cardinality(w.cookies) <= MaxCookies
               \/ w.phase = "idle" /\ w.unsaved
      BY <2>4, ChangeFacts
    <3>2. UNCHANGED <<jar_contents, temporary_name, jar_name>>
      BY <2>4, ChangeFacts
    <3>3. engine'[e] = w
      BY <3>1, EngineMoves
    <3>4. TemporaryInv(e)' /\ SavedInv(e)'
      BY <3>1, <3>3 DEF TemporaryInv, SavedInv, Persisting, WritesJar
    <3> QED  BY <2>b, <2>d, <3>1, <3>2, <3>4, JarKept
  <2>5. CASE OpenForPersist(e)
    <3>1. PICK w \in EngineRecord :
            /\ engine' = [engine EXCEPT ![e] = w]
            /\ w.phase = "opened" /\ w.fd = temporary_name' /\ w.cookies = engine[e].cookies
      BY <2>5, OpenFacts
    <3>2. /\ engine[e].phase = "persist" /\ temporary_name' # 0
          /\ jar_contents'[temporary_name'] = Torn /\ jar_name' = jar_name
          /\ jar_name # 0 => jar_contents'[jar_name] = jar_contents[jar_name]
      BY <2>5, OpenFacts
    <3>3. \A d \in Engines : d # e => ~WritesJar(d)
      BY <2>5, <2>a, OpenFacts
    <3>4. engine'[e] = w
      BY <3>1, EngineMoves
    <3>5. JarLoads' /\ JarCookies' = JarCookies
      BY <2>c, <3>2 DEF JarLoads, JarCookies
    <3>6. Cardinality(engine[e].cookies) <= MaxCookies
      BY <2>c, <3>2 DEF TemporaryInv, Persisting
    <3>7. TemporaryInv(e)' /\ SavedInv(e)'
      BY <3>1, <3>2, <3>4, <3>6 DEF TemporaryInv, SavedInv, Persisting, WritesJar
    <3> QED  BY <2>b, <3>1, <3>3, <3>5, <3>7, JarKept
  <2>6. CASE WriteJar(e)
    <3>0. engine[e].fd # 0
      BY <2>6 DEF WriteJar, JarTyped
    <3>1. PICK w \in EngineRecord :
            /\ engine' = [engine EXCEPT ![e] = w]
            /\ w.phase = "written" /\ w.cookies = engine[e].cookies
      BY <2>6, <3>0, WriteJarFacts
    <3>2. /\ engine[e].phase = "opened"
          /\ \A i \in 1 .. Len(jar_contents) :
               i # engine[e].fd => jar_contents'[i] = jar_contents[i]
          /\ jar_contents[engine[e].fd] = Torn =>
               jar_contents'[engine[e].fd] = Whole(engine[e].cookies)
          /\ temporary_name' = temporary_name /\ jar_name' = jar_name
      BY <2>6, <3>0, WriteJarFacts
    <3>3. /\ engine[e].fd = temporary_name /\ jar_contents[temporary_name] = Torn
          /\ temporary_name # 0 /\ Cardinality(engine[e].cookies) <= MaxCookies
      BY <2>c, <3>2 DEF TemporaryInv, WritesJar, Persisting
    <3>4. \A d \in Engines : d # e => ~WritesJar(d)
      BY <2>c, <3>2 DEF WritesJar
    <3>5. jar_name # 0 => jar_contents'[jar_name] = jar_contents[jar_name]
      <4>1. /\ jar_name \in 0 .. Len(jar_contents) /\ jar_contents \in Seq(JarFile)
            /\ temporary_name # jar_name
        BY <3>3 DEF JarTyped
      <4>2. jar_name # 0 => jar_name \in 1 .. Len(jar_contents)
        BY <4>1
      <4> QED  BY <3>2, <3>3, <4>1, <4>2
    <3>6. JarLoads' /\ JarCookies' = JarCookies
      BY <2>c, <3>2, <3>5 DEF JarLoads, JarCookies
    <3>7. engine'[e] = w
      BY <3>1, EngineMoves
    <3>8. TemporaryInv(e)' /\ SavedInv(e)'
      BY <3>1, <3>2, <3>3, <3>7 DEF TemporaryInv, SavedInv, Persisting, WritesJar
    <3> QED  BY <2>b, <3>1, <3>4, <3>6, <3>8, JarKept
  <2>7. CASE RestrictPermissions(e)
    <3>1. PICK w \in EngineRecord :
            /\ engine' = [engine EXCEPT ![e] = w]
            /\ w.phase = "private" /\ w.cookies = engine[e].cookies
      BY <2>7, PrivateFacts
    <3>2. engine[e].phase = "written" /\ UNCHANGED <<jar_contents, temporary_name, jar_name>>
      BY <2>7, PrivateFacts
    <3>3. engine'[e] = w
      BY <3>1, EngineMoves
    <3>4. TemporaryInv(e)' /\ SavedInv(e)'
      BY <2>c, <3>1, <3>2, <3>3 DEF TemporaryInv, SavedInv, Persisting, WritesJar
    <3>5. \A d \in Engines : d # e => ~WritesJar(d)
      BY <2>c, <3>2 DEF WritesJar
    <3> QED  BY <2>b, <2>d, <3>1, <3>2, <3>4, <3>5, JarKept
  <2>8. CASE RenameJar(e)
    <3>1. /\ engine[e].phase = "private" /\ temporary_name # 0
          /\ jar_name' = temporary_name /\ jar_contents' = jar_contents
          /\ engine'[e].phase = "idle" /\ engine'[e].cookies = engine[e].cookies
          /\ \A d \in Engines : d # e =>
               /\ engine'[d].phase = engine[d].phase
               /\ engine[d].phase # "none" =>
                    engine'[d].foreign /\ engine'[d].cookies = engine[d].cookies
      BY <2>8, RenameFacts
    <3>2. /\ jar_contents[temporary_name] = Whole(engine[e].cookies)
          /\ Cardinality(engine[e].cookies) <= MaxCookies
      BY <2>c, <3>1 DEF TemporaryInv, Persisting
    <3>3. JarLoads' /\ JarCookies' = engine[e].cookies
      BY <3>1, <3>2 DEF JarLoads, JarCookies, Whole
    <3>4. \A d \in Engines : d # e => ~WritesJar(d)
      BY <2>c, <3>1 DEF WritesJar
    <3>5. \A d \in Engines : ~(WritesJar(d))'
      BY <3>1, <3>4 DEF WritesJar
    <3>6. ASSUME NEW d \in Engines
          PROVE  TemporaryInv(d)' /\ SavedInv(d)'
      <4>1. CASE d = e
        BY <3>1, <3>3, <4>1 DEF TemporaryInv, SavedInv, Persisting, WritesJar
      <4>2. CASE d # e
        <5>1. /\ engine'[d].phase = engine[d].phase
              /\ engine[d].phase # "none" =>
                   engine'[d].foreign /\ engine'[d].cookies = engine[d].cookies
          BY <3>1, <4>2
        <5>2. TemporaryInv(d) /\ ~WritesJar(d)
          BY <2>b, <3>4, <4>2 DEF AloneInJar
        <5>3. SavedInv(d)'
          BY <5>1 DEF SavedInv
        <5>4. TemporaryInv(d)'
          BY <5>1, <5>2 DEF TemporaryInv, Persisting, WritesJar
        <5> QED  BY <5>3, <5>4
      <4> QED  BY <4>1, <4>2
    <3> QED  BY <3>3, <3>5, <3>6 DEF AloneInJar
  <2>9. CASE PersistFails(e)
    <3>1. PICK w \in EngineRecord :
            engine' = [engine EXCEPT ![e] = w] /\ w.phase = "idle" /\ w.unsaved
      BY <2>9, PersistFailsFacts
    <3>2. UNCHANGED <<jar_contents, temporary_name, jar_name>>
      BY <2>9, PersistFailsFacts
    <3>3. engine'[e] = w
      BY <3>1, EngineMoves
    <3>4. TemporaryInv(e)' /\ SavedInv(e)'
      BY <3>1, <3>3 DEF TemporaryInv, SavedInv, Persisting, WritesJar
    <3> QED  BY <2>b, <2>d, <3>1, <3>2, <3>4, JarKept
  <2> QED  BY <2>1, <2>2, <2>3, <2>4, <2>5, <2>6, <2>7, <2>8, <2>9
<1> QED  BY <1>1, <1>2

LEMMA JarInvariant == CookieJarSpec => []JarInv
<1>1. CookieJarInit => JarInv
  <2>1. SUFFICES ASSUME CookieJarInit PROVE JarInv
    OBVIOUS
  <2>2. engine = [d \in Engines |-> NoEngine] /\ \A d \in Engines : engine[d] = NoEngine
    BY <2>1 DEF CookieJarInit
  <2>3. JarTyped
    <3>1. /\ jar_contents = <<>> /\ temporary_name = 0 /\ jar_name = 0
          /\ persists_raced = FALSE /\ jar_writes = 0 /\ jar_failures = 0
      BY <2>1 DEF CookieJarInit
    <3>2. jar_writes \in 0 .. MaxJarWrites /\ jar_failures \in 0 .. MaxJarFailures
      BY <3>1, CookieJarAssumption
    <3>3. jar_contents \in Seq(JarFile) /\ 0 \in 0 .. Len(jar_contents)
      BY <3>1
    <3> QED  BY <2>2, <3>1, <3>2, <3>3, NoEngineFacts DEF JarTyped
  <2>4. AloneInJar
    BY <2>1, <2>2, NoEngineFacts
       DEF CookieJarInit, AloneInJar, JarLoads, WritesJar, TemporaryInv, SavedInv, Persisting
  <2> QED  BY <2>3, <2>4 DEF JarInv
<1>2. JarInv /\ [CookieJarNext]_jarVars => JarInv'
  BY StepJarTyped, StepAloneInJar DEF JarInv
<1> QED  BY <1>1, <1>2, PTL DEF CookieJarSpec

(* However many engines of one workspace there are, and whatever fails or dies:    *)
(* as long as no two of them persist at the same moment, cookies.json can be       *)
(* loaded, and an idle engine that has saved what it holds, and behind whose back   *)
(* no other one has, holds what the file holds.                                   *)
THEOREM JarIsWhatItsEngineSaved == CookieJarSpec => []JarFollowsEngine
<1>1. JarInv => JarFollowsEngine
  BY DEF JarInv, AloneInJar, SavedInv, JarFollowsEngine
<1> QED  BY <1>1, JarInvariant, PTL

(* The jar's state has its type: each name refers to a file that exists, and no    *)
(* engine writes to one that does not.                                           *)
THEOREM JarTypeCorrect == CookieJarSpec => []CookieJarTypeOK
<1>1. JarInv => CookieJarTypeOK
  <2>1. SUFFICES ASSUME JarInv PROVE CookieJarTypeOK
    OBVIOUS
  <2>2. /\ jar_contents \in Seq([whole : BOOLEAN, cookies : SUBSET Cookies])
        /\ engine \in [Engines -> EngineRecord]
        /\ \A e \in Engines : engine[e].fd \in 0 .. Len(jar_contents)
        /\ temporary_name \in 0 .. Len(jar_contents) /\ jar_name \in 0 .. Len(jar_contents)
        /\ persists_raced \in BOOLEAN
        /\ jar_writes \in 0 .. MaxJarWrites /\ jar_failures \in 0 .. MaxJarFailures
    BY <2>1, Zenon DEF JarInv, JarTyped, JarFile
  <2>3. \A e \in Engines : engine[e] \in
          [phase : {"none", "idle", "persist", "opened", "written", "private"},
           cookies : SUBSET Cookies, fd : 0 .. Len(jar_contents),
           unsaved : BOOLEAN, foreign : BOOLEAN]
    BY <2>2 DEF EngineRecord
  <2> QED  BY <2>2, <2>3 DEF CookieJarTypeOK
<1> QED  BY <1>1, JarInvariant, PTL

(***************************************************************************)
(* The files and the jar together                                          *)
(***************************************************************************)
(* Whatever two processes and the engines do, fail at or die in: each saved       *)
(* request has one file and cookies.json what an engine saved, as far as no two    *)
(* of them save at the same moment.                                              *)
THEOREM StoredDataStaysWhole == WorkspaceFilesSpec /\ CookieJarSpec => []StoredDataIsWhole
<1>1. OneFilePerRequest /\ JarFollowsEngine => StoredDataIsWhole
  BY DEF StoredDataIsWhole
<1> QED  BY <1>1, WorkspaceFilesOnePerRequest, JarIsWhatItsEngineSaved, PTL
=============================================================================
