-------------------------- MODULE WorkspaceFiles --------------------------
(***************************************************************************)
(* The request files of a collection as several processes save, rename,       *)
(* duplicate and delete them (postly-core/src/storage.rs).                    *)
(*                                                                         *)
(* A path is chosen by asking for one candidate after the other whether it    *)
(* exists; the file is written by a rename over that path; a relocation then  *)
(* removes the old file, and removes the new one when it cannot.  Nothing is   *)
(* locked, each of these steps can fail, and a process can die between them.  *)
(***************************************************************************)
EXTENDS Naturals, Sequences, FiniteSets, Functions

CONSTANTS
  FileProcs,       \* the processes: the desktop app and the CLI
  RequestIds,      \* the ids of requests
  IdPrefix,        \* the first eight characters of each
  RequestNames,    \* their slugified names, the folder included
  MaxFileSaves,    \* bound: operations in a behaviour
  MaxFileFailures  \* bound: failures and crashes in a behaviour

ASSUME WorkspaceFilesAssumption ==
  /\ "" \notin RequestNames /\ DOMAIN IdPrefix = RequestIds
  /\ MaxFileSaves \in Nat /\ MaxFileFailures \in Nat

VARIABLES
  request_files,   \* the request in each file that exists
  opened,          \* the path and request each process has open
  writing,         \* the operation each process is in
  deleted,         \* history: the requests that were deleted
  raced,           \* history: operations overlapped, or one began from a
                   \* path that no longer held the request
  file_saves,      \* history: operations begun
  file_failures    \* history: failures and crashes

fileVars ==
  <<request_files, opened, writing, deleted, raced, file_saves, file_failures>>

NoPath == <<>>
NoRequest == [id |-> 0, name |-> "", version |-> 0]
NothingOpen == [path |-> NoPath, request |-> NoRequest]
NotWriting == [phase |-> "idle", old |-> NoPath, request |-> NoRequest, tries |-> 0]

WorkspaceFilesInit ==
  /\ request_files = <<>>
  /\ opened = [p \in FileProcs |-> NothingOpen]
  /\ writing = [p \in FileProcs |-> NotWriting]
  /\ deleted = {} /\ raced = FALSE /\ file_saves = 0 /\ file_failures = 0

Exists(path) == path \in DOMAIN request_files
Idle(p) == writing[p].phase = "idle"
OthersBusy(p) == \E q \in FileProcs \ {p} : ~Idle(q)
Stale(p) ==
  ~Exists(opened[p].path) \/ request_files[opened[p].path] # opened[p].request

(* The candidates of request_path_for: <name>, <name>-<prefix>, and then       *)
(* <name>-<prefix>-2, -3, ...                                                *)
PathCandidate(request, i) ==
  CASE i = 1 -> <<request.name>>
    [] i = 2 -> <<request.name, IdPrefix[request.id]>>
    [] i > 2 -> <<request.name, IdPrefix[request.id], i - 1>>
Target(p) == PathCandidate(writing[p].request, writing[p].tries)

-----------------------------------------------------------------------------
BeginWriting(p, old, request) ==
  /\ file_saves < MaxFileSaves
  /\ file_saves' = file_saves + 1
  /\ writing' = [writing EXCEPT ![p] =
       [phase |-> "choose", old |-> old, request |-> request, tries |-> 1]]
  /\ raced' = (raced \/ OthersBusy(p) \/ (old # NoPath /\ Stale(p)))
  /\ UNCHANGED <<request_files, opened, deleted, file_failures>>

(* save_request of a draft, and duplicate_request: a new id and no old path.   *)
SaveNewRequest(p) ==
  /\ Idle(p)
  /\ \E id \in RequestIds, n \in RequestNames :
       /\ id \notin deleted
       /\ \A path \in DOMAIN request_files : request_files[path].id # id
       /\ \A q \in FileProcs : writing[q].request.id # id
       /\ BeginWriting(p, NoPath, [id |-> id, name |-> n, version |-> file_saves])

(* relocate_request of the open request, edited and perhaps renamed.           *)
RelocateRequest(p) ==
  /\ Idle(p) /\ opened[p].path # NoPath
  /\ \E n \in RequestNames :
       BeginWriting(p, opened[p].path,
         [opened[p].request EXCEPT !.name = n, !.version = file_saves])

OpenRequest(p) ==
  /\ Idle(p)
  /\ \E path \in DOMAIN request_files :
       opened' = [opened EXCEPT ![p] =
                    [path |-> path, request |-> request_files[path]]]
  /\ UNCHANGED <<request_files, writing, deleted, raced, file_saves, file_failures>>

(* One `exists` of request_path_for: the request's own path is as good as a    *)
(* free one.                                                                 *)
PathIsFreeOrNamed(p) == Target(p) = writing[p].old \/ Len(Target(p)) = 2 \/ ~Exists(Target(p))
PathIsFree(p) == Target(p) = writing[p].old \/ ~Exists(Target(p))
TryPath(p) ==
  /\ writing[p].phase = "choose"
  /\ writing' = IF PathIsFree(p) THEN [writing EXCEPT ![p].phase = "write"]
                                ELSE [writing EXCEPT ![p].tries = @ + 1]
  /\ UNCHANGED <<request_files, opened, deleted, raced, file_saves, file_failures>>

(* atomic_write: a temporary file of the process's own, renamed onto the path. *)
Finish(p) ==
  /\ writing' = [writing EXCEPT ![p] = NotWriting]
  /\ opened' = [opened EXCEPT ![p] =
                  [path |-> Target(p), request |-> writing[p].request]]
StaysAlways(p) == TRUE
Stays(p) == writing[p].old \in {NoPath, Target(p)}
WriteRequestFile(p) ==
  /\ writing[p].phase = "write"
  /\ request_files' = [path \in DOMAIN request_files \cup {Target(p)} |->
       IF path = Target(p) THEN writing[p].request ELSE request_files[path]]
  /\ IF Stays(p) THEN Finish(p)
     ELSE writing' = [writing EXCEPT ![p].phase = "remove"] /\ UNCHANGED opened
  /\ UNCHANGED <<deleted, raced, file_saves, file_failures>>

Without(path) == Restrict(request_files, DOMAIN request_files \ {path})

RemoveOldFile(p) ==
  /\ writing[p].phase = "remove" /\ Exists(writing[p].old)
  /\ request_files' = Without(writing[p].old)
  /\ Finish(p)
  /\ UNCHANGED <<deleted, raced, file_saves, file_failures>>

(* A step fails: nothing was written yet, or the old file cannot be removed    *)
(* and the new one is, if it can.                                             *)
RollBackOld(p) == request_files' = Without(writing[p].old)
RollBackNew(p) == request_files' \in {request_files, Without(Target(p))}
OperationFails(p) ==
  /\ ~Idle(p)
  /\ \/ file_failures < MaxFileFailures /\ file_failures' = file_failures + 1
     \/ /\ writing[p].phase = "remove" /\ ~Exists(writing[p].old)
        /\ UNCHANGED file_failures
  /\ IF writing[p].phase = "remove" THEN RollBackNew(p) ELSE UNCHANGED request_files
  /\ writing' = [writing EXCEPT ![p] = NotWriting]
  /\ UNCHANGED <<opened, deleted, raced, file_saves>>

(* The process dies: a temporary file may stay, which no reader takes for a    *)
(* request.                                                                  *)
ProcessDies(p) ==
  /\ ~Idle(p) /\ file_failures < MaxFileFailures
  /\ file_failures' = file_failures + 1
  /\ writing' = [writing EXCEPT ![p] = NotWriting]
  /\ opened' = [opened EXCEPT ![p] = NothingOpen]
  /\ UNCHANGED <<request_files, deleted, raced, file_saves>>

(* delete_request of the open request: one remove_file, refused when there is  *)
(* no file.                                                                  *)
DeleteOpenRequest(p) ==
  /\ Idle(p) /\ file_saves < MaxFileSaves /\ Exists(opened[p].path)
  /\ file_saves' = file_saves + 1
  /\ request_files' = Without(opened[p].path)
  /\ deleted' = deleted \cup {opened[p].request.id}
  /\ raced' = (raced \/ OthersBusy(p) \/ Stale(p))
  /\ opened' = [opened EXCEPT ![p] = NothingOpen]
  /\ UNCHANGED <<writing, file_failures>>

WorkspaceFilesNext ==
  \E p \in FileProcs :
    \/ SaveNewRequest(p) \/ RelocateRequest(p) \/ OpenRequest(p)
    \/ TryPath(p) \/ WriteRequestFile(p) \/ RemoveOldFile(p)
    \/ OperationFails(p) \/ ProcessDies(p) \/ DeleteOpenRequest(p)

WorkspaceFilesSpec == WorkspaceFilesInit /\ [][WorkspaceFilesNext]_fileVars

-----------------------------------------------------------------------------
Requests ==
  [id : RequestIds, name : RequestNames, version : 0 .. MaxFileSaves]
RequestPaths ==
  {PathCandidate(r, i) : r \in Requests, i \in 1 .. MaxFileSaves + 1}

WorkspaceFilesTypeOK ==
  /\ DOMAIN request_files \subseteq RequestPaths
  /\ \A path \in DOMAIN request_files : request_files[path] \in Requests
  /\ \A p \in FileProcs :
       /\ opened[p].path \in RequestPaths \cup {NoPath}
       /\ opened[p].request \in Requests \cup {NoRequest}
       /\ writing[p].phase \in {"idle", "choose", "write", "remove"}
       /\ writing[p].old \in RequestPaths \cup {NoPath}
       /\ writing[p].request \in Requests \cup {NoRequest}
  /\ deleted \subseteq RequestIds /\ raced \in BOOLEAN
  /\ file_saves \in 0 .. MaxFileSaves /\ file_failures \in 0 .. MaxFileFailures

(* The files implement a store of requests by id: as long as operations of two *)
(* processes do not overlap and none starts from a path that another one has    *)
(* taken, every step changes the versions of one request only, whatever names  *)
(* and id prefixes clash, and no failure or crash loses a request that was not *)
(* deleted.                                                                  *)
Store == INSTANCE RequestStore WITH
  Versions <- Requests,
  stored <- [id \in RequestIds |->
               {request_files[path] :
                  path \in {q \in DOMAIN request_files : request_files[q].id = id}}],
  forgotten <- deleted
ImplementsRequestStore == Store!StoreSpec

(* With nothing cut short, a process that has the files to itself keeps one    *)
(* file for each request, under the path of its name, and an operation's own  *)
(* request is what it has open.                                              *)
OneFilePerRequest ==
  ~raced /\ file_failures = 0 /\ (\A p \in FileProcs : Idle(p)) =>
    \A path, q \in DOMAIN request_files :
      /\ request_files[path].id = request_files[q].id => path = q
      /\ path[1] = request_files[path].name
=============================================================================
