------------------------ MODULE WorkspaceTransaction ------------------------
(***************************************************************************)
(* `WorkspaceTransaction` of postly-core/src/storage.rs: the rollback        *)
(* journal under which import.rs and openapi.rs write a collection (its      *)
(* manifest, then its requests, each in a folder) or one environment.  The   *)
(* user goes on editing and deleting saved requests, in the desktop app or   *)
(* an editor, while the import runs in another thread or process.            *)
(*                                                                         *)
(* A directory is the sequence of its names below the workspace root, a file *)
(* the record of its directory and name; a name is the tuple of the slug and *)
(* what `request_path_for` appends to it.  atomic_write replaces a whole     *)
(* file by one rename, so a content is a value: who wrote it, and which      *)
(* version it is.                                                            *)
(***************************************************************************)
EXTENDS Naturals, Sequences, Functions

CONSTANTS
  Folders,        \* the folders of the imported requests, as sequences
  Names,          \* the slugs of their names
  Prefixes,       \* what the first 8 digits of their ids may be
  MaxRequests,    \* bound: requests of the import
  MaxManifests,   \* bound: writes of the collection manifest
  MaxEdits,       \* bound: edits and deletions by the user
  MaxFaults       \* bound: I/O errors

VARIABLES
  dirs, files,          \* the workspace: its directories, and file contents
  pc,                   \* where the import is
  target, payload,      \* the file it is saving, and what it writes there
  originals,            \* WorkspaceTransaction.originals
  created_directories,  \* WorkspaceTransaction.created_directories
  requests, manifests,  \* history: requests saved, manifests written
  theirs,               \* history: the files as the user last left them
  had,                  \* history: the directories before the import
  unrestored,           \* history: files that the rollback failed to restore
  edits, faults

workspaceVars == <<dirs, files>>
journalVars == <<originals, created_directories>>
userVars == <<theirs, had, edits>>
vars == <<workspaceVars, pc, target, payload, journalVars, requests, manifests,
          userVars, unrestored, faults>>

(* The import of a collection writes the manifest at least once.              *)
ASSUME TransactionAssumption ==
  /\ \A f \in Folders : f \in Seq(Range(f))
  /\ MaxRequests \in Nat /\ MaxManifests \in Nat \ {0}
  /\ MaxEdits \in Nat /\ MaxFaults \in Nat

(***************************************************************************)
(* Paths                                                                   *)
(***************************************************************************)
Requests == <<"collections", "c", "requests">>
Environments == <<"environments">>
Manifest == [dir |-> <<"collections", "c">>, name |-> <<"manifest">>]
Environment == [dir |-> Environments, name |-> <<"environment">>]

Ancestors(d) == {SubSeq(d, 1, n) : n \in 0 .. Len(d)}
AllDirs == (UNION {Ancestors(Requests \o f) : f \in Folders}) \cup {Environments}

(* A request file named after its request alone: the preferred path.         *)
RequestFiles == [dir : {Requests \o f : f \in Folders}, name : {<<n>> : n \in Names}]
IsRequest(f) == f \notin {Manifest, Environment}

Exists(f) == f \in DOMAIN files

(* request_path_for: the first path that is free, of the slug, the slug and   *)
(* the id's digits, and these with the suffixes 2, 3, ...                     *)
Candidate(folder, n, p, i) ==
  [dir |-> Requests \o folder,
   name |-> IF i = 0 THEN <<n>> ELSE IF i = 1 THEN <<n, p>> ELSE <<n, p, i>>]
RequestPathPreferred(folder, n, p) == Candidate(folder, n, p, 0)
RequestPathTwoTries(folder, n, p) ==
  Candidate(folder, n, p, IF Exists(Candidate(folder, n, p, 0)) THEN 1 ELSE 0)
RequestPath(folder, n, p) ==
  LET free == {i \in 0 .. MaxRequests + 1 : ~Exists(Candidate(folder, n, p, i))}
  IN Candidate(folder, n, p, CHOOSE i \in free : \A j \in free : i <= j)

User(version) == [by |-> "user", version |-> version]
Import(version) == [by |-> "import", version |-> version]
NoFile == [by |-> "nobody", version |-> 0]

(***************************************************************************)
(* The import                                                              *)
(***************************************************************************)
(* Any workspace: directories closed under parents, some of the files.       *)
Init ==
  /\ dirs \in {D \in SUBSET AllDirs : /\ <<>> \in D
                                      /\ \A d \in D : Ancestors(d) \subseteq D}
  /\ \E kept \in SUBSET {f \in RequestFiles \cup {Manifest, Environment} :
                           f.dir \in dirs} :
       files = [f \in kept |-> User(0)]
  /\ pc = "start"
  /\ target = Manifest /\ payload = User(0)
  /\ originals = <<>> /\ created_directories = <<>>
  /\ requests = 0 /\ manifests = 0
  /\ theirs = files /\ had = dirs
  /\ unrestored = {}
  /\ edits = 0 /\ faults = 0

Goto(label) == pc' = label
Saving(f, content, label) ==
  target' = f /\ payload' = content /\ Goto(label)

CreateCollection ==
  /\ pc = "start"
  /\ Saving(Manifest, Import(1), "mkdir")
  /\ UNCHANGED <<workspaceVars, journalVars, requests, manifests, userVars,
                 unrestored, faults>>

SaveEnvironment ==
  /\ pc = "start"
  /\ Saving(Environment, Import(1), "mkdir")
  /\ UNCHANGED <<workspaceVars, journalVars, requests, manifests, userVars,
                 unrestored, faults>>

(* Between two saves of a collection's import.                               *)
Importing == pc = "ready" /\ target # Environment

SaveCollection ==
  /\ Importing /\ manifests < MaxManifests
  /\ Saving(Manifest, Import(manifests + 1), "snapshot")
  /\ UNCHANGED <<workspaceVars, journalVars, requests, manifests, userVars,
                 unrestored, faults>>

SaveRequest ==
  /\ Importing /\ requests < MaxRequests
  /\ \E folder \in Folders, n \in Names, p \in Prefixes :
       Saving(RequestPath(folder, n, p), Import(requests + 1), "mkdir")
  /\ UNCHANGED <<workspaceVars, journalVars, requests, manifests, userVars,
                 unrestored, faults>>

(* The directory that the save wants, and what of it is missing, deepest     *)
(* first.                                                                    *)
Directory == IF target = Manifest THEN Requests ELSE target.dir
MissingOneTooMany(d) ==
  LET there == CHOOSE n \in 0 .. Len(d) :
                 /\ SubSeq(d, 1, n) \in dirs
                 /\ \A m \in n + 1 .. Len(d) : SubSeq(d, 1, m) \notin dirs
  IN [i \in 1 .. Len(d) - there + 1 |-> SubSeq(d, 1, Len(d) + 1 - i)]
Missing(d) ==
  LET there == CHOOSE n \in 0 .. Len(d) :
                 /\ SubSeq(d, 1, n) \in dirs
                 /\ \A m \in n + 1 .. Len(d) : SubSeq(d, 1, m) \notin dirs
  IN [i \in 1 .. Len(d) - there |-> SubSeq(d, 1, Len(d) + 1 - i)]

EnsureDirectory ==
  /\ pc = "mkdir"
  /\ dirs' = dirs \cup Ancestors(Directory)
  /\ created_directories' = created_directories \o Missing(Directory)
  /\ Goto("snapshot")
  /\ UNCHANGED <<files, target, payload, originals, requests, manifests,
                 userVars, unrestored, faults>>

(* The content goes into the journal, once for each path.                    *)
Record(f) ==
  originals' = [g \in DOMAIN originals \cup {f} |->
                  IF g # f THEN originals[g] ELSE IF Exists(f) THEN files[f] ELSE NoFile]
SnapshotAgain == Record(target)
SnapshotOnce ==
  IF target \in DOMAIN originals THEN UNCHANGED originals ELSE Record(target)
Snapshot ==
  /\ pc = "snapshot"
  /\ SnapshotOnce
  /\ Goto("write")
  /\ UNCHANGED <<workspaceVars, target, payload, created_directories, requests,
                 manifests, userVars, unrestored, faults>>

With(f, content) == [g \in DOMAIN files \cup {f} |-> IF g = f THEN content ELSE files[g]]
Without(f) == Restrict(files, DOMAIN files \ {f})

Write ==
  /\ pc = "write"
  /\ files' = With(target, payload)
  /\ requests' = IF IsRequest(target) THEN requests + 1 ELSE requests
  /\ manifests' = IF target = Manifest THEN manifests + 1 ELSE manifests
  /\ Goto("ready")
  /\ UNCHANGED <<dirs, target, payload, journalVars, userVars, unrestored, faults>>

Commit ==
  /\ pc = "ready"
  /\ Goto("committed")
  /\ UNCHANGED <<workspaceVars, target, payload, journalVars, requests,
                 manifests, userVars, unrestored, faults>>

(***************************************************************************)
(* Errors: the import returns and the uncommitted transaction is dropped     *)
(***************************************************************************)
(* A name without a slug, an OpenAPI path item that is no object, ...         *)
ImportError ==
  /\ pc = "start" \/ Importing
  /\ Goto("drop")
  /\ UNCHANGED <<workspaceVars, target, payload, journalVars, requests,
                 manifests, userVars, unrestored, faults>>

Fault == faults < MaxFaults /\ faults' = faults + 1

(* create_dir_all stops on its way down, and nothing goes into the journal.   *)
EnsureDirectoryFails ==
  /\ pc = "mkdir" /\ Fault
  /\ \E n \in DOMAIN Missing(Directory) :
       dirs' = dirs \cup {Missing(Directory)[i] : i \in n + 1 .. Len(Missing(Directory))}
  /\ Goto("drop")
  /\ UNCHANGED <<files, target, payload, journalVars, requests, manifests,
                 userVars, unrestored>>

(* The file cannot be read, or atomic_write leaves it as it was.             *)
SaveFails ==
  /\ \/ pc = "snapshot" /\ Exists(target) /\ target \notin DOMAIN originals
     \/ pc = "write"
  /\ Fault
  /\ Goto("drop")
  /\ UNCHANGED <<workspaceVars, target, payload, journalVars, requests,
                 manifests, userVars, unrestored>>

Forget(f) == originals' = Restrict(originals, DOMAIN originals \ {f})

(* The journal's files are restored one after the other ...                  *)
RestoreFile(f) ==
  /\ pc = "drop" /\ f \in DOMAIN originals
  /\ files' = IF originals[f] = NoFile THEN Without(f) ELSE With(f, originals[f])
  /\ Forget(f)
  /\ UNCHANGED <<dirs, pc, target, payload, created_directories, requests,
                 manifests, userVars, unrestored, faults>>

(* ... an error in one of them is ignored ...                                *)
RestoreFails(f) ==
  /\ pc = "drop" /\ f \in DOMAIN originals /\ Fault
  /\ unrestored' = unrestored \cup {f}
  /\ Forget(f)
  /\ UNCHANGED <<workspaceVars, pc, target, payload, created_directories,
                 requests, manifests, userVars>>

(* ... and then remove_dir is tried on the directories, in the order in which *)
(* they were recorded: it removes the ones that are empty at that moment.     *)
Empty(d) ==
  /\ \A f \in DOMAIN files : f.dir # d
  /\ \A e \in dirs \ {d} : d \notin Ancestors(e)
RemoveDirectory ==
  /\ pc = "drop" /\ originals = <<>> /\ created_directories # <<>>
  /\ dirs' = IF Empty(Head(created_directories))
             THEN dirs \ {Head(created_directories)} ELSE dirs
  /\ created_directories' = Tail(created_directories)
  /\ UNCHANGED <<files, pc, target, payload, originals, requests, manifests,
                 userVars, unrestored, faults>>

Dropped ==
  /\ pc = "drop" /\ originals = <<>> /\ created_directories = <<>>
  /\ Goto("rolled back")
  /\ UNCHANGED <<workspaceVars, target, payload, journalVars, requests,
                 manifests, userVars, unrestored, faults>>

(***************************************************************************)
(* The user saves and deletes requests (update_request, delete_request)      *)
(***************************************************************************)
Theirs(f) ==
  /\ Exists(f) /\ IsRequest(f) /\ files[f].by = "user"
  /\ edits < MaxEdits /\ edits' = edits + 1
  /\ UNCHANGED <<dirs, pc, target, payload, journalVars, requests, manifests,
                 had, unrestored, faults>>

UpdateRequest(f) ==
  /\ Theirs(f)
  /\ files' = With(f, User(edits + 1))
  /\ theirs' = [theirs EXCEPT ![f] = User(edits + 1)]

DeleteRequest(f) ==
  /\ Theirs(f)
  /\ files' = Without(f)
  /\ theirs' = Restrict(theirs, DOMAIN theirs \ {f})

Over == pc \in {"committed", "rolled back"}

Next ==
  \/ CreateCollection \/ SaveEnvironment \/ SaveCollection \/ SaveRequest
  \/ EnsureDirectory \/ Snapshot \/ Write \/ Commit
  \/ ImportError \/ EnsureDirectoryFails \/ SaveFails
  \/ \E f \in DOMAIN originals : RestoreFile(f) \/ RestoreFails(f)
  \/ RemoveDirectory \/ Dropped
  \/ \E f \in DOMAIN files : UpdateRequest(f) \/ DeleteRequest(f)
  \/ Over /\ UNCHANGED vars

Spec == Init /\ [][Next]_vars
-----------------------------------------------------------------------------
(***************************************************************************)
(* Properties                                                              *)
(***************************************************************************)
(* Files are always in directories that exist, and the journal only ever     *)
(* holds files that the import is about to write or has written.             *)
TypeOK ==
  /\ dirs \subseteq AllDirs /\ \A d \in dirs : Ancestors(d) \subseteq dirs
  /\ \A f \in DOMAIN files : f.dir \in dirs /\ files[f].by \in {"user", "import"}
  /\ pc \in {"start", "ready", "mkdir", "snapshot", "write", "committed", "drop",
             "rolled back"}
  /\ \A i \in DOMAIN created_directories : created_directories[i] \in AllDirs
  /\ \A f \in DOMAIN originals : originals[f].by \in {"user", "nobody"}
  /\ requests \in 0 .. MaxRequests /\ manifests \in 0 .. MaxManifests

(* At every moment, so also if the import is killed, each request the user    *)
(* had is on disk as the user last saved it: an import that brings requests   *)
(* of the same names, and its rollback, write around them.                    *)
UserRequestsSurvive ==
  \A f \in DOMAIN theirs : IsRequest(f) => Exists(f) /\ files[f] = theirs[f]

(* No directory that was there before the import is ever removed, not even an *)
(* empty one (transaction_rollback_preserves_existing_directories).           *)
OldDirectoriesStay == had \subseteq dirs

(* "Dropping an uncommitted transaction restores those snapshots, so an       *)
(* import cannot leave a mixture": after a failed import the files are the    *)
(* user's, except those whose own restoration failed.                         *)
RollbackRestoresFiles ==
  pc = "rolled back" =>
    \A f \in (DOMAIN files \cup DOMAIN theirs) \ unrestored :
      Exists(f) /\ f \in DOMAIN theirs /\ files[f] = theirs[f]

(* A committed import left every request it brought in a file of its own,     *)
(* whatever the names and ids that clash, and the manifest as last written.   *)
CommittedImportIsComplete ==
  pc = "committed" =>
    /\ \A k \in 1 .. requests :
         \E f \in DOMAIN files : IsRequest(f) /\ files[f] = Import(k)
    /\ manifests > 0 => files[Manifest] = Import(manifests)

(* uncommitted_workspace_transaction_rolls_back_multiple_files asserts of the *)
(* directory of the new collection `!collection_root.exists()`: a rollback    *)
(* leaves no directory that the import made.                                  *)
RollbackRemovesDirectories ==
  pc = "rolled back" /\ unrestored = {} => dirs = had
=============================================================================
