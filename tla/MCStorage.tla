----------------------------- MODULE MCStorage -----------------------------
(***************************************************************************)
(* The history file and the import journal for TLC, in one run: they share  *)
(* no file, so the initial state says which of the two the run explores,    *)
(* and only that one moves.  The history has two processes; the requests of *)
(* an import are at the top of the collection, in a folder and in a folder  *)
(* of that folder.                                                          *)
(***************************************************************************)
EXTENDS History, WorkspaceTransaction, TLC

CONSTANTS
  app, cli,   \* the processes that share the history
  Stores      \* which of "history" and "import" to explore

VARIABLE exploring

StorageInit ==
  /\ exploring \in Stores /\ HistoryInit /\ Init
  /\ exploring = "history" => dirs = {<<>>}
StorageNext ==
  /\ UNCHANGED exploring
  /\ \/ exploring = "history" /\ HistoryNext /\ UNCHANGED vars
     \/ exploring = "import" /\ Next /\ UNCHANGED historyVars
StorageSpec == StorageInit /\ [][StorageNext]_<<exploring, historyVars, vars>>

-----------------------------------------------------------------------------
TwoProcs == {app, cli}
Interchangeable == Permutations(TwoProcs)
NestedFolders == {<<>>, <<"team">>, <<"team", "nested">>}
=============================================================================
