SPECIFICATION StorageSpec
CONSTANTS
  Stores = {"history", "import"}

  app = app
  cli = cli
  Procs <- TwoProcs
  Sizes = {1, 3}
  MaxEntries = 2
  MaxBytes = 6
  MaxAppends = 4
  MaxAborts = 1

  Folders <- NestedFolders
  Names = {"get"}
  Prefixes = {"1f"}
  MaxRequests = 3
  MaxManifests = 2
  MaxEdits = 1
  MaxFaults = 1
SYMMETRY Interchangeable
INVARIANTS
  HistoryTypeOK
  OldestFirst
  QuietFileIsBounded
  ExactWhenAlone
  TypeOK
  UserRequestsSurvive
  OldDirectoriesStay
  RollbackRestoresFiles
  CommittedImportIsComplete
