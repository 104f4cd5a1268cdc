SPECIFICATION StorageSpec
CONSTANTS
  Stores = {"import"}

  app = app
  cli = cli
  Procs <- TwoProcs
  Sizes = {1}
  MaxEntries = 2
  MaxBytes = 6
  MaxAppends = 3
  MaxAborts = 0

  Folders <- NestedFolders
  Names = {"get"}
  Prefixes = {"1f"}
  MaxRequests = 3
  MaxManifests = 2
  MaxEdits = 0
  MaxFaults = 0
SYMMETRY Interchangeable
INVARIANTS
  RollbackRemovesDirectories
