SPECIFICATION RunSpec
CONSTANTS
  MaxCollections = 2
  MaxRequests = 2
  MaxTests = 0
  Waiters <- MCSlots
  Request <- OneRequest
  Options <- CommandOptions
INVARIANTS
  RunTypeOK
  ExitZeroMeansAllPassed
  NoLaterCollection
PROPERTIES
  CommandEnds
