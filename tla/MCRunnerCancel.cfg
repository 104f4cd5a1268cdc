SPECIFICATION SilentServerSpec
CONSTANTS
  MaxRequests = 1
  MaxIterations = 1
  MaxConcurrency = 1
  MaxTests = 0
  Waiters <- MCSlots
  Request <- PlainRequest
  Options <- PlainOptions
PROPERTIES
  CancelReleasesRun
