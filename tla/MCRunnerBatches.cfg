SPECIFICATION Spec
CONSTANTS
  MaxRequests = 3
  MaxIterations = 2
  MaxConcurrency = 2
  MaxTests = 0
  Waiters <- MCSlots
  Request <- PlainRequest
  Options <- PlainOptions
INVARIANTS
  SuccessIsComplete
  FailFastStopsAtBatch
  OneBatchAfterCancel
PROPERTIES
  ImplementsReport
