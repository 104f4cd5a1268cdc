SPECIFICATION Spec
CONSTANTS
  MaxRequests = 2
  MaxIterations = 2
  MaxConcurrency = 1
  MaxTests = 1
  Waiters <- MCSlots
  Request <- ScriptedRequest
  Options <- ScriptedOptions
INVARIANTS
  TypeOK
  SummaryAddsUp
  VariablesFollowIteration
PROPERTIES
  RunEnds
