SPECIFICATION Spec
CONSTANTS
  Runs = 2
  SteadyFrom = 1
  MaxTokens = 2
  Steps = {1, 2}
  Refusals = {401, 500}
  MaxSamples = 2
  MaxCrashes = 1
  None = None
INVARIANTS
  SteadyIsOwnTail
  OutputIsWhole
PROPERTIES
  BenchmarkEnds
CHECK_DEADLOCK FALSE
