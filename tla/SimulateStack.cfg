SPECIFICATION StackSpec
CONSTANTS
  Run = {first, again}
  Call = {first, again}
  Scenarios <- LoneRuns
  Faulty = {}
  MaxWorkers = 2
  Hash = {h}
  HashOf <- SameHash
  Version = {v1, v2}
  None = None
PROPERTY OkResponseIsNoFailure
CHECK_DEADLOCK FALSE
