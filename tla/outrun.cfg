SPECIFICATION Spec
CONSTANTS
  NumChunks = 2
  MaxWorkers = 2
  Parallel = {2}
  Retries = {2}
  MaxParallel = {2}
  CountWidth = 3
INVARIANTS FailureMeansFault
CHECK_DEADLOCK FALSE
