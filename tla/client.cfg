SPECIFICATION FairSpec
CONSTANTS
  NumChunks = 2
  MaxWorkers = 2
  Parallel = {0, 1, 2}
  Retries = {0, 2}
  MaxParallel = {0, 2}
  CountWidth = 3
INVARIANTS TypeOK AckAnswersChunk AllSent SuccessMeansHeld
PROPERTIES BothEnd DeliveredUnlessFaulty
CHECK_DEADLOCK FALSE
