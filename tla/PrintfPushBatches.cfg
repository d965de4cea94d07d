SPECIFICATION Spec
CONSTANTS
  NumThreads = 2
  Retries = 2
  ChunkSize = 1
  JoinBatchSize = 2
  FileSize = 3
  OldSizes <- EmptyOrSameSize
  MaxTimeouts = 1
INVARIANTS
  DestIsOldOrInOrder
PROPERTIES
  PushReturns
