SPECIFICATION Spec
CONSTANTS
  NumThreads = 2
  Retries = 2
  ChunkSize = 2
  JoinBatchSize = 1
  FileSize = 1
  OldSizes <- EmptyOrSameSize
  MaxTimeouts = 1
INVARIANTS
  EveryScratchGone
