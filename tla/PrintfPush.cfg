SPECIFICATION Spec
CONSTANTS
  NumThreads = 2
  Retries = 2
  ChunkSize = 2
  JoinBatchSize = 1
  FileSize = 3
  OldSizes <- EmptyOrSameSize
  MaxTimeouts = 2
INVARIANTS
  TypeOK
  DestIsOldOrInOrder
  ExactUnlessTainted
  ScratchGone
PROPERTIES
  DestWrittenOnlyWhenVerified
  ImplementsUpload
