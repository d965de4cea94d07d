SPECIFICATION Spec
CONSTANTS
  Size = 3
  Window = 2
  OldSizes <- EmptyOrSameSize
INVARIANTS
  TypeOK
  DiagnosticSurvives
  AcknowledgedIsSuccess
  GoroutinesEnded
PROPERTIES
  ImplementsUpload
  PushReturns
  LoaderEnds
