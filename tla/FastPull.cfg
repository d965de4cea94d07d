SPECIFICATION ResponsiveSpec
CONSTANTS
  Size = 2
  Buffer = 2
  Window = 2
  MaxChanges = 2
INVARIANTS
  TypeOK
  SuccessIsWhole
  GrownFileIsItsPrefix
  DiagnosticSurvives
PROPERTIES
  ImplementsUpload
  PullReturns
