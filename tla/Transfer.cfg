SPECIFICATION Spec
CONSTANTS
  LoaderLines = 2
  MaxTimeouts = 3
INVARIANTS
  TypeOK
  SetupMeansUntouched
  OnlyRegularDestination
  LoaderDirectoryGone
  ListenerClosed
PROPERTIES
  ImplementsUpload
  TransferReturns
