SPECIFICATION Spec
CONSTANTS
  Size = 2
  Buffer = 2
  Window = 2
  MaxChanges = 0
PROPERTIES
  InactivityIsBounded
