SPECIFICATION Spec
CONSTANTS
  Devices <- OnlyCompat
  MaxTimeouts = 0
  MaxOtherRuns = 0
INVARIANTS
  TimeTIsTheDevices
