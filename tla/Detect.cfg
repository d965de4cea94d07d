SPECIFICATION Spec
CONSTANTS
  Devices <- Small
  MaxTimeouts = 2
  MaxOtherRuns = 2
INVARIANTS
  TypeOK
  ReportIsTheDevices
  MuslVersionIsMusls
PROPERTIES
  PhaseTwoOnlyAdds
