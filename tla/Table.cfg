SPECIFICATION Spec
CONSTANTS
  Values = {a, b}
  MaxRecords = 1
  MaxId = 2
  Torn = Torn
  MaxFaults = 2
SYMMETRY Symmetry
CHECK_DEADLOCK FALSE
INVARIANTS
  FindAgreesWithScan
  CrashesKeepKeysAndLog
PROPERTIES
  ImplementsRecordTable
