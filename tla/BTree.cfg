SPECIFICATION Spec
CONSTANTS
  Keys = {1, 2, 3}
  Values = {a, b}
  Order = 3
  Torn = Torn
  MaxNodes = 7
  MaxFaults = 1
  MaxSaves = 1
CHECK_DEADLOCK FALSE
INVARIANTS
  TreeIsConsistent
  CleanMeansSaved
PROPERTIES
  ImplementsOrderedMap
