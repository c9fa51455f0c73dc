SPECIFICATION Spec
CONSTANTS
  Writers = {1, 2}
  Modules = {1}
  MaxSave = 4
  WarnAt = 3
  SafeBelow = 3
  MaxLine = 2
  MaxRecords = 2
INVARIANTS
  CountCovers
  PrintedInOrder
  WarningRelieved
PROPERTIES
  NothingStays
CHECK_DEADLOCK FALSE
