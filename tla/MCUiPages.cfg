SPECIFICATION Spec
CONSTANTS
  Idle = Idle
  Tasks = {1, 2}
  RowCount = 2
  MaxWrites = 2
  MaxMounts = 2
INVARIANTS
  FreshAtRest
  BusyExact
PROPERTIES
  KeyShownOnce
  BusyEnds
CHECK_DEADLOCK FALSE
