SPECIFICATION Spec
CONSTANTS
  MaxViews = 3
  MaxPauses = 2
INVARIANTS
  TypeOK
  OneReader
  CrashNeedsCrowd
  DarkExplained
PROPERTIES
  FreedUnused
  StopReturns
CHECK_DEADLOCK FALSE
