SPECIFICATION FairSpec
CONSTANTS
  MaxNodes = 4
  MaxPreds = 2
  MaxStart = 2
CHECK_DEADLOCK FALSE
INVARIANTS
  TypeOK
  CollectsReachable
  LeavesFileClosed
PROPERTIES
  Terminates
