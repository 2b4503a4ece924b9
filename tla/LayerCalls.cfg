SPECIFICATION CallsSpec
CONSTANTS
  c1 = c1
  c2 = c2
  e1 = e1
  t1 = t1
  t2 = t2
  CLQueue <- TwoQueues
  Event <- OneEvent
  Foreign <- OneEvent
  Thread <- TwoThreads
  MaxQueues = 2
  MaxNodes = 2
SYMMETRY Symmetry
CHECK_DEADLOCK FALSE
INVARIANTS
  TypeOK
  CallsIInv
  PrintedOnce
  EdgesDeclared
  NothingLost
  OrderedUnlessRaced
PROPERTIES
  FinishPrintsQueue
  CallsReport
  IsARecording
