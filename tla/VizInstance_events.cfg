SPECIFICATION Spec
CONSTANTS
  c1 = c1
  c2 = c2
  e1 = e1
  e2 = e2
  t1 = t1
  CLQueue <- OneQueue
  Event <- TwoEvents
  Foreign <- TwoEvents
  Thread <- OneThread
  MaxQueues = 1
  MaxNodes = 3
SYMMETRY Symmetry
CHECK_DEADLOCK FALSE
INVARIANTS
  EventMapCurrent
PROPERTIES
  WaitPrintsCommands
