SPECIFICATION CallsSpec
CONSTANTS
  c1 = c1
  c2 = c2
  e1 = e1
  t1 = t1
  t2 = t2
  CLQueue <- OneQueue
  Event <- NoEvent
  Foreign <- NoEvent
  Thread <- TwoThreads
  MaxQueues = 1
  MaxNodes = 2
SYMMETRY Symmetry
CHECK_DEADLOCK FALSE
INVARIANTS
  EdgesHappenBefore
