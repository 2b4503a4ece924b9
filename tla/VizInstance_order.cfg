SPECIFICATION Spec
CONSTANTS
  c1 = c1
  c2 = c2
  e1 = e1
  e2 = e2
  t1 = t1
  CLQueue <- TwoQueues
  Event <- OneEvent
  Foreign <- NoEvent
  Thread <- OneThread
  MaxQueues = 2
  MaxNodes = 3
SYMMETRY Symmetry
CHECK_DEADLOCK FALSE
INVARIANTS
  IInv
  InOrderChain
  AfterBarrier
  PrintsWhatIsDue
PROPERTIES
  CoversQueue
  
