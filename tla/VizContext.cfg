SPECIFICATION Spec
CONSTANTS
  c1 = c1
  d1 = d1
  d2 = d2
  t1 = t1
  t2 = t2
  v1 = v1
  v2 = v2
  CLQueue <- OneQueue
  DotGraph <- TwoGraphs
  Instance <- TwoInstances
  NoInstance = NoInstance
  Thread <- TwoThreads
  MaxRefs = 2
CHECK_DEADLOCK FALSE
SYMMETRY Symmetry
INVARIANTS
  ContextIInv
  OwnersSafe
  ListIsExact
PROPERTY
  OwnersCapture
