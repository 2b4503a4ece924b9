SPECIFICATION Spec
CONSTANTS
  p1 = p1
  p2 = p2
  t1 = t1
  CLCommandBuffer <- TwoBuffers
  Thread <- OneThread
  MaxInstances = 2
  MaxNodes = 3
  MaxRefs = 2
SYMMETRY Symmetry
CHECK_DEADLOCK FALSE
INVARIANTS
  IInv
  LoneIInv
  MapsToOwnDag
  LiveEntries
  PrintIsComplete
PROPERTIES
  NeverAborts
  
