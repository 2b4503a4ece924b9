SPECIFICATION Spec
CONSTANTS
  p1 = p1
  p2 = p2
  t1 = t1
  Platform <- TwoPlatforms
  Thread <- OneThread
  Lists <- SmallLists
SYMMETRY Symmetry
CHECK_DEADLOCK FALSE
INVARIANTS
  CallsUnderlyingDriver
