SPECIFICATION Spec
CONSTANTS
  p1 = p1
  p2 = p2
  v1 = v1
  v2 = v2
  crimson = crimson
  cyan = cyan
  stray = stray
  UserPath = UserPath
  Process <- TwoProcesses
  VizQueue <- TwoQueues
  ColorName <- ColorNames
  NumColors = 3
  Colors <- CrimsonCyanCyan
  MaxFiles = 3
  MaxSecond = 1
  MaxUID = 2
SYMMETRY Symmetry
CHECK_DEADLOCK FALSE
INVARIANTS
  FilesIInv
  OwnFilesKept
  OneColorEach
  PoolLasts
