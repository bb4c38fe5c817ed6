SPECIFICATION Spec
CONSTANTS
  StartFrame = 0
  FrameCount = 4
  GofSize = 2
  NbThread = 2
  Confs <- MCRawTiles
INVARIANT TilesChecked
CHECK_DEADLOCK FALSE
