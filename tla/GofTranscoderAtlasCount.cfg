SPECIFICATION Spec
CONSTANTS
  GofShapes <- MCAtlasShapes
  MaxGofs = 2
  Precisions = {4}
  Baselines = {FALSE}
  Losses = 0
  CodecFaults = FALSE
INVARIANT AtlasCountChecked
CHECK_DEADLOCK FALSE
