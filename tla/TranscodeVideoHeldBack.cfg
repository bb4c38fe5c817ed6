SPECIFICATION Spec
CONSTANTS
  MaxFrames = 3
  Delay = 1
  EncDelay = 0
  Faults = FALSE
INVARIANT AllFramesWritten
CHECK_DEADLOCK FALSE
