SPECIFICATION FairSpec
CONSTANTS
  MaxFrames = 5
  Delay = 2
  EncDelay = 1
  Faults = TRUE
INVARIANTS TypeOK FramesInOrder OnlyHeldBackMissing CrashOnlyIfNothingDecoded
PROPERTY Terminates
CHECK_DEADLOCK FALSE
