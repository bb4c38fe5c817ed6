SPECIFICATION FairSpec
CONSTANTS
  StartFrame = 1
  FrameCount = 7
  GofSize = 3
  NbThread = 2
  Confs <- MCConfs
INVARIANTS TypeOK LoadSafe LoadedPrefix EncodedInOrder DoneComplete FilesNamed MapsByOwnGof ExitOnlyWithRawTiles
PROPERTY EncoderStops
CHECK_DEADLOCK FALSE
