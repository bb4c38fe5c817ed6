SPECIFICATION FairSpec
CONSTANTS
  GofShapes <- MCShapes
  MaxGofs = 3
  Precisions = {2, 4}
  Baselines = {FALSE, TRUE}
  Losses = 1
  CodecFaults = TRUE
INVARIANTS TypeOK OutputInOrder JudgedByOwnVps StatCountsOwnVps
PROPERTIES PublishedIffTranscodable ImplementsStream
CHECK_DEADLOCK FALSE
