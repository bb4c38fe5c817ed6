SPECIFICATION Spec
CONSTANTS
  VideoSize = 2
  ReadSizes <- MCReadSizes
  WriteSizes <- MCWriteSizes
  MaxOut = 10
  Seeks = 0
CHECK_DEADLOCK FALSE
INVARIANT DeliveredIsWritten
