SPECIFICATION FairSpec
CONSTANTS
  VideoSize = 2
  ReadSizes <- MCReadSizes
  WriteSizes <- MCWriteSizes
  MaxOut = 10
  Seeks = 1
INVARIANTS
  TypeOK
  RoomLeftUnlessSought
  CopyFits
  StreamKept
  ReadsInOrder
  DeliveredUnlessGrown
PROPERTY WriteReturns
CHECK_DEADLOCK FALSE
