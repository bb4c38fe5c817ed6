SPECIFICATION Spec
CONSTANTS
  ByteBits = 8
  MaxSize = 257
  MaxUnits = 1
  Forced = {0}
INVARIANT PrecisionSuffices
CHECK_DEADLOCK FALSE
