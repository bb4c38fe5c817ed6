SPECIFICATION Spec
CONSTANTS
  ByteBits = 2
  MaxSize = 17
  MaxUnits = 2
  Forced = {0, 1, 2, 3}
INVARIANTS ReadsInStep CrashOnlyAtPowerOfBase
CHECK_DEADLOCK FALSE
