SPECIFICATION Spec
CONSTANTS
  BitDepth2D = 3
  BitDepth3D = 4
  Quantizer = 1
  LsbBits = 1
  SizeTBits = 12
  IntBits = 7
  Garbage = {0, 1, 3}
  Confs <- MCConfs
INVARIANTS
  TypeOK
  OrderCountKept
  ReferencesAgree
  DepthKept
  SizeKept
  NoDrift
  NonReferenceUnused
  LostOnlyWhole
  OutsideOnlyLostOrMirrored
CHECK_DEADLOCK FALSE
