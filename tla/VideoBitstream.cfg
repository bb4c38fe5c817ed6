SPECIFICATION FairSpec
CONSTANTS
  NalUnits <- MCNalUnits
  MaxNalus = 2
  Codecs = {"avc", "hevc", "vvc"}
  Precision = 4
INVARIANT RoundTrip
PROPERTY Converts
CHECK_DEADLOCK FALSE
