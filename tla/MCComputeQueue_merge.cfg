CONSTANTS
  FrameNum = 2
  RingSize = 3
  MaxPackets = 3
  Producers = {p1}
  ExtSignals = {}
  Templates <- LiveTemplates
  PlatformAtomics = TRUE
  VendorProcess = FALSE
  MayFail = FALSE
  None = None
SPECIFICATION FairSpec
PROPERTIES MergedSubmitted
CHECK_DEADLOCK FALSE
