CONSTANTS
  FrameNum = 2
  RingSize = 2
  MaxPackets = 3
  Producers = {p1}
  ExtSignals = {}
  Templates <- LiveTemplates
  PlatformAtomics = TRUE
  VendorProcess = FALSE
  MayFail = FALSE
  None = None
SPECIFICATION FairSpec
PROPERTIES Completion JoinReturns
CHECK_DEADLOCK FALSE
