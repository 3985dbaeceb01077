CONSTANTS
  FrameNum = 2
  RingSize = 2
  MaxPackets = 2
  Producers = {p1}
  ExtSignals = {e1}
  Templates <- DepTemplates
  PlatformAtomics = FALSE
  VendorProcess = FALSE
  MayFail = FALSE
  None = None
SPECIFICATION FairSpec
PROPERTIES Completion
CHECK_DEADLOCK FALSE
