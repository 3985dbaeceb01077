CONSTANTS
  FrameNum = 2
  RingSize = 2
  MaxPackets = 3
  Producers = {p1}
  ExtSignals = {}
  Templates <- FaultTemplates
  PlatformAtomics = FALSE
  VendorProcess = TRUE
  MayFail = TRUE
  None = None
SPECIFICATION Spec
INVARIANTS CompletionAfterWork 
CHECK_DEADLOCK FALSE
