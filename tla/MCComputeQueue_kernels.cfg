CONSTANTS
  FrameNum = 2
  RingSize = 3
  MaxPackets = 4
  Producers = {p1}
  ExtSignals = {}
  Templates <- KernelTemplates
  PlatformAtomics = TRUE
  VendorProcess = FALSE
  MayFail = FALSE
  None = None
SPECIFICATION Spec
INVARIANTS TypeOK FrameIntact FrameWaitSubmitted IbInBuffer BarrierBit
CHECK_DEADLOCK FALSE
