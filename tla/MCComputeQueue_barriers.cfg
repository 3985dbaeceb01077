CONSTANTS
  FrameNum = 3
  RingSize = 2
  MaxPackets = 3
  Producers = {p1, p2}
  ExtSignals = {}
  Templates <- BarrierTemplates
  PlatformAtomics = TRUE
  VendorProcess = FALSE
  MayFail = FALSE
  None = None
SYMMETRY ProducerSymmetry
SPECIFICATION Spec
INVARIANTS DepsSubmitted CompletionAfterWork SlotFree
CHECK_DEADLOCK FALSE
