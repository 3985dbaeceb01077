CONSTANTS
  RingSize = 3
  MaxIndex = 6
  Hosts = {h1, h2}
  s1 = s1
  s2 = s2
  Signals <- MCSignals
  Shapes <- MCShapes
  MayFail = TRUE
SPECIFICATION FairSpec
INVARIANTS TypeOK FenceIsIndex SlotIntact PollHonoured
PROPERTIES Retired JoinReturns
