SPECIFICATION Spec
CONSTANTS
  BlockSize = 6
  HugePage = 2
  Bases = {2, 8, 14}
  Sizes = {1, 2, 8}
  MaxLive = 4
INVARIANTS BlocksAccounted Tiled FreeListMatches CacheBounded
PROPERTY AbstractSpec
