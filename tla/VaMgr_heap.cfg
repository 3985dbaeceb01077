SPECIFICATION Spec
CONSTANTS
  Start = 3
  Size = 8
  MinAlign = 2
  Sizes = {1, 2, 3}
  Aligns = {0, 2, 4}
  Hints = {0, 4}
INVARIANTS TypeOK Tiling LiveIsUsed FreeListMatches EmptyIsWhole Coalesced
PROPERTY AbstractSpec
