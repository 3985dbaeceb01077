SPECIFICATION Spec
CONSTANTS
  Start = 3
  Size = 12
  MinAlign = 2
  Sizes = {1, 2, 3}
  Aligns = {0, 2, 4}
  Hints = {0, 8, 10}
INVARIANTS HandedOutIsUsed
