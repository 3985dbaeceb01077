SPECIFICATION Spec
CONSTANTS
  Threads = {t1, t2}
  Objects = {o1, o2}
  SystemHeap = {s1, s2}
  LocalHeap = {l1, l2}
  Aperture = {h1}
  UserPtrs = {p1}
  NumChunks = 2
  MaxPaging = 2
SYMMETRY Symmetry
INVARIANTS EntriesLive RangeKept  
PROPERTY RangeLost
