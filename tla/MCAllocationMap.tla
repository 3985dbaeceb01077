-------------------------- MODULE MCAllocationMap --------------------------
(* Threads, objects and the ranges of each heap are interchangeable.       *)
EXTENDS AllocationMap, TLC

Symmetry ==
  Permutations(Threads) \cup Permutations(Objects)
    \cup Permutations(SystemHeap) \cup Permutations(LocalHeap)
=============================================================================
