-------------------------------- MODULE VaMgr --------------------------------
(***************************************************************************)
(* The allocator of virtual-address ranges (src/wddm/va_mgr.cpp) behind    *)
(* the system heap, the local heap and the handle aperture.  Every         *)
(* operation runs under lock_ and is one step.  The heap is cut into       *)
(* fragments, used or free, in a map by address; free fragments are also   *)
(* in a list by size.                                                      *)
(***************************************************************************)
EXTENDS Integers

CONSTANTS Start, Size, MinAlign,  \* the constructor's arguments
          Sizes, Aligns,          \* bytes and align of requests
          Hints                   \* addr of requests: 0 lets the heap choose

ASSUME HeapAssumption ==
  /\ Start \in Nat \ {0} /\ Size \in Nat \ {0} /\ MinAlign \in Nat \ {0}
  /\ Sizes \subseteq Nat \ {0} /\ Aligns \subseteq Nat
  /\ \A h \in Hints : h = 0 \/ h \in Start .. Start + Size - 1

VARIABLES frag_map,    \* base -> [size, free]
          free_list,   \* free fragments: <<size, base>>
          live,        \* history: ranges handed out and not returned
          result       \* the last allocation: request and address, 0 if it failed

vars == <<frag_map, free_list, live, result>>

\* The same heap seen by its callers.
Abstract == INSTANCE VaSpace WITH live <- live, result <- result

End == Start + Size
AlignUp(v, a) == ((v + a - 1) \div a) * a

FreeFragment(size) == [size |-> size, free |-> TRUE]
UsedFragment(size) == [size |-> size, free |-> FALSE]

\* frag_map_[b] = x, frag_map_.erase(b)
Put(f, b, x) == [c \in DOMAIN f \cup {b} |-> IF c = b THEN x ELSE f[c]]
Erase(f, b) == [c \in DOMAIN f \ {b} |-> f[c]]

NoResult == [bytes |-> 0, align |-> 0, addr |-> 0]

Init ==
  /\ frag_map = [b \in {Start} |-> FreeFragment(Size)]
  /\ free_list = {<<Size, Start>>}
  /\ live = {}
  /\ result = NoResult

-----------------------------------------------------------------------------

Return(bytes, align, addr) ==
  /\ live' = live \cup {<<addr, bytes>>}
  /\ result' = [bytes |-> bytes, align |-> align, addr |-> addr]

\* AllocImpl finds nothing and returns 0.
AllocFails(bytes, align) ==
  /\ result' = [bytes |-> bytes, align |-> align, addr |-> 0]
  /\ UNCHANGED <<frag_map, free_list, live>>

\* Mutants: the rest of the fragment is lost; the used part keeps the whole size.
TakeFront_NoRest(f, base, bytes) == Put(f, base, UsedFragment(bytes))

TakeFront_KeepsSize(f, base, bytes) ==
  LET g == Put(f, base, UsedFragment(f[base].size))
  IN IF f[base].size > bytes
       THEN Put(g, base + bytes, FreeFragment(f[base].size - bytes)) ELSE g

\* The first bytes of the free fragment at base are used, the rest stays free.
TakeFront(f, base, bytes) ==
  LET g == Put(f, base, UsedFragment(bytes))
  IN IF f[base].size > bytes
       THEN Put(g, base + bytes, FreeFragment(f[base].size - bytes)) ELSE g

\* The middle of the free fragment at base is used, from addr on.
TakeMiddle(f, base, addr, bytes) ==
  LET g == Put(Put(f, addr, UsedFragment(bytes)), base, FreeFragment(addr - base))
      rest == f[base].size - (addr - base) - bytes
  IN IF rest > 0 THEN Put(g, addr + bytes, FreeFragment(rest)) ELSE g

\* Mutant: the entry of the fragment that was cut stays in the list.
FreeListAfter_Stale(base, addr, bytes) ==
  LET size == frag_map[base].size
      rest == size - (addr - base) - bytes
  IN free_list
       \cup (IF addr > base THEN {<<addr - base, base>>} ELSE {})
       \cup (IF rest > 0 THEN {<<rest, addr + bytes>>} ELSE {})

\* What a free fragment at base becomes in the list: what is left of it on either side of
\* [addr, addr + bytes).
FreeListAfter(base, addr, bytes) ==
  LET size == frag_map[base].size
      rest == size - (addr - base) - bytes
  IN (free_list \ {<<size, base>>})
       \cup (IF addr > base THEN {<<addr - base, base>>} ELSE {})
       \cup (IF rest > 0 THEN {<<rest, addr + bytes>>} ELSE {})

\* Mutant: the alignment is ignored.
Aligned_Always(a, align) == TRUE

\* The code reads % only for an align that is not 0.
Aligned(a, align) == IF align = 0 THEN TRUE ELSE a % align = 0

\* free_list_.lower_bound(n): the smallest entry of at least n bytes, any of them.
LowerBound(n) ==
  {e \in free_list : e[1] >= n /\ \A d \in free_list : d[1] >= n => e[1] <= d[1]}

\* lower_bound(n) is end().
NoneFits(n) == \A e \in free_list : e[1] < n

\* Mutant: no room is made for the alignment.
Padded_None(bytes, align) == bytes

\* The second search asks for room to align.
Padded(bytes, align) == bytes + AlignUp(align, MinAlign)

AllocFront(e, bytes, align) ==
  /\ frag_map' = TakeFront(frag_map, e[2], bytes)
  /\ free_list' = FreeListAfter(e[2], e[2], bytes)
  /\ Return(bytes, align, e[2])

AllocAligned(e, bytes, align) ==
  LET addr == e[2] + align - (e[2] % align)
  IN /\ frag_map' = TakeMiddle(frag_map, e[2], addr, bytes)
     /\ free_list' = FreeListAfter(e[2], addr, bytes)
     /\ Return(bytes, align, addr)

AllocImpl(bytes, align) ==
  \/ NoneFits(bytes) /\ AllocFails(bytes, align)
  \/ \E e \in LowerBound(bytes) :
       \/ Aligned(e[2], align) /\ AllocFront(e, bytes, align)
       \/ /\ ~Aligned(e[2], align)
          /\ \/ NoneFits(Padded(bytes, align)) /\ AllocFails(bytes, align)
             \/ \E d \in LowerBound(Padded(bytes, align)) :
                  IF Aligned(d[2], align) THEN AllocFront(d, bytes, align)
                  ELSE AllocAligned(d, bytes, align)

\* The free fragments that can hold [addr, addr + bytes).  The loop goes down from addr
\* and ends at the first fragment without looking at it.
Candidates(bytes, addr) ==
  {b \in DOMAIN frag_map : /\ \E c \in DOMAIN frag_map : c < b
                           /\ b <= addr /\ addr + bytes <= b + frag_map[b].size
                           /\ frag_map[b].free}

\* The fragment found becomes the used one, and is then overwritten by the free part
\* below addr, if there is one.
AllocFixed(bytes, align, addr) ==
  \E b \in Candidates(bytes, addr) :
    /\ \A c \in Candidates(bytes, addr) : c <= b
    /\ LET size == frag_map[b].size
           used == Put(frag_map, b, UsedFragment(bytes))
           low == IF addr > b THEN Put(used, b, FreeFragment(addr - b)) ELSE used
       IN frag_map' = IF b + size > addr + bytes
                        THEN Put(low, addr + bytes, FreeFragment(b + size - addr - bytes)) ELSE low
    /\ free_list' = FreeListAfter(b, addr, bytes)
    /\ Return(bytes, align, addr)

Alloc(bytes, align, addr) ==
  IF addr > 0 /\ Aligned(addr, align) /\ Candidates(bytes, addr) # {}
    THEN AllocFixed(bytes, align, addr)
    ELSE AllocImpl(bytes, align)

\* The fragments before and after a in the map.
IsLower(f, c, a) == c < a /\ \A d \in DOMAIN f : d < a => d <= c
IsUpper(f, c, a) == c > a /\ \A d \in DOMAIN f : d > a => d >= c

\* Mutant: the upper neighbour is not merged.
MergeUpper_Never(f, a) == f

\* The fragment at a swallows a free fragment after it.
MergeUpper(f, a) ==
  LET up == {c \in DOMAIN f : IsUpper(f, c, a) /\ f[c].free}
  IN IF up = {} THEN f
     ELSE LET c == CHOOSE c \in up : TRUE
          IN Put(Erase(f, c), a, [f[a] EXCEPT !.size = @ + f[c].size])

\* A free fragment before a swallows the fragment at a.
FreeLower(f, a) == {c \in DOMAIN f : IsLower(f, c, a) /\ f[c].free}

MergeLower(f, a) ==
  IF FreeLower(f, a) = {} THEN f
  ELSE LET c == CHOOSE c \in FreeLower(f, a) : TRUE
       IN Put(Erase(f, a), c, FreeFragment(f[c].size + f[a].size))

\* Merge with the free neighbours.  The merged fragment stays under the key of the lower
\* one; its entry in the list has the address counted back from addr.
FreeUsed(addr) ==
  LET low == FreeLower(frag_map, addr)
      lower == CHOOSE c \in low : TRUE
      key == IF low = {} THEN addr ELSE lower
      base == IF low = {} THEN addr ELSE addr - frag_map[lower].size
      f == MergeUpper(MergeLower(frag_map, addr), key)
  IN /\ frag_map' = Put(f, key, FreeFragment(f[key].size))
     /\ free_list' = {e \in free_list : e[2] \in DOMAIN f /\ e[2] # key} \cup {<<f[key].size, base>>}

\* Free(addr): nothing happens unless a used fragment starts at addr.
Free(addr) ==
  /\ IF addr \in DOMAIN frag_map /\ ~frag_map[addr].free
       THEN FreeUsed(addr) ELSE UNCHANGED <<frag_map, free_list>>
  /\ live' = {r \in live : r[1] # addr}
  /\ result' = NoResult

Next == \/ \E bytes \in Sizes, align \in Aligns, addr \in Hints : Alloc(bytes, align, addr)
        \/ \E addr \in 0 .. End - 1 : Free(addr)

Spec == Init /\ [][Next]_vars

-----------------------------------------------------------------------------

Fragment == [size : 1 .. Size, free : BOOLEAN]

FragOK(f) == /\ DOMAIN f \subseteq Start .. End - 1
             /\ f \in [DOMAIN f -> Fragment]
             /\ \A b \in DOMAIN f : b + f[b].size <= End

Tiles(f) == /\ \A b, c \in DOMAIN f : b < c => b + f[b].size <= c
            /\ \A a \in Start .. End - 1 : \E b \in DOMAIN f : b <= a /\ a < b + f[b].size

\* The ranges of the used fragments, and the list entries of the free ones.
UsedRanges(f) == {<<b, f[b].size>> : b \in {c \in DOMAIN f : ~f[c].free}}
FreeEntries(f) == {<<f[b].size, b>> : b \in {c \in DOMAIN f : f[c].free}}

\* No two free fragments touch.
Separated(f) == \A b, c \in DOMAIN f : c = b + f[b].size => ~(f[b].free /\ f[c].free)

\* Fragments, free-list entries and ranges handed out lie in the heap.
TypeOK ==
  /\ FragOK(frag_map)
  /\ free_list \subseteq (1 .. Size) \X (Start .. End - 1)
  /\ live \subseteq (Start .. End - 1) \X Sizes
  /\ result \in [bytes : Sizes \cup {0}, align : Aligns \cup {0}, addr : 0 .. End - 1]

\* The fragments tile the heap: no two of them overlap (va_mgr.h 73) and every address is
\* in one of them, whatever was cut off, padded and merged before.
Tiling == Tiles(frag_map)

\* The used fragments are exactly the ranges handed out and not returned: Free finds every
\* one of them in the map (va_mgr.cpp 133-134), with the size that was asked for.
LiveIsUsed == live = UsedRanges(frag_map)

\* The list holds the free fragments with their sizes, which AllocImpl asserts of the
\* entry it finds (va_mgr.cpp 89, 93-94).
FreeListMatches == free_list = FreeEntries(frag_map)

\* Free fragments do not touch: Free has merged them.
Coalesced == Separated(frag_map)

\* When everything has been returned the heap is a single free fragment again, which the
\* destructor checks (va_mgr.cpp 19-22).
EmptyIsWhole ==
  live = {} => frag_map = [b \in {Start} |-> FreeFragment(Size)]

\* Callers see a heap that hands out disjoint aligned ranges and fails only for want of a
\* hole: this implementation refines VaSpace.
AbstractSpec == Abstract!Spec

\* No caller asks for an address.
NoHints == Hints \subseteq {0}

\* The inductive invariant behind the properties above, when no caller asks for an address.
IInv ==
  TypeOK /\ Tiling /\ LiveIsUsed /\ FreeListMatches /\ Coalesced

\* Every range handed out is in use, which Alloc says of a range at a given address
\* (va_mgr.cpp 62: "[addr, addr + bytes) is used").
HandedOutIsUsed ==
  \A r \in live : r[1] \in DOMAIN frag_map /\ ~frag_map[r[1]].free
=============================================================================
