----------------------------- MODULE SimpleHeap -----------------------------
(***************************************************************************)
(* The sub-allocator of device memory: SimpleHeap<BlockAllocator> of       *)
(* src/util/simple_heap.h, as src/memory.cpp uses it.  Blocks from         *)
(* hsaKmtAllocMemoryAlignInternal are cut into fragments; a block without  *)
(* used fragments goes to a cache, from which old blocks are released when *)
(* the cache outgrows what is in use.  Nothing locks the heap: the model   *)
(* has one caller at a time.                                               *)
(***************************************************************************)
EXTENDS Integers, FiniteSets, Sequences, Functions

CONSTANTS BlockSize, HugePage,  \* default_block_size(), GPU_HUGE_PAGE_SIZE, in pages
          Bases,                \* where hsaKmtAllocMemoryAlignInternal places a block
          Sizes,                \* requests, in pages
          MaxLive               \* bound: fragments handed out at a time

\* A block is at least a huge page, so ReserveGpuVirtualAddress aligns it to one.
ASSUME BlockAssumption ==
  /\ BlockSize \in Nat \ {0} /\ HugePage \in Nat \ {0} /\ BlockSize >= HugePage
  /\ Sizes \subseteq Nat \ {0} /\ MaxLive \in Nat
  /\ \A b \in Bases : b \in Nat \ {0} /\ b % HugePage = 0

VARIABLES free_list,    \* free fragments: <<size, address>>
          block_list,   \* block -> address -> fragment
          block_cache,  \* cached blocks, oldest first: <<base, length>>
          in_use_size, cache_size,
          owned,        \* external: blocks allocated and not freed in the allocation map
          lost,         \* history: owned blocks the heap has dropped
          live          \* history: fragments handed out and not returned

heap == <<free_list, block_list, block_cache, in_use_size, cache_size>>
vars == <<heap, owned, lost, live>>

AlignUp(v, a) == ((v + a - 1) \div a) * a
Pages(a, n) == a .. a + n - 1

Used(n) == [size |-> n, free |-> FALSE, discard |-> FALSE]
Unused(n) == [size |-> n, free |-> TRUE, discard |-> FALSE]

Put(f, a, x) == [c \in DOMAIN f \cup {a} |-> IF c = a THEN x ELSE f[c]]
Erase(f, a) == [c \in DOMAIN f \ {a} |-> f[c]]

Empty == [b \in {} |-> {}]

Init ==
  /\ free_list = {} /\ block_list = Empty /\ block_cache = <<>>
  /\ in_use_size = 0 /\ cache_size = 0
  /\ owned = {} /\ lost = {} /\ live = {}

-----------------------------------------------------------------------------

\* The sum of a function's values, which are lengths: one pair for each page.
Total(length) == Cardinality(UNION {{i} \X (1 .. length[i]) : i \in DOMAIN length})
Lengths(blocks) == Total([i \in DOMAIN blocks |-> blocks[i][2]])

\* balance() goes on to release the oldest block until it has released k.
Stops(in_use, blocks, size, k) ==
  Len(blocks) - k <= 1 \/ size - Lengths(SubSeq(blocks, 1, k)) <= in_use * 2
Released(in_use, blocks, size) ==
  CHOOSE k \in 0 .. Len(blocks) : /\ Stops(in_use, blocks, size, k)
                                 /\ \A j \in 0 .. k - 1 : ~Stops(in_use, blocks, size, j)

\* block_allocator_.free() of a set of blocks.  It fails, with a message only, for a block
\* whose base is the ring of a queue.
BlockFree(had, blocks) ==
  \E kept \in SUBSET blocks :
    owned' = had \ (blocks \ kept) /\ lost' = lost \cup kept

\* balance(), with the blocks its caller has allocated and freed before.
Balance(in_use, blocks, size, made, freed) ==
  LET k == Released(in_use, blocks, size)
      old == SubSeq(blocks, 1, k)
  IN /\ block_cache' = SubSeq(blocks, k + 1, Len(blocks))
     /\ cache_size' = size - Lengths(old)
     /\ in_use_size' = in_use
     /\ BlockFree(owned \cup made, freed \cup Range(old))

\* The block that would hold address a: upper_bound(a), one back.
Block(a) == CHOOSE b \in DOMAIN block_list :
              b <= a /\ \A c \in DOMAIN block_list : c <= a => c <= b

\* free_list_.lower_bound(n): the smallest entries of at least n pages.
LowerBound(n) ==
  {e \in free_list : e[1] >= n /\ \A d \in free_list : d[1] >= n => e[1] <= d[1]}

\* The distance of a from the last aligned address.
Delta(a, n) == IF n >= HugePage THEN a % HugePage ELSE 0

\* Mutant: the free fragment is taken as it is.
Padding_None(a, n) == 0

Padding(a, n) == IF Delta(a, n) = 0 THEN 0 ELSE HugePage - Delta(a, n)

\* The fragments alloc(n) may take.  A huge request whose best fit has no room to align
\* searches once more, for a hole that has.
Fits(n) ==
  {e \in LowerBound(n) : e[1] >= n + Padding(e[2], n)}
    \cup (IF \E e \in LowerBound(n) : e[1] < n + Padding(e[2], n)
            THEN LowerBound(n + HugePage) ELSE {})

NoFit(n) == \/ LowerBound(n) = {}
            \/ /\ \E e \in LowerBound(n) : e[1] < n + Padding(e[2], n)
               /\ LowerBound(n + HugePage) = {}

\* A free fragment [a, a + size) cut into padding, the n pages used, and the rest.
Cut(frag_map, a, size, n) ==
  LET base == a + Padding(a, n)
      rest == size - Padding(a, n) - n
      f == IF base > a THEN Put(frag_map, a, Unused(base - a)) ELSE frag_map
      g == Put(f, base, Used(n))
  IN IF rest > 0 THEN Put(g, base + n, Unused(rest)) ELSE g

\* Mutant: the entry of the fragment that was cut stays in the list.
CutList_Stale(a, size, n) ==
  LET base == a + Padding(a, n)
      rest == size - Padding(a, n) - n
  IN free_list \cup (IF base > a THEN {<<base - a, a>>} ELSE {})
               \cup (IF rest > 0 THEN {<<rest, base + n>>} ELSE {})

CutList(a, size, n) ==
  LET base == a + Padding(a, n)
      rest == size - Padding(a, n) - n
  IN (free_list \ {<<size, a>>}) \cup (IF base > a THEN {<<base - a, a>>} ELSE {})
                                 \cup (IF rest > 0 THEN {<<rest, base + n>>} ELSE {})

AllocFragment(n) ==
  \E e \in Fits(n) :
    LET a == e[2]
    IN /\ block_list' = [block_list EXCEPT ![Block(a)] = Cut(@, a, e[1], n)]
       /\ free_list' = CutList(a, e[1], n)
       /\ live' = live \cup {<<a + Padding(a, n), n>>}
       /\ UNCHANGED <<block_cache, in_use_size, cache_size, owned, lost>>

\* discardBlock() on the fragments of a block.
Discarded(f) == [c \in DOMAIN f |-> [f[c] EXCEPT !.discard = TRUE]]

\* The first n pages of a new or cached block are used.  A block made for a request larger
\* than the default is discarded at once: its rest is not offered, and it is not cached.
StartBlock(base, size, n) ==
  LET rest == IF size > n THEN {<<size - n, base + n>>} ELSE {}
      f == Put([c \in {e[2] : e \in rest} |-> Unused(size - n)], base, Used(n))
  IN IF n > BlockSize
       THEN /\ block_list' = Put(block_list, base, Discarded(f))
            /\ UNCHANGED free_list
       ELSE /\ block_list' = Put(block_list, base, f)
            /\ free_list' = free_list \cup rest

\* Mutant: a block taken from the cache is not counted as in use.
AllocCached_NotInUse(n) ==
  LET block == block_cache[Len(block_cache)]
  IN /\ NoFit(n) /\ n < BlockSize /\ block_cache # <<>>
     /\ StartBlock(block[1], block[2], n)
     /\ block_cache' = SubSeq(block_cache, 1, Len(block_cache) - 1)
     /\ cache_size' = cache_size - block[2]
     /\ live' = live \cup {<<block[1], n>>}
     /\ UNCHANGED <<in_use_size, owned, lost>>

\* The newest cached block serves requests smaller than a block.
AllocCached(n) ==
  LET block == block_cache[Len(block_cache)]
  IN /\ NoFit(n) /\ n < BlockSize /\ block_cache # <<>>
     /\ StartBlock(block[1], block[2], n)
     /\ block_cache' = SubSeq(block_cache, 1, Len(block_cache) - 1)
     /\ cache_size' = cache_size - block[2]
     /\ in_use_size' = in_use_size + block[2]
     /\ live' = live \cup {<<block[1], n>>}
     /\ UNCHANGED <<owned, lost>>

\* BlockAllocator::alloc returns any free place for whole blocks, or nothing.
AllocBlock(n) ==
  LET size == AlignUp(n, BlockSize)
  IN /\ NoFit(n) /\ ~(n < BlockSize /\ block_cache # <<>>)
     /\ \E base \in Bases :
          /\ \A b \in owned : Pages(base, size) \cap Pages(b[1], b[2]) = {}
          /\ StartBlock(base, size, n)
          /\ live' = live \cup {<<base, n>>}
          /\ IF n > BlockSize
               THEN Balance(in_use_size, block_cache, cache_size, {<<base, size>>}, {})
               ELSE /\ owned' = owned \cup {<<base, size>>}
                    /\ in_use_size' = in_use_size + size
                    /\ UNCHANGED <<block_cache, cache_size, lost>>

-----------------------------------------------------------------------------

\* The used fragment at a, if there is one.
Found(a) ==
  /\ \E b \in DOMAIN block_list : b <= a
  /\ a \in DOMAIN block_list[Block(a)] /\ ~block_list[Block(a)][a].free

block_base(a) == IF Found(a) THEN Block(a) ELSE 0

\* The free neighbours of the fragment at a in its block, if there are any.
Lower(f, a) == {c \in DOMAIN f : c < a /\ f[c].free /\ \A d \in DOMAIN f : d < a => d <= c}
Upper(f, a) == {c \in DOMAIN f : c > a /\ f[c].free /\ \A d \in DOMAIN f : d > a => c <= d}

\* The fragment at c takes over the one at d.
Absorb(f, c, d) == [x \in DOMAIN f \ {d} |->
                      IF x = c THEN [f[c] EXCEPT !.size = @ + f[d].size] ELSE f[x]]

\* Where the fragment at a begins when it is merged with the free one below it.
Key(f, a) == IF Lower(f, a) = {} THEN a ELSE CHOOSE c \in Lower(f, a) : TRUE

MergeLower(f, a) == IF Lower(f, a) = {} THEN f ELSE Absorb(f, Key(f, a), a)
MergeUpper(f, a) == IF Upper(f, a) = {} THEN f ELSE Absorb(f, a, CHOOSE d \in Upper(f, a) : TRUE)

\* Mutant: the free neighbour above is not merged.
Merge_LowerOnly(f, a) == MergeLower(f, a)

\* The fragment at a and its free neighbours as one.
Merge(f, a) == MergeUpper(MergeLower(f, a), Key(f, a))

\* The fragment at a is merged with its free neighbours.  A block that is then one free
\* fragment leaves the heap for the cache or, if it is discarded, for good.
FreeFragment(a) ==
  LET b == Block(a)
      f == block_list[b]
      m == Merge(f, a)
      key == Key(f, a)
      block == <<key, m[key].size>>
      kept == free_list \ {<<f[c].size, c>> : c \in Lower(f, a) \cup Upper(f, a)}
  IN IF DOMAIN m = {key}
       THEN /\ block_list' = Erase(block_list, b)
            /\ free_list' = kept
            /\ IF f[a].discard
                 THEN Balance(in_use_size, block_cache, cache_size, {}, {block})
                 ELSE Balance(in_use_size - block[2], Append(block_cache, block),
                              cache_size + block[2], {}, {})
       ELSE /\ block_list' = [block_list EXCEPT
                 ![b] = IF f[a].discard THEN m ELSE Put(m, key, Unused(m[key].size))]
            /\ free_list' = IF f[a].discard THEN kept ELSE kept \cup {<<m[key].size, key>>}
            /\ UNCHANGED <<block_cache, in_use_size, cache_size, owned, lost>>

\* hsaKmtFreeMemory tries the heap first, for memory of any origin: an address that is no
\* used fragment is left to the allocation map.
Free(a) ==
  /\ IF Found(a) THEN FreeFragment(a) ELSE UNCHANGED <<heap, owned, lost>>
  /\ live' = {r \in live : r[1] # a}

\* Mutant: the blocks are released and stay in the cache.
Trim_KeepsCache ==
  /\ cache_size' = 0 /\ BlockFree(owned, Range(block_cache))
  /\ UNCHANGED <<block_cache, free_list, block_list, in_use_size, live>>

\* trim(), when a direct allocation has failed or the topology snapshot is dropped.
Trim ==
  /\ block_cache' = <<>> /\ cache_size' = 0
  /\ BlockFree(owned, Range(block_cache))
  /\ UNCHANGED <<free_list, block_list, in_use_size, live>>

\* Every hsaKmtOpenKFD, also a nested one, resets the heap.
Reset ==
  /\ free_list' = {} /\ block_list' = Empty /\ block_cache' = <<>>
  /\ in_use_size' = 0 /\ cache_size' = 0
  /\ lost' = owned /\ live' = {}
  /\ UNCHANGED owned

Memory == UNION {Pages(b, AlignUp(n, BlockSize)) : b \in Bases, n \in Sizes}
OwnedPages == UNION {Pages(b[1], b[2]) : b \in owned}

\* Callers free what they were given since the last reset, and memory of other origin.
Freeable == {r[1] : r \in live} \cup (Memory \ OwnedPages)

Alloc(n) == AllocFragment(n) \/ AllocCached(n) \/ AllocBlock(n)

Next == \/ Cardinality(live) < MaxLive /\ \E n \in Sizes : Alloc(n)
        \/ \E a \in Freeable : Free(a)
        \/ Trim
        \/ Reset

Spec == Init /\ [][Next]_vars

-----------------------------------------------------------------------------

\* The blocks the heap uses, as ranges: each up to where its last fragment ends.
End(f) == CHOOSE e \in {c + f[c].size : c \in DOMAIN f} : \A c \in DOMAIN f : c + f[c].size <= e
BlockRange(b) == <<b, End(block_list[b]) - b>>
InUse == {BlockRange(b) : b \in DOMAIN block_list}

\* Every block taken from the allocation map is in use, in the cache or dropped, and only
\* one of these, through every cut, merge, release and refused release.
BlocksAccounted ==
  /\ owned = InUse \cup Range(block_cache) \cup lost
  /\ InUse \cap Range(block_cache) = {} /\ lost \cap (InUse \cup Range(block_cache)) = {}
  /\ IsInjective(block_cache)

\* The fragments of a block follow each other without gap or overlap, the used ones are
\* those handed out (what block_base answers for them), and free ones do not touch.
Tiled ==
  /\ \A b \in DOMAIN block_list :
       LET f == block_list[b]
       IN \A a \in DOMAIN f :
            /\ a = b \/ \E c \in DOMAIN f : c + f[c].size = a /\ ~(f[c].free /\ f[a].free)
            /\ ~f[a].free => <<a, f[a].size>> \in live
  /\ \A r \in live : block_base(r[1]) # 0

Offered(f) == {<<f[a].size, a>> : a \in {c \in DOMAIN f : f[c].free /\ ~f[c].discard}}

\* The size index holds exactly the free fragments of the blocks that are not discarded: no
\* entry of a block that went to the cache is left behind (simple_heap.h 314-322).
FreeListMatches == free_list = UNION {Offered(block_list[b]) : b \in DOMAIN block_list}

\* The two counters balance() decides by are what they are named for, and after every
\* operation at most one block or twice the memory in use is cached.
CacheBounded ==
  /\ cache_size = Lengths(block_cache)
  /\ in_use_size = Total([b \in {c \in DOMAIN block_list : ~block_list[c][c].discard} |->
                            BlockRange(b)[2]])
  /\ Len(block_cache) <= 1 \/ cache_size <= 2 * in_use_size

Abstract == INSTANCE SubSpace WITH live <- live, backing <- OwnedPages

\* Callers see disjoint, aligned fragments of owned memory: the heap refines SubSpace.
AbstractSpec == Abstract!Spec
=============================================================================
