-------------------------- MODULE SimpleHeap_proofs --------------------------
(***************************************************************************)
(* SimpleHeap keeps its invariants and implements SubSpace, for every size *)
(* of a block and of a huge page, every set of requests and every place    *)
(* where the allocation map may put a block.  The inductive invariant      *)
(* (HeapInv) says that every block is tiled, that the blocks owned are     *)
(* those in use, in the cache or lost (Partition), and that the index, the *)
(* fragments handed out and the two counters follow from the blocks.       *)
(***************************************************************************)
EXTENDS SimpleHeap_blocks

-----------------------------------------------------------------------------
(* The inductive invariant. *)

\* Every owned block is in exactly one of four places.
Partition(own, used, cached, freed, gone) ==
  /\ own = used \cup cached \cup freed \cup gone
  /\ used \cap cached = {} /\ used \cap freed = {} /\ cached \cap freed = {}
  /\ gone \cap (used \cup cached \cup freed) = {}

\* The blocks the allocation map hands out, and how they lie.
Lawful(own) ==
  /\ own \subseteq Bases \X {AlignUp(n, BlockSize) : n \in Sizes}
  /\ \A x, y \in own : x # y => x[1] + x[2] <= y[1] \/ y[1] + y[2] <= x[1]

CacheOK(q, cached, in_use) ==
  /\ q \in Seq(Cacheable) /\ IsInjective(q)
  /\ cached = BlockSize * Len(q)
  /\ Len(q) <= 1 \/ cached <= 2 * in_use

HeapInv ==
  /\ AllSound(block_list)
  /\ Partition(owned, Ranges(block_list), Range(block_cache), {}, lost)
  /\ Lawful(owned)
  /\ CacheOK(block_cache, cache_size, in_use_size)
  /\ in_use_size = BlockSize * Cardinality(InService(block_list))
  /\ free_list = OfferedBy(block_list)
  /\ live = TakenBy(block_list)

\* Blocks that are freed are owned no longer, or lost when free() refuses them.
LEMMA FreedOrLost ==
  ASSUME NEW own, NEW used, NEW cached, NEW freed, NEW gone, NEW old, NEW rest, NEW kept,
         Partition(own, used, cached, freed, gone), old \cup rest = cached, old \cap rest = {},
         kept \subseteq freed \cup old
  PROVE  Partition(own \ ((freed \cup old) \ kept), used, rest, {}, gone \cup kept)
  BY DEF Partition

\* balance() keeps the cache in bounds and accounts for every block it releases.
LEMMA BalanceKeeps ==
  ASSUME NEW q \in Seq(Cacheable), IsInjective(q), NEW in_use \in Nat, NEW size,
         size = BlockSize * Len(q), NEW made, NEW freed, NEW used,
         Partition(owned \cup made, used, Range(q), freed, lost),
         Balance(in_use, q, size, made, freed)
  PROVE  /\ CacheOK(block_cache', cache_size', in_use) /\ in_use_size' = in_use
         /\ Partition(owned', used, Range(block_cache'), {}, lost')
         /\ owned' \subseteq owned \cup made
<1>1. PICK old, rest : /\ Balanced(q, in_use, size, old, rest)
                       /\ block_cache' = rest /\ cache_size' = size - Lengths(old)
                       /\ in_use_size' = in_use
                       /\ BlockFree(owned \cup made, freed \cup Range(old))
  BY CacheBalanced, Zenon DEF Balance
<1>2. PICK kept \in SUBSET (freed \cup Range(old)) :
             /\ owned' = (owned \cup made) \ ((freed \cup Range(old)) \ kept)
             /\ lost' = lost \cup kept
  BY <1>1, Zenon DEF BlockFree
<1>3. Range(old) \cup Range(rest) = Range(q) /\ Range(old) \cap Range(rest) = {}
  BY <1>1, Zenon DEF Balanced
<1>4. Partition((owned \cup made) \ ((freed \cup Range(old)) \ kept), used, Range(rest), {}, lost \cup kept)
  BY <1>3, FreedOrLost, Zenon
<1>5. CacheOK(rest, size - Lengths(old), in_use)
  BY <1>1, Zenon DEF Balanced, CacheOK
<1> QED
  BY <1>1, <1>2, <1>4, <1>5

\* Where owned blocks lie.
LEMMA LawfulFacts ==
  ASSUME NEW own, Lawful(own)
  PROVE  /\ \A x \in own : /\ x = <<x[1], x[2]>> /\ x[1] \in Bases /\ x[1] \in Nat \ {0}
                           /\ x[2] \in Nat \ {0}
         /\ \A part \in SUBSET own : Lawful(part)
<1>1. ASSUME NEW x \in own
      PROVE  x = <<x[1], x[2]>> /\ x[1] \in Bases /\ x[1] \in Nat \ {0} /\ x[2] \in Nat \ {0}
  <2>1. PICK b \in Bases, n \in Sizes : x = <<b, AlignUp(n, BlockSize)>>
    BY DEF Lawful
  <2>2. b \in Nat \ {0} /\ n \in Nat \ {0} /\ BlockSize \in Nat \ {0}
    BY BlockAssumption
  <2>3. AlignUp(n, BlockSize) \in Nat /\ AlignUp(n, BlockSize) >= n
    BY <2>2, BlockHolds
  <2> QED
    BY <2>1, <2>2, <2>3
<1>2. \A part \in SUBSET own : Lawful(part)
  BY Zenon DEF Lawful
<1> QED
  BY <1>1, <1>2

\* What the invariant says of one block.
LEMMA BlockFacts ==
  ASSUME HeapInv, NEW b \in DOMAIN block_list
  PROVE  /\ b \in Bases /\ b \in Nat \ {0} /\ End(block_list[b]) \in Nat
         /\ Sound(block_list[b], b, End(block_list[b]))
         /\ <<b, End(block_list[b]) - b>> \in Ranges(block_list)
         /\ <<b, End(block_list[b]) - b>> \in owned
<1>1. b \in Nat /\ End(block_list[b]) \in Nat /\ Sound(block_list[b], b, End(block_list[b]))
  BY DEF HeapInv, AllSound
<1>2. <<b, End(block_list[b]) - b>> \in Ranges(block_list)
  BY DEF Ranges
<1>3. <<b, End(block_list[b]) - b>> \in owned
  BY <1>2 DEF HeapInv, Partition
<1>4. b \in Bases /\ b \in Nat \ {0}
  <2>1. Lawful(owned)
    BY DEF HeapInv
  <2> QED
    BY <1>3, <2>1, LawfulFacts
<1> QED
  BY <1>1, <1>2, <1>3, <1>4

\* An entry alloc() takes is a free fragment with room for the padding and the request.
LEMMA FitsRoom ==
  ASSUME NEW n \in Nat \ {0}, free_list = OfferedBy(block_list), AllSound(block_list), NEW x \in Fits(n)
  PROVE  \E b \in DOMAIN block_list : /\ x \in Offered(block_list[b])
                                      /\ x[1] >= n + Padding(x[2], n)
<1>1. x \in free_list /\ (x[1] >= n + Padding(x[2], n) \/ x[1] >= n + HugePage)
  BY DEF Fits, LowerBound
<1>2. PICK b \in DOMAIN block_list : x \in Offered(block_list[b])
  BY <1>1 DEF OfferedBy
<1>3. b \in Nat /\ End(block_list[b]) \in Nat /\ Sound(block_list[b], b, End(block_list[b]))
  BY DEF AllSound
<1>4. x[2] \in Nat /\ x[1] \in Nat
  <2>1. x[2] \in DOMAIN block_list[b] /\ x = <<block_list[b][x[2]].size, x[2]>>
    BY <1>2, <1>3, Within
  <2>2. x[2] \in Nat /\ block_list[b][x[2]].size \in Nat
    BY <1>3, <2>1, Sized DEF Sound
  <2> QED
    BY <2>1, <2>2
<1>5. Padding(x[2], n) \in Nat /\ Padding(x[2], n) < HugePage
  BY <1>4, PaddingAligns, Zenon
<1>6. HugePage \in Nat
  BY BlockAssumption
<1>7. x[1] >= n + Padding(x[2], n)
  BY <1>1, <1>4, <1>5, <1>6
<1> QED
  BY <1>2, <1>7

\* A step that changes only the fragments of the block b.
OneBlock(b) ==
  /\ b \in DOMAIN block_list /\ Changed(block_list, block_list', b)
  /\ Sound(block_list'[b], b, End(block_list[b]))
  /\ block_list'[b][b].discard = block_list[b][b].discard
  /\ free_list' = (free_list \ Offered(block_list[b])) \cup Offered(block_list'[b])
  /\ live' = (live \ Taken(block_list[b])) \cup Taken(block_list'[b])
  /\ UNCHANGED <<block_cache, in_use_size, cache_size, owned, lost>>

\* The invariant when only the fragments of one block change.
LEMMA OneBlockStep ==
  ASSUME HeapInv, NEW b, OneBlock(b)
  PROVE  HeapInv'
<1>1. AllSound(block_list)
  BY DEF HeapInv
<1>2. /\ AllSound(block_list') /\ Ranges(block_list') = Ranges(block_list)
      /\ InService(block_list') = InService(block_list)
      /\ OfferedBy(block_list') = (OfferedBy(block_list) \ Offered(block_list[b])) \cup Offered(block_list'[b])
      /\ TakenBy(block_list') = (TakenBy(block_list) \ Taken(block_list[b])) \cup Taken(block_list'[b])
  <2>1. /\ Changed(block_list, block_list', b) /\ Sound(block_list'[b], b, End(block_list[b]))
        /\ block_list'[b][b].discard = block_list[b][b].discard
    BY Zenon DEF OneBlock
  <2> QED
    BY <1>1, <2>1, Replaced, SMTT(20)
<1>3. free_list' = OfferedBy(block_list') /\ live' = TakenBy(block_list')
  BY <1>2, Zenon DEF HeapInv, OneBlock
<1>4. UNCHANGED <<block_cache, in_use_size, cache_size, owned, lost>>
  BY Zenon DEF OneBlock
<1> QED
  BY <1>2, <1>3, <1>4 DEF HeapInv

\* The free list when the fragment at a is cut.
CutEntries(a, s, n, p) ==
  (free_list \ {<<s, a>>}) \cup (IF p > 0 THEN {<<p, a>>} ELSE {})
                           \cup (IF s > n + p THEN {<<s - p - n, a + p + n>>} ELSE {})

\* That is what CutList makes.
LEMMA CutListIs ==
  ASSUME NEW a \in Nat, NEW s \in Nat, NEW n \in Nat \ {0}
  PROVE  CutList(a, s, n) = CutEntries(a, s, n, Padding(a, n))
<1> DEFINE p == Padding(a, n)
<1>1. CutList(a, s, n) = (free_list \ {<<s, a>>}) \cup (IF a + p > a THEN {<<(a + p) - a, a>>} ELSE {})
                          \cup (IF s - p - n > 0 THEN {<<s - p - n, a + p + n>>} ELSE {})
  BY DEF CutList
<1>2. p \in Nat
  BY PaddingAligns
<1> HIDE DEF p
<1>3. (a + p > a <=> p > 0) /\ (a + p) - a = p /\ (s - p - n > 0 <=> s > n + p)
  BY <1>2
<1>4. CutList(a, s, n) = CutEntries(a, s, n, p)
  BY <1>1, <1>3 DEF CutEntries
<1> QED
  BY <1>4 DEF p

\* alloc() from the free list.
LEMMA AllocFragmentStep ==
  ASSUME HeapInv, NEW n \in Sizes, AllocFragment(n)
  PROVE  HeapInv'
<1>1. n \in Nat \ {0}
  BY BlockAssumption
<1>2. AllSound(block_list) /\ free_list = OfferedBy(block_list) /\ live = TakenBy(block_list)
  BY DEF HeapInv
<1>3. PICK x \in Fits(n) :
             /\ block_list' = [block_list EXCEPT ![Block(x[2])] = Cut(block_list[Block(x[2])], x[2], x[1], n)]
             /\ free_list' = CutList(x[2], x[1], n)
             /\ live' = live \cup {<<x[2] + Padding(x[2], n), n>>}
             /\ UNCHANGED <<block_cache, in_use_size, cache_size, owned, lost>>
  BY Zenon DEF AllocFragment
<1>4. PICK b \in DOMAIN block_list : x \in Offered(block_list[b]) /\ x[1] >= n + Padding(x[2], n)
  BY <1>1, <1>2, FitsRoom
<1>5. PICK f, a, s, p, e : /\ f = block_list[b] /\ a = x[2] /\ s = x[1] /\ p = Padding(a, n)
                           /\ e = End(block_list[b])
  OBVIOUS
<1>6. b \in Nat /\ e \in Nat /\ Sound(f, b, e)
  BY <1>5, BlockFacts, Zenon
<1>7. a \in DOMAIN f /\ s = f[a].size /\ a \in b .. e - 1 /\ f[a].free /\ ~f[a].discard
  <2>1. /\ x[2] \in DOMAIN f /\ x = <<f[x[2]].size, x[2]>> /\ x[2] \in b .. e - 1
        /\ f[x[2]].free /\ ~f[x[2]].discard
    BY <1>4, <1>5, <1>6, Within
  <2>2. x[1] = f[x[2]].size
    BY <2>1
  <2> QED
    BY <1>5, <2>1, <2>2
<1>8. Block(a) = b
  BY <1>2, <1>5, <1>7, BlockOf
<1>9. PICK g : g = Cut(f, a, s, n)
  OBVIOUS
<1>10. Changed(block_list, block_list', b) /\ block_list'[b] = g
  <2>1. block_list' = [block_list EXCEPT ![b] = g]
    BY <1>3, <1>5, <1>8, <1>9
  <2> QED
    BY <2>1 DEF Changed
<1>11. s >= n + p
  BY <1>4, <1>5
<1>12. /\ Sound(g, b, e) /\ g[b].discard = f[b].discard
       /\ Offered(g) = (Offered(f) \ {<<s, a>>}) \cup (IF p > 0 THEN {<<p, a>>} ELSE {})
                                                 \cup (IF s > n + p THEN {<<s - p - n, a + p + n>>} ELSE {})
       /\ Taken(g) = Taken(f) \cup {<<a + p, n>>}
  BY <1>1, <1>5, <1>6, <1>7, <1>9, <1>11, CutSound
<1>13. a \in Nat /\ p \in Nat /\ s \in Nat
  <2>1. a \in Nat
    BY <1>6, <1>7
  <2>2. s \in Nat
    BY <1>6, <1>7, Sized DEF Sound
  <2> QED
    BY <1>1, <1>5, <2>1, <2>2, PaddingAligns, Zenon
<1>14. free_list' = (free_list \ {<<s, a>>}) \cup (IF p > 0 THEN {<<p, a>>} ELSE {})
                                             \cup (IF s > n + p THEN {<<s - p - n, a + p + n>>} ELSE {})
  <2>1. free_list' = CutList(a, s, n)
    BY <1>3, <1>5
  <2>2. CutList(a, s, n) = CutEntries(a, s, n, p)
    BY <1>1, <1>5, <1>13, CutListIs, Zenon
  <2> QED
    BY <2>1, <2>2, Zenon DEF CutEntries
<1>15. Offered(f) \subseteq free_list /\ Taken(f) \subseteq live
  BY <1>2, <1>5 DEF OfferedBy, TakenBy
<1>16. <<s, a>> \in Offered(f)
  BY <1>7 DEF Offered
<1>17. free_list' = (free_list \ Offered(f)) \cup Offered(g)
  BY <1>12, <1>14, <1>15, <1>16
<1>18. live' = (live \ Taken(f)) \cup Taken(g)
  <2>1. live' = live \cup {<<a + p, n>>}
    BY <1>3, <1>5
  <2> QED
    BY <1>12, <1>15, <2>1
<1>19. OneBlock(b)
  BY <1>3, <1>5, <1>10, <1>12, <1>17, <1>18, Zenon DEF OneBlock
<1> QED
  BY <1>19, OneBlockStep, Zenon

\* A block that meets none in use starts to serve requests.
LEMMA StartBlockStep ==
  ASSUME HeapInv, NEW b \in Nat, NEW size \in Nat, NEW n \in Nat \ {0}, n <= size,
         n <= BlockSize => size = BlockSize, StartBlock(b, size, n),
         \A c \in DOMAIN block_list : b + size <= c \/ End(block_list[c]) <= b
  PROVE  /\ AllSound(block_list') /\ Ranges(block_list') = Ranges(block_list) \cup {<<b, size>>}
         /\ free_list' = OfferedBy(block_list') /\ TakenBy(block_list') = live \cup {<<b, n>>}
         /\ InService(block_list') = InService(block_list) \cup (IF n > BlockSize THEN {} ELSE {b})
         /\ b \notin InService(block_list)
<1>1. AllSound(block_list) /\ free_list = OfferedBy(block_list) /\ live = TakenBy(block_list)
  BY DEF HeapInv
<1>2. BlockSize \in Nat
  BY BlockAssumption
<1>3. b \notin DOMAIN block_list
  <2>1. ASSUME b \in DOMAIN block_list PROVE FALSE
    <3>1. End(block_list[b]) \in Nat /\ Tiling(block_list[b], b, End(block_list[b]))
      BY <1>1, <2>1 DEF AllSound, Sound
    <3>2. b \in b .. End(block_list[b]) - 1
      BY <3>1 DEF Tiling
    <3> QED
      BY <2>1, <3>1, <3>2
  <2> QED
    BY <2>1
<1>4. PICK discard \in BOOLEAN : discard <=> n > BlockSize
  BY Zenon
<1>5. PICK g : /\ block_list' = Put(block_list, b, g) /\ FirstUsed(g, b, size, n, discard)
               /\ free_list' = free_list \cup (IF ~discard /\ size > n THEN {<<size - n, b + n>>} ELSE {})
  <2>1. /\ FirstUsed(Started(b, size, n), b, size, n, FALSE)
        /\ FirstUsed(Discarded(Started(b, size, n)), b, size, n, TRUE)
    BY StartedShape, Zenon
  <2>2. CASE n > BlockSize
    <3>1. discard = TRUE
      BY <1>4, <2>2
    <3>2. block_list' = Put(block_list, b, Discarded(Started(b, size, n))) /\ free_list' = free_list
      BY <2>2, Zenon DEF StartBlock, Started
    <3>3. free_list' = free_list \cup (IF ~discard /\ size > n THEN {<<size - n, b + n>>} ELSE {})
      BY <3>1, <3>2
    <3> QED
      BY <2>1, <3>1, <3>2, <3>3, Zenon
  <2>3. CASE ~(n > BlockSize)
    <3>1. discard = FALSE
      BY <1>4, <2>3
    <3>2. /\ block_list' = Put(block_list, b, Started(b, size, n))
          /\ free_list' = free_list \cup (IF size > n THEN {<<size - n, b + n>>} ELSE {})
      BY <2>3, Zenon DEF StartBlock, Started
    <3>3. free_list' = free_list \cup (IF ~discard /\ size > n THEN {<<size - n, b + n>>} ELSE {})
      BY <3>1, <3>2
    <3> QED
      BY <2>1, <3>1, <3>2, <3>3, Zenon
  <2> QED
    BY <2>2, <2>3
<1>6. Extra(block_list, block_list', b) /\ block_list'[b] = g
  BY <1>3, <1>5, InsertErase
<1>7. ~discard => size = BlockSize
  BY <1>2, <1>4
<1>8. /\ Sound(g, b, b + size) /\ g[b].discard = discard
      /\ Offered(g) = IF ~discard /\ size > n THEN {<<size - n, b + n>>} ELSE {}
      /\ Taken(g) = {<<b, n>>}
  BY <1>5, <1>7, FirstUsedSound
<1>9. AllSound(block_list') /\ End(block_list'[b]) = b + size
  <2>1. b + size \in Nat /\ Sound(block_list'[b], b, b + size)
    BY <1>6, <1>8
  <2> QED
    BY <1>1, <1>6, <2>1, Added
<1>10. /\ OfferedBy(block_list') = OfferedBy(block_list) \cup Offered(g)
       /\ TakenBy(block_list') = TakenBy(block_list) \cup Taken(g)
       /\ Ranges(block_list') = Ranges(block_list) \cup {<<b, End(g) - b>>}
       /\ InService(block_list') = InService(block_list) \cup (IF g[b].discard THEN {} ELSE {b})
  BY <1>6, ExtraBlock
<1>11. End(g) - b = size
  BY <1>6, <1>9
<1>12. Ranges(block_list') = Ranges(block_list) \cup {<<b, size>>}
  BY <1>10, <1>11
<1>13. free_list' = OfferedBy(block_list') /\ TakenBy(block_list') = live \cup {<<b, n>>}
  BY <1>1, <1>5, <1>8, <1>10
<1>14. InService(block_list') = InService(block_list) \cup (IF n > BlockSize THEN {} ELSE {b})
  BY <1>4, <1>8, <1>10
<1>15. b \notin InService(block_list)
  BY <1>3 DEF InService
<1> QED
  BY <1>9, <1>12, <1>13, <1>14, <1>15

\* The newest block of the cache, and the cache without it.
LEMMA NewestCached ==
  ASSUME NEW q \in Seq(Cacheable), IsInjective(q), q # <<>>
  PROVE  LET r == SubSeq(q, 1, Len(q) - 1)
         IN /\ r \in Seq(Cacheable) /\ Len(r) = Len(q) - 1 /\ IsInjective(r)
            /\ q[Len(q)] \in Cacheable /\ q[Len(q)] \in Range(q) /\ Range(r) = Range(q) \ {q[Len(q)]}
<1> DEFINE k == Len(q) - 1
<1>1. k \in 0 .. Len(q) /\ k \in Nat /\ Len(q) = k + 1
  OBVIOUS
<1>2. PICK r, last : r = SubSeq(q, 1, k) /\ last = q[k + 1]
  BY Zenon
<1>3. Parts(q, k, r, SubSeq(q, k + 1, Len(q)))
  BY <1>1, <1>2, CacheParts, Zenon
<1> HIDE DEF k
<1>4. r \in Seq(Cacheable) /\ Len(r) = k /\ \A i \in 1 .. k : r[i] = q[i]
  BY <1>3, Zenon DEF Parts
<1>5. DOMAIN q = 1 .. k + 1 /\ DOMAIN r = 1 .. k
  BY <1>1, <1>4
<1>6. \A i, j \in 1 .. k + 1 : q[i] = q[j] => i = j
  BY <1>5, Zenon DEF IsInjective
<1>7. IsInjective(r)
  <2>1. ASSUME NEW i \in 1 .. k, NEW j \in 1 .. k, r[i] = r[j] PROVE i = j
    <3>1. i \in 1 .. k + 1 /\ j \in 1 .. k + 1 /\ q[i] = q[j]
      BY <1>1, <1>4, <2>1
    <3> QED
      BY <1>6, <3>1
  <2> QED
    BY <1>5, <2>1, Zenon DEF IsInjective
<1>8. last \in Cacheable /\ last \in Range(q)
  <2>1. k + 1 \in DOMAIN q
    BY <1>1, <1>5
  <2> QED
    BY <1>2, <2>1 DEF Range
<1>9. ASSUME NEW x \in Range(r) PROVE x \in Range(q) \ {last}
  <2>1. PICK i \in 1 .. k : x = r[i]
    BY <1>5 DEF Range
  <2>2. i \in 1 .. k + 1 /\ k + 1 \in 1 .. k + 1 /\ i # k + 1
    BY <1>1
  <2>3. x = q[i] /\ q[i] # q[k + 1]
    BY <1>4, <1>6, <2>1, <2>2
  <2> QED
    BY <1>2, <1>5, <2>2, <2>3 DEF Range
<1>10. ASSUME NEW x \in Range(q), x # last PROVE x \in Range(r)
  <2>1. PICK i \in 1 .. k + 1 : x = q[i]
    BY <1>5 DEF Range
  <2>2. i \in 1 .. k
    BY <1>1, <1>2, <1>10, <2>1
  <2> QED
    BY <1>4, <1>5, <2>1, <2>2 DEF Range
<1>11. Range(r) = Range(q) \ {last}
  BY <1>9, <1>10
<1> QED
  BY <1>1, <1>2, <1>4, <1>7, <1>8, <1>11, Zenon DEF k

\* The blocks counted as in use are finitely many.
LEMMA InServiceFinite ==
  ASSUME NEW bl, AllSound(bl)
  PROVE  IsFiniteSet(InService(bl)) /\ Cardinality(InService(bl)) \in Nat
<1>1. IsFiniteSet(DOMAIN bl) /\ InService(bl) \in SUBSET (DOMAIN bl)
  BY DEF AllSound, InService
<1>2. IsFiniteSet(InService(bl))
  BY <1>1, FS_Subset
<1> QED
  BY <1>2, FS_CardinalityType

\* An owned block that is not in use meets none that is.
LEMMA ApartBlocks ==
  ASSUME HeapInv, NEW own, Lawful(own), owned \subseteq own, NEW x \in own, x \notin Ranges(block_list)
  PROVE  \A c \in DOMAIN block_list : x[1] + x[2] <= c \/ End(block_list[c]) <= x[1]
<1>1. ASSUME NEW c \in DOMAIN block_list PROVE x[1] + x[2] <= c \/ End(block_list[c]) <= x[1]
  <2>1. PICK y : y = <<c, End(block_list[c]) - c>>
    BY Zenon
  <2>2. y \in owned /\ y \in Ranges(block_list) /\ c \in Nat /\ End(block_list[c]) \in Nat
    BY <2>1, BlockFacts, Zenon
  <2>3. x[1] + x[2] <= y[1] \/ y[1] + y[2] <= x[1]
    BY <2>2 DEF Lawful
  <2>4. y[1] = c /\ y[1] + y[2] = End(block_list[c])
    BY <2>1, <2>2
  <2> QED
    BY <2>3, <2>4
<1> QED
  BY <1>1

\* BlockAllocator::alloc keeps owned blocks apart.
LEMMA MoreLawful ==
  ASSUME NEW own, Lawful(own), NEW base \in Bases, NEW n \in Sizes, NEW size,
         size = AlignUp(n, BlockSize), \A b \in own : Pages(base, size) \cap Pages(b[1], b[2]) = {}
  PROVE  Lawful(own \cup {<<base, size>>}) /\ <<base, size>> \notin own
<1>1. base \in Nat /\ size \in Nat \ {0}
  <2>1. base \in Nat /\ n \in Nat \ {0} /\ BlockSize \in Nat \ {0}
    BY BlockAssumption
  <2>2. AlignUp(n, BlockSize) \in Nat /\ AlignUp(n, BlockSize) >= n
    BY <2>1, BlockHolds
  <2> QED
    BY <2>1, <2>2
<1>2. \A b \in own : b[1] \in Nat /\ b[2] \in Nat \ {0}
  BY LawfulFacts
<1>3. ASSUME NEW b \in own PROVE base + size <= b[1] \/ b[1] + b[2] <= base
  <2>1. Pages(base, size) = base .. base + size - 1 /\ Pages(b[1], b[2]) = b[1] .. b[1] + b[2] - 1
    BY DEF Pages
  <2>2. ASSUME ~(base + size <= b[1] \/ b[1] + b[2] <= base) PROVE FALSE
    <3>1. CASE base <= b[1]
      <4>1. b[1] \in base .. base + size - 1 /\ b[1] \in b[1] .. b[1] + b[2] - 1
        BY <1>1, <1>2, <2>2, <3>1
      <4> QED
        BY <2>1, <4>1, Zenon
    <3>2. CASE b[1] < base
      <4>1. base \in base .. base + size - 1 /\ base \in b[1] .. b[1] + b[2] - 1
        BY <1>1, <1>2, <2>2, <3>2
      <4> QED
        BY <2>1, <4>1, Zenon
    <3> QED
      BY <1>1, <1>2, <3>1, <3>2
  <2> QED
    BY <2>2
<1>4. <<base, size>> \notin own
  BY <1>1, <1>3
<1>5. <<base, size>> \in Bases \X {AlignUp(m, BlockSize) : m \in Sizes}
  OBVIOUS
<1>6. ASSUME NEW x \in own \cup {<<base, size>>}, NEW y \in own \cup {<<base, size>>}, x # y
      PROVE  x[1] + x[2] <= y[1] \/ y[1] + y[2] <= x[1]
  <2>1. CASE x \in own /\ y \in own
    BY <1>6, <2>1 DEF Lawful
  <2>2. CASE x = <<base, size>> /\ y \in own
    BY <1>3, <2>2
  <2>3. CASE y = <<base, size>> /\ x \in own
    BY <1>3, <2>3
  <2> QED
    BY <1>6, <2>1, <2>2, <2>3
<1>7. Lawful(own \cup {<<base, size>>})
  BY <1>5, <1>6 DEF Lawful
<1> QED
  BY <1>4, <1>7

\* alloc() from the cache.
LEMMA AllocCachedStep ==
  ASSUME HeapInv, NEW n \in Sizes, AllocCached(n)
  PROVE  HeapInv'
<1>1. n \in Nat \ {0} /\ BlockSize \in Nat
  BY BlockAssumption
<1>2. PICK q, block : q = block_cache /\ block = q[Len(q)]
  OBVIOUS
<1>3. /\ n < BlockSize /\ q # <<>> /\ StartBlock(block[1], block[2], n)
      /\ block_cache' = SubSeq(q, 1, Len(q) - 1) /\ cache_size' = cache_size - block[2]
      /\ in_use_size' = in_use_size + block[2]
      /\ live' = live \cup {<<block[1], n>>} /\ owned' = owned /\ lost' = lost
  BY <1>2, Zenon DEF AllocCached
<1>4. /\ q \in Seq(Cacheable) /\ IsInjective(q) /\ cache_size = BlockSize * Len(q)
      /\ Len(q) <= 1 \/ cache_size <= 2 * in_use_size
      /\ AllSound(block_list) /\ Lawful(owned)
      /\ in_use_size = BlockSize * Cardinality(InService(block_list))
      /\ Partition(owned, Ranges(block_list), Range(q), {}, lost)
  BY <1>2 DEF HeapInv, CacheOK
<1>5. /\ block_cache' \in Seq(Cacheable) /\ Len(block_cache') = Len(q) - 1 /\ IsInjective(block_cache')
      /\ block \in Cacheable /\ block \in Range(q) /\ Range(block_cache') = Range(q) \ {block}
  BY <1>2, <1>3, <1>4, NewestCached, Zenon
<1>6. block[1] \in Nat /\ block[2] = BlockSize /\ block = <<block[1], block[2]>>
  BY <1>5, BlockAssumption DEF Cacheable
<1>7. block \in owned /\ block \notin Ranges(block_list)
  BY <1>4, <1>5 DEF Partition
<1>8. \A c \in DOMAIN block_list : block[1] + block[2] <= c \/ End(block_list[c]) <= block[1]
  BY <1>4, <1>7, ApartBlocks
<1>9. n <= block[2] /\ block[2] \in Nat /\ ~(n > BlockSize)
  BY <1>1, <1>3, <1>6
<1>10. /\ AllSound(block_list')
       /\ Ranges(block_list') = Ranges(block_list) \cup {<<block[1], block[2]>>}
       /\ free_list' = OfferedBy(block_list') /\ TakenBy(block_list') = live \cup {<<block[1], n>>}
       /\ InService(block_list') = InService(block_list) \cup (IF n > BlockSize THEN {} ELSE {block[1]})
       /\ block[1] \notin InService(block_list)
  BY <1>1, <1>3, <1>6, <1>8, <1>9, StartBlockStep
<1>11. Partition(owned', Ranges(block_list'), Range(block_cache'), {}, lost')
  <2>1. Ranges(block_list') = Ranges(block_list) \cup {block}
    BY <1>6, <1>10
  <2> QED
    BY <1>3, <1>4, <1>5, <1>7, <2>1 DEF Partition
<1>12. Cardinality(InService(block_list)) \in Nat /\ IsFiniteSet(InService(block_list))
  BY <1>4, InServiceFinite
<1>13. Cardinality(InService(block_list')) = Cardinality(InService(block_list)) + 1
  <2>1. InService(block_list') = InService(block_list) \cup {block[1]}
    BY <1>9, <1>10
  <2> QED
    BY <1>10, <1>12, <2>1, FS_AddElement, Zenon
<1>14. in_use_size' = BlockSize * Cardinality(InService(block_list'))
  <2> DEFINE N == Cardinality(InService(block_list))
  <2>1. N \in Nat /\ in_use_size' = (BlockSize * N) + BlockSize
    BY <1>3, <1>4, <1>6, <1>12
  <2> HIDE DEF N
  <2>2. (BlockSize * N) + BlockSize = BlockSize * (N + 1)
    BY <1>1, <2>1, Z3
  <2> QED
    BY <1>13, <2>1, <2>2 DEF N
<1>15. Len(q) \in Nat /\ Len(q) # 0
  BY <1>3, <1>4
<1>16. in_use_size \in Nat /\ cache_size \in Nat
  BY <1>1, <1>4, <1>12, <1>15, Z3
<1>17. cache_size' = BlockSize * Len(block_cache')
  <2>1. cache_size' = (BlockSize * Len(q)) - BlockSize
    BY <1>3, <1>4, <1>6
  <2>2. PICK l \in Nat : l = Len(q)
    BY <1>15
  <2>3. (BlockSize * l) - BlockSize = BlockSize * (l - 1)
    BY <1>1, Z3
  <2> QED
    BY <1>5, <2>1, <2>2, <2>3
<1>18. Len(block_cache') <= 1 \/ cache_size' <= 2 * in_use_size'
  <2>1. CASE Len(q) <= 1
    BY <1>5, <1>15, <2>1
  <2>2. CASE cache_size <= 2 * in_use_size
    BY <1>1, <1>3, <1>6, <1>16, <2>2
  <2> QED
    BY <1>4, <2>1, <2>2
<1>19. CacheOK(block_cache', cache_size', in_use_size')
  BY <1>5, <1>17, <1>18 DEF CacheOK
<1>20. live' = TakenBy(block_list')
  BY <1>3, <1>10
<1>21. Lawful(owned')
  BY <1>3, <1>4
<1> QED
  BY <1>10, <1>11, <1>14, <1>19, <1>20, <1>21 DEF HeapInv

\* alloc() with a new block.
LEMMA AllocBlockStep ==
  ASSUME HeapInv, NEW n \in Sizes, AllocBlock(n)
  PROVE  HeapInv'
<1>1. n \in Nat \ {0} /\ BlockSize \in Nat \ {0}
  BY BlockAssumption
<1>2. PICK size : size = AlignUp(n, BlockSize)
  OBVIOUS
<1>3. PICK base \in Bases :
          /\ \A b \in owned : Pages(base, size) \cap Pages(b[1], b[2]) = {}
          /\ StartBlock(base, size, n) /\ live' = live \cup {<<base, n>>}
          /\ IF n > BlockSize
               THEN Balance(in_use_size, block_cache, cache_size, {<<base, size>>}, {})
               ELSE /\ owned' = owned \cup {<<base, size>>} /\ in_use_size' = in_use_size + size
                    /\ UNCHANGED <<block_cache, cache_size, lost>>
  BY <1>2, Zenon DEF AllocBlock
<1>4. /\ AllSound(block_list) /\ Lawful(owned) /\ CacheOK(block_cache, cache_size, in_use_size)
      /\ in_use_size = BlockSize * Cardinality(InService(block_list))
      /\ Partition(owned, Ranges(block_list), Range(block_cache), {}, lost)
  BY DEF HeapInv
<1>5. size \in Nat /\ n <= size /\ (n <= BlockSize => size = BlockSize) /\ base \in Nat
  <2>1. AlignUp(n, BlockSize) \in Nat /\ AlignUp(n, BlockSize) >= n /\ (n <= BlockSize => AlignUp(n, BlockSize) = BlockSize)
    BY <1>1, BlockHolds
  <2>2. base \in Nat
    BY BlockAssumption
  <2> QED
    BY <1>1, <1>2, <2>1, <2>2
<1>6. PICK block : block = <<base, size>>
  BY Zenon
<1>7. Lawful(owned \cup {block}) /\ block \notin owned
  BY <1>2, <1>3, <1>4, <1>6, MoreLawful
<1>8. \A c \in DOMAIN block_list : base + size <= c \/ End(block_list[c]) <= base
  <2>1. block \notin Ranges(block_list) /\ block[1] = base /\ block[2] = size
    BY <1>4, <1>6, <1>7 DEF Partition
  <2>2. \A c \in DOMAIN block_list : block[1] + block[2] <= c \/ End(block_list[c]) <= block[1]
    BY <1>7, <2>1, ApartBlocks
  <2> QED
    BY <2>1, <2>2
<1>9. /\ AllSound(block_list')
      /\ Ranges(block_list') = Ranges(block_list) \cup {<<base, size>>}
      /\ free_list' = OfferedBy(block_list') /\ TakenBy(block_list') = live \cup {<<base, n>>}
      /\ InService(block_list') = InService(block_list) \cup (IF n > BlockSize THEN {} ELSE {base})
      /\ base \notin InService(block_list)
  BY <1>1, <1>3, <1>5, <1>8, StartBlockStep
<1>10. live' = TakenBy(block_list')
  BY <1>3, <1>9
<1>11. Partition(owned \cup {block}, Ranges(block_list'), Range(block_cache), {}, lost)
  <2>1. Ranges(block_list') = Ranges(block_list) \cup {block}
    BY <1>6, <1>9
  <2> QED
    BY <1>4, <1>7, <2>1 DEF Partition
<1>12. Cardinality(InService(block_list)) \in Nat /\ IsFiniteSet(InService(block_list))
  BY <1>4, InServiceFinite
<1>13. in_use_size \in Nat
  BY <1>1, <1>4, <1>12, Z3
<1>14. CASE n > BlockSize
  <2>1. Balance(in_use_size, block_cache, cache_size, {block}, {})
    BY <1>3, <1>6, <1>14
  <2>2. /\ block_cache \in Seq(Cacheable) /\ IsInjective(block_cache)
        /\ cache_size = BlockSize * Len(block_cache)
    BY <1>4 DEF CacheOK
  <2>3. /\ CacheOK(block_cache', cache_size', in_use_size) /\ in_use_size' = in_use_size
        /\ Partition(owned', Ranges(block_list'), Range(block_cache'), {}, lost')
        /\ owned' \subseteq owned \cup {block}
    BY <1>11, <1>13, <2>1, <2>2, BalanceKeeps, Zenon
  <2>4. Lawful(owned')
    BY <1>7, <2>3, LawfulFacts
  <2>5. InService(block_list') = InService(block_list)
    BY <1>9, <1>14
  <2>6. in_use_size' = BlockSize * Cardinality(InService(block_list'))
    BY <1>4, <2>3, <2>5
  <2> QED
    BY <1>9, <1>10, <2>3, <2>4, <2>6 DEF HeapInv
<1>15. CASE ~(n > BlockSize)
  <2>1. /\ owned' = owned \cup {block} /\ in_use_size' = in_use_size + size
        /\ block_cache' = block_cache /\ cache_size' = cache_size /\ lost' = lost
    BY <1>3, <1>6, <1>15
  <2>2. size = BlockSize
    BY <1>1, <1>5, <1>15
  <2>3. Cardinality(InService(block_list')) = Cardinality(InService(block_list)) + 1
    <3>1. InService(block_list') = InService(block_list) \cup {base}
      BY <1>9, <1>15
    <3> QED
      BY <1>9, <1>12, <3>1, FS_AddElement
  <2>4. in_use_size' = BlockSize * Cardinality(InService(block_list'))
    <3> DEFINE N == Cardinality(InService(block_list))
    <3>1. N \in Nat /\ in_use_size' = (BlockSize * N) + BlockSize
      BY <1>4, <1>12, <2>1, <2>2
    <3> HIDE DEF N
    <3>2. (BlockSize * N) + BlockSize = BlockSize * (N + 1)
      BY <1>1, <3>1, Z3
    <3> QED
      BY <2>3, <3>1, <3>2 DEF N
  <2>5. CacheOK(block_cache', cache_size', in_use_size')
    <3>1. /\ block_cache \in Seq(Cacheable) /\ IsInjective(block_cache)
          /\ cache_size = BlockSize * Len(block_cache)
          /\ Len(block_cache) <= 1 \/ cache_size <= 2 * in_use_size
      BY <1>4 DEF CacheOK
    <3>2. Len(block_cache) \in Nat
      BY <3>1
    <3>3. cache_size \in Nat
      BY <1>1, <3>1, <3>2, Z3
    <3>4. Len(block_cache) <= 1 \/ cache_size <= 2 * in_use_size'
      BY <1>1, <1>13, <2>1, <2>2, <3>1, <3>3
    <3> QED
      BY <2>1, <3>1, <3>4 DEF CacheOK
  <2>6. Lawful(owned') /\ Partition(owned', Ranges(block_list'), Range(block_cache'), {}, lost')
    BY <1>7, <1>11, <2>1
  <2> QED
    BY <1>9, <1>10, <2>4, <2>5, <2>6 DEF HeapInv
<1> QED
  BY <1>14, <1>15

\* free() finds the block that begins last at or before a, if there is one.
LEMMA BlockExists ==
  ASSUME AllSound(block_list), NEW a \in Nat, \E b \in DOMAIN block_list : b <= a
  PROVE  Block(a) \in DOMAIN block_list
<1> DEFINE T == {a - b : b \in {c \in DOMAIN block_list : c <= a}}
<1>1. \A c \in DOMAIN block_list : c \in Nat
  BY DEF AllSound
<1>2. T \subseteq Nat /\ T # {}
  BY <1>1
<1>3. PICK k \in T : \A j \in T : k <= j
  BY <1>2, HasMinimum, Zenon
<1>4. PICK b \in DOMAIN block_list : b <= a /\ k = a - b
  OBVIOUS
<1>5. ASSUME NEW c \in DOMAIN block_list, c <= a PROVE c <= b
  <2>1. a - c \in T
    BY <1>5
  <2>2. k <= a - c
    BY <1>3, <2>1
  <2> QED
    BY <1>1, <1>4, <2>2
<1>6. \E x \in DOMAIN block_list : x <= a /\ \A c \in DOMAIN block_list : c <= a => c <= x
  BY <1>4, <1>5
<1> QED
  BY <1>6, Zenon DEF Block

\* Every fragment handed out is found again, in its block.
LEMMA LiveFound ==
  ASSUME HeapInv, NEW r \in live
  PROVE  /\ Found(r[1]) /\ Block(r[1]) \in DOMAIN block_list /\ r[1] \in Nat
         /\ r \in Taken(block_list[Block(r[1])])
<1>1. PICK b \in DOMAIN block_list : r \in Taken(block_list[b])
  BY DEF HeapInv, TakenBy
<1>2. b \in Nat /\ End(block_list[b]) \in Nat /\ Sound(block_list[b], b, End(block_list[b]))
  BY BlockFacts, Zenon
<1>3. r[1] \in DOMAIN block_list[b] /\ r[1] \in b .. End(block_list[b]) - 1 /\ ~block_list[b][r[1]].free
  BY <1>1, <1>2, Within, Zenon
<1>4. Block(r[1]) = b
  BY <1>3, BlockOf DEF HeapInv
<1>5. b <= r[1] /\ r[1] \in Nat
  BY <1>2, <1>3
<1>6. Found(r[1])
  BY <1>3, <1>4, <1>5, Zenon DEF Found
<1> QED
  BY <1>1, <1>4, <1>5, <1>6

\* What is known of the fragment free() finds.
LEMMA FoundFacts ==
  ASSUME HeapInv, NEW a \in Nat, Found(a)
  PROVE  \E b \in DOMAIN block_list : Block(a) = b /\ a \in DOMAIN block_list[b] /\ ~block_list[b][a].free
  BY BlockExists DEF Found, HeapInv

\* The entries and fragments at a block's addresses are its own.
LEMMA OwnEntries ==
  ASSUME HeapInv, NEW b \in DOMAIN block_list, NEW a \in DOMAIN block_list[b]
  PROVE  /\ Around(block_list[b], a) \cap free_list \subseteq Offered(block_list[b])
         /\ \A r \in live : r[1] = a => r \in Taken(block_list[b])
         /\ Offered(block_list[b]) \subseteq free_list /\ Taken(block_list[b]) \subseteq live
<1>1. AllSound(block_list) /\ free_list = OfferedBy(block_list) /\ live = TakenBy(block_list)
  BY DEF HeapInv
<1>2. /\ \A r \in free_list : r[2] \in b .. End(block_list[b]) - 1 => r \in Offered(block_list[b])
      /\ \A r \in live : r[1] \in b .. End(block_list[b]) - 1 => r \in Taken(block_list[b])
  BY <1>1, Elsewhere
<1>3. \A c \in DOMAIN block_list[b] : c \in b .. End(block_list[b]) - 1
  BY BlockFacts, Zenon DEF Sound, Tiling
<1>4. ASSUME NEW x \in Around(block_list[b], a) PROVE x[2] \in DOMAIN block_list[b]
  <2>1. PICK c \in Lower(block_list[b], a) \cup Upper(block_list[b], a) : x = <<block_list[b][c].size, c>>
    BY DEF Around
  <2>2. c \in DOMAIN block_list[b]
    BY <2>1 DEF Lower, Upper
  <2> QED
    BY <2>1, <2>2
<1>5. Offered(block_list[b]) \subseteq free_list /\ Taken(block_list[b]) \subseteq live
  BY <1>1 DEF OfferedBy, TakenBy
<1> QED
  BY <1>2, <1>3, <1>4, <1>5

\* free() of the used fragment at a of the block b, which keeps others: m is merged at k.
FreedPart(b, a, k, m) ==
  /\ block_list' = [block_list EXCEPT ![b] = Put(m, k, Unused(m[k].size))]
  /\ free_list' = (free_list \ Around(block_list[b], a)) \cup {<<m[k].size, k>>}
  /\ live' = {r \in live : r[1] # a}
  /\ UNCHANGED <<block_cache, in_use_size, cache_size, owned, lost>>

\* free() of a fragment whose block keeps others.
LEMMA FreePartStep ==
  ASSUME HeapInv, NEW b \in DOMAIN block_list, NEW a \in DOMAIN block_list[b],
         ~block_list[b][a].free, ~block_list[b][a].discard, NEW k, NEW m,
         Tiling(m, b, End(block_list[b])), MergeDone(block_list[b], a, k, m), FreedPart(b, a, k, m)
  PROVE  HeapInv'
<1>1. b \in Nat /\ End(block_list[b]) \in Nat /\ Sound(block_list[b], b, End(block_list[b]))
  BY BlockFacts, Zenon
<1>2. PICK f, e, g : f = block_list[b] /\ e = End(block_list[b]) /\ g = Put(m, k, Unused(m[k].size))
  OBVIOUS
<1>3. /\ Sound(g, b, e) /\ g[b].discard = f[b].discard
      /\ Offered(g) = (Offered(f) \ Around(f, a)) \cup {<<m[k].size, k>>}
      /\ Taken(g) = {r \in Taken(f) : r[1] # a}
  <2>1. Sound(f, b, e) /\ Tiling(m, b, e) /\ MergeDone(f, a, k, m) /\ e \in Nat
    BY <1>1, <1>2, Zenon
  <2>2. a \in DOMAIN f /\ ~f[a].free /\ ~f[a].discard
    BY <1>2, Zenon
  <2>3. PartDone(f, b, e, a, k, m, g)
    BY <1>1, <1>2, <2>1, <2>2, PartlyFree, Zenon
  <2> QED
    BY <2>3, Zenon DEF PartDone
<1>4. Changed(block_list, block_list', b) /\ block_list'[b] = g
  BY <1>2 DEF Changed, FreedPart
<1>5. /\ Around(f, a) \cap free_list \subseteq Offered(f) /\ (\A r \in live : r[1] = a => r \in Taken(f))
      /\ Offered(f) \subseteq free_list /\ Taken(f) \subseteq live
  BY <1>2, OwnEntries
<1>6. free_list' = (free_list \ Offered(f)) \cup Offered(g)
  <2>1. free_list' = (free_list \ Around(f, a)) \cup {<<m[k].size, k>>}
    BY <1>2, Zenon DEF FreedPart
  <2> QED
    BY <1>3, <1>5, <2>1
<1>7. live' = (live \ Taken(f)) \cup Taken(g)
  <2>1. live' = {r \in live : r[1] # a}
    BY Zenon DEF FreedPart
  <2> QED
    BY <1>3, <1>5, <2>1
<1>8. OneBlock(b)
  BY <1>2, <1>3, <1>4, <1>6, <1>7, Zenon DEF OneBlock, FreedPart
<1> QED
  BY <1>8, OneBlockStep, Zenon

\* A block goes to the end of the cache.
LEMMA CacheMore ==
  ASSUME NEW q \in Seq(Cacheable), IsInjective(q), NEW block \in Cacheable, block \notin Range(q)
  PROVE  /\ Append(q, block) \in Seq(Cacheable) /\ IsInjective(Append(q, block))
         /\ Len(Append(q, block)) = Len(q) + 1 /\ Range(Append(q, block)) = Range(q) \cup {block}
<1>1. PICK z : z = Append(q, block)
  BY Zenon
<1>2. /\ z \in Seq(Cacheable) /\ Len(z) = Len(q) + 1 /\ z[Len(q) + 1] = block
      /\ \A i \in 1 .. Len(q) : z[i] = q[i]
  BY <1>1
<1>3. DOMAIN q = 1 .. Len(q) /\ DOMAIN z = 1 .. Len(q) + 1 /\ Len(q) \in Nat
  BY <1>2
<1>4. \A i \in 1 .. Len(q) : q[i] # block /\ \A j \in 1 .. Len(q) : q[i] = q[j] => i = j
  BY <1>3 DEF Range, IsInjective
<1>5. ASSUME NEW i \in 1 .. Len(q) + 1, NEW j \in 1 .. Len(q) + 1, z[i] = z[j] PROVE i = j
  <2>1. i = Len(q) + 1 \/ i \in 1 .. Len(q)
    BY <1>3
  <2>2. j = Len(q) + 1 \/ j \in 1 .. Len(q)
    BY <1>3
  <2> QED
    BY <1>2, <1>4, <1>5, <2>1, <2>2
<1>6. IsInjective(z)
  BY <1>3, <1>5, Zenon DEF IsInjective
<1>7. ASSUME NEW x \in Range(z) PROVE x \in Range(q) \cup {block}
  <2>1. PICK i \in 1 .. Len(q) + 1 : x = z[i]
    BY <1>3, <1>7, Zenon DEF Range
  <2>2. i = Len(q) + 1 \/ i \in 1 .. Len(q)
    BY <1>3
  <2> QED
    BY <1>2, <1>3, <2>1, <2>2 DEF Range
<1>8. ASSUME NEW x \in Range(q) PROVE x \in Range(z)
  <2>1. PICK i \in 1 .. Len(q) : x = q[i]
    BY <1>3, <1>8, Zenon DEF Range
  <2>2. i \in DOMAIN z /\ z[i] = x
    BY <1>2, <1>3, <2>1
  <2> QED
    BY <2>2, Zenon DEF Range
<1>9. block \in Range(z)
  <2>1. Len(q) + 1 \in DOMAIN z
    BY <1>3
  <2> QED
    BY <1>2, <2>1, Zenon DEF Range
<1> QED
  BY <1>1, <1>2, <1>6, <1>7, <1>8, <1>9

\* free() of the used fragment at a of the block b, which has no other, so that the whole
\* block leaves the heap.
FreedWhole(b, a, block) ==
  /\ block = <<b, End(block_list[b]) - b>>
  /\ block_list[b][b].discard = block_list[b][a].discard
  /\ ~block_list[b][a].discard => End(block_list[b]) - b = BlockSize
  /\ Offered(block_list[b]) \subseteq Around(block_list[b], a)
  /\ Taken(block_list[b]) = {<<a, block_list[b][a].size>>}
  /\ block_list' = Erase(block_list, b) /\ free_list' = free_list \ Around(block_list[b], a)
  /\ live' = {r \in live : r[1] # a}

\* What is left of the heap without the block b.
Without(b, block) ==
  /\ block \in Ranges(block_list) /\ b \in Bases /\ block[1] = b
  /\ AllSound(block_list') /\ Ranges(block_list') = Ranges(block_list) \ {block}
  /\ InService(block_list') = InService(block_list) \ {b}
  /\ free_list' = OfferedBy(block_list') /\ live' = TakenBy(block_list')

\* The entries of the block in the index and among the fragments handed out go with it.
LEMMA BlockLeaves ==
  ASSUME HeapInv, NEW b \in DOMAIN block_list, NEW a \in DOMAIN block_list[b], NEW block,
         FreedWhole(b, a, block)
  PROVE  Without(b, block)
<1>1. AllSound(block_list) /\ free_list = OfferedBy(block_list) /\ live = TakenBy(block_list)
  BY DEF HeapInv
<1>2. block = <<b, End(block_list[b]) - b>> /\ block_list' = Erase(block_list, b)
  BY Zenon DEF FreedWhole
<1>3. block \in Ranges(block_list) /\ b \in Bases
  BY <1>2, BlockFacts, Zenon
<1>4. Extra(block_list', block_list, b)
  BY <1>2, InsertErase, Zenon
<1>5. /\ AllSound(block_list')
      /\ OfferedBy(block_list') = OfferedBy(block_list) \ Offered(block_list[b])
      /\ TakenBy(block_list') = TakenBy(block_list) \ Taken(block_list[b])
      /\ Ranges(block_list') = Ranges(block_list) \ {<<b, End(block_list[b]) - b>>}
      /\ InService(block_list') = InService(block_list) \ {b}
  BY <1>1, <1>4, Removed, SMTT(20)
<1>6. /\ Around(block_list[b], a) \cap free_list \subseteq Offered(block_list[b])
      /\ \A r \in live : r[1] = a => r \in Taken(block_list[b])
  BY OwnEntries, Zenon
<1>7. free_list' = OfferedBy(block_list')
  <2>1. free_list' = free_list \ Around(block_list[b], a) /\ Offered(block_list[b]) \subseteq Around(block_list[b], a)
    BY Zenon DEF FreedWhole
  <2> QED
    BY <1>1, <1>5, <1>6, <2>1
<1>8. live' = TakenBy(block_list')
  <2>1. live' = {r \in live : r[1] # a} /\ Taken(block_list[b]) = {<<a, block_list[b][a].size>>}
    BY Zenon DEF FreedWhole
  <2>2. \A r \in Taken(block_list[b]) : r[1] = a
    BY <2>1
  <2> QED
    BY <1>1, <1>5, <1>6, <2>1, <2>2
<1>9. block[1] = b
  BY <1>2
<1> QED
  BY <1>2, <1>3, <1>5, <1>7, <1>8, <1>9, Zenon DEF Without

\* The invariant without the block, once balance() has dealt with the cache.
LEMMA WithoutStep ==
  ASSUME HeapInv, NEW b, NEW block, Without(b, block), NEW in_use,
         CacheOK(block_cache', cache_size', in_use), in_use_size' = in_use,
         in_use = BlockSize * Cardinality(InService(block_list')),
         Partition(owned', Ranges(block_list'), Range(block_cache'), {}, lost'),
         owned' \subseteq owned \cup {}
  PROVE  HeapInv'
<1>1. Lawful(owned')
  <2>1. Lawful(owned) /\ owned' \in SUBSET owned
    BY DEF HeapInv
  <2> QED
    BY <2>1, LawfulFacts, Zenon
<1> QED
  BY <1>1, Zenon DEF HeapInv, Without

\* A discarded block is released.
LEMMA FreeDiscardedStep ==
  ASSUME HeapInv, NEW b, NEW block, Without(b, block), b \notin InService(block_list),
         Balance(in_use_size, block_cache, cache_size, {}, {block})
  PROVE  HeapInv'
<1>1. /\ AllSound(block_list) /\ block_cache \in Seq(Cacheable) /\ IsInjective(block_cache)
      /\ cache_size = BlockSize * Len(block_cache)
      /\ in_use_size = BlockSize * Cardinality(InService(block_list))
      /\ Partition(owned, Ranges(block_list), Range(block_cache), {}, lost)
  BY Zenon DEF HeapInv, CacheOK
<1>2. /\ block \in Ranges(block_list) /\ Ranges(block_list') = Ranges(block_list) \ {block}
      /\ InService(block_list') = InService(block_list) \ {b}
  BY Zenon DEF Without
<1>3. BlockSize \in Nat /\ Cardinality(InService(block_list)) \in Nat
  BY <1>1, InServiceFinite, BlockAssumption
<1>4. in_use_size \in Nat
  BY <1>1, <1>3, Z3
<1>5. Partition(owned \cup {}, Ranges(block_list'), Range(block_cache), {block}, lost)
  BY <1>1, <1>2 DEF Partition
<1>6. /\ CacheOK(block_cache', cache_size', in_use_size) /\ in_use_size' = in_use_size
      /\ Partition(owned', Ranges(block_list'), Range(block_cache'), {}, lost')
      /\ owned' \subseteq owned \cup {}
  BY <1>1, <1>4, <1>5, BalanceKeeps, Zenon
<1>7. in_use_size = BlockSize * Cardinality(InService(block_list'))
  BY <1>1, <1>2, Zenon
<1> QED
  BY <1>6, <1>7, WithoutStep, Zenon

\* A block of the default size goes to the end of the cache.
LEMMA FreeCachedStep ==
  ASSUME HeapInv, NEW b, NEW block, Without(b, block), b \in InService(block_list),
         block = <<b, BlockSize>>,
         Balance(in_use_size - block[2], Append(block_cache, block), cache_size + block[2], {}, {})
  PROVE  HeapInv'
<1>1. /\ AllSound(block_list) /\ block_cache \in Seq(Cacheable) /\ IsInjective(block_cache)
      /\ cache_size = BlockSize * Len(block_cache)
      /\ in_use_size = BlockSize * Cardinality(InService(block_list))
      /\ Partition(owned, Ranges(block_list), Range(block_cache), {}, lost)
  BY Zenon DEF HeapInv, CacheOK
<1>2. /\ block \in Ranges(block_list) /\ Ranges(block_list') = Ranges(block_list) \ {block}
      /\ AllSound(block_list') /\ InService(block_list') = InService(block_list) \ {b} /\ b \in Bases
  BY Zenon DEF Without
<1>3. BlockSize \in Nat /\ block[2] = BlockSize /\ block \in Cacheable
  BY <1>2, BlockAssumption DEF Cacheable
<1>4. PICK q, size, in_use : /\ q = Append(block_cache, block) /\ size = cache_size + block[2]
                             /\ in_use = in_use_size - block[2]
  BY Zenon
<1>5. Balance(in_use, q, size, {}, {})
  BY <1>4, Zenon
<1>6. block \notin Range(block_cache)
  BY <1>1, <1>2 DEF Partition
<1>7. /\ q \in Seq(Cacheable) /\ IsInjective(q)
      /\ Len(q) = Len(block_cache) + 1 /\ Range(q) = Range(block_cache) \cup {block}
  BY <1>1, <1>3, <1>4, <1>6, CacheMore, Zenon
<1>8. size = BlockSize * Len(q)
  <2>1. PICK l : l = Len(block_cache)
    BY Zenon
  <2>2. l \in Nat
    BY <1>1, <2>1
  <2>3. (BlockSize * l) + BlockSize = BlockSize * (l + 1)
    BY <1>3, <2>2, Z3
  <2> QED
    BY <1>1, <1>3, <1>4, <1>7, <2>1, <2>3
<1>9. PICK N, M : N = Cardinality(InService(block_list)) /\ M = Cardinality(InService(block_list'))
  BY Zenon
<1>10. M = N - 1 /\ N \in Nat /\ M \in Nat
  <2>1. IsFiniteSet(InService(block_list)) /\ N \in Nat /\ M \in Nat
    BY <1>1, <1>2, <1>9, InServiceFinite, Zenon
  <2>2. M = N - 1
    BY <1>2, <1>9, <2>1, FS_RemoveElement, Zenon
  <2> QED
    BY <2>1, <2>2, Zenon
<1>11. in_use = BlockSize * M
  <2>1. in_use = (BlockSize * N) - BlockSize
    BY <1>1, <1>3, <1>4, <1>9, Zenon
  <2>2. (BlockSize * N) - BlockSize = BlockSize * (N - 1)
    BY <1>3, <1>10, Z3
  <2> QED
    BY <1>10, <2>1, <2>2, Zenon
<1>12. in_use \in Nat
  BY <1>3, <1>10, <1>11, Z3
<1>13. Partition(owned \cup {}, Ranges(block_list'), Range(q), {}, lost)
  BY <1>1, <1>2, <1>6, <1>7, Zenon DEF Partition
<1>14. /\ CacheOK(block_cache', cache_size', in_use) /\ in_use_size' = in_use
       /\ Partition(owned', Ranges(block_list'), Range(block_cache'), {}, lost')
       /\ owned' \subseteq owned \cup {}
  BY <1>5, <1>7, <1>8, <1>12, <1>13, BalanceKeeps, Zenon
<1> QED
  BY <1>9, <1>11, <1>14, WithoutStep, Zenon

\* Where the block goes.
Dismissed(discard, block) ==
  IF discard
    THEN Balance(in_use_size, block_cache, cache_size, {}, {block})
    ELSE Balance(in_use_size - block[2], Append(block_cache, block), cache_size + block[2], {}, {})

\* free() of the last fragment of a block.
LEMMA FreeWholeStep ==
  ASSUME HeapInv, NEW b \in DOMAIN block_list, NEW a \in DOMAIN block_list[b], NEW block,
         FreedWhole(b, a, block), Dismissed(block_list[b][a].discard, block)
  PROVE  HeapInv'
<1>1. Without(b, block)
  BY BlockLeaves, Zenon
<1>2. CASE block_list[b][a].discard
  <2>1. b \notin InService(block_list)
    BY <1>2, Zenon DEF InService, FreedWhole
  <2>2. Balance(in_use_size, block_cache, cache_size, {}, {block})
    BY <1>2, Zenon DEF Dismissed
  <2> QED
    BY <1>1, <2>1, <2>2, FreeDiscardedStep, Zenon
<1>3. CASE ~block_list[b][a].discard
  <2>1. b \in InService(block_list)
    BY <1>3, Zenon DEF InService, FreedWhole
  <2>2. Balance(in_use_size - block[2], Append(block_cache, block), cache_size + block[2], {}, {})
    BY <1>3, Zenon DEF Dismissed
  <2>3. block = <<b, BlockSize>>
    BY <1>3, Zenon DEF FreedWhole
  <2> QED
    BY <1>1, <2>1, <2>2, <2>3, FreeCachedStep, Zenon
<1> QED
  BY <1>2, <1>3, Zenon

\* The two outcomes of free(), for the block b with fragments f, merged to m.
FreeCases(a, b, f, m, k, block) ==
  IF DOMAIN m = {k}
    THEN /\ block_list' = Erase(block_list, b)
         /\ free_list' = free_list \ Around(f, a)
         /\ Dismissed(f[a].discard, block)
    ELSE /\ block_list' = [block_list EXCEPT
              ![b] = IF f[a].discard THEN m ELSE Put(m, k, Unused(m[k].size))]
         /\ free_list' = IF f[a].discard THEN free_list \ Around(f, a)
                           ELSE (free_list \ Around(f, a)) \cup {<<m[k].size, k>>}
         /\ UNCHANGED <<block_cache, in_use_size, cache_size, owned, lost>>

\* free() of a fragment of the heap.
LEMMA FreeFragmentStep ==
  ASSUME HeapInv, NEW a \in Nat, Found(a), FreeFragment(a), live' = {r \in live : r[1] # a}
  PROVE  HeapInv'
<1>1. PICK b \in DOMAIN block_list : Block(a) = b /\ a \in DOMAIN block_list[b] /\ ~block_list[b][a].free
  BY FoundFacts
<1>2. b \in Nat /\ End(block_list[b]) \in Nat /\ Sound(block_list[b], b, End(block_list[b]))
  BY BlockFacts, Zenon
<1>3. PICK f, e, m, k : f = block_list[b] /\ e = End(block_list[b]) /\ m = Merge(f, a) /\ k = Key(f, a)
  OBVIOUS
<1>4. a \in DOMAIN f /\ ~f[a].free /\ Sound(f, b, e) /\ e \in Nat
  BY <1>1, <1>2, <1>3
<1>5. Tiling(m, b, e) /\ MergeDone(f, a, k, m)
  <2>1. Tiling(f, b, e) /\ Apart(f)
    BY <1>4 DEF Sound
  <2>2. Tiling(Merge(f, a), b, e) /\ MergeDone(f, a, Key(f, a), Merge(f, a))
    BY <1>2, <1>4, <2>1, MergeTiles
  <2> QED
    BY <1>3, <2>2
<1>6. PICK block : block = <<k, m[k].size>>
  BY Zenon
<1>7. FreeCases(a, b, f, m, k, block)
  <2>1. FreeCases(a, Block(a), block_list[Block(a)], Merge(block_list[Block(a)], a), Key(block_list[Block(a)], a),
                  <<Key(block_list[Block(a)], a), Merge(block_list[Block(a)], a)[Key(block_list[Block(a)], a)].size>>)
    BY Zenon DEF FreeFragment, FreeCases, Around, Dismissed
  <2> QED
    BY <1>1, <1>3, <1>6, <2>1, Zenon
<1>8. CASE DOMAIN m = {k}
  <2>1. /\ k = b /\ m[k].size = e - b
        /\ f[b].discard = f[a].discard /\ (~f[a].discard => e - b = BlockSize)
        /\ Offered(f) \subseteq Around(f, a) /\ Taken(f) = {<<a, f[a].size>>}
    <3>1. WholeDone(f, b, e, a, k, m)
      BY <1>2, <1>4, <1>5, <1>8, WholeBlock, Zenon
    <3> QED
      BY <3>1 DEF WholeDone
  <2>2. block = <<b, e - b>>
    BY <1>6, <2>1
  <2>3. /\ block_list' = Erase(block_list, b) /\ free_list' = free_list \ Around(f, a)
        /\ Dismissed(f[a].discard, block)
    BY <1>7, <1>8, Zenon DEF FreeCases
  <2>4. FreedWhole(b, a, block)
    BY <1>3, <2>1, <2>2, <2>3, Zenon DEF FreedWhole
  <2> QED
    BY <1>3, <1>4, <2>3, <2>4, FreeWholeStep, Zenon
<1>9. CASE DOMAIN m # {k}
  <2>1. ~f[a].discard
    BY <1>2, <1>4, <1>5, <1>9, DiscardedWhole, Zenon
  <2>2. /\ block_list' = [block_list EXCEPT ![b] = Put(m, k, Unused(m[k].size))]
        /\ free_list' = (free_list \ Around(f, a)) \cup {<<m[k].size, k>>}
        /\ UNCHANGED <<block_cache, in_use_size, cache_size, owned, lost>>
    BY <1>7, <1>9, <2>1, Zenon DEF FreeCases
  <2>3. FreedPart(b, a, k, m)
    BY <1>3, <2>2, Zenon DEF FreedPart
  <2> QED
    BY <1>3, <1>4, <1>5, <2>1, <2>3, FreePartStep, Zenon
<1> QED
  BY <1>8, <1>9

\* Addresses callers free are natural numbers.
LEMMA FreeableNat ==
  ASSUME HeapInv, NEW a \in Freeable
  PROVE  a \in Nat
<1>1. CASE a \in {r[1] : r \in live}
  BY <1>1, LiveFound
<1>2. CASE a \in Memory
  <2>1. PICK b \in Bases, n \in Sizes : a \in Pages(b, AlignUp(n, BlockSize))
    BY <1>2 DEF Memory
  <2>2. b \in Nat /\ n \in Nat \ {0} /\ BlockSize \in Nat \ {0}
    BY BlockAssumption
  <2>3. AlignUp(n, BlockSize) \in Nat
    BY <2>2, BlockHolds
  <2> QED
    BY <2>1, <2>2, <2>3 DEF Pages
<1> QED
  BY <1>1, <1>2 DEF Freeable

\* free(), of heap memory or of other origin.
LEMMA FreeStep ==
  ASSUME HeapInv, NEW a \in Freeable, Free(a)
  PROVE  HeapInv'
<1>1. a \in Nat
  BY FreeableNat
<1>2. CASE Found(a)
  BY <1>1, <1>2, FreeFragmentStep DEF Free
<1>3. CASE ~Found(a)
  <2>1. UNCHANGED <<heap, owned, lost>> /\ live' = {r \in live : r[1] # a}
    BY <1>3 DEF Free
  <2>2. \A r \in live : r[1] # a
    BY <1>3, LiveFound
  <2>3. live' = live
    BY <2>1, <2>2
  <2> QED
    BY <2>1, <2>3 DEF HeapInv, heap
<1> QED
  BY <1>2, <1>3

\* trim().
LEMMA TrimStep ==
  ASSUME HeapInv, Trim
  PROVE  HeapInv'
<1>1. /\ AllSound(block_list) /\ Lawful(owned) /\ Partition(owned, Ranges(block_list), Range(block_cache), {}, lost)
      /\ in_use_size = BlockSize * Cardinality(InService(block_list))
      /\ free_list = OfferedBy(block_list) /\ live = TakenBy(block_list)
  BY DEF HeapInv
<1>2. /\ block_cache' = <<>> /\ cache_size' = 0
      /\ free_list' = free_list /\ block_list' = block_list /\ in_use_size' = in_use_size /\ live' = live
  BY DEF Trim
<1>3. PICK kept \in SUBSET Range(block_cache) :
          owned' = owned \ (Range(block_cache) \ kept) /\ lost' = lost \cup kept
  BY Zenon DEF Trim, BlockFree
<1>4. Range(<<>>) = {} /\ IsInjective(<<>>) /\ <<>> \in Seq(Cacheable) /\ Len(<<>>) = 0
  BY DEF Range, IsInjective
<1>5. Partition(owned', Ranges(block_list'), Range(block_cache'), {}, lost')
  BY <1>1, <1>2, <1>3, <1>4 DEF Partition
<1>6. Lawful(owned')
  <2>1. owned' \in SUBSET owned
    BY <1>3
  <2> QED
    BY <1>1, <2>1, LawfulFacts
<1>7. CacheOK(block_cache', cache_size', in_use_size')
  <2>1. BlockSize * 0 = 0
    BY BlockAssumption
  <2> QED
    BY <1>2, <1>4, <2>1 DEF CacheOK
<1> QED
  BY <1>1, <1>2, <1>5, <1>6, <1>7 DEF HeapInv

\* Nothing is offered, held or counted without blocks.
LEMMA EmptyHeap ==
  /\ AllSound(Empty) /\ Ranges(Empty) = {} /\ OfferedBy(Empty) = {} /\ TakenBy(Empty) = {}
  /\ BlockSize * Cardinality(InService(Empty)) = 0 /\ CacheOK(<<>>, 0, 0) /\ Range(<<>>) = {}
<1>1. DOMAIN Empty = {}
  BY DEF Empty
<1>2. InService(Empty) = {} /\ Ranges(Empty) = {} /\ OfferedBy(Empty) = {} /\ TakenBy(Empty) = {}
  BY <1>1 DEF InService, Ranges, OfferedBy, TakenBy
<1>3. BlockSize * 0 = 0
  BY BlockAssumption
<1>4. Cardinality(InService(Empty)) = 0
  BY <1>2, FS_EmptySet
<1>5. AllSound(Empty)
  BY <1>1, FS_EmptySet DEF AllSound
<1>6. Range(<<>>) = {} /\ IsInjective(<<>>) /\ <<>> \in Seq(Cacheable) /\ Len(<<>>) = 0
  BY DEF Range, IsInjective
<1>7. CacheOK(<<>>, 0, 0)
  BY <1>3, <1>6 DEF CacheOK
<1> QED
  BY <1>2, <1>3, <1>4, <1>5, <1>6, <1>7

\* reset().
LEMMA ResetStep ==
  ASSUME HeapInv, Reset
  PROVE  HeapInv'
<1>1. Lawful(owned)
  BY DEF HeapInv
<1>2. Partition(owned, {}, {}, {}, owned)
  BY DEF Partition
<1> QED
  BY <1>1, <1>2, EmptyHeap, Zenon DEF Reset, HeapInv

\* The heap starts with no block.
LEMMA InitHeapInv == Init => HeapInv
<1> SUFFICES ASSUME Init PROVE HeapInv
  OBVIOUS
<1>1. Partition({}, {}, {}, {}, {}) /\ Lawful({})
  BY DEF Partition, Lawful
<1> QED
  BY <1>1, EmptyHeap, Zenon DEF Init, HeapInv

\* Every operation of the heap preserves the invariant.
LEMMA NextHeapInv ==
  ASSUME HeapInv, [Next]_vars
  PROVE  HeapInv'
<1>1. CASE UNCHANGED vars
  BY <1>1 DEF vars, heap, HeapInv
<1>2. ASSUME NEW n \in Sizes, Alloc(n) PROVE HeapInv'
  BY <1>2, AllocFragmentStep, AllocCachedStep, AllocBlockStep, Zenon DEF Alloc
<1>3. ASSUME NEW a \in Freeable, Free(a) PROVE HeapInv'
  BY <1>3, FreeStep
<1>4. CASE Trim
  BY <1>4, TrimStep
<1>5. CASE Reset
  BY <1>5, ResetStep
<1> QED
  BY <1>1, <1>2, <1>3, <1>4, <1>5, Zenon DEF Next

\* The invariant holds of every reachable state.
THEOREM HeapInvariance == Spec => []HeapInv
<1>1. HeapInv /\ [Next]_vars => HeapInv'
  BY NextHeapInv
<1> QED
  BY <1>1, InitHeapInv, PTL DEF Spec

-----------------------------------------------------------------------------
(* What the runs check. *)

\* Every block taken from the allocation map is in use, cached or dropped, and only one of
\* these, whatever alloc(), free(), balance(), trim() and reset() do and whatever release
\* is refused.
THEOREM BlocksSound == Spec => []BlocksAccounted
<1>1. HeapInv => BlocksAccounted
  <2> SUFFICES ASSUME HeapInv PROVE BlocksAccounted
    OBVIOUS
  <2>1. InUse = Ranges(block_list)
    BY DEF InUse, BlockRange, Ranges
  <2>2. Partition(owned, Ranges(block_list), Range(block_cache), {}, lost) /\ IsInjective(block_cache)
    BY DEF HeapInv, CacheOK
  <2> QED
    BY <2>1, <2>2 DEF Partition, BlocksAccounted
<1> QED
  BY <1>1, HeapInvariance, PTL

\* The fragments of every block tile it, no two free ones touch, and the used ones are those
\* handed out, which free() finds again.
THEOREM TilesSound == Spec => []Tiled
<1>1. HeapInv => Tiled
  <2> SUFFICES ASSUME HeapInv PROVE Tiled
    OBVIOUS
  <2>1. ASSUME NEW b \in DOMAIN block_list, NEW a \in DOMAIN block_list[b]
        PROVE  /\ a = b \/ \E c \in DOMAIN block_list[b] : /\ c + block_list[b][c].size = a
                                                        /\ ~(block_list[b][c].free /\ block_list[b][a].free)
               /\ ~block_list[b][a].free => <<a, block_list[b][a].size>> \in live
    <3>1. Sound(block_list[b], b, End(block_list[b]))
      BY BlockFacts, Zenon
    <3>2. ASSUME a # b PROVE \E c \in DOMAIN block_list[b] : After(block_list[b], c) = a
      BY <3>1, <3>2, Zenon DEF Sound, Tiling
    <3>3. \A c \in DOMAIN block_list[b] : After(block_list[b], c) = a => ~(block_list[b][c].free /\ block_list[b][a].free)
      BY <3>1, Zenon DEF Sound, Apart
    <3>4. Taken(block_list[b]) \subseteq live
      BY OwnEntries, Zenon
    <3>5. ~block_list[b][a].free => <<a, block_list[b][a].size>> \in live
      BY <3>4 DEF Taken
    <3> QED
      BY <3>2, <3>3, <3>5, Zenon DEF After
  <2>2. ASSUME NEW r \in live PROVE block_base(r[1]) # 0
    <3>1. Found(r[1]) /\ Block(r[1]) \in DOMAIN block_list
      BY LiveFound
    <3>2. Block(r[1]) \in Nat \ {0}
      BY <3>1, BlockFacts, Zenon
    <3> QED
      BY <3>1, <3>2 DEF block_base
  <2> QED
    BY <2>1, <2>2, Zenon DEF Tiled
<1> QED
  BY <1>1, HeapInvariance, PTL

\* The size index holds exactly the free fragments of the blocks that are not discarded.
THEOREM FreeListSound == Spec => []FreeListMatches
<1>1. HeapInv => FreeListMatches
  BY DEF HeapInv, FreeListMatches, OfferedBy
<1> QED
  BY <1>1, HeapInvariance, PTL

\* cache_size and in_use_size are what they are named for, and after every operation at most
\* one block or twice the memory in use is cached.
THEOREM CacheSound == Spec => []CacheBounded
<1>1. HeapInv => CacheBounded
  <2> SUFFICES ASSUME HeapInv PROVE CacheBounded
    OBVIOUS
  <2>1. /\ block_cache \in Seq(Cacheable) /\ cache_size = BlockSize * Len(block_cache)
        /\ Len(block_cache) <= 1 \/ cache_size <= 2 * in_use_size
        /\ in_use_size = BlockSize * Cardinality(InService(block_list)) /\ AllSound(block_list)
    BY DEF HeapInv, CacheOK
  <2>2. cache_size = Lengths(block_cache)
    BY <2>1, CacheLengths
  <2> DEFINE length == [b \in InService(block_list) |-> BlockRange(b)[2]]
  <2>3. ASSUME NEW b \in InService(block_list) PROVE BlockRange(b)[2] = BlockSize
    <3>1. b \in DOMAIN block_list /\ ~block_list[b][b].discard
      BY DEF InService
    <3>2. b \in Nat /\ End(block_list[b]) \in Nat /\ Sound(block_list[b], b, End(block_list[b]))
      BY <3>1, BlockFacts, Zenon
    <3>3. End(block_list[b]) = b + BlockSize
      BY <3>1, <3>2 DEF Sound, Marked
    <3>4. BlockSize \in Nat
      BY BlockAssumption
    <3>5. End(block_list[b]) - b = BlockSize
      BY <3>2, <3>3, <3>4
    <3> QED
      BY <3>5 DEF BlockRange
  <2>4. DOMAIN length = InService(block_list) /\ \A b \in InService(block_list) : length[b] = BlockSize
    BY <2>3
  <2>5. IsFiniteSet(InService(block_list)) /\ BlockSize \in Nat
    BY <2>1, InServiceFinite, BlockAssumption
  <2> HIDE DEF length
  <2>6. Total(length) = BlockSize * Cardinality(InService(block_list))
    BY <2>4, <2>5, TotalOfEqual
  <2>7. in_use_size = Total(length)
    BY <2>1, <2>6
  <2> QED
    BY <2>1, <2>2, <2>7 DEF length, InService, CacheBounded
<1> QED
  BY <1>1, HeapInvariance, PTL

-----------------------------------------------------------------------------
(* The heap implements SubSpace. *)

\* What the heap owns is memory, and every fragment handed out is inside it.
BackedNow == OwnedPages \in SUBSET Memory /\ Abstract!Cover(live) \subseteq OwnedPages

\* A fragment handed out is a fragment of a block.
LEMMA LiveFacts ==
  ASSUME HeapInv, NEW r \in live
  PROVE  \E b \in DOMAIN block_list :
           /\ r \in Taken(block_list[b]) /\ r[1] \in DOMAIN block_list[b]
           /\ r[2] = block_list[b][r[1]].size /\ ~block_list[b][r[1]].free
           /\ r[1] \in Nat /\ r[2] \in Nat \ {0} /\ b <= r[1] /\ r[1] + r[2] <= End(block_list[b])
<1>1. PICK b : b = Block(r[1])
  OBVIOUS
<1>2. b \in DOMAIN block_list /\ r \in Taken(block_list[b])
  BY <1>1, LiveFound, Zenon
<1>3. b \in Nat /\ End(block_list[b]) \in Nat /\ Sound(block_list[b], b, End(block_list[b]))
  BY <1>2, BlockFacts, Zenon
<1>4. /\ r[1] \in DOMAIN block_list[b] /\ r = <<r[1], block_list[b][r[1]].size>>
      /\ r[1] \in b .. End(block_list[b]) - 1
      /\ r[2] \in Nat \ {0} /\ r[1] + r[2] <= End(block_list[b]) /\ ~block_list[b][r[1]].free
  BY <1>2, <1>3, Within, Zenon
<1>5. r[2] = block_list[b][r[1]].size
  BY <1>4
<1>6. r[1] \in Nat /\ b <= r[1]
  BY <1>3, <1>4
<1> QED
  BY <1>2, <1>4, <1>5, <1>6, Zenon

\* The blocks in use are owned, so what is handed out is backed.
LEMMA LiveBacked ==
  ASSUME HeapInv
  PROVE  BackedNow
<1>1. Lawful(owned)
  BY DEF HeapInv
<1>2. ASSUME NEW x \in owned PROVE Pages(x[1], x[2]) \subseteq Memory
  <2>1. x[1] \in Bases /\ \E n \in Sizes : x[2] = AlignUp(n, BlockSize)
    BY <1>1 DEF Lawful
  <2> QED
    BY <2>1 DEF Memory
<1>3. OwnedPages \in SUBSET Memory
  BY <1>2 DEF OwnedPages
<1>4. ASSUME NEW r \in live PROVE Abstract!Pages(r[1], r[2]) \subseteq OwnedPages
  <2>1. PICK b \in DOMAIN block_list :
           r[1] \in Nat /\ r[2] \in Nat \ {0} /\ b <= r[1] /\ r[1] + r[2] <= End(block_list[b])
    BY LiveFacts
  <2>2. b \in Nat /\ End(block_list[b]) \in Nat /\ <<b, End(block_list[b]) - b>> \in owned
    BY BlockFacts, Zenon
  <2>3. Pages(b, End(block_list[b]) - b) \subseteq OwnedPages
    BY <2>2 DEF OwnedPages
  <2>4. Abstract!Pages(r[1], r[2]) \subseteq Pages(b, End(block_list[b]) - b)
    BY <2>1, <2>2 DEF Pages, Abstract!Pages
  <2> QED
    BY <2>3, <2>4
<1> QED
  BY <1>3, <1>4 DEF BackedNow, Abstract!Cover

\* The n pages from a on meet nothing that is handed out.
Clear(a, n) == \A r \in live : r[1] + r[2] <= a \/ a + n <= r[1]

\* What fits into a free fragment meets no used one.
LEMMA FreeIsClear ==
  ASSUME HeapInv, NEW b \in DOMAIN block_list, NEW a \in DOMAIN block_list[b],
         block_list[b][a].free, NEW n \in Nat, NEW p \in Nat, block_list[b][a].size >= n + p
  PROVE  Clear(a + p, n)
<1> SUFFICES ASSUME NEW r \in live PROVE r[1] + r[2] <= a + p \/ a + p + n <= r[1]
  BY DEF Clear
<1>1. PICK c \in DOMAIN block_list :
           /\ r[1] \in DOMAIN block_list[c] /\ r[2] = block_list[c][r[1]].size /\ ~block_list[c][r[1]].free
           /\ r[1] \in Nat /\ r[2] \in Nat \ {0} /\ c <= r[1] /\ r[1] + r[2] <= End(block_list[c])
  BY LiveFacts, Zenon
<1>2. b \in Nat /\ End(block_list[b]) \in Nat /\ Tiling(block_list[b], b, End(block_list[b]))
  BY BlockFacts, Zenon DEF Sound
<1>3. c \in Nat /\ End(block_list[c]) \in Nat
  BY BlockFacts, Zenon
<1>4. /\ a \in Nat /\ b <= a /\ block_list[b][a].size \in Nat \ {0}
      /\ a + block_list[b][a].size <= End(block_list[b])
  BY <1>2, Sized, Zenon DEF After
<1>5. PICK s \in Nat : s = block_list[b][a].size /\ s >= n + p
  BY <1>4
<1>6. CASE b = c
  <2>1. r[1] # a
    BY <1>1, <1>6, Zenon
  <2>2. (r[1] < a => r[1] + r[2] <= a) /\ (a < r[1] => a + s <= r[1])
    BY <1>1, <1>2, <1>5, <1>6, Zenon DEF Tiling, After
  <2> QED
    BY <1>1, <1>4, <1>5, <2>1, <2>2
<1>7. CASE b # c
  <2>1. End(block_list[b]) <= c \/ End(block_list[c]) <= b
    BY <1>7, Zenon DEF HeapInv, AllSound
  <2>2. a + s <= End(block_list[b])
    BY <1>4, <1>5
  <2> QED
    BY <1>1, <1>2, <1>3, <1>4, <1>5, <2>1, <2>2
<1> QED
  BY <1>6, <1>7

\* A block that is apart from all blocks in use meets nothing that is handed out.
LEMMA ApartIsClear ==
  ASSUME HeapInv, NEW base \in Nat, NEW size \in Nat, NEW n \in Nat, n <= size,
         \A c \in DOMAIN block_list : base + size <= c \/ End(block_list[c]) <= base
  PROVE  Clear(base, n)
<1> SUFFICES ASSUME NEW r \in live PROVE r[1] + r[2] <= base \/ base + n <= r[1]
  BY DEF Clear
<1>1. PICK c \in DOMAIN block_list :
           r[1] \in Nat /\ r[2] \in Nat \ {0} /\ c <= r[1] /\ r[1] + r[2] <= End(block_list[c])
  BY LiveFacts
<1>2. c \in Nat /\ End(block_list[c]) \in Nat
  BY BlockFacts, Zenon
<1>3. base + size <= c \/ End(block_list[c]) <= base
  OBVIOUS
<1> QED
  BY <1>1, <1>2, <1>3

\* One fragment more is handed out, aligned and clear of the others.
Placed(n) == \E a \in Nat : /\ n >= HugePage => a % HugePage = 0
                            /\ Clear(a, n)
                            /\ live' = live \cup {<<a, n>>}

\* alloc() from the free list: the padding aligns the fragment inside the free one.
LEMMA FragmentPlaced ==
  ASSUME HeapInv, NEW n \in Sizes, AllocFragment(n)
  PROVE  Placed(n)
<1>1. n \in Nat \ {0}
  BY BlockAssumption
<1>2. AllSound(block_list) /\ free_list = OfferedBy(block_list)
  BY DEF HeapInv
<1>3. PICK x \in Fits(n) : live' = live \cup {<<x[2] + Padding(x[2], n), n>>}
  BY Zenon DEF AllocFragment
<1>4. PICK b \in DOMAIN block_list : x \in Offered(block_list[b]) /\ x[1] >= n + Padding(x[2], n)
  BY <1>1, <1>2, FitsRoom
<1>5. b \in Nat /\ End(block_list[b]) \in Nat /\ Sound(block_list[b], b, End(block_list[b]))
  BY BlockFacts, Zenon
<1>6. /\ x[2] \in DOMAIN block_list[b] /\ x = <<block_list[b][x[2]].size, x[2]>>
      /\ x[2] \in b .. End(block_list[b]) - 1 /\ block_list[b][x[2]].free
  BY <1>4, <1>5, Within
<1>7. PICK a, p : a = x[2] /\ p = Padding(x[2], n)
  OBVIOUS
<1>8. a \in Nat /\ x[1] = block_list[b][a].size
  BY <1>5, <1>6, <1>7
<1>9. p \in Nat /\ (n >= HugePage => (a + p) % HugePage = 0)
  BY <1>1, <1>7, <1>8, PaddingAligns, Zenon
<1>10. a \in DOMAIN block_list[b] /\ block_list[b][a].free /\ block_list[b][a].size >= n + p
  BY <1>4, <1>6, <1>7, <1>8
<1>11. Clear(a + p, n)
  BY <1>1, <1>9, <1>10, FreeIsClear, Zenon
<1>12. live' = live \cup {<<a + p, n>>} /\ a + p \in Nat
  BY <1>3, <1>7, <1>8, <1>9
<1> QED
  BY <1>9, <1>11, <1>12 DEF Placed

\* alloc() with a cached block: blocks are aligned, and a cached one is not in use.
LEMMA CachedPlaced ==
  ASSUME HeapInv, NEW n \in Sizes, AllocCached(n)
  PROVE  Placed(n)
<1>1. n \in Nat \ {0} /\ BlockSize \in Nat
  BY BlockAssumption
<1>2. PICK q, block : q = block_cache /\ block = q[Len(q)]
  OBVIOUS
<1>3. n < BlockSize /\ q # <<>> /\ live' = live \cup {<<block[1], n>>}
  BY <1>2, Zenon DEF AllocCached
<1>4. /\ q \in Seq(Cacheable) /\ IsInjective(q) /\ Lawful(owned)
      /\ Partition(owned, Ranges(block_list), Range(q), {}, lost)
  BY <1>2 DEF HeapInv, CacheOK
<1>5. block \in Cacheable /\ block \in Range(q)
  BY <1>2, <1>3, <1>4, NewestCached, Zenon
<1>6. block[1] \in Nat /\ block[1] % HugePage = 0 /\ block[2] = BlockSize
  BY <1>5, BlockAssumption DEF Cacheable
<1>7. block \in owned /\ block \notin Ranges(block_list)
  BY <1>4, <1>5 DEF Partition
<1>8. \A c \in DOMAIN block_list : block[1] + block[2] <= c \/ End(block_list[c]) <= block[1]
  BY <1>4, <1>7, ApartBlocks
<1>9. n \in Nat /\ n <= block[2] /\ block[2] \in Nat
  BY <1>1, <1>3, <1>6
<1>10. Clear(block[1], n)
  BY <1>6, <1>8, <1>9, ApartIsClear
<1> QED
  BY <1>3, <1>6, <1>10 DEF Placed

\* alloc() with a new block: the allocation map places it apart from the blocks owned.
LEMMA BlockPlaced ==
  ASSUME HeapInv, NEW n \in Sizes, AllocBlock(n)
  PROVE  Placed(n)
<1>1. n \in Nat \ {0} /\ BlockSize \in Nat \ {0}
  BY BlockAssumption
<1>2. PICK size : size = AlignUp(n, BlockSize)
  OBVIOUS
<1>3. PICK base \in Bases : /\ \A b \in owned : Pages(base, size) \cap Pages(b[1], b[2]) = {}
                            /\ live' = live \cup {<<base, n>>}
  BY <1>2, Zenon DEF AllocBlock
<1>4. size \in Nat /\ n <= size
  <2>1. AlignUp(n, BlockSize) \in Nat /\ AlignUp(n, BlockSize) >= n
    BY <1>1, BlockHolds
  <2> QED
    BY <1>1, <1>2, <2>1
<1>5. base \in Nat /\ base % HugePage = 0
  BY BlockAssumption
<1>6. PICK block : block = <<base, size>>
  BY Zenon
<1>7. Lawful(owned) /\ Partition(owned, Ranges(block_list), Range(block_cache), {}, lost)
  BY DEF HeapInv
<1>8. Lawful(owned \cup {block}) /\ block \notin owned
  BY <1>2, <1>3, <1>6, <1>7, MoreLawful
<1>9. block \notin Ranges(block_list) /\ block[1] = base /\ block[2] = size
  BY <1>6, <1>7, <1>8 DEF Partition
<1>10. \A c \in DOMAIN block_list : block[1] + block[2] <= c \/ End(block_list[c]) <= block[1]
  BY <1>8, <1>9, ApartBlocks
<1>11. \A c \in DOMAIN block_list : base + size <= c \/ End(block_list[c]) <= base
  BY <1>9, <1>10
<1>12. Clear(base, n)
  BY <1>1, <1>4, <1>5, <1>11, ApartIsClear
<1> QED
  BY <1>3, <1>5, <1>12 DEF Placed

\* An allocation of the heap is one of SubSpace.
LEMMA AllocImplements ==
  ASSUME HeapInv, BackedNow', NEW n \in Sizes, Alloc(n)
  PROVE  Abstract!Alloc(n)
<1>1. n \in Nat \ {0}
  BY BlockAssumption
<1>2. Placed(n)
  BY FragmentPlaced, CachedPlaced, BlockPlaced, Zenon DEF Alloc
<1>3. PICK a \in Nat : (n >= HugePage => a % HugePage = 0) /\ Clear(a, n) /\ live' = live \cup {<<a, n>>}
  BY <1>2, Zenon DEF Placed
<1>4. OwnedPages' \in SUBSET Memory /\ Abstract!Cover(live') \subseteq OwnedPages'
  BY DEF BackedNow, Memory, Abstract!Cover
<1>5. a \in Memory
  <2>1. a \in Abstract!Pages(a, n)
    BY <1>1 DEF Abstract!Pages
  <2>2. <<a, n>> \in live' /\ <<a, n>>[1] = a /\ <<a, n>>[2] = n
    BY <1>3
  <2>3. Abstract!Pages(a, n) \subseteq Abstract!Cover(live')
    BY <2>2 DEF Abstract!Cover
  <2> QED
    BY <1>4, <2>1, <2>3
<1>6. Abstract!Pages(a, n) \cap Abstract!Cover(live) = {}
  <2>1. ASSUME NEW r \in live PROVE Abstract!Pages(a, n) \cap Abstract!Pages(r[1], r[2]) = {}
    <3>1. r[1] \in Nat /\ r[2] \in Nat
      BY LiveFacts
    <3>2. r[1] + r[2] <= a \/ a + n <= r[1]
      BY <1>3 DEF Clear
    <3> QED
      BY <1>1, <3>1, <3>2 DEF Abstract!Pages
  <2> QED
    BY <2>1 DEF Abstract!Cover
<1>7. Abstract!Backed
  BY <1>4 DEF Abstract!Backed
<1> QED
  BY <1>3, <1>5, <1>6, <1>7, Zenon DEF Abstract!Alloc

\* Every step of the heap is a step of SubSpace or leaves what it shows alone.
LEMMA StepImplements ==
  ASSUME HeapInv, BackedNow, BackedNow', [Next]_vars
  PROVE  [Abstract!Next]_(Abstract!vars)
<1>1. OwnedPages' \in SUBSET Memory /\ Abstract!Cover(live') \subseteq OwnedPages'
  BY DEF BackedNow, Memory, Abstract!Cover
<1>2. Abstract!Backed
  BY <1>1 DEF Abstract!Backed
<1>3. ASSUME NEW n \in Sizes, Alloc(n) PROVE Abstract!Next
  BY <1>3, AllocImplements, Zenon DEF Abstract!Next
<1>4. ASSUME NEW a \in Freeable, Free(a) PROVE Abstract!Next
  <2>1. live' = {r \in live : r[1] # a}
    BY <1>4, Zenon DEF Free
  <2>2. CASE a \in Memory
    BY <1>2, <2>1, <2>2, Zenon DEF Abstract!Next, Abstract!Free
  <2>3. CASE a \notin Memory
    <3>1. PICK r \in live : a = r[1]
      BY <2>3 DEF Freeable
    <3>2. r[1] \in Nat /\ r[2] \in Nat \ {0}
      BY LiveFacts
    <3>3. a \in Abstract!Pages(r[1], r[2])
      BY <3>1, <3>2 DEF Abstract!Pages
    <3>4. a \in Memory
      BY <3>3 DEF BackedNow, Abstract!Cover
    <3> QED
      BY <2>3, <3>4
  <2> QED
    BY <2>2, <2>3
<1>5. CASE Trim
  BY <1>2, <1>5 DEF Trim, Abstract!Next, Abstract!Trim
<1>6. CASE Reset
  <2>1. OwnedPages' = OwnedPages /\ live' = {}
    BY <1>6 DEF Reset, OwnedPages
  <2> QED
    BY <2>1 DEF Abstract!Next, Abstract!Forget
<1>7. CASE UNCHANGED vars
  BY <1>7 DEF vars, OwnedPages, Abstract!vars
<1> QED
  BY <1>3, <1>4, <1>5, <1>6, <1>7, Zenon DEF Next

\* The heap implements SubSpace: what alloc() returns is memory the process owns until it is
\* freed, disjoint from all that is held and aligned to a huge page when it is as large.
THEOREM Refinement == Spec => AbstractSpec
<1>1. Init => Abstract!Init
  BY DEF Init, OwnedPages, Abstract!Init
<1>2. HeapInv => BackedNow
  BY LiveBacked
<1>3. HeapInv /\ BackedNow /\ BackedNow' /\ [Next]_vars => [Abstract!Next]_(Abstract!vars)
  BY StepImplements
<1> QED
  BY <1>1, <1>2, <1>3, HeapInvariance, PTL DEF Spec, AbstractSpec, Abstract!Spec
=============================================================================
