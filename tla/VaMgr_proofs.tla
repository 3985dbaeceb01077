---------------------------- MODULE VaMgr_proofs ----------------------------
(***************************************************************************)
(* VaMgr keeps its invariants and implements VaSpace, for every heap,      *)
(* every set of sizes and every set of alignments, as long as no caller    *)
(* asks for an address.  An allocation cuts a piece out of one free        *)
(* fragment (IsCut); Free joins a used fragment with its free neighbours   *)
(* (IsMerged).  What these two do to a tiled map is shown once, for any    *)
(* map; the actions are instances of them.                                 *)
(***************************************************************************)
EXTENDS VaMgr, TLAPS

-----------------------------------------------------------------------------
(* Facts about % with a divisor that is not a literal, which the backends do not find by
   themselves. *)

\* Quotient and remainder recompose the dividend.
LEMMA DivMod ==
  ASSUME NEW n \in Nat \ {0}, NEW a \in Nat
  PROVE  /\ a \div n \in Nat
         /\ a % n \in 0 .. n - 1
         /\ a = (n * (a \div n)) + (a % n)
  BY Z3

\* Zero is the only multiple of n strictly between -n and n.
LEMMA NoMultiple ==
  ASSUME NEW n \in Nat \ {0}, NEW k \in Int, n * k < n, n * k > -n
  PROVE  k = 0
<1>1. ASSUME k >= 1 PROVE FALSE
  <2>1. n * k >= n * 1 BY <1>1, Z3
  <2>. QED BY <2>1, Z3
<1>2. ASSUME k <= -1 PROVE FALSE
  <2>1. n * k <= n * (-1) BY <1>2, Z3
  <2>. QED BY <2>1, Z3
<1>. QED BY <1>1, <1>2, Z3

\* A quotient and a remainder are determined by the dividend.
LEMMA DivModUnique ==
  ASSUME NEW n \in Nat \ {0}, NEW q \in Int, NEW r \in 0 .. n - 1,
         NEW p \in Int, NEW s \in 0 .. n - 1, (n * q) + r = (n * p) + s
  PROVE  q = p /\ r = s
<1>1. n * (q - p) = (n * q) - (n * p) BY Z3
<1>2. n * (q - p) = s - r BY <1>1, Z3
<1>3. q - p \in Int BY Z3
<1>4. q - p = 0 BY <1>2, <1>3, NoMultiple, Z3
<1>. QED BY <1>4, Z3

-----------------------------------------------------------------------------

\* A fragment of a well-formed map.
LEMMA FragFacts ==
  ASSUME NEW f, FragOK(f), NEW b \in DOMAIN f
  PROVE  /\ b \in Nat /\ f[b].size \in Nat \ {0} /\ f[b].free \in BOOLEAN
         /\ Start <= b /\ b < End /\ b + f[b].size <= End
         /\ f[b] \in Fragment
<1>1. f[b] \in Fragment /\ b \in Start .. End - 1 /\ b + f[b].size <= End
  BY DEF FragOK
<1>2. Start \in Nat /\ Size \in Nat
  BY HeapAssumption
<1>. QED BY <1>1, <1>2 DEF Fragment, End

-----------------------------------------------------------------------------
(* Cutting. *)

\* g is f with [addr, addr + n) cut out of the free fragment at b and marked used.
IsCut(f, g, b, addr, n) ==
  LET end == b + f[b].size
  IN /\ DOMAIN g = DOMAIN f \cup {addr} \cup (IF addr + n < end THEN {addr + n} ELSE {})
     /\ g = [c \in DOMAIN g |-> g[c]]
     /\ g[addr] = UsedFragment(n)
     /\ addr > b => g[b] = FreeFragment(addr - b)
     /\ addr + n < end => g[addr + n] = FreeFragment(end - addr - n)
     /\ \A c \in DOMAIN f : c # b => g[c] = f[c]

\* What an allocation cuts is a free fragment, and large enough.
MayCut(f, b, addr, n) ==
  /\ FragOK(f) /\ Tiles(f)
  /\ b \in DOMAIN f /\ f[b].free
  /\ addr \in Nat /\ n \in Nat \ {0}
  /\ b <= addr /\ addr + n <= b + f[b].size

\* Inside a fragment no other fragment starts.
LEMMA NoStartInside ==
  ASSUME NEW f, FragOK(f), Tiles(f), NEW b \in DOMAIN f, NEW c \in DOMAIN f, c # b
  PROVE  c + f[c].size <= b \/ b + f[b].size <= c
<1>1. b \in Nat /\ c \in Nat
  BY FragFacts
<1>2. c < b \/ b < c
  BY <1>1
<1>. QED BY <1>2 DEF Tiles

\* AllocImpl, at the base of a fragment (va_mgr.cpp 100-106).
LEMMA TakeFrontCuts ==
  ASSUME NEW f, NEW b, NEW n, MayCut(f, b, b, n)
  PROVE  IsCut(f, TakeFront(f, b, n), b, b, n)
<1> DEFINE g == Put(f, b, UsedFragment(n))
<1>1. /\ FragOK(f) /\ Tiles(f) /\ b \in DOMAIN f /\ n \in Nat \ {0} /\ b \in Nat
      /\ f[b].size \in Nat /\ n <= f[b].size
  BY FragFacts DEF MayCut
<1>2. /\ DOMAIN g = DOMAIN f /\ g[b] = UsedFragment(n)
      /\ \A c \in DOMAIN f : c # b => g[c] = f[c]
      /\ g = [c \in DOMAIN g |-> g[c]]
  BY <1>1 DEF Put
<1>3. CASE f[b].size > n
  <2> DEFINE h == Put(g, b + n, FreeFragment(f[b].size - n))
  <2>1. TakeFront(f, b, n) = h
    BY <1>3 DEF TakeFront
  <2>2. b + n \notin DOMAIN f
    <3>1. SUFFICES ASSUME b + n \in DOMAIN f PROVE FALSE
      OBVIOUS
    <3>2. b + n # b /\ b < b + n
      BY <1>1
    <3>3. b + f[b].size <= b + n
      BY <1>1, <3>1, <3>2 DEF Tiles
    <3>. QED BY <1>1, <1>3, <3>3
  <2>3. /\ DOMAIN h = DOMAIN g \cup {b + n} /\ h[b + n] = FreeFragment(f[b].size - n)
        /\ \A c \in DOMAIN g : c # b + n => h[c] = g[c]
        /\ h = [c \in DOMAIN h |-> h[c]]
    BY DEF Put
  <2> HIDE DEF h, g
  <2>4. b + n < b + f[b].size /\ (b + f[b].size) - b - n = f[b].size - n /\ ~(b > b)
    BY <1>1, <1>3
  <2>5. /\ DOMAIN h = DOMAIN f \cup {b} \cup {b + n} /\ h[b] = UsedFragment(n)
        /\ \A c \in DOMAIN f : c # b => h[c] = f[c]
    BY <1>1, <1>2, <2>2, <2>3
  <2>. QED BY <2>1, <2>3, <2>4, <2>5 DEF IsCut
<1>4. CASE ~(f[b].size > n)
  <2>1. TakeFront(f, b, n) = g
    BY <1>4 DEF TakeFront
  <2>2. ~(b + n < b + f[b].size) /\ ~(b > b)
    BY <1>1, <1>4
  <2> HIDE DEF g
  <2>. QED BY <1>1, <1>2, <2>1, <2>2 DEF IsCut
<1>. QED BY <1>3, <1>4

\* AllocImpl, inside a fragment (va_mgr.cpp 111-122).
LEMMA TakeMiddleCuts ==
  ASSUME NEW f, NEW b, NEW addr, NEW n, MayCut(f, b, addr, n), addr > b
  PROVE  IsCut(f, TakeMiddle(f, b, addr, n), b, addr, n)
<1> DEFINE u == Put(f, addr, UsedFragment(n))
           g == Put(u, b, FreeFragment(addr - b))
           rest == f[b].size - (addr - b) - n
<1>1. /\ FragOK(f) /\ Tiles(f) /\ b \in DOMAIN f /\ n \in Nat \ {0} /\ b \in Nat /\ addr \in Nat
      /\ f[b].size \in Nat /\ addr + n <= b + f[b].size /\ b < addr
  BY FragFacts DEF MayCut
<1>2. /\ DOMAIN u = DOMAIN f \cup {addr} /\ u[addr] = UsedFragment(n)
      /\ \A c \in DOMAIN f : c # addr => u[c] = f[c]
  BY DEF Put
<1>3. /\ DOMAIN g = DOMAIN u \cup {b} /\ g[b] = FreeFragment(addr - b)
      /\ \A c \in DOMAIN u : c # b => g[c] = u[c]
      /\ g = [c \in DOMAIN g |-> g[c]]
  BY DEF Put
<1>4. addr \notin DOMAIN f
  <2>1. SUFFICES ASSUME addr \in DOMAIN f PROVE FALSE
    OBVIOUS
  <2>2. b + f[b].size <= addr
    BY <1>1, <2>1 DEF Tiles
  <2>. QED BY <1>1, <2>2
<1> HIDE DEF u
<1>5. addr # b
  BY <1>1
<1>6. /\ DOMAIN g = DOMAIN f \cup {addr} /\ g[addr] = UsedFragment(n)
      /\ \A c \in DOMAIN f : c # b => g[c] = f[c]
  BY <1>1, <1>2, <1>3, <1>4, <1>5
<1>7. CASE rest > 0
  <2> DEFINE h == Put(g, addr + n, FreeFragment(rest))
  <2>1. TakeMiddle(f, b, addr, n) = h
    BY <1>7 DEF TakeMiddle, u
  <2>0. rest = f[b].size - (addr - b) - n
    OBVIOUS
  <2> HIDE DEF g, rest
  <2>2. addr + n < b + f[b].size /\ (b + f[b].size) - addr - n = rest /\ addr + n # addr /\ addr + n # b
    BY <1>1, <1>7, <2>0
  <2>3. addr + n \notin DOMAIN f
    <3>1. SUFFICES ASSUME addr + n \in DOMAIN f PROVE FALSE
      OBVIOUS
    <3>2. b < addr + n
      BY <1>1
    <3>3. b + f[b].size <= addr + n
      BY <1>1, <3>1, <3>2 DEF Tiles
    <3>. QED BY <1>1, <2>2, <3>3
  <2>4. /\ DOMAIN h = DOMAIN g \cup {addr + n} /\ h[addr + n] = FreeFragment(rest)
        /\ \A c \in DOMAIN g : c # addr + n => h[c] = g[c]
        /\ h = [c \in DOMAIN h |-> h[c]]
    BY DEF Put
  <2> HIDE DEF h
  <2>5. /\ DOMAIN h = DOMAIN f \cup {addr} \cup {addr + n} /\ h[addr] = UsedFragment(n)
        /\ h[b] = FreeFragment(addr - b)
        /\ \A c \in DOMAIN f : c # b => h[c] = f[c]
    BY <1>1, <1>3, <1>6, <2>2, <2>3, <2>4
  <2>. QED BY <2>1, <2>2, <2>4, <2>5 DEF IsCut
<1>8. CASE ~(rest > 0)
  <2>1. TakeMiddle(f, b, addr, n) = g
    BY <1>8 DEF TakeMiddle, u
  <2>2. ~(addr + n < b + f[b].size)
    BY <1>1, <1>8
  <2> HIDE DEF g
  <2>. QED BY <1>3, <1>6, <2>1, <2>2 DEF IsCut
<1>. QED BY <1>7, <1>8

\* The fragments of a map that was cut: old ones outside the fragment at b, and pieces of it.
LEMMA CutPieces ==
  ASSUME NEW f, NEW g, NEW b, NEW addr, NEW n, MayCut(f, b, addr, n), IsCut(f, g, b, addr, n),
         NEW x \in DOMAIN g
  PROVE  \/ /\ x \in DOMAIN f /\ x # b /\ g[x] = f[x]
            /\ x + f[x].size <= b \/ b + f[b].size <= x
         \/ x = b /\ b < addr /\ g[x] = FreeFragment(addr - b)
         \/ x = addr /\ g[x] = UsedFragment(n)
         \/ /\ x = addr + n /\ x < b + f[b].size
            /\ g[x] = FreeFragment((b + f[b].size) - addr - n)
<1>1. b \in Nat /\ addr \in Nat /\ b <= addr /\ b \in DOMAIN f /\ FragOK(f) /\ Tiles(f)
  BY FragFacts DEF MayCut
<1>2. CASE x \in DOMAIN f /\ x # b
  BY <1>1, <1>2, NoStartInside DEF IsCut
<1>3. CASE x = b
  <2>1. b < addr \/ b = addr
    BY <1>1
  <2>. QED BY <1>3, <2>1 DEF IsCut
<1>4. CASE x = addr
  BY <1>4 DEF IsCut
<1>5. CASE x = addr + n /\ addr + n < b + f[b].size
  BY <1>5 DEF IsCut
<1>. QED BY <1>2, <1>3, <1>4, <1>5 DEF IsCut

\* The numbers of a cut.
LEMMA CutNumbers ==
  ASSUME NEW f, NEW b, NEW addr, NEW n, MayCut(f, b, addr, n)
  PROVE  /\ b \in Nat /\ addr \in Nat /\ n \in Nat \ {0} /\ f[b].size \in Nat \ {0}
         /\ b <= addr /\ addr + n <= b + f[b].size
         /\ Start \in Nat /\ Size \in Nat /\ End = Start + Size
         /\ Start <= b /\ b + f[b].size <= End
         /\ FragOK(f) /\ Tiles(f) /\ b \in DOMAIN f /\ f[b].free
  BY FragFacts, HeapAssumption DEF MayCut, End

\* A cut map is well formed and tiles the heap.
LEMMA CutTiles ==
  ASSUME NEW f, NEW g, NEW b, NEW addr, NEW n, MayCut(f, b, addr, n), IsCut(f, g, b, addr, n)
  PROVE  FragOK(g) /\ Tiles(g)
<1> DEFINE s == f[b].size
<1>1. /\ b \in Nat /\ addr \in Nat /\ n \in Nat \ {0} /\ s \in Nat \ {0}
      /\ b <= addr /\ addr + n <= b + s /\ Start \in Nat /\ Size \in Nat /\ End = Start + Size
      /\ Start <= b /\ b + s <= End /\ FragOK(f) /\ Tiles(f) /\ b \in DOMAIN f
  BY CutNumbers
<1>2. ASSUME NEW x \in DOMAIN g
      PROVE  /\ x \in Start .. End - 1 /\ g[x] \in Fragment /\ x + g[x].size <= End
             /\ g[x].size \in Nat \ {0}
  <2>1. CASE x \in DOMAIN f /\ g[x] = f[x]
    <3>1. x \in Nat /\ Start <= x /\ x < End
      BY <1>1, <2>1, FragFacts
    <3>. QED BY <1>1, <2>1, <3>1, FragFacts
  <2>2. CASE x = b /\ b < addr /\ g[x] = FreeFragment(addr - b)
    BY <1>1, <2>2 DEF Fragment, FreeFragment
  <2>3. CASE x = addr /\ g[x] = UsedFragment(n)
    BY <1>1, <2>3 DEF Fragment, UsedFragment
  <2>4. CASE /\ x = addr + n /\ x < b + s
             /\ g[x] = FreeFragment((b + s) - addr - n)
    BY <1>1, <2>4 DEF Fragment, FreeFragment
  <2>. QED BY <2>1, <2>2, <2>3, <2>4, CutPieces
<1>3. FragOK(g)
  <2>1. g = [c \in DOMAIN g |-> g[c]]
    BY DEF IsCut
  <2>2. \A x \in DOMAIN g : g[x] \in Fragment
    BY <1>2
  <2>3. g \in [DOMAIN g -> Fragment]
    BY <2>1, <2>2
  <2>. QED BY <1>2, <2>3 DEF FragOK
<1>4. ASSUME NEW x \in DOMAIN g
      PROVE  \/ /\ x \in DOMAIN f /\ x # b /\ g[x].size = f[x].size
                /\ x + f[x].size <= b \/ b + s <= x
             \/ x = b /\ b < addr /\ g[x].size = addr - b
             \/ x = addr /\ g[x].size = n
             \/ x = addr + n /\ x < b + s /\ g[x].size = (b + s) - addr - n
  BY CutPieces DEF FreeFragment, UsedFragment
<1>5. ASSUME NEW x \in DOMAIN g, NEW y \in DOMAIN g, x < y
      PROVE  x + g[x].size <= y
  <2>0. x \in Nat /\ y \in Nat /\ g[x].size \in Nat /\ g[y].size \in Nat \ {0}
    BY <1>1, <1>2
  <2>1. CASE x \in DOMAIN f /\ y \in DOMAIN f /\ g[x].size = f[x].size
    BY <1>1, <1>5, <2>1 DEF Tiles
  <2>2. CASE /\ x \in DOMAIN f /\ g[x].size = f[x].size
             /\ x + f[x].size <= b \/ b + s <= x
             /\ b <= y /\ y < b + s
    <3>1. f[x].size \in Nat
      BY <1>1, <2>2, FragFacts
    <3>. QED BY <1>1, <1>5, <2>0, <2>2, <3>1
  <2>3. CASE b <= x /\ x + g[x].size <= b + s /\ y \in DOMAIN f /\ (y + g[y].size <= b \/ b + s <= y)
    BY <1>1, <1>5, <2>0, <2>3
  <2>4. CASE /\ b <= x /\ b <= y /\ y < b + s
             /\ \/ x = b /\ b < addr /\ g[x].size = addr - b
                \/ x = addr /\ g[x].size = n
                \/ x = addr + n /\ x < b + s /\ g[x].size = (b + s) - addr - n
             /\ \/ y = b \/ y = addr \/ y = addr + n
    BY <1>1, <1>5, <2>0, <2>4
  <2>5. \/ x \in DOMAIN f /\ g[x].size = f[x].size /\ (x + f[x].size <= b \/ b + s <= x)
        \/ /\ b <= x /\ x + g[x].size <= b + s
           /\ \/ x = b /\ b < addr /\ g[x].size = addr - b
              \/ x = addr /\ g[x].size = n
              \/ x = addr + n /\ x < b + s /\ g[x].size = (b + s) - addr - n
    BY <1>1, <1>4
  <2>6. \/ y \in DOMAIN f /\ (y + g[y].size <= b \/ b + s <= y)
        \/ b <= y /\ y < b + s /\ (y = b \/ y = addr \/ y = addr + n)
    BY <1>1, <1>4
  <2>. QED BY <2>1, <2>2, <2>3, <2>4, <2>5, <2>6
<1>6. ASSUME NEW a \in Start .. End - 1
      PROVE  \E x \in DOMAIN g : x <= a /\ a < x + g[x].size
  <2>1. PICK c \in DOMAIN f : c <= a /\ a < c + f[c].size
    BY <1>1 DEF Tiles
  <2>2. CASE c # b
    BY <2>1, <2>2 DEF IsCut
  <2>3. CASE c = b /\ a < addr
    <3>1. b < addr
      BY <1>1, <2>1, <2>3
    <3>2. b \in DOMAIN g /\ g[b].size = addr - b
      BY <1>1, <3>1 DEF IsCut, FreeFragment
    <3>3. a < b + (addr - b)
      BY <1>1, <2>3
    <3>. QED BY <2>1, <2>3, <3>2, <3>3
  <2>4. CASE c = b /\ addr <= a /\ a < addr + n
    <3>1. addr \in DOMAIN g /\ g[addr].size = n
      BY DEF IsCut, UsedFragment
    <3>. QED BY <2>4, <3>1
  <2>5. CASE c = b /\ addr + n <= a
    <3>1. addr + n < b + s
      BY <1>1, <2>1, <2>5
    <3>2. addr + n \in DOMAIN g /\ g[addr + n].size = (b + s) - addr - n
      BY <1>1, <3>1 DEF IsCut, FreeFragment
    <3>3. a < (addr + n) + ((b + s) - addr - n)
      BY <1>1, <2>1, <2>5
    <3>. QED BY <2>5, <3>2, <3>3
  <2>6. a < addr \/ (addr <= a /\ a < addr + n) \/ addr + n <= a
    BY <1>1
  <2>. QED BY <2>2, <2>3, <2>4, <2>5, <2>6
<1>. QED BY <1>3, <1>5, <1>6 DEF Tiles

\* Cutting a free fragment leaves no two free fragments side by side.
LEMMA CutSeparated ==
  ASSUME NEW f, NEW g, NEW b, NEW addr, NEW n, MayCut(f, b, addr, n), IsCut(f, g, b, addr, n),
         Separated(f)
  PROVE  Separated(g)
<1> DEFINE s == f[b].size
<1>1. /\ b \in Nat /\ addr \in Nat /\ n \in Nat \ {0} /\ s \in Nat \ {0}
      /\ b <= addr /\ addr + n <= b + s
      /\ FragOK(f) /\ Tiles(f) /\ b \in DOMAIN f /\ f[b].free
  BY CutNumbers
<1>2. SUFFICES ASSUME NEW x \in DOMAIN g, NEW y \in DOMAIN g, y = x + g[x].size,
                      g[x].free, g[y].free
               PROVE  FALSE
  BY DEF Separated
<1>3. ASSUME NEW z \in DOMAIN g, g[z].free
      PROVE  \/ /\ z \in DOMAIN f /\ z # b /\ f[z].free /\ g[z].size = f[z].size
                /\ z + f[z].size <= b \/ b + s <= z
                /\ z \in Nat /\ f[z].size \in Nat \ {0}
             \/ z = b /\ b < addr /\ g[z].size = addr - b
             \/ z = addr + n /\ z < b + s /\ g[z].size = (b + s) - addr - n
  <2>1. CASE z \in DOMAIN f /\ z # b /\ g[z] = f[z]
    BY <1>1, <1>3, <2>1, FragFacts, NoStartInside
  <2>. QED BY <1>3, <2>1, CutPieces DEF FreeFragment, UsedFragment
<1>4. CASE x \in DOMAIN f /\ f[x].free /\ g[x].size = f[x].size
           /\ (x + f[x].size <= b \/ b + s <= x) /\ x \in Nat /\ f[x].size \in Nat \ {0}
  <2>1. CASE y \in DOMAIN f /\ f[y].free
    BY <1>2, <1>4, <2>1 DEF Separated
  <2>2. CASE y = addr + n /\ y < b + s
    BY <1>1, <1>2, <1>4, <2>2
  <2>. QED BY <1>1, <1>2, <1>3, <2>1, <2>2
<1>5. CASE x = b /\ b < addr /\ g[x].size = addr - b
  <2>1. y = addr
    BY <1>1, <1>2, <1>5
  <2>. QED BY <1>2, <2>1 DEF IsCut, UsedFragment
<1>6. CASE x = addr + n /\ x < b + s /\ g[x].size = (b + s) - addr - n
  <2>1. y = b + s
    BY <1>1, <1>2, <1>6
  <2>2. y \in DOMAIN f /\ f[y].free
    BY <1>1, <1>2, <1>3, <2>1
  <2>. QED BY <1>1, <2>1, <2>2 DEF Separated
<1>. QED BY <1>2, <1>3, <1>4, <1>5, <1>6

\* The used fragments of a cut map: the old ones and the piece that was cut out.
LEMMA CutUsed ==
  ASSUME NEW f, NEW g, NEW b, NEW addr, NEW n, MayCut(f, b, addr, n), IsCut(f, g, b, addr, n)
  PROVE  UsedRanges(g) = UsedRanges(f) \cup {<<addr, n>>}
<1>1. b \in DOMAIN f /\ f[b].free
  BY CutNumbers
<1>2. ASSUME NEW x \in DOMAIN g, ~g[x].free
      PROVE  \/ x \in DOMAIN f /\ ~f[x].free /\ g[x].size = f[x].size
             \/ x = addr /\ g[x].size = n
  BY <1>2, CutPieces DEF FreeFragment, UsedFragment
<1>3. ASSUME NEW x \in DOMAIN f, ~f[x].free
      PROVE  x \in DOMAIN g /\ ~g[x].free /\ g[x].size = f[x].size
  BY <1>1, <1>3 DEF IsCut
<1>4. addr \in DOMAIN g /\ ~g[addr].free /\ g[addr].size = n
  BY DEF IsCut, UsedFragment
<1>. QED BY <1>2, <1>3, <1>4 DEF UsedRanges

\* The list entries of a cut map: the entry of the fragment goes, those of the free pieces
\* come.
LEMMA CutFree ==
  ASSUME NEW f, NEW g, NEW b, NEW addr, NEW n, MayCut(f, b, addr, n), IsCut(f, g, b, addr, n)
  PROVE  FreeEntries(g) = (FreeEntries(f) \ {<<f[b].size, b>>})
                            \cup (IF addr > b THEN {<<addr - b, b>>} ELSE {})
                            \cup (IF f[b].size - (addr - b) - n > 0
                                    THEN {<<f[b].size - (addr - b) - n, addr + n>>} ELSE {})
<1> DEFINE s == f[b].size
           rest == s - (addr - b) - n
<1>1. /\ b \in Nat /\ addr \in Nat /\ n \in Nat \ {0} /\ s \in Nat \ {0}
      /\ b \in DOMAIN f /\ f[b].free
  BY CutNumbers
<1>2. /\ rest = (b + s) - addr - n
      /\ rest > 0 <=> addr + n < b + s
      /\ addr > b <=> b < addr
  BY <1>1
<1> HIDE DEF rest
<1>3. ASSUME NEW x \in DOMAIN g, g[x].free
      PROVE  \/ x \in DOMAIN f /\ f[x].free /\ x # b /\ g[x].size = f[x].size
             \/ x = b /\ b < addr /\ g[x].size = addr - b
             \/ x = addr + n /\ addr + n < b + s /\ g[x].size = rest
  BY <1>2, <1>3, CutPieces DEF FreeFragment, UsedFragment
<1>4. ASSUME NEW x \in DOMAIN f, f[x].free, x # b
      PROVE  x \in DOMAIN g /\ g[x].free /\ g[x].size = f[x].size
  BY <1>4 DEF IsCut
<1>5. b < addr => b \in DOMAIN g /\ g[b].free /\ g[b].size = addr - b
  BY <1>1, <1>2 DEF IsCut, FreeFragment
<1>6. addr + n < b + s => addr + n \in DOMAIN g /\ g[addr + n].free /\ g[addr + n].size = rest
  BY <1>2 DEF IsCut, FreeFragment
<1>7. ASSUME NEW e \in FreeEntries(g)
      PROVE  e \in (FreeEntries(f) \ {<<s, b>>})
                      \cup (IF b < addr THEN {<<addr - b, b>>} ELSE {})
                      \cup (IF addr + n < b + s THEN {<<rest, addr + n>>} ELSE {})
  BY <1>3 DEF FreeEntries
<1>8. ASSUME NEW e \in (FreeEntries(f) \ {<<s, b>>})
                      \cup (IF b < addr THEN {<<addr - b, b>>} ELSE {})
                      \cup (IF addr + n < b + s THEN {<<rest, addr + n>>} ELSE {})
      PROVE  e \in FreeEntries(g)
  BY <1>4, <1>5, <1>6 DEF FreeEntries
<1>9. FreeEntries(g) = (FreeEntries(f) \ {<<s, b>>})
                      \cup (IF b < addr THEN {<<addr - b, b>>} ELSE {})
                      \cup (IF addr + n < b + s THEN {<<rest, addr + n>>} ELSE {})
  BY <1>7, <1>8
<1>. QED BY <1>2, <1>9 DEF rest

-----------------------------------------------------------------------------
(* Merging. *)

\* g is f with the fragments of [lo, hi), the used one at addr and free neighbours of it,
\* made one free fragment.
IsMerged(f, g, addr, lo, hi) ==
  /\ addr \in DOMAIN f /\ lo \in DOMAIN f /\ hi \in Nat
  /\ lo <= addr /\ addr + f[addr].size <= hi /\ hi <= End
  /\ DOMAIN g = {c \in DOMAIN f : c <= lo \/ hi <= c}
  /\ g = [c \in DOMAIN g |-> g[c]]
  /\ g[lo] = FreeFragment(hi - lo)
  /\ \A c \in DOMAIN g : c # lo => g[c] = f[c]
  /\ \A c \in DOMAIN f :
       lo <= c /\ c < hi => c + f[c].size <= hi /\ (c # addr => f[c].free)
  /\ \A c \in DOMAIN f : c + f[c].size = lo => ~f[c].free
  /\ hi \in DOMAIN f => ~f[hi].free

\* A merged map is well formed and tiles the heap.
LEMMA MergeTiles ==
  ASSUME NEW f, NEW g, NEW addr, NEW lo, NEW hi, FragOK(f), Tiles(f),
         IsMerged(f, g, addr, lo, hi)
  PROVE  FragOK(g) /\ Tiles(g)
<1>1. /\ addr \in Nat /\ f[addr].size \in Nat \ {0} /\ lo \in Nat /\ hi \in Nat
      /\ lo <= addr /\ addr + f[addr].size <= hi /\ hi <= End /\ Start <= lo
      /\ Start \in Nat /\ Size \in Nat /\ End = Start + Size
      /\ lo \in DOMAIN f
  BY FragFacts, HeapAssumption DEF IsMerged, End
<1>2. ASSUME NEW x \in DOMAIN g
      PROVE  /\ x \in DOMAIN f /\ x \in Nat /\ (x <= lo \/ hi <= x)
             /\ x # lo => g[x] = f[x]
             /\ x = lo => g[x] = FreeFragment(hi - lo)
  BY FragFacts DEF IsMerged
<1>3. ASSUME NEW x \in DOMAIN g
      PROVE  /\ x \in Start .. End - 1 /\ g[x] \in Fragment /\ x + g[x].size <= End
             /\ g[x].size \in Nat \ {0}
  <2>1. CASE x # lo
    <3>1. x \in Nat /\ Start <= x /\ x < End
      BY <1>2, FragFacts
    <3>. QED BY <1>1, <1>2, <2>1, <3>1, FragFacts
  <2>2. CASE x = lo
    <3>1. g[x] = [size |-> hi - lo, free |-> TRUE]
      BY <1>2, <2>2 DEF FreeFragment
    <3>2. hi - lo \in 1 .. Size /\ hi - lo \in Nat \ {0} /\ lo + (hi - lo) = hi
          /\ lo \in Start .. End - 1
      BY <1>1
    <3>. QED BY <1>1, <2>2, <3>1, <3>2 DEF Fragment
  <2>. QED BY <2>1, <2>2
<1>4. FragOK(g)
  <2>1. g = [c \in DOMAIN g |-> g[c]]
    BY DEF IsMerged
  <2>2. \A x \in DOMAIN g : g[x] \in Fragment
    BY <1>3
  <2>3. g \in [DOMAIN g -> Fragment]
    BY <2>1, <2>2
  <2>. QED BY <1>3, <2>3 DEF FragOK
<1>5. ASSUME NEW x \in DOMAIN g, NEW y \in DOMAIN g, x < y
      PROVE  x + g[x].size <= y
  <2>1. CASE x # lo
    BY <1>2, <1>5, <2>1 DEF Tiles
  <2>2. CASE x = lo
    <3>1. hi <= y /\ g[x].size = hi - lo
      BY <1>1, <1>2, <1>5, <2>2 DEF FreeFragment
    <3>. QED BY <1>1, <1>2, <2>2, <3>1
  <2>. QED BY <2>1, <2>2
<1>6. ASSUME NEW a \in Start .. End - 1
      PROVE  \E x \in DOMAIN g : x <= a /\ a < x + g[x].size
  <2>1. PICK c \in DOMAIN f : c <= a /\ a < c + f[c].size
    BY DEF Tiles
  <2>2. c \in Nat /\ f[c].size \in Nat
    BY <2>1, FragFacts
  <2>3. CASE c < lo \/ hi <= c
    <3>1. c \in DOMAIN g /\ c # lo
      BY <1>1, <2>2, <2>3, FragFacts DEF IsMerged
    <3>. QED BY <1>2, <2>1, <3>1
  <2>4. CASE lo <= c /\ c < hi
    <3>1. c + f[c].size <= hi
      BY <2>4 DEF IsMerged
    <3>2. lo \in DOMAIN g /\ g[lo].size = hi - lo
      BY <1>1 DEF IsMerged, FreeFragment
    <3>3. lo <= a /\ a < lo + (hi - lo)
      BY <1>1, <2>1, <2>2, <2>4, <3>1
    <3>. QED BY <3>2, <3>3
  <2>. QED BY <1>1, <2>2, <2>3, <2>4
<1>. QED BY <1>4, <1>5, <1>6 DEF Tiles

\* After a merge no two free fragments touch.
LEMMA MergeSeparated ==
  ASSUME NEW f, NEW g, NEW addr, NEW lo, NEW hi, FragOK(f), Tiles(f), Separated(f),
         IsMerged(f, g, addr, lo, hi)
  PROVE  Separated(g)
<1>1. SUFFICES ASSUME NEW x \in DOMAIN g, NEW y \in DOMAIN g, y = x + g[x].size,
                      g[x].free, g[y].free
               PROVE  FALSE
  BY DEF Separated
<1>2. /\ x \in DOMAIN f /\ y \in DOMAIN f /\ x \in Nat /\ y \in Nat /\ lo \in Nat /\ hi \in Nat
      /\ x # lo => g[x] = f[x] /\ f[x].size \in Nat \ {0}
      /\ y # lo => g[y] = f[y]
      /\ x = lo => g[x].size = hi - lo
  BY FragFacts DEF IsMerged, FreeFragment
<1>3. CASE x # lo /\ y # lo
  BY <1>1, <1>2, <1>3 DEF Separated
<1>4. CASE x # lo /\ y = lo
  BY <1>1, <1>2, <1>4 DEF IsMerged
<1>5. CASE x = lo
  <2>1. y = hi
    BY <1>1, <1>2, <1>5
  <2>2. lo # hi
    <3>1. lo <= addr /\ addr + f[addr].size <= hi /\ addr \in Nat /\ f[addr].size \in Nat \ {0}
      BY FragFacts DEF IsMerged
    <3>. QED BY <1>2, <3>1
  <2>. QED BY <1>1, <1>2, <2>1, <2>2 DEF IsMerged
<1>. QED BY <1>3, <1>4, <1>5

\* A merge takes the range at addr out of the used ones.
LEMMA MergeUsed ==
  ASSUME NEW f, NEW g, NEW addr, NEW lo, NEW hi, FragOK(f), Tiles(f), ~f[addr].free,
         IsMerged(f, g, addr, lo, hi)
  PROVE  UsedRanges(g) = {r \in UsedRanges(f) : r[1] # addr}
<1>1. ASSUME NEW x \in DOMAIN g, ~g[x].free
      PROVE  x \in DOMAIN f /\ ~f[x].free /\ g[x].size = f[x].size /\ x # addr
  <2>1. x # lo
    BY <1>1 DEF IsMerged, FreeFragment
  <2>2. /\ addr \in Nat /\ lo \in Nat /\ hi \in Nat /\ f[addr].size \in Nat \ {0}
        /\ lo <= addr /\ addr + f[addr].size <= hi
    BY FragFacts DEF IsMerged
  <2>3. x <= lo \/ hi <= x
    BY DEF IsMerged
  <2>4. x # addr
    BY <2>1, <2>2, <2>3
  <2>. QED BY <1>1, <2>1, <2>4 DEF IsMerged
<1>2. ASSUME NEW x \in DOMAIN f, ~f[x].free, x # addr
      PROVE  x \in DOMAIN g /\ ~g[x].free /\ g[x].size = f[x].size
  <2>1. x \in Nat /\ lo \in Nat /\ hi \in Nat /\ addr \in Nat /\ lo <= addr
        /\ f[addr].size \in Nat \ {0} /\ addr + f[addr].size <= hi
    BY FragFacts DEF IsMerged
  <2>2. ~(lo <= x /\ x < hi)
    BY <1>2 DEF IsMerged
  <2>3. (x <= lo \/ hi <= x) /\ x # lo
    BY <2>1, <2>2
  <2>. QED BY <1>2, <2>3 DEF IsMerged
<1>. QED BY <1>1, <1>2 DEF UsedRanges

\* A merge replaces the list entries of the free neighbours by one.
LEMMA MergeFree ==
  ASSUME NEW f, NEW g, NEW addr, NEW lo, NEW hi, FragOK(f), Tiles(f),
         IsMerged(f, g, addr, lo, hi)
  PROVE  FreeEntries(g) = {e \in FreeEntries(f) : e[2] \in DOMAIN g /\ e[2] # lo}
                            \cup {<<hi - lo, lo>>}
<1>1. lo \in DOMAIN g /\ g[lo].free /\ g[lo].size = hi - lo
  <2>1. lo \in DOMAIN f /\ lo \in Nat
    BY FragFacts DEF IsMerged
  <2>2. lo <= lo
    BY <2>1
  <2>. QED BY <2>1, <2>2 DEF IsMerged, FreeFragment
<1>2. \A x \in DOMAIN g : x # lo => x \in DOMAIN f /\ g[x] = f[x]
  BY DEF IsMerged
<1>. QED BY <1>1, <1>2 DEF FreeEntries

\* The fragment before a used one ends where that starts.
LEMMA LowerAdjacent ==
  ASSUME NEW f, FragOK(f), Tiles(f), NEW a \in DOMAIN f, NEW c \in DOMAIN f
  PROVE  IsLower(f, c, a) <=> c + f[c].size = a
<1>1. a \in Nat /\ c \in Nat /\ f[c].size \in Nat \ {0} /\ Start <= c /\ a < End /\ c < End
      /\ Start \in Nat /\ End \in Nat
  BY FragFacts, HeapAssumption DEF End
<1>2. ASSUME IsLower(f, c, a) PROVE c + f[c].size = a
  <2>1. c < a /\ c + f[c].size <= a
    BY <1>2 DEF IsLower, Tiles
  <2>2. a - 1 \in Start .. End - 1
    BY <1>1, <2>1
  <2>3. PICK d \in DOMAIN f : d <= a - 1 /\ a - 1 < d + f[d].size
    BY <2>2 DEF Tiles
  <2>4. d \in Nat /\ f[d].size \in Nat
    BY FragFacts
  <2>5. d < a
    BY <1>1, <2>3, <2>4
  <2>6. d <= c
    BY <1>2, <2>5 DEF IsLower
  <2>7. d = c
    <3>1. CASE d < c
      <4>1. d + f[d].size <= c
        BY <3>1 DEF Tiles
      <4>. QED BY <1>1, <2>1, <2>3, <2>4, <4>1
    <3>. QED BY <1>1, <2>4, <2>6, <3>1
  <2>. QED BY <1>1, <2>1, <2>3, <2>4, <2>7
<1>3. ASSUME c + f[c].size = a PROVE IsLower(f, c, a)
  <2>1. c < a
    BY <1>1, <1>3
  <2>2. ASSUME NEW d \in DOMAIN f, d < a PROVE d <= c
    <3>1. d \in Nat
      BY FragFacts
    <3>2. CASE c < d
      <4>1. c + f[c].size <= d
        BY <3>2 DEF Tiles
      <4>. QED BY <1>1, <1>3, <2>2, <3>1, <4>1
    <3>. QED BY <1>1, <3>1, <3>2
  <2>. QED BY <2>1, <2>2 DEF IsLower
<1>. QED BY <1>2, <1>3

\* The fragment after one starts where that ends.
LEMMA UpperAdjacent ==
  ASSUME NEW f, FragOK(f), Tiles(f), NEW a \in DOMAIN f, NEW c \in DOMAIN f
  PROVE  IsUpper(f, c, a) <=> c = a + f[a].size
<1>1. a \in Nat /\ c \in Nat /\ f[a].size \in Nat \ {0} /\ f[c].size \in Nat \ {0}
      /\ Start <= a /\ a < End /\ c < End /\ Start \in Nat /\ End \in Nat
  BY FragFacts, HeapAssumption DEF End
<1>2. ASSUME IsUpper(f, c, a) PROVE c = a + f[a].size
  <2>1. a < c /\ a + f[a].size <= c
    BY <1>1, <1>2 DEF IsUpper, Tiles
  <2>2. a + f[a].size \in Start .. End - 1
    BY <1>1, <2>1
  <2>3. PICK d \in DOMAIN f : d <= a + f[a].size /\ a + f[a].size < d + f[d].size
    BY <2>2 DEF Tiles
  <2>4. d \in Nat /\ f[d].size \in Nat
    BY FragFacts
  <2>5. d > a
    <3>1. CASE d < a
      <4>1. d + f[d].size <= a
        BY <3>1 DEF Tiles
      <4>. QED BY <1>1, <2>3, <2>4, <4>1
    <3>2. d # a
      BY <1>1, <2>3
    <3>. QED BY <1>1, <2>4, <3>1, <3>2
  <2>6. d >= c
    BY <1>2, <2>5 DEF IsUpper
  <2>. QED BY <1>1, <2>1, <2>3, <2>4, <2>6
<1>3. ASSUME c = a + f[a].size PROVE IsUpper(f, c, a)
  <2>1. c > a
    BY <1>1, <1>3
  <2>2. ASSUME NEW d \in DOMAIN f, d > a PROVE d >= c
    <3>1. d \in Nat /\ a < d
      BY <1>1, <2>2, FragFacts
    <3>2. a + f[a].size <= d
      BY <3>1 DEF Tiles
    <3>. QED BY <1>1, <1>3, <3>1, <3>2
  <2>. QED BY <2>1, <2>2 DEF IsUpper
<1>. QED BY <1>2, <1>3

\* h is f with the fragment at a joined to the free fragments from lo on.
LowMerged(f, h, a, lo) ==
  /\ lo \in DOMAIN f /\ lo <= a
  /\ DOMAIN h = {c \in DOMAIN f : c <= lo \/ a < c}
  /\ h = [c \in DOMAIN h |-> h[c]]
  /\ h[lo] \in [size : Nat, free : BOOLEAN] /\ h[lo].size = (a + f[a].size) - lo
  /\ \A c \in DOMAIN h : c # lo => h[c] = f[c]
  /\ \A c \in DOMAIN f : lo <= c /\ c < a => f[c].free
  /\ \A c \in DOMAIN f : c + f[c].size = lo => ~f[c].free

\* Free, merging the lower neighbour (va_mgr.cpp 136-147).
LEMMA LowerMerges ==
  ASSUME NEW f, FragOK(f), Tiles(f), Separated(f), NEW a \in DOMAIN f
  PROVE  LET low == FreeLower(f, a)
             lower == CHOOSE c \in low : TRUE
             key == IF low = {} THEN a ELSE lower
             base == IF low = {} THEN a ELSE a - f[lower].size
         IN LowMerged(f, MergeLower(f, a), a, key) /\ base = key
<1> DEFINE low == FreeLower(f, a)
           lower == CHOOSE c \in low : TRUE
<1>1. a \in Nat /\ f[a] \in Fragment /\ f[a].size \in Nat \ {0} /\ Size \in Nat
  BY FragFacts, HeapAssumption
<1>2. CASE low = {}
  <2>1. MergeLower(f, a) = f
    BY <1>2 DEF MergeLower
  <2>2. DOMAIN f = {c \in DOMAIN f : c <= a \/ a < c}
    <3>1. \A c \in DOMAIN f : c \in Nat
      BY FragFacts
    <3>2. \A c \in DOMAIN f : c <= a \/ a < c
      BY <1>1, <3>1
    <3>. QED BY <3>2
  <2>3. f = [c \in DOMAIN f |-> f[c]]
    BY DEF FragOK
  <2>4. f[a] \in [size : Nat, free : BOOLEAN] /\ f[a].size = (a + f[a].size) - a
    BY <1>1 DEF Fragment
  <2>5. ASSUME NEW c \in DOMAIN f, a <= c, c < a PROVE f[c].free
    BY <1>1, <2>5, FragFacts
  <2>6. ASSUME NEW c \in DOMAIN f, c + f[c].size = a PROVE ~f[c].free
    BY <1>2, <2>6, LowerAdjacent DEF FreeLower
  <2>7. LowMerged(f, f, a, a)
    BY <1>1, <2>2, <2>3, <2>4, <2>5, <2>6 DEF LowMerged
  <2>. QED BY <1>2, <2>1, <2>7
<1>3. CASE low # {}
  <2>1. lower \in low
    BY <1>3
  <2> HIDE DEF lower
  <2> DEFINE e == [c \in DOMAIN f \ {a} |-> f[c]]
             x == FreeFragment(f[lower].size + f[a].size)
             h == [c \in DOMAIN e \cup {lower} |-> IF c = lower THEN x ELSE e[c]]
  <2>2. MergeLower(f, a) = h
    BY <1>3 DEF MergeLower, Put, Erase, lower
  <2>3. lower \in DOMAIN f /\ f[lower].free /\ lower + f[lower].size = a
    BY <2>1, LowerAdjacent DEF FreeLower
  <2>4. lower \in Nat /\ f[lower].size \in Nat \ {0} /\ lower < a
    BY <1>1, <2>3, FragFacts
  <2>5. /\ DOMAIN h = DOMAIN f \ {a} /\ h[lower] = x
        /\ h = [c \in DOMAIN h |-> h[c]]
        /\ \A c \in DOMAIN h : c # lower => h[c] = f[c]
    BY <2>3, <2>4
  <2> HIDE DEF h
  <2>6. ASSUME NEW c \in DOMAIN f, c # lower, c # a PROVE c < lower \/ a < c
    BY <1>1, <2>3, <2>4, <2>6, NoStartInside, FragFacts
  <2>7. DOMAIN h = {c \in DOMAIN f : c <= lower \/ a < c}
    BY <1>1, <2>4, <2>5, <2>6, FragFacts
  <2>8. h[lower] \in [size : Nat, free : BOOLEAN] /\ h[lower].size = (a + f[a].size) - lower
    BY <1>1, <2>3, <2>4, <2>5 DEF FreeFragment
  <2>9. ASSUME NEW c \in DOMAIN f, lower <= c, c < a PROVE f[c].free
    BY <1>1, <2>3, <2>4, <2>6, <2>9, FragFacts
  <2>10. ASSUME NEW c \in DOMAIN f, c + f[c].size = lower PROVE ~f[c].free
    BY <2>3, <2>10 DEF Separated
  <2>11. LowMerged(f, h, a, lower)
    <3>1. lower <= a
      BY <1>1, <2>4
    <3>. QED BY <2>3, <2>5, <2>7, <2>8, <2>9, <2>10, <3>1 DEF LowMerged
  <2>12. a - f[lower].size = lower
    BY <1>1, <2>3, <2>4
  <2>. QED BY <1>3, <2>2, <2>11, <2>12 DEF lower
<1>. QED BY <1>2, <1>3

\* Free, merging the upper neighbour and marking the result free (va_mgr.cpp 149-161).
LEMMA UpperMerges ==
  ASSUME NEW f, FragOK(f), Tiles(f), Separated(f), NEW a \in DOMAIN f, NEW h, NEW lo,
         LowMerged(f, h, a, lo)
  PROVE  LET m == MergeUpper(h, lo)
             g == Put(m, lo, FreeFragment(m[lo].size))
         IN /\ DOMAIN m = DOMAIN g
            /\ \E hi \in Nat : IsMerged(f, g, a, lo, hi) /\ m[lo].size = hi - lo
<1> DEFINE m == MergeUpper(h, lo)
           g == Put(m, lo, FreeFragment(m[lo].size))
           up == {c \in DOMAIN h : IsUpper(h, c, lo) /\ h[c].free}
           end == a + f[a].size
<1>1. /\ a \in Nat /\ f[a].size \in Nat \ {0} /\ lo \in Nat /\ lo \in DOMAIN f /\ lo <= a
      /\ a + f[a].size <= End
  BY FragFacts DEF LowMerged
<1>2. /\ lo \in DOMAIN h /\ h[lo].size = end - lo
      /\ h[lo] \in [size : Nat, free : BOOLEAN]
      /\ h = [c \in DOMAIN h |-> h[c]]
      /\ \A c \in DOMAIN h : c # lo => h[c] = f[c]
  BY <1>1 DEF LowMerged
<1>3. ASSUME NEW c \in DOMAIN f, a < c PROVE end <= c
  BY <1>3 DEF Tiles
<1>4. ASSUME NEW c \in DOMAIN h
      PROVE  c \in up <=> c = end /\ f[c].free
  <2>1. c \in DOMAIN f /\ c \in Nat /\ (c <= lo \/ a < c)
    BY FragFacts DEF LowMerged
  <2>2. ASSUME IsUpper(h, c, lo) PROVE IsUpper(f, c, a) /\ c # lo
    <3>1. c > lo
      BY <2>2 DEF IsUpper
    <3>2. c > a
      BY <1>1, <2>1, <3>1
    <3>3. ASSUME NEW d \in DOMAIN f, d > a PROVE d >= c
      <4>1. d \in DOMAIN h /\ d > lo
        BY <1>1, <3>3, FragFacts DEF LowMerged
      <4>. QED BY <2>2, <4>1 DEF IsUpper
    <3>. QED BY <1>1, <2>1, <3>1, <3>2, <3>3 DEF IsUpper
  <2>3. ASSUME IsUpper(f, c, a) PROVE IsUpper(h, c, lo) /\ c # lo
    <3>1. c > a
      BY <2>3 DEF IsUpper
    <3>2. c > lo
      BY <1>1, <2>1, <3>1
    <3>3. ASSUME NEW d \in DOMAIN h, d > lo PROVE d >= c
      <4>1. d \in DOMAIN f /\ d > a
        BY <1>1, <3>3, FragFacts DEF LowMerged
      <4>. QED BY <2>3, <4>1 DEF IsUpper
    <3>. QED BY <1>1, <2>1, <3>2, <3>3 DEF IsUpper
  <2>4. IsUpper(f, c, a) <=> c = end
    BY <2>1, UpperAdjacent
  <2>. QED BY <1>2, <2>2, <2>3, <2>4
<1>5. CASE up = {}
  <2>1. m = h
    BY <1>5 DEF MergeUpper
  <2>2. /\ DOMAIN g = DOMAIN h /\ g[lo] = FreeFragment(end - lo)
        /\ g = [c \in DOMAIN g |-> g[c]]
        /\ \A c \in DOMAIN g : c # lo => g[c] = f[c]
    BY <1>2, <2>1 DEF Put
  <2> HIDE DEF g
  <2>3. ASSUME NEW c \in DOMAIN f
        PROVE  /\ c <= lo \/ a < c <=> c <= lo \/ end <= c
               /\ lo <= c /\ c < end => c + f[c].size <= end /\ (c # a => f[c].free)
    <3>1. c \in Nat /\ f[c].size \in Nat
      BY FragFacts
    <3>2. c < a => c + f[c].size <= a
      BY DEF Tiles
    <3>3. lo <= c /\ c < a => f[c].free
      BY DEF LowMerged
    <3>4. a < c <=> end <= c
      BY <1>1, <1>3, <3>1
    <3>5. c < a => c + f[c].size <= end
      BY <1>1, <3>1, <3>2
    <3>6. c < end => c < a \/ c = a
      BY <1>1, <3>1, <3>4
    <3>. QED BY <1>1, <3>3, <3>4, <3>5, <3>6
  <2>4. DOMAIN g = {c \in DOMAIN f : c <= lo \/ end <= c}
    BY <2>2, <2>3 DEF LowMerged
  <2>5. end \in DOMAIN f => ~f[end].free
    <3>1. end \in DOMAIN f => end \in DOMAIN h
      BY <1>1 DEF LowMerged
    <3>. QED BY <1>4, <1>5, <3>1
  <2>6. end \in Nat /\ end <= end
    BY <1>1
  <2>7. IsMerged(f, g, a, lo, end)
    BY <1>1, <2>2, <2>3, <2>4, <2>5, <2>6 DEF IsMerged, LowMerged
  <2>. QED BY <1>2, <2>1, <2>2, <2>6, <2>7 DEF g
<1>6. CASE up # {}
  <2> DEFINE u == CHOOSE c \in up : TRUE
             hi == end + f[end].size
  <2>1. u \in up /\ u \in DOMAIN h
    BY <1>6
  <2>2. u = end /\ f[end].free /\ end \in DOMAIN h
    BY <1>4, <2>1
  <2>3. /\ end \in DOMAIN f /\ end \in Nat /\ f[end].size \in Nat \ {0} /\ end + f[end].size <= End
        /\ end # lo /\ a < end
    BY <1>1, <2>2, FragFacts DEF LowMerged
  <2>4. h[end].size = f[end].size
    BY <1>2, <2>2, <2>3
  <2> DEFINE e == [c \in DOMAIN h \ {u} |-> h[c]]
             x == [h[lo] EXCEPT !.size = @ + h[u].size]
  <2>5. m = [c \in DOMAIN e \cup {lo} |-> IF c = lo THEN x ELSE e[c]]
    BY <1>6 DEF MergeUpper, Put, Erase
  <2> HIDE DEF u, m
  <2>6. x.size = hi - lo
    BY <1>1, <1>2, <2>2, <2>3, <2>4
  <2> HIDE DEF x
  <2>7. /\ DOMAIN m = DOMAIN h \ {end} /\ m[lo] = x /\ lo \in DOMAIN m
        /\ \A c \in DOMAIN m : c # lo => m[c] = f[c]
    BY <1>2, <2>2, <2>3, <2>5
  <2>8. /\ DOMAIN g = DOMAIN m /\ g[lo] = FreeFragment(hi - lo)
        /\ g = [c \in DOMAIN g |-> g[c]]
        /\ \A c \in DOMAIN g : c # lo => g[c] = f[c]
    BY <2>6, <2>7 DEF Put
  <2> HIDE DEF g
  <2>9. ASSUME NEW c \in DOMAIN f
        PROVE  /\ (c <= lo \/ a < c) /\ c # end <=> c <= lo \/ hi <= c
               /\ lo <= c /\ c < hi => c + f[c].size <= hi /\ (c # a => f[c].free)
    <3>1. c \in Nat /\ f[c].size \in Nat
      BY FragFacts
    <3>2. c < a => c + f[c].size <= a
      BY DEF Tiles
    <3>3. lo <= c /\ c < a => f[c].free
      BY DEF LowMerged
    <3>4. a < c <=> end <= c
      BY <1>1, <1>3, <3>1
    <3>5. end < c => hi <= c
      BY <2>3 DEF Tiles
    <3>6. CASE c < a
      BY <1>1, <2>3, <3>1, <3>2, <3>3, <3>6
    <3>7. CASE c = a
      BY <1>1, <2>3, <3>1, <3>7
    <3>8. CASE c = end
      BY <1>1, <2>2, <2>3, <3>1, <3>8
    <3>9. CASE end < c
      BY <1>1, <2>3, <3>1, <3>5, <3>9
    <3>. QED BY <1>1, <2>3, <3>1, <3>4, <3>6, <3>7, <3>8, <3>9
  <2>10. DOMAIN g = {c \in DOMAIN f : c <= lo \/ hi <= c}
    BY <2>7, <2>8, <2>9 DEF LowMerged
  <2>11. hi \in DOMAIN f => ~f[hi].free
    BY <2>2, <2>3 DEF Separated
  <2>12. hi \in Nat /\ hi <= End /\ end <= hi
    BY <2>3
  <2>13. IsMerged(f, g, a, lo, hi)
    BY <1>1, <2>8, <2>9, <2>10, <2>11, <2>12 DEF IsMerged, LowMerged
  <2>. QED BY <2>6, <2>7, <2>8, <2>12, <2>13 DEF g, m
<1>. QED BY <1>5, <1>6

-----------------------------------------------------------------------------
(* The actions. *)

\* AlignUp does not round down.
LEMMA AlignUpBound ==
  ASSUME NEW v \in Nat, NEW a \in Nat \ {0}
  PROVE  AlignUp(v, a) \in Nat /\ AlignUp(v, a) >= v
<1> DEFINE w == v + a - 1
           q == w \div a
<1>1. w \in Nat
  OBVIOUS
<1> HIDE DEF w
<1>2. q \in Nat /\ w % a \in 0 .. a - 1 /\ w = (a * q) + (w % a)
  BY <1>1, DivMod
<1>3. q * a = a * q /\ a * q \in Nat
  BY <1>2, Z3
<1> HIDE DEF q
<1>4. q * a >= v
  BY <1>2, <1>3 DEF w
<1>. QED BY <1>3, <1>4 DEF AlignUp, q, w

\* The address AllocImpl computes in an unaligned fragment (va_mgr.cpp 111) is aligned.
LEMMA AlignedBase ==
  ASSUME NEW x \in Nat, NEW a \in Nat \ {0}, x % a # 0
  PROVE  /\ x + a - (x % a) \in Nat /\ (x + a - (x % a)) % a = 0
         /\ x < x + a - (x % a) /\ x + a - (x % a) <= x + a
<1> DEFINE q == x \div a
           r == x % a
           y == x + a - r
<1>1. q \in Nat /\ r \in 0 .. a - 1 /\ x = (a * q) + r
  BY DivMod
<1> HIDE DEF q, r
<1>2. r # 0
  BY DEF r
<1>3. y \in Nat /\ x < y /\ y <= x + a
  BY <1>1, <1>2
<1>4. y \div a \in Nat /\ y % a \in 0 .. a - 1 /\ y = (a * (y \div a)) + (y % a)
  BY <1>3, DivMod
<1>5. a * (q + 1) = (a * q) + a /\ a * q \in Nat
  BY <1>1, Z3
<1>6. (a * (q + 1)) + 0 = y
  BY <1>1, <1>5
<1> DEFINE p == y \div a
           t == y % a
<1>7. p \in Int /\ t \in 0 .. a - 1 /\ (a * (q + 1)) + 0 = (a * p) + t
  BY <1>4, <1>6
<1> HIDE DEF p, t
<1>8. q + 1 \in Int /\ 0 \in 0 .. a - 1
  BY <1>1
<1>9. 0 = t
  BY <1>7, <1>8, DivModUnique
<1>. QED BY <1>3, <1>9 DEF t, r

\* An entry of the free list is a free fragment of the size it says (the asserts of
\* va_mgr.cpp 89-94).
LEMMA EntryFacts ==
  ASSUME IInv, NEW e \in free_list
  PROVE  /\ e[2] \in DOMAIN frag_map /\ frag_map[e[2]].free /\ frag_map[e[2]].size = e[1]
         /\ e[2] \in Nat /\ e[1] \in Nat \ {0}
<1>1. e \in FreeEntries(frag_map) /\ FragOK(frag_map)
  BY DEF IInv, FreeListMatches, TypeOK
<1>2. PICK b \in DOMAIN frag_map : frag_map[b].free /\ e = <<frag_map[b].size, b>>
  BY <1>1 DEF FreeEntries
<1>3. b \in Nat /\ frag_map[b].size \in Nat \ {0}
  BY <1>1, FragFacts
<1>. QED BY <1>2, <1>3

\* The used and the free fragments of a well-formed map lie in the heap.
LEMMA EntryTypes ==
  ASSUME NEW f, FragOK(f)
  PROVE  /\ FreeEntries(f) \subseteq (1 .. Size) \X (Start .. End - 1)
         /\ \A r \in UsedRanges(f) : r[1] \in Start .. End - 1
<1>1. \A b \in DOMAIN f : b \in Start .. End - 1 /\ f[b].size \in 1 .. Size
  BY DEF FragOK, Fragment
<1>. QED BY <1>1 DEF FreeEntries, UsedRanges

\* An allocation that cuts a free fragment keeps the invariant.
LEMMA CutStep ==
  ASSUME IInv, NEW b, NEW addr, NEW bytes \in Sizes, NEW align \in Aligns,
         MayCut(frag_map, b, addr, bytes), IsCut(frag_map, frag_map', b, addr, bytes),
         free_list' = FreeListAfter(b, addr, bytes), Return(bytes, align, addr)
  PROVE  IInv'
<1>1. FragOK(frag_map') /\ Tiles(frag_map')
  BY CutTiles
<1>2. Separated(frag_map')
  BY CutSeparated DEF IInv, Coalesced
<1>3. free_list' = FreeEntries(frag_map')
  BY CutFree DEF IInv, FreeListMatches, FreeListAfter
<1>4. live' = UsedRanges(frag_map')
  BY CutUsed DEF IInv, LiveIsUsed, Return
<1>5. free_list' \subseteq (1 .. Size) \X (Start .. End - 1)
  BY <1>1, <1>3, EntryTypes
<1>6. addr \in Start .. End - 1 /\ addr \in 0 .. End - 1
  BY CutNumbers
<1>7. live' \subseteq (Start .. End - 1) \X Sizes
  BY <1>6 DEF Return, IInv, TypeOK
<1>8. result' \in [bytes : Sizes \cup {0}, align : Aligns \cup {0}, addr : 0 .. End - 1]
  BY <1>6 DEF Return
<1>. QED BY <1>1, <1>2, <1>3, <1>4, <1>5, <1>7, <1>8
         DEF IInv, TypeOK, Tiling, LiveIsUsed, FreeListMatches, Coalesced

\* The room AllocImpl asks for is enough for the request and for aligning it.
LEMMA PaddedFacts ==
  ASSUME NEW bytes \in Sizes, NEW align \in Aligns
  PROVE  /\ bytes \in Nat \ {0} /\ align \in Nat
         /\ Padded(bytes, align) \in Nat /\ Padded(bytes, align) >= bytes + align
         /\ Abstract!Padded(bytes, align) \in Nat /\ Abstract!Padded(bytes, align) >= bytes
         /\ align # 0 => Abstract!Padded(bytes, align) = Padded(bytes, align)
<1>1. bytes \in Nat \ {0} /\ align \in Nat /\ MinAlign \in Nat \ {0}
  BY HeapAssumption
<1>2. AlignUp(align, MinAlign) \in Nat /\ AlignUp(align, MinAlign) >= align
  BY <1>1, AlignUpBound
<1>3. Abstract!AlignUp(align, MinAlign) = AlignUp(align, MinAlign)
  BY DEF Abstract!AlignUp, AlignUp
<1>4. Padded(bytes, align) = bytes + AlignUp(align, MinAlign)
  BY DEF Padded
<1>5. Abstract!Padded(bytes, align) = bytes + (IF align = 0 THEN 0 ELSE AlignUp(align, MinAlign))
  BY <1>3 DEF Abstract!Padded
<1>. QED BY <1>1, <1>2, <1>4, <1>5

\* An allocation at the base of a free fragment cuts it.
LEMMA FrontCuts ==
  ASSUME IInv, NEW e \in free_list, NEW bytes \in Sizes, NEW align \in Aligns,
         e[1] >= bytes, AllocFront(e, bytes, align)
  PROVE  /\ MayCut(frag_map, e[2], e[2], bytes)
         /\ IsCut(frag_map, frag_map', e[2], e[2], bytes)
         /\ free_list' = FreeListAfter(e[2], e[2], bytes) /\ Return(bytes, align, e[2])
<1>1. /\ e[2] \in DOMAIN frag_map /\ frag_map[e[2]].free /\ frag_map[e[2]].size = e[1]
      /\ e[2] \in Nat /\ e[1] \in Nat
  BY EntryFacts
<1>2. bytes \in Nat \ {0}
  BY PaddedFacts
<1>3. e[2] <= e[2] /\ e[2] + bytes <= e[2] + e[1]
  BY <1>1, <1>2
<1>4. MayCut(frag_map, e[2], e[2], bytes)
  BY <1>1, <1>2, <1>3 DEF MayCut, IInv, TypeOK, Tiling
<1>. QED BY <1>4, TakeFrontCuts DEF AllocFront

\* An allocation at the first aligned address of a fragment with room for it cuts it.
LEMMA AlignedCuts ==
  ASSUME IInv, NEW e \in free_list, NEW bytes \in Sizes, NEW align \in Aligns,
         e[1] >= Padded(bytes, align), ~Aligned(e[2], align), AllocAligned(e, bytes, align)
  PROVE  \E addr \in Nat :
           /\ MayCut(frag_map, e[2], addr, bytes)
           /\ IsCut(frag_map, frag_map', e[2], addr, bytes)
           /\ free_list' = FreeListAfter(e[2], addr, bytes) /\ Return(bytes, align, addr)
           /\ Aligned(addr, align)
<1> DEFINE addr == e[2] + align - (e[2] % align)
<1>1. /\ e[2] \in DOMAIN frag_map /\ frag_map[e[2]].free /\ frag_map[e[2]].size = e[1]
      /\ e[2] \in Nat /\ e[1] \in Nat
  BY EntryFacts
<1>2. /\ bytes \in Nat \ {0} /\ align \in Nat /\ Padded(bytes, align) \in Nat
      /\ Padded(bytes, align) >= bytes + align
  BY PaddedFacts
<1>3. align # 0 /\ e[2] % align # 0
  BY DEF Aligned
<1>4. addr \in Nat /\ addr % align = 0 /\ e[2] < addr /\ addr <= e[2] + align
  BY <1>1, <1>2, <1>3, AlignedBase
<1>5. /\ frag_map' = TakeMiddle(frag_map, e[2], addr, bytes)
      /\ free_list' = FreeListAfter(e[2], addr, bytes) /\ Return(bytes, align, addr)
  BY DEF AllocAligned
<1> HIDE DEF addr
<1>6. e[2] <= addr /\ addr + bytes <= e[2] + e[1] /\ addr > e[2]
  BY <1>1, <1>2, <1>4
<1>7. MayCut(frag_map, e[2], addr, bytes)
  BY <1>1, <1>2, <1>4, <1>6 DEF MayCut, IInv, TypeOK, Tiling
<1>8. IsCut(frag_map, frag_map', e[2], addr, bytes)
  BY <1>5, <1>6, <1>7, TakeMiddleCuts
<1>9. Aligned(addr, align)
  BY <1>4 DEF Aligned
<1>. QED BY <1>4, <1>5, <1>7, <1>8, <1>9

\* AllocImpl fails for want of room, or cuts a free fragment at an aligned address.
LEMMA AllocCases ==
  ASSUME IInv, NEW bytes \in Sizes, NEW align \in Aligns, AllocImpl(bytes, align)
  PROVE  \/ AllocFails(bytes, align) /\ NoneFits(Abstract!Padded(bytes, align))
         \/ \E b \in Nat, addr \in Nat :
              /\ MayCut(frag_map, b, addr, bytes) /\ IsCut(frag_map, frag_map', b, addr, bytes)
              /\ free_list' = FreeListAfter(b, addr, bytes) /\ Return(bytes, align, addr)
              /\ Aligned(addr, align)
<1>1. /\ bytes \in Nat \ {0} /\ align \in Nat
      /\ Padded(bytes, align) \in Nat /\ Padded(bytes, align) >= bytes + align
      /\ Abstract!Padded(bytes, align) \in Nat /\ Abstract!Padded(bytes, align) >= bytes
      /\ align # 0 => Abstract!Padded(bytes, align) = Padded(bytes, align)
  BY PaddedFacts
<1>2. \A e \in free_list : e[1] \in Nat /\ e[2] \in Nat
  BY EntryFacts
<1>3. CASE NoneFits(bytes) /\ AllocFails(bytes, align)
  <2>1. \A e \in free_list : e[1] < bytes
    BY <1>3 DEF NoneFits
  <2>2. \A e \in free_list : e[1] < Abstract!Padded(bytes, align)
    BY <1>1, <1>2, <2>1
  <2>. QED BY <1>3, <2>2 DEF NoneFits
<1>4. ASSUME NEW e \in free_list, e[1] >= bytes, Aligned(e[2], align), AllocFront(e, bytes, align)
      PROVE  \E b \in Nat, addr \in Nat :
              /\ MayCut(frag_map, b, addr, bytes) /\ IsCut(frag_map, frag_map', b, addr, bytes)
              /\ free_list' = FreeListAfter(b, addr, bytes) /\ Return(bytes, align, addr)
              /\ Aligned(addr, align)
  BY <1>2, <1>4, FrontCuts
<1>5. ASSUME NEW e \in LowerBound(bytes), ~Aligned(e[2], align),
             NoneFits(Padded(bytes, align)), AllocFails(bytes, align)
      PROVE  AllocFails(bytes, align) /\ NoneFits(Abstract!Padded(bytes, align))
  BY <1>1, <1>5 DEF Aligned
<1>6. ASSUME NEW d \in LowerBound(Padded(bytes, align)),
             IF Aligned(d[2], align) THEN AllocFront(d, bytes, align)
             ELSE AllocAligned(d, bytes, align)
      PROVE  \E b \in Nat, addr \in Nat :
              /\ MayCut(frag_map, b, addr, bytes) /\ IsCut(frag_map, frag_map', b, addr, bytes)
              /\ free_list' = FreeListAfter(b, addr, bytes) /\ Return(bytes, align, addr)
              /\ Aligned(addr, align)
  <2>1. d \in free_list /\ d[1] >= Padded(bytes, align)
    BY DEF LowerBound
  <2>2. d[1] >= bytes
    BY <1>1, <1>2, <2>1
  <2>3. CASE Aligned(d[2], align)
    BY <1>4, <1>6, <2>1, <2>2, <2>3
  <2>4. CASE ~Aligned(d[2], align)
    BY <1>2, <1>6, <2>1, <2>4, AlignedCuts
  <2>. QED BY <2>3, <2>4
<1>7. \A e \in LowerBound(bytes) : e \in free_list /\ e[1] >= bytes
  BY DEF LowerBound
<1>. QED BY <1>3, <1>4, <1>5, <1>6, <1>7 DEF AllocImpl

\* An allocation that fails keeps the invariant.
LEMMA FailStep ==
  ASSUME IInv, NEW bytes \in Sizes, NEW align \in Aligns, AllocFails(bytes, align)
  PROVE  IInv'
<1>1. Start \in Nat \ {0} /\ Size \in Nat
  BY HeapAssumption
<1>2. 0 \in 0 .. End - 1
  BY <1>1, HeapAssumption DEF End
<1>3. result' \in [bytes : Sizes \cup {0}, align : Aligns \cup {0}, addr : 0 .. End - 1]
  BY <1>2 DEF AllocFails
<1>4. frag_map' = frag_map /\ free_list' = free_list /\ live' = live
  BY DEF AllocFails
<1>. QED BY <1>3, <1>4 DEF IInv, TypeOK, Tiling, LiveIsUsed, FreeListMatches, Coalesced

\* Free of a used fragment merges it with its free neighbours.
LEMMA FreeMerges ==
  ASSUME IInv, NEW addr \in DOMAIN frag_map, ~frag_map[addr].free, FreeUsed(addr)
  PROVE  \E lo \in DOMAIN frag_map, hi \in Nat :
           /\ IsMerged(frag_map, frag_map', addr, lo, hi)
           /\ free_list' = {e \in free_list : e[2] \in DOMAIN frag_map' /\ e[2] # lo}
                             \cup {<<hi - lo, lo>>}
<1> DEFINE low == FreeLower(frag_map, addr)
           lower == CHOOSE c \in low : TRUE
           key == IF low = {} THEN addr ELSE lower
           base == IF low = {} THEN addr ELSE addr - frag_map[lower].size
           h == MergeLower(frag_map, addr)
           m == MergeUpper(h, key)
           g == Put(m, key, FreeFragment(m[key].size))
<1>1. FragOK(frag_map) /\ Tiles(frag_map) /\ Separated(frag_map)
  BY DEF IInv, TypeOK, Tiling, Coalesced
<1>2. /\ frag_map' = g
      /\ free_list' = {e \in free_list : e[2] \in DOMAIN m /\ e[2] # key} \cup {<<m[key].size, base>>}
  BY DEF FreeUsed
<1>3. LowMerged(frag_map, h, addr, key) /\ base = key
  BY <1>1, LowerMerges
<1> HIDE DEF h, key, base
<1>4. /\ DOMAIN m = DOMAIN g
      /\ \E hi \in Nat : IsMerged(frag_map, g, addr, key, hi) /\ m[key].size = hi - key
  BY <1>1, <1>3, UpperMerges
<1> HIDE DEF g, m
<1>5. PICK hi \in Nat : IsMerged(frag_map, g, addr, key, hi) /\ m[key].size = hi - key
  BY <1>4
<1>6. key \in DOMAIN frag_map
  BY <1>5 DEF IsMerged
<1>. QED BY <1>2, <1>3, <1>4, <1>5, <1>6

\* Free keeps the invariant.
LEMMA FreeStep ==
  ASSUME IInv, NEW addr, Free(addr)
  PROVE  IInv'
<1>0. result' \in [bytes : Sizes \cup {0}, align : Aligns \cup {0}, addr : 0 .. End - 1]
  <2>1. 0 \in 0 .. End - 1
    BY HeapAssumption DEF End
  <2>. QED BY <2>1 DEF Free, NoResult
<1>1. live' \subseteq (Start .. End - 1) \X Sizes
  BY DEF Free, IInv, TypeOK
<1>2. live' = {r \in UsedRanges(frag_map) : r[1] # addr}
  BY DEF Free, IInv, LiveIsUsed
<1>3. FragOK(frag_map) /\ Tiles(frag_map) /\ Separated(frag_map) /\ free_list = FreeEntries(frag_map)
  BY DEF IInv, TypeOK, Tiling, Coalesced, FreeListMatches
<1>4. CASE addr \in DOMAIN frag_map /\ ~frag_map[addr].free
  <2>1. FreeUsed(addr)
    BY <1>4 DEF Free
  <2>2. PICK lo \in DOMAIN frag_map, hi \in Nat :
           /\ IsMerged(frag_map, frag_map', addr, lo, hi)
           /\ free_list' = {e \in free_list : e[2] \in DOMAIN frag_map' /\ e[2] # lo}
                             \cup {<<hi - lo, lo>>}
    BY <1>4, <2>1, FreeMerges
  <2>3. FragOK(frag_map') /\ Tiles(frag_map')
    BY <1>3, <2>2, MergeTiles
  <2>4. Separated(frag_map')
    BY <1>3, <2>2, MergeSeparated
  <2>5. live' = UsedRanges(frag_map')
    BY <1>2, <1>3, <1>4, <2>2, MergeUsed
  <2>6. free_list' = FreeEntries(frag_map')
    BY <1>3, <2>2, MergeFree
  <2>7. free_list' \subseteq (1 .. Size) \X (Start .. End - 1)
    BY <2>3, <2>6, EntryTypes
  <2>. QED BY <1>0, <1>1, <2>3, <2>4, <2>5, <2>6, <2>7
           DEF IInv, TypeOK, Tiling, LiveIsUsed, FreeListMatches, Coalesced
<1>5. CASE ~(addr \in DOMAIN frag_map /\ ~frag_map[addr].free)
  <2>1. frag_map' = frag_map /\ free_list' = free_list
    BY <1>5 DEF Free
  <2>2. live' = UsedRanges(frag_map)
    BY <1>2, <1>5 DEF UsedRanges
  <2>. QED BY <1>0, <1>1, <2>1, <2>2
           DEF IInv, TypeOK, Tiling, LiveIsUsed, FreeListMatches, Coalesced
<1>. QED BY <1>4, <1>5

\* A new heap satisfies the invariant.
LEMMA InitIInv ==
  ASSUME Init
  PROVE  IInv
<1>1. /\ Start \in Nat \ {0} /\ Size \in Nat \ {0} /\ End = Start + Size
      /\ Start \in Start .. End - 1 /\ Size \in 1 .. Size /\ 0 \in 0 .. End - 1
  BY HeapAssumption DEF End
<1>2. /\ DOMAIN frag_map = {Start} /\ frag_map[Start] = [size |-> Size, free |-> TRUE]
      /\ frag_map = [b \in {Start} |-> frag_map[b]]
      /\ free_list = {<<Size, Start>>} /\ live = {}
      /\ result = [bytes |-> 0, align |-> 0, addr |-> 0]
  BY DEF Init, FreeFragment, NoResult
<1>3. FragOK(frag_map)
  <2>1. frag_map[Start] \in Fragment /\ frag_map[Start].size = Size
    BY <1>1, <1>2 DEF Fragment
  <2>2. frag_map \in [DOMAIN frag_map -> Fragment]
    BY <1>2, <2>1
  <2>3. Start + Size <= End
    BY <1>1
  <2>. QED BY <1>1, <1>2, <2>1, <2>2, <2>3 DEF FragOK
<1>4. Tiles(frag_map)
  BY <1>1, <1>2 DEF Tiles
<1>5. TypeOK
  BY <1>1, <1>2, <1>3 DEF TypeOK
<1>6. live = UsedRanges(frag_map) /\ free_list = FreeEntries(frag_map)
  <2>1. \A b \in DOMAIN frag_map : b = Start /\ frag_map[b].free /\ frag_map[b].size = Size
    BY <1>2
  <2>2. live = UsedRanges(frag_map)
    BY <1>2, <2>1 DEF UsedRanges
  <2>3. Start \in {c \in DOMAIN frag_map : frag_map[c].free}
    BY <1>2
  <2>4. \A e : e \in FreeEntries(frag_map) <=> e = <<Size, Start>>
    BY <2>1, <2>3 DEF FreeEntries
  <2>5. FreeEntries(frag_map) = {<<Size, Start>>}
    BY <2>4, Zenon
  <2>. QED BY <1>2, <2>2, <2>5
<1>7. Separated(frag_map)
  BY <1>1, <1>2 DEF Separated
<1>. QED BY <1>4, <1>5, <1>6, <1>7 DEF IInv, Tiling, LiveIsUsed, FreeListMatches, Coalesced

\* Every step keeps the invariant.
LEMMA NextIInv ==
  ASSUME NoHints, IInv, [Next]_vars
  PROVE  IInv'
<1>1. ASSUME NEW bytes \in Sizes, NEW align \in Aligns, NEW h \in Hints, Alloc(bytes, align, h)
      PROVE  IInv'
  <2>1. AllocImpl(bytes, align)
    <3>1. ~(h > 0)
      BY DEF NoHints
    <3>. QED BY <1>1, <3>1 DEF Alloc
  <2>. QED BY <2>1, AllocCases, CutStep, FailStep
<1>2. ASSUME NEW addr, Free(addr)
      PROVE  IInv'
  BY <1>2, FreeStep
<1>3. CASE UNCHANGED vars
  BY <1>3 DEF vars, IInv, TypeOK, Tiling, LiveIsUsed, FreeListMatches, Coalesced
<1>. QED BY <1>1, <1>2, <1>3 DEF Next

\* The inductive invariant of VaMgr holds.
THEOREM Invariance ==
  ASSUME NoHints
  PROVE  Spec => []IInv
<1>1. Init => IInv
  BY InitIInv
<1>2. IInv /\ [Next]_vars => IInv'
  BY NextIInv
<1>. QED BY <1>1, <1>2, PTL DEF Spec

\* Types of the heap's state: fragments, list entries and results lie in the heap.
THEOREM TypeCorrect ==
  ASSUME NoHints
  PROVE  Spec => []TypeOK
<1>1. IInv => TypeOK
  BY DEF IInv
<1>. QED BY <1>1, Invariance, PTL

\* VaMgr's fragments tile the heap, and the map, the list by size and the callers agree
\* on what is used and what is free, free neighbours always being merged.
THEOREM HeapConsistent ==
  ASSUME NoHints
  PROVE  Spec => [](Tiling /\ LiveIsUsed /\ FreeListMatches /\ Coalesced)
<1>1. IInv => Tiling /\ LiveIsUsed /\ FreeListMatches /\ Coalesced
  BY DEF IInv
<1>. QED BY <1>1, Invariance, PTL

\* Every fragment of a heap whose ranges were all returned is free, so that there is only
\* one: VaMgr's destructor finds the map and the list of size 1.
THEOREM WholeWhenEmpty ==
  ASSUME NoHints
  PROVE  Spec => []EmptyIsWhole
<1>1. IInv => EmptyIsWhole
  <2> SUFFICES ASSUME IInv, live = {}
               PROVE  frag_map = [b \in {Start} |-> FreeFragment(Size)]
    BY DEF EmptyIsWhole
  <2>1. FragOK(frag_map) /\ Tiles(frag_map) /\ Separated(frag_map)
    BY DEF IInv, TypeOK, Tiling, Coalesced
  <2>2. \A b \in DOMAIN frag_map : frag_map[b].free
    BY DEF IInv, LiveIsUsed, UsedRanges
  <2>3. /\ Start \in Nat \ {0} /\ Size \in Nat \ {0} /\ End = Start + Size
        /\ Start \in Start .. End - 1
    BY HeapAssumption DEF End
  <2>4. PICK b \in DOMAIN frag_map : b <= Start /\ Start < b + frag_map[b].size
    BY <2>1, <2>3 DEF Tiles
  <2>5. b = Start /\ frag_map[b].size \in Nat \ {0} /\ b + frag_map[b].size <= End
    BY <2>1, <2>3, <2>4, FragFacts
  <2>6. frag_map[b].size = Size
    <3>1. SUFFICES ASSUME frag_map[b].size # Size PROVE FALSE
      OBVIOUS
    <3>2. b + frag_map[b].size \in Start .. End - 1
      BY <2>3, <2>5, <3>1
    <3>3. PICK c \in DOMAIN frag_map :
            c <= b + frag_map[b].size /\ b + frag_map[b].size < c + frag_map[c].size
      BY <2>1, <3>2 DEF Tiles
    <3>4. c \in Nat /\ frag_map[c].size \in Nat /\ Start <= c
      BY <2>1, FragFacts
    <3>5. c # b
      BY <2>3, <2>5, <3>3
    <3>6. c = b + frag_map[b].size
      BY <2>1, <2>3, <2>5, <3>3, <3>4, <3>5, NoStartInside
    <3>. QED BY <2>1, <2>2, <3>6 DEF Separated
  <2>7. ASSUME NEW c \in DOMAIN frag_map PROVE c = Start
    <3>1. c \in Nat /\ frag_map[c].size \in Nat \ {0} /\ Start <= c /\ c < End
      BY <2>1, FragFacts
    <3>2. c # b => c + frag_map[c].size <= b \/ b + frag_map[b].size <= c
      BY <2>1, NoStartInside
    <3>. QED BY <2>3, <2>5, <2>6, <3>1, <3>2
  <2>8. DOMAIN frag_map = {Start}
    BY <2>5, <2>7
  <2>9. frag_map[Start] = FreeFragment(Size)
    <3>1. frag_map[Start] \in Fragment /\ frag_map[Start].free = TRUE
      BY <2>1, <2>2, <2>5, FragFacts
    <3>. QED BY <2>5, <2>6, <3>1 DEF Fragment, FreeFragment
  <2>10. frag_map = [c \in DOMAIN frag_map |-> frag_map[c]]
    BY <2>1 DEF FragOK
  <2>. QED BY <2>8, <2>9, <2>10
<1>. QED BY <1>1, Invariance, PTL

-----------------------------------------------------------------------------
(* VaMgr implements VaSpace. *)

\* A piece of a free fragment is a hole between the ranges handed out.
LEMMA CutIsHole ==
  ASSUME IInv, NEW b, NEW addr, NEW n, MayCut(frag_map, b, addr, n)
  PROVE  Abstract!Hole(addr, n) /\ addr \in Start .. End - n
<1>1. /\ b \in Nat /\ addr \in Nat /\ n \in Nat \ {0} /\ frag_map[b].size \in Nat \ {0}
      /\ b <= addr /\ addr + n <= b + frag_map[b].size
      /\ Start \in Nat /\ Size \in Nat /\ End = Start + Size
      /\ Start <= b /\ b + frag_map[b].size <= End
      /\ FragOK(frag_map) /\ Tiles(frag_map) /\ b \in DOMAIN frag_map /\ frag_map[b].free
  BY CutNumbers
<1>2. ASSUME NEW r \in live PROVE Abstract!Disjoint(addr, n, r[1], r[2])
  <2>1. PICK c \in DOMAIN frag_map : ~frag_map[c].free /\ r = <<c, frag_map[c].size>>
    BY DEF IInv, LiveIsUsed, UsedRanges
  <2>2. c \in Nat /\ frag_map[c].size \in Nat
    BY <1>1, FragFacts
  <2>3. c + frag_map[c].size <= b \/ b + frag_map[b].size <= c
    BY <1>1, <2>1, NoStartInside
  <2>4. c + frag_map[c].size <= addr \/ addr + n <= c
    BY <1>1, <2>2, <2>3
  <2>. QED BY <2>1, <2>4 DEF Abstract!Disjoint
<1>3. Start <= addr /\ addr + n <= Start + Size /\ addr \in Start .. End - n
  BY <1>1
<1>. QED BY <1>2, <1>3 DEF Abstract!Hole, Abstract!End

\* When every free fragment is smaller than n there is no hole of n bytes: a hole lies in
\* one fragment, as free fragments do not touch.
LEMMA NoHole ==
  ASSUME IInv, NEW n \in Nat \ {0}, NoneFits(n), NEW a \in Start .. End - 1
  PROVE  ~Abstract!Hole(a, n)
<1>1. SUFFICES ASSUME Abstract!Hole(a, n) PROVE FALSE
  OBVIOUS
<1>2. FragOK(frag_map) /\ Tiles(frag_map) /\ Separated(frag_map)
  BY DEF IInv, TypeOK, Tiling, Coalesced
<1>3. Start \in Nat /\ End \in Nat /\ a \in Nat /\ Start <= a /\ a < End /\ a + n <= End
  BY <1>1, HeapAssumption DEF End, Abstract!Hole, Abstract!End
<1>4. ASSUME NEW c \in DOMAIN frag_map, ~frag_map[c].free
      PROVE  a + n <= c \/ c + frag_map[c].size <= a
  <2>1. <<c, frag_map[c].size>> \in live
    BY <1>4 DEF IInv, LiveIsUsed, UsedRanges
  <2>2. Abstract!Disjoint(a, n, <<c, frag_map[c].size>>[1], <<c, frag_map[c].size>>[2])
    BY <1>1, <2>1 DEF Abstract!Hole
  <2>. QED BY <2>2 DEF Abstract!Disjoint
<1>5. PICK b \in DOMAIN frag_map : b <= a /\ a < b + frag_map[b].size
  BY <1>2 DEF Tiles
<1>6. b \in Nat /\ frag_map[b].size \in Nat \ {0} /\ Start <= b
  BY <1>2, FragFacts
<1>7. frag_map[b].free
  <2>1. SUFFICES ASSUME ~frag_map[b].free PROVE FALSE
    OBVIOUS
  <2>2. a + n <= b \/ b + frag_map[b].size <= a
    BY <1>4, <2>1
  <2>. QED BY <1>3, <1>5, <1>6, <2>2
<1>8. frag_map[b].size < n
  <2>1. <<frag_map[b].size, b>> \in free_list
    BY <1>7 DEF IInv, FreeListMatches, FreeEntries
  <2>2. <<frag_map[b].size, b>>[1] < n
    BY <2>1 DEF NoneFits
  <2>. QED BY <2>2
<1>9. b + frag_map[b].size \in Start .. End - 1 /\ b + frag_map[b].size < a + n
  BY <1>3, <1>5, <1>6, <1>8
<1>10. PICK c \in DOMAIN frag_map :
         c <= b + frag_map[b].size /\ b + frag_map[b].size < c + frag_map[c].size
  BY <1>2, <1>9 DEF Tiles
<1>11. c \in Nat /\ frag_map[c].size \in Nat \ {0}
  BY <1>2, FragFacts
<1>12. c # b
  BY <1>6, <1>10
<1>13. c + frag_map[c].size <= b \/ b + frag_map[b].size <= c
  BY <1>2, <1>12, NoStartInside
<1>14. c = b + frag_map[b].size
  BY <1>6, <1>10, <1>11, <1>13
<1>15. ~frag_map[c].free
  BY <1>2, <1>7, <1>14 DEF Separated
<1>16. a + n <= c \/ c + frag_map[c].size <= a
  BY <1>4, <1>15
<1>. QED BY <1>3, <1>5, <1>6, <1>9, <1>11, <1>14, <1>16

\* VaMgr implements VaSpace: what it hands out is an aligned hole, and it fails only when no
\* hole has room for the request and its alignment.
THEOREM Refinement ==
  ASSUME NoHints
  PROVE  Spec => AbstractSpec
<1>1. Init => Abstract!Init
  BY DEF Init, Abstract!Init, NoResult, Abstract!NoResult
<1>2. ASSUME IInv, NEW bytes \in Sizes, NEW align \in Aligns, AllocImpl(bytes, align)
      PROVE  Abstract!Alloc(bytes, align)
  <2>0. /\ bytes \in Nat \ {0} /\ Abstract!Padded(bytes, align) \in Nat
        /\ Abstract!Padded(bytes, align) >= bytes
    BY PaddedFacts
  <2>1. CASE AllocFails(bytes, align) /\ NoneFits(Abstract!Padded(bytes, align))
    <3>1. Abstract!Padded(bytes, align) \in Nat \ {0}
      BY <2>0
    <3>2. \A a \in Start .. End - 1 : ~Abstract!Hole(a, Abstract!Padded(bytes, align))
      BY <1>2, <2>1, <3>1, NoHole
    <3>. QED BY <2>1, <3>2 DEF Abstract!Alloc, AllocFails, Abstract!End, End
  <2>2. ASSUME NEW b \in Nat, NEW addr \in Nat, MayCut(frag_map, b, addr, bytes),
               Return(bytes, align, addr), Aligned(addr, align)
        PROVE  Abstract!Alloc(bytes, align)
    <3>1. Abstract!Hole(addr, bytes) /\ addr \in Start .. End - bytes
      BY <1>2, <2>2, CutIsHole
    <3>. QED BY <2>2, <3>1 DEF Abstract!Alloc, Return, Aligned, Abstract!End, End
  <2>. QED BY <1>2, <2>1, <2>2, AllocCases
<1>3. IInv /\ [Next]_vars => [Abstract!Next]_Abstract!vars
  <2> SUFFICES ASSUME IInv, [Next]_vars PROVE [Abstract!Next]_Abstract!vars
    OBVIOUS
  <2>1. ASSUME NEW bytes \in Sizes, NEW align \in Aligns, NEW h \in Hints, Alloc(bytes, align, h)
        PROVE  Abstract!Next
    <3>1. ~(h > 0)
      BY DEF NoHints
    <3>2. AllocImpl(bytes, align)
      BY <2>1, <3>1 DEF Alloc
    <3>. QED BY <1>2, <3>2 DEF Abstract!Next
  <2>2. ASSUME NEW addr \in 0 .. End - 1, Free(addr)
        PROVE  Abstract!Next
    <3>1. Abstract!Free(addr)
      BY <2>2 DEF Free, Abstract!Free, NoResult, Abstract!NoResult
    <3>. QED BY <3>1 DEF Abstract!Next, Abstract!End, End
  <2>3. CASE UNCHANGED vars
    BY <2>3 DEF vars, Abstract!vars
  <2>. QED BY <2>1, <2>2, <2>3 DEF Next
<1>. QED BY <1>1, <1>3, Invariance, PTL DEF Spec, AbstractSpec, Abstract!Spec
=============================================================================
