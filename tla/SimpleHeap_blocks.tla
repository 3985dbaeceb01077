--------------------------- MODULE SimpleHeap_blocks ---------------------------
(***************************************************************************)
(* What the operators of SimpleHeap do to the blocks, for any heap.  A     *)
(* block is a map of fragments that tile it (Sound); cutting and merging   *)
(* keep it so.  A step of the heap replaces, adds or removes one block;    *)
(* the index, the fragments handed out and the blocks in service follow.   *)
(* balance() takes the oldest blocks from the cache and leaves a short     *)
(* one.                                                                    *)
(***************************************************************************)
EXTENDS SimpleHeap, TLAPS

-----------------------------------------------------------------------------
(* Division, for blocks and huge pages. *)

\* Quotient and remainder recompose the dividend.
LEMMA DivMod ==
  ASSUME NEW n \in Nat \ {0}, NEW a \in Nat
  PROVE  /\ a \div n \in Nat
         /\ a % n \in 0 .. n - 1
         /\ a = (n * (a \div n)) + (a % n)
  BY Z3

\* A quotient and a remainder are determined by the dividend.
LEMMA DivModUnique ==
  ASSUME NEW n \in Nat \ {0}, NEW q \in Int, NEW r \in 0 .. n - 1,
         NEW p \in Int, NEW s \in 0 .. n - 1, (n * q) + r = (n * p) + s
  PROVE  q = p /\ r = s
<1>1. n * (q - p) = s - r
  BY Z3
<1>2. ASSUME q - p >= 1 PROVE FALSE
  <2>1. n * (q - p) >= n * 1
    BY <1>2, Z3
  <2> QED
    BY <1>1, <2>1
<1>3. ASSUME q - p <= -1 PROVE FALSE
  <2>1. n * (q - p) <= n * (-1)
    BY <1>3, Z3
  <2> QED
    BY <1>1, <2>1
<1>4. q - p = 0
  BY <1>2, <1>3
<1> QED
  BY <1>1, <1>4, Z3

\* A block holds the request it is made for; one made for a request of at most the default
\* has the default size.
LEMMA BlockHolds ==
  ASSUME NEW n \in Nat \ {0}, NEW s \in Nat \ {0}
  PROVE  /\ AlignUp(n, s) \in Nat /\ AlignUp(n, s) >= n
         /\ n <= s => AlignUp(n, s) = s
<1> DEFINE q == (n + s - 1) \div s
           r == (n + s - 1) % s
<1>1. q \in Nat /\ r \in 0 .. s - 1 /\ n + s - 1 = (s * q) + r
  <2>1. n + s - 1 \in Nat
    OBVIOUS
  <2> QED
    BY <2>1, DivMod
<1>2. AlignUp(n, s) = q * s
  BY DEF AlignUp
<1> HIDE DEF q, r
<1>3. q * s = s * q /\ s * q \in Nat
  BY <1>1, Z3
<1>4. ASSUME n <= s PROVE q = 1
  <2>1. (s * q) + r = (s * 1) + (n - 1) /\ n - 1 \in 0 .. s - 1
    BY <1>1, <1>4, Z3
  <2> QED
    BY <1>1, <2>1, DivModUnique
<1>5. s * 1 = s
  OBVIOUS
<1> QED
  BY <1>1, <1>2, <1>3, <1>4, <1>5

\* Padding leads to an aligned address.
LEMMA PaddingAligns ==
  ASSUME NEW a \in Nat, NEW n \in Nat
  PROVE  /\ Padding(a, n) \in Nat /\ Padding(a, n) < HugePage
         /\ n >= HugePage => (a + Padding(a, n)) % HugePage = 0
<1>1. HugePage \in Nat \ {0}
  BY BlockAssumption
<1>2. a \div HugePage \in Nat /\ a % HugePage \in 0 .. HugePage - 1 /\ a = (HugePage * (a \div HugePage)) + (a % HugePage)
  BY <1>1, DivMod
<1>3. Padding(a, n) \in Nat /\ Padding(a, n) < HugePage
  BY <1>1, <1>2 DEF Padding, Delta
<1>4. ASSUME n >= HugePage, a % HugePage # 0 PROVE (a + Padding(a, n)) % HugePage = 0
  <2> DEFINE z == a + Padding(a, n)
             q == a \div HugePage
  <2>1. Padding(a, n) = HugePage - (a % HugePage)
    BY <1>4 DEF Padding, Delta
  <2>2. z = (HugePage * q) + HugePage /\ z \in Nat
    BY <1>1, <1>2, <2>1
  <2>3. z \div HugePage \in Nat /\ z % HugePage \in 0 .. HugePage - 1 /\ z = (HugePage * (z \div HugePage)) + (z % HugePage)
    BY <1>1, <2>2, DivMod
  <2>4. q \in Nat
    BY <1>2
  <2> HIDE DEF z, q
  <2>5. HugePage * (q + 1) = (HugePage * q) + HugePage
    BY <1>1, <2>4, Z3
  <2>6. (HugePage * (z \div HugePage)) + (z % HugePage) = (HugePage * (q + 1)) + 0
    BY <2>2, <2>3, <2>5, <1>1, <2>4, Z3
  <2>7. 0 \in 0 .. HugePage - 1 /\ q + 1 \in Int /\ z \div HugePage \in Int
    BY <1>1, <2>3, <2>4
  <2>8. z % HugePage = 0
    BY <1>1, <2>3, <2>6, <2>7, DivModUnique
  <2> QED
    BY <2>8 DEF z
<1>5. ASSUME n >= HugePage, a % HugePage = 0 PROVE (a + Padding(a, n)) % HugePage = 0
  <2>1. Padding(a, n) = 0
    BY <1>5 DEF Padding, Delta
  <2>2. a + Padding(a, n) = a
    BY <2>1
  <2> QED
    BY <1>5, <2>2
<1> QED
  BY <1>3, <1>4, <1>5

-----------------------------------------------------------------------------
(* The fragments of a block. *)

Fragment == [size : Nat \ {0}, free : BOOLEAN, discard : BOOLEAN]

\* The fragments that alloc() and free() make.
LEMMA NewFragments ==
  ASSUME NEW n \in Nat \ {0}
  PROVE  /\ Used(n) \in Fragment /\ Used(n).size = n /\ ~Used(n).free /\ ~Used(n).discard
         /\ Unused(n) \in Fragment /\ Unused(n).size = n /\ Unused(n).free /\ ~Unused(n).discard
<1>1. Used(n) \in Fragment /\ Used(n).size = n /\ ~Used(n).free /\ ~Used(n).discard
  BY DEF Used, Fragment
<1>2. Unused(n) \in Fragment /\ Unused(n).size = n /\ Unused(n).free /\ ~Unused(n).discard
  BY DEF Unused, Fragment
<1> QED
  BY <1>1, <1>2

After(f, a) == a + f[a].size

\* The fragments of f follow each other from b to e.
Tiling(f, b, e) ==
  /\ DOMAIN f \subseteq b .. e - 1 /\ b \in DOMAIN f
  /\ \A c \in DOMAIN f : f[c] \in Fragment
  /\ \A c, d \in DOMAIN f : c < d => After(f, c) <= d
  /\ \A c \in DOMAIN f : After(f, c) = e \/ After(f, c) \in DOMAIN f
  /\ \A d \in DOMAIN f : d = b \/ \E c \in DOMAIN f : After(f, c) = d
  /\ \E c \in DOMAIN f : After(f, c) = e

\* A fragment's size, and where it ends.
LEMMA Sized ==
  ASSUME NEW f, NEW b \in Nat, NEW e \in Nat, Tiling(f, b, e), NEW c \in DOMAIN f
  PROVE  /\ c \in Nat /\ b <= c /\ c < e /\ f[c].size \in Nat \ {0}
         /\ After(f, c) \in Nat /\ c < After(f, c) /\ After(f, c) <= e
<1>1. c \in b .. e - 1 /\ f[c].size \in Nat \ {0}
  BY DEF Tiling, Fragment
<1>2. After(f, c) = c + f[c].size
  BY DEF After
<1>3. After(f, c) = e \/ After(f, c) \in b .. e - 1
  BY DEF Tiling
<1> QED
  BY <1>1, <1>2, <1>3

\* The end of a block is where its last fragment ends.
LEMMA TilingEnd ==
  ASSUME NEW f, NEW b \in Nat, NEW e \in Nat, Tiling(f, b, e)
  PROVE  End(f) = e
<1> DEFINE ends == {c + f[c].size : c \in DOMAIN f}
<1>1. e \in ends
  BY DEF Tiling, After
<1>2. \A c \in DOMAIN f : c + f[c].size <= e /\ c + f[c].size \in Nat
  BY Sized DEF After
<1>3. ASSUME NEW x \in ends, \A c \in DOMAIN f : c + f[c].size <= x PROVE x = e
  <2>1. x <= e /\ x \in Nat
    BY <1>2
  <2>2. e <= x
    BY <1>1, <1>3
  <2> QED
    BY <2>1, <2>2
<1> QED
  BY <1>1, <1>2, <1>3 DEF End

\* A fragment has one predecessor.
LEMMA OnePredecessor ==
  ASSUME NEW f, NEW b \in Nat, NEW e \in Nat, Tiling(f, b, e),
         NEW c \in DOMAIN f, NEW x \in DOMAIN f, After(f, x) = After(f, c)
  PROVE  x = c
<1>1. c \in Nat /\ x \in Nat /\ After(f, c) \in Nat /\ c < After(f, c) /\ x < After(f, c)
  BY Sized
<1>2. c < x => After(f, c) <= x
  BY DEF Tiling
<1>3. x < c => After(f, x) <= c
  BY DEF Tiling
<1> QED
  BY <1>1, <1>2, <1>3

\* What Absorb makes of the fragments.
LEMMA AbsorbShape ==
  ASSUME NEW f, NEW c \in DOMAIN f, NEW d \in DOMAIN f, c # d, f[c] \in Fragment, f[d] \in Fragment
  PROVE  /\ DOMAIN Absorb(f, c, d) = DOMAIN f \ {d}
         /\ Absorb(f, c, d)[c] \in Fragment
         /\ Absorb(f, c, d)[c].size = f[c].size + f[d].size
         /\ Absorb(f, c, d)[c].free = f[c].free
         /\ Absorb(f, c, d)[c].discard = f[c].discard
         /\ \A x \in DOMAIN f \ {c, d} : Absorb(f, c, d)[x] = f[x]
<1>1. /\ DOMAIN Absorb(f, c, d) = DOMAIN f \ {d}
      /\ Absorb(f, c, d)[c] = [f[c] EXCEPT !.size = f[c].size + f[d].size]
      /\ \A x \in DOMAIN f \ {c, d} : Absorb(f, c, d)[x] = f[x]
  BY DEF Absorb
<1>2. f[c].size + f[d].size \in Nat \ {0}
  BY DEF Fragment
<1> QED
  BY <1>1, <1>2 DEF Fragment

\* A fragment that takes over the one after it leaves the block tiled.
LEMMA AbsorbTiles ==
  ASSUME NEW f, NEW b \in Nat, NEW e \in Nat, Tiling(f, b, e),
         NEW c \in DOMAIN f, NEW d \in DOMAIN f, After(f, c) = d
  PROVE  Tiling(Absorb(f, c, d), b, e) /\ After(Absorb(f, c, d), c) = After(f, d)
<1> DEFINE g == Absorb(f, c, d)
<1>1. c \in Nat /\ d \in Nat /\ c < d /\ b <= c /\ f[c].size \in Nat /\ f[d].size \in Nat
  BY Sized
<1>2. /\ DOMAIN g = DOMAIN f \ {d} /\ g[c] \in Fragment /\ g[c].size = f[c].size + f[d].size
      /\ \A x \in DOMAIN f \ {c, d} : g[x] = f[x]
  <2>1. f[c] \in Fragment /\ f[d] \in Fragment /\ c # d
    BY <1>1 DEF Tiling
  <2> QED
    BY <2>1, AbsorbShape
<1>3. After(g, c) = After(f, d) /\ \A x \in DOMAIN g \ {c} : After(g, x) = After(f, x)
  <2>1. After(g, c) = After(f, d)
    BY <1>1, <1>2 DEF After
  <2>2. \A x \in DOMAIN g \ {c} : After(g, x) = After(f, x)
    BY <1>2 DEF After
  <2> QED
    BY <2>1, <2>2
<1> HIDE DEF g
<1>4. DOMAIN g \subseteq b .. e - 1 /\ b \in DOMAIN g /\ c \in DOMAIN g
  BY <1>1, <1>2 DEF Tiling
<1>5. \A x \in DOMAIN g : g[x] \in Fragment
  BY <1>2 DEF Tiling
<1>6. ASSUME NEW x \in DOMAIN g, NEW y \in DOMAIN g, x < y PROVE After(g, x) <= y
  <2>1. x \in DOMAIN f /\ y \in DOMAIN f /\ y # d /\ x \in Nat /\ y \in Nat
    BY <1>2, Sized
  <2>2. After(f, x) <= y
    BY <1>6, <2>1 DEF Tiling
  <2>3. CASE x = c
    <3>1. d < y
      BY <1>1, <2>1, <2>2, <2>3
    <3>2. After(f, d) <= y
      BY <2>1, <3>1 DEF Tiling
    <3> QED
      BY <1>3, <2>3, <3>2
  <2> QED
    BY <1>3, <2>2, <2>3
<1>7. ASSUME NEW x \in DOMAIN g PROVE After(g, x) = e \/ After(g, x) \in DOMAIN g
  <2>1. ASSUME NEW z \in DOMAIN f, After(f, z) = d PROVE z = c
    BY <2>1, OnePredecessor
  <2>2. After(f, d) # d
    BY Sized
  <2>3. CASE x = c
    BY <1>2, <1>3, <2>2, <2>3 DEF Tiling
  <2>4. CASE x # c
    BY <1>2, <1>3, <2>1, <2>4 DEF Tiling
  <2> QED
    BY <2>3, <2>4
<1>8. ASSUME NEW y \in DOMAIN g, y # b PROVE \E x \in DOMAIN g : After(g, x) = y
  <2>1. PICK z \in DOMAIN f : After(f, z) = y
    BY <1>2, <1>8 DEF Tiling
  <2>2. z # c
    BY <1>2, <2>1
  <2>3. CASE z = d
    BY <1>3, <1>4, <2>1, <2>3
  <2>4. CASE z # d
    BY <1>2, <1>3, <2>1, <2>2, <2>4
  <2> QED
    BY <2>3, <2>4
<1>9. \E x \in DOMAIN g : After(g, x) = e
  <2>1. PICK z \in DOMAIN f : After(f, z) = e
    BY DEF Tiling
  <2>2. z # c
    <3>1. d < e
      BY Sized
    <3> QED
      BY <1>1, <2>1, <3>1
  <2>3. CASE z = d
    BY <1>3, <1>4, <2>1, <2>3
  <2>4. CASE z # d
    BY <1>2, <1>3, <2>1, <2>2, <2>4
  <2> QED
    BY <2>3, <2>4
<1>10. Tiling(g, b, e)
  BY <1>4, <1>5, <1>6, <1>7, <1>8, <1>9 DEF Tiling
<1> QED
  BY <1>3, <1>10 DEF g

\* A fragment of s pages at a becomes p pages of padding, n pages used, and the rest.
CutDone(f, a, s, n, p, g) ==
  /\ DOMAIN g = DOMAIN f \cup {a + p} \cup (IF s > n + p THEN {a + p + n} ELSE {})
  /\ g[a + p] = Used(n)
  /\ p > 0 => g[a] = Unused(p)
  /\ s > n + p => g[a + p + n] = Unused(s - p - n)
  /\ \A c \in DOMAIN f \ {a} : g[c] = f[c]

\* That is what Cut does.
LEMMA CutShape ==
  ASSUME NEW f, NEW a \in DOMAIN f, a \in Nat, NEW s \in Nat, NEW n \in Nat \ {0},
         NEW p \in Nat, p = Padding(a, n), s >= n + p,
         \A c \in DOMAIN f \ {a} : c \in Nat /\ (c < a \/ c >= a + s),
         NEW g, g = Cut(f, a, s, n)
  PROVE  CutDone(f, a, s, n, p, g)
<1> DEFINE h == IF a + p > a THEN Put(f, a, Unused(a + p - a)) ELSE f
           k == Put(h, a + p, Used(n))
<1>1. g = IF s - p - n > 0 THEN Put(k, a + p + n, Unused(s - p - n)) ELSE k
  BY DEF Cut
<1>2. /\ DOMAIN h = DOMAIN f /\ (p > 0 => h[a] = Unused(p))
      /\ \A c \in DOMAIN f \ {a} : h[c] = f[c]
  <2>1. a + p - a = p /\ (a + p > a <=> p > 0)
    OBVIOUS
  <2> QED
    BY <2>1 DEF Put
<1> HIDE DEF h
<1>3. /\ DOMAIN k = DOMAIN f \cup {a + p} /\ k[a + p] = Used(n)
      /\ (p > 0 => k[a] = Unused(p))
      /\ \A c \in DOMAIN f \ {a} : k[c] = f[c]
  <2>1. DOMAIN k = DOMAIN h \cup {a + p} /\ k[a + p] = Used(n) /\ \A c \in DOMAIN h \ {a + p} : k[c] = h[c]
    BY DEF Put
  <2>2. \A c \in DOMAIN f \ {a} : c # a + p
    OBVIOUS
  <2>3. p > 0 => a # a + p
    OBVIOUS
  <2> QED
    BY <1>2, <2>1, <2>2, <2>3
<1> HIDE DEF k
<1>4. CASE s > n + p
  <2>1. g = Put(k, a + p + n, Unused(s - p - n))
    BY <1>1, <1>4
  <2>2. /\ DOMAIN g = DOMAIN k \cup {a + p + n} /\ g[a + p + n] = Unused(s - p - n)
        /\ \A c \in DOMAIN k \ {a + p + n} : g[c] = k[c]
    BY <2>1 DEF Put
  <2>3. a + p # a + p + n /\ a # a + p + n /\ \A c \in DOMAIN f \ {a} : c # a + p + n
    BY <1>4
  <2> QED
    BY <1>3, <1>4, <2>2, <2>3 DEF CutDone
<1>5. CASE ~(s > n + p)
  <2>1. g = k
    BY <1>1, <1>5
  <2> QED
    BY <1>3, <1>5, <2>1 DEF CutDone
<1> QED
  BY <1>4, <1>5

\* Cutting a fragment leaves the block tiled.
LEMMA CutTiles ==
  ASSUME NEW f, NEW b \in Nat, NEW e \in Nat, Tiling(f, b, e), NEW a \in DOMAIN f,
         NEW n \in Nat \ {0}, NEW p \in Nat, f[a].size >= n + p, NEW g,
         CutDone(f, a, f[a].size, n, p, g)
  PROVE  Tiling(g, b, e)
<1> DEFINE s == f[a].size
<1>0. /\ DOMAIN g = DOMAIN f \cup {a + p} \cup (IF f[a].size > n + p THEN {a + p + n} ELSE {})
      /\ g[a + p] = Used(n) /\ (p > 0 => g[a] = Unused(p))
      /\ f[a].size > n + p => g[a + p + n] = Unused(f[a].size - p - n)
      /\ \A c \in DOMAIN f \ {a} : g[c] = f[c]
  BY DEF CutDone
<1> USE <1>0
<1>1. a \in Nat /\ b <= a /\ a < e /\ s \in Nat \ {0} /\ After(f, a) = a + s /\ a + s <= e
  BY Sized DEF After
<1> HIDE DEF s
<1>2. ASSUME NEW c \in DOMAIN f \ {a}
      PROVE  c \in Nat /\ After(f, c) \in Nat /\ c < After(f, c) /\ (c < a => After(f, c) <= a) /\ (c > a => a + s <= c)
  <2>1. c \in Nat /\ After(f, c) \in Nat /\ c < After(f, c)
    BY Sized
  <2>2. (c < a => After(f, c) <= a) /\ (c > a => a + s <= c)
    BY <1>1 DEF Tiling
  <2> QED
    BY <2>1, <2>2
<1>3. /\ After(g, a + p) = a + p + n /\ (p > 0 => After(g, a) = a + p)
      /\ s > n + p => After(g, a + p + n) = a + s
      /\ \A c \in DOMAIN f \ {a} : After(g, c) = After(f, c)
  <2>1. After(g, a + p) = a + p + n
    BY DEF After, Used
  <2>2. p > 0 => After(g, a) = a + p
    BY DEF After, Unused
  <2>3. s > n + p => After(g, a + p + n) = a + s
    BY <1>1 DEF After, Unused, s
  <2>4. \A c \in DOMAIN f \ {a} : After(g, c) = After(f, c)
    BY DEF After
  <2> QED
    BY <2>1, <2>2, <2>3, <2>4
<1>4. \A x \in DOMAIN g : \/ x \in DOMAIN f \ {a}
                          \/ x = a /\ p > 0
                          \/ x = a + p
                          \/ x = a + p + n /\ s > n + p
  BY <1>1 DEF s
<1>5. /\ DOMAIN f \ {a} \subseteq DOMAIN g /\ a \in DOMAIN g /\ a + p \in DOMAIN g
      /\ s > n + p => a + p + n \in DOMAIN g
  BY DEF s
<1>6. DOMAIN g \subseteq b .. e - 1 /\ b \in DOMAIN g
  <2>1. DOMAIN f \subseteq b .. e - 1 /\ b \in DOMAIN f
    BY DEF Tiling
  <2>2. s >= n + p
    BY DEF s
  <2>3. b \in DOMAIN g
    BY <1>5, <2>1
  <2>4. ASSUME NEW x \in DOMAIN g PROVE x \in b .. e - 1
    BY <1>1, <1>4, <2>1, <2>2
  <2> QED
    BY <2>3, <2>4
<1>7. ASSUME NEW x \in DOMAIN g PROVE g[x] \in Fragment
  <2>1. \A c \in DOMAIN f \ {a} : g[c] \in Fragment
    BY DEF Tiling
  <2>2. Used(n) \in Fragment /\ (p > 0 => Unused(p) \in Fragment)
    BY DEF Used, Unused, Fragment
  <2>3. s > n + p => Unused(s - p - n) \in Fragment
    BY <1>1 DEF Unused, Fragment
  <2> QED
    BY <1>4, <2>1, <2>2, <2>3 DEF s
<1>8. ASSUME NEW x \in DOMAIN g, NEW y \in DOMAIN g, x < y PROVE After(g, x) <= y
  <2>0. s >= n + p /\ x \in Nat /\ y \in Nat
    BY <1>1, <1>2, <1>4 DEF s
  <2>1. CASE x \in DOMAIN f \ {a}
    <3>1. y \in DOMAIN f \ {a} => After(f, x) <= y
      BY <1>8, <2>1 DEF Tiling
    <3>2. y \notin DOMAIN f \ {a} => After(f, x) <= y
      <4>1. ASSUME y \notin DOMAIN f \ {a} PROVE a <= y /\ y < a + s
        BY <1>1, <1>4, <2>0, <4>1
      <4> QED
        BY <1>1, <1>2, <1>8, <2>0, <2>1, <4>1
    <3> QED
      BY <1>3, <2>1, <3>1, <3>2
  <2>2. CASE x \notin DOMAIN f \ {a}
    <3>1. a <= x /\ x < a + s /\ After(g, x) <= a + s
      BY <1>1, <1>3, <1>4, <2>0, <2>2
    <3>2. CASE y \in DOMAIN f \ {a}
      BY <1>1, <1>2, <1>3, <1>8, <2>0, <3>1, <3>2
    <3>3. CASE y \notin DOMAIN f \ {a}
      <4>1. y = a + p \/ y = a + p + n
        BY <1>1, <1>4, <1>8, <2>0, <3>1, <3>3
      <4>2. CASE y = a + p
        BY <1>3, <1>4, <1>8, <2>0, <2>2, <4>2
      <4>3. CASE y = a + p + n
        BY <1>1, <1>3, <1>4, <1>8, <2>0, <2>2, <4>3
      <4> QED
        BY <4>1, <4>2, <4>3
    <3> QED
      BY <3>2, <3>3
  <2> QED
    BY <2>1, <2>2
<1>9. a + s = e \/ a + s \in DOMAIN f \ {a}
  BY <1>1 DEF Tiling
<1>10. ASSUME NEW x \in DOMAIN g PROVE After(g, x) = e \/ After(g, x) \in DOMAIN g
  <2>1. CASE x \in DOMAIN f \ {a}
    <3>1. After(f, x) = e \/ After(f, x) \in DOMAIN f
      BY <2>1 DEF Tiling
    <3> QED
      BY <1>3, <1>5, <2>1, <3>1
  <2>2. CASE x = a /\ p > 0
    BY <1>3, <1>5, <2>2
  <2>3. CASE x = a + p
    <3>1. s > n + p \/ a + p + n = a + s
      BY <1>1 DEF s
    <3> QED
      BY <1>3, <1>5, <1>9, <2>3, <3>1
  <2>4. CASE x = a + p + n /\ s > n + p
    BY <1>3, <1>5, <1>9, <2>4
  <2> QED
    BY <1>4, <2>1, <2>2, <2>3, <2>4
<1>11. \E z \in DOMAIN g : After(g, z) = a + s
  <2>1. CASE s > n + p
    BY <1>3, <1>5, <2>1
  <2>2. CASE ~(s > n + p)
    <3>1. a + p + n = a + s
      BY <1>1, <2>2 DEF s
    <3> QED
      BY <1>3, <1>5, <3>1
  <2> QED
    BY <2>1, <2>2
<1>12. ASSUME NEW z \in DOMAIN f PROVE \E x \in DOMAIN g : After(g, x) = After(f, z)
  BY <1>1, <1>3, <1>5, <1>11
<1>13. ASSUME NEW y \in DOMAIN g, y # b PROVE \E x \in DOMAIN g : After(g, x) = y
  <2>1. CASE y \in DOMAIN f
    <3>1. PICK z \in DOMAIN f : After(f, z) = y
      BY <1>13, <2>1 DEF Tiling
    <3> QED
      BY <1>12, <3>1
  <2>2. CASE y = a + p /\ p > 0
    BY <1>3, <1>5, <2>2
  <2>3. CASE y = a + p + n
    BY <1>3, <1>5, <2>3
  <2>4. p = 0 => a + p = a
    BY <1>1
  <2> QED
    BY <1>4, <2>1, <2>2, <2>3, <2>4
<1>14. \E x \in DOMAIN g : After(g, x) = e
  BY <1>12 DEF Tiling
<1> QED
  BY <1>6, <1>7, <1>8, <1>10, <1>13, <1>14 DEF Tiling

\* No two free fragments touch.
Apart(f) == \A c, d \in DOMAIN f : After(f, c) = d => ~(f[c].free /\ f[d].free)

\* The free neighbours that free() looks for touch the fragment.
LEMMA NeighboursTouch ==
  ASSUME NEW f, NEW b \in Nat, NEW e \in Nat, Tiling(f, b, e), NEW a \in DOMAIN f
  PROVE  /\ Lower(f, a) = {c \in DOMAIN f : After(f, c) = a /\ f[c].free}
         /\ Upper(f, a) = {d \in DOMAIN f : After(f, a) = d /\ f[d].free}
<1>1. \A c \in DOMAIN f : c \in Nat /\ b <= c /\ c < e /\ After(f, c) \in Nat /\ c < After(f, c)
  BY Sized
<1>2. \A c, d \in DOMAIN f : c < d => After(f, c) <= d
  BY DEF Tiling
<1>3. ASSUME NEW c \in Lower(f, a) PROVE After(f, c) = a
  <2>1. c \in DOMAIN f /\ c < a /\ \A d \in DOMAIN f : d < a => d <= c
    BY DEF Lower
  <2>2. PICK z \in DOMAIN f : After(f, z) = a
    BY <1>1, <2>1 DEF Tiling
  <2>3. z <= c
    BY <1>1, <2>1, <2>2
  <2>4. ~(z < c)
    BY <1>1, <1>2, <2>1, <2>2
  <2>5. z = c
    BY <1>1, <2>1, <2>3, <2>4
  <2> QED
    BY <2>2, <2>5
<1>4. ASSUME NEW c \in DOMAIN f, After(f, c) = a PROVE c < a /\ \A d \in DOMAIN f : d < a => d <= c
  BY <1>1, <1>2, <1>4
<1>5. ASSUME NEW c \in Upper(f, a) PROVE After(f, a) = c
  <2>1. c \in DOMAIN f /\ c > a /\ \A d \in DOMAIN f : d > a => c <= d
    BY DEF Upper
  <2>2. After(f, a) <= c /\ c < e
    BY <1>1, <1>2, <2>1
  <2>3. e \in Nat /\ c \in Nat /\ After(f, a) \in Nat /\ a < After(f, a) /\ a \in Nat
    BY <1>1, <2>1
  <2>4. After(f, a) \in DOMAIN f
    BY <2>2, <2>3 DEF Tiling
  <2>5. c <= After(f, a)
    BY <2>1, <2>3, <2>4
  <2> QED
    BY <2>2, <2>3, <2>5
<1>6. ASSUME NEW c \in DOMAIN f, After(f, a) = c PROVE c > a /\ \A d \in DOMAIN f : d > a => c <= d
  BY <1>1, <1>2, <1>6
<1>7. Lower(f, a) = {c \in DOMAIN f : After(f, c) = a /\ f[c].free}
  BY <1>3, <1>4 DEF Lower
<1>8. Upper(f, a) = {d \in DOMAIN f : After(f, a) = d /\ f[d].free}
  BY <1>5, <1>6 DEF Upper
<1> QED
  BY <1>7, <1>8

\* The two steps of a merge, from f over h to m: with the fragment below, which makes k
\* the first address, and with the fragment above.
LowerStep(f, a, k, h) == \/ Lower(f, a) = {} /\ k = a /\ h = f
                         \/ k \in Lower(f, a) /\ h = Absorb(f, k, a)
UpperStep(h, k, m) == \/ Upper(h, k) = {} /\ m = h
                      \/ \E d \in Upper(h, k) : m = Absorb(h, k, d)

\* Merge takes these two steps.
LEMMA MergeSteps ==
  ASSUME NEW f, NEW a
  PROVE  \E h : LowerStep(f, a, Key(f, a), h) /\ UpperStep(h, Key(f, a), Merge(f, a))
<1>1. LowerStep(f, a, Key(f, a), MergeLower(f, a))
  BY Zenon DEF LowerStep, Key, MergeLower
<1>2. ASSUME NEW h, NEW k PROVE UpperStep(h, k, MergeUpper(h, k))
  BY Zenon DEF UpperStep, MergeUpper
<1> QED
  BY <1>1, <1>2, Zenon DEF Merge

\* What they come to.
LowerDone(f, a, k, h) ==
  /\ k \in DOMAIN f /\ After(h, k) = After(f, a)
  /\ \/ k = a /\ Lower(f, a) = {} /\ h = f
     \/ k # a /\ Lower(f, a) = {k} /\ After(f, k) = a /\ f[k].free
  /\ DOMAIN h = (DOMAIN f \ (Lower(f, a) \cup {a})) \cup {k}
  /\ h[k].discard = f[k].discard
  /\ \A x \in DOMAIN h \ {k} : h[x] = f[x]
UpperDone(h, k, m) ==
  /\ DOMAIN m = DOMAIN h \ Upper(h, k) /\ k \in DOMAIN m
  /\ m[k].discard = h[k].discard
  /\ \A x \in DOMAIN m \ {k} : m[x] = h[x]
  /\ \/ Upper(h, k) = {} /\ m = h
     \/ /\ Upper(h, k) = {After(h, k)} /\ After(h, k) \in DOMAIN h /\ h[After(h, k)].free
        /\ After(m, k) = After(h, After(h, k))

\* Merging with the free fragment below.
LEMMA LowerMerged ==
  ASSUME NEW f, NEW b \in Nat, NEW e \in Nat, Tiling(f, b, e), NEW a \in DOMAIN f,
         NEW k, NEW h, LowerStep(f, a, k, h)
  PROVE  Tiling(h, b, e) /\ LowerDone(f, a, k, h)
<1>1. Lower(f, a) = {c \in DOMAIN f : After(f, c) = a /\ f[c].free}
  BY NeighboursTouch
<1>2. CASE Lower(f, a) = {}
  BY <1>2 DEF LowerStep, LowerDone
<1>3. CASE Lower(f, a) # {}
  <2>1. k \in Lower(f, a)
    BY <1>3 DEF LowerStep
  <2>2. k \in DOMAIN f /\ After(f, k) = a /\ f[k].free /\ k # a
    <3>1. k \in DOMAIN f /\ After(f, k) = a /\ f[k].free
      BY <1>1, <2>1
    <3>2. k < After(f, k) /\ k \in Nat
      BY <3>1, Sized
    <3> QED
      BY <3>1, <3>2
  <2>3. Lower(f, a) = {k}
    <3>1. ASSUME NEW c \in Lower(f, a) PROVE c = k
      <4>1. c \in DOMAIN f /\ After(f, c) = After(f, k)
        BY <1>1, <2>2
      <4> QED
        BY <2>2, <4>1, OnePredecessor
    <3> QED
      BY <2>1, <3>1
  <2>4. h = Absorb(f, k, a)
    BY <1>3 DEF LowerStep
  <2>5. Tiling(h, b, e) /\ After(h, k) = After(f, a)
    BY <2>2, <2>4, AbsorbTiles
  <2>6. f[k] \in Fragment /\ f[a] \in Fragment
    BY <2>2 DEF Tiling
  <2>7. DOMAIN h = DOMAIN f \ {a} /\ h[k].discard = f[k].discard /\ \A x \in DOMAIN f \ {k, a} : h[x] = f[x]
    <3>1. /\ DOMAIN Absorb(f, k, a) = DOMAIN f \ {a} /\ Absorb(f, k, a)[k].discard = f[k].discard
          /\ \A x \in DOMAIN f \ {k, a} : Absorb(f, k, a)[x] = f[x]
      <4>1. k \in DOMAIN f /\ k # a
        BY <2>2
      <4> QED
        BY <2>6, <4>1, AbsorbShape
    <3> QED
      BY <2>4, <3>1, Zenon
  <2> QED
    BY <2>2, <2>3, <2>5, <2>7 DEF LowerDone
<1> QED
  BY <1>2, <1>3

\* Merging with the free fragment above.
LEMMA UpperMerged ==
  ASSUME NEW h, NEW b \in Nat, NEW e \in Nat, Tiling(h, b, e), NEW k \in DOMAIN h,
         NEW m, UpperStep(h, k, m)
  PROVE  Tiling(m, b, e) /\ UpperDone(h, k, m)
<1>1. Upper(h, k) = {d \in DOMAIN h : After(h, k) = d /\ h[d].free}
  BY NeighboursTouch
<1>2. CASE Upper(h, k) = {}
  BY <1>2 DEF UpperStep, UpperDone
<1>3. CASE Upper(h, k) # {}
  <2>1. PICK d : d = After(h, k)
    OBVIOUS
  <2>2. Upper(h, k) = {d} /\ d \in DOMAIN h /\ h[d].free
    BY <1>1, <1>3, <2>1
  <2>4. m = Absorb(h, k, d)
    BY <2>2, Zenon DEF UpperStep
  <2>5. Tiling(m, b, e) /\ After(m, k) = After(h, d)
    BY <2>1, <2>2, <2>4, AbsorbTiles
  <2>6. h[k] \in Fragment /\ h[d] \in Fragment /\ k # d
    <3>1. k < After(h, k) /\ k \in Nat
      BY Sized
    <3> QED
      BY <2>1, <2>2, <3>1 DEF Tiling
  <2>7. DOMAIN m = DOMAIN h \ {d} /\ m[k].discard = h[k].discard /\ \A x \in DOMAIN h \ {k, d} : m[x] = h[x]
    <3>1. /\ DOMAIN Absorb(h, k, d) = DOMAIN h \ {d} /\ Absorb(h, k, d)[k].discard = h[k].discard
          /\ \A x \in DOMAIN h \ {k, d} : Absorb(h, k, d)[x] = h[x]
      BY <2>2, <2>6, AbsorbShape
    <3> QED
      BY <2>4, <3>1, Zenon
  <2> QED
    BY <2>1, <2>2, <2>5, <2>6, <2>7 DEF UpperDone
<1> QED
  BY <1>2, <1>3

\* The fragment at a and its free neighbours have become one, between used fragments.
MergeDone(f, a, k, m) ==
  /\ k \in DOMAIN f /\ (k = a \/ k \in Lower(f, a)) /\ Lower(f, a) \subseteq {k}
  /\ DOMAIN m = (DOMAIN f \ (Lower(f, a) \cup Upper(f, a) \cup {a})) \cup {k}
  /\ m[k].discard = f[k].discard
  /\ \A x \in DOMAIN m \ {k} : m[x] = f[x]
  /\ \A x \in DOMAIN m : (After(m, x) = k \/ After(m, k) = x) => ~m[x].free

\* That is what the two steps come to.
LEMMA Merged ==
  ASSUME NEW f, NEW b \in Nat, NEW e \in Nat, Tiling(f, b, e), Apart(f), NEW a \in DOMAIN f,
         NEW k, NEW h, NEW m, LowerStep(f, a, k, h), UpperStep(h, k, m)
  PROVE  Tiling(m, b, e) /\ MergeDone(f, a, k, m)
<1>2. /\ Tiling(h, b, e) /\ k \in DOMAIN f /\ After(h, k) = After(f, a)
      /\ \/ k = a /\ Lower(f, a) = {} /\ h = f
         \/ k # a /\ Lower(f, a) = {k} /\ After(f, k) = a /\ f[k].free
      /\ DOMAIN h = (DOMAIN f \ (Lower(f, a) \cup {a})) \cup {k}
      /\ h[k].discard = f[k].discard
      /\ \A x \in DOMAIN h \ {k} : h[x] = f[x]
  <2>1. Tiling(h, b, e) /\ LowerDone(f, a, k, h)
    BY LowerMerged
  <2> QED
    BY <2>1 DEF LowerDone
<1>3. k \in DOMAIN h
  BY <1>2
<1>4. /\ Tiling(m, b, e)
      /\ DOMAIN m = DOMAIN h \ Upper(h, k) /\ k \in DOMAIN m
      /\ m[k].discard = h[k].discard
      /\ \A x \in DOMAIN m \ {k} : m[x] = h[x]
      /\ \/ Upper(h, k) = {} /\ m = h
         \/ /\ Upper(h, k) = {After(h, k)} /\ After(h, k) \in DOMAIN h /\ h[After(h, k)].free
            /\ After(m, k) = After(h, After(h, k))
  <2>1. Tiling(h, b, e)
    BY <1>2
  <2>2. Tiling(m, b, e) /\ UpperDone(h, k, m)
    BY <1>3, <2>1, UpperMerged
  <2> QED
    BY <2>2 DEF UpperDone
<1>5. Upper(f, a) = {d \in DOMAIN f : After(f, a) = d /\ f[d].free}
  BY NeighboursTouch
<1>6. a \in Nat /\ a < After(f, a) /\ k \in Nat /\ k <= a /\ After(f, a) \in Nat
  <2>1. a \in Nat /\ a < After(f, a) /\ After(f, a) \in Nat /\ k \in Nat /\ k < After(f, k)
    BY <1>2, Sized
  <2> QED
    BY <1>2, <2>1
<1>7. After(f, a) # k /\ After(f, a) # a /\ After(f, a) \notin Lower(f, a)
  BY <1>2, <1>6
<1>8. Upper(h, k) = Upper(f, a)
  <2>1. Upper(h, k) = {d \in DOMAIN h : After(h, k) = d /\ h[d].free}
    BY <1>2, <1>3, NeighboursTouch
  <2>2. After(f, a) \in DOMAIN h <=> After(f, a) \in DOMAIN f
    BY <1>2, <1>7
  <2>3. After(f, a) \in DOMAIN f => h[After(f, a)] = f[After(f, a)]
    BY <1>2, <1>7, <2>2
  <2> QED
    BY <1>2, <1>5, <2>1, <2>2, <2>3
<1>9. DOMAIN m = (DOMAIN f \ (Lower(f, a) \cup Upper(f, a) \cup {a})) \cup {k}
  <2>1. k \notin Upper(f, a)
    BY <1>5, <1>7
  <2> QED
    BY <1>2, <1>4, <1>8, <2>1
<1>10. \A x \in DOMAIN m \ {k} : m[x] = f[x] /\ x \in DOMAIN f /\ x # a /\ After(m, x) = After(f, x)
  <2>1. \A x \in DOMAIN m \ {k} : m[x] = f[x] /\ x \in DOMAIN f /\ x # a
    BY <1>2, <1>4
  <2> QED
    BY <2>1 DEF After
<1>11. ASSUME NEW x \in DOMAIN m, After(m, x) = k PROVE ~m[x].free
  <2>1. x # k
    <3>1. x < After(m, x) /\ x \in Nat
      BY <1>4, Sized
    <3> QED
      BY <1>11, <3>1
  <2>2. m[x] = f[x] /\ x \in DOMAIN f /\ After(f, x) = k
    BY <1>10, <1>11, <2>1
  <2>3. CASE k = a
    <3>1. Lower(f, a) = {}
      BY <1>2, <2>3
    <3>2. Lower(f, a) = {c \in DOMAIN f : After(f, c) = a /\ f[c].free}
      BY NeighboursTouch
    <3> QED
      BY <2>2, <2>3, <3>1, <3>2
  <2>4. CASE k # a
    BY <1>2, <2>2, <2>4 DEF Apart
  <2> QED
    BY <2>3, <2>4
<1>12. ASSUME NEW x \in DOMAIN m, After(m, k) = x PROVE ~m[x].free
  <2>1. x # k
    <3>1. k < After(m, k) /\ k \in Nat
      BY <1>4, Sized
    <3> QED
      BY <1>12, <3>1
  <2>2. m[x] = f[x] /\ x \in DOMAIN f /\ x # a
    BY <1>10, <2>1
  <2>3. CASE Upper(h, k) = {} /\ m = h
    BY <1>2, <1>5, <1>8, <1>12, <2>2, <2>3
  <2>4. CASE Upper(h, k) = {After(h, k)} /\ After(h, k) \in DOMAIN h /\ h[After(h, k)].free
             /\ After(m, k) = After(h, After(h, k))
    <3>1. PICK d : d = After(f, a)
      OBVIOUS
    <3>2. d \in DOMAIN f /\ f[d].free /\ h[d] = f[d]
      BY <1>2, <1>5, <1>7, <1>8, <2>4, <3>1
    <3>3. After(f, d) = x
      BY <1>2, <1>12, <2>4, <3>1, <3>2 DEF After
    <3> QED
      BY <2>2, <3>2, <3>3 DEF Apart
  <2> QED
    BY <1>4, <2>3, <2>4
<1>13. k \in DOMAIN f /\ (k = a \/ k \in Lower(f, a)) /\ Lower(f, a) \subseteq {k}
  BY <1>2
<1>14. m[k].discard = f[k].discard
  BY <1>2, <1>4
<1>15. \A x \in DOMAIN m \ {k} : m[x] = f[x]
  BY <1>10
<1>16. \A x \in DOMAIN m : (After(m, x) = k \/ After(m, k) = x) => ~m[x].free
  BY <1>11, <1>12
<1>17. MergeDone(f, a, k, m)
  BY <1>9, <1>13, <1>14, <1>15, <1>16, Zenon DEF MergeDone
<1> QED
  BY <1>4, <1>17, Zenon

\* A discarded block holds one used fragment and perhaps a free one after it; every other
\* block has the default size.
Marked(f, b, e) ==
  /\ \A c \in DOMAIN f : f[c].discard = f[b].discard
  /\ f[b].discard => ~f[b].free /\ \A c \in DOMAIN f \ {b} : c = After(f, b) /\ f[c].free
  /\ ~f[b].discard => e = b + BlockSize

\* The fragments of the block [b, e) as they are between two calls.
Sound(f, b, e) == Tiling(f, b, e) /\ Apart(f) /\ Marked(f, b, e)

\* The used fragments.
Taken(f) == {<<a, f[a].size>> : a \in {c \in DOMAIN f : ~f[c].free}}

\* The entries of the free neighbours of the fragment at a.
Around(f, a) == {<<f[c].size, c>> : c \in Lower(f, a) \cup Upper(f, a)}

\* Merge keeps the tiling.
LEMMA MergeTiles ==
  ASSUME NEW f, NEW b \in Nat, NEW e \in Nat, Tiling(f, b, e), Apart(f), NEW a \in DOMAIN f
  PROVE  Tiling(Merge(f, a), b, e) /\ MergeDone(f, a, Key(f, a), Merge(f, a))
<1>1. PICK h : LowerStep(f, a, Key(f, a), h) /\ UpperStep(h, Key(f, a), Merge(f, a))
  BY MergeSteps
<1> QED
  BY <1>1, Merged

\* A discarded block is always given back whole.
LEMMA DiscardedWhole ==
  ASSUME NEW f, NEW b \in Nat, NEW e \in Nat, Sound(f, b, e), NEW a \in DOMAIN f,
         ~f[a].free, f[a].discard, NEW k, NEW m, MergeDone(f, a, k, m)
  PROVE  DOMAIN m = {k}
<1>1. /\ a = b /\ \A c \in DOMAIN f \ {b} : c = After(f, b) /\ f[c].free
  BY DEF Sound, Marked
<1>2. Upper(f, a) = {d \in DOMAIN f : After(f, a) = d /\ f[d].free}
  BY NeighboursTouch DEF Sound
<1>3. \A c \in DOMAIN f \ {a} : c \in Upper(f, a)
  BY <1>1, <1>2
<1>4. DOMAIN m = (DOMAIN f \ (Lower(f, a) \cup Upper(f, a) \cup {a})) \cup {k}
  BY DEF MergeDone
<1> QED
  BY <1>3, <1>4

\* A block that is one fragment again: where it lies, and what the heap knew of it.
WholeDone(f, b, e, a, k, m) ==
  /\ k = b /\ m[k].size = e - b
  /\ f[b].discard = f[a].discard
  /\ ~f[a].discard => e - b = BlockSize
  /\ Offered(f) \subseteq Around(f, a)
  /\ Taken(f) = {<<a, f[a].size>>}

\* That is so when free() has merged everything.
LEMMA WholeBlock ==
  ASSUME NEW f, NEW b \in Nat, NEW e \in Nat, Sound(f, b, e), NEW a \in DOMAIN f, ~f[a].free,
         NEW k, NEW m, Tiling(m, b, e), MergeDone(f, a, k, m), DOMAIN m = {k}
  PROVE  WholeDone(f, b, e, a, k, m)
<1>1. b = k /\ After(m, b) = e
  BY DEF Tiling
<1>2. m[b].size \in Nat
  <2>1. b \in DOMAIN m
    BY DEF Tiling
  <2> QED
    BY <2>1, Sized
<1>3. m[k].size = e - b
  <2>1. ASSUME NEW s \in Nat, b + s = e PROVE s = e - b
    BY <2>1
  <2>2. m[b].size = e - b
    BY <1>1, <1>2, <2>1, Zenon DEF After
  <2> QED
    BY <1>1, <2>2, Zenon
<1>4. f[b].discard = f[a].discard /\ (~f[a].discard => e = b + BlockSize)
  BY DEF Sound, Marked
<1>5. DOMAIN f \subseteq Lower(f, a) \cup Upper(f, a) \cup {a}
  BY DEF MergeDone
<1>6. Offered(f) \subseteq Around(f, a)
  BY <1>5 DEF Offered, Around
<1>7. \A c \in Lower(f, a) \cup Upper(f, a) : f[c].free
  BY DEF Lower, Upper
<1>8. Taken(f) = {<<a, f[a].size>>}
  BY <1>5, <1>7 DEF Taken
<1> QED
  BY <1>1, <1>3, <1>4, <1>6, <1>8, BlockAssumption DEF WholeDone

\* The block after free() of a fragment: what is merged is offered.
PartDone(f, b, e, a, k, m, g) ==
  /\ Sound(g, b, e) /\ g[b].discard = f[b].discard
  /\ Offered(g) = (Offered(f) \ Around(f, a)) \cup {<<m[k].size, k>>}
  /\ Taken(g) = {r \in Taken(f) : r[1] # a}

\* A fragment given back to a block that stays: its neighbours' entries are replaced by the
\* one of the merged fragment, and it alone is no longer used.
LEMMA PartlyFree ==
  ASSUME NEW f, NEW b \in Nat, NEW e \in Nat, Sound(f, b, e), NEW a \in DOMAIN f, ~f[a].free,
         ~f[a].discard, NEW k, NEW m, Tiling(m, b, e), MergeDone(f, a, k, m),
         NEW g, g = Put(m, k, Unused(m[k].size))
  PROVE  PartDone(f, b, e, a, k, m, g)
<1>0. Tiling(f, b, e) /\ Apart(f) /\ Marked(f, b, e)
  BY DEF Sound
<1>1. k \in DOMAIN f /\ k \in DOMAIN m /\ (k = a \/ k \in Lower(f, a)) /\ Lower(f, a) \subseteq {k}
  BY DEF MergeDone
<1>2. DOMAIN m = (DOMAIN f \ (Lower(f, a) \cup Upper(f, a) \cup {a})) \cup {k}
  BY DEF MergeDone
<1>3. \A x \in DOMAIN m \ {k} : m[x] = f[x] /\ x \in DOMAIN f
  BY <1>2 DEF MergeDone
<1>4. m[k].size \in Nat \ {0}
  BY <1>1, Sized
<1>5. DOMAIN g = DOMAIN m /\ g[k] = Unused(m[k].size) /\ \A x \in DOMAIN m \ {k} : g[x] = m[x]
  BY <1>1 DEF Put
<1>6. g[k] \in Fragment /\ g[k].size = m[k].size /\ g[k].free /\ ~g[k].discard
  <2>1. /\ Unused(m[k].size) \in Fragment /\ Unused(m[k].size).size = m[k].size
        /\ Unused(m[k].size).free /\ ~Unused(m[k].size).discard
    BY <1>4, NewFragments
  <2> QED
    BY <1>5, <2>1, Zenon
<1>7. \A x \in DOMAIN m : After(g, x) = After(m, x)
  BY <1>5, <1>6 DEF After
<1>8. Tiling(g, b, e)
  <2>1. \A x \in DOMAIN g : g[x] \in Fragment
    BY <1>5, <1>6 DEF Tiling
  <2> QED
    BY <1>5, <1>7, <2>1 DEF Tiling
<1>9. ASSUME NEW c \in DOMAIN g, NEW d \in DOMAIN g, After(g, c) = d PROVE ~(g[c].free /\ g[d].free)
  <2>1. After(m, c) = d /\ c \in DOMAIN m /\ d \in DOMAIN m /\ c # d
    <3>1. c < After(g, c) /\ c \in Nat
      BY <1>8, Sized
    <3> QED
      BY <1>5, <1>7, <1>9, <3>1
  <2>2. \A x \in DOMAIN m : (After(m, x) = k \/ After(m, k) = x) => ~m[x].free
    BY DEF MergeDone
  <2>3. CASE c = k
    BY <1>5, <2>1, <2>2, <2>3
  <2>4. CASE d = k
    BY <1>5, <2>1, <2>2, <2>4
  <2>5. CASE c # k /\ d # k
    <3>1. g[c] = f[c] /\ g[d] = f[d] /\ c \in DOMAIN f /\ d \in DOMAIN f
      BY <1>3, <1>5, <2>1, <2>5
    <3>2. After(f, c) = d
      BY <1>9, <3>1 DEF After
    <3> QED
      BY <1>0, <3>1, <3>2 DEF Apart
  <2> QED
    BY <2>3, <2>4, <2>5
<1>10. \A c \in DOMAIN f : ~f[c].discard
  BY <1>0 DEF Marked
<1>11. \A c \in DOMAIN g : ~g[c].discard /\ g[c].discard \in BOOLEAN
  <2>1. \A c \in DOMAIN g : ~g[c].discard
    BY <1>3, <1>5, <1>6, <1>10
  <2> QED
    BY <2>1, <1>8 DEF Tiling, Fragment
<1>12. b \in DOMAIN g /\ b \in DOMAIN f
  BY <1>0, <1>8 DEF Tiling
<1>13. Marked(g, b, e)
  <2>1. e = b + BlockSize
    BY <1>0, <1>10, <1>12 DEF Marked
  <2>2. \A c \in DOMAIN g : g[c].discard = g[b].discard
    BY <1>11, <1>12, Zenon
  <2> QED
    BY <1>11, <1>12, <2>1, <2>2 DEF Marked
<1>14. g[b].discard = f[b].discard
  <2>1. f[b].discard \in BOOLEAN
    BY <1>0, <1>12 DEF Tiling, Fragment
  <2> QED
    BY <1>10, <1>11, <1>12, <2>1, Zenon
<1>15. Offered(g) = (Offered(f) \ Around(f, a)) \cup {<<m[k].size, k>>}
  <2>1. Offered(g) = {<<g[x].size, x>> : x \in {c \in DOMAIN g : g[c].free}}
    BY <1>11 DEF Offered
  <2>2. Offered(f) = {<<f[x].size, x>> : x \in {c \in DOMAIN f : f[c].free}}
    BY <1>10 DEF Offered
  <2>3. ASSUME NEW x \in DOMAIN g, g[x].free, x # k PROVE <<g[x].size, x>> \in Offered(f) \ Around(f, a)
    <3>1. g[x] = f[x] /\ x \in DOMAIN f /\ x \notin Lower(f, a) \cup Upper(f, a)
      BY <1>2, <1>3, <1>5, <2>3
    <3> QED
      BY <2>2, <2>3, <3>1 DEF Around
  <2>4. ASSUME NEW x \in DOMAIN f, f[x].free, <<f[x].size, x>> \notin Around(f, a)
        PROVE <<f[x].size, x>> \in Offered(g)
    <3>1. x \notin Lower(f, a) \cup Upper(f, a)
      BY <2>4 DEF Around
    <3>2. x # a /\ x # k
      BY <1>1, <2>4, <3>1
    <3>3. x \in DOMAIN g /\ g[x] = f[x]
      BY <1>2, <1>3, <1>5, <3>1, <3>2
    <3> QED
      BY <2>1, <2>4, <3>3
  <2>5. <<m[k].size, k>> \in Offered(g)
    BY <1>1, <1>5, <1>6, <2>1
  <2>6. Offered(g) \subseteq (Offered(f) \ Around(f, a)) \cup {<<m[k].size, k>>}
    BY <1>6, <2>1, <2>3
  <2>7. Offered(f) \ Around(f, a) \subseteq Offered(g)
    BY <2>2, <2>4
  <2> QED
    BY <2>5, <2>6, <2>7
<1>16. Taken(g) = {r \in Taken(f) : r[1] # a}
  <2>1. ASSUME NEW x \in DOMAIN g, ~g[x].free PROVE <<x, g[x].size>> \in Taken(f) /\ x # a
    <3>1. x # k
      BY <1>6, <2>1
    <3>2. g[x] = f[x] /\ x \in DOMAIN f /\ x # a
      BY <1>2, <1>3, <1>5, <2>1, <3>1
    <3> QED
      BY <2>1, <3>2 DEF Taken
  <2>2. ASSUME NEW x \in DOMAIN f, ~f[x].free, x # a PROVE <<x, f[x].size>> \in Taken(g)
    <3>1. x \notin Lower(f, a) \cup Upper(f, a)
      BY <2>2 DEF Lower, Upper
    <3>2. x # k
      BY <1>1, <2>2, <3>1
    <3>3. x \in DOMAIN g /\ g[x] = f[x]
      BY <1>2, <1>3, <1>5, <2>2, <3>1, <3>2
    <3> QED
      BY <2>2, <3>3 DEF Taken
  <2>3. Taken(g) \subseteq {r \in Taken(f) : r[1] # a}
    BY <2>1 DEF Taken
  <2>4. {r \in Taken(f) : r[1] # a} \subseteq Taken(g)
    BY <2>2 DEF Taken
  <2> QED
    BY <2>3, <2>4
<1>17. Sound(g, b, e)
  BY <1>8, <1>9, <1>13, <1>14, <1>15, <1>16 DEF Sound, Apart
<1> QED
  BY <1>8, <1>9, <1>13, <1>14, <1>15, <1>16, <1>17 DEF PartDone

\* A free fragment cut by alloc(): the block stays sound, the entry of the fragment is
\* replaced by those of the padding and the rest, and the pages in between are used.
LEMMA CutSound ==
  ASSUME NEW f, NEW b \in Nat, NEW e \in Nat, Sound(f, b, e), NEW a \in DOMAIN f,
         f[a].free, ~f[a].discard, NEW n \in Nat \ {0}, NEW p, p = Padding(a, n),
         NEW s, s = f[a].size, s >= n + p, NEW g, g = Cut(f, a, s, n)
  PROVE  /\ Sound(g, b, e) /\ g[b].discard = f[b].discard
         /\ Offered(g) = (Offered(f) \ {<<s, a>>}) \cup (IF p > 0 THEN {<<p, a>>} ELSE {})
                                                   \cup (IF s > n + p THEN {<<s - p - n, a + p + n>>} ELSE {})
         /\ Taken(g) = Taken(f) \cup {<<a + p, n>>}
<1>0. Tiling(f, b, e) /\ Apart(f) /\ Marked(f, b, e)
  BY DEF Sound
<1>1. a \in Nat /\ s \in Nat \ {0} /\ After(f, a) = a + s
  BY <1>0, Sized DEF After
<1>2. p \in Nat
  BY <1>1, PaddingAligns
<1>3. \A c \in DOMAIN f \ {a} : c \in Nat /\ (c < a \/ c >= a + s)
  <2>1. \A c \in DOMAIN f : c \in Nat
    BY <1>0, Sized
  <2>2. \A c \in DOMAIN f : a < c => After(f, a) <= c
    BY <1>0 DEF Tiling
  <2> QED
    BY <1>1, <2>1, <2>2
<1>4a. CutDone(f, a, s, n, p, g)
  BY <1>1, <1>2, <1>3, CutShape
<1>4. /\ DOMAIN g = DOMAIN f \cup {a + p} \cup (IF s > n + p THEN {a + p + n} ELSE {})
      /\ g[a + p] = Used(n)
      /\ p > 0 => g[a] = Unused(p)
      /\ s > n + p => g[a + p + n] = Unused(s - p - n)
      /\ \A c \in DOMAIN f \ {a} : g[c] = f[c]
  BY <1>4a DEF CutDone
<1>5. Tiling(g, b, e)
  <2>1. CutDone(f, a, f[a].size, n, p, g) /\ f[a].size >= n + p
    BY <1>4a, Zenon
  <2> QED
    BY <1>0, <1>2, <2>1, CutTiles
<1>6. Used(n).size = n /\ ~Used(n).free /\ ~Used(n).discard
  BY NewFragments
<1>7. p > 0 => Unused(p).size = p /\ Unused(p).free /\ ~Unused(p).discard
  BY <1>2, NewFragments
<1>8. s > n + p => Unused(s - p - n).size = s - p - n /\ Unused(s - p - n).free /\ ~Unused(s - p - n).discard
  <2>1. s > n + p => s - p - n \in Nat \ {0}
    BY <1>1, <1>2
  <2> QED
    BY <2>1, NewFragments
<1>9. \A x \in DOMAIN g : \/ x \in DOMAIN f \ {a} /\ g[x] = f[x]
                          \/ x = a /\ p > 0 /\ g[x] = Unused(p)
                          \/ x = a + p /\ g[x] = Used(n)
                          \/ x = a + p + n /\ s > n + p /\ g[x] = Unused(s - p - n)
  <2>1. p = 0 => a + p = a
    BY <1>1
  <2> QED
    BY <1>2, <1>4, <2>1
<1>10. \A c \in DOMAIN f : ~f[c].discard
  BY <1>0 DEF Marked
<1>11. \A c \in DOMAIN g : ~g[c].discard /\ g[c].discard \in BOOLEAN
  <2>1. \A c \in DOMAIN g : ~g[c].discard
    BY <1>6, <1>7, <1>8, <1>9, <1>10, Zenon
  <2> QED
    BY <1>5, <2>1 DEF Tiling, Fragment
<1>12. b \in DOMAIN g /\ b \in DOMAIN f
  BY <1>0, <1>5 DEF Tiling
<1>13. Marked(g, b, e)
  <2>1. e = b + BlockSize
    BY <1>0, <1>10, <1>12 DEF Marked
  <2>2. \A c \in DOMAIN g : g[c].discard = g[b].discard
    BY <1>11, <1>12, Zenon
  <2> QED
    BY <1>11, <1>12, <2>1, <2>2 DEF Marked
<1>14. g[b].discard = f[b].discard
  <2>1. f[b].discard \in BOOLEAN
    BY <1>0, <1>12 DEF Tiling, Fragment
  <2> QED
    BY <1>10, <1>11, <1>12, <2>1, Zenon
<1>15. ASSUME NEW c \in DOMAIN g, NEW d \in DOMAIN g, After(g, c) = d PROVE ~(g[c].free /\ g[d].free)
  <2>1. c \in Nat /\ d \in Nat /\ c < d
    BY <1>5, <1>15, Sized
  <2>2. \A x \in DOMAIN f : After(f, x) = a => ~f[x].free
    BY <1>0 DEF Apart
  <2>3. After(f, a) \in DOMAIN f => ~f[After(f, a)].free
    BY <1>0 DEF Apart
  <2>4. CASE c \in DOMAIN f \ {a} /\ g[c] = f[c]
    <3>1. After(f, c) = d
      BY <1>15, <2>4 DEF After
    <3>2. CASE d \in DOMAIN f \ {a} /\ g[d] = f[d]
      BY <1>0, <2>4, <3>1, <3>2 DEF Apart
    <3>3. CASE d = a
      BY <2>2, <2>4, <3>1, <3>3
    <3>4. c < a => After(f, c) <= a
      BY <1>0, <2>4 DEF Tiling
    <3>5. CASE d = a + p /\ p > 0
      BY <1>1, <1>2, <1>3, <2>1, <2>4, <3>1, <3>4, <3>5
    <3>6. CASE d = a + p + n /\ s > n + p
      BY <1>1, <1>2, <1>3, <2>1, <2>4, <3>1, <3>4, <3>6
    <3> QED
      BY <1>1, <1>2, <1>9, <3>2, <3>3, <3>5, <3>6
  <2>5. CASE c = a /\ p > 0 /\ g[c] = Unused(p)
    <3>1. After(g, c) = a + p
      BY <1>7, <2>5 DEF After
    <3> QED
      BY <1>4, <1>6, <1>15, <3>1
  <2>6. CASE c = a + p /\ g[c] = Used(n)
    BY <1>6, <2>6
  <2>7. CASE c = a + p + n /\ s > n + p /\ g[c] = Unused(s - p - n)
    <3>1. After(g, c) = a + s
      BY <1>1, <1>2, <1>8, <2>7 DEF After
    <3>2. d = a + s /\ d # a /\ d # a + p /\ d # a + p + n
      BY <1>1, <1>2, <1>15, <2>7, <3>1
    <3>3. d \in DOMAIN f \ {a} /\ g[d] = f[d]
      BY <1>9, <3>2
    <3> QED
      BY <1>1, <2>3, <3>2, <3>3
  <2> QED
    BY <1>9, <2>4, <2>5, <2>6, <2>7
<1>16. Offered(g) = (Offered(f) \ {<<s, a>>}) \cup (IF p > 0 THEN {<<p, a>>} ELSE {})
                                             \cup (IF s > n + p THEN {<<s - p - n, a + p + n>>} ELSE {})
  <2> DEFINE low == IF p > 0 THEN {<<p, a>>} ELSE {}
             high == IF s > n + p THEN {<<s - p - n, a + p + n>>} ELSE {}
  <2>1. Offered(g) = {<<g[x].size, x>> : x \in {c \in DOMAIN g : g[c].free}}
    BY <1>11 DEF Offered
  <2>2. Offered(f) = {<<f[x].size, x>> : x \in {c \in DOMAIN f : f[c].free}}
    BY <1>10 DEF Offered
  <2>3. ASSUME NEW x \in DOMAIN g, g[x].free
        PROVE <<g[x].size, x>> \in (Offered(f) \ {<<s, a>>}) \cup low \cup high
    <3>1. CASE x \in DOMAIN f \ {a} /\ g[x] = f[x]
      BY <2>2, <2>3, <3>1
    <3>2. CASE x = a /\ p > 0 /\ g[x] = Unused(p)
      BY <1>7, <3>2
    <3>3. CASE x = a + p /\ g[x] = Used(n)
      BY <1>6, <2>3, <3>3
    <3>4. CASE x = a + p + n /\ s > n + p /\ g[x] = Unused(s - p - n)
      BY <1>8, <3>4
    <3> QED
      BY <1>9, <3>1, <3>2, <3>3, <3>4
  <2>4. ASSUME NEW x \in DOMAIN f, f[x].free, x # a PROVE <<f[x].size, x>> \in Offered(g)
    <3>1. x \in DOMAIN g /\ g[x] = f[x]
      BY <1>4, <2>4
    <3> QED
      BY <2>1, <2>4, <3>1
  <2>5. low \subseteq Offered(g)
    <3>1. a \in DOMAIN g
      BY <1>4
    <3>2. p > 0 => g[a].free /\ g[a].size = p
      BY <1>4, <1>7
    <3> QED
      BY <2>1, <3>1, <3>2
  <2>6. high \subseteq Offered(g)
    <3>1. s > n + p => a + p + n \in DOMAIN g
      BY <1>4
    <3>2. s > n + p => g[a + p + n].free /\ g[a + p + n].size = s - p - n
      BY <1>4, <1>8
    <3> QED
      BY <2>1, <3>1, <3>2
  <2>7. Offered(f) \ {<<s, a>>} \subseteq Offered(g)
    BY <2>2, <2>4
  <2>8. Offered(g) \subseteq (Offered(f) \ {<<s, a>>}) \cup low \cup high
    BY <2>1, <2>3
  <2> QED
    BY <2>5, <2>6, <2>7, <2>8
<1>17. Taken(g) = Taken(f) \cup {<<a + p, n>>}
  <2>1. ASSUME NEW x \in DOMAIN g, ~g[x].free PROVE <<x, g[x].size>> \in Taken(f) \cup {<<a + p, n>>}
    <3>1. CASE x \in DOMAIN f \ {a} /\ g[x] = f[x]
      BY <2>1, <3>1 DEF Taken
    <3>2. CASE x = a /\ p > 0 /\ g[x] = Unused(p)
      BY <1>7, <2>1, <3>2
    <3>3. CASE x = a + p /\ g[x] = Used(n)
      BY <1>6, <3>3
    <3>4. CASE x = a + p + n /\ s > n + p /\ g[x] = Unused(s - p - n)
      BY <1>8, <2>1, <3>4
    <3> QED
      BY <1>9, <3>1, <3>2, <3>3, <3>4
  <2>2. ASSUME NEW x \in DOMAIN f, ~f[x].free PROVE <<x, f[x].size>> \in Taken(g)
    <3>1. x # a
      BY <2>2
    <3>2. x \in DOMAIN g /\ g[x] = f[x]
      BY <1>4, <3>1
    <3> QED
      BY <2>2, <3>2 DEF Taken
  <2>3. <<a + p, n>> \in Taken(g)
    <3>1. a + p \in DOMAIN g /\ ~g[a + p].free /\ g[a + p].size = n
      BY <1>4, <1>6
    <3> QED
      BY <3>1 DEF Taken
  <2>4. Taken(g) \subseteq Taken(f) \cup {<<a + p, n>>}
    BY <2>1 DEF Taken
  <2>5. Taken(f) \subseteq Taken(g)
    BY <2>2 DEF Taken
  <2> QED
    BY <2>3, <2>4, <2>5
<1> QED
  BY <1>5, <1>13, <1>14, <1>15, <1>16, <1>17 DEF Sound, Apart

\* A block whose first n pages are used and whose rest, if there is one, is free.
FirstUsed(g, b, size, n, discard) ==
  /\ DOMAIN g = {b} \cup (IF size > n THEN {b + n} ELSE {})
  /\ g[b] \in Fragment /\ g[b].size = n /\ ~g[b].free /\ g[b].discard = discard
  /\ size > n => /\ g[b + n] \in Fragment /\ g[b + n].size = size - n
                 /\ g[b + n].free /\ g[b + n].discard = discard

\* The block as StartBlock makes it, before it may be discarded.
Started(b, size, n) ==
  LET rest == IF size > n THEN {<<size - n, b + n>>} ELSE {}
  IN Put([c \in {e[2] : e \in rest} |-> Unused(size - n)], b, Used(n))

\* StartBlock makes such a block.
LEMMA StartedShape ==
  ASSUME NEW b \in Nat, NEW size \in Nat, NEW n \in Nat \ {0}, n <= size
  PROVE  /\ FirstUsed(Started(b, size, n), b, size, n, FALSE)
         /\ FirstUsed(Discarded(Started(b, size, n)), b, size, n, TRUE)
<1> DEFINE rest == IF size > n THEN {<<size - n, b + n>>} ELSE {}
           h == [c \in {e[2] : e \in rest} |-> Unused(size - n)]
           g == Put(h, b, Used(n))
           d == Discarded(g)
<1>0. {e[2] : e \in rest} = IF size > n THEN {b + n} ELSE {}
  <2>1. CASE size > n
    <3>1. rest = {<<size - n, b + n>>}
      BY <2>1
    <3>2. {e[2] : e \in {<<size - n, b + n>>}} = {b + n}
      OBVIOUS
    <3> QED
      BY <2>1, <3>1, <3>2
  <2>2. CASE ~(size > n)
    <3>1. rest = {}
      BY <2>2
    <3>2. {e[2] : e \in {}} = {}
      OBVIOUS
    <3> QED
      BY <2>2, <3>1, <3>2
  <2> QED
    BY <2>1, <2>2
<1> HIDE DEF rest
<1>1. DOMAIN h = IF size > n THEN {b + n} ELSE {}
  BY <1>0
<1>2. size > n => h[b + n] = Unused(size - n)
  BY <1>0
<1> HIDE DEF h
<1>3. DOMAIN g = {b} \cup (IF size > n THEN {b + n} ELSE {})
  BY <1>1 DEF Put
<1>4. g[b] = Used(n)
  BY DEF Put
<1>5. size > n => g[b + n] = Unused(size - n)
  <2>1. b + n # b
    OBVIOUS
  <2> QED
    BY <1>1, <1>2, <2>1 DEF Put
<1>6. Used(n) \in Fragment /\ Used(n).size = n /\ ~Used(n).free /\ Used(n).discard = FALSE
  BY DEF Used, Fragment
<1>7. size > n => /\ Unused(size - n) \in Fragment /\ Unused(size - n).size = size - n
                  /\ Unused(size - n).free /\ Unused(size - n).discard = FALSE
  BY DEF Unused, Fragment
<1> HIDE DEF g
<1>8. FirstUsed(g, b, size, n, FALSE)
  BY <1>3, <1>4, <1>5, <1>6, <1>7, Zenon DEF FirstUsed
<1>9. DOMAIN d = DOMAIN g /\ \A c \in DOMAIN g : d[c] = [g[c] EXCEPT !.discard = TRUE]
  BY DEF Discarded
<1> HIDE DEF d
<1>10. ASSUME NEW x \in Fragment, NEW y, y = [x EXCEPT !.discard = TRUE]
       PROVE  y \in Fragment /\ y.size = x.size /\ y.free = x.free /\ y.discard = TRUE
  BY <1>10, Zenon DEF Fragment
<1>11. d[b] \in Fragment /\ d[b].size = n /\ ~d[b].free /\ d[b].discard = TRUE
  <2>1. g[b] \in Fragment /\ d[b] = [g[b] EXCEPT !.discard = TRUE]
    BY <1>3, <1>4, <1>6, <1>9, Zenon
  <2>2. d[b] \in Fragment /\ d[b].size = g[b].size /\ d[b].free = g[b].free /\ d[b].discard = TRUE
    BY <2>1, <1>10, Zenon
  <2> QED
    BY <2>2, <1>4, <1>6, Zenon
<1>12. ASSUME size > n
       PROVE  /\ d[b + n] \in Fragment /\ d[b + n].size = size - n
              /\ d[b + n].free /\ d[b + n].discard = TRUE
  <2>1. g[b + n] \in Fragment /\ d[b + n] = [g[b + n] EXCEPT !.discard = TRUE]
    BY <1>3, <1>5, <1>7, <1>9, <1>12
  <2>2. d[b + n] \in Fragment /\ d[b + n].size = g[b + n].size /\ d[b + n].free = g[b + n].free /\ d[b + n].discard = TRUE
    BY <2>1, <1>10, Zenon
  <2> QED
    BY <2>2, <1>5, <1>7, <1>12, Zenon
<1>13. FirstUsed(d, b, size, n, TRUE)
  BY <1>3, <1>9, <1>11, <1>12, Zenon DEF FirstUsed
<1> QED
  BY <1>8, <1>13, Zenon DEF rest, g, h, d, Started

\* A new block is sound; its rest is offered unless it is discarded.
LEMMA FirstUsedSound ==
  ASSUME NEW b \in Nat, NEW size \in Nat, NEW n \in Nat \ {0}, n <= size, NEW g,
         NEW discard \in BOOLEAN, FirstUsed(g, b, size, n, discard), ~discard => size = BlockSize
  PROVE  /\ Sound(g, b, b + size) /\ g[b].discard = discard
         /\ Offered(g) = IF ~discard /\ size > n THEN {<<size - n, b + n>>} ELSE {}
         /\ Taken(g) = {<<b, n>>}
<1>1. /\ DOMAIN g = {b} \cup (IF size > n THEN {b + n} ELSE {})
      /\ g[b] \in Fragment /\ g[b].size = n /\ ~g[b].free /\ g[b].discard = discard
      /\ size > n => /\ g[b + n] \in Fragment /\ g[b + n].size = size - n
                     /\ g[b + n].free /\ g[b + n].discard = discard
  BY DEF FirstUsed
<1>2. After(g, b) = b + n /\ (size > n => After(g, b + n) = b + size)
  <2>1. After(g, b) = b + n
    BY <1>1 DEF After
  <2>2. ASSUME size > n PROVE After(g, b + n) = b + size
    BY <1>1, <2>2 DEF After
  <2> QED
    BY <2>1, <2>2
<1>3. \A c \in DOMAIN g : c = b \/ (c = b + n /\ size > n)
  BY <1>1
<1>4. Tiling(g, b, b + size)
  <2>1. DOMAIN g \subseteq b .. b + size - 1 /\ b \in DOMAIN g
    BY <1>1
  <2>2. \A c \in DOMAIN g : g[c] \in Fragment
    BY <1>1, <1>3
  <2>3. \A c, d \in DOMAIN g : c < d => After(g, c) <= d
    BY <1>2, <1>3
  <2>4. \A c \in DOMAIN g : After(g, c) = b + size \/ After(g, c) \in DOMAIN g
    BY <1>1, <1>2, <1>3
  <2>5. \A d \in DOMAIN g : d = b \/ \E c \in DOMAIN g : After(g, c) = d
    BY <1>2, <1>3, <2>1
  <2>6. \E c \in DOMAIN g : After(g, c) = b + size
    BY <1>1, <1>2
  <2> QED
    BY <2>1, <2>2, <2>3, <2>4, <2>5, <2>6 DEF Tiling
<1>5. Apart(g)
  <2>1. ASSUME NEW c \in DOMAIN g, NEW d \in DOMAIN g, After(g, c) = d PROVE ~(g[c].free /\ g[d].free)
    <3>1. c = b \/ d = b \/ c = d
      BY <1>3
    <3>2. c # d
      <4>1. c < After(g, c) /\ c \in Nat
        BY <1>4, Sized
      <4> QED
        BY <2>1, <4>1
    <3> QED
      BY <1>1, <3>1, <3>2
  <2> QED
    BY <2>1 DEF Apart
<1>6. \A c \in DOMAIN g : g[c].discard = discard
  BY <1>1, <1>3, Zenon
<1>7. Marked(g, b, b + size)
  <2>1. \A c \in DOMAIN g : g[c].discard = g[b].discard
    BY <1>1, <1>6, Zenon
  <2>2. \A c \in DOMAIN g \ {b} : c = After(g, b) /\ g[c].free
    BY <1>1, <1>2, <1>3
  <2>3. ~g[b].discard => b + size = b + BlockSize
    BY <1>1, Zenon
  <2> QED
    BY <1>1, <2>1, <2>2, <2>3, Zenon DEF Marked
<1>8. Offered(g) = IF ~discard /\ size > n THEN {<<size - n, b + n>>} ELSE {}
  <2>1. CASE discard
    <3>1. \A c \in DOMAIN g : g[c].discard
      BY <1>6, <2>1, Zenon
    <3> QED
      BY <2>1, <3>1 DEF Offered
  <2>2. CASE ~discard
    <3>1. \A c \in DOMAIN g : ~g[c].discard
      BY <1>6, <2>2, Zenon
    <3>2. Offered(g) = {<<g[x].size, x>> : x \in {c \in DOMAIN g : g[c].free}}
      BY <3>1 DEF Offered
    <3>3. CASE size > n
      <4>1. {c \in DOMAIN g : g[c].free} = {b + n}
        BY <1>1, <1>3, <3>3
      <4> QED
        BY <1>1, <2>2, <3>2, <3>3, <4>1
    <3>4. CASE ~(size > n)
      <4>1. {c \in DOMAIN g : g[c].free} = {}
        BY <1>1, <1>3, <3>4
      <4> QED
        BY <3>2, <3>4, <4>1
    <3> QED
      BY <3>3, <3>4
  <2> QED
    BY <2>1, <2>2
<1>9. Taken(g) = {<<b, n>>}
  <2>1. {c \in DOMAIN g : ~g[c].free} = {b}
    BY <1>1, <1>3
  <2> QED
    BY <1>1, <2>1 DEF Taken
<1> QED
  BY <1>1, <1>4, <1>5, <1>7, <1>8, <1>9, Zenon DEF Sound

-----------------------------------------------------------------------------
(* The blocks the heap uses. *)

\* Every block is sound, and no two overlap.
AllSound(bl) ==
  /\ IsFiniteSet(DOMAIN bl)
  /\ \A b \in DOMAIN bl : b \in Nat /\ End(bl[b]) \in Nat /\ Sound(bl[b], b, End(bl[b]))
  /\ \A b, c \in DOMAIN bl : b # c => End(bl[b]) <= c \/ End(bl[c]) <= b

Ranges(bl) == {<<b, End(bl[b]) - b>> : b \in DOMAIN bl}
OfferedBy(bl) == UNION {Offered(bl[b]) : b \in DOMAIN bl}
TakenBy(bl) == UNION {Taken(bl[b]) : b \in DOMAIN bl}

\* The blocks in_use_size counts.
InService(bl) == {c \in DOMAIN bl : ~bl[c][c].discard}

\* Entries and fragments lie in their block.
LEMMA Within ==
  ASSUME NEW f, NEW b \in Nat, NEW e \in Nat, Sound(f, b, e)
  PROVE  /\ \A r \in Offered(f) : r[2] \in DOMAIN f /\ r = <<f[r[2]].size, r[2]>> /\ r[2] \in b .. e - 1
                                  /\ f[r[2]].free /\ ~f[r[2]].discard
         /\ \A r \in Taken(f) : /\ r[1] \in DOMAIN f /\ r = <<r[1], f[r[1]].size>> /\ r[1] \in b .. e - 1
                                /\ r[2] \in Nat \ {0} /\ r[1] + r[2] <= e /\ ~f[r[1]].free
<1>1. \A c \in DOMAIN f : c \in b .. e - 1 /\ f[c].size \in Nat \ {0} /\ c + f[c].size <= e
  BY Sized DEF Sound, After
<1>2. ASSUME NEW r \in Offered(f)
      PROVE  r[2] \in DOMAIN f /\ r = <<f[r[2]].size, r[2]>> /\ r[2] \in b .. e - 1 /\ f[r[2]].free /\ ~f[r[2]].discard
  <2>1. PICK c \in DOMAIN f : f[c].free /\ ~f[c].discard /\ r = <<f[c].size, c>>
    BY <1>2 DEF Offered
  <2> QED
    BY <1>1, <2>1
<1>3. ASSUME NEW r \in Taken(f)
      PROVE  /\ r[1] \in DOMAIN f /\ r = <<r[1], f[r[1]].size>> /\ r[1] \in b .. e - 1
             /\ r[2] \in Nat \ {0} /\ r[1] + r[2] <= e /\ ~f[r[1]].free
  <2>1. PICK c \in DOMAIN f : ~f[c].free /\ r = <<c, f[c].size>>
    BY <1>3 DEF Taken
  <2> QED
    BY <1>1, <2>1
<1> QED
  BY <1>2, <1>3

\* An address belongs to at most one block.
LEMMA Elsewhere ==
  ASSUME NEW bl, AllSound(bl), NEW b \in DOMAIN bl
  PROVE  /\ \A r \in OfferedBy(bl) : r[2] \in b .. End(bl[b]) - 1 => r \in Offered(bl[b])
         /\ \A r \in TakenBy(bl) : r[1] \in b .. End(bl[b]) - 1 => r \in Taken(bl[b])
<1>1. \A c \in DOMAIN bl : c \in Nat /\ End(bl[c]) \in Nat /\ Sound(bl[c], c, End(bl[c]))
  BY DEF AllSound
<1>2. \A c \in DOMAIN bl : c # b => End(bl[b]) <= c \/ End(bl[c]) <= b
  BY DEF AllSound
<1>3. ASSUME NEW r \in OfferedBy(bl), r[2] \in b .. End(bl[b]) - 1 PROVE r \in Offered(bl[b])
  <2>1. PICK c \in DOMAIN bl : r \in Offered(bl[c])
    BY <1>3 DEF OfferedBy
  <2>2. r[2] \in c .. End(bl[c]) - 1
    BY <1>1, <2>1, Within
  <2>3. c = b
    BY <1>1, <1>2, <1>3, <2>2
  <2> QED
    BY <2>1, <2>3
<1>4. ASSUME NEW r \in TakenBy(bl), r[1] \in b .. End(bl[b]) - 1 PROVE r \in Taken(bl[b])
  <2>1. PICK c \in DOMAIN bl : r \in Taken(bl[c])
    BY <1>4 DEF TakenBy
  <2>2. r[1] \in c .. End(bl[c]) - 1
    BY <1>1, <2>1, Within, Zenon
  <2>3. c = b
    BY <1>1, <1>2, <1>4, <2>2
  <2> QED
    BY <2>1, <2>3
<1> QED
  BY <1>3, <1>4

\* upper_bound(a), one back, is the block that holds a.
LEMMA BlockOf ==
  ASSUME AllSound(block_list), NEW b \in DOMAIN block_list, NEW a \in b .. End(block_list[b]) - 1
  PROVE  Block(a) = b
<1>1. /\ \A c \in DOMAIN block_list : c \in Nat /\ End(block_list[c]) \in Nat /\ c < End(block_list[c])
      /\ \A c \in DOMAIN block_list : c # b => End(block_list[b]) <= c \/ End(block_list[c]) <= b
  <2>1. ASSUME NEW c \in DOMAIN block_list PROVE c \in Nat /\ End(block_list[c]) \in Nat /\ c < End(block_list[c])
    <3>1. c \in Nat /\ End(block_list[c]) \in Nat /\ Tiling(block_list[c], c, End(block_list[c]))
      BY DEF AllSound, Sound
    <3>2. c \in c .. End(block_list[c]) - 1
      BY <3>1 DEF Tiling
    <3> QED
      BY <3>1, <3>2
  <2> QED
    BY <2>1 DEF AllSound
<1>2. \A c \in DOMAIN block_list : c <= a => c <= b
  BY <1>1
<1>3. b <= a
  BY <1>1
<1>4. ASSUME NEW x \in DOMAIN block_list, x <= a, \A c \in DOMAIN block_list : c <= a => c <= x PROVE x = b
  BY <1>1, <1>2, <1>3, <1>4
<1> QED
  BY <1>2, <1>3, <1>4, Zenon DEF Block

\* Only the fragments of block b differ.
Changed(bl, bm, b) ==
  DOMAIN bm = DOMAIN bl /\ b \in DOMAIN bl /\ \A c \in DOMAIN bl \ {b} : bm[c] = bl[c]

\* Then the other blocks offer and hold what they did.
LEMMA OthersKeep ==
  ASSUME NEW bl, NEW bm, NEW b, Changed(bl, bm, b)
  PROVE  /\ OfferedBy(bm) \subseteq OfferedBy(bl) \cup Offered(bm[b])
         /\ Offered(bm[b]) \subseteq OfferedBy(bm)
         /\ OfferedBy(bl) \subseteq OfferedBy(bm) \cup Offered(bl[b])
         /\ TakenBy(bm) \subseteq TakenBy(bl) \cup Taken(bm[b])
         /\ Taken(bm[b]) \subseteq TakenBy(bm)
         /\ TakenBy(bl) \subseteq TakenBy(bm) \cup Taken(bl[b])
<1>1. DOMAIN bm = DOMAIN bl /\ b \in DOMAIN bl /\ \A c \in DOMAIN bl \ {b} : bm[c] = bl[c]
  BY DEF Changed
<1>2. ASSUME NEW c \in DOMAIN bm PROVE Offered(bm[c]) \subseteq OfferedBy(bl) \cup Offered(bm[b])
  BY <1>1 DEF OfferedBy
<1>3. ASSUME NEW c \in DOMAIN bl PROVE Offered(bl[c]) \subseteq OfferedBy(bm) \cup Offered(bl[b])
  BY <1>1 DEF OfferedBy
<1>4. ASSUME NEW c \in DOMAIN bm PROVE Taken(bm[c]) \subseteq TakenBy(bl) \cup Taken(bm[b])
  BY <1>1 DEF TakenBy
<1>5. ASSUME NEW c \in DOMAIN bl PROVE Taken(bl[c]) \subseteq TakenBy(bm) \cup Taken(bl[b])
  BY <1>1 DEF TakenBy
<1>6. /\ OfferedBy(bm) \subseteq OfferedBy(bl) \cup Offered(bm[b])
      /\ TakenBy(bm) \subseteq TakenBy(bl) \cup Taken(bm[b])
  <2>1. OfferedBy(bm) \subseteq OfferedBy(bl) \cup Offered(bm[b])
    <3>1. ASSUME NEW r \in OfferedBy(bm) PROVE r \in OfferedBy(bl) \cup Offered(bm[b])
      <4>1. PICK c \in DOMAIN bm : r \in Offered(bm[c])
        BY <3>1 DEF OfferedBy
      <4> QED
        BY <1>2, <4>1
    <3> QED
      BY <3>1
  <2>2. TakenBy(bm) \subseteq TakenBy(bl) \cup Taken(bm[b])
    <3>1. ASSUME NEW r \in TakenBy(bm) PROVE r \in TakenBy(bl) \cup Taken(bm[b])
      <4>1. PICK c \in DOMAIN bm : r \in Taken(bm[c])
        BY <3>1 DEF TakenBy
      <4> QED
        BY <1>4, <4>1
    <3> QED
      BY <3>1
  <2> QED
    BY <2>1, <2>2
<1>7. /\ OfferedBy(bl) \subseteq OfferedBy(bm) \cup Offered(bl[b])
      /\ TakenBy(bl) \subseteq TakenBy(bm) \cup Taken(bl[b])
  <2>1. OfferedBy(bl) \subseteq OfferedBy(bm) \cup Offered(bl[b])
    <3>1. ASSUME NEW r \in OfferedBy(bl) PROVE r \in OfferedBy(bm) \cup Offered(bl[b])
      <4>1. PICK c \in DOMAIN bl : r \in Offered(bl[c])
        BY <3>1 DEF OfferedBy
      <4> QED
        BY <1>3, <4>1
    <3> QED
      BY <3>1
  <2>2. TakenBy(bl) \subseteq TakenBy(bm) \cup Taken(bl[b])
    <3>1. ASSUME NEW r \in TakenBy(bl) PROVE r \in TakenBy(bm) \cup Taken(bl[b])
      <4>1. PICK c \in DOMAIN bl : r \in Taken(bl[c])
        BY <3>1 DEF TakenBy
      <4> QED
        BY <1>5, <4>1
    <3> QED
      BY <3>1
  <2> QED
    BY <2>1, <2>2
<1>8. Offered(bm[b]) \subseteq OfferedBy(bm) /\ Taken(bm[b]) \subseteq TakenBy(bm)
  BY <1>1 DEF OfferedBy, TakenBy
<1> QED
  BY <1>6, <1>7, <1>8

\* The fragments of one block change.
LEMMA Replaced ==
  ASSUME NEW bl, NEW bm, NEW b, Changed(bl, bm, b), AllSound(bl), Sound(bm[b], b, End(bl[b])),
         bm[b][b].discard = bl[b][b].discard
  PROVE  /\ AllSound(bm) /\ Ranges(bm) = Ranges(bl) /\ InService(bm) = InService(bl)
         /\ OfferedBy(bm) = (OfferedBy(bl) \ Offered(bl[b])) \cup Offered(bm[b])
         /\ TakenBy(bm) = (TakenBy(bl) \ Taken(bl[b])) \cup Taken(bm[b])
<1>1. DOMAIN bm = DOMAIN bl /\ b \in DOMAIN bl /\ \A c \in DOMAIN bl \ {b} : bm[c] = bl[c]
  BY DEF Changed
<1>2. b \in Nat /\ End(bl[b]) \in Nat /\ Sound(bl[b], b, End(bl[b]))
  BY <1>1 DEF AllSound
<1>3. End(bm[b]) = End(bl[b])
  BY <1>2, TilingEnd DEF Sound
<1>4. \A c \in DOMAIN bm : End(bm[c]) = End(bl[c])
  BY <1>1, <1>3
<1>5. AllSound(bm)
  <2>1. ASSUME NEW c \in DOMAIN bm PROVE c \in Nat /\ End(bm[c]) \in Nat /\ Sound(bm[c], c, End(bm[c]))
    <3>1. CASE c = b
      BY <1>2, <1>3, <3>1
    <3>2. CASE c # b
      BY <1>1, <3>2 DEF AllSound
    <3> QED
      BY <3>1, <3>2
  <2>2. \A c, d \in DOMAIN bm : c # d => End(bm[c]) <= d \/ End(bm[d]) <= c
    BY <1>1, <1>4 DEF AllSound
  <2>3. IsFiniteSet(DOMAIN bm)
    BY <1>1 DEF AllSound
  <2> QED
    BY <2>1, <2>2, <2>3 DEF AllSound
<1>6. Ranges(bm) = Ranges(bl)
  <2>1. \A c \in DOMAIN bl : <<c, End(bm[c]) - c>> = <<c, End(bl[c]) - c>>
    BY <1>1, <1>4
  <2> QED
    BY <1>1, <2>1, Zenon DEF Ranges
<1>7. InService(bm) = InService(bl)
  <2>1. ASSUME NEW c \in DOMAIN bl PROVE bm[c][c].discard = bl[c][c].discard
    BY <1>1
  <2> QED
    BY <1>1, <2>1 DEF InService
<1>8. OfferedBy(bm) = (OfferedBy(bl) \ Offered(bl[b])) \cup Offered(bm[b])
  <2>1. \A r \in Offered(bl[b]) : r[2] \in b .. End(bm[b]) - 1
    BY <1>2, <1>3, Within
  <2>2. \A r \in OfferedBy(bm) : r[2] \in b .. End(bm[b]) - 1 => r \in Offered(bm[b])
    BY <1>1, <1>5, Elsewhere
  <2>3. /\ OfferedBy(bm) \subseteq OfferedBy(bl) \cup Offered(bm[b])
        /\ Offered(bm[b]) \subseteq OfferedBy(bm)
        /\ OfferedBy(bl) \subseteq OfferedBy(bm) \cup Offered(bl[b])
    BY OthersKeep
  <2> QED
    BY <2>1, <2>2, <2>3
<1>9. TakenBy(bm) = (TakenBy(bl) \ Taken(bl[b])) \cup Taken(bm[b])
  <2>1. \A r \in Taken(bl[b]) : r[1] \in b .. End(bm[b]) - 1
    BY <1>2, <1>3, Within, Zenon
  <2>2. \A r \in TakenBy(bm) : r[1] \in b .. End(bm[b]) - 1 => r \in Taken(bm[b])
    BY <1>1, <1>5, Elsewhere
  <2>3. /\ TakenBy(bm) \subseteq TakenBy(bl) \cup Taken(bm[b])
        /\ Taken(bm[b]) \subseteq TakenBy(bm)
        /\ TakenBy(bl) \subseteq TakenBy(bm) \cup Taken(bl[b])
    BY OthersKeep
  <2> QED
    BY <2>1, <2>2, <2>3
<1> QED
  BY <1>5, <1>6, <1>7, <1>8, <1>9

\* The block at b is in bm and not in bl.
Extra(bl, bm, b) ==
  /\ b \notin DOMAIN bl /\ DOMAIN bm = DOMAIN bl \cup {b}
  /\ \A c \in DOMAIN bl : bm[c] = bl[c]

\* What a block more or less changes.
LEMMA ExtraBlock ==
  ASSUME NEW bl, NEW bm, NEW b, Extra(bl, bm, b)
  PROVE  /\ OfferedBy(bm) = OfferedBy(bl) \cup Offered(bm[b])
         /\ TakenBy(bm) = TakenBy(bl) \cup Taken(bm[b])
         /\ Ranges(bm) = Ranges(bl) \cup {<<b, End(bm[b]) - b>>}
         /\ InService(bm) = InService(bl) \cup (IF bm[b][b].discard THEN {} ELSE {b})
<1>1. b \notin DOMAIN bl /\ DOMAIN bm = DOMAIN bl \cup {b} /\ \A c \in DOMAIN bl : bm[c] = bl[c]
  BY DEF Extra
<1>2. OfferedBy(bm) = OfferedBy(bl) \cup Offered(bm[b])
  <2>1. ASSUME NEW r \in OfferedBy(bm) PROVE r \in OfferedBy(bl) \cup Offered(bm[b])
    <3>1. PICK c \in DOMAIN bm : r \in Offered(bm[c])
      BY <2>1 DEF OfferedBy
    <3> QED
      BY <1>1, <3>1 DEF OfferedBy
  <2>2. ASSUME NEW r \in OfferedBy(bl) PROVE r \in OfferedBy(bm)
    <3>1. PICK c \in DOMAIN bl : r \in Offered(bl[c])
      BY <2>2 DEF OfferedBy
    <3> QED
      BY <1>1, <3>1 DEF OfferedBy
  <2>3. Offered(bm[b]) \subseteq OfferedBy(bm)
    BY <1>1 DEF OfferedBy
  <2> QED
    BY <2>1, <2>2, <2>3
<1>3. TakenBy(bm) = TakenBy(bl) \cup Taken(bm[b])
  <2>1. ASSUME NEW r \in TakenBy(bm) PROVE r \in TakenBy(bl) \cup Taken(bm[b])
    <3>1. PICK c \in DOMAIN bm : r \in Taken(bm[c])
      BY <2>1 DEF TakenBy
    <3> QED
      BY <1>1, <3>1 DEF TakenBy
  <2>2. ASSUME NEW r \in TakenBy(bl) PROVE r \in TakenBy(bm)
    <3>1. PICK c \in DOMAIN bl : r \in Taken(bl[c])
      BY <2>2 DEF TakenBy
    <3> QED
      BY <1>1, <3>1 DEF TakenBy
  <2>3. Taken(bm[b]) \subseteq TakenBy(bm)
    BY <1>1 DEF TakenBy
  <2> QED
    BY <2>1, <2>2, <2>3
<1>4. Ranges(bm) = Ranges(bl) \cup {<<b, End(bm[b]) - b>>}
  <2>1. \A c \in DOMAIN bl : <<c, End(bm[c]) - c>> = <<c, End(bl[c]) - c>>
    BY <1>1
  <2> QED
    BY <1>1, <2>1 DEF Ranges
<1>5. InService(bm) = InService(bl) \cup (IF bm[b][b].discard THEN {} ELSE {b})
  BY <1>1 DEF InService
<1> QED
  BY <1>2, <1>3, <1>4, <1>5

\* Finite sets and their cardinality, from here on.
INSTANCE FiniteSetTheorems

\* A block is added.
LEMMA Added ==
  ASSUME NEW bl, NEW bm, NEW b \in Nat, NEW e \in Nat, Extra(bl, bm, b), AllSound(bl),
         Sound(bm[b], b, e), \A c \in DOMAIN bl : e <= c \/ End(bl[c]) <= b
  PROVE  AllSound(bm) /\ End(bm[b]) = e
<1>1. b \notin DOMAIN bl /\ DOMAIN bm = DOMAIN bl \cup {b} /\ \A c \in DOMAIN bl : bm[c] = bl[c]
  BY DEF Extra
<1>2. End(bm[b]) = e
  BY TilingEnd DEF Sound
<1>3. ASSUME NEW c \in DOMAIN bm PROVE c \in Nat /\ End(bm[c]) \in Nat /\ Sound(bm[c], c, End(bm[c]))
  <2>1. CASE c = b
    BY <1>2, <2>1
  <2>2. CASE c # b
    BY <1>1, <2>2 DEF AllSound
  <2> QED
    BY <2>1, <2>2
<1>4. ASSUME NEW c \in DOMAIN bm, NEW d \in DOMAIN bm, c # d PROVE End(bm[c]) <= d \/ End(bm[d]) <= c
  <2>1. CASE c = b
    BY <1>1, <1>2, <1>4, <2>1
  <2>2. CASE d = b
    BY <1>1, <1>2, <1>4, <2>2
  <2>3. CASE c # b /\ d # b
    BY <1>1, <1>4, <2>3 DEF AllSound
  <2> QED
    BY <2>1, <2>2, <2>3
<1>5. IsFiniteSet(DOMAIN bm)
  BY <1>1, FS_AddElement DEF AllSound
<1> QED
  BY <1>2, <1>3, <1>4, <1>5 DEF AllSound

\* A block is removed.
LEMMA Removed ==
  ASSUME NEW bl, NEW bm, NEW b, Extra(bl, bm, b), AllSound(bm)
  PROVE  /\ AllSound(bl)
         /\ OfferedBy(bl) = OfferedBy(bm) \ Offered(bm[b])
         /\ TakenBy(bl) = TakenBy(bm) \ Taken(bm[b])
         /\ Ranges(bl) = Ranges(bm) \ {<<b, End(bm[b]) - b>>}
         /\ InService(bl) = InService(bm) \ {b}
<1>1. b \notin DOMAIN bl /\ DOMAIN bm = DOMAIN bl \cup {b} /\ \A c \in DOMAIN bl : bm[c] = bl[c]
  BY DEF Extra
<1>2. AllSound(bl)
  <2>1. IsFiniteSet(DOMAIN bl)
    BY <1>1, FS_Subset DEF AllSound
  <2>2. \A c \in DOMAIN bl : c \in Nat /\ End(bl[c]) \in Nat /\ Sound(bl[c], c, End(bl[c]))
    BY <1>1 DEF AllSound
  <2>3. \A c, d \in DOMAIN bl : c # d => End(bl[c]) <= d \/ End(bl[d]) <= c
    BY <1>1 DEF AllSound
  <2> QED
    BY <2>1, <2>2, <2>3 DEF AllSound
<1>3. /\ OfferedBy(bm) = OfferedBy(bl) \cup Offered(bm[b])
      /\ TakenBy(bm) = TakenBy(bl) \cup Taken(bm[b])
      /\ Ranges(bm) = Ranges(bl) \cup {<<b, End(bm[b]) - b>>}
  BY ExtraBlock
<1>4. b \in Nat /\ End(bm[b]) \in Nat /\ Sound(bm[b], b, End(bm[b]))
  BY <1>1 DEF AllSound
<1>5. \A c \in DOMAIN bl : /\ c \in Nat /\ End(bl[c]) \in Nat /\ Sound(bl[c], c, End(bl[c]))
                           /\ c # b /\ (End(bm[b]) <= c \/ End(bl[c]) <= b)
  BY <1>1 DEF AllSound
<1>6. ASSUME NEW r \in OfferedBy(bl) PROVE r \notin Offered(bm[b])
  <2>1. PICK c \in DOMAIN bl : r \in Offered(bl[c])
    BY <1>6 DEF OfferedBy
  <2>2. r[2] \in c .. End(bl[c]) - 1
    BY <1>5, <2>1, Within, Zenon
  <2>3. r \in Offered(bm[b]) => r[2] \in b .. End(bm[b]) - 1
    BY <1>4, Within, Zenon
  <2>4. ~(r[2] \in b .. End(bm[b]) - 1)
    BY <1>4, <1>5, <2>2
  <2> QED
    BY <2>3, <2>4
<1>7. ASSUME NEW r \in TakenBy(bl) PROVE r \notin Taken(bm[b])
  <2>1. PICK c \in DOMAIN bl : r \in Taken(bl[c])
    BY <1>7 DEF TakenBy
  <2>2. r[1] \in c .. End(bl[c]) - 1
    BY <1>5, <2>1, Within, Zenon
  <2>3. r \in Taken(bm[b]) => r[1] \in b .. End(bm[b]) - 1
    BY <1>4, Within, Zenon
  <2>4. ~(r[1] \in b .. End(bm[b]) - 1)
    BY <1>4, <1>5, <2>2
  <2> QED
    BY <2>3, <2>4
<1>8. <<b, End(bm[b]) - b>> \notin Ranges(bl)
  BY <1>1 DEF Ranges
<1>9. InService(bl) = InService(bm) \ {b}
  BY <1>1 DEF InService
<1>10. OfferedBy(bl) = OfferedBy(bm) \ Offered(bm[b])
  BY <1>3, <1>6
<1>11. TakenBy(bl) = TakenBy(bm) \ Taken(bm[b])
  BY <1>3, <1>7
<1>12. Ranges(bl) = Ranges(bm) \ {<<b, End(bm[b]) - b>>}
  BY <1>3, <1>8
<1> QED
  BY <1>2, <1>9, <1>10, <1>11, <1>12

\* block_list_.insert and erase.
LEMMA InsertErase ==
  ASSUME NEW bl, NEW b, NEW g
  PROVE  /\ b \notin DOMAIN bl => Extra(bl, Put(bl, b, g), b) /\ Put(bl, b, g)[b] = g
         /\ b \in DOMAIN bl => Extra(Erase(bl, b), bl, b)
<1>1. b \notin DOMAIN bl => Extra(bl, Put(bl, b, g), b) /\ Put(bl, b, g)[b] = g
  BY DEF Put, Extra
<1>2. b \in DOMAIN bl => Extra(Erase(bl, b), bl, b)
  BY DEF Erase, Extra
<1> QED
  BY <1>1, <1>2

-----------------------------------------------------------------------------
(* Sizes and the cache. *)

\* The total of equal lengths.
LEMMA TotalOfEqual ==
  ASSUME NEW D, IsFiniteSet(D), NEW s \in Nat, NEW length, DOMAIN length = D,
         \A i \in D : length[i] = s
  PROVE  Total(length) = s * Cardinality(D)
<1>1. UNION {{i} \X (1 .. length[i]) : i \in DOMAIN length} = D \X (1 .. s)
  <2>1. ASSUME NEW p \in UNION {{i} \X (1 .. length[i]) : i \in DOMAIN length} PROVE p \in D \X (1 .. s)
    <3>1. PICK i \in D : p \in {i} \X (1 .. length[i])
      BY <2>1
    <3> QED
      BY <3>1
  <2>2. ASSUME NEW p \in D \X (1 .. s) PROVE p \in UNION {{i} \X (1 .. length[i]) : i \in DOMAIN length}
    <3>1. PICK i \in D, n \in 1 .. s : p = <<i, n>>
      BY <2>2
    <3>2. p \in {i} \X (1 .. length[i])
      BY <3>1
    <3> QED
      BY <3>1, <3>2
  <2> QED
    BY <2>1, <2>2
<1>2. IsFiniteSet(1 .. s) /\ Cardinality(1 .. s) = s
  BY FS_Interval
<1>3. Cardinality(D \X (1 .. s)) = Cardinality(D) * Cardinality(1 .. s)
  BY <1>2, FS_Product, Zenon
<1>4. Cardinality(D) \in Nat
  BY FS_CardinalityType
<1>5. Cardinality(D) * s = s * Cardinality(D)
  BY <1>4, Z3
<1> QED
  BY <1>1, <1>2, <1>3, <1>5, Zenon DEF Total

\* A set of natural numbers that has a member has a smallest one.
LEMMA HasMinimum ==
  ASSUME NEW T, T \subseteq Nat, T # {}
  PROVE  \E k \in T : \A j \in T : k <= j
<1>1. PICK k \in T : \A j \in T : ~(<<j, k>> \in OpToRel(<, Nat))
  BY NatLessThanWellFounded, WFMin
<1>2. ASSUME NEW j \in T PROVE k <= j
  <2>1. ~(j < k)
    BY <1>1, Zenon DEF OpToRel
  <2> QED
    BY <2>1
<1> QED
  BY <1>2

Cacheable == Bases \X {BlockSize}

\* A sequence of cached blocks is split after the first k.
Parts(q, k, old, rest) ==
  /\ old \in Seq(Cacheable) /\ Len(old) = k /\ \A i \in 1 .. k : old[i] = q[i]
  /\ rest \in Seq(Cacheable) /\ Len(rest) = Len(q) - k
  /\ \A i \in 1 .. Len(q) - k : rest[i] = q[i + k]

\* SubSeq gives the two parts.
LEMMA CacheParts ==
  ASSUME NEW q \in Seq(Cacheable), NEW k \in 0 .. Len(q)
  PROVE  Parts(q, k, SubSeq(q, 1, k), SubSeq(q, k + 1, Len(q)))
<1>1. /\ SubSeq(q, 1, k) \in Seq(Cacheable) /\ Len(SubSeq(q, 1, k)) = k
      /\ \A i \in 1 .. k : SubSeq(q, 1, k)[i] = q[i]
  OBVIOUS
<1>2. /\ SubSeq(q, k + 1, Len(q)) \in Seq(Cacheable)
      /\ Len(SubSeq(q, k + 1, Len(q))) = Len(q) - k
      /\ \A i \in 1 .. Len(q) - k : SubSeq(q, k + 1, Len(q))[i] = q[i + k]
  OBVIOUS
<1> QED
  BY <1>1, <1>2, Zenon DEF Parts

\* No block is lost or doubled by the split.
LEMMA PartsRange ==
  ASSUME NEW q \in Seq(Cacheable), IsInjective(q), NEW k \in 0 .. Len(q), NEW old, NEW rest,
         Parts(q, k, old, rest)
  PROVE  /\ IsInjective(rest)
         /\ Range(old) \cup Range(rest) = Range(q) /\ Range(old) \cap Range(rest) = {}
<1>1. /\ \A i \in 1 .. k : old[i] = q[i]
      /\ \A i \in 1 .. Len(q) - k : rest[i] = q[i + k]
  BY DEF Parts
<1>2. DOMAIN q = 1 .. Len(q) /\ DOMAIN old = 1 .. k /\ DOMAIN rest = 1 .. Len(q) - k /\ Len(q) \in Nat
  BY DEF Parts
<1>3. \A i, j \in 1 .. Len(q) : q[i] = q[j] => i = j
  BY <1>2 DEF IsInjective
<1>4. IsInjective(rest)
  <2>1. ASSUME NEW i \in 1 .. Len(q) - k, NEW j \in 1 .. Len(q) - k, rest[i] = rest[j] PROVE i = j
    <3>1. q[i + k] = q[j + k] /\ i + k \in 1 .. Len(q) /\ j + k \in 1 .. Len(q)
      BY <1>1, <1>2, <2>1
    <3> QED
      BY <1>2, <1>3, <3>1
  <2> QED
    BY <1>2, <2>1 DEF IsInjective
<1>5. ASSUME NEW x \in Range(q) PROVE x \in Range(old) \cup Range(rest)
  <2>1. PICK i \in 1 .. Len(q) : x = q[i]
    BY <1>2 DEF Range
  <2>2. CASE i <= k
    <3>1. i \in DOMAIN old /\ old[i] = x
      BY <1>1, <1>2, <2>1, <2>2
    <3> QED
      BY <3>1 DEF Range
  <2>3. CASE i > k
    <3>1. i - k \in 1 .. Len(q) - k /\ (i - k) + k = i
      BY <1>2, <2>3
    <3>2. rest[i - k] = x
      BY <1>1, <2>1, <3>1
    <3> QED
      BY <1>2, <3>1, <3>2 DEF Range
  <2> QED
    BY <2>2, <2>3
<1>6. ASSUME NEW x \in Range(old) PROVE x \in Range(q) /\ x \notin Range(rest)
  <2>1. PICK i \in 1 .. k : x = old[i]
    BY <1>2 DEF Range
  <2>2. x = q[i] /\ i \in 1 .. Len(q)
    BY <1>1, <1>2, <2>1
  <2>3. ASSUME NEW j \in 1 .. Len(q) - k PROVE x # rest[j]
    <3>1. j + k \in 1 .. Len(q) /\ i # j + k
      BY <1>2
    <3> QED
      BY <1>1, <1>3, <2>2, <3>1
  <2> QED
    BY <1>2, <2>2, <2>3 DEF Range
<1>7. ASSUME NEW x \in Range(rest) PROVE x \in Range(q)
  <2>1. PICK j \in 1 .. Len(q) - k : x = rest[j]
    BY <1>2 DEF Range
  <2>2. x = q[j + k] /\ j + k \in 1 .. Len(q)
    BY <1>1, <1>2, <2>1
  <2> QED
    BY <1>2, <2>2 DEF Range
<1> QED
  BY <1>4, <1>5, <1>6, <1>7

\* Their lengths are all the same.
LEMMA CacheLengths ==
  ASSUME NEW q \in Seq(Cacheable)
  PROVE  Lengths(q) = BlockSize * Len(q)
<1> DEFINE length == [i \in DOMAIN q |-> q[i][2]]
<1>1. DOMAIN q = 1 .. Len(q) /\ Len(q) \in Nat
  OBVIOUS
<1>2. \A i \in DOMAIN q : length[i] = BlockSize
  BY DEF Cacheable
<1>3. IsFiniteSet(1 .. Len(q)) /\ Cardinality(1 .. Len(q)) = Len(q)
  BY <1>1, FS_Interval
<1>4. BlockSize \in Nat
  BY BlockAssumption
<1>5. DOMAIN length = DOMAIN q
  OBVIOUS
<1> HIDE DEF length
<1>6. Total(length) = BlockSize * Cardinality(DOMAIN q)
  BY <1>1, <1>2, <1>3, <1>4, <1>5, TotalOfEqual
<1> QED
  BY <1>1, <1>3, <1>6 DEF length, Lengths

\* balance() stops as soon as its condition allows, and it does stop.
LEMMA BalanceStops ==
  ASSUME NEW q \in Seq(Cacheable), NEW in_use, NEW size
  PROVE  /\ Released(in_use, q, size) \in 0 .. Len(q)
         /\ Stops(in_use, q, size, Released(in_use, q, size))
<1> DEFINE T == {j \in 0 .. Len(q) : Stops(in_use, q, size, j)}
<1>1. Len(q) \in T
  <2>1. Len(q) \in 0 .. Len(q) /\ Len(q) - Len(q) <= 1
    OBVIOUS
  <2> QED
    BY <2>1 DEF Stops
<1>2. T \subseteq Nat /\ T # {}
  BY <1>1
<1>3. PICK m \in T : \A j \in T : m <= j
  BY <1>2, HasMinimum, Zenon
<1>4. m \in 0 .. Len(q) /\ Stops(in_use, q, size, m)
  OBVIOUS
<1>5. \A j \in 0 .. m - 1 : ~Stops(in_use, q, size, j)
  <2>1. ASSUME NEW j \in 0 .. m - 1 PROVE j \in 0 .. Len(q) /\ ~(m <= j)
    BY <1>4
  <2> QED
    BY <1>3, <2>1
<1>6. \E x \in 0 .. Len(q) : /\ Stops(in_use, q, size, x)
                            /\ \A j \in 0 .. x - 1 : ~Stops(in_use, q, size, j)
  BY <1>4, <1>5, Zenon
<1> QED
  BY <1>6, Zenon DEF Released

\* What balance() leaves of the cache: no more than one block, or than twice what is in use.
Balanced(q, in_use, size, old, rest) ==
  /\ rest \in Seq(Cacheable) /\ IsInjective(rest)
  /\ size - Lengths(old) = BlockSize * Len(rest)
  /\ Len(rest) <= 1 \/ size - Lengths(old) <= 2 * in_use
  /\ Range(old) \cup Range(rest) = Range(q) /\ Range(old) \cap Range(rest) = {}

\* That is so whatever the cache held.
LEMMA CacheBalanced ==
  ASSUME NEW q \in Seq(Cacheable), IsInjective(q), NEW in_use \in Nat, NEW size,
         size = BlockSize * Len(q)
  PROVE  LET k == Released(in_use, q, size)
         IN Balanced(q, in_use, size, SubSeq(q, 1, k), SubSeq(q, k + 1, Len(q)))
<1>1. PICK k \in 0 .. Len(q) : k = Released(in_use, q, size) /\ Stops(in_use, q, size, k)
  BY BalanceStops, Zenon
<1>2. PICK old, rest : old = SubSeq(q, 1, k) /\ rest = SubSeq(q, k + 1, Len(q))
  BY Zenon
<1>3. Parts(q, k, old, rest)
  BY <1>2, CacheParts, Zenon
<1>4. IsInjective(rest) /\ Range(old) \cup Range(rest) = Range(q) /\ Range(old) \cap Range(rest) = {}
  BY <1>3, PartsRange, Zenon
<1>5. old \in Seq(Cacheable) /\ Len(old) = k /\ rest \in Seq(Cacheable) /\ Len(rest) = Len(q) - k
  BY <1>3, Zenon DEF Parts
<1>6. Lengths(old) = BlockSize * k
  BY <1>5, CacheLengths, Zenon
<1>7. size - Lengths(old) = BlockSize * Len(rest)
  <2>1. BlockSize \in Nat /\ Len(q) \in Nat /\ k \in Nat
    BY BlockAssumption
  <2>2. (BlockSize * Len(q)) - (BlockSize * k) = BlockSize * (Len(q) - k)
    BY <2>1, Z3
  <2> QED
    BY <1>5, <1>6, <2>2, Zenon
<1>8. Len(rest) <= 1 \/ size - Lengths(old) <= 2 * in_use
  <2>1. Len(q) - k <= 1 \/ size - Lengths(old) <= in_use * 2
    BY <1>1, <1>2, Zenon DEF Stops
  <2>2. in_use * 2 = 2 * in_use
    OBVIOUS
  <2> QED
    BY <1>5, <2>1, <2>2, Zenon
<1>9. Balanced(q, in_use, size, old, rest)
  BY <1>4, <1>5, <1>7, <1>8, Zenon DEF Balanced
<1> QED
  BY <1>1, <1>2, <1>9, Zenon
=============================================================================
