-------------------------- MODULE SDMAQueue_proofs --------------------------
(***************************************************************************)
(* Theorems about SDMAQueue, for every ring size, any number of hosts and  *)
(* signals and any set of commands whose polls come first.                 *)
(***************************************************************************)
EXTENDS SDMAQueue, TLAPS

-----------------------------------------------------------------------------
(* Facts about % with a divisor that is not a literal, which the backends do not find by
   themselves. *)

\* Quotient and remainder recompose the dividend.
LEMMA DivMod ==
  ASSUME NEW n \in Nat \ {0}, NEW a \in Nat
  PROVE  /\ a \div n \in Nat
         /\ a % n \in 0 .. n - 1
         /\ a = (n * (a \div n)) + (a % n)
  BY Z3

\* Zero is the only multiple of n strictly between -n and n.
LEMMA NoMultiple ==
  ASSUME NEW n \in Nat \ {0}, NEW k \in Int, n * k < n, n * k > -n
  PROVE  k = 0
<1>1. ASSUME k >= 1 PROVE FALSE
  <2>1. n * k >= n * 1 BY <1>1, Z3
  <2>. QED BY <2>1, Z3
<1>2. ASSUME k <= -1 PROVE FALSE
  <2>1. n * k <= n * (-1) BY <1>2, Z3
  <2>. QED BY <2>1, Z3
<1>. QED BY <1>1, <1>2, Z3

\* A quotient and a remainder are determined by the dividend.
LEMMA DivModUnique ==
  ASSUME NEW n \in Nat \ {0}, NEW q \in Int, NEW r \in 0 .. n - 1,
         NEW p \in Int, NEW s \in 0 .. n - 1, (n * q) + r = (n * p) + s
  PROVE  q = p /\ r = s
<1>1. n * (q - p) = (n * q) - (n * p) BY Z3
<1>2. n * (q - p) = s - r BY <1>1, Z3
<1>3. q - p \in Int BY Z3
<1>4. q - p = 0 BY <1>2, <1>3, NoMultiple, Z3
<1>. QED BY <1>4, Z3

-----------------------------------------------------------------------------
(* Indexes, slots and sequences. *)

\* The sizes of the ring and of the run.
LEMMA Sizes == RingSize \in Nat \ {0} /\ MaxIndex \in Nat
  BY SdmaAssumption, Zenon

\* An index has a slot.
LEMMA WrapType ==
  ASSUME NEW a \in Nat PROVE Wrap(a) \in 0 .. RingSize - 1 /\ Wrap(a) \in Nat
<1>1. RingSize \in Nat \ {0}
  BY Sizes
<1>2. a % RingSize \in 0 .. RingSize - 1
  BY <1>1, DivMod
<1> QED
  BY <1>1, <1>2 DEF Wrap

\* An index a little further on, before the end of the ring, is in a slot as much further.
LEMMA WrapWithin ==
  ASSUME NEW a \in Nat, NEW d \in Nat, RingSize \in Nat \ {0}, Wrap(a) + d < RingSize
  PROVE  Wrap(a + d) = Wrap(a) + d
<1> DEFINE n == RingSize
<1>1. a \div n \in Nat /\ a % n \in 0 .. n - 1 /\ a = (n * (a \div n)) + (a % n)
  BY DivMod
<1>2. a + d \in Nat
  OBVIOUS
<1>3. (a + d) \div n \in Nat /\ (a + d) % n \in 0 .. n - 1 /\ a + d = (n * ((a + d) \div n)) + ((a + d) % n)
  BY <1>2, DivMod, Zenon
<1>4. (a % n) + d \in 0 .. n - 1
  BY <1>1 DEF Wrap
<1>5. PICK q \in Nat, r \in 0 .. n - 1 : q = a \div n /\ r = a % n
  BY <1>1
<1>6. PICK p \in Nat, s \in 0 .. n - 1 : p = (a + d) \div n /\ s = (a + d) % n
  BY <1>3
<1>7. n * q \in Int /\ n * p \in Int
  OBVIOUS
<1>8. (n * q) + (r + d) = (n * p) + s
  BY <1>1, <1>3, <1>5, <1>6, <1>7
<1>9. r + d = s
  <2>1. r + d \in 0 .. n - 1
    BY <1>4, <1>5
  <2> QED
    BY <2>1, <1>8, DivModUnique
<1> QED
  BY <1>5, <1>6, <1>9 DEF Wrap

\* The remainder of a negative number.
LEMMA DivModInt ==
  ASSUME NEW n \in Nat \ {0}, NEW a \in Int
  PROVE  /\ a \div n \in Int
         /\ a % n \in 0 .. n - 1
         /\ a = (n * (a \div n)) + (a % n)
  BY Z3

\* The distance from index b to the slot of an index a that is less than a ring away.
LEMMA WrapDistance ==
  ASSUME NEW a \in Nat, NEW b \in Nat, RingSize \in Nat \ {0}
  PROVE  /\ b <= a /\ a - b < RingSize => (Wrap(a) - b) % RingSize = a - b
         /\ a < b /\ b - a <= RingSize => (Wrap(a) - b) % RingSize = RingSize + a - b
<1> DEFINE n == RingSize
<1>1. PICK q \in Nat, r \in 0 .. n - 1 : r = a % n /\ a = (n * q) + r
  BY DivMod, Zenon
<1>2. r - b \in Int
  OBVIOUS
<1>3. PICK p \in Int, s \in 0 .. n - 1 : s = (r - b) % n /\ r - b = (n * p) + s
  BY <1>2, DivModInt, Zenon
<1>4. n * q \in Int /\ n * p \in Int
  OBVIOUS
<1>5. n * (q + p) = (n * q) + (n * p)
  BY Z3
<1>6. a - b = (n * (q + p)) + s
  BY <1>1, <1>3, <1>4, <1>5
<1>7. q + p \in Int
  OBVIOUS
<1>8. ASSUME b <= a, a - b < n PROVE s = a - b
  <2>1. a - b \in 0 .. n - 1
    BY <1>8
  <2>2. (n * (q + p)) + s = (n * 0) + (a - b)
    BY <1>6
  <2> QED
    BY <1>7, <2>1, <2>2, DivModUnique
<1>9. ASSUME a < b, b - a <= n PROVE s = n + a - b
  <2>1. n + a - b \in 0 .. n - 1
    BY <1>9
  <2>2. (n * (q + p)) + s = (n * (-1)) + (n + a - b)
    BY <1>6
  <2> QED
    BY <1>7, <2>1, <2>2, DivModUnique
<1> QED
  BY <1>1, <1>3, <1>8, <1>9 DEF Wrap

\* The elements of a sequence.
LEMMA Elements ==
  ASSUME NEW S, NEW q \in Seq(S)
  PROVE  \A k \in 1 .. Len(q) : q[k] \in S
  OBVIOUS

\* A concatenation, by its elements.
LEMMA Concat ==
  ASSUME NEW S, NEW p \in Seq(S), NEW q \in Seq(S)
  PROVE  /\ p \o q \in Seq(S) /\ Len(p \o q) = Len(p) + Len(q)
         /\ \A k \in 1 .. Len(p) + Len(q) : (p \o q)[k] = IF k <= Len(p) THEN p[k] ELSE q[k - Len(p)]
  OBVIOUS

\* An appended sequence, by its elements.
LEMMA Appended ==
  ASSUME NEW S, NEW q \in Seq(S), NEW r \in S
  PROVE  /\ Append(q, r) \in Seq(S) /\ Append(q, r) # <<>> /\ Len(Append(q, r)) = Len(q) + 1
         /\ Append(q, r)[Len(q) + 1] = r /\ \A k \in 1 .. Len(q) : Append(q, r)[k] = q[k]
  OBVIOUS

\* The first element of a concatenation.
LEMMA HeadOfConcat ==
  ASSUME NEW S, NEW p \in Seq(S), NEW q \in Seq(S), p # <<>>
  PROVE  Head(p) = (p \o q)[1] /\ Len(p \o q) \in Nat /\ Len(p \o q) >= 1
  OBVIOUS

\* What is left of a sequence without its first element.
LEMMA TailParts ==
  ASSUME NEW S, NEW q \in Seq(S), q # <<>>
  PROVE  /\ Tail(q) \in Seq(S) /\ Len(Tail(q)) = Len(q) - 1 /\ Len(q) \in Nat /\ Head(q) = q[1] /\ q[1] \in S
         /\ \A k \in 1 .. Len(Tail(q)) : k + 1 \in 1 .. Len(q) /\ 1 < k + 1 /\ Tail(q)[k] = q[k + 1]
  OBVIOUS

\* Appending to the second of two sequences, and dropping the first element of the first.
LEMMA ConcatSteps ==
  ASSUME NEW S, NEW p \in Seq(S), NEW q \in Seq(S), NEW r \in S
  PROVE  /\ p \o Append(q, r) = Append(p \o q, r)
         /\ p # <<>> => Tail(p) \o q = Tail(p \o q) /\ Head(p) = (p \o q)[1]
         /\ p = <<>> => p \o q = q /\ q \o <<>> = q
  OBVIOUS

-----------------------------------------------------------------------------
(* Types, and what leaves the parts of the invariant alone. *)

Ranges == (0 .. MaxIndex) \X (0 .. MaxIndex)
Slots == [index : Int, packet : Packets, after : SUBSET Signals]

\* The types the arithmetic below needs.
LEMMA Types ==
  ASSUME TypeOK
  PROVE  /\ reserved \in Nat /\ committed \in Nat /\ wptr_next \in Nat /\ wptr_pre \in Nat
         /\ rptr_next \in Nat /\ sync_value \in Nat /\ poll_pkt \in Nat /\ MaxIndex \in Nat
         /\ RingSize \in Nat \ {0}
         /\ pendings \in Seq(Ranges) /\ wptr_queue \in Seq(Ranges)
         /\ \A p \in Hosts : span[p] \in Ranges /\ span[p][1] \in Nat /\ span[p][2] \in Nat
<1>1. /\ {reserved, committed, wptr_next, wptr_pre, rptr_next, sync_value} \subseteq 0 .. MaxIndex
      /\ span \in [Hosts -> Ranges] /\ pendings \in Seq(Ranges) /\ wptr_queue \in Seq(Ranges)
      /\ poll_pkt \in 0 .. RingSize - 1
  BY Zenon DEF TypeOK, Ranges
<1>2. \A p \in Hosts : span[p] \in Ranges
  BY <1>1, Zenon
<1> QED
  BY <1>1, <1>2, Sizes DEF Ranges

\* The queue of ranges is a sequence of pairs of indexes.
LEMMA QueuedType ==
  ASSUME TypeOK
  PROVE  /\ Queued \in Seq(Ranges) /\ Len(Queued) \in Nat
         /\ \A k \in 1 .. Len(Queued) : Queued[k] \in Ranges /\ Queued[k][1] \in Nat /\ Queued[k][2] \in Nat
         /\ QueueEnd \in Nat
<1>1. Queued \in Seq(Ranges)
  BY Types, Concat DEF Queued
<1>2. Len(Queued) \in Nat /\ \A k \in 1 .. Len(Queued) : Queued[k] \in Ranges
  BY <1>1
<1>3. \A k \in 1 .. Len(Queued) : Queued[k][1] \in Nat /\ Queued[k][2] \in Nat
  <2>1. \A r \in Ranges : r[1] \in Nat /\ r[2] \in Nat
    BY Sizes DEF Ranges
  <2> QED
    BY <1>2, <2>1, Zenon
<1>4. QueueEnd \in Nat
  <2>1. CASE Queued = <<>>
    BY <2>1, Types DEF QueueEnd
  <2>2. CASE Queued # <<>>
    <3>1. Len(Queued) \in 1 .. Len(Queued)
      BY <1>1, <2>2
    <3> QED
      BY <1>3, <2>2, <3>1 DEF QueueEnd
  <2> QED
    BY <2>1, <2>2
<1> QED
  BY <1>1, <1>2, <1>3, <1>4

\* What the first range of the queue is.
LEMMA HeadRange ==
  ASSUME TypeOK, QueueInv, pc = "poll"
  PROVE  /\ pendings # <<>> /\ Queued # <<>> /\ 1 \in 1 .. Len(Queued)
         /\ Head(pendings) = Queued[1] /\ Head(pendings) \in Ranges
         /\ Head(pendings)[1] = rptr_next /\ Head(pendings)[1] < Head(pendings)[2]
         /\ Head(pendings)[2] <= QueueEnd /\ Head(pendings) \in Unsubmitted
<1>1. pendings # <<>> /\ pendings \in Seq(Ranges) /\ wptr_queue \in Seq(Ranges)
  BY Types DEF QueueInv
<1>2. Len(pendings) >= 1 /\ Head(pendings) = pendings[1] /\ Head(pendings) \in Ranges
  BY <1>1
<1>3. Len(Queued) >= 1 /\ Queued[1] = pendings[1] /\ Len(Queued) \in Nat
  BY <1>1, <1>2, Concat DEF Queued
<1>4. Queued # <<>> /\ 1 \in 1 .. Len(Queued)
  BY <1>3
<1>5. Queued[1][1] = rptr_next /\ Queued[1][1] < Queued[1][2] /\ Queued[1][2] <= QueueEnd
  BY <1>4 DEF QueueInv
<1> QED
  BY <1>1, <1>2, <1>3, <1>4, <1>5 DEF Unsubmitted

\* The queue is as it was.
LEMMA QueueFrame ==
  ASSUME QueueInv, UNCHANGED <<pendings, wptr_queue, rptr_next>>, pc' = "poll" <=> pc = "poll"
  PROVE  QueueInv' /\ Queued' = Queued /\ QueueEnd' = QueueEnd
  BY DEF QueueInv, Queued, QueueEnd

\* The hosts are as they were.
LEMMA HostFrame ==
  ASSUME HostInv, UNCHANGED <<ppc, span, reserved, committed, wptr_next, wptr_pre>>, QueueEnd' = QueueEnd
  PROVE  HostInv'
  BY Zenon DEF HostInv

\* The driver is as it was.
LEMMA DriverFrame ==
  ASSUME DriverInv, UNCHANGED <<ibs, sync_value, rptr_next, goff>>
  PROVE  DriverInv'
  BY Zenon DEF DriverInv

\* The ring is as it was.
LEMMA RingFrame ==
  ASSUME RingInv, UNCHANGED <<ring, reserved, sync_value>>
  PROVE  RingInv'
  BY Zenon DEF RingInv, Wrap

\* No signal is taken back.
SigDown == \A s \in Signals : sig[s] = 0 => sig'[s] = 0

\* The queue ends before what the hosts have not committed.
LEMMA EndBounds ==
  ASSUME TypeOK, QueueInv, HostInv
  PROVE  /\ QueueEnd <= reserved /\ rptr_next <= QueueEnd
         /\ \A p \in Hosts : ppc[p] \in {"written", "bell"} => QueueEnd <= span[p][1]
<1>1. rptr_next <= QueueEnd
  BY Zenon DEF QueueInv
<1>2. CASE \A p \in Hosts : ppc[p] \notin {"unlocked", "rung"}
  <2>1. QueueEnd = committed
    BY <1>2, Zenon DEF HostInv
  <2>2. \A p \in Hosts : ppc[p] \in {"written", "bell"} => committed <= span[p][1]
    BY DEF HostInv
  <2>3. committed <= reserved
    BY Zenon DEF HostInv
  <2> QED
    BY <1>1, <2>1, <2>2, <2>3
<1>3. CASE \E q \in Hosts : ppc[q] \in {"unlocked", "rung"}
  <2>1. PICK q \in Hosts : ppc[q] \in {"unlocked", "rung"}
    BY <1>3
  <2>2. QueueEnd = span[q][2] /\ span[q][1] = committed /\ span[q][2] <= reserved
    BY <2>1 DEF HostInv
  <2>3. ASSUME NEW p \in Hosts, ppc[p] \in {"written", "bell"} PROVE span[q][2] <= span[p][1]
    <3>1. p # q /\ ppc[p] # "idle" /\ ppc[q] # "idle"
      BY <2>1, <2>3
    <3>2. committed <= span[p][1] /\ span[p][1] < span[p][2]
      BY <3>1, Zenon DEF HostInv
    <3>3. span[p][2] <= span[q][1] \/ span[q][2] <= span[p][1]
      BY <3>1, Zenon DEF HostInv
    <3>4. committed \in Nat /\ span[p][1] \in Nat /\ span[p][2] \in Nat /\ span[q][1] \in Nat /\ span[q][2] \in Nat
      BY Types, Zenon
    <3> QED
      BY <2>2, <3>2, <3>3, <3>4
  <2> QED
    BY <1>1, <2>2, <2>3
<1> QED
  BY <1>2, <1>3

\* Where the ranges not submitted yet lie.
LEMMA RangeBounds ==
  ASSUME TypeOK, QueueInv, HostInv, NEW r \in Unsubmitted
  PROVE  /\ r \in Ranges /\ r[1] \in Nat /\ r[2] \in Nat
         /\ rptr_next <= r[1] /\ r[1] < r[2] /\ r[2] <= reserved
<1>1. QueueEnd <= reserved /\ rptr_next <= QueueEnd /\ QueueEnd \in Nat
  BY EndBounds, QueuedType
<1>2. ASSUME NEW k \in 1 .. Len(Queued), r = Queued[k] PROVE r \in Ranges /\ rptr_next <= r[1] /\ r[1] < r[2] /\ r[2] <= reserved
  <2>1. r \in Ranges /\ r[1] \in Nat /\ r[2] \in Nat
    BY <1>2, QueuedType
  <2>2. rptr_next <= r[1] /\ r[1] < r[2] /\ r[2] <= QueueEnd
    BY <1>2 DEF QueueInv
  <2>3. reserved \in Nat /\ rptr_next \in Nat
    BY Types, Zenon
  <2> QED
    BY <1>1, <2>1, <2>2, <2>3
<1>3. ASSUME NEW p \in Hosts, r = span[p], ppc[p] \in {"written", "bell"}
      PROVE  r \in Ranges /\ rptr_next <= r[1] /\ r[1] < r[2] /\ r[2] <= reserved
  <2>1. QueueEnd <= r[1] /\ r \in Ranges /\ r[1] \in Nat /\ r[2] \in Nat
    BY <1>3, EndBounds, Types
  <2>2. r[1] < r[2] /\ r[2] <= reserved
    BY <1>3 DEF HostInv
  <2>3. reserved \in Nat /\ rptr_next \in Nat
    BY Types, Zenon
  <2> QED
    BY <1>1, <2>1, <2>2, <2>3
<1>4. r \in Ranges /\ rptr_next <= r[1] /\ r[1] < r[2] /\ r[2] <= reserved
  BY <1>2, <1>3 DEF Unsubmitted
<1> QED
  BY <1>4, Types DEF Ranges

\* Two of them do not overlap.
LEMMA RangesApart ==
  ASSUME TypeOK, QueueInv, HostInv, NEW r \in Unsubmitted, NEW q \in Unsubmitted, r # q
  PROVE  r[2] <= q[1] \/ q[2] <= r[1]
<1> DEFINE Held(x, p) == p \in Hosts /\ x = span[p] /\ ppc[p] \in {"written", "bell"}
           At(x, k) == k \in 1 .. Len(Queued) /\ x = Queued[k]
<1>1. ASSUME NEW x \in Unsubmitted PROVE (\E k : At(x, k)) \/ \E p : Held(x, p)
  BY Zenon DEF Unsubmitted
<1>2. ASSUME NEW x, NEW k, At(x, k), NEW y, NEW p, Held(y, p) PROVE x[2] <= y[1]
  <2>1. x[2] <= QueueEnd /\ x[2] \in Nat
    BY <1>2, QueuedType DEF QueueInv
  <2>2. QueueEnd <= y[1] /\ y[1] \in Nat
    BY <1>2, EndBounds, Types
  <2> QED
    BY <2>1, <2>2, QueuedType
<1>3. ASSUME NEW j, NEW k, At(r, j), At(q, k) PROVE r[2] <= q[1] \/ q[2] <= r[1]
  <2>1. j # k /\ j \in Int /\ k \in Int
    BY <1>3
  <2>2. j < k \/ k < j
    BY <2>1
  <2> QED
    BY <1>3, <2>2, Zenon DEF QueueInv
<1>4. ASSUME NEW o, NEW p, Held(r, o), Held(q, p) PROVE r[2] <= q[1] \/ q[2] <= r[1]
  <2>1. o # p /\ ppc[o] # "idle" /\ ppc[p] # "idle"
    BY <1>4
  <2> QED
    BY <1>4, <2>1, Zenon DEF HostInv
<1> QED
  BY <1>1, <1>2, <1>3, <1>4

\* A command is as it was, or fewer signals are outstanding for it.
LEMMA CommandKept ==
  ASSUME TypeOK, RingInv, NEW r \in Ranges, Command(r), SigDown,
         \A i \in Wrap(r[1]) .. (Wrap(r[1]) + (r[2] - r[1])) - 1 : ring'[i] = ring[i],
         (pc' = "poll" /\ r[1] = rptr_next') <=> (pc = "poll" /\ r[1] = rptr_next),
         pc = "poll" /\ r[1] = rptr_next => poll_pkt' = poll_pkt
  PROVE  Command(r)'
<1> DEFINE bot == Wrap(r[1])
           top == bot + (r[2] - r[1])
           from == IF pc = "poll" /\ r[1] = rptr_next THEN poll_pkt ELSE bot
<1>0. \A i \in bot .. top - 1 : ring'[i] = ring[i]
  BY Zenon
<1>1. r[1] \in Nat /\ r[2] \in Nat /\ bot \in Nat /\ top \in Int /\ from \in Nat /\ RingSize \in Nat
  <2>1. r[1] \in Nat /\ r[2] \in Nat /\ RingSize \in Nat \ {0} /\ poll_pkt \in Nat
    BY Types DEF Ranges
  <2>2. bot \in Nat
    BY <2>1, WrapType
  <2> QED
    BY <2>1, <2>2
<1>2. from' = from
  BY DEF Wrap
<1>3. /\ top <= RingSize
      /\ bot <= from /\ from < top
      /\ ~Polling(ring[top - 1].packet)
  BY Zenon DEF Command
<1>4. \A i, j \in from .. top - 1 : i < j /\ Polling(ring[j].packet) => Polling(ring[i].packet)
  BY Zenon DEF Command
<1>5. \A i \in from .. top - 1 : ring'[i] = ring[i]
  <2>1. \A i \in from .. top - 1 : i \in bot .. top - 1
    BY <1>1, <1>3
  <2> QED
    BY <1>0, <2>1, Zenon
<1>6. ~Polling(ring'[top - 1].packet)
  <2>1. top - 1 \in from .. top - 1
    BY <1>1, <1>3
  <2> QED
    BY <1>3, <1>5, <2>1, Zenon
<1>7. \A i, j \in from .. top - 1 : i < j /\ Polling(ring'[j].packet) => Polling(ring'[i].packet)
  BY <1>4, <1>5, Zenon
<1>8. ASSUME NEW i \in bot .. top - 1, NEW s \in ring'[i].after
      PROVE  sig'[s] = 0 \/ \E j \in from .. i - 1 : ring'[j].packet \in {Poll(s), PollHi(s)}
  <2>1. ring'[i] = ring[i]
    BY <1>0, Zenon
  <2>2. sig[s] = 0 \/ \E j \in from .. i - 1 : ring[j].packet \in {Poll(s), PollHi(s)}
    BY <2>1, Zenon DEF Command
  <2>3. s \in Signals
    <3>1. i \in 0 .. RingSize - 1
      BY <1>1, <1>3
    <3> QED
      BY <2>1, <3>1 DEF RingInv
  <2>4. \A j \in from .. i - 1 : ring'[j] = ring[j]
    BY <1>1, <1>5
  <2> QED
    BY <2>2, <2>3, <2>4, Zenon DEF SigDown
<1>9. top <= RingSize /\ bot <= from' /\ from' < top
  BY <1>2, <1>3
<1> HIDE DEF from
<1> QED
  BY <1>2, <1>6, <1>7, <1>8, <1>9, Zenon DEF Command, Wrap, from

\* The commands are as they were, or fewer signals are outstanding for them.
LEMMA CommandFrame ==
  ASSUME TypeOK, QueueInv, HostInv, RingInv, CommandInv, SigDown, Unsubmitted' \subseteq Unsubmitted,
         UNCHANGED <<ring, rptr_next>>, pc' = "poll" <=> pc = "poll", pc = "poll" => poll_pkt' = poll_pkt
  PROVE  CommandInv'
<1>1. ASSUME NEW r \in Unsubmitted' PROVE Command(r)'
  <2>1. r \in Unsubmitted /\ Command(r)
    BY <1>1, Zenon DEF CommandInv
  <2>2. r \in Ranges
    BY <2>1, RangeBounds
  <2>3. /\ \A i \in Wrap(r[1]) .. (Wrap(r[1]) + (r[2] - r[1])) - 1 : ring'[i] = ring[i]
        /\ (pc' = "poll" /\ r[1] = rptr_next') <=> (pc = "poll" /\ r[1] = rptr_next)
        /\ pc = "poll" /\ r[1] = rptr_next => poll_pkt' = poll_pkt
    BY Zenon
  <2> QED
    BY <2>1, <2>2, <2>3, CommandKept
<1> QED
  BY <1>1, Zenon DEF CommandInv

\* A slot of the ring, by the index it holds.
LEMMA SlotType ==
  ASSUME TypeOK, RingInv, NEW i \in Nat
  PROVE  /\ Wrap(i) \in 0 .. RingSize - 1 /\ Wrap(i) \in Nat
         /\ ring[Wrap(i)] \in Slots /\ ring[Wrap(i)].after \subseteq Signals
<1>1. Wrap(i) \in 0 .. RingSize - 1 /\ Wrap(i) \in Nat
  BY WrapType
<1>2. ring[Wrap(i)] \in Slots
  BY <1>1, Zenon DEF RingInv, Slots
<1> QED
  BY <1>1, <1>2 DEF Slots

\* The ranges the driver holds are of indexes.
LEMMA IbType ==
  ASSUME DriverInv
  PROVE  \A k \in 1 .. Len(ibs) : ibs[k].start \in Nat /\ ibs[k].end \in Nat /\ ibs[k].fence \in Nat
<1>1. ibs \in Seq([start : Nat, end : Nat, fence : Nat])
  BY Zenon DEF DriverInv
<1>2. \A k \in 1 .. Len(ibs) : ibs[k] \in [start : Nat, end : Nat, fence : Nat]
  BY <1>1, Elements, Zenon
<1>3. ASSUME NEW x \in [start : Nat, end : Nat, fence : Nat] PROVE x.start \in Nat /\ x.end \in Nat /\ x.fence \in Nat
  OBVIOUS
<1> QED
  BY <1>2, <1>3, Zenon

\* The ranges the driver holds are as they were, or fewer, and the ring still holds them.
LEMMA CleanFrame ==
  ASSUME TypeOK, RingInv, DriverInv, CleanInv, SigDown, UNCHANGED ibs,
         \A i \in Nat : sync_value <= i /\ i < rptr_next => ring'[Wrap(i)].after = ring[Wrap(i)].after
  PROVE  CleanInv'
<1>1. ASSUME NEW k \in 1 .. Len(ibs), NEW i \in ibs[k].start .. ibs[k].end - 1, NEW s \in ring'[Wrap(i)].after
      PROVE  sig'[s] = 0
  <2>0. sync_value <= ibs[k].start /\ ibs[k].end <= rptr_next
    BY Zenon DEF DriverInv
  <2>1. ibs[k].start \in Nat /\ ibs[k].end \in Nat /\ rptr_next \in Nat /\ sync_value \in Nat
    BY IbType, Types, Zenon
  <2>2. i \in Nat /\ sync_value <= i /\ i < rptr_next
    BY <2>0, <2>1
  <2>3. s \in ring[Wrap(i)].after
    BY <2>2, Zenon
  <2>4. sig[s] = 0
    BY <2>3, Zenon DEF CleanInv
  <2>5. s \in Signals
    BY <2>2, <2>3, SlotType, Zenon
  <2> QED
    BY <2>4, <2>5, Zenon DEF SigDown
<1> QED
  BY <1>1, Zenon DEF CleanInv, Wrap

\* What the GPU has read last is as it was.
LEMMA ReadFrame ==
  ASSUME ReadInv, UNCHANGED executed, SigDown
  PROVE  ReadInv'
  BY Zenon DEF ReadInv, SigDown

\* The ring, the driver and the GPU are as they were, and no range was added.
LEMMA ContentFrame ==
  ASSUME IInv, SigDown, Unsubmitted' \subseteq Unsubmitted, UNCHANGED <<ring, rptr_next, ibs, gpuvars, reserved>>,
         pc' = "poll" <=> pc = "poll", pc = "poll" => poll_pkt' = poll_pkt
  PROVE  DriverInv' /\ RingInv' /\ CommandInv' /\ CleanInv' /\ ReadInv'
<1>1. UNCHANGED <<sync_value, goff, executed>>
  BY DEF gpuvars
<1>2. DriverInv' /\ RingInv' /\ ReadInv'
  BY <1>1, DriverFrame, RingFrame, ReadFrame, Zenon DEF IInv
<1>3. CommandInv'
  BY CommandFrame, Zenon DEF IInv
<1>4. \A i \in Nat : sync_value <= i /\ i < rptr_next => ring'[Wrap(i)].after = ring[Wrap(i)].after
  BY Zenon
<1>5. CleanInv'
  BY <1>4, CleanFrame, Zenon DEF IInv
<1> QED
  BY <1>2, <1>3, <1>5

\* The hosts' ranges that are not committed, and the queue, are as they were.
LEMMA UnsubmittedSame ==
  ASSUME Queued' = Queued, span' = span, \A p \in Hosts : ppc'[p] \in {"written", "bell"} => ppc[p] \in {"written", "bell"}
  PROVE  Unsubmitted' \subseteq Unsubmitted
  BY Zenon DEF Unsubmitted

-----------------------------------------------------------------------------
(* The host's steps. *)

\* A signal is completed.
LEMMA CompleteStep ==
  ASSUME IInv, NEW s \in Signals, Complete(s) PROVE IInv'
<1>1. UNCHANGED <<hostvars, bellvars, loopvars, pc, rptr_next, ibs, gpuvars, refused>>
  BY Zenon DEF Complete
<1>2. UNCHANGED <<ring, ppc, span, reserved, committed, wptr_next, hpc, wptr_pre, wptr_queue, thread_stop,
                  pendings, poll_pkt, sync_value, goff, executed>>
  BY <1>1, Zenon DEF hostvars, bellvars, loopvars, gpuvars
<1>3. sig \in [Signals -> {0, 1}]
  BY Zenon DEF IInv, TypeOK
<1>4. sig' \in [Signals -> {0, 1}] /\ SigDown
  BY <1>3 DEF Complete, SigDown
<1>5. TypeOK'
  BY <1>1, <1>2, <1>4, Zenon DEF IInv, TypeOK
<1>6. QueueInv' /\ Queued' = Queued /\ QueueEnd' = QueueEnd
  BY <1>1, <1>2, QueueFrame, Zenon DEF IInv
<1>7. HostInv'
  BY <1>2, <1>6, HostFrame, Zenon DEF IInv
<1>8. Unsubmitted' \subseteq Unsubmitted
  BY <1>2, <1>6, UnsubmittedSame, Zenon
<1> QED
  BY <1>1, <1>2, <1>4, <1>5, <1>6, <1>7, <1>8, ContentFrame, Zenon DEF IInv

\* Nothing but the state of the destructor and of the idle thread changes.
LEMMA ControlStep ==
  ASSUME IInv, UNCHANGED <<ring, ppc, span, reserved, committed, wptr_next, wptr_pre, wptr_queue, loopvars,
                           rptr_next, ibs, gpuvars, refused, sig>>,
         thread_stop' \in BOOLEAN, hpc' \in {"run", "notify", "join", "destroyed"},
         pc' \in {"top", "waiting", "poll", "exited"}, pc' = "poll" <=> pc = "poll"
  PROVE  IInv'
<1>1. UNCHANGED <<pendings, poll_pkt, sync_value, goff, executed>>
  BY Zenon DEF loopvars, gpuvars
<1>2. TypeOK'
  BY <1>1, Zenon DEF IInv, TypeOK
<1>3. QueueInv' /\ Queued' = Queued /\ QueueEnd' = QueueEnd
  BY <1>1, QueueFrame, Zenon DEF IInv
<1>4. HostInv'
  BY <1>3, HostFrame, Zenon DEF IInv
<1>5. Unsubmitted' \subseteq Unsubmitted
  BY <1>3, UnsubmittedSame, Zenon
<1>6. SigDown
  BY Zenon DEF SigDown
<1> QED
  BY <1>1, <1>2, <1>3, <1>4, <1>5, <1>6, ContentFrame, Zenon DEF IInv

\* The destructor's steps, and a wake without a notification.
LEMMA DestroySteps ==
  ASSUME IInv, DestroyStop \/ DestroyNotify \/ DestroyJoin \/ SpuriousWake \/ UNCHANGED vars PROVE IInv'
<1>1. /\ UNCHANGED <<ring, ppc, span, reserved, committed, wptr_next, wptr_pre, wptr_queue, loopvars,
                     rptr_next, ibs, gpuvars, refused, sig>>
  BY Zenon DEF DestroyStop, DestroyNotify, DestroyJoin, SpuriousWake, vars, hostvars, bellvars
<1>2. thread_stop \in BOOLEAN /\ hpc \in {"run", "notify", "join", "destroyed"} /\ pc \in {"top", "waiting", "poll", "exited"}
  BY Zenon DEF IInv, TypeOK
<1>3. thread_stop' \in BOOLEAN /\ hpc' \in {"run", "notify", "join", "destroyed"}
  BY <1>2, Zenon DEF DestroyStop, DestroyNotify, DestroyJoin, SpuriousWake, vars, hostvars, bellvars
<1>4. pc' \in {"top", "waiting", "poll", "exited"} /\ (pc' = "poll" <=> pc = "poll")
  BY <1>2 DEF DestroyStop, DestroyNotify, DestroyJoin, SpuriousWake, vars, NotifyOne
<1> QED
  BY <1>1, <1>3, <1>4, ControlStep, Zenon

\* While a host holds the first range to commit, every other one is behind it and waits.
LEMMA OnlyCommitter ==
  ASSUME TypeOK, HostInv, NEW p \in Hosts, ppc[p] # "idle", span[p][1] = committed, NEW q \in Hosts, q # p
  PROVE  ppc[q] \in {"idle", "written"} /\ (ppc[q] # "idle" => span[p][2] <= span[q][1])
<1>1. ASSUME ppc[q] # "idle" PROVE span[p][2] <= span[q][1] /\ span[q][1] # committed
  <2>1. committed <= span[q][1] /\ span[q][1] < span[q][2]
    BY <1>1, Zenon DEF HostInv
  <2>2. span[p][1] < span[p][2]
    BY Zenon DEF HostInv
  <2>3. span[p][2] <= span[q][1] \/ span[q][2] <= span[p][1]
    BY <1>1, Zenon DEF HostInv
  <2>4. committed \in Nat /\ span[p][1] \in Nat /\ span[p][2] \in Nat /\ span[q][1] \in Nat /\ span[q][2] \in Nat
    BY Types, Zenon
  <2> QED
    BY <2>1, <2>2, <2>3, <2>4
<1>2. ppc[q] \in {"bell", "unlocked", "rung"} => span[q][1] = committed
  BY Zenon DEF HostInv
<1>3. ppc[q] \in {"idle", "written", "bell", "unlocked", "rung"}
  BY Zenon DEF TypeOK
<1> QED
  BY <1>1, <1>2, <1>3

\* A host goes on from one state to the next.
LEMMA HostPc ==
  ASSUME TypeOK, NEW p \in Hosts, NEW c \in {"idle", "written", "bell", "unlocked", "rung"},
         ppc' = [ppc EXCEPT ![p] = c]
  PROVE  /\ ppc' \in [Hosts -> {"idle", "written", "bell", "unlocked", "rung"}]
         /\ ppc'[p] = c /\ \A q \in Hosts : q # p => ppc'[q] = ppc[q]
<1>1. ppc \in [Hosts -> {"idle", "written", "bell", "unlocked", "rung"}]
  BY Zenon DEF TypeOK
<1> QED
  BY <1>1

\* A host's step leaves the ring, the thread, the driver and the GPU alone.
LEMMA HostRest ==
  ASSUME IInv, NEW p \in Hosts, Host(p)
  PROVE  /\ UNCHANGED <<ring, reserved, hpc, thread_stop, pendings, poll_pkt, rptr_next, ibs, gpuvars,
                        sync_value, goff, executed, refused, sig>>
         /\ pc' \in {"top", "waiting", "poll", "exited"} /\ (pc' = "poll" <=> pc = "poll") /\ SigDown
<1>1. UNCHANGED <<ring, reserved, hpc, thread_stop, loopvars, rptr_next, ibs, gpuvars, refused, sig>>
  BY Zenon DEF Host, MoveWptr, RingDoorbell, DoorbellReturns, Committed, bellvars
<1>2. pc \in {"top", "waiting", "poll", "exited"}
  BY Zenon DEF IInv, TypeOK
<1>3. pc' = pc \/ NotifyOne
  BY Zenon DEF Host, MoveWptr, RingDoorbell, DoorbellReturns, Committed
<1> QED
  BY <1>1, <1>2, <1>3 DEF loopvars, gpuvars, SigDown, NotifyOne

\* The write pointer moves.
LEMMA MoveWptrStep ==
  ASSUME IInv, NEW p \in Hosts, MoveWptr(p) PROVE IInv'
<1>1. Host(p)
  BY Zenon DEF Host
<1>2. /\ ppc[p] = "written" /\ committed = span[p][1] /\ wptr_next' = span[p][2]
      /\ ppc' = [ppc EXCEPT ![p] = "bell"] /\ UNCHANGED <<span, committed, bellvars>>
  BY Zenon DEF MoveWptr
<1>3. UNCHANGED <<wptr_pre, wptr_queue, thread_stop>>
  BY <1>2, Zenon DEF bellvars
<1>4. /\ ppc' \in [Hosts -> {"idle", "written", "bell", "unlocked", "rung"}]
      /\ ppc'[p] = "bell" /\ \A q \in Hosts : q # p => ppc'[q] = ppc[q]
  BY <1>2, HostPc, Zenon DEF IInv
<1>5. QueueInv' /\ Queued' = Queued /\ QueueEnd' = QueueEnd
  BY <1>1, <1>3, HostRest, QueueFrame, Zenon DEF IInv
<1>6. Unsubmitted' \subseteq Unsubmitted
  BY <1>2, <1>4, <1>5, UnsubmittedSame
<1>7. TypeOK'
  <2>1. span[p] \in Ranges /\ {reserved, committed, wptr_next, wptr_pre, rptr_next, sync_value} \subseteq 0 .. MaxIndex
    BY Types, Zenon DEF IInv, TypeOK
  <2>2. {reserved', committed', wptr_next', wptr_pre', rptr_next', sync_value'} \subseteq 0 .. MaxIndex
    BY <1>1, <1>2, <1>3, <2>1, HostRest DEF Ranges
  <2> QED
    BY <1>1, <1>2, <1>3, <1>4, <2>2, HostRest, Zenon DEF IInv, TypeOK
<1>8. HostInv'
  <2>1. /\ HostInv /\ reserved' = reserved
        /\ \A q \in Hosts : q # p => ppc[q] \in {"idle", "written"}
    BY <1>1, <1>2, HostRest, OnlyCommitter DEF IInv
  <2>2. /\ committed' <= reserved'
        /\ \A q \in Hosts : ppc'[q] # "idle" =>
             committed' <= span'[q][1] /\ span'[q][1] < span'[q][2] /\ span'[q][2] <= reserved'
        /\ \A q, u \in Hosts : q # u /\ ppc'[q] # "idle" /\ ppc'[u] # "idle" =>
             span'[q][2] <= span'[u][1] \/ span'[u][2] <= span'[q][1]
    BY <1>2, <1>4, <2>1 DEF HostInv
  <2>3. QueueEnd = committed /\ wptr_pre = committed
    BY <1>2, <2>1 DEF HostInv
  <2> QED
    BY <1>2, <1>3, <1>4, <1>5, <2>1, <2>2, <2>3, Zenon DEF HostInv
<1>9. DriverInv' /\ RingInv' /\ CommandInv' /\ CleanInv' /\ ReadInv'
  BY <1>1, <1>6, HostRest, ContentFrame, Zenon
<1> QED
  BY <1>5, <1>7, <1>8, <1>9, Zenon DEF IInv

\* A range is added at the end of the queue.
LEMMA QueueAppend ==
  ASSUME IInv, NEW r \in Ranges, r[1] = QueueEnd, r[1] < r[2], wptr_queue' = Append(wptr_queue, r),
         UNCHANGED <<pendings, rptr_next>>, pc' = "poll" <=> pc = "poll"
  PROVE  QueueInv' /\ QueueEnd' = r[2] /\ Queued' = Append(Queued, r)
<1>1. pendings \in Seq(Ranges) /\ wptr_queue \in Seq(Ranges) /\ rptr_next \in Nat /\ r[1] \in Nat /\ r[2] \in Nat
  BY Types DEF IInv, Ranges
<1>2. /\ Queued \in Seq(Ranges) /\ Len(Queued) \in Nat /\ QueueEnd \in Nat
      /\ \A k \in 1 .. Len(Queued) : Queued[k] \in Ranges /\ Queued[k][1] \in Nat /\ Queued[k][2] \in Nat
  BY QueuedType DEF IInv
<1>3. Queued' = Append(Queued, r)
  <2>1. pendings \o Append(wptr_queue, r) = Append(pendings \o wptr_queue, r)
    BY <1>1, ConcatSteps
  <2>2. Queued' = pendings' \o wptr_queue'
    BY DEF Queued
  <2> QED
    BY <2>1, <2>2, Zenon DEF Queued
<1>4. /\ Len(Queued') = Len(Queued) + 1 /\ Queued' # <<>> /\ Queued'[Len(Queued) + 1] = r
      /\ \A k \in 1 .. Len(Queued) : Queued'[k] = Queued[k]
  <2>1. /\ Len(Append(Queued, r)) = Len(Queued) + 1 /\ Append(Queued, r) # <<>> /\ Append(Queued, r)[Len(Queued) + 1] = r
        /\ \A k \in 1 .. Len(Queued) : Append(Queued, r)[k] = Queued[k]
    BY <1>2, Appended
  <2> QED
    BY <1>3, <2>1, Zenon
<1>5. QueueEnd' = r[2]
  BY <1>4 DEF QueueEnd
<1>6. rptr_next' <= QueueEnd' /\ rptr_next <= r[1]
  BY <1>1, <1>5 DEF IInv, QueueInv
<1>7. ASSUME NEW k \in 1 .. Len(Queued')
      PROVE  /\ Queued'[k][1] = IF k = 1 THEN rptr_next' ELSE Queued'[k - 1][2]
             /\ rptr_next' <= Queued'[k][1] /\ Queued'[k][1] < Queued'[k][2] /\ Queued'[k][2] <= QueueEnd'
  <2>1. CASE k \in 1 .. Len(Queued)
    <3>1. /\ Queued[k][1] = IF k = 1 THEN rptr_next ELSE Queued[k - 1][2]
          /\ rptr_next <= Queued[k][1] /\ Queued[k][1] < Queued[k][2] /\ Queued[k][2] <= QueueEnd
      BY <2>1, Zenon DEF IInv, QueueInv
    <3>2. Queued'[k] = Queued[k] /\ (k # 1 => Queued'[k - 1] = Queued[k - 1])
      BY <1>2, <1>4, <2>1
    <3>3. Queued[k][2] <= r[2]
      <4>1. Queued[k][2] \in Nat /\ Queued[k][2] <= r[1]
        BY <1>2, <2>1, <3>1, Zenon
      <4> QED
        BY <1>1, <4>1
    <3> QED
      BY <1>5, <3>1, <3>2, <3>3, Zenon
  <2>2. CASE k = Len(Queued) + 1
    <3>1. Queued'[k] = r
      BY <1>4, <2>2
    <3>2. r[1] = IF k = 1 THEN rptr_next' ELSE Queued'[k - 1][2]
      <4>1. CASE Queued = <<>>
        BY <1>2, <2>2, <4>1 DEF QueueEnd
      <4>2. CASE Queued # <<>>
        <5>1. k # 1 /\ k - 1 = Len(Queued) /\ k - 1 \in 1 .. Len(Queued)
          BY <1>2, <2>2, <4>2
        <5> QED
          BY <1>4, <4>2, <5>1 DEF QueueEnd
      <4> QED
        BY <4>1, <4>2
    <3> QED
      BY <1>1, <1>5, <1>6, <3>1, <3>2
  <2> QED
    BY <1>2, <1>4, <2>1, <2>2
<1>8. ASSUME NEW j \in 1 .. Len(Queued'), NEW k \in 1 .. Len(Queued'), j < k PROVE Queued'[j][2] <= Queued'[k][1]
  <2>1. j \in 1 .. Len(Queued) /\ Queued'[j] = Queued[j]
    BY <1>2, <1>4, <1>8
  <2>2. CASE k \in 1 .. Len(Queued)
    BY <1>4, <1>8, <2>1, <2>2, Zenon DEF IInv, QueueInv
  <2>3. CASE k = Len(Queued) + 1
    <3>1. Queued[j][2] <= QueueEnd
      BY <2>1, Zenon DEF IInv, QueueInv
    <3> QED
      BY <1>4, <2>1, <2>3, <3>1
  <2> QED
    BY <1>2, <1>4, <2>2, <2>3
<1>9. pc' = "poll" <=> pendings' # <<>>
  BY DEF IInv, QueueInv
<1> QED
  BY <1>3, <1>5, <1>6, <1>7, <1>8, <1>9, Zenon DEF QueueInv

\* The doorbell queues the range the host holds.
LEMMA RingDoorbellStep ==
  ASSUME IInv, NEW p \in Hosts, RingDoorbell(p) PROVE IInv'
<1>1. Host(p) /\ TypeOK /\ HostInv /\ QueueInv
  BY Zenon DEF Host, IInv
<1>2. /\ ppc[p] = "bell" /\ wptr_queue' = Append(wptr_queue, <<wptr_pre, wptr_next>>)
      /\ ppc' = [ppc EXCEPT ![p] = "unlocked"] /\ UNCHANGED <<span, committed, wptr_next, wptr_pre>>
  BY Zenon DEF RingDoorbell
<1>3. /\ ppc' \in [Hosts -> {"idle", "written", "bell", "unlocked", "rung"}]
      /\ ppc'[p] = "unlocked" /\ \A q \in Hosts : q # p => ppc'[q] = ppc[q]
  BY <1>1, <1>2, HostPc, Zenon
<1>4. span[p][1] = committed /\ wptr_next = span[p][2]
  BY <1>1, <1>2 DEF HostInv
<1>5. \A q \in Hosts : q # p => ppc[q] \in {"idle", "written"}
  BY <1>1, <1>2, <1>4, OnlyCommitter
<1>6. wptr_pre = committed /\ QueueEnd = committed
  BY <1>1, <1>2, <1>5 DEF HostInv
<1>7. span[p] \in Ranges /\ span[p] = <<wptr_pre, wptr_next>> /\ span[p][1] < span[p][2]
  <2>1. span[p] \in Ranges
    BY <1>1, Types
  <2>2. span[p] = <<span[p][1], span[p][2]>>
    BY <2>1 DEF Ranges
  <2> QED
    BY <1>1, <1>2, <1>4, <1>6, <2>1, <2>2 DEF HostInv
<1>8. QueueInv' /\ QueueEnd' = span[p][2] /\ Queued' = Append(Queued, span[p])
  <2>1. PICK r \in Ranges : r = span[p]
    BY <1>7
  <2>2. r[1] = QueueEnd /\ r[1] < r[2] /\ wptr_queue' = Append(wptr_queue, r)
    BY <1>2, <1>4, <1>6, <1>7, <2>1
  <2> QED
    BY <1>1, <2>1, <2>2, QueueAppend, HostRest
<1>9. Unsubmitted' \subseteq Unsubmitted
  <2>1. Queued \in Seq(Ranges)
    BY <1>1, QueuedType
  <2>2. ASSUME NEW k \in 1 .. Len(Queued') PROVE Queued'[k] = span[p] \/ (k \in 1 .. Len(Queued) /\ Queued'[k] = Queued[k])
    <3>1. /\ Len(Queued') = Len(Queued) + 1 /\ Queued'[Len(Queued) + 1] = span[p] /\ Len(Queued) \in Nat
          /\ \A j \in 1 .. Len(Queued) : Queued'[j] = Queued[j]
      <4>1. PICK r \in Ranges : r = span[p]
        BY <1>7
      <4>2. /\ Len(Append(Queued, r)) = Len(Queued) + 1 /\ Append(Queued, r)[Len(Queued) + 1] = r /\ Len(Queued) \in Nat
            /\ \A j \in 1 .. Len(Queued) : Append(Queued, r)[j] = Queued[j]
        BY <2>1, Appended
      <4> QED
        BY <1>8, <4>1, <4>2, Zenon
    <3> QED
      BY <3>1
  <2> QED
    BY <1>2, <1>3, <2>2 DEF Unsubmitted
<1>10. TypeOK'
  <2>1. wptr_queue' \in Seq((0 .. MaxIndex) \X (0 .. MaxIndex))
    BY <1>1, <1>2, <1>7, Types DEF Ranges
  <2>2. {reserved', committed', wptr_next', wptr_pre', rptr_next', sync_value'} \subseteq 0 .. MaxIndex
    <3>1. {reserved, committed, wptr_next, wptr_pre, rptr_next, sync_value} \subseteq 0 .. MaxIndex
      BY <1>1, Zenon DEF TypeOK
    <3> QED
      BY <1>1, <1>2, <3>1, HostRest
  <2> QED
    BY <1>1, <1>2, <1>3, <2>1, <2>2, HostRest, Zenon DEF TypeOK
<1>11. HostInv'
  <2>1. reserved' = reserved
    BY <1>1, HostRest
  <2>2. /\ committed' <= reserved'
        /\ \A q \in Hosts : ppc'[q] # "idle" =>
             committed' <= span'[q][1] /\ span'[q][1] < span'[q][2] /\ span'[q][2] <= reserved'
        /\ \A q, u \in Hosts : q # u /\ ppc'[q] # "idle" /\ ppc'[u] # "idle" =>
             span'[q][2] <= span'[u][1] \/ span'[u][2] <= span'[q][1]
    BY <1>1, <1>2, <1>3, <2>1 DEF HostInv
  <2> QED
    BY <1>2, <1>3, <1>4, <1>5, <1>6, <1>8, <2>2, Zenon DEF HostInv
<1>12. DriverInv' /\ RingInv' /\ CommandInv' /\ CleanInv' /\ ReadInv'
  BY <1>1, <1>9, HostRest, ContentFrame, Zenon
<1> QED
  BY <1>8, <1>10, <1>11, <1>12, Zenon DEF IInv

\* The start of the next range is noted.
LEMMA DoorbellReturnsStep ==
  ASSUME IInv, NEW p \in Hosts, DoorbellReturns(p) PROVE IInv'
<1>1. Host(p) /\ TypeOK /\ HostInv /\ QueueInv
  BY Zenon DEF Host, IInv
<1>2. /\ ppc[p] = "unlocked" /\ wptr_pre' = wptr_next
      /\ ppc' = [ppc EXCEPT ![p] = "rung"] /\ UNCHANGED <<span, committed, wptr_next, wptr_queue>>
  BY Zenon DEF DoorbellReturns
<1>3. /\ ppc' \in [Hosts -> {"idle", "written", "bell", "unlocked", "rung"}]
      /\ ppc'[p] = "rung" /\ \A q \in Hosts : q # p => ppc'[q] = ppc[q]
  BY <1>1, <1>2, HostPc, Zenon
<1>4. span[p][1] = committed /\ wptr_next = span[p][2] /\ QueueEnd = span[p][2]
  BY <1>1, <1>2 DEF HostInv
<1>5. \A q \in Hosts : q # p => ppc[q] \in {"idle", "written"}
  BY <1>1, <1>2, <1>4, OnlyCommitter
<1>6. QueueInv' /\ Queued' = Queued /\ QueueEnd' = QueueEnd
  BY <1>1, <1>2, HostRest, QueueFrame, Zenon
<1>7. Unsubmitted' \subseteq Unsubmitted
  BY <1>2, <1>3, <1>6, UnsubmittedSame
<1>8. TypeOK'
  <2>1. {reserved', committed', wptr_next', wptr_pre', rptr_next', sync_value'} \subseteq 0 .. MaxIndex
    <3>1. {reserved, committed, wptr_next, wptr_pre, rptr_next, sync_value} \subseteq 0 .. MaxIndex
      BY <1>1, Zenon DEF TypeOK
    <3> QED
      BY <1>1, <1>2, <3>1, HostRest
  <2> QED
    BY <1>1, <1>2, <1>3, <2>1, HostRest, Zenon DEF TypeOK
<1>9. HostInv'
  <2>1. reserved' = reserved
    BY <1>1, HostRest
  <2>2. /\ committed' <= reserved'
        /\ \A q \in Hosts : ppc'[q] # "idle" =>
             committed' <= span'[q][1] /\ span'[q][1] < span'[q][2] /\ span'[q][2] <= reserved'
        /\ \A q, u \in Hosts : q # u /\ ppc'[q] # "idle" /\ ppc'[u] # "idle" =>
             span'[q][2] <= span'[u][1] \/ span'[u][2] <= span'[q][1]
    BY <1>1, <1>2, <1>3, <2>1 DEF HostInv
  <2> QED
    BY <1>2, <1>3, <1>4, <1>5, <1>6, <2>2, Zenon DEF HostInv
<1>10. DriverInv' /\ RingInv' /\ CommandInv' /\ CleanInv' /\ ReadInv'
  BY <1>1, <1>7, HostRest, ContentFrame, Zenon
<1> QED
  BY <1>6, <1>8, <1>9, <1>10, Zenon DEF IInv

\* The range is committed, and the host lets go of it.
LEMMA CommittedStep ==
  ASSUME IInv, NEW p \in Hosts, Committed(p) PROVE IInv'
<1>1. Host(p) /\ TypeOK /\ HostInv /\ QueueInv
  BY Zenon DEF Host, IInv
<1>2. /\ ppc[p] = "rung" /\ committed' = span[p][2] /\ span' = [span EXCEPT ![p] = Empty]
      /\ ppc' = [ppc EXCEPT ![p] = "idle"] /\ UNCHANGED <<wptr_next, wptr_pre, wptr_queue>>
  BY DEF Committed, bellvars
<1>3. /\ ppc' \in [Hosts -> {"idle", "written", "bell", "unlocked", "rung"}]
      /\ ppc'[p] = "idle" /\ \A q \in Hosts : q # p => ppc'[q] = ppc[q]
  BY <1>1, <1>2, HostPc, Zenon
<1>4. span[p][1] = committed /\ wptr_next = span[p][2] /\ QueueEnd = span[p][2] /\ wptr_pre = span[p][2] /\ span[p][2] <= reserved
  BY <1>1, <1>2 DEF HostInv
<1>5. \A q \in Hosts : q # p => ppc[q] \in {"idle", "written"} /\ (ppc[q] # "idle" => span[p][2] <= span[q][1])
  BY <1>1, <1>2, <1>4, OnlyCommitter
<1>6. QueueInv' /\ Queued' = Queued /\ QueueEnd' = QueueEnd
  BY <1>1, <1>2, HostRest, QueueFrame, Zenon
<1>7. \A q \in Hosts : q # p => span'[q] = span[q]
  BY <1>1, <1>2 DEF TypeOK
<1>8. Unsubmitted' \subseteq Unsubmitted
  BY <1>3, <1>6, <1>7 DEF Unsubmitted
<1>9. TypeOK'
  <2>1. {reserved', committed', wptr_next', wptr_pre', rptr_next', sync_value'} \subseteq 0 .. MaxIndex
    <3>1. {reserved, committed, wptr_next, wptr_pre, rptr_next, sync_value} \subseteq 0 .. MaxIndex
      BY <1>1, Zenon DEF TypeOK
    <3> QED
      BY <1>1, <1>2, <1>4, <3>1, HostRest
  <2>2. span' \in [Hosts -> (0 .. MaxIndex) \X (0 .. MaxIndex)]
    <3>1. span \in [Hosts -> (0 .. MaxIndex) \X (0 .. MaxIndex)]
      BY <1>1, Zenon DEF TypeOK
    <3>2. Empty \in (0 .. MaxIndex) \X (0 .. MaxIndex)
      BY Sizes DEF Empty
    <3> QED
      BY <1>2, <3>1, <3>2
  <2> QED
    BY <1>1, <1>2, <1>3, <2>1, <2>2, HostRest, Zenon DEF TypeOK
<1>10. HostInv'
  <2>1. reserved' = reserved
    BY <1>1, HostRest
  <2>2. /\ committed' <= reserved'
        /\ \A q \in Hosts : ppc'[q] # "idle" =>
             committed' <= span'[q][1] /\ span'[q][1] < span'[q][2] /\ span'[q][2] <= reserved'
        /\ \A q, u \in Hosts : q # u /\ ppc'[q] # "idle" /\ ppc'[u] # "idle" =>
             span'[q][2] <= span'[u][1] \/ span'[u][2] <= span'[q][1]
    BY <1>1, <1>2, <1>3, <1>4, <1>5, <1>7, <2>1 DEF HostInv
  <2> QED
    BY <1>2, <1>3, <1>4, <1>5, <1>6, <1>7, <2>2, Zenon DEF HostInv
<1>11. DriverInv' /\ RingInv' /\ CommandInv' /\ CleanInv' /\ ReadInv'
  BY <1>1, <1>8, HostRest, ContentFrame, Zenon
<1> QED
  BY <1>6, <1>9, <1>10, <1>11, Zenon DEF IInv

-----------------------------------------------------------------------------
(* The thread's steps. *)

\* A pass at the top of the loop: the queued ranges are taken, all of them.
LEMMA TopStep ==
  ASSUME IInv, Top PROVE IInv'
<1>1. TypeOK /\ HostInv /\ QueueInv
  BY Zenon DEF IInv
<1>2. UNCHANGED <<ring, ppc, span, reserved, committed, wptr_next, hpc, wptr_pre, thread_stop, rptr_next, ibs,
                  gpuvars, refused, sig>>
  BY Zenon DEF Top, hostvars
<1>3. ASSUME pc' \in {"waiting", "exited"}, UNCHANGED <<pendings, wptr_queue, poll_pkt>>, pc = "top" PROVE IInv'
  <2>1. pc' \in {"top", "waiting", "poll", "exited"} /\ (pc' = "poll" <=> pc = "poll")
    BY <1>3
  <2>2. thread_stop' \in BOOLEAN /\ hpc' \in {"run", "notify", "join", "destroyed"}
    BY <1>1, <1>2, Zenon DEF TypeOK
  <2> QED
    BY <1>2, <1>3, <2>1, <2>2, ControlStep, Zenon DEF loopvars
<1>4. ASSUME pc = "top", pc' = "poll", ~Idle, ~thread_stop, Swap, poll_pkt' = Wrap(Head(wptr_queue)[1]) PROVE IInv'
  <2>1. wptr_queue # <<>> /\ pendings = <<>> /\ wptr_queue \in Seq(Ranges) /\ pendings \in Seq(Ranges)
    BY <1>1, <1>4, Types DEF Idle, QueueInv
  <2>2. Queued = wptr_queue /\ wptr_queue \o <<>> = wptr_queue
    BY <2>1, ConcatSteps DEF Queued
  <2>3. pendings' = wptr_queue /\ wptr_queue' = <<>>
    BY <1>4 DEF Swap
  <2>4. Queued' = Queued
    <3>1. Queued' = pendings' \o wptr_queue'
      BY DEF Queued
    <3> QED
      BY <2>2, <2>3, <3>1, Zenon
  <2>5. QueueEnd' = QueueEnd
    BY <1>2, <2>4 DEF QueueEnd
  <2>6. QueueInv'
    <3>1. pc' = "poll" <=> pendings' # <<>>
      BY <1>4, <2>1, <2>3
    <3> QED
      BY <1>1, <1>2, <2>4, <2>5, <3>1, Zenon DEF QueueInv
  <2>7. HostInv'
    BY <1>1, <1>2, <2>5, HostFrame, Zenon
  <2>8. Head(wptr_queue) = Queued[1] /\ 1 \in 1 .. Len(Queued)
    BY <2>1, <2>2
  <2>9. poll_pkt' = Wrap(rptr_next) /\ rptr_next \in Nat
    <3>1. Queued[1][1] = rptr_next
      BY <1>1, <2>8 DEF QueueInv
    <3> QED
      BY <1>1, <1>4, <2>8, <3>1, Types
  <2>10. TypeOK'
    <3>1. wptr_queue' \in Seq((0 .. MaxIndex) \X (0 .. MaxIndex))
      BY <2>3
    <3>2. poll_pkt' \in 0 .. RingSize - 1
      BY <2>9, WrapType
    <3> QED
      BY <1>1, <1>2, <1>4, <2>3, <3>1, <3>2, Zenon DEF TypeOK, gpuvars
  <2>11. CommandInv'
    <3>1. Unsubmitted' = Unsubmitted
      BY <1>2, <2>4, Zenon DEF Unsubmitted
    <3>2. ASSUME NEW r \in Unsubmitted PROVE Command(r)'
      <4>1. Command(r)
        BY Zenon DEF IInv, CommandInv
      <4>2. pc # "poll" /\ (r[1] = rptr_next' => poll_pkt' = Wrap(r[1]))
        BY <1>2, <1>4, <2>9
      <4> DEFINE from == IF pc = "poll" /\ r[1] = rptr_next THEN poll_pkt ELSE Wrap(r[1])
      <4>3. from = Wrap(r[1]) /\ from' = Wrap(r[1])
        BY <1>4, <4>2 DEF Wrap
      <4>4. PICK b : b = Wrap(r[1])
        BY Zenon
      <4> QED
        BY <1>2, <4>1, <4>3, <4>4, Zenon DEF Command, Wrap
    <3> QED
      BY <3>1, <3>2, Zenon DEF CommandInv
  <2>12. UNCHANGED <<sync_value, goff, executed>> /\ SigDown
    BY <1>2, Zenon DEF gpuvars, SigDown
  <2>13. DriverInv' /\ RingInv' /\ ReadInv'
    BY <1>2, <2>12, DriverFrame, RingFrame, ReadFrame, Zenon DEF IInv
  <2>14. CleanInv'
    BY <1>2, <2>12, CleanFrame, Zenon DEF IInv
  <2> QED
    BY <2>6, <2>7, <2>10, <2>11, <2>13, <2>14, Zenon DEF IInv
<1> QED
  BY <1>3, <1>4, Zenon DEF Top

-----------------------------------------------------------------------------
(* The GPU's steps. *)

\* The first range the driver holds.
LEMMA FirstIb ==
  ASSUME DriverInv, ibs # <<>>
  PROVE  /\ Head(ibs) = ibs[1] /\ 1 \in 1 .. Len(ibs) /\ Len(ibs) \in Nat
         /\ ibs[1].start \in Nat /\ ibs[1].end \in Nat /\ ibs[1].fence = ibs[1].end /\ goff \in Nat
         /\ sync_value <= ibs[1].start /\ ibs[1].start < ibs[1].end /\ ibs[1].end <= rptr_next
         /\ ibs[1].start + goff <= ibs[1].end
<1>1. ibs \in Seq([start : Nat, end : Nat, fence : Nat])
  BY Zenon DEF DriverInv
<1>2. Head(ibs) = ibs[1] /\ 1 \in 1 .. Len(ibs) /\ Len(ibs) \in Nat
  BY <1>1
<1> QED
  BY <1>2, IbType, Zenon DEF DriverInv

\* The GPU reads a packet of the range it runs.
LEMMA ExecuteStep ==
  ASSUME IInv, Execute PROVE IInv'
<1>1. TypeOK /\ HostInv /\ QueueInv /\ DriverInv /\ RingInv /\ CleanInv
  BY Zenon DEF IInv
<1>2. PICK at : /\ at = Head(ibs).start + goff /\ at < Head(ibs).end /\ ibs # <<>>
                /\ executed' = {[at |-> at, slot |-> ring[Wrap(at)]]} /\ goff' = goff + 1
  BY Zenon DEF Execute
<1>3. UNCHANGED <<ring, ppc, span, reserved, committed, wptr_next, hpc, wptr_pre, wptr_queue, thread_stop,
                  pendings, poll_pkt, pc, rptr_next, ibs, sync_value, refused, sig>>
  BY Zenon DEF Execute, hostvars, bellvars, loopvars
<1>4. /\ Head(ibs) = ibs[1] /\ 1 \in 1 .. Len(ibs)
      /\ ibs[1].start \in Nat /\ ibs[1].end \in Nat /\ goff \in Nat
      /\ sync_value <= ibs[1].start /\ ibs[1].start < ibs[1].end /\ ibs[1].end <= rptr_next
  BY <1>1, <1>2, FirstIb, Zenon
<1>5. rptr_next <= reserved /\ rptr_next \in Nat /\ reserved \in Nat /\ sync_value \in Nat /\ RingSize \in Nat
  <2>1. QueueEnd <= reserved /\ rptr_next <= QueueEnd /\ QueueEnd \in Nat
    BY <1>1, EndBounds, QueuedType
  <2>2. rptr_next \in Nat /\ reserved \in Nat /\ sync_value \in Nat /\ RingSize \in Nat
    BY <1>1, Types
  <2> QED
    BY <2>1, <2>2
<1>6. at \in Nat /\ at \in ibs[1].start .. ibs[1].end - 1 /\ at \in sync_value .. reserved - 1
  BY <1>2, <1>4, <1>5
<1>7. ring[Wrap(at)].index = at /\ ring[Wrap(at)].after \subseteq Signals /\ \A s \in ring[Wrap(at)].after : sig[s] = 0
  <2>1. ring[Wrap(at)].index = at
    BY <1>1, <1>6, Zenon DEF RingInv
  <2>2. \A s \in ring[Wrap(at)].after : sig[s] = 0
    BY <1>1, <1>4, <1>6, Zenon DEF CleanInv
  <2> QED
    BY <1>1, <1>6, <2>1, <2>2, SlotType
<1>8. ReadInv'
  BY <1>2, <1>3, <1>7 DEF ReadInv
<1>9. DriverInv'
  <2>1. goff' \in Nat /\ ibs'[1].start + goff' <= ibs'[1].end /\ ibs' # <<>>
    BY <1>2, <1>3, <1>4, <1>6
  <2> QED
    BY <1>1, <1>3, <2>1, Zenon DEF DriverInv
<1>10. TypeOK'
  <2>1. reserved - sync_value <= RingSize
    BY <1>1, Zenon DEF RingInv
  <2>2. goff' \in 0 .. RingSize
    BY <1>2, <1>4, <1>5, <1>6, <2>1
  <2> QED
    BY <1>1, <1>3, <2>2, Zenon DEF TypeOK
<1>11. QueueInv' /\ Queued' = Queued /\ QueueEnd' = QueueEnd
  BY <1>1, <1>3, QueueFrame, Zenon
<1>12. HostInv' /\ RingInv'
  BY <1>1, <1>3, <1>11, HostFrame, RingFrame, Zenon
<1>13. SigDown /\ Unsubmitted' \subseteq Unsubmitted
  BY <1>3, <1>11, UnsubmittedSame, Zenon DEF SigDown
<1>14. CommandInv' /\ CleanInv'
  BY <1>1, <1>3, <1>13, CommandFrame, CleanFrame, Zenon DEF IInv
<1> QED
  BY <1>8, <1>9, <1>10, <1>11, <1>12, <1>14, Zenon DEF IInv

\* The GPU signals the fence of the range it has run: the read pointer moves to its end.
LEMMA SignalFenceStep ==
  ASSUME IInv, SignalFence PROVE IInv'
<1>1. TypeOK /\ HostInv /\ QueueInv /\ DriverInv /\ RingInv /\ CleanInv
  BY Zenon DEF IInv
<1>2. ibs # <<>> /\ sync_value' = Head(ibs).fence /\ goff' = 0 /\ executed' = {} /\ ibs' = Tail(ibs)
  BY Zenon DEF SignalFence
<1>3. UNCHANGED <<ring, ppc, span, reserved, committed, wptr_next, hpc, wptr_pre, wptr_queue, thread_stop,
                  pendings, poll_pkt, pc, rptr_next, refused, sig>>
  BY Zenon DEF SignalFence, hostvars, bellvars, loopvars
<1>4. /\ Head(ibs) = ibs[1] /\ 1 \in 1 .. Len(ibs) /\ Len(ibs) \in Nat
      /\ ibs[1].start \in Nat /\ ibs[1].end \in Nat /\ ibs[1].fence = ibs[1].end
      /\ sync_value <= ibs[1].start /\ ibs[1].start < ibs[1].end /\ ibs[1].end <= rptr_next
  BY <1>1, <1>2, FirstIb, Zenon
<1>5. rptr_next \in Nat /\ reserved \in Nat /\ sync_value \in Nat /\ RingSize \in Nat /\ MaxIndex \in Nat
  BY <1>1, Types
<1>6. sync_value' \in Nat /\ sync_value <= sync_value' /\ sync_value' <= rptr_next /\ sync_value' = ibs[1].end
  BY <1>2, <1>4, <1>5
<1>7. /\ Len(Tail(ibs)) = Len(ibs) - 1 /\ Tail(ibs) \in Seq([start : Nat, end : Nat, fence : Nat])
      /\ \A k \in 1 .. Len(Tail(ibs)) : k + 1 \in 1 .. Len(ibs) /\ 1 < k + 1 /\ Tail(ibs)[k] = ibs[k + 1]
  <2>1. ibs \in Seq([start : Nat, end : Nat, fence : Nat])
    BY <1>1, Zenon DEF DriverInv
  <2> QED
    BY <1>2, <2>1, TailParts
<1>8. DriverInv'
  <2>1. ASSUME NEW k \in 1 .. Len(ibs')
        PROVE  /\ sync_value' <= ibs'[k].start /\ ibs'[k].start < ibs'[k].end /\ ibs'[k].end <= rptr_next'
               /\ ibs'[k].fence = ibs'[k].end
    <3>1. k + 1 \in 1 .. Len(ibs) /\ 1 < k + 1 /\ ibs'[k] = ibs[k + 1]
      BY <1>2, <1>7, Zenon
    <3>2. ibs[1].end <= ibs[k + 1].start
      BY <1>1, <1>4, <3>1, Zenon DEF DriverInv
    <3>3. ibs[k + 1].start < ibs[k + 1].end /\ ibs[k + 1].end <= rptr_next /\ ibs[k + 1].fence = ibs[k + 1].end
      BY <1>1, <3>1, Zenon DEF DriverInv
    <3> QED
      BY <1>3, <1>6, <3>1, <3>2, <3>3, Zenon
  <2>2. ASSUME NEW j \in 1 .. Len(ibs'), NEW k \in 1 .. Len(ibs'), j < k PROVE ibs'[j].end <= ibs'[k].start
    <3>1. j + 1 \in 1 .. Len(ibs) /\ k + 1 \in 1 .. Len(ibs) /\ ibs'[j] = ibs[j + 1] /\ ibs'[k] = ibs[k + 1]
      BY <1>2, <1>7, Zenon
    <3>2. j + 1 < k + 1
      BY <1>2, <1>4, <1>7, <2>2
    <3> QED
      BY <1>1, <3>1, <3>2, Zenon DEF DriverInv
  <2>3. goff' \in Nat /\ (ibs' # <<>> => ibs'[1].start + goff' <= ibs'[1].end)
    <3>1. ASSUME ibs' # <<>> PROVE 1 \in 1 .. Len(ibs')
      BY <1>2, <1>7, <3>1
    <3>2. ASSUME ibs' # <<>> PROVE ibs'[1].start < ibs'[1].end
      BY <2>1, <3>1, <3>2, Zenon
    <3>3. ASSUME ibs' # <<>> PROVE ibs'[1].start \in Nat /\ ibs'[1].end \in Nat
      <4>1. 1 + 1 \in 1 .. Len(ibs) /\ ibs'[1] = ibs[1 + 1]
        BY <1>2, <1>7, <3>1, <3>3, Zenon
      <4> QED
        BY <1>1, <4>1, IbType, Zenon
    <3> QED
      BY <1>2, <3>2, <3>3
  <2>4. sync_value' <= rptr_next' /\ ibs' \in Seq([start : Nat, end : Nat, fence : Nat]) /\ (ibs' = <<>> => goff' = 0)
    BY <1>2, <1>3, <1>6, <1>7, Zenon
  <2> QED
    BY <2>1, <2>2, <2>3, <2>4, Zenon DEF DriverInv
<1>9. RingInv'
  <2>1. reserved - sync_value <= RingSize
    BY <1>1, Zenon DEF RingInv
  <2>2. reserved' - sync_value' <= RingSize
    BY <1>3, <1>5, <1>6, <2>1
  <2>3. \A i \in sync_value' .. reserved' - 1 : i \in sync_value .. reserved - 1
    BY <1>3, <1>5, <1>6
  <2> QED
    BY <1>1, <1>3, <2>2, <2>3, Zenon DEF RingInv, Wrap
<1>10. CleanInv'
  <2>1. ASSUME NEW k \in 1 .. Len(ibs'), NEW i \in ibs'[k].start .. ibs'[k].end - 1, NEW s \in ring'[Wrap(i)].after
        PROVE  sig'[s] = 0
    <3>1. k + 1 \in 1 .. Len(ibs) /\ ibs'[k] = ibs[k + 1]
      BY <1>2, <1>7, Zenon
    <3>2. i \in ibs[k + 1].start .. ibs[k + 1].end - 1 /\ s \in ring[Wrap(i)].after
      BY <1>3, <3>1, Zenon
    <3>3. sig[s] = 0
      BY <1>1, <3>1, <3>2, Zenon DEF CleanInv
    <3> QED
      BY <1>3, <3>3, Zenon
  <2> QED
    BY <2>1, Zenon DEF CleanInv, Wrap
<1>11. TypeOK'
  <2>1. {reserved', committed', wptr_next', wptr_pre', rptr_next', sync_value'} \subseteq 0 .. MaxIndex
    <3>1. {reserved, committed, wptr_next, wptr_pre, rptr_next, sync_value} \subseteq 0 .. MaxIndex
      BY <1>1, Zenon DEF TypeOK
    <3> QED
      BY <1>3, <1>5, <1>6, <3>1
  <2>2. goff' \in 0 .. RingSize
    BY <1>2, <1>5
  <2> QED
    BY <1>1, <1>3, <2>1, <2>2, Zenon DEF TypeOK
<1>12. QueueInv' /\ Queued' = Queued /\ QueueEnd' = QueueEnd
  BY <1>1, <1>3, QueueFrame, Zenon
<1>13. HostInv'
  BY <1>1, <1>3, <1>12, HostFrame, Zenon
<1>14. SigDown /\ Unsubmitted' \subseteq Unsubmitted
  BY <1>3, <1>12, UnsubmittedSame, Zenon DEF SigDown
<1>15. CommandInv' /\ ReadInv'
  BY <1>1, <1>2, <1>3, <1>14, CommandFrame, Zenon DEF IInv, ReadInv
<1> QED
  BY <1>8, <1>9, <1>10, <1>11, <1>12, <1>13, <1>15, Zenon DEF IInv

-----------------------------------------------------------------------------
(* The thread's steps on the packets of the ring. *)

\* What the packets are.
LEMMA PacketFacts ==
  /\ Nop \in Packets /\ Copy \in Packets /\ ~Polling(Nop) /\ ~Polling(Copy)
  /\ \A s : Polling(Poll(s)) /\ Polling(PollHi(s)) /\ Poll(s).signal = s /\ PollHi(s).signal = s
  /\ \A x \in Packets : Polling(x) => x.signal \in Signals /\ x \in {Poll(x.signal), PollHi(x.signal)}
<1>1. Nop \in Packets /\ Copy \in Packets /\ ~Polling(Nop) /\ ~Polling(Copy)
  BY DEF Packets, Polling, Nop, Copy
<1>2. ASSUME NEW s PROVE Polling(Poll(s)) /\ Polling(PollHi(s)) /\ Poll(s).signal = s /\ PollHi(s).signal = s
  BY DEF Polling, Poll, PollHi
<1>3. ASSUME NEW x \in Packets, Polling(x) PROVE x.signal \in Signals /\ x \in {Poll(x.signal), PollHi(x.signal)}
  <2>1. x # Nop /\ x # Copy
    BY <1>1, <1>3, Zenon
  <2>2. PICK s \in Signals : x \in {Poll(s), PollHi(s)}
    BY <2>1, Zenon DEF Packets
  <2> QED
    BY <1>2, <2>2, Zenon
<1> QED
  BY <1>1, <1>2, <1>3, Zenon

\* A slot of a range holds one of its indexes.
LEMMA RangeSlot ==
  ASSUME IInv, NEW r \in Unsubmitted, NEW i \in Wrap(r[1]) .. (Wrap(r[1]) + (r[2] - r[1])) - 1
  PROVE  /\ i \in 0 .. RingSize - 1 /\ i \in DOMAIN ring
         /\ ring[i].index = r[1] + (i - Wrap(r[1]))
         /\ r[1] + (i - Wrap(r[1])) \in r[1] .. r[2] - 1
<1>1. /\ TypeOK /\ HostInv /\ QueueInv /\ DriverInv /\ RingInv /\ Command(r)
  BY Zenon DEF IInv, CommandInv
<1>2. r[1] \in Nat /\ r[2] \in Nat /\ rptr_next <= r[1] /\ r[1] < r[2] /\ r[2] <= reserved
  BY <1>1, RangeBounds
<1>3. Wrap(r[1]) \in Nat /\ RingSize \in Nat \ {0} /\ rptr_next \in Nat /\ sync_value \in Nat /\ reserved \in Nat
  BY <1>1, <1>2, WrapType, Types
<1>4. Wrap(r[1]) + (r[2] - r[1]) <= RingSize
  BY <1>1, Zenon DEF Command
<1>5. PICK d \in Nat : d = i - Wrap(r[1])
  BY <1>2, <1>3
<1>6. i = Wrap(r[1]) + d /\ i < RingSize /\ r[1] + d < r[2]
  BY <1>2, <1>3, <1>4, <1>5
<1>7. Wrap(r[1] + d) = i
  BY <1>2, <1>3, <1>6, WrapWithin
<1>8. sync_value <= rptr_next
  BY <1>1, Zenon DEF DriverInv
<1>9. r[1] + d \in sync_value .. reserved - 1
  BY <1>2, <1>3, <1>6, <1>8
<1>10. ring[i].index = r[1] + d
  BY <1>1, <1>7, <1>9, Zenon DEF RingInv
<1>11. i \in 0 .. RingSize - 1 /\ r[1] + (i - Wrap(r[1])) = r[1] + d
  BY <1>2, <1>3, <1>5, <1>6
<1>12. DOMAIN ring = 0 .. RingSize - 1
  BY <1>1 DEF RingInv
<1>13. r[1] + d \in r[1] .. r[2] - 1
  BY <1>2, <1>6
<1> QED
  BY <1>10, <1>11, <1>12, <1>13, Zenon

\* Two ranges share no slot.
LEMMA SlotsApart ==
  ASSUME IInv, NEW r \in Unsubmitted, NEW q \in Unsubmitted, r # q,
         NEW i \in Wrap(r[1]) .. (Wrap(r[1]) + (r[2] - r[1])) - 1,
         NEW j \in Wrap(q[1]) .. (Wrap(q[1]) + (q[2] - q[1])) - 1
  PROVE  i # j
<1>1. r[2] <= q[1] \/ q[2] <= r[1]
  BY RangesApart, Zenon DEF IInv
<1>2. r[1] \in Nat /\ r[2] \in Nat /\ q[1] \in Nat /\ q[2] \in Nat
  BY RangeBounds, Zenon DEF IInv
<1>3. PICK a \in r[1] .. r[2] - 1 : ring[i].index = a
  BY RangeSlot, Zenon
<1>4. PICK b \in q[1] .. q[2] - 1 : ring[j].index = b
  BY RangeSlot, Zenon
<1>5. a # b
  BY <1>1, <1>2
<1> QED
  BY <1>3, <1>4, <1>5, Zenon

\* The range the thread works on, and the polls it has not looked at.
LEMMA HeadCommand ==
  ASSUME IInv, pc = "poll", NEW r, r = Head(pendings), NEW bot, bot = Wrap(r[1]), NEW top, top = bot + (r[2] - r[1])
  PROVE  /\ r \in Unsubmitted /\ r[1] = rptr_next /\ r[1] \in Nat /\ r[2] \in Nat /\ r[1] < r[2]
         /\ bot \in Nat /\ top \in Nat /\ RingSize \in Nat /\ top <= RingSize
         /\ poll_pkt \in Nat /\ bot <= poll_pkt /\ poll_pkt < top
         /\ ~Polling(ring[top - 1].packet)
         /\ \A i, j \in poll_pkt .. top - 1 : i < j /\ Polling(ring[j].packet) => Polling(ring[i].packet)
         /\ \A i \in bot .. top - 1 : \A s \in ring[i].after :
              sig[s] = 0 \/ \E j \in poll_pkt .. i - 1 : ring[j].packet \in {Poll(s), PollHi(s)}
<1>1. r \in Unsubmitted /\ r[1] = rptr_next /\ r[1] < r[2]
  BY HeadRange, Zenon DEF IInv
<1>2. r[1] \in Nat /\ r[2] \in Nat
  BY <1>1, RangeBounds, Zenon DEF IInv
<1>3. bot \in Nat /\ top \in Nat /\ RingSize \in Nat /\ poll_pkt \in Nat
  <2>1. bot \in Nat /\ RingSize \in Nat /\ poll_pkt \in Nat
    BY <1>2, WrapType, Types, Zenon DEF IInv
  <2> QED
    BY <1>1, <1>2, <2>1
<1>4. Command(r)
  BY <1>1, Zenon DEF IInv, CommandInv
<1>5. /\ top <= RingSize
      /\ bot <= poll_pkt /\ poll_pkt < top
      /\ ~Polling(ring[top - 1].packet)
      /\ \A i, j \in poll_pkt .. top - 1 : i < j /\ Polling(ring[j].packet) => Polling(ring[i].packet)
      /\ \A i \in bot .. top - 1 : \A s \in ring[i].after :
           sig[s] = 0 \/ \E j \in poll_pkt .. i - 1 : ring[j].packet \in {Poll(s), PollHi(s)}
  BY <1>1, <1>4, Zenon DEF Command
<1> QED
  BY <1>1, <1>2, <1>3, <1>5, Zenon

\* Polls are erased: slots keep their index and what their packets come after.
LEMMA Erased ==
  ASSUME RingInv, NEW E, ring' = [i \in DOMAIN ring |-> IF i \in E THEN [ring[i] EXCEPT !.packet = Nop] ELSE ring[i]]
  PROVE  /\ DOMAIN ring = 0 .. RingSize - 1 /\ ring' \in [0 .. RingSize - 1 -> Slots]
         /\ \A i \in 0 .. RingSize - 1 :
              /\ ring'[i].index = ring[i].index /\ ring'[i].after = ring[i].after
              /\ i \in E => ring'[i].packet = Nop
              /\ i \notin E => ring'[i] = ring[i]
<1>1. DOMAIN ring = 0 .. RingSize - 1 /\ \A i \in 0 .. RingSize - 1 : ring[i] \in Slots
  BY DEF RingInv, Slots
<1>2. ASSUME NEW x \in Slots
      PROVE  /\ [x EXCEPT !.packet = Nop] \in Slots /\ [x EXCEPT !.packet = Nop].index = x.index
             /\ [x EXCEPT !.packet = Nop].after = x.after /\ [x EXCEPT !.packet = Nop].packet = Nop
  BY PacketFacts DEF Slots
<1>3. ASSUME NEW i \in 0 .. RingSize - 1
      PROVE  ring'[i] = IF i \in E THEN [ring[i] EXCEPT !.packet = Nop] ELSE ring[i]
  BY <1>1, Zenon
<1>4. DOMAIN ring' = 0 .. RingSize - 1 /\ \A i \in 0 .. RingSize - 1 : ring'[i] \in Slots
  BY <1>1, <1>2, <1>3, Zenon
<1>5. ring' \in [0 .. RingSize - 1 -> Slots]
  BY <1>1, <1>4, Zenon
<1> QED
  BY <1>1, <1>2, <1>3, <1>5, Zenon

\* The polls of one wait are all in the range, before its last packet, and poll one signal.
LEMMA WaitRange ==
  ASSUME IInv, WaitPoll, NEW r, r = Head(pendings), NEW bot, bot = Wrap(r[1]), NEW top, top = bot + (r[2] - r[1])
  PROVE  /\ Skip \in {1, 2} /\ poll_pkt + Skip < top
         /\ \A i \in poll_pkt .. poll_pkt + Skip - 1 :
              \A s \in Signals : ring[i].packet \in {Poll(s), PollHi(s)} => sig[s] = 0
<1>1. pc = "poll" /\ IsPoll(poll_pkt) /\ SignalReached
  BY Zenon DEF WaitPoll
<1>2. /\ bot \in Nat /\ top \in Nat /\ RingSize \in Nat /\ top <= RingSize
      /\ poll_pkt \in Nat /\ bot <= poll_pkt /\ poll_pkt < top /\ ~Polling(ring[top - 1].packet)
  BY <1>1, HeadCommand
<1>3. poll_pkt # top - 1 /\ Polling(ring[poll_pkt].packet)
  BY <1>1, <1>2, Zenon DEF IsPoll
<1>4. PICK x : x = ring[poll_pkt].packet.signal
  BY Zenon
<1>5. sig[x] = 0
  BY <1>1, <1>4 DEF SignalReached
<1>6. \A s \in Signals : ring[poll_pkt].packet \in {Poll(s), PollHi(s)} => sig[s] = 0
  BY <1>4, <1>5, PacketFacts, Zenon
<1>7. CASE Skip = 1
  <2>1. poll_pkt + 1 < top
    BY <1>2, <1>3
  <2>2. \A i \in poll_pkt .. poll_pkt + Skip - 1 : i = poll_pkt
    BY <1>2, <1>7
  <2> QED
    BY <1>6, <1>7, <2>1, <2>2, Zenon
<1>8. CASE Skip = 2
  <2>1. ring[poll_pkt + 1].packet = Poll(x) /\ IsPoll(poll_pkt + 1)
    BY <1>4, <1>8 DEF Skip
  <2>2. poll_pkt + 1 # top - 1
    <3>1. Polling(Poll(x))
      BY PacketFacts, Zenon
    <3> QED
      BY <1>2, <2>1, <3>1, Zenon
  <2>3. poll_pkt + 2 < top
    BY <1>2, <1>3, <2>2
  <2>4. \A s \in Signals : ring[poll_pkt + 1].packet \in {Poll(s), PollHi(s)} => sig[s] = 0
    <3>1. Poll(x).signal = x /\ \A s : Poll(s).signal = s /\ PollHi(s).signal = s
      BY PacketFacts, Zenon
    <3> QED
      BY <1>5, <2>1, <3>1, Zenon
  <2>5. \A i \in poll_pkt .. poll_pkt + Skip - 1 : i = poll_pkt \/ i = poll_pkt + 1
    BY <1>2, <1>8
  <2> QED
    BY <1>6, <1>8, <2>3, <2>4, <2>5, Zenon
<1> QED
  BY <1>7, <1>8 DEF Skip

\* The thread waits for the signal of a poll, and erases it.
LEMMA WaitPollStep ==
  ASSUME IInv, WaitPoll PROVE IInv'
<1>1. TypeOK /\ HostInv /\ QueueInv /\ DriverInv /\ RingInv /\ CleanInv
  BY Zenon DEF IInv
<1>2. PICK E : E = poll_pkt .. poll_pkt + Skip - 1
  BY Zenon
<1>3. /\ pc = "poll" /\ poll_pkt' = poll_pkt + Skip
      /\ ring' = [i \in DOMAIN ring |-> IF i \in E THEN [ring[i] EXCEPT !.packet = Nop] ELSE ring[i]]
  BY <1>2, Zenon DEF WaitPoll
<1>4. UNCHANGED <<ppc, span, reserved, committed, wptr_next, hpc, wptr_pre, wptr_queue, thread_stop,
                  pendings, pc, rptr_next, ibs, sync_value, goff, executed, refused, sig>>
  BY Zenon DEF WaitPoll, bellvars, gpuvars
<1>5. /\ DOMAIN ring = 0 .. RingSize - 1 /\ ring' \in [0 .. RingSize - 1 -> Slots]
      /\ \A i \in 0 .. RingSize - 1 :
           /\ ring'[i].index = ring[i].index /\ ring'[i].after = ring[i].after
           /\ i \in E => ring'[i].packet = Nop
           /\ i \notin E => ring'[i] = ring[i]
  BY <1>1, <1>3, Erased, Zenon
<1>6. PICK r : r = Head(pendings)
  BY Zenon
<1>7. PICK bot : bot = Wrap(r[1])
  BY Zenon
<1>8. PICK top : top = bot + (r[2] - r[1])
  BY Zenon
<1>9. /\ r \in Unsubmitted /\ r[1] = rptr_next /\ r[1] \in Nat /\ r[2] \in Nat /\ r[1] < r[2]
      /\ bot \in Nat /\ top \in Nat /\ RingSize \in Nat /\ top <= RingSize
      /\ poll_pkt \in Nat /\ bot <= poll_pkt /\ poll_pkt < top
  BY <1>3, <1>6, <1>7, <1>8, HeadCommand
<1>10. PICK n \in {1, 2} : n = Skip /\ poll_pkt + n < top
  BY <1>6, <1>7, <1>8, WaitRange
<1>11. E = poll_pkt .. (poll_pkt + n) - 1 /\ poll_pkt' = poll_pkt + n
  BY <1>2, <1>3, <1>9, <1>10
<1>12. \A i \in E : \A s \in Signals : ring[i].packet \in {Poll(s), PollHi(s)} => sig[s] = 0
  BY <1>2, <1>6, <1>7, <1>8, WaitRange
<1>13. QueueInv' /\ Queued' = Queued /\ QueueEnd' = QueueEnd
  BY <1>1, <1>4, QueueFrame, Zenon
<1>14. HostInv' /\ DriverInv'
  BY <1>1, <1>4, <1>13, HostFrame, DriverFrame, Zenon
<1>15. SigDown /\ Unsubmitted' = Unsubmitted
  BY <1>4, <1>13, Zenon DEF SigDown, Unsubmitted
<1>16. ReadInv'
  BY <1>4, <1>15, ReadFrame, Zenon DEF IInv
<1>17. RingInv'
  <2>1. \A i \in sync_value .. reserved - 1 : Wrap(i) \in 0 .. RingSize - 1
    <3>1. sync_value \in Nat /\ reserved \in Nat
      BY <1>1, Types
    <3>2. \A i \in sync_value .. reserved - 1 : i \in Nat
      BY <3>1
    <3> QED
      BY <3>2, WrapType
  <2> QED
    BY <1>1, <1>4, <1>5, <2>1, Zenon DEF RingInv, Wrap, Slots
<1>18. CleanInv'
  <2>1. \A i \in Nat : ring'[Wrap(i)].after = ring[Wrap(i)].after
    BY <1>5, WrapType
  <2> QED
    BY <1>1, <1>4, <1>15, <2>1, CleanFrame, Zenon
<1>19. TypeOK'
  <2>1. ASSUME NEW i \in DOMAIN ring'
        PROVE  ring'[i].index \in -RingSize .. MaxIndex /\ ring'[i].packet \in Packets /\ ring'[i].after \subseteq Signals
    <3>1. i \in 0 .. RingSize - 1 /\ i \in DOMAIN ring
      BY <1>5
    <3>2. ring[i].index \in -RingSize .. MaxIndex /\ ring[i].packet \in Packets /\ ring[i].after \subseteq Signals
      BY <1>1, <3>1, Zenon DEF TypeOK
    <3> QED
      BY <1>5, <3>1, <3>2, PacketFacts, Zenon
  <2>2. poll_pkt' \in 0 .. RingSize - 1
    BY <1>9, <1>10, <1>11
  <2> QED
    BY <1>1, <1>4, <2>1, <2>2, Zenon DEF TypeOK
<1>20. CommandInv'
  <2>1. ASSUME NEW q \in Unsubmitted, q # r PROVE Command(q)'
    <3>1. q \in Ranges /\ q[1] \in Nat /\ q[2] \in Nat /\ q[1] < q[2] /\ Command(q)
      BY <1>1, RangeBounds DEF IInv, CommandInv
    <3>2. r[2] <= q[1] \/ q[2] <= r[1]
      BY <1>1, <1>9, <2>1, RangesApart
    <3>3. q[1] # rptr_next
      BY <1>9, <3>1, <3>2
    <3>4. ASSUME NEW i \in Wrap(q[1]) .. (Wrap(q[1]) + (q[2] - q[1])) - 1 PROVE ring'[i] = ring[i]
      <4>1. i \in 0 .. RingSize - 1
        BY <2>1, <3>4, RangeSlot, Zenon
      <4>2. ASSUME i \in E PROVE FALSE
        <5>1. i \in bot .. top - 1
          BY <1>9, <1>10, <1>11, <4>2
        <5>2. i # i
          BY <1>7, <1>8, <1>9, <2>1, <3>4, <5>1, SlotsApart, Zenon
        <5> QED
          BY <5>2, Zenon
      <4> QED
        BY <1>5, <4>1, <4>2, Zenon
    <3> QED
      BY <1>1, <1>4, <1>15, <3>1, <3>3, <3>4, CommandKept
  <2>2. Command(r)'
    <3>1. /\ ~Polling(ring[top - 1].packet)
          /\ \A i, j \in poll_pkt .. top - 1 : i < j /\ Polling(ring[j].packet) => Polling(ring[i].packet)
      BY <1>3, <1>6, <1>7, <1>8, HeadCommand
    <3>2. \A i \in bot .. top - 1 : \A s \in ring[i].after :
            sig[s] = 0 \/ \E j \in poll_pkt .. i - 1 : ring[j].packet \in {Poll(s), PollHi(s)}
      BY <1>3, <1>6, <1>7, <1>8, HeadCommand
    <3>3. bot <= poll_pkt + n /\ poll_pkt + n < top
      BY <1>9, <1>10
    <3>4. ASSUME NEW i \in poll_pkt + n .. top - 1 PROVE ring'[i] = ring[i] /\ i \in poll_pkt .. top - 1
      <4>1. i \in 0 .. RingSize - 1 /\ i \notin E /\ i \in poll_pkt .. top - 1
        BY <1>9, <1>10, <1>11
      <4> QED
        BY <1>5, <4>1, Zenon
    <3>5. ~Polling(ring'[top - 1].packet)
      <4>1. top - 1 \in poll_pkt + n .. top - 1
        BY <1>9, <1>10
      <4> QED
        BY <3>1, <3>4, <4>1, Zenon
    <3>6. \A i, j \in poll_pkt + n .. top - 1 : i < j /\ Polling(ring'[j].packet) => Polling(ring'[i].packet)
      BY <3>1, <3>4, Zenon
    <3>7. ASSUME NEW i \in bot .. top - 1, NEW s \in ring'[i].after
          PROVE  sig'[s] = 0 \/ \E j \in poll_pkt + n .. i - 1 : ring'[j].packet \in {Poll(s), PollHi(s)}
      <4>1. i \in 0 .. RingSize - 1 /\ i \in Nat
        BY <1>9
      <4>2. s \in ring[i].after /\ s \in Signals
        <5>1. s \in ring[i].after
          BY <1>5, <4>1, Zenon
        <5> QED
          BY <1>1, <4>1, <5>1 DEF RingInv
      <4>3. CASE sig[s] = 0
        BY <1>4, <4>3, Zenon
      <4>4. CASE sig[s] # 0
        <5>1. PICK j \in poll_pkt .. i - 1 : ring[j].packet \in {Poll(s), PollHi(s)}
          BY <3>2, <4>2, <4>4, Zenon
        <5>2. j \notin E
          BY <1>12, <4>2, <4>4, <5>1, Zenon
        <5>3. j \in poll_pkt + n .. i - 1 /\ j \in poll_pkt + n .. top - 1
          BY <1>9, <1>10, <1>11, <4>1, <5>2
        <5> QED
          BY <3>4, <5>1, <5>3, Zenon
      <4> QED
        BY <4>3, <4>4
    <3>8. PICK f : f = poll_pkt + n
      BY Zenon
    <3>9. (IF pc' = "poll" /\ r[1] = rptr_next' THEN poll_pkt' ELSE Wrap(r[1])) = f
      BY <1>3, <1>4, <1>9, <1>11, <3>8
    <3> QED
      BY <1>7, <1>8, <1>9, <3>3, <3>5, <3>6, <3>7, <3>8, <3>9, Zenon DEF Command, Wrap
  <2> QED
    BY <1>15, <2>1, <2>2, Zenon DEF CommandInv
<1> QED
  BY <1>13, <1>14, <1>16, <1>17, <1>18, <1>19, <1>20, Zenon DEF IInv

\* The first range leaves the queue, and the read pointer moves to its end.
LEMMA QueueTail ==
  ASSUME IInv, pc = "poll", NEW r, r = Head(pendings), rptr_next' = r[2], pendings' = Tail(pendings),
         UNCHANGED wptr_queue, pc' = IF Tail(pendings) = <<>> THEN "top" ELSE "poll"
  PROVE  /\ QueueInv' /\ QueueEnd' = QueueEnd /\ Len(Queued') \in Nat
         /\ \A k \in 1 .. Len(Queued') : k + 1 \in 1 .. Len(Queued) /\ Queued'[k] = Queued[k + 1] /\ r[2] <= Queued'[k][1]
<1>1. TypeOK /\ QueueInv
  BY Zenon DEF IInv
<1>2. pendings \in Seq(Ranges) /\ wptr_queue \in Seq(Ranges) /\ pendings # <<>> /\ Queued # <<>> /\ r = Queued[1]
  BY <1>1, HeadRange, Types
<1>3. Tail(pendings) \o wptr_queue = Tail(pendings \o wptr_queue)
  BY <1>2, ConcatSteps
<1>4. Queued' = Tail(Queued)
  <2>1. Queued' = pendings' \o wptr_queue'
    BY DEF Queued
  <2> QED
    BY <1>3, <2>1, Zenon DEF Queued
<1>5. /\ Queued \in Seq(Ranges) /\ Len(Queued) \in Nat /\ QueueEnd \in Nat
      /\ \A k \in 1 .. Len(Queued) : Queued[k] \in Ranges /\ Queued[k][1] \in Nat /\ Queued[k][2] \in Nat
  BY <1>1, QueuedType
<1>6. /\ Len(Tail(Queued)) = Len(Queued) - 1
      /\ \A k \in 1 .. Len(Tail(Queued)) : k + 1 \in 1 .. Len(Queued) /\ 1 < k + 1 /\ Tail(Queued)[k] = Queued[k + 1]
  BY <1>2, <1>5, TailParts
<1>7. /\ Len(Queued') = Len(Queued) - 1 /\ Len(Queued') \in Nat /\ Len(Queued) >= 1
      /\ \A k \in 1 .. Len(Queued') : k + 1 \in 1 .. Len(Queued) /\ 1 < k + 1 /\ Queued'[k] = Queued[k + 1]
  <2>1. Len(Queued) >= 1
    BY <1>2, <1>5
  <2>2. Len(Queued) - 1 \in Nat
    BY <1>5, <2>1
  <2> QED
    BY <1>4, <1>6, <2>1, <2>2, Zenon
<1>8. 1 \in 1 .. Len(Queued) /\ Queued' \in Seq(Ranges)
  BY <1>4, <1>5, <1>7, <1>2, TailParts
<1>9. QueueEnd' = QueueEnd
  <2>1. CASE Len(Queued) = 1
    <3>1. Queued' = <<>>
      BY <1>7, <1>8, <2>1
    <3> QED
      BY <1>2, <2>1, <3>1 DEF QueueEnd
  <2>2. CASE Len(Queued) # 1
    <3>1. Queued' # <<>> /\ Len(Queued') \in 1 .. Len(Queued') /\ Len(Queued') + 1 = Len(Queued)
      BY <1>7, <1>8, <2>2
    <3>2. Queued'[Len(Queued')] = Queued[Len(Queued') + 1]
      BY <1>7, <3>1, Zenon
    <3> QED
      BY <1>2, <3>1, <3>2 DEF QueueEnd
  <2> QED
    BY <2>1, <2>2
<1>10. ASSUME NEW k \in 1 .. Len(Queued') PROVE r[2] <= Queued'[k][1]
  BY <1>1, <1>2, <1>7, <1>8, Zenon DEF QueueInv
<1>11. ASSUME NEW k \in 1 .. Len(Queued')
       PROVE  /\ Queued'[k][1] = IF k = 1 THEN rptr_next' ELSE Queued'[k - 1][2]
              /\ rptr_next' <= Queued'[k][1] /\ Queued'[k][1] < Queued'[k][2] /\ Queued'[k][2] <= QueueEnd'
  <2>1. k \in Nat /\ k + 1 \in 1 .. Len(Queued) /\ Queued'[k] = Queued[k + 1] /\ k + 1 # 1 /\ (k + 1) - 1 = k
    BY <1>7
  <2>2. /\ Queued[k + 1][1] = IF k + 1 = 1 THEN rptr_next ELSE Queued[(k + 1) - 1][2]
        /\ Queued[k + 1][1] < Queued[k + 1][2] /\ Queued[k + 1][2] <= QueueEnd
    BY <1>1, <2>1, Zenon DEF QueueInv
  <2>3. k # 1 => Queued'[k - 1] = Queued[k]
    <3>1. ASSUME k # 1 PROVE k - 1 \in 1 .. Len(Queued') /\ (k - 1) + 1 = k
      BY <1>7, <3>1
    <3> QED
      BY <1>7, <3>1
  <2>4. Queued'[k][1] = IF k = 1 THEN rptr_next' ELSE Queued'[k - 1][2]
    BY <1>2, <2>1, <2>2, <2>3
  <2> QED
    BY <1>9, <1>10, <2>1, <2>2, <2>4
<1>12. ASSUME NEW j \in 1 .. Len(Queued'), NEW k \in 1 .. Len(Queued'), j < k PROVE Queued'[j][2] <= Queued'[k][1]
  <2>1. j + 1 \in 1 .. Len(Queued) /\ k + 1 \in 1 .. Len(Queued) /\ Queued'[j] = Queued[j + 1] /\ Queued'[k] = Queued[k + 1]
    BY <1>7, Zenon
  <2>2. j + 1 < k + 1
    BY <1>7, <1>12
  <2> QED
    BY <1>1, <2>1, <2>2, Zenon DEF QueueInv
<1>13. pc' = "poll" <=> pendings' # <<>>
  BY DEF QueueInv
<1>14. rptr_next' <= QueueEnd'
  BY <1>1, <1>2, <1>8, <1>9, Zenon DEF QueueInv
<1> QED
  BY <1>7, <1>9, <1>10, <1>11, <1>12, <1>13, <1>14, Zenon DEF QueueInv

\* The polls are done: no signal is outstanding for any packet of the range.
LEMMA PollsDone ==
  ASSUME IInv, pc = "poll", ~IsPoll(poll_pkt), NEW r, r = Head(pendings),
         NEW i \in r[1] .. r[2] - 1, NEW s \in ring[Wrap(i)].after
  PROVE  sig[s] = 0
<1>1. PICK bot : bot = Wrap(r[1])
  BY Zenon
<1>2. PICK top : top = bot + (r[2] - r[1])
  BY Zenon
<1>3. /\ r[1] \in Nat /\ r[2] \in Nat /\ r[1] < r[2]
      /\ bot \in Nat /\ top \in Nat /\ RingSize \in Nat /\ top <= RingSize
      /\ poll_pkt \in Nat /\ bot <= poll_pkt /\ poll_pkt < top
  BY <1>1, <1>2, HeadCommand
<1>4. /\ \A k, j \in poll_pkt .. top - 1 : k < j /\ Polling(ring[j].packet) => Polling(ring[k].packet)
      /\ \A k \in bot .. top - 1 : \A x \in ring[k].after :
           sig[x] = 0 \/ \E j \in poll_pkt .. k - 1 : ring[j].packet \in {Poll(x), PollHi(x)}
  BY <1>1, <1>2, HeadCommand
<1>5. PICK d \in Nat : i = r[1] + d /\ d < r[2] - r[1]
  <2>1. i - r[1] \in Nat /\ i = r[1] + (i - r[1]) /\ i - r[1] < r[2] - r[1]
    BY <1>3
  <2> QED
    BY <2>1
<1>6. Wrap(i) = bot + d
  <2>1. Wrap(r[1]) + d < RingSize /\ RingSize \in Nat \ {0}
    BY <1>1, <1>2, <1>3, <1>5, Sizes
  <2> QED
    BY <1>1, <1>3, <1>5, <2>1, WrapWithin
<1>7. bot + d \in bot .. top - 1
  BY <1>2, <1>3, <1>5
<1>8. ~Polling(ring[poll_pkt].packet)
  <2>1. poll_pkt \in 0 .. RingSize - 1
    BY <1>3
  <2>2. DOMAIN ring = 0 .. RingSize - 1
    BY DEF IInv, RingInv
  <2> QED
    BY <2>1, <2>2, Zenon DEF IsPoll
<1>9. ASSUME NEW j \in poll_pkt .. (bot + d) - 1 PROVE ~Polling(ring[j].packet)
  <2>1. poll_pkt \in poll_pkt .. top - 1 /\ j \in poll_pkt .. top - 1 /\ (j = poll_pkt \/ poll_pkt < j)
    BY <1>2, <1>3, <1>5
  <2> QED
    BY <1>4, <1>8, <2>1, Zenon
<1>10. Polling(Poll(s)) /\ Polling(PollHi(s))
  BY PacketFacts, Zenon
<1> QED
  BY <1>4, <1>6, <1>7, <1>9, <1>10, Zenon

\* The driver takes the range, or refuses it.
LEMMA DriverTakes ==
  ASSUME IInv, NEW a \in Nat, NEW b \in Nat, a = rptr_next, a < b, rptr_next' = b, UNCHANGED <<sync_value, goff>>,
         ibs' \in {ibs, Append(ibs, [start |-> a, end |-> b, fence |-> b])}
  PROVE  /\ DriverInv' /\ Len(ibs) \in Nat
         /\ \A k \in 1 .. Len(ibs') :
              \/ k \in 1 .. Len(ibs) /\ ibs'[k] = ibs[k]
              \/ ibs'[k].start = a /\ ibs'[k].end = b
<1> DEFINE Ib == [start : Nat, end : Nat, fence : Nat]
<1>1. TypeOK /\ DriverInv
  BY Zenon DEF IInv
<1>2. PICK x \in Ib : x = [start |-> a, end |-> b, fence |-> b]
  OBVIOUS
<1>3. x.start = a /\ x.end = b /\ x.fence = b
  BY <1>2
<1>4. ibs \in Seq(Ib) /\ sync_value <= rptr_next /\ goff \in Nat
  BY <1>1, Zenon DEF DriverInv
<1>5. /\ Append(ibs, x) \in Seq(Ib) /\ Append(ibs, x) # <<>> /\ Len(Append(ibs, x)) = Len(ibs) + 1
      /\ Append(ibs, x)[Len(ibs) + 1] = x /\ \A k \in 1 .. Len(ibs) : Append(ibs, x)[k] = ibs[k]
  <2>1. PICK S : S = Ib
    BY Zenon
  <2>2. ibs \in Seq(S) /\ x \in S
    BY <1>4, <2>1, Zenon
  <2>3. /\ Append(ibs, x) \in Seq(S) /\ Append(ibs, x) # <<>> /\ Len(Append(ibs, x)) = Len(ibs) + 1
        /\ Append(ibs, x)[Len(ibs) + 1] = x /\ \A k \in 1 .. Len(ibs) : Append(ibs, x)[k] = ibs[k]
    BY <2>2, Appended
  <2> QED
    BY <2>1, <2>3, Zenon
<1>6. Len(ibs) \in Nat /\ rptr_next \in Nat /\ sync_value \in Nat
  BY <1>1, <1>4, Types
<1>7. \A k \in 1 .. Len(ibs) : ibs[k].start \in Nat /\ ibs[k].end \in Nat /\ ibs[k].fence \in Nat
  BY <1>1, IbType, Zenon
<1>8. /\ \A k \in 1 .. Len(ibs) :
           /\ sync_value <= ibs[k].start /\ ibs[k].start < ibs[k].end /\ ibs[k].end <= rptr_next
           /\ ibs[k].fence = ibs[k].end
      /\ \A j, k \in 1 .. Len(ibs) : j < k => ibs[j].end <= ibs[k].start
      /\ IF ibs = <<>> THEN goff = 0 ELSE ibs[1].start + goff <= ibs[1].end
  BY <1>1, Zenon DEF DriverInv
<1>9. \A k \in 1 .. Len(ibs) : ibs[k].end <= b
  BY <1>6, <1>7, <1>8
<1>10. CASE ibs' = ibs
  <2>1. sync_value' <= rptr_next'
    BY <1>4, <1>6
  <2> QED
    BY <1>4, <1>6, <1>8, <1>9, <1>10, <2>1, Zenon DEF DriverInv
<1>11. CASE ibs' = Append(ibs, x)
  <2>1. \A k \in 1 .. Len(ibs') : k \in 1 .. Len(ibs) \/ k = Len(ibs) + 1
    BY <1>5, <1>6, <1>11
  <2>2. ASSUME NEW k \in 1 .. Len(ibs')
        PROVE  /\ sync_value' <= ibs'[k].start /\ ibs'[k].start < ibs'[k].end /\ ibs'[k].end <= rptr_next'
               /\ ibs'[k].fence = ibs'[k].end
    <3>1. CASE k \in 1 .. Len(ibs)
      BY <1>5, <1>8, <1>9, <1>11, <3>1, Zenon
    <3>2. CASE k = Len(ibs) + 1
      <4>1. sync_value <= a /\ a < b /\ b <= b
        BY <1>4
      <4> QED
        BY <1>3, <1>5, <1>11, <3>2, <4>1, Zenon
    <3> QED
      BY <2>1, <3>1, <3>2, Zenon
  <2>3. ASSUME NEW j \in 1 .. Len(ibs'), NEW k \in 1 .. Len(ibs'), j < k PROVE ibs'[j].end <= ibs'[k].start
    <3>1. j \in 1 .. Len(ibs)
      BY <1>5, <1>6, <1>11, <2>3
    <3>2. CASE k \in 1 .. Len(ibs)
      BY <1>5, <1>8, <1>11, <2>3, <3>1, <3>2, Zenon
    <3>3. CASE k = Len(ibs) + 1
      BY <1>3, <1>5, <1>8, <1>11, <3>1, <3>3, Zenon
    <3> QED
      BY <2>1, <3>2, <3>3, Zenon
  <2>4. sync_value' <= rptr_next' /\ goff' \in Nat /\ ibs' \in Seq(Ib) /\ ibs' # <<>>
    <3>1. sync_value <= b
      BY <1>4, <1>6
    <3> QED
      BY <1>4, <1>5, <1>11, <3>1, Zenon
  <2>5. ibs'[1].start + goff' <= ibs'[1].end
    <3>1. CASE ibs = <<>>
      <4>1. ibs'[1] = x /\ goff' = 0
        BY <1>5, <1>8, <1>11, <3>1
      <4> QED
        BY <1>3, <4>1
    <3>2. CASE ibs # <<>>
      <4>1. 1 \in 1 .. Len(ibs)
        BY <1>4, <3>2
      <4>2. ibs'[1] = ibs[1]
        BY <1>5, <1>11, <4>1, Zenon
      <4> QED
        BY <1>8, <3>2, <4>2, Zenon
    <3> QED
      BY <3>1, <3>2
  <2>6. DriverInv'
    BY <2>2, <2>3, <2>4, <2>5, Zenon DEF DriverInv
  <2> QED
    BY <1>3, <1>5, <1>6, <1>11, <2>1, <2>6, Zenon
<1> QED
  BY <1>2, <1>10, <1>11, Zenon

\* The range is prepared and submitted.
LEMMA SubmitStep ==
  ASSUME IInv, Submit PROVE IInv'
<1>1. TypeOK /\ HostInv /\ QueueInv /\ DriverInv /\ RingInv /\ CleanInv
  BY Zenon DEF IInv
<1>2. PICK r : r = Head(pendings)
  BY Zenon
<1>3. PICK rest : rest = Tail(pendings)
  BY Zenon
<1>4. /\ pc = "poll" /\ ~IsPoll(poll_pkt) /\ rptr_next' = PreparePacket(r)
      /\ \/ ibs' = Append(ibs, [start |-> r[1], end |-> r[2], fence |-> rptr_next']) /\ refused' = refused
         \/ ibs' = ibs /\ refused' = refused \cup (r[1] .. r[2] - 1)
      /\ pendings' = rest
      /\ pc' = (IF rest = <<>> THEN "top" ELSE "poll")
      /\ poll_pkt' = (IF rest = <<>> THEN 0 ELSE Wrap(Head(rest)[1]))
  BY <1>2, <1>3, Zenon DEF Submit
<1>5. UNCHANGED <<ring, ppc, span, reserved, committed, wptr_next, hpc, wptr_pre, wptr_queue, thread_stop,
                  sync_value, goff, executed, sig>>
  BY Zenon DEF Submit, hostvars, bellvars, gpuvars
<1>6. /\ r \in Unsubmitted /\ r[1] = rptr_next /\ r[1] \in Nat /\ r[2] \in Nat /\ r[1] < r[2] /\ r \in Ranges
  BY <1>1, <1>2, <1>4, HeadRange, RangeBounds
<1>7. rptr_next' = r[2]
  BY <1>4, <1>6 DEF PreparePacket
<1>8. /\ QueueInv' /\ QueueEnd' = QueueEnd /\ Len(Queued') \in Nat
      /\ \A k \in 1 .. Len(Queued') : k + 1 \in 1 .. Len(Queued) /\ Queued'[k] = Queued[k + 1] /\ r[2] <= Queued'[k][1]
  <2>1. pendings' = Tail(pendings) /\ pc' = IF Tail(pendings) = <<>> THEN "top" ELSE "poll"
    BY <1>3, <1>4, Zenon
  <2> QED
    BY <1>2, <1>4, <1>5, <1>7, <2>1, QueueTail, Zenon
<1>9. HostInv'
  BY <1>1, <1>5, <1>8, HostFrame, Zenon
<1>10. PICK a \in Nat : a = r[1]
  BY <1>6
<1>11. PICK b \in Nat : b = r[2]
  BY <1>6
<1>12. /\ DriverInv' /\ Len(ibs) \in Nat
       /\ \A k \in 1 .. Len(ibs') :
            \/ k \in 1 .. Len(ibs) /\ ibs'[k] = ibs[k]
            \/ ibs'[k].start = a /\ ibs'[k].end = b
  <2>1. ibs' \in {ibs, Append(ibs, [start |-> a, end |-> b, fence |-> b])}
    BY <1>4, <1>7, <1>10, <1>11, Zenon
  <2>2. a = rptr_next /\ a < b /\ rptr_next' = b /\ UNCHANGED <<sync_value, goff>>
    BY <1>5, <1>6, <1>7, <1>10, <1>11
  <2> QED
    BY <2>1, <2>2, DriverTakes
<1>13. CleanInv'
  <2>1. ASSUME NEW k \in 1 .. Len(ibs'), NEW i \in ibs'[k].start .. ibs'[k].end - 1, NEW s \in ring'[Wrap(i)].after
        PROVE  sig'[s] = 0
    <3>1. s \in ring[Wrap(i)].after /\ sig' = sig
      BY <1>5, Zenon
    <3>2. CASE k \in 1 .. Len(ibs) /\ ibs'[k] = ibs[k]
      BY <1>1, <3>1, <3>2, Zenon DEF CleanInv
    <3>3. CASE ibs'[k].start = a /\ ibs'[k].end = b
      <4>1. i \in r[1] .. r[2] - 1
        BY <1>10, <1>11, <3>3, Zenon
      <4> QED
        BY <1>2, <1>4, <3>1, <4>1, PollsDone, Zenon
    <3> QED
      BY <1>12, <3>2, <3>3, Zenon
  <2> QED
    BY <2>1, Zenon DEF CleanInv, Wrap
<1>14. RingInv' /\ ReadInv'
  BY <1>1, <1>5, RingFrame, ReadFrame, Zenon DEF IInv, SigDown
<1>15. pc' = "poll" => poll_pkt' = Wrap(rptr_next') /\ rest # <<>>
  <2>1. ASSUME rest # <<>> PROVE Head(rest)[1] = rptr_next'
    <3>1. pendings' \in Seq(Ranges) /\ wptr_queue' \in Seq(Ranges) /\ pendings' # <<>>
      <4>1. pendings \in Seq(Ranges) /\ wptr_queue \in Seq(Ranges) /\ pendings # <<>>
        BY <1>1, <1>4, Types, HeadRange
      <4> QED
        BY <1>3, <1>4, <1>5, <2>1, <4>1, TailParts
    <3>2. Head(pendings') = Queued'[1]
      <4>1. Head(pendings') = (pendings' \o wptr_queue')[1]
        BY <3>1, HeadOfConcat
      <4> QED
        BY <4>1, Zenon DEF Queued
    <3>3. 1 \in 1 .. Len(Queued')
      <4>1. Len(pendings' \o wptr_queue') \in Nat /\ Len(pendings' \o wptr_queue') >= 1
        BY <3>1, HeadOfConcat
      <4> QED
        BY <4>1 DEF Queued
    <3>4. Queued'[1][1] = rptr_next'
      BY <1>8, <3>3 DEF QueueInv
    <3> QED
      BY <1>4, <3>2, <3>4
  <2> QED
    BY <1>4, <2>1
<1>16. TypeOK'
  <2>1. {reserved', committed', wptr_next', wptr_pre', rptr_next', sync_value'} \subseteq 0 .. MaxIndex
    <3>1. {reserved, committed, wptr_next, wptr_pre, rptr_next, sync_value} \subseteq 0 .. MaxIndex
      BY <1>1, Zenon DEF TypeOK
    <3> QED
      BY <1>5, <1>6, <1>7, <3>1 DEF Ranges
  <2>2. refused' \subseteq 0 .. MaxIndex
    <3>1. refused \subseteq 0 .. MaxIndex
      BY <1>1, Zenon DEF TypeOK
    <3>2. r[1] .. r[2] - 1 \subseteq 0 .. MaxIndex
      BY <1>6, Sizes DEF Ranges
    <3> QED
      BY <1>4, <3>1, <3>2, Zenon
  <2>3. pendings' \in Seq((0 .. MaxIndex) \X (0 .. MaxIndex))
    <3>1. pendings \in Seq(Ranges) /\ pendings # <<>>
      BY <1>1, <1>4, Types, HeadRange
    <3> QED
      BY <1>3, <1>4, <3>1, TailParts DEF Ranges
  <2>4. poll_pkt' \in 0 .. RingSize - 1
    <3>1. Wrap(rptr_next') \in 0 .. RingSize - 1
      BY <1>6, <1>7, WrapType
    <3>2. 0 \in 0 .. RingSize - 1
      BY Sizes
    <3> QED
      BY <1>4, <1>15, <3>1, <3>2
  <2>5. pc' \in {"top", "waiting", "poll", "exited"}
    BY <1>4
  <2> QED
    BY <1>1, <1>5, <2>1, <2>2, <2>3, <2>4, <2>5, Zenon DEF TypeOK
<1>17. CommandInv'
  <2>1. ASSUME NEW q \in Unsubmitted' PROVE q \in Unsubmitted /\ r[2] <= q[1]
    <3>1. ASSUME NEW k \in 1 .. Len(Queued'), q = Queued'[k] PROVE q \in Unsubmitted /\ r[2] <= q[1]
      BY <1>8, <3>1, Zenon DEF Unsubmitted
    <3>2. ASSUME NEW p \in Hosts, ppc[p] \in {"written", "bell"}, q = span[p] PROVE q \in Unsubmitted /\ r[2] <= q[1]
      <4>1. QueueEnd <= q[1] /\ q[1] \in Nat
        BY <1>1, <3>2, EndBounds, Types
      <4>2. r[2] <= QueueEnd /\ QueueEnd \in Nat
        BY <1>1, <1>2, <1>4, HeadRange, QueuedType
      <4>3. r[2] <= q[1]
        BY <1>6, <4>1, <4>2
      <4> QED
        BY <3>2, <4>3, Zenon DEF Unsubmitted
    <3> QED
      BY <1>5, <3>1, <3>2, Zenon DEF Unsubmitted
  <2>2. ASSUME NEW q \in Unsubmitted' PROVE Command(q)'
    <3>1. Command(q) /\ q \in Unsubmitted /\ q[1] \in Nat
      BY <1>1, <2>1, RangeBounds DEF IInv, CommandInv
    <3>2. q[1] # rptr_next
      BY <1>6, <2>1, <3>1
    <3>3. (IF pc = "poll" /\ q[1] = rptr_next THEN poll_pkt ELSE Wrap(q[1])) = Wrap(q[1])
      BY <3>2
    <3>4. (IF pc' = "poll" /\ q[1] = rptr_next' THEN poll_pkt' ELSE Wrap(q[1])) = Wrap(q[1])
      BY <1>15
    <3> QED
      BY <1>5, <3>1, <3>3, <3>4, Zenon DEF Command, Wrap
  <2> QED
    BY <2>2, Zenon DEF CommandInv
<1> QED
  BY <1>8, <1>9, <1>12, <1>13, <1>14, <1>16, <1>17, Zenon DEF IInv

-----------------------------------------------------------------------------
(* The step that writes a command. *)

\* What a host may write: packets up to the end of the ring, polls first, the last one no poll.
LEMMA CommandShape ==
  ASSUME TypeOK, NEW c \in Commands
  PROVE  /\ c \in Seq(Packets) /\ Len(c) \in Nat \ {0} /\ Wrap(reserved) + Len(c) <= RingSize
         /\ ~Polling(c[Len(c)])
         /\ \A j, k \in 1 .. Len(c) : j < k /\ Polling(c[k]) => Polling(c[j])
<1> DEFINE left == RingSize - (reserved % RingSize)
<1>1. RingSize \in Nat \ {0} /\ reserved \in Nat /\ Wrap(reserved) \in 0 .. RingSize - 1
  BY Types, WrapType
<1>2. left \in Nat \ {0} /\ left = RingSize - Wrap(reserved)
  BY <1>1 DEF Wrap
<1>3. (c \in Shapes /\ Len(c) <= left) \/ c = [i \in 1 .. left |-> Nop]
  BY Zenon DEF Commands
<1> HIDE DEF left
<1>4. CASE c \in Shapes /\ Len(c) <= left
  <2>1. /\ c \in Seq(Packets) /\ c # <<>> /\ c[Len(c)] = Copy
        /\ \A j, k \in DOMAIN c : j < k /\ Polling(c[k]) => Polling(c[j])
    BY <1>4, SdmaAssumption, Zenon
  <2>2. Len(c) \in Nat \ {0} /\ DOMAIN c = 1 .. Len(c)
    BY <2>1
  <2>3. ~Polling(c[Len(c)])
    BY <2>1, PacketFacts, Zenon
  <2> QED
    BY <1>1, <1>2, <1>4, <2>1, <2>2, <2>3
<1>5. CASE c = [i \in 1 .. left |-> Nop]
  <2>1. \A i \in 1 .. left : c[i] = Nop
    BY <1>5
  <2>2. c \in Seq(Packets) /\ Len(c) = left
    BY <1>2, <1>5, PacketFacts
  <2>3. ~Polling(Nop)
    BY PacketFacts, Zenon
  <2>4. \A i \in 1 .. Len(c) : ~Polling(c[i])
    BY <2>1, <2>2, <2>3, Zenon
  <2>5. Len(c) \in 1 .. Len(c)
    BY <1>2, <2>2
  <2> QED
    BY <1>1, <1>2, <2>2, <2>4, <2>5
<1> QED
  BY <1>3, <1>4, <1>5

\* The slot of a packet of a command.
LEMMA SlotFacts ==
  ASSUME TypeOK, NEW c \in Seq(Packets), NEW k \in 1 .. Len(c)
  PROVE  /\ Slot(c, k) \in Slots /\ Slot(c, k).index = reserved + k - 1 /\ Slot(c, k).packet = c[k]
         /\ \A s \in Slot(c, k).after : s \in Signals /\ \E j \in 1 .. k - 1 : c[j] \in {Poll(s), PollHi(s)}
<1> DEFINE A == {c[j].signal : j \in {j \in 1 .. k - 1 : Polling(c[j])}}
<1>1. reserved + k - 1 \in Int /\ c[k] \in Packets
  <2>1. reserved \in Nat /\ k \in Nat
    BY Types
  <2>2. c[k] \in Packets
    OBVIOUS
  <2> QED
    BY <2>1, <2>2
<1>2. ASSUME NEW s \in A PROVE s \in Signals /\ \E j \in 1 .. k - 1 : c[j] \in {Poll(s), PollHi(s)}
  <2>1. PICK j \in 1 .. k - 1 : Polling(c[j]) /\ s = c[j].signal
    BY <1>2, Zenon
  <2>2. c[j] \in Packets
    <3>1. j \in 1 .. Len(c)
      OBVIOUS
    <3> QED
      BY <3>1
  <2> QED
    BY <2>1, <2>2, PacketFacts, Zenon
<1>3. A \in SUBSET Signals
  BY <1>2
<1> HIDE DEF A
<1>4. [index |-> reserved + k - 1, packet |-> c[k], after |-> A] \in Slots
  BY <1>1, <1>3 DEF Slots
<1>5. Slot(c, k) = [index |-> reserved + k - 1, packet |-> c[k], after |-> A]
  BY Zenon DEF Slot, A
<1> QED
  BY <1>2, <1>4, <1>5

\* The ring after a command was written: the slots of the indexes in use are left alone.
LEMMA Written ==
  ASSUME TypeOK, RingInv, NEW c \in Commands, reserved + Len(c) - sync_value <= RingSize,
         ring' = [i \in DOMAIN ring |-> LET k == 1 + ((i - reserved) % RingSize)
                                        IN IF k <= Len(c) THEN Slot(c, k) ELSE ring[i]]
  PROVE  /\ ring' \in [0 .. RingSize - 1 -> Slots]
         /\ \A i \in 0 .. RingSize - 1 : ring'[i] = ring[i] \/ \E k \in 1 .. Len(c) : ring'[i] = Slot(c, k)
         /\ \A i \in sync_value .. reserved - 1 : ring'[Wrap(i)] = ring[Wrap(i)]
         /\ \A k \in 1 .. Len(c) : /\ Wrap(reserved + (k - 1)) = Wrap(reserved) + (k - 1)
                                   /\ ring'[Wrap(reserved) + (k - 1)] = Slot(c, k)
<1>1. c \in Seq(Packets) /\ Len(c) \in Nat \ {0} /\ Wrap(reserved) + Len(c) <= RingSize
  BY CommandShape
<1>2. /\ RingSize \in Nat \ {0} /\ reserved \in Nat /\ sync_value \in Nat
      /\ Wrap(reserved) \in Nat /\ Wrap(reserved) \in 0 .. RingSize - 1
  BY Types, WrapType
<1>3. DOMAIN ring = 0 .. RingSize - 1 /\ \A i \in 0 .. RingSize - 1 : ring[i] \in Slots
  BY DEF RingInv, Slots
<1>4. ASSUME NEW i \in 0 .. RingSize - 1, NEW k, k = 1 + ((i - reserved) % RingSize)
      PROVE  ring'[i] = IF k <= Len(c) THEN Slot(c, k) ELSE ring[i]
  BY <1>3, <1>4, Zenon
<1>5. ASSUME NEW i \in 0 .. RingSize - 1
      PROVE  ring'[i] = ring[i] \/ \E k \in 1 .. Len(c) : ring'[i] = Slot(c, k)
  <2>1. i - reserved \in Int
    BY <1>2
  <2>2. (i - reserved) % RingSize \in 0 .. RingSize - 1
    BY <1>2, <2>1, DivModInt
  <2>3. PICK k \in Nat : k = 1 + ((i - reserved) % RingSize) /\ k >= 1
    BY <1>2, <2>2
  <2>4. k <= Len(c) => k \in 1 .. Len(c)
    BY <1>1, <2>3
  <2> QED
    BY <1>4, <2>3, <2>4
<1>6. ring' \in [0 .. RingSize - 1 -> Slots]
  <2>1. \A i \in 0 .. RingSize - 1 : ring'[i] \in Slots
    BY <1>1, <1>3, <1>5, SlotFacts
  <2>2. DOMAIN ring' = 0 .. RingSize - 1 /\ ring' = [i \in 0 .. RingSize - 1 |-> ring'[i]]
    BY <1>3, Zenon
  <2> QED
    BY <2>1, <2>2, Zenon
<1>7. ASSUME NEW i \in sync_value .. reserved - 1 PROVE ring'[Wrap(i)] = ring[Wrap(i)]
  <2>1. i \in Nat /\ i < reserved /\ reserved - i <= RingSize
    BY <1>1, <1>2
  <2>2. (Wrap(i) - reserved) % RingSize = RingSize + i - reserved
    BY <1>2, <2>1, WrapDistance
  <2>3. PICK k : k = 1 + ((Wrap(i) - reserved) % RingSize)
    BY Zenon
  <2>4. ~(k <= Len(c))
    BY <1>1, <1>2, <2>1, <2>2, <2>3
  <2>5. Wrap(i) \in 0 .. RingSize - 1
    BY <2>1, WrapType
  <2> QED
    BY <1>4, <2>3, <2>4, <2>5, Zenon
<1>8. ASSUME NEW k \in 1 .. Len(c)
      PROVE  /\ Wrap(reserved + (k - 1)) = Wrap(reserved) + (k - 1)
             /\ ring'[Wrap(reserved) + (k - 1)] = Slot(c, k)
  <2>1. PICK d \in Nat : d = k - 1 /\ Wrap(reserved) + d < RingSize /\ d < RingSize /\ k = 1 + d
    BY <1>1, <1>2
  <2>2. Wrap(reserved + d) = Wrap(reserved) + d
    BY <1>2, <2>1, WrapWithin
  <2>3. reserved + d \in Nat /\ reserved <= reserved + d /\ (reserved + d) - reserved < RingSize /\ (reserved + d) - reserved = d
    BY <1>2, <2>1
  <2>4. (Wrap(reserved + d) - reserved) % RingSize = (reserved + d) - reserved
    BY <1>2, <2>3, WrapDistance
  <2>5. k = 1 + (((Wrap(reserved) + d) - reserved) % RingSize)
    BY <2>1, <2>2, <2>3, <2>4
  <2>6. Wrap(reserved) + d \in 0 .. RingSize - 1 /\ k <= Len(c)
    BY <1>1, <1>2, <2>1
  <2>7. ring'[Wrap(reserved) + d] = Slot(c, k)
    BY <1>4, <2>5, <2>6, Zenon
  <2> QED
    BY <2>1, <2>2, <2>7, Zenon
<1> QED
  BY <1>5, <1>6, <1>7, <1>8, Zenon

\* A command that was just written is one.
LEMMA NewCommand ==
  ASSUME TypeOK, RingInv, NEW c \in Commands, NEW r, r = <<reserved, reserved + Len(c)>>,
         ~(pc' = "poll" /\ r[1] = rptr_next'),
         \A k \in 1 .. Len(c) : ring'[Wrap(reserved) + (k - 1)] = Slot(c, k)
  PROVE  Command(r)'
<1>1. /\ c \in Seq(Packets) /\ Len(c) \in Nat \ {0} /\ Wrap(reserved) + Len(c) <= RingSize
      /\ ~Polling(c[Len(c)]) /\ \A j, k \in 1 .. Len(c) : j < k /\ Polling(c[k]) => Polling(c[j])
  BY CommandShape
<1>2. PICK n \in Nat : n = Len(c)
  BY <1>1
<1>3. PICK bot \in Nat : bot = Wrap(reserved)
  BY Types, WrapType, Zenon
<1>4. reserved \in Nat /\ RingSize \in Nat
  BY Types
<1>5. PICK top \in Nat : top = bot + n
  OBVIOUS
<1>6. r[1] = reserved /\ r[2] - r[1] = n /\ bot + (r[2] - r[1]) = top
  BY <1>2, <1>4, <1>5
<1>7. ASSUME NEW i \in bot .. top - 1
      PROVE  (i - bot) + 1 \in 1 .. Len(c) /\ ring'[i] = Slot(c, (i - bot) + 1)
  <2>1. (i - bot) + 1 \in 1 .. Len(c) /\ bot + (((i - bot) + 1) - 1) = i
    BY <1>2, <1>5
  <2> QED
    BY <1>3, <2>1, Zenon
<1>8. ASSUME NEW i \in bot .. top - 1
      PROVE  /\ ring'[i].packet = c[(i - bot) + 1]
             /\ \A s \in ring'[i].after : \E j \in 1 .. ((i - bot) + 1) - 1 : c[j] \in {Poll(s), PollHi(s)}
  <2>1. PICK k \in 1 .. Len(c) : k = (i - bot) + 1
    BY <1>7, Zenon
  <2>2. ring'[i] = Slot(c, k)
    BY <1>7, <2>1, Zenon
  <2>3. Slot(c, k).packet = c[k] /\ \A s \in Slot(c, k).after : \E j \in 1 .. k - 1 : c[j] \in {Poll(s), PollHi(s)}
    BY <1>1, SlotFacts
  <2> QED
    BY <2>1, <2>2, <2>3, Zenon
<1>9. top <= RingSize /\ bot <= bot /\ bot < top
  BY <1>1, <1>2, <1>3, <1>5
<1>10. ~Polling(ring'[top - 1].packet)
  <2>1. top - 1 \in bot .. top - 1 /\ ((top - 1) - bot) + 1 = Len(c)
    BY <1>2, <1>5, <1>9
  <2> QED
    BY <1>1, <1>8, <2>1, Zenon
<1>11. ASSUME NEW i \in bot .. top - 1, NEW j \in bot .. top - 1, i < j, Polling(ring'[j].packet)
       PROVE  Polling(ring'[i].packet)
  <2>1. (i - bot) + 1 < (j - bot) + 1
    BY <1>11
  <2> QED
    BY <1>1, <1>7, <1>8, <1>11, <2>1, Zenon
<1>12. ASSUME NEW i \in bot .. top - 1, NEW s \in ring'[i].after
       PROVE  \E j \in bot .. i - 1 : ring'[j].packet \in {Poll(s), PollHi(s)}
  <2>1. PICK j \in 1 .. ((i - bot) + 1) - 1 : c[j] \in {Poll(s), PollHi(s)}
    BY <1>8, <1>12, Zenon
  <2>2. PICK x : x = bot + (j - 1)
    BY Zenon
  <2>3. x \in bot .. i - 1 /\ x \in bot .. top - 1 /\ (x - bot) + 1 = j
    BY <2>1, <2>2
  <2>4. ring'[x].packet = c[j]
    BY <1>8, <2>3, Zenon
  <2> QED
    BY <2>1, <2>3, <2>4, Zenon
<1>13. (IF pc' = "poll" /\ r[1] = rptr_next' THEN poll_pkt' ELSE Wrap(r[1])) = bot /\ Wrap(r[1]) = bot
  BY <1>3, <1>6
<1> QED
  BY <1>6, <1>9, <1>10, <1>11, <1>12, <1>13, Zenon DEF Command, Wrap

\* A host reserves room and writes a command.
LEMMA WriteStep ==
  ASSUME IInv, NEW p \in Hosts, Write(p) PROVE IInv'
<1>1. TypeOK /\ HostInv /\ QueueInv /\ DriverInv /\ RingInv /\ CleanInv
  BY Zenon DEF IInv
<1>2. PICK c \in Commands :
        /\ reserved + Len(c) <= MaxIndex /\ reserved + Len(c) - sync_value <= RingSize
        /\ span' = [span EXCEPT ![p] = <<reserved, reserved + Len(c)>>]
        /\ reserved' = reserved + Len(c)
        /\ ring' = [i \in DOMAIN ring |-> LET k == 1 + ((i - reserved) % RingSize)
                                          IN IF k <= Len(c) THEN Slot(c, k) ELSE ring[i]]
  BY Zenon DEF Write
<1>3. /\ ppc[p] = "idle" /\ ppc' = [ppc EXCEPT ![p] = "written"]
      /\ UNCHANGED <<committed, wptr_next, hpc, wptr_pre, wptr_queue, thread_stop, pendings, poll_pkt, pc,
                     rptr_next, ibs, sync_value, goff, executed, refused, sig>>
  BY Zenon DEF Write, bellvars, loopvars, gpuvars
<1>4. /\ ppc' \in [Hosts -> {"idle", "written", "bell", "unlocked", "rung"}]
      /\ ppc'[p] = "written" /\ \A q \in Hosts : q # p => ppc'[q] = ppc[q]
  BY <1>1, <1>3, HostPc, Zenon
<1>5. PICK n \in Nat \ {0} : n = Len(c)
  BY <1>1, CommandShape
<1>6. /\ ring' \in [0 .. RingSize - 1 -> Slots]
      /\ \A i \in 0 .. RingSize - 1 : ring'[i] = ring[i] \/ \E k \in 1 .. Len(c) : ring'[i] = Slot(c, k)
      /\ \A i \in sync_value .. reserved - 1 : ring'[Wrap(i)] = ring[Wrap(i)]
      /\ \A k \in 1 .. Len(c) : /\ Wrap(reserved + (k - 1)) = Wrap(reserved) + (k - 1)
                                /\ ring'[Wrap(reserved) + (k - 1)] = Slot(c, k)
  BY <1>1, <1>2, Written, Zenon
<1>7. /\ reserved \in Nat /\ committed \in Nat /\ rptr_next \in Nat /\ sync_value \in Nat /\ RingSize \in Nat
      /\ MaxIndex \in Nat /\ \A q \in Hosts : span[q][1] \in Nat /\ span[q][2] \in Nat
  BY <1>1, Types
<1>8. reserved' = reserved + n /\ reserved + n <= MaxIndex /\ (reserved + n) - sync_value <= RingSize
  BY <1>2, <1>5, <1>7
<1>9. PICK r \in Ranges : r = <<reserved, reserved + n>> /\ r[1] = reserved /\ r[2] = reserved + n
  <2>1. reserved \in 0 .. MaxIndex /\ reserved + n \in 0 .. MaxIndex
    BY <1>5, <1>7, <1>8
  <2>2. <<reserved, reserved + n>> \in Ranges
    BY <2>1 DEF Ranges
  <2> QED
    BY <2>2
<1>10. /\ span' \in [Hosts -> Ranges] /\ span'[p] = r /\ \A q \in Hosts : q # p => span'[q] = span[q]
  <2>1. span \in [Hosts -> Ranges] /\ span' = [span EXCEPT ![p] = r]
    BY <1>1, <1>2, <1>5, <1>9, Zenon DEF TypeOK, Ranges
  <2> QED
    BY <2>1
<1>11. QueueInv' /\ Queued' = Queued /\ QueueEnd' = QueueEnd
  BY <1>1, <1>3, QueueFrame, Zenon
<1>12. DriverInv'
  BY <1>1, <1>3, DriverFrame, Zenon
<1>13. SigDown
  BY <1>3, Zenon DEF SigDown
<1>14. ReadInv'
  BY <1>3, <1>13, ReadFrame, Zenon DEF IInv
<1>15. QueueEnd <= reserved /\ rptr_next <= QueueEnd /\ QueueEnd \in Nat /\ sync_value <= rptr_next
  <2>1. QueueEnd <= reserved /\ rptr_next <= QueueEnd /\ QueueEnd \in Nat
    BY <1>1, EndBounds, QueuedType
  <2> QED
    BY <1>1, <2>1, Zenon DEF DriverInv
<1>16. RingInv'
  <2>1. ASSUME NEW i \in sync_value' .. reserved' - 1 PROVE ring'[Wrap(i)].index = i
    <3>1. CASE i < reserved
      <4>1. i \in sync_value .. reserved - 1
        BY <1>3, <1>7, <3>1
      <4> QED
        BY <1>1, <1>6, <4>1, Zenon DEF RingInv
    <3>2. CASE ~(i < reserved)
      <4>1. PICK k \in 1 .. Len(c) : i = reserved + (k - 1) /\ reserved + k - 1 = i
        <5>1. (i - reserved) + 1 \in 1 .. Len(c) /\ i = reserved + (((i - reserved) + 1) - 1)
              /\ reserved + ((i - reserved) + 1) - 1 = i
          BY <1>3, <1>5, <1>7, <1>8, <3>2
        <5> QED
          BY <5>1, Zenon
      <4>2. Slot(c, k).index = i
        <5>1. c \in Seq(Packets)
          BY <1>1, CommandShape
        <5> QED
          BY <1>1, <4>1, <5>1, SlotFacts
      <4> QED
        BY <1>6, <4>1, <4>2, Zenon
    <3> QED
      BY <3>1, <3>2
  <2>2. reserved' - sync_value' <= RingSize
    BY <1>3, <1>8
  <2> QED
    BY <1>6, <2>1, <2>2, Zenon DEF RingInv, Wrap, Slots
<1>17. CleanInv'
  <2>1. \A i \in Nat : sync_value <= i /\ i < rptr_next => i \in sync_value .. reserved - 1
    BY <1>7, <1>15
  <2> QED
    BY <1>1, <1>3, <1>6, <1>13, <2>1, CleanFrame, Zenon
<1>18. TypeOK'
  <2>1. ASSUME NEW i \in DOMAIN ring'
        PROVE  ring'[i].index \in -RingSize .. MaxIndex /\ ring'[i].packet \in Packets /\ ring'[i].after \subseteq Signals
    <3>1. i \in 0 .. RingSize - 1 /\ i \in DOMAIN ring /\ ring'[i] \in Slots
      BY <1>1, <1>6 DEF RingInv
    <3>2. ring'[i].packet \in Packets /\ ring'[i].after \subseteq Signals
      BY <3>1 DEF Slots
    <3>3. ring'[i].index \in -RingSize .. MaxIndex
      <4>1. CASE ring'[i] = ring[i]
        BY <1>1, <3>1, <4>1, Zenon DEF TypeOK
      <4>2. CASE \E k \in 1 .. Len(c) : ring'[i] = Slot(c, k)
        <5>1. PICK k \in 1 .. Len(c) : ring'[i] = Slot(c, k)
          BY <4>2
        <5>2. ring'[i].index = reserved + k - 1
          <6>1. c \in Seq(Packets)
            BY <1>1, CommandShape
          <6> QED
            BY <1>1, <5>1, <6>1, SlotFacts
        <5> QED
          BY <1>5, <1>7, <1>8, <5>2
      <4> QED
        BY <1>6, <3>1, <4>1, <4>2, Zenon
    <3> QED
      BY <3>2, <3>3
  <2>2. {reserved', committed', wptr_next', wptr_pre', rptr_next', sync_value'} \subseteq 0 .. MaxIndex
    <3>1. {reserved, committed, wptr_next, wptr_pre, rptr_next, sync_value} \subseteq 0 .. MaxIndex
      BY <1>1, Zenon DEF TypeOK
    <3> QED
      BY <1>3, <1>7, <1>8, <3>1
  <2> QED
    BY <1>1, <1>3, <1>4, <1>10, <2>1, <2>2, Zenon DEF TypeOK, Ranges
<1>19. HostInv'
  <2>1. /\ committed' <= reserved'
        /\ \A q \in Hosts : ppc'[q] # "idle" =>
             committed' <= span'[q][1] /\ span'[q][1] < span'[q][2] /\ span'[q][2] <= reserved'
    <3>1. committed <= reserved
      BY <1>1, Zenon DEF HostInv
    <3>2. ASSUME NEW q \in Hosts, ppc'[q] # "idle"
          PROVE  committed' <= span'[q][1] /\ span'[q][1] < span'[q][2] /\ span'[q][2] <= reserved'
      <4>1. CASE q = p
        BY <1>3, <1>5, <1>7, <1>8, <1>9, <1>10, <3>1, <4>1
      <4>2. CASE q # p
        <5>1. committed <= span[q][1] /\ span[q][1] < span[q][2] /\ span[q][2] <= reserved
          BY <1>1, <1>4, <3>2, <4>2, Zenon DEF HostInv
        <5> QED
          BY <1>3, <1>5, <1>7, <1>8, <1>10, <4>2, <5>1
      <4> QED
        BY <4>1, <4>2
    <3> QED
      BY <1>3, <1>5, <1>7, <1>8, <3>1, <3>2
  <2>2. ASSUME NEW q \in Hosts, NEW u \in Hosts, q # u, ppc'[q] # "idle", ppc'[u] # "idle"
        PROVE  span'[q][2] <= span'[u][1] \/ span'[u][2] <= span'[q][1]
    <3>1. ASSUME NEW x \in Hosts, x # p, ppc'[x] # "idle" PROVE span'[x][2] <= span'[p][1]
      BY <1>1, <1>4, <1>9, <1>10, <3>1, Zenon DEF HostInv
    <3>2. CASE q = p \/ u = p
      BY <2>2, <3>1, <3>2, Zenon
    <3>3. CASE q # p /\ u # p
      BY <1>1, <1>4, <1>10, <2>2, <3>3, Zenon DEF HostInv
    <3> QED
      BY <3>2, <3>3
  <2>3. \A q \in Hosts : ppc'[q] \in {"bell", "unlocked", "rung"} =>
          q # p /\ ppc'[q] = ppc[q] /\ span'[q] = span[q]
    BY <1>4, <1>10
  <2>4. ppc[p] \notin {"bell", "unlocked", "rung"} /\ ppc'[p] \notin {"bell", "unlocked", "rung"}
    BY <1>3, <1>4
  <2>5. \A q \in Hosts : ppc[q] \in {"bell", "unlocked", "rung"} => ppc'[q] = ppc[q]
    BY <1>4, <2>4, Zenon
  <2>6. /\ \A q \in Hosts : ppc'[q] \in {"bell", "unlocked", "rung"} => span'[q][1] = committed' /\ wptr_next' = span'[q][2]
        /\ \A q \in Hosts : ppc'[q] \in {"unlocked", "rung"} => QueueEnd' = span'[q][2]
        /\ \A q \in Hosts : ppc'[q] = "rung" => wptr_pre' = span'[q][2]
    BY <1>1, <1>3, <1>11, <2>3 DEF HostInv
  <2>7. /\ (\A q \in Hosts : ppc'[q] \notin {"bell", "unlocked", "rung"}) => wptr_next' = committed'
        /\ (\A q \in Hosts : ppc'[q] \notin {"unlocked", "rung"}) => QueueEnd' = committed'
        /\ (\A q \in Hosts : ppc'[q] # "rung") => wptr_pre' = committed'
    BY <1>1, <1>3, <1>11, <2>5 DEF HostInv
  <2> QED
    BY <2>1, <2>2, <2>6, <2>7, Zenon DEF HostInv
<1>20. CommandInv'
  <2>1. ASSUME NEW q \in Unsubmitted PROVE Command(q)'
    <3>1. q \in Ranges /\ Command(q) /\ q[1] \in Nat /\ q[2] \in Nat /\ rptr_next <= q[1] /\ q[2] <= reserved
      BY <1>1, RangeBounds DEF IInv, CommandInv
    <3>2. ASSUME NEW i \in Wrap(q[1]) .. (Wrap(q[1]) + (q[2] - q[1])) - 1 PROVE ring'[i] = ring[i]
      <4>1. PICK d \in Nat : i = Wrap(q[1]) + d /\ d < q[2] - q[1]
        <5>1. Wrap(q[1]) \in Nat
          BY <3>1, WrapType
        <5>2. i - Wrap(q[1]) \in Nat /\ i = Wrap(q[1]) + (i - Wrap(q[1])) /\ i - Wrap(q[1]) < q[2] - q[1]
          BY <3>1, <5>1
        <5> QED
          BY <5>2
      <4>2. Wrap(q[1]) + (q[2] - q[1]) <= RingSize /\ Wrap(q[1]) \in Nat
        BY <3>1, WrapType DEF Command
      <4>3. Wrap(q[1]) + d < RingSize /\ RingSize \in Nat \ {0} /\ q[1] + d \in sync_value .. reserved - 1
        BY <1>7, <1>15, <3>1, <4>1, <4>2, Sizes
      <4>4. Wrap(q[1] + d) = i
        BY <3>1, <4>1, <4>3, WrapWithin
      <4> QED
        BY <1>6, <4>3, <4>4, Zenon
    <3> QED
      BY <1>1, <1>3, <1>13, <3>1, <3>2, CommandKept, Zenon
  <2>2. Command(r)'
    <3>1. ASSUME pc' = "poll", r[1] = rptr_next' PROVE FALSE
      <4>1. Head(pendings)[1] = rptr_next /\ Head(pendings)[1] < Head(pendings)[2] /\ Head(pendings)[2] <= QueueEnd
            /\ Head(pendings) \in Ranges
        BY <1>1, <1>3, <3>1, HeadRange
      <4>2. Head(pendings)[2] \in Nat
        BY <4>1, <1>7 DEF Ranges
      <4> QED
        BY <1>3, <1>7, <1>9, <1>15, <3>1, <4>1, <4>2
    <3> QED
      BY <1>1, <1>5, <1>6, <1>9, <3>1, NewCommand
  <2>3. ASSUME NEW q \in Unsubmitted' PROVE q \in Unsubmitted \/ q = r
    BY <1>4, <1>10, <1>11, <2>3, Zenon DEF Unsubmitted
  <2> QED
    BY <2>1, <2>2, <2>3, Zenon DEF CommandInv
<1> QED
  BY <1>11, <1>12, <1>14, <1>16, <1>17, <1>18, <1>19, <1>20, Zenon DEF IInv

-----------------------------------------------------------------------------
(* The theorems. *)

\* An empty queue has the invariant.
LEMMA InitIInv ==
  ASSUME Init PROVE IInv
<1>1. RingSize \in Nat \ {0} /\ MaxIndex \in Nat
  BY Sizes
<1>2. /\ pendings = <<>> /\ wptr_queue = <<>> /\ ibs = <<>> /\ executed = {} /\ goff = 0 /\ pc = "top"
      /\ reserved = 0 /\ committed = 0 /\ wptr_next = 0 /\ wptr_pre = 0 /\ rptr_next = 0 /\ sync_value = 0
      /\ poll_pkt = 0 /\ ppc = [p \in Hosts |-> "idle"] /\ span = [p \in Hosts |-> Empty]
      /\ ring = [i \in 0 .. RingSize - 1 |-> [index |-> i - RingSize, packet |-> Nop, after |-> {}]]
  BY Zenon DEF Init
<1>3. ASSUME NEW i \in 0 .. RingSize - 1
      PROVE  /\ ring[i].index = i - RingSize /\ ring[i].packet \in Packets /\ ring[i].after = {}
             /\ ring[i] \in [index : Int, packet : Packets, after : SUBSET Signals]
  <2>1. ring[i] = [index |-> i - RingSize, packet |-> Nop, after |-> {}] /\ i - RingSize \in Int
    BY <1>1, <1>2
  <2> QED
    BY <2>1, PacketFacts
<1>4. DOMAIN ring = 0 .. RingSize - 1 /\ ring \in [0 .. RingSize - 1 -> [index : Int, packet : Packets, after : SUBSET Signals]]
  BY <1>2, <1>3, Zenon
<1>5. TypeOK
  <2>1. \A i \in DOMAIN ring : ring[i].index \in -RingSize .. MaxIndex /\ ring[i].packet \in Packets /\ ring[i].after \subseteq Signals
    BY <1>1, <1>3, <1>4
  <2>2. Empty \in (0 .. MaxIndex) \X (0 .. MaxIndex)
    BY <1>1 DEF Empty
  <2>3. span \in [Hosts -> (0 .. MaxIndex) \X (0 .. MaxIndex)]
    BY <1>2, <2>2, Zenon
  <2>4. wptr_queue \in Seq((0 .. MaxIndex) \X (0 .. MaxIndex)) /\ pendings \in Seq((0 .. MaxIndex) \X (0 .. MaxIndex))
    BY <1>2
  <2>5. {reserved, committed, wptr_next, wptr_pre, rptr_next, sync_value} \subseteq 0 .. MaxIndex /\ poll_pkt \in 0 .. RingSize - 1
        /\ goff \in 0 .. RingSize
    BY <1>1, <1>2
  <2> QED
    BY <2>1, <2>3, <2>4, <2>5, Zenon DEF TypeOK, Init
<1>6. Queued = <<>> /\ QueueEnd = 0 /\ Len(Queued) = 0
  BY <1>2 DEF Queued, QueueEnd
<1>7. QueueInv /\ HostInv /\ DriverInv /\ RingInv
  <2>1. QueueInv
    BY <1>2, <1>6 DEF QueueInv
  <2>2. \A p \in Hosts : ppc[p] = "idle"
    BY <1>2
  <2>3. HostInv
    BY <1>2, <1>6, <2>2 DEF HostInv
  <2>4. DriverInv
    <3>1. ibs \in Seq([start : Nat, end : Nat, fence : Nat]) /\ Len(ibs) = 0
      BY <1>2
    <3> QED
      BY <1>2, <3>1 DEF DriverInv
  <2>5. RingInv
    <3>1. reserved - sync_value <= RingSize /\ sync_value .. reserved - 1 = {}
      BY <1>1, <1>2
    <3> QED
      BY <1>4, <3>1, Zenon DEF RingInv
  <2> QED
    BY <2>1, <2>3, <2>4, <2>5
<1>8. CommandInv /\ CleanInv /\ ReadInv
  BY <1>2, <1>6 DEF CommandInv, Unsubmitted, CleanInv, ReadInv
<1> QED
  BY <1>5, <1>7, <1>8, Zenon DEF IInv

\* Every step keeps it.
LEMMA NextIInv ==
  ASSUME IInv, [Next]_vars PROVE IInv'
<1>1. ASSUME NEW p \in Hosts, Write(p) \/ Host(p) PROVE IInv'
  BY <1>1, WriteStep, MoveWptrStep, RingDoorbellStep, DoorbellReturnsStep, CommittedStep, Zenon DEF Host
<1>2. ASSUME DestroyStop \/ DestroyNotify \/ DestroyJoin \/ SpuriousWake \/ UNCHANGED vars PROVE IInv'
  BY <1>2, DestroySteps, Zenon
<1>3. ASSUME NEW s \in Signals, Complete(s) PROVE IInv'
  BY <1>3, CompleteStep, Zenon
<1>4. ASSUME SdmaThread PROVE IInv'
  BY <1>4, TopStep, WaitPollStep, SubmitStep, Zenon DEF SdmaThread
<1>5. ASSUME Gpu PROVE IInv'
  BY <1>5, ExecuteStep, SignalFenceStep, Zenon DEF Gpu
<1>6. ASSUME Finished PROVE IInv'
  <2>1. UNCHANGED vars
    BY <1>6, Zenon DEF Finished
  <2> QED
    BY <2>1, <1>2, Zenon
<1> QED
  BY <1>1, <1>2, <1>3, <1>4, <1>5, <1>6, Zenon DEF Next

\* The invariant holds in every reachable state.
THEOREM Invariance == Spec => []IInv
<1>1. Init => IInv
  BY InitIInv
<1>2. IInv /\ [Next]_vars => IInv'
  BY NextIInv
<1> QED
  BY <1>1, <1>2, PTL DEF Spec

\* Every variable keeps its type, and the scan for polls stays inside the ring.
THEOREM TypeCorrect == Spec => []TypeOK
<1>1. IInv => TypeOK
  BY Zenon DEF IInv
<1> QED
  BY <1>1, Invariance, PTL

\* The range the thread takes starts at the byte count PreparePacket keeps, although the
\* doorbell notes the start of the next range after it has released the lock: the fence
\* value ROCr reads as the ring's read pointer is an index of the ring.
THEOREM FenceIsReadPointer == Spec => []FenceIsIndex
<1>1. IInv => FenceIsIndex
  BY HeadRange, Zenon DEF IInv, FenceIsIndex
<1> QED
  BY <1>1, Invariance, PTL

\* The GPU reads, for every packet, what was written for its index.
THEOREM RingIntact == Spec => []SlotIntact
<1>1. IInv => SlotIntact
  BY Zenon DEF IInv, ReadInv, SlotIntact
<1> QED
  BY <1>1, Invariance, PTL

\* No copy runs before the signals its command polls are completed.
THEOREM CopiesWait == Spec => []PollHonoured
<1>1. IInv => PollHonoured
  BY Zenon DEF IInv, ReadInv, PollHonoured
<1> QED
  BY <1>1, Invariance, PTL
=============================================================================
