------------------------- MODULE AllocationMap_inv --------------------------
(***************************************************************************)
(* The inductive invariant of AllocationMap, and the kinds of steps that   *)
(* keep it: what each may change and must leave alone.                     *)
(***************************************************************************)
EXTENDS AllocationMap, TLAPS

Making == {"reserve", "commit", "physical", "map", "mapfence", "resident", "residentfence", "wait", "waiting", "insert"}
Mapping == {"map", "mapfence", "resident", "residentfence", "mapdone", "mapfailed", "notpaged"}
Ending == {"decommit", "vafree"}
Pcs == {"idle", "release"} \cup Making \cup Mapping \cup Ending
MapCalls == {"mapipc", "vamap"}
EndCalls == {"guard", "delete"}

MemRecord ==
  [kind : Kinds \cup {None}, addr : Ranges \cup {None}, holds : BOOLEAN, mapped : SUBSET Chunks,
   fence : Int, queue : BOOLEAN, told : {"yes", "no", "unsure"}]
ThreadRecord ==
  [pc : Pcs, call : {None, "alloc"} \cup MapCalls \cup EndCalls, o : Objects \cup {None},
   key : Ranges \cup UserPtrs \cup {None}, v : Int, again : BOOLEAN]

Typed ==
  /\ mem \in [Objects -> MemRecord]
  /\ thread \in [Threads -> ThreadRecord]
  /\ page_fence \in Int /\ issued \in Int

\* A thread's operation, its step and its object agree.
Calling ==
  \A t \in Threads :
    /\ thread[t].call = None => thread[t].pc \in {"idle", "release"} /\ thread[t].o = None
    /\ thread[t].call # None => thread[t].o \in Objects /\ mem[thread[t].o].kind \in Kinds
    /\ thread[t].call = "alloc" => thread[t].pc \in Making
    /\ thread[t].call \in EndCalls => thread[t].pc \in Ending
    /\ thread[t].call \in MapCalls => thread[t].pc \in Mapping \cup {"wait", "waiting"}
    /\ thread[t].call = "vamap" => thread[t].pc \in Mapping /\ mem[thread[t].o].kind = "physical"
    /\ thread[t].call = "mapipc" => lock = t

\* No two threads work on one object.
Alone == \A t, u \in Threads : (t # u /\ thread[t].o # None) => thread[t].o # thread[u].o

Unreserved(t) ==
  \/ thread[t].pc = "reserve"
  \/ thread[t].pc = "physical" /\ mem[thread[t].o].kind \in {"physical", "ipc"}

\* An object being made holds its range once that is reserved; one being deleted has it, has
\* none, or has lost it to the guard of Init.
Progress ==
  \A t \in Threads :
    /\ (thread[t].call = "alloc" /\ Unreserved(t)) => mem[thread[t].o].addr = None /\ ~mem[thread[t].o].holds
    /\ (thread[t].call = "alloc" /\ ~Unreserved(t)) => mem[thread[t].o].holds
    /\ (thread[t].call = "alloc" /\ mem[thread[t].o].kind = "user") => thread[t].key \in UserPtrs
    /\ (thread[t].call = "alloc" /\ thread[t].pc = "commit") => mem[thread[t].o].kind = "system"
    /\ thread[t].call \in EndCalls =>
         thread[t].again \/ mem[thread[t].o].holds \/ mem[thread[t].o].addr = None

\* A range that is held is reserved and has one holder.
Owned ==
  /\ \A o \in Objects : mem[o].kind = None => mem[o] = NoMem
  /\ \A o \in Objects : mem[o].holds => mem[o].addr \in Ranges \cap used
  /\ \A o, p \in Objects : (o # p /\ mem[o].holds /\ mem[p].holds) => mem[o].addr # mem[p].addr

Pages ==
  \A o \in Objects :
    (mem[o].holds /\ mem[o].kind = "system"
       /\ \A t \in Threads : thread[t].o = o => thread[t].pc \notin {"commit", "decommit", "vafree"})
      => mem[o].addr \in committed

\* The object's calls, if any, are requests to map or unmap it.
Settled(o) == \A t \in Threads : thread[t].o = o => thread[t].call \in MapCalls

\* What an entry of the map stands for: object o under key k.
Stands(k, o) ==
  /\ o \in Objects /\ mem[o].kind \in Kinds /\ mem[o].holds /\ Settled(o)
  /\ allocation_map[k].userptr <=> mem[o].kind = "user"
  /\ k = mem[o].addr \/ (k \in UserPtrs /\ mem[o].kind = "user")

Entries ==
  /\ \A k \in Keys : Stands(k, allocation_map[k].o)
  /\ \A k, l \in Keys \cap UserPtrs : allocation_map[k].o = allocation_map[l].o => k = l

Found ==
  \A o \in Objects : (mem[o].kind # None /\ Settled(o)) =>
    mem[o].addr \in Keys /\ allocation_map[mem[o].addr].o = o

\* A ring, and a ring whose queue is gone but not yet its reference.
Referenced(k) == /\ k \in Keys /\ mem[allocation_map[k].o].queue
                 /\ mem[allocation_map[k].o].kind = "system"
Rings ==
  /\ \A k \in DOMAIN queues : Referenced(k) /\ allocation_map[k].o = queues[k]
  /\ \A t \in Threads : thread[t].pc = "release" =>
       Referenced(thread[t].key) /\ thread[t].key \notin DOMAIN queues
  /\ \A t, u \in Threads : (t # u /\ thread[t].pc = "release" /\ thread[u].pc = "release")
       => thread[t].key # thread[u].key

Good == Typed /\ Calling /\ Alone /\ Progress /\ Owned /\ Pages /\ Entries /\ Found /\ Rings
IInv == robbed \/ Good

-----------------------------------------------------------------------------

\* What the invariants read of an object stays.
SameMem(o) == /\ mem'[o].kind = mem[o].kind /\ mem'[o].addr = mem[o].addr
              /\ mem'[o].holds = mem[o].holds /\ mem'[o].queue = mem[o].queue

\* Only thread t moves, and only its object changes.
Mine(t) == /\ \A u \in Threads \ {t} : thread'[u] = thread[u]
           /\ \A p \in Objects \ {thread[t].o} : mem'[p] = mem[p]

\* The rings stay when no referenced entry changes and no thread starts to release one.
LEMMA RingsFrame ==
  ASSUME Rings, UNCHANGED queues,
         \A k \in Keys : Referenced(k) => Referenced(k)' /\ allocation_map'[k].o = allocation_map[k].o,
         \A u \in Threads : thread'[u].pc = "release" => thread[u].pc = "release" /\ thread'[u].key = thread[u].key
  PROVE  Rings'
<1>1. \A k \in DOMAIN queues : k \in Keys /\ Referenced(k)
  BY DEF Rings, Referenced
<1>2. \A t \in Threads : thread[t].pc = "release" => thread[t].key \in Keys
  BY DEF Rings, Referenced
<1> QED
  BY <1>1, <1>2 DEF Rings

\* Map and objects agree as before when neither changes.
LEMMA MapFrame ==
  ASSUME Entries, Found, UNCHANGED allocation_map,
         \A o \in Objects : mem'[o].kind = mem[o].kind /\ mem'[o].addr = mem[o].addr /\ mem'[o].holds = mem[o].holds,
         \A o \in Objects : Settled(o)' <=> Settled(o)
  PROVE  Entries' /\ Found'
<1>1. Entries'
  BY DEF Entries, Stands, Keys
<1>2. Found'
  BY DEF Found, Keys
<1> QED
  BY <1>1, <1>2

\* A thread in a call stays in it, and its object has its kind.
LEMMA CallingFrame ==
  ASSUME Calling,
         \A u \in Threads : thread'[u].call = None => thread'[u].pc \in {"idle", "release"} /\ thread'[u].o = None,
         \A u \in Threads : thread'[u].call # None => thread'[u] = thread[u],
         \A p \in Objects : mem'[p].kind = mem[p].kind, lock' = lock
  PROVE  Calling'
<1>1. None \notin {"alloc", "vamap", "mapipc"} /\ None \notin EndCalls /\ None \notin MapCalls
  BY DEF EndCalls, MapCalls, None
<1> SUFFICES ASSUME NEW u \in Threads
    PROVE  /\ thread'[u].call = None => thread'[u].pc \in {"idle", "release"} /\ thread'[u].o = None
           /\ thread'[u].call # None => thread'[u].o \in Objects /\ mem'[thread'[u].o].kind \in Kinds
           /\ thread'[u].call = "alloc" => thread'[u].pc \in Making
           /\ thread'[u].call \in EndCalls => thread'[u].pc \in Ending
           /\ thread'[u].call \in MapCalls => thread'[u].pc \in Mapping \cup {"wait", "waiting"}
           /\ thread'[u].call = "vamap" => thread'[u].pc \in Mapping /\ mem'[thread'[u].o].kind = "physical"
           /\ thread'[u].call = "mapipc" => lock' = u
  BY Zenon DEF Calling
<1>2. CASE thread'[u].call = None
  BY <1>1, <1>2, Zenon
<1>3. CASE thread'[u].call # None
  <2>1. thread'[u] = thread[u] /\ thread[u].call # None
    BY <1>3, Zenon
  <2>2. thread[u].o \in Objects /\ mem'[thread[u].o].kind = mem[thread[u].o].kind
    BY <2>1, Zenon DEF Calling
  <2> QED
    BY <1>3, <2>1, <2>2, Zenon DEF Calling
<1> QED
  BY <1>2, <1>3, Zenon

\* Objects being made or deleted progress by their own steps only.
LEMMA ProgressFrame ==
  ASSUME Progress,
         \A u \in Threads : (thread'[u].call = "alloc" \/ thread'[u].call \in EndCalls) =>
           /\ thread'[u] = thread[u]
           /\ mem'[thread[u].o].kind = mem[thread[u].o].kind /\ mem'[thread[u].o].addr = mem[thread[u].o].addr
           /\ mem'[thread[u].o].holds = mem[thread[u].o].holds
  PROVE  Progress'
<1> SUFFICES ASSUME NEW u \in Threads, thread'[u].call = "alloc" \/ thread'[u].call \in EndCalls
    PROVE  /\ (thread'[u].call = "alloc" /\ Unreserved(u)') => mem'[thread'[u].o].addr = None /\ ~mem'[thread'[u].o].holds
           /\ (thread'[u].call = "alloc" /\ ~Unreserved(u)') => mem'[thread'[u].o].holds
           /\ (thread'[u].call = "alloc" /\ mem'[thread'[u].o].kind = "user") => thread'[u].key \in UserPtrs
           /\ (thread'[u].call = "alloc" /\ thread'[u].pc = "commit") => mem'[thread'[u].o].kind = "system"
           /\ thread'[u].call \in EndCalls =>
                thread'[u].again \/ mem'[thread'[u].o].holds \/ mem'[thread'[u].o].addr = None
  BY Zenon DEF Progress
<1>1. /\ thread'[u] = thread[u]
      /\ mem'[thread[u].o].kind = mem[thread[u].o].kind /\ mem'[thread[u].o].addr = mem[thread[u].o].addr
      /\ mem'[thread[u].o].holds = mem[thread[u].o].holds
  BY Zenon
<1>2. Unreserved(u)' <=> Unreserved(u)
  BY <1>1, Zenon DEF Unreserved
<1>3. /\ (thread[u].call = "alloc" /\ Unreserved(u)) => mem[thread[u].o].addr = None /\ ~mem[thread[u].o].holds
      /\ (thread[u].call = "alloc" /\ ~Unreserved(u)) => mem[thread[u].o].holds
      /\ (thread[u].call = "alloc" /\ mem[thread[u].o].kind = "user") => thread[u].key \in UserPtrs
      /\ (thread[u].call = "alloc" /\ thread[u].pc = "commit") => mem[thread[u].o].kind = "system"
      /\ thread[u].call \in EndCalls =>
           thread[u].again \/ mem[thread[u].o].holds \/ mem[thread[u].o].addr = None
  BY Zenon DEF Progress
<1> QED
  BY <1>1, <1>2, <1>3, Zenon

\* Ranges stay with their holders.
LEMMA OwnedFrame ==
  ASSUME Owned, UNCHANGED used,
         \A p \in Objects : mem'[p].kind = mem[p].kind /\ mem'[p].addr = mem[p].addr /\ mem'[p].holds = mem[p].holds,
         \A p \in Objects : mem[p].kind = None => mem'[p] = mem[p]
  PROVE  Owned'
<1>1. \A p \in Objects : mem'[p].kind = None => mem'[p] = NoMem
  BY Zenon DEF Owned
<1>2. \A p \in Objects : mem'[p].holds => mem'[p].addr \in Ranges \cap used'
  BY Zenon DEF Owned
<1>3. ASSUME NEW p \in Objects, NEW q \in Objects, p # q, mem'[p].holds, mem'[q].holds
      PROVE  mem'[p].addr # mem'[q].addr
  <2>1. mem[p].holds /\ mem[q].holds /\ mem'[p].addr = mem[p].addr /\ mem'[q].addr = mem[q].addr
    BY <1>3, Zenon
  <2>2. mem[p].addr # mem[q].addr
    BY <1>3, <2>1, Zenon DEF Owned
  <2> QED
    BY <2>1, <2>2, Zenon
<1> QED
  BY <1>1, <1>2, <1>3, Zenon DEF Owned

\* Memory stays committed while no thread stops working on its pages.
LEMMA PagesFrame ==
  ASSUME Pages, UNCHANGED committed,
         \A p \in Objects : mem'[p].kind = mem[p].kind /\ mem'[p].addr = mem[p].addr /\ mem'[p].holds = mem[p].holds,
         \A u \in Threads : thread[u].pc \in {"commit", "decommit", "vafree"} =>
           thread[u].o \notin Objects \/ thread'[u] = thread[u]
  PROVE  Pages'
<1> SUFFICES ASSUME NEW p \in Objects, mem'[p].holds, mem'[p].kind = "system",
                    \A u \in Threads : thread'[u].o = p => thread'[u].pc \notin {"commit", "decommit", "vafree"}
    PROVE  mem'[p].addr \in committed'
  BY Zenon DEF Pages
<1>1. mem[p].holds /\ mem[p].kind = "system" /\ mem'[p].addr = mem[p].addr
  BY Zenon
<1>2. ASSUME NEW u \in Threads, thread[u].o = p PROVE thread[u].pc \notin {"commit", "decommit", "vafree"}
  BY <1>2, Zenon
<1>3. mem[p].addr \in committed
  BY <1>1, <1>2, Zenon DEF Pages
<1> QED
  BY <1>1, <1>3, Zenon

\* No thread takes up an object another works on.
LEMMA AloneFrame ==
  ASSUME Alone, NEW t \in Threads, \A u \in Threads \ {t} : thread'[u] = thread[u],
         thread'[t].o # None => \A u \in Threads \ {t} : thread[u].o # thread'[t].o
  PROVE  Alone'
<1> SUFFICES ASSUME NEW u \in Threads, NEW v \in Threads, u # v, thread'[u].o # None
    PROVE  thread'[u].o # thread'[v].o
  BY Zenon DEF Alone
<1>1. CASE u = t
  BY <1>1, Zenon
<1>2. CASE v = t
  BY <1>2, Zenon
<1>3. CASE u # t /\ v # t
  BY <1>3, Zenon DEF Alone
<1> QED
  BY <1>1, <1>2, <1>3, Zenon

\* A step of a thread making or mapping an object that changes neither the range nor what
\* others see of it.
LEMMA PageStep ==
  ASSUME Good, NEW t \in Threads, Typed', Mine(t), SameMem(thread[t].o),
         thread[t].call \in {"alloc"} \cup MapCalls,
         thread'[t].call = thread[t].call, thread'[t].o = thread[t].o,
         thread'[t].key = thread[t].key, thread'[t].again = thread[t].again,
         thread[t].call = "alloc" => thread'[t].pc \in Making /\ Unreserved(t)' = Unreserved(t) /\ thread'[t].pc # "commit",
         thread[t].call \in MapCalls => thread'[t].pc \in Mapping \cup {"wait", "waiting"},
         thread[t].call = "vamap" => thread'[t].pc \in Mapping,
         thread[t].pc # "commit" \/ mem[thread[t].o].addr \in committed',
         committed \subseteq committed',
         UNCHANGED <<used, allocation_map, queues, lock>>
  PROVE  Good'
<1>1. thread[t].o \in Objects /\ mem[thread[t].o].kind \in Kinds /\ thread[t].call # None
  BY DEF Good, Calling, MapCalls, None
<1>2. Calling'
  <2>1. \A u \in Threads : thread[u].call # None => mem'[thread[u].o].kind = mem[thread[u].o].kind
    BY DEF Good, Calling, Mine, SameMem
  <2> QED
    BY <1>1, <2>1 DEF Good, Calling, Mine, SameMem, EndCalls, MapCalls, None
<1>3. Alone'
  BY DEF Good, Alone, Mine
<1>4. \A o \in Objects : SameMem(o)
  BY DEF Mine, SameMem
<1>5. Progress'
  <2>1. \A u \in Threads : thread[u].call # None => thread[u].o \in Objects
    BY DEF Good, Calling
  <2>2. ASSUME NEW u \in Threads, u # t, thread[u].call # None PROVE Unreserved(u)' = Unreserved(u)
    BY <1>4, <2>1, <2>2 DEF Unreserved, Mine, SameMem
  <2> QED
    BY <1>1, <1>4, <2>1, <2>2 DEF Good, Progress, Mine, SameMem, EndCalls, MapCalls, None
<1>6. Owned'
  <2>1. \A o \in Objects : mem'[o].kind = None => mem'[o] = NoMem
    BY <1>1, <1>4 DEF Good, Owned, Mine, SameMem, Kinds, None
  <2> QED
    BY <2>1, <1>4 DEF Good, Owned, SameMem
<1>7. Pages'
  <2>1. thread[t].pc \notin {"decommit", "vafree"}
    BY DEF Good, Calling, Making, Mapping, MapCalls
  <2>2. \A u \in Threads \ {t} : thread[u].o # thread[t].o
    BY <1>1, MemoryAssumption DEF Good, Alone, None
  <2>3. mem[thread[t].o].holds /\ mem[thread[t].o].kind = "system" => mem[thread[t].o].addr \in committed'
    BY <1>1, <2>1, <2>2 DEF Good, Pages
  <2> QED
    BY <1>1, <1>4, <2>3 DEF Good, Pages, Mine, SameMem
<1>8. \A o \in Objects : Settled(o)' <=> Settled(o)
  BY DEF Settled, Mine
<1>9. Entries' /\ Found'
  BY <1>4, <1>8, MapFrame DEF Good, SameMem
<1>11. Rings'
  <2>1. \A k \in Keys : Referenced(k) => Referenced(k)'
    BY <1>4 DEF Good, Entries, Stands, Referenced, SameMem, Keys
  <2>2. thread'[t].pc # "release"
    BY DEF Making, Mapping, MapCalls
  <2> QED
    BY <2>1, <2>2, RingsFrame DEF Good, Mine
<1> QED
  BY <1>2, <1>3, <1>5, <1>6, <1>7, <1>9, <1>11 DEF Good

\* A step that fails: the object is given up.
LEMMA FailStep ==
  ASSUME Good, NEW t \in Threads, Typed', Mine(t), SameMem(thread[t].o),
         thread[t].call = "alloc", thread'[t].call \in EndCalls, thread'[t].pc \in Ending,
         thread'[t].o = thread[t].o,
         UNCHANGED <<used, committed, allocation_map, queues, lock>>
  PROVE  Good'
<1>1. thread[t].o \in Objects /\ mem[thread[t].o].kind \in Kinds
  BY DEF Good, Calling, None
<1>2. Calling'
  BY <1>1 DEF Good, Calling, Mine, SameMem, EndCalls, MapCalls, None
<1>3. Alone'
  BY DEF Good, Alone, Mine
<1>4. \A o \in Objects : SameMem(o)
  BY DEF Mine, SameMem
<1>5. Progress'
  <2>1. \A u \in Threads : thread[u].call # None => thread[u].o \in Objects
    BY DEF Good, Calling
  <2>2. ASSUME NEW u \in Threads, u # t, thread[u].call # None PROVE Unreserved(u)' = Unreserved(u)
    BY <1>4, <2>1, <2>2 DEF Unreserved, Mine, SameMem
  <2>3. mem[thread[t].o].holds \/ mem[thread[t].o].addr = None
    BY DEF Good, Progress
  <2> QED
    BY <1>1, <1>4, <2>1, <2>2, <2>3 DEF Good, Progress, Mine, SameMem, EndCalls, MapCalls, None
<1>6. Owned'
  <2>1. \A o \in Objects : mem'[o].kind = None => mem'[o] = NoMem
    BY <1>1, <1>4 DEF Good, Owned, Mine, SameMem, Kinds, None
  <2> QED
    BY <2>1, <1>4 DEF Good, Owned, SameMem
<1>7. Pages'
  BY <1>1, <1>4 DEF Good, Pages, Mine, SameMem, Ending
<1>8. \A o \in Objects : Settled(o)' <=> Settled(o)
  BY DEF Settled, Mine, EndCalls, MapCalls
<1>9. Entries' /\ Found'
  BY <1>4, <1>8, MapFrame DEF Good, SameMem
<1>11. Rings'
  <2>1. \A k \in Keys : Referenced(k) => Referenced(k)'
    BY <1>4 DEF Good, Entries, Stands, Referenced, SameMem, Keys
  <2>2. thread'[t].pc # "release"
    BY DEF Ending
  <2> QED
    BY <2>1, <2>2, RingsFrame DEF Good, Mine
<1> QED
  BY <1>2, <1>3, <1>5, <1>6, <1>7, <1>9, <1>11 DEF Good

\* Nobody else works on the object of a call.
LEMMA OnlyMine ==
  ASSUME Good, NEW t \in Threads, thread[t].call # None
  PROVE  thread[t].o \in Objects /\ \A u \in Threads \ {t} : thread[u].o # thread[t].o
  BY MemoryAssumption DEF Good, Calling, Alone, None

\* An object being made or deleted is not in the map.
LEMMA NotInMap ==
  ASSUME Good, NEW t \in Threads, thread[t].call \in {"alloc"} \cup EndCalls
  PROVE  \A k \in Keys : allocation_map[k].o # thread[t].o
  BY DEF Good, Entries, Stands, Settled, MapCalls, EndCalls

\* The map is as before for a step on an object that is not in it.
LEMMA HiddenFrame ==
  ASSUME Good, NEW t \in Threads, Mine(t), thread[t].call \in {"alloc"} \cup EndCalls,
         mem'[thread[t].o].kind = None \/ (thread'[t].o = thread[t].o /\ thread'[t].call \in {"alloc"} \cup EndCalls),
         thread'[t].o \in {thread[t].o, None}, thread'[t].pc # "release",
         UNCHANGED <<allocation_map, queues>>
  PROVE  Entries' /\ Found' /\ Rings'
<1>1. thread[t].o \in Objects /\ None \notin Objects
  BY OnlyMine, MemoryAssumption DEF EndCalls, None
<1>2. \A p \in Objects \ {thread[t].o} : Settled(p)' <=> Settled(p)
  BY <1>1 DEF Settled, Mine
<1>3. Entries'
  BY <1>1, <1>2, NotInMap DEF Good, Entries, Stands, Mine, Keys
<1>4. Found'
  <2>1. ASSUME NEW p \in Objects, p # thread[t].o PROVE Found!(p)'
    BY <1>2, <2>1 DEF Good, Found, Mine, Keys
  <2>2. mem'[thread[t].o].kind = None \/ ~Settled(thread[t].o)'
    BY DEF Settled, MapCalls, EndCalls
  <2> QED
    BY <2>1, <2>2 DEF Found
<1>5. Rings'
  <2>1. \A k \in Keys : Referenced(k) => Referenced(k)'
    BY NotInMap DEF Good, Entries, Stands, Referenced, Mine, Keys
  <2> QED
    BY <2>1, RingsFrame DEF Good, Mine
<1> QED
  BY <1>3, <1>4, <1>5

\* A range is reserved for an object.
LEMMA ReserveStep ==
  ASSUME Good, NEW t \in Threads, Typed', Mine(t), NEW a \in Ranges \ used,
         thread[t].call = "alloc", used' = used \cup {a},
         mem'[thread[t].o].kind = mem[thread[t].o].kind, mem'[thread[t].o].addr = a, mem'[thread[t].o].holds,
         thread'[t].call = "alloc", thread'[t].o = thread[t].o, thread'[t].key = thread[t].key,
         thread'[t].pc \in Making, ~Unreserved(t)',
         mem[thread[t].o].kind = "system" <=> thread'[t].pc = "commit",
         UNCHANGED <<committed, allocation_map, queues, lock>>
  PROVE  Good'
<1>1. thread[t].o \in Objects /\ mem[thread[t].o].kind \in Kinds
  BY DEF Good, Calling, None
<1>2. \A u \in Threads \ {t} : thread[u].o # thread[t].o
  BY OnlyMine DEF None
<1>3. Calling'
  BY <1>1, <1>2 DEF Good, Calling, Mine, EndCalls, MapCalls, None
<1>4. Alone'
  BY DEF Good, Alone, Mine
<1>5. Progress'
  <2>1. ASSUME NEW u \in Threads, u # t, thread[u].call # None
        PROVE  mem'[thread[u].o] = mem[thread[u].o] /\ Unreserved(u)' = Unreserved(u)
    BY <1>2, <2>1 DEF Good, Calling, Unreserved, Mine
  <2> QED
    BY <1>1, <2>1 DEF Good, Progress, Mine, EndCalls, None
<1>6. Owned'
  <2>1. \A o \in Objects : mem'[o].kind = None => mem'[o] = NoMem
    BY <1>1 DEF Good, Owned, Mine, Kinds, None
  <2>2. \A o \in Objects \ {thread[t].o} : mem'[o].holds => mem'[o].addr \in Ranges \cap used
    BY DEF Good, Owned, Mine
  <2> QED
    BY <2>1, <2>2, <1>1 DEF Good, Owned, Mine
<1>7. Pages'
  BY <1>1, <1>2 DEF Good, Pages, Mine
<1>8. Entries' /\ Found' /\ Rings'
  <2>1. thread'[t].pc # "release"
    BY DEF Making
  <2> QED
    BY <2>1, HiddenFrame
<1> QED
  BY <1>3, <1>4, <1>5, <1>6, <1>7, <1>8 DEF Good

\* An object loses its range, to the heap, while it is given up.
LEMMA LoseStep ==
  ASSUME Good, NEW t \in Threads, Typed', Mine(t), thread[t].call \in {"alloc"} \cup EndCalls,
         Holders(mem[thread[t].o].addr, thread[t].o) = {}, used' = used \ {mem[thread[t].o].addr},
         mem'[thread[t].o].kind = mem[thread[t].o].kind, ~mem'[thread[t].o].holds,
         thread'[t].call \in EndCalls, thread'[t].pc \in Ending, thread'[t].o = thread[t].o,
         thread'[t].again \/ mem'[thread[t].o].addr = None,
         UNCHANGED <<committed, allocation_map, queues, lock>>
  PROVE  Good'
<1>1. thread[t].o \in Objects /\ mem[thread[t].o].kind \in Kinds
  BY DEF Good, Calling, EndCalls, None
<1>2. \A u \in Threads \ {t} : thread[u].o # thread[t].o
  BY OnlyMine DEF EndCalls, None
<1>3. Calling'
  BY <1>1, <1>2 DEF Good, Calling, Mine, EndCalls, MapCalls, None
<1>4. Alone'
  BY DEF Good, Alone, Mine
<1>5. Progress'
  <2>1. ASSUME NEW u \in Threads, u # t, thread[u].call # None
        PROVE  mem'[thread[u].o] = mem[thread[u].o] /\ Unreserved(u)' = Unreserved(u)
    BY <1>2, <2>1 DEF Good, Calling, Unreserved, Mine
  <2> QED
    BY <1>1, <2>1 DEF Good, Progress, Mine, EndCalls, None
<1>6. Owned'
  <2>1. \A o \in Objects : mem'[o].kind = None => mem'[o] = NoMem
    BY <1>1 DEF Good, Owned, Mine, Kinds, None
  <2>2. \A o \in Objects \ {thread[t].o} : mem'[o].holds => mem'[o].addr \in Ranges \cap used'
    BY DEF Good, Owned, Mine, Holders
  <2> QED
    BY <2>1, <2>2, <1>1 DEF Good, Owned, Mine
<1>7. Pages'
  BY <1>1, <1>2 DEF Good, Pages, Mine
<1>8. Entries' /\ Found' /\ Rings'
  <2>1. thread'[t].pc # "release"
    BY DEF Ending
  <2> QED
    BY <2>1, HiddenFrame
<1> QED
  BY <1>3, <1>4, <1>5, <1>6, <1>7, <1>8 DEF Good

\* The pages of a range go, and nobody else holds it.
LEMMA DecommitStep ==
  ASSUME Good, NEW t \in Threads, Typed', Mine(t), UNCHANGED mem, thread[t].call \in EndCalls,
         Holders(mem[thread[t].o].addr, thread[t].o) = {}, committed' = committed \ {mem[thread[t].o].addr},
         thread'[t].call = thread[t].call, thread'[t].o = thread[t].o, thread'[t].again = thread[t].again,
         thread'[t].pc = "vafree",
         UNCHANGED <<used, allocation_map, queues, lock>>
  PROVE  Good'
<1>1. thread[t].o \in Objects /\ mem[thread[t].o].kind \in Kinds
  BY DEF Good, Calling, EndCalls, None
<1>2. \A u \in Threads \ {t} : thread[u].o # thread[t].o
  BY OnlyMine DEF EndCalls, None
<1>3. Calling'
  BY <1>1, <1>2 DEF Good, Calling, Mine, EndCalls, MapCalls, Ending, None
<1>4. Alone'
  BY DEF Good, Alone, Mine
<1>5. Progress'
  BY <1>1 DEF Good, Progress, Unreserved, Mine, EndCalls, None
<1>6. Owned'
  BY DEF Good, Owned
<1>7. Pages'
  <2>1. \A p \in Objects \ {thread[t].o} : mem[p].holds => mem[p].addr # mem[thread[t].o].addr
    BY DEF Holders
  <2> QED
    BY <1>1, <1>2, <2>1 DEF Good, Pages, Mine
<1>8. Entries' /\ Found' /\ Rings'
  BY HiddenFrame
<1> QED
  BY <1>3, <1>4, <1>5, <1>6, <1>7, <1>8 DEF Good

\* The end of the destructor.
LEMMA DeleteStep ==
  ASSUME Good, NEW t \in Threads, Typed', Mine(t), thread[t].call = "delete",
         Holders(mem[thread[t].o].addr, thread[t].o) = {}, used' = used \ {mem[thread[t].o].addr},
         mem'[thread[t].o] = NoMem, thread'[t] = Idle,
         lock' = IF lock = t THEN None ELSE lock,
         UNCHANGED <<committed, allocation_map, queues>>
  PROVE  Good'
<1>1. thread[t].o \in Objects /\ mem[thread[t].o].kind \in Kinds
  BY DEF Good, Calling, None
<1>2. \A u \in Threads \ {t} : thread[u].o # thread[t].o
  BY OnlyMine DEF None
<1>0. thread'[t].call = None /\ thread'[t].pc = "idle" /\ thread'[t].o = None
  BY DEF Idle
<1>9. mem'[thread[t].o].kind = None /\ ~mem'[thread[t].o].holds
  BY DEF NoMem
<1>3. Calling'
  BY <1>0, <1>1, <1>2 DEF Good, Calling, Mine, EndCalls, MapCalls, None
<1>4. Alone'
  BY <1>0 DEF Good, Alone, Mine
<1>5. Progress'
  <2>1. ASSUME NEW u \in Threads, u # t, thread[u].call # None
        PROVE  mem'[thread[u].o] = mem[thread[u].o] /\ Unreserved(u)' = Unreserved(u)
    BY <1>2, <2>1 DEF Good, Calling, Unreserved, Mine
  <2> QED
    BY <1>0, <1>1, <2>1 DEF Good, Progress, Mine, EndCalls, None
<1>6. Owned'
  <2>1. \A o \in Objects : mem'[o].kind = None => mem'[o] = NoMem
    BY <1>1 DEF Good, Owned, Mine
  <2>2. \A o \in Objects \ {thread[t].o} : mem'[o].holds => mem'[o].addr \in Ranges \cap used'
    BY DEF Good, Owned, Mine, Holders
  <2> QED
    BY <2>1, <2>2, <1>1, <1>9 DEF Good, Owned, Mine
<1>7. Pages'
  BY <1>0, <1>1, <1>2, <1>9 DEF Good, Pages, Mine
<1>8. Entries' /\ Found' /\ Rings'
  BY <1>0, <1>9, HiddenFrame DEF EndCalls
<1> QED
  BY <1>3, <1>4, <1>5, <1>6, <1>7, <1>8 DEF Good

\* A new object.
LEMMA CreateStep ==
  ASSUME Good, NEW t \in Threads, NEW o \in Objects, Typed', thread[t].call = None, mem[o] = NoMem,
         \A u \in Threads \ {t} : thread'[u] = thread[u],
         \A p \in Objects \ {o} : mem'[p] = mem[p],
         mem'[o].kind \in Kinds, mem'[o].addr = None, ~mem'[o].holds,
         thread'[t].call = "alloc", thread'[t].o = o, thread'[t].pc \in Making, Unreserved(t)',
         mem'[o].kind = "user" => thread'[t].key \in UserPtrs,
         UNCHANGED <<used, committed, allocation_map, queues, lock>>
  PROVE  Good'
<1>1. None \notin Objects /\ mem[o].kind = None /\ None \notin Kinds
  BY MemoryAssumption DEF NoMem, None, Kinds
<1>2. \A u \in Threads : thread[u].o # o
  BY <1>1 DEF Good, Calling
<1>3. Calling'
  BY <1>1, <1>2 DEF Good, Calling, EndCalls, MapCalls, None
<1>4. Alone'
  BY <1>2 DEF Good, Alone
<1>5. Progress'
  <2>1. ASSUME NEW u \in Threads, u # t, thread[u].call # None
        PROVE  mem'[thread[u].o] = mem[thread[u].o] /\ Unreserved(u)' = Unreserved(u)
    BY <1>2, <2>1 DEF Good, Calling, Unreserved
  <2> QED
    BY <2>1 DEF Good, Progress, Unreserved, EndCalls, None
<1>6. Owned'
  BY <1>1 DEF Good, Owned
<1>7. Pages'
  <2>1. thread[t].o = None
    BY DEF Good, Calling
  <2> QED
    BY <1>1, <1>2, <2>1 DEF Good, Pages
<1>8. \A k \in Keys : allocation_map[k].o # o
  BY <1>1 DEF Good, Entries, Stands
<1>9. \A p \in Objects \ {o} : Settled(p)' <=> Settled(p)
  <2>1. thread[t].o = None
    BY DEF Good, Calling
  <2> QED
    BY <1>1, <2>1 DEF Settled
<1>10. ~Settled(o)'
  BY DEF Settled, MapCalls
<1>11. Entries'
  BY <1>8, <1>9 DEF Good, Entries, Stands, Keys
<1>12. Found'
  BY <1>9, <1>10 DEF Good, Found, Keys
<1>13. Rings'
  <2>1. \A k \in Keys : Referenced(k) => Referenced(k)'
    BY <1>8 DEF Good, Entries, Stands, Referenced, Keys
  <2>2. thread'[t].pc # "release"
    BY DEF Making
  <2> QED
    BY <2>1, <2>2, RingsFrame DEF Good
<1> QED
  BY <1>3, <1>4, <1>5, <1>6, <1>7, <1>11, <1>12, <1>13 DEF Good

\* What a thread that has returned is at.
LEMMA IdleShape == Idle.call = None /\ Idle.pc = "idle" /\ Idle.o = None
  BY DEF Idle

\* Keys of the map: ranges and user pointers, which are not ranges.
LEMMA KeyKinds ==
  ASSUME Good, NEW k \in Keys
  PROVE  /\ mem[allocation_map[k].o].addr \in Ranges /\ allocation_map[k].o \in Objects
         /\ k \in Ranges => k = mem[allocation_map[k].o].addr
         /\ k \notin Ranges => k \in UserPtrs /\ mem[allocation_map[k].o].kind = "user"
  BY PointerAssumption DEF Good, Entries, Stands, Owned

\* A range that is held is the key of nobody else.
LEMMA OwnKey ==
  ASSUME Good, NEW o \in Objects, mem[o].holds, mem[o].addr \in Keys
  PROVE  allocation_map[mem[o].addr].o = o
<1>1. mem[o].addr \in Ranges
  BY DEF Good, Owned
<1> DEFINE p == allocation_map[mem[o].addr].o
<1>2. p \in Objects /\ mem[p].addr = mem[o].addr /\ mem[p].holds
  BY <1>1, KeyKinds DEF Good, Entries, Stands
<1> QED
  BY <1>2 DEF Good, Owned

\* A new object enters the map.
LEMMA InsertStep ==
  ASSUME Good, NEW t \in Threads, Typed', Insert(t), thread[t].call = "alloc",
         NEW o \in Objects, thread[t].o = o
  PROVE  Good'
<1> DEFINE a == mem[o].addr
           e == [o |-> o, userptr |-> mem[o].kind = "user"]
<1>1. o \in Objects /\ mem[o].kind \in Kinds /\ thread[t].pc = "insert"
  BY DEF Good, Calling, None, Insert, At
<1>2. \A u \in Threads \ {t} : thread[u].o # o
  BY OnlyMine DEF None
<1>3. mem[o].holds /\ a \in Ranges /\ a \notin Keys
  <2>1. mem[o].holds
    BY <1>1 DEF Good, Progress, Unreserved
  <2>2. a \in Ranges
    BY <1>1, <2>1 DEF Good, Owned
  <2>3. a \notin Keys
    BY <1>1, <2>1, OwnKey, NotInMap
  <2> QED
    BY <2>1, <2>2, <2>3
<1>4. /\ thread'[t].call = None /\ thread'[t].pc = "idle" /\ thread'[t].o = None
      /\ \A u \in Threads \ {t} : thread'[u] = thread[u]
  BY IdleShape DEF Insert, Good, Typed
<1>5. mem' = mem /\ lock' = lock /\ used' = used /\ committed' = committed /\ queues' = queues
  BY Zenon DEF Insert
<1>6. mem[o].kind = "user" => thread[t].key \in UserPtrs
  BY DEF Good, Progress
<1>7. /\ Keys' = IF mem[o].kind = "user" THEN Keys \cup {thread[t].key, a} ELSE Keys \cup {a}
      /\ allocation_map'[a] = e
      /\ mem[o].kind = "user" => allocation_map'[thread[t].key] = e
      /\ \A k \in Keys : (mem[o].kind = "user" => k # thread[t].key) => allocation_map'[k] = allocation_map[k]
  BY <1>3, <1>6, Zenon DEF Insert, Keys, Put, Kind, Obj
<1>8. Calling'
  <2>1. ASSUME NEW u \in Threads, thread'[u].call = None
        PROVE  thread'[u].pc \in {"idle", "release"} /\ thread'[u].o = None
    <3>1. CASE u = t
      BY <1>4, <3>1
    <3>2. CASE u # t
      BY <1>4, <2>1, <3>2 DEF Good, Calling
    <3> QED
      BY <3>1, <3>2, Zenon
  <2>2. \A u \in Threads : thread'[u].call # None => thread'[u] = thread[u]
    BY <1>4, Zenon
  <2> QED
    BY <1>5, <2>1, <2>2, CallingFrame, Zenon DEF Good
<1>9. Alone'
  BY <1>4 DEF Good, Alone
<1>10. Progress'
  <2>1. None \notin EndCalls /\ None # "alloc"
    BY DEF EndCalls, None
  <2>2. \A u \in Threads : (thread'[u].call = "alloc" \/ thread'[u].call \in EndCalls) => thread'[u] = thread[u]
    BY <1>4, <2>1, Zenon
  <2> QED
    BY <1>5, <2>2, ProgressFrame, Zenon DEF Good
<1>11. Owned'
  BY <1>5 DEF Good, Owned
<1>12. Pages'
  <2>1. \A p \in Objects, u \in Threads : (thread[u].o = p /\ thread[u].pc \in {"commit", "decommit", "vafree"})
          => thread'[u].o = p /\ thread'[u].pc = thread[u].pc
    BY <1>1, <1>4
  <2> QED
    BY <1>5, <2>1 DEF Good, Pages
<1>13. Settled(o)' /\ \A p \in Objects \ {o} : Settled(p)' <=> Settled(p)
  <2>1. None \notin Objects
    BY MemoryAssumption DEF None
  <2> QED
    BY <1>2, <1>4, <2>1 DEF Settled
<1>14. \A k \in Keys : allocation_map[k].o # o
  BY NotInMap
<1>15. e.o = o /\ (e.userptr <=> mem[o].kind = "user")
  BY Zenon
<1> HIDE DEF e, a
<1>16. Entries'
  <2>1. ASSUME NEW k \in Keys' 
        PROVE  \/ k \in Keys /\ allocation_map'[k] = allocation_map[k]
               \/ k = a /\ allocation_map'[k] = e
               \/ k = thread[t].key /\ mem[o].kind = "user" /\ allocation_map'[k] = e
    BY <1>7
  <2>2. ASSUME NEW k \in Keys'
        PROVE  Stands(k, allocation_map[k].o)'
    <3>1. CASE k \in Keys /\ allocation_map'[k] = allocation_map[k]
      BY <3>1, <1>5, <1>13, <1>14 DEF Good, Entries, Stands
    <3>2. CASE allocation_map'[k] = e /\ (k = a \/ (k = thread[t].key /\ mem[o].kind = "user"))
      BY <3>2, <1>1, <1>3, <1>5, <1>6, <1>13, <1>15 DEF a, Stands
    <3> QED
      BY <2>1, <3>1, <3>2
  <2>3. ASSUME NEW k \in Keys' \cap UserPtrs, NEW l \in Keys' \cap UserPtrs,
               allocation_map'[k].o = allocation_map'[l].o
        PROVE  k = l
    <3>1. a \notin UserPtrs
      BY <1>3, PointerAssumption
    <3> QED
      BY <2>1, <2>3, <3>1, <1>14, <1>15 DEF Good, Entries, Stands
  <2> QED
    BY <2>2, <2>3 DEF Entries
<1>17. Found'
  <2>1. ASSUME NEW p \in Objects, p # o, mem[p].kind # None, Settled(p)
        PROVE  mem[p].addr \in Keys' /\ allocation_map'[mem[p].addr].o = p
    <3>1. mem[p].addr \in Keys /\ allocation_map[mem[p].addr].o = p
      BY <2>1 DEF Good, Found
    <3>2. mem[p].addr \notin UserPtrs
      BY <3>1, KeyKinds, PointerAssumption
    <3> QED
      BY <1>6, <1>7, <3>1, <3>2, Zenon
  <2>2. mem'[o].addr \in Keys' /\ allocation_map'[mem'[o].addr].o = o
    BY <1>5, <1>7, <1>15 DEF a
  <2> QED
    BY <2>1, <2>2, <1>5, <1>13 DEF Found
<1>18. Rings'
  <2>1. \A k \in Keys : Referenced(k) => k \in Ranges
    BY KeyKinds DEF Referenced
  <2>2. \A k \in Keys : Referenced(k) => k \in Keys' /\ allocation_map'[k] = allocation_map[k]
    BY <2>1, <1>6, <1>7, PointerAssumption
  <2>3. \A k \in Keys : Referenced(k) => Referenced(k)'
    BY <2>2, <1>5 DEF Referenced
  <2> QED
    BY <2>2, <2>3, <1>4, <1>5, RingsFrame DEF Good
<1> QED
  BY <1>8, <1>9, <1>10, <1>11, <1>12, <1>16, <1>17, <1>18 DEF Good

\* Between calls that hold the lock, no thread works on an object in the map unless it is a
\* handle that is being mapped.
LEMMA Unattended ==
  ASSUME Good, lock = None, NEW k \in Keys,
         mem[allocation_map[k].o].kind # "physical" \/ ~Busy(allocation_map[k].o)
  PROVE  \A t \in Threads : thread[t].o # allocation_map[k].o
<1> SUFFICES ASSUME NEW t \in Threads, thread[t].o = allocation_map[k].o PROVE FALSE
  OBVIOUS
<1>1. thread[t].call \in MapCalls
  BY DEF Good, Entries, Stands, Settled
<1>2. thread[t].call # "mapipc"
  BY MemoryAssumption DEF Good, Calling, None
<1>3. thread[t].call = "vamap"
  BY <1>1, <1>2 DEF MapCalls
<1> QED
  BY <1>3 DEF Good, Calling, Busy, Obj

\* All entries of an object leave the map and it is deleted.
LEMMA RemoveStep ==
  ASSUME Good, NEW t \in Threads, Typed', NEW o \in Objects, NEW gone,
         thread[t].call = None, mem[o].kind \in Kinds, mem[o].holds,
         ~mem[o].queue \/ mem[o].kind # "system",
         \A u \in Threads : thread[u].o # o,
         \A u \in Threads \ {t} : thread'[u] = thread[u],
         thread'[t].call = "delete", thread'[t].o = o, thread'[t].pc \in Ending,
         Keys' = Keys \ gone, \A k \in Keys \ gone : allocation_map'[k] = allocation_map[k],
         \A k \in Keys : k \in gone <=> allocation_map[k].o = o,
         lock' = lock \/ lock = None,
         UNCHANGED <<mem, used, committed, queues>>
  PROVE  Good'
<1>1. None \notin Objects /\ None \notin Threads /\ thread[t].o = None
  BY MemoryAssumption DEF Good, Calling, None
<1>2. Calling'
  BY <1>1 DEF Good, Calling, EndCalls, MapCalls, None
<1>3. Alone'
  BY DEF Good, Alone
<1>4. Progress'
  BY DEF Good, Progress, Unreserved, EndCalls, None
<1>5. Owned'
  BY DEF Good, Owned
<1>6. Pages'
  BY <1>1 DEF Good, Pages, Ending
<1>7. ~Settled(o)' /\ \A p \in Objects \ {o} : Settled(p)' <=> Settled(p)
  BY <1>1 DEF Settled, MapCalls
<1>8. Entries'
  <2>1. \A k \in Keys' : k \in Keys /\ allocation_map'[k] = allocation_map[k] /\ allocation_map[k].o # o
    OBVIOUS
  <2> QED
    BY <2>1, <1>7 DEF Good, Entries, Stands
<1>9. Found'
  BY <1>7 DEF Good, Found
<1>10. Rings'
  <2>1. \A k \in Keys : Referenced(k) => allocation_map[k].o # o
    BY DEF Referenced
  <2>2. \A k \in Keys : Referenced(k) => Referenced(k)' /\ allocation_map'[k].o = allocation_map[k].o
    BY <2>1 DEF Referenced
  <2>3. thread'[t].pc # "release"
    BY DEF Ending
  <2> QED
    BY <2>2, <2>3, RingsFrame DEF Good
<1> QED
  BY <1>2, <1>3, <1>4, <1>5, <1>6, <1>8, <1>9, <1>10 DEF Good

\* A request to map starts or returns: t works on o, or no longer.
LEMMA RequestStep ==
  ASSUME Good, NEW t \in Threads, Typed', NEW o \in Objects, mem[o].kind \in Kinds, Settled(o),
         \A p \in Objects : SameMem(p), \A p \in Objects \ {o} : mem'[p] = mem[p],
         \A u \in Threads \ {t} : thread'[u] = thread[u] /\ thread[u].o # o,
         thread[t].o \in {None, o}, thread[t].pc # "release",
         thread[t].pc \notin {"commit", "decommit", "vafree"},
         thread'[t].call \in {None} \cup MapCalls,
         thread'[t].call = None => thread'[t].pc = "idle" /\ thread'[t].o = None,
         thread'[t].call # None => thread'[t].pc = "map" /\ thread'[t].o = o,
         thread'[t].call = "vamap" => mem[o].kind = "physical",
         thread'[t].call = "mapipc" => lock' = t,
         lock' = lock \/ lock \in {None, t},
         UNCHANGED <<used, committed, allocation_map, queues>>
  PROVE  Good'
<1>0. thread'[t].o \in {None, o} /\ thread'[t].pc \in {"idle", "map"}
  BY Zenon
<1>1. None \notin Objects /\ None \notin Threads
  BY MemoryAssumption DEF None
<1>2. Calling'
  <2>1. ASSUME NEW u \in Threads \ {t}, thread[u].call # None
        PROVE  thread[u].o \in Objects /\ mem'[thread[u].o].kind = mem[thread[u].o].kind
    BY <2>1 DEF Good, Calling
  <2>2. ASSUME NEW u \in Threads \ {t}, thread[u].call = "mapipc" PROVE lock' = u
    BY <1>1, <2>2 DEF Good, Calling
  <2>3. mem'[o].kind = mem[o].kind
    BY DEF SameMem
  <2>4. "map" \in Mapping /\ "mapipc" # None /\ "vamap" # None /\ None \notin EndCalls /\ "alloc" \notin MapCalls
        /\ EndCalls \cap MapCalls = {} /\ "alloc" # None
    BY DEF Mapping, MapCalls, EndCalls, None
  <2> SUFFICES ASSUME NEW u \in Threads
      PROVE  /\ thread'[u].call = None => thread'[u].pc \in {"idle", "release"} /\ thread'[u].o = None
             /\ thread'[u].call # None => thread'[u].o \in Objects /\ mem'[thread'[u].o].kind \in Kinds
             /\ thread'[u].call = "alloc" => thread'[u].pc \in Making
             /\ thread'[u].call \in EndCalls => thread'[u].pc \in Ending
             /\ thread'[u].call \in MapCalls => thread'[u].pc \in Mapping \cup {"wait", "waiting"}
             /\ thread'[u].call = "vamap" => thread'[u].pc \in Mapping /\ mem'[thread'[u].o].kind = "physical"
             /\ thread'[u].call = "mapipc" => lock' = u
    BY Zenon DEF Calling
  <2>5. CASE u = t
    <3>1. CASE thread'[t].call = None
      BY <2>4, <2>5, <3>1, Zenon DEF MapCalls
    <3>2. CASE thread'[t].call \in MapCalls
      <4>1. thread'[t].call # None /\ thread'[t].call # "alloc" /\ thread'[t].call \notin EndCalls
        BY <2>4, <3>2, Zenon DEF MapCalls, None
      <4> QED
        BY <2>3, <2>4, <2>5, <4>1, Zenon
    <3> QED
      BY <3>1, <3>2, Zenon
  <2>6. CASE u # t
    <3>1. thread'[u] = thread[u]
      BY <2>6, Zenon
    <3>2. CASE thread[u].call = None
      BY <2>4, <2>6, <3>1, <3>2, Zenon DEF Good, Calling
    <3>3. CASE thread[u].call # None
      <4>1. thread[u].o \in Objects /\ mem'[thread[u].o].kind = mem[thread[u].o].kind
        BY <2>1, <2>6, <3>3, Zenon
      <4>2. thread[u].call = "mapipc" => lock' = u
        BY <2>2, <2>6, Zenon
      <4>3. Calling
        BY Zenon DEF Good
      <4> QED
        BY <3>1, <3>3, <4>1, <4>2, <4>3, Zenon DEF Calling
    <3> QED
      BY <3>2, <3>3, Zenon
  <2> QED
    BY <2>5, <2>6
<1>3. Alone'
  BY <1>0, AloneFrame, Zenon DEF Good
<1>4. Progress'
  <2>1. ASSUME NEW u \in Threads \ {t}, thread[u].call # None
        PROVE  thread[u].o \in Objects
    BY <2>1, Zenon DEF Good, Calling
  <2>2. thread'[t].call # "alloc" /\ thread'[t].call \notin EndCalls
    BY DEF MapCalls, EndCalls, None
  <2>3. "alloc" # None /\ None \notin EndCalls
    BY Zenon DEF EndCalls, None
  <2>4. \A p \in Objects : mem'[p].kind = mem[p].kind /\ mem'[p].addr = mem[p].addr /\ mem'[p].holds = mem[p].holds
    BY Zenon DEF SameMem
  <2>5. ASSUME NEW u \in Threads, thread'[u].call = "alloc" \/ thread'[u].call \in EndCalls
        PROVE  thread'[u] = thread[u] /\ thread[u].o \in Objects
    <3>1. u \in Threads \ {t}
      BY <2>2, <2>5, Zenon
    <3>2. thread'[u] = thread[u]
      BY <3>1, Zenon
    <3>3. thread[u].call # None
      BY <2>3, <2>5, <3>2, Zenon
    <3> QED
      BY <2>1, <3>1, <3>2, <3>3, Zenon
  <2>6. Progress
    BY Zenon DEF Good
  <2> QED
    BY <2>4, <2>5, <2>6, ProgressFrame, Zenon
<1>5. Owned'
  <2>1. \A p \in Objects : mem[p].kind = None => mem'[p] = mem[p]
    BY Zenon DEF Kinds, None
  <2>2. \A p \in Objects : mem'[p].kind = mem[p].kind /\ mem'[p].addr = mem[p].addr /\ mem'[p].holds = mem[p].holds
    BY Zenon DEF SameMem
  <2> QED
    BY <2>1, <2>2, OwnedFrame, Zenon DEF Good
<1>6. Pages'
  <2>1. \A p \in Objects : mem'[p].kind = mem[p].kind /\ mem'[p].addr = mem[p].addr /\ mem'[p].holds = mem[p].holds
    BY Zenon DEF SameMem
  <2>2. \A u \in Threads : thread[u].pc \in {"commit", "decommit", "vafree"} => thread'[u] = thread[u]
    BY Zenon
  <2> QED
    BY <2>1, <2>2, PagesFrame, Zenon DEF Good
<1>7. \A p \in Objects : Settled(p)' <=> Settled(p)
  <2>1. Settled(o)'
    BY <1>1, Zenon DEF Settled
  <2>2. ASSUME NEW p \in Objects \ {o} PROVE Settled(p)' <=> Settled(p)
    <3>1. \A u \in Threads : u = t => thread[u].o # p /\ thread'[u].o # p
      BY <1>0, <1>1, Zenon
    <3>2. \A u \in Threads : u # t => thread'[u] = thread[u]
      BY Zenon
    <3> QED
      BY <3>1, <3>2, Zenon DEF Settled
  <2> QED
    BY <2>1, <2>2, Zenon
<1>8. Entries' /\ Found'
  BY <1>7, MapFrame, Zenon DEF Good, SameMem
<1>9. Rings'
  <2>1. \A k \in Keys : Referenced(k) => Referenced(k)'
    BY Zenon DEF Good, Entries, Stands, Referenced, SameMem, Keys
  <2> QED
    BY <1>0, <2>1, RingsFrame, Zenon DEF Good
<1> QED
  BY <1>2, <1>3, <1>4, <1>5, <1>6, <1>8, <1>9 DEF Good

\* A step of a thread without an object that leaves kinds and ranges of all objects.
LEMMA OutsideStep ==
  ASSUME Good, NEW t \in Threads, Typed', NEW o \in Objects, mem[o].kind \in Kinds,
         \A p \in Objects \ {o} : mem'[p] = mem[p],
         mem'[o].kind = mem[o].kind, mem'[o].addr = mem[o].addr, mem'[o].holds = mem[o].holds,
         \A u \in Threads \ {t} : thread'[u] = thread[u],
         thread[t].call = None \/ thread'[t] = thread[t],
         thread'[t] = thread[t] \/
           (thread'[t].call = None /\ thread'[t].o = None /\ thread'[t].pc \in {"idle", "release"}),
         UNCHANGED <<used, committed, allocation_map, lock>>
  PROVE  Calling' /\ Alone' /\ Progress' /\ Owned' /\ Pages' /\ Entries' /\ Found'
<1>1. None \notin Objects /\ (thread[t].call = None => thread[t].o = None)
  BY MemoryAssumption DEF Good, Calling, None
<1>2. \A p \in Objects : mem'[p].kind = mem[p].kind /\ mem'[p].addr = mem[p].addr /\ mem'[p].holds = mem[p].holds
  OBVIOUS
<1>3. \A u \in Threads : thread[u].call # None => thread'[u] = thread[u] /\ thread[u].o \in Objects
  BY DEF Good, Calling
<1>4. \A u \in Threads : thread'[u].call = None <=> thread[u].call = None
  OBVIOUS
<1>5. Calling'
  <2>1. ASSUME NEW u \in Threads, thread'[u].call = None
        PROVE  thread'[u].pc \in {"idle", "release"} /\ thread'[u].o = None
    <3>1. thread[u].pc \in {"idle", "release"} /\ thread[u].o = None
      BY <1>4, <2>1, Zenon DEF Good, Calling
    <3>2. CASE thread'[u] = thread[u]
      BY <3>1, <3>2, Zenon
    <3>3. CASE thread'[u] # thread[u]
      BY <3>3, Zenon
    <3> QED
      BY <3>2, <3>3, Zenon
  <2>2. \A u \in Threads : thread'[u].call # None => thread'[u] = thread[u]
    BY <1>3, <1>4, Zenon
  <2> QED
    BY <1>2, <2>1, <2>2, CallingFrame, Zenon DEF Good
<1>6. Alone'
  <2>1. thread'[t].o # None => thread'[t] = thread[t]
    BY Zenon
  <2>2. thread'[t].o # None => \A u \in Threads \ {t} : thread[u].o # thread'[t].o
    <3>1. Alone
      BY Zenon DEF Good
    <3> QED
      BY <2>1, <3>1, ZenonT(40) DEF Alone
  <2> QED
    BY <2>2, AloneFrame, Zenon DEF Good
<1>7. Progress'
  <2>1. "alloc" # None /\ None \notin EndCalls
    BY DEF EndCalls, None
  <2>2. ASSUME NEW u \in Threads, thread'[u].call = "alloc" \/ thread'[u].call \in EndCalls
        PROVE  thread'[u] = thread[u] /\ thread[u].o \in Objects
    <3>1. thread'[u].call # None
      BY <2>1, <2>2, Zenon
    <3>2. thread[u].call # None
      BY <1>4, <3>1, Zenon
    <3> QED
      BY <1>3, <3>2, Zenon
  <2>3. Progress
    BY Zenon DEF Good
  <2> QED
    BY <1>2, <2>2, <2>3, ProgressFrame, Zenon
<1>8. Owned'
  <2>1. \A p \in Objects : mem[p].kind = None => mem'[p] = mem[p]
    BY Zenon DEF Kinds, None
  <2> QED
    BY <1>2, <2>1, OwnedFrame, Zenon DEF Good
<1>9. Pages'
  <2>1. ASSUME NEW u \in Threads PROVE thread[u].o \notin Objects \/ thread'[u] = thread[u]
    <3>1. CASE thread[u].call = None
      BY <1>1, <3>1, Zenon DEF Good, Calling
    <3>2. CASE thread[u].call # None
      BY <1>3, <3>2, Zenon
    <3> QED
      BY <3>1, <3>2, Zenon
  <2> QED
    BY <1>2, <2>1, PagesFrame, Zenon DEF Good
<1>10. \A p \in Objects : Settled(p)' <=> Settled(p)
  BY <1>1, ZenonT(40) DEF Settled
<1>11. Entries' /\ Found'
  BY <1>2, <1>10, MapFrame, Zenon DEF Good
<1> QED
  BY <1>5, <1>6, <1>7, <1>8, <1>9, <1>11

\* A queue takes its reference.
LEMMA CreateQueueStep ==
  ASSUME Good, Typed', NEW t \in Threads, NEW k \in Ranges, CreateQueue(t, k)
  PROVE  Good'
<1> DEFINE o == allocation_map[k].o
<1>1. k \in Keys /\ o \in Objects /\ mem[o].kind \in Kinds /\ mem[o].kind = "system" /\ ~mem[o].queue
  BY DEF CreateQueue, Entry, Good, Entries, Stands
<1>2. /\ \A p \in Objects \ {o} : mem'[p] = mem[p]
      /\ mem'[o].kind = mem[o].kind /\ mem'[o].addr = mem[o].addr /\ mem'[o].holds = mem[o].holds
      /\ mem'[o].queue = TRUE
  BY <1>1 DEF CreateQueue, Good, Typed, MemRecord
<1>3. thread' = thread /\ allocation_map' = allocation_map
  BY DEF CreateQueue
<1>4. Calling' /\ Alone' /\ Progress' /\ Owned' /\ Pages' /\ Entries' /\ Found'
  BY <1>1, <1>2, <1>3, OutsideStep DEF CreateQueue
<1>5. Rings'
  <2>1. DOMAIN queues' = DOMAIN queues \cup {k} /\ queues'[k] = o /\ \A l \in DOMAIN queues \ {k} : queues'[l] = queues[l]
    BY DEF CreateQueue, Put
  <2>2. \A l \in Keys : Referenced(l) => Referenced(l)'
    BY <1>2, <1>3, Zenon DEF Good, Entries, Stands, Referenced, Keys
  <2>3. Referenced(k)'
    BY <1>1, <1>2, <1>3 DEF Referenced, Keys
  <2>4. \A u \in Threads : thread[u].pc = "release" => thread[u].key # k
    BY <1>1 DEF Good, Rings, Referenced
  <2>5. \A l : Referenced(l) => l \in Keys
    BY DEF Referenced
  <2> QED
    BY <1>3, <2>1, <2>2, <2>3, <2>4, <2>5, Zenon DEF Good, Rings
<1> QED
  BY <1>4, <1>5 DEF Good

\* A queue is deleted, and its thread will release the ring.
LEMMA DestroyQueueStep ==
  ASSUME Good, Typed', NEW t \in Threads, NEW k \in Ranges, DestroyQueue(t, k)
  PROVE  Good'
<1>1. thread[t].call = None
  BY DEF DestroyQueue, At, Good, Calling, Making, Mapping, Ending, EndCalls, MapCalls, None, Typed, ThreadRecord
<1>2. /\ thread'[t].call = None /\ thread'[t].o = None /\ thread'[t].pc = "release" /\ thread'[t].key = k
      /\ \A u \in Threads \ {t} : thread'[u] = thread[u]
  BY DEF DestroyQueue, Idle, Good, Typed
<1>3. mem' = mem /\ allocation_map' = allocation_map /\ k \in DOMAIN queues
  BY DEF DestroyQueue
<1>4. Calling' /\ Alone' /\ Progress' /\ Owned' /\ Pages' /\ Entries' /\ Found'
  <2>1. PICK o \in Objects : mem[o].kind \in Kinds
    BY <1>3, Zenon DEF Good, Rings, Referenced, Entries, Stands
  <2> QED
    BY <1>1, <1>2, <1>3, <2>1, OutsideStep DEF DestroyQueue
<1>5. Rings'
  <2>1. DOMAIN queues' = DOMAIN queues \ {k} /\ \A l \in DOMAIN queues \ {k} : queues'[l] = queues[l]
    BY DEF DestroyQueue, Erase
  <2>3. \A u \in Threads : thread[u].pc = "release" => thread[u].key # k
    BY <1>3 DEF Good, Rings
  <2>4. Rings
    BY Zenon DEF Good
  <2>5. \A l \in DOMAIN queues' : Referenced(l) /\ allocation_map'[l].o = queues'[l]
    BY <1>3, <2>1, <2>4, Zenon DEF Rings
  <2>6. ASSUME NEW u \in Threads, thread'[u].pc = "release"
        PROVE  Referenced(thread'[u].key) /\ thread'[u].key \notin DOMAIN queues'
    <3>1. CASE u = t
      <4>1. Referenced(k)
        BY <1>3, <2>4, Zenon DEF Rings
      <4>2. thread'[u].key = k
        BY <1>2, <3>1, Zenon
      <4> QED
        BY <2>1, <4>1, <4>2, Zenon
    <3>2. CASE u # t
      <4>1. thread'[u] = thread[u]
        BY <1>2, <3>2, Zenon
      <4>2. Referenced(thread[u].key) /\ thread[u].key \notin DOMAIN queues
        BY <2>4, <2>6, <4>1, Zenon DEF Rings
      <4> QED
        BY <2>1, <4>1, <4>2, Zenon
    <3> QED
      BY <3>1, <3>2, Zenon
  <2>7. ASSUME NEW u \in Threads, NEW v \in Threads, u # v, thread'[u].pc = "release", thread'[v].pc = "release"
        PROVE  thread'[u].key # thread'[v].key
    <3>1. CASE u = t
      BY <1>2, <2>3, <2>7, <3>1, Zenon
    <3>2. CASE v = t
      BY <1>2, <2>3, <2>7, <3>2, Zenon
    <3>3. CASE u # t /\ v # t
      BY <1>2, <2>4, <2>7, <3>3, Zenon DEF Rings
    <3> QED
      BY <3>1, <3>2, <3>3, Zenon
  <2>8. /\ \A l \in DOMAIN queues' : l \in Keys' /\ mem'[allocation_map'[l].o].queue
               /\ mem'[allocation_map'[l].o].kind = "system" /\ allocation_map'[l].o = queues'[l]
        /\ \A u \in Threads : thread'[u].pc = "release" =>
               /\ thread'[u].key \in Keys' /\ mem'[allocation_map'[thread'[u].key].o].queue
               /\ mem'[allocation_map'[thread'[u].key].o].kind = "system"
               /\ thread'[u].key \notin DOMAIN queues'
    BY <1>3, <2>5, <2>6, Zenon DEF Referenced, Keys
  <2> QED
    BY <2>7, <2>8, Zenon DEF Rings, Referenced
<1> QED
  BY <1>4, <1>5 DEF Good

\* Dropping a reference leaves the rest of an object.
LEMMA DropReference ==
  ASSUME Typed, NEW o \in Objects, mem' = [mem EXCEPT ![o].queue = FALSE]
  PROVE  /\ \A p \in Objects \ {o} : mem'[p] = mem[p]
         /\ mem'[o].kind = mem[o].kind /\ mem'[o].addr = mem[o].addr /\ mem'[o].holds = mem[o].holds
  BY DEF Typed, MemRecord

\* The ring is released.
LEMMA ReleaseStep ==
  ASSUME Good, Typed', NEW t \in Threads, ReleaseBuffer(t), NEW k, k = thread[t].key
  PROVE  Good'
<1> DEFINE o == allocation_map[k].o
<1>1. Referenced(k) /\ k \notin DOMAIN queues
  BY DEF ReleaseBuffer, At, Good, Rings
<1>2. k \in Keys /\ o \in Objects /\ mem[o].kind \in Kinds
  BY <1>1 DEF Referenced, Good, Entries, Stands
<1>3. thread[t].call = None
  BY DEF ReleaseBuffer, At, Good, Calling, Making, Mapping, Ending, EndCalls, MapCalls, None, Typed, ThreadRecord
<1>4. /\ thread'[t].call = None /\ thread'[t].o = None /\ thread'[t].pc = "idle"
      /\ \A u \in Threads \ {t} : thread'[u] = thread[u]
  BY IdleShape DEF ReleaseBuffer, Good, Typed
<1>5. mem' = [mem EXCEPT ![o].queue = FALSE] /\ allocation_map' = allocation_map /\ queues' = queues
  BY <1>2 DEF ReleaseBuffer
<1>6. /\ \A p \in Objects \ {o} : mem'[p] = mem[p]
      /\ mem'[o].kind = mem[o].kind /\ mem'[o].addr = mem[o].addr /\ mem'[o].holds = mem[o].holds
  BY <1>2, <1>5, DropReference, Zenon DEF Good
<1>7. Calling' /\ Alone' /\ Progress' /\ Owned' /\ Pages' /\ Entries' /\ Found'
  BY <1>2, <1>3, <1>4, <1>5, <1>6, OutsideStep, Zenon DEF ReleaseBuffer
<1>8. Rings'
  <2>1. ASSUME NEW l \in Keys, Referenced(l), l # k PROVE Referenced(l)'
    <3>1. l = mem[allocation_map[l].o].addr /\ k = mem[o].addr
      BY <1>1, <1>2, <2>1, Zenon DEF Referenced, Good, Entries, Stands
    <3>2. allocation_map[l].o \in Objects \ {o}
      BY <2>1, <3>1 DEF Good, Entries, Stands
    <3> QED
      BY <2>1, <3>2, <1>5, <1>6, Zenon DEF Referenced, Keys
  <2>2. \A l : Referenced(l) => l \in Keys
    BY DEF Referenced
  <2>3. \A l \in DOMAIN queues : l # k
    BY <1>1
  <2>4. \A u \in Threads : u # t /\ thread[u].pc = "release" => thread[u].key # k
    BY DEF ReleaseBuffer, At, Good, Rings
  <2> QED
    BY <1>4, <1>5, <2>1, <2>2, <2>3, <2>4 DEF Good, Rings
<1> QED
  BY <1>7, <1>8 DEF Good
=============================================================================
