------------------------ MODULE AllocationMap_proofs ------------------------
(***************************************************************************)
(* Theorems about AllocationMap over GpuMemory, for any number of threads, *)
(* objects, ranges and user pointers: the map names living objects, every  *)
(* range has one owner with its pages, and rings stay, until a range is    *)
(* freed twice; and only the destructor after a failed Init does that.     *)
(***************************************************************************)
EXTENDS AllocationMap_inv

-----------------------------------------------------------------------------
(* The steps of GpuMemory. *)

\* Which calls a step belongs to.
LEMMA PcCall ==
  ASSUME Good, NEW t \in Threads
  PROVE  /\ thread[t].pc \in {"reserve", "commit", "physical", "insert"} => thread[t].call = "alloc"
         /\ thread[t].pc \in {"map", "mapfence", "resident", "residentfence"} => thread[t].call \in {"alloc"} \cup MapCalls
         /\ thread[t].pc \in {"wait", "waiting"} => thread[t].call \in {"alloc", "mapipc"}
         /\ thread[t].pc \in Ending => thread[t].call \in EndCalls
         /\ thread[t].pc \in {"mapdone", "mapfailed", "notpaged"} => thread[t].call \in MapCalls
         /\ thread[t].pc \in {"idle", "release"} => thread[t].call = None
  BY DEF Good, Typed, ThreadRecord, Calling, Making, Mapping, Ending, EndCalls, MapCalls

\* Thread t goes on to pc within its call.
Moves(t, pc) ==
  /\ thread' \in [Threads -> ThreadRecord]
  /\ thread'[t].pc = pc /\ thread'[t].call = thread[t].call /\ thread'[t].o = thread[t].o
  /\ thread'[t].key = thread[t].key /\ thread'[t].again = thread[t].again
  /\ \A u \in Threads \ {t} : thread'[u] = thread[u]

\* Going on is moving.
LEMMA GoMoves ==
  ASSUME Typed, NEW t \in Threads, NEW pc \in Pcs, Go(t, pc) PROVE Moves(t, pc)
  BY DEF Typed, ThreadRecord, Go, Moves

\* Going on with a fence value is moving.
LEMMA ValueMoves ==
  ASSUME Typed, NEW t \in Threads, NEW pc \in Pcs, NEW v \in Int,
         thread' = [thread EXCEPT ![t].pc = pc, ![t].v = v]
  PROVE  Moves(t, pc)
  BY Zenon DEF Typed, ThreadRecord, Moves

\* One object is replaced.
LEMMA MemSet ==
  ASSUME Typed, NEW o \in Objects, NEW y \in MemRecord, mem' = [mem EXCEPT ![o] = y]
  PROVE  mem' \in [Objects -> MemRecord] /\ mem'[o] = y /\ \A p \in Objects \ {o} : mem'[p] = mem[p]
  BY DEF Typed

\* One thread is replaced.
LEMMA ThreadSet ==
  ASSUME Typed, NEW t \in Threads, NEW y \in ThreadRecord, thread' = [thread EXCEPT ![t] = y]
  PROVE  thread' \in [Threads -> ThreadRecord] /\ thread'[t] = y /\ \A u \in Threads \ {t} : thread'[u] = thread[u]
  BY DEF Typed

\* An object replaced by one with its range and references.
LEMMA RestShape ==
  ASSUME Typed, NEW o \in Objects, NEW y \in MemRecord, mem' = [mem EXCEPT ![o] = y],
         y.kind = mem[o].kind, y.addr = mem[o].addr, y.holds = mem[o].holds, y.queue = mem[o].queue
  PROVE  mem' \in [Objects -> MemRecord] /\ SameMem(o) /\ \A p \in Objects \ {o} : mem'[p] = mem[p]
<1>1. mem' \in [Objects -> MemRecord] /\ mem'[o] = y /\ \A p \in Objects \ {o} : mem'[p] = mem[p]
  BY MemSet, Zenon
<1> QED
  BY <1>1, Zenon DEF SameMem

\* An object whose mapping changes keeps its range and references.
LEMMA MappedSame ==
  ASSUME Typed, NEW o \in Objects, NEW m \in SUBSET Chunks, mem' = [mem EXCEPT ![o].mapped = m]
  PROVE  mem' \in [Objects -> MemRecord] /\ SameMem(o) /\ \A p \in Objects \ {o} : mem'[p] = mem[p]
<1>1. mem[o] \in MemRecord /\ DOMAIN mem = Objects
  BY DEF Typed
<1>2. PICK y : y = [mem[o] EXCEPT !.mapped = m]
  BY Zenon
<1>3. y = [kind |-> mem[o].kind, addr |-> mem[o].addr, holds |-> mem[o].holds, mapped |-> m,
           fence |-> mem[o].fence, queue |-> mem[o].queue, told |-> mem[o].told]
  BY <1>1, <1>2, Zenon DEF MemRecord
<1>4. mem' = [mem EXCEPT ![o] = y]
  BY <1>1, <1>2, Zenon
<1>5. y \in MemRecord
  BY <1>1, <1>3 DEF MemRecord
<1>6. y.kind = mem[o].kind /\ y.addr = mem[o].addr /\ y.holds = mem[o].holds /\ y.queue = mem[o].queue
  BY <1>3, Zenon
<1> QED
  BY <1>4, <1>5, <1>6, RestShape, Zenon

\* An object whose mapping and fence change keeps its range and references.
LEMMA FencedSame ==
  ASSUME Typed, NEW o \in Objects, NEW m \in SUBSET Chunks, NEW f \in Int,
         mem' = [mem EXCEPT ![o].mapped = m, ![o].fence = f]
  PROVE  mem' \in [Objects -> MemRecord] /\ SameMem(o) /\ \A p \in Objects \ {o} : mem'[p] = mem[p]
<1>1. mem[o] \in MemRecord /\ DOMAIN mem = Objects
  BY DEF Typed
<1>2. PICK y : y = [mem[o] EXCEPT !.mapped = m, !.fence = f]
  OBVIOUS
<1>3. y = [kind |-> mem[o].kind, addr |-> mem[o].addr, holds |-> mem[o].holds, mapped |-> m,
           fence |-> f, queue |-> mem[o].queue, told |-> mem[o].told]
  BY <1>1, <1>2, Zenon DEF MemRecord
<1>4. mem' = [mem EXCEPT ![o] = y]
  BY <1>1, <1>2, Zenon
<1>5. y \in MemRecord
  BY <1>1, <1>3 DEF MemRecord
<1>6. y.kind = mem[o].kind /\ y.addr = mem[o].addr /\ y.holds = mem[o].holds /\ y.queue = mem[o].queue
  BY <1>3, Zenon
<1> QED
  BY <1>4, <1>5, <1>6, RestShape, Zenon

\* A paging call that succeeds moves its thread on.
LEMMA PageMoves ==
  ASSUME Typed, NEW t \in Threads, NEW o \in Objects, o = thread[t].o, NEW pc \in Pcs,
         NEW m \in SUBSET Chunks, Page(t, pc, m)
  PROVE  /\ mem' \in [Objects -> MemRecord] /\ issued' \in Int /\ Moves(t, pc)
         /\ SameMem(o) /\ \A p \in Objects \ {o} : mem'[p] = mem[p]
<1>1. CASE /\ mem' = [mem EXCEPT ![Obj(t)].mapped = m] /\ Go(t, pc) /\ UNCHANGED issued
  BY <1>1, GoMoves, MappedSame, Zenon DEF Obj, Typed
<1>2. CASE /\ issued' = issued + 1
           /\ mem' = [mem EXCEPT ![Obj(t)].mapped = m, ![Obj(t)].fence = issued + 1]
           /\ thread' = [thread EXCEPT ![t].pc = pc, ![t].v = issued + 1]
  <2>1. issued + 1 \in Int
    BY DEF Typed
  <2> QED
    BY <1>2, <2>1, ValueMoves, FencedSame, Zenon DEF Obj
<1> QED
  BY <1>1, <1>2 DEF Page

\* The record of a thread that gives up.
LEMMA FailRecord ==
  ASSUME Typed, NEW t \in Threads, NEW x \in Ending, NEW c \in EndCalls,
         thread' = [thread EXCEPT ![t].pc = x, ![t].v = 0, ![t].call = c]
  PROVE  /\ thread' \in [Threads -> ThreadRecord]
         /\ thread'[t].pc = x /\ thread'[t].call = c /\ thread'[t].o = thread[t].o
         /\ \A u \in Threads \ {t} : thread'[u] = thread[u]
<1>1. thread[t] \in ThreadRecord /\ x \in Pcs
  BY DEF Typed, Pcs
<1>2. PICK y : y = [thread[t] EXCEPT !.pc = x, !.v = 0]
  OBVIOUS
<1>3. y \in ThreadRecord /\ y.pc = x /\ y.o = thread[t].o
  <2>1. y.pc = x /\ y.o = thread[t].o
    BY <1>1, <1>2 DEF ThreadRecord
  <2>2. y = [pc |-> x, call |-> thread[t].call, o |-> thread[t].o, key |-> thread[t].key, v |-> 0, again |-> thread[t].again]
    BY <1>1, <1>2, Zenon DEF ThreadRecord
  <2>3. y \in ThreadRecord
    BY <1>1, <2>2 DEF ThreadRecord
  <2> QED
    BY <2>1, <2>3
<1>4. PICK z : z = [y EXCEPT !.call = c]
  BY Zenon
<1>5. z \in ThreadRecord /\ z.pc = x /\ z.o = thread[t].o /\ z.call = c
  BY <1>3, <1>4 DEF ThreadRecord
<1>6. thread' = [thread EXCEPT ![t] = z]
  BY <1>2, <1>4, Zenon DEF Typed
<1>7. thread \in [Threads -> ThreadRecord]
  BY DEF Typed
<1>8. thread' \in [Threads -> ThreadRecord]
  BY <1>5, <1>6, <1>7, Zenon
<1>9. thread'[t] = z
  BY <1>6, <1>7, Zenon
<1> QED
  BY <1>5, <1>6, <1>7, <1>8, <1>9

\* Giving an object up leads to its destruction.
LEMMA FailShape ==
  ASSUME Typed, NEW t \in Threads, Fail(t)
  PROVE  /\ thread' \in [Threads -> ThreadRecord]
         /\ thread'[t].pc \in Ending /\ thread'[t].call \in EndCalls /\ thread'[t].o = thread[t].o
         /\ \A u \in Threads \ {t} : thread'[u] = thread[u]
<1>1. PICK x \in Ending : x = FreePc(Kind(t))
  BY DEF FreePc, Ending
<1>2. PICK c \in EndCalls : c = IF mem[Obj(t)].addr = None THEN "delete" ELSE "guard"
  BY DEF EndCalls
<1>3. thread' = [thread EXCEPT ![t].pc = x, ![t].v = 0, ![t].call = c]
  BY <1>1, <1>2 DEF Fail
<1> QED
  BY <1>3, FailRecord, Zenon

\* The lock stays with a thread that goes on.
LEMMA LockStays ==
  ASSUME NEW t \in Threads, thread'[t].call # None,
         lock' = IF lock = t /\ thread'[t] = Idle THEN None ELSE lock
  PROVE  lock' = lock
  BY IdleShape

\* Moving on within a call, with the range as it is.
LEMMA MoveGood ==
  ASSUME Good, NEW t \in Threads, NEW pc \in Making \cup Mapping, Moves(t, pc),
         thread[t].call \in {"alloc"} \cup MapCalls,
         mem' \in [Objects -> MemRecord], page_fence' \in Int, issued' \in Int,
         SameMem(thread[t].o), \A p \in Objects \ {thread[t].o} : mem'[p] = mem[p],
         thread[t].call = "alloc" =>
           /\ pc \in Making \ {"commit"}
           /\ (pc = "reserve" \/ (pc = "physical" /\ mem[thread[t].o].kind \in {"physical", "ipc"})) <=> Unreserved(t),
         thread[t].call = "mapipc" => pc \in Mapping \cup {"wait", "waiting"},
         thread[t].call = "vamap" => pc \in Mapping,
         thread[t].pc # "commit" \/ mem[thread[t].o].addr \in committed',
         committed \subseteq committed',
         lock' = IF lock = t /\ thread'[t] = Idle THEN None ELSE lock,
         UNCHANGED <<used, allocation_map, queues>>
  PROVE  Good'
<1>1. Typed'
  BY DEF Typed, Moves
<1>2. Mine(t)
  BY DEF Mine, Moves
<1>3. lock' = lock
  BY LockStays DEF Moves, MapCalls, None
<1>4. thread[t].call = "alloc" => Unreserved(t)' = Unreserved(t)
  BY DEF Unreserved, Moves, SameMem
<1> QED
  BY <1>1, <1>2, <1>3, <1>4, PageStep DEF Moves, MapCalls

\* Giving up, with the range as it is.
LEMMA FailGood ==
  ASSUME Good, NEW t \in Threads, Fail(t), thread[t].call = "alloc",
         mem' \in [Objects -> MemRecord], page_fence' \in Int, issued' \in Int,
         SameMem(thread[t].o), \A p \in Objects \ {thread[t].o} : mem'[p] = mem[p],
         lock' = IF lock = t /\ thread'[t] = Idle THEN None ELSE lock,
         UNCHANGED <<used, committed, allocation_map, queues>>
  PROVE  Good'
<1>1. /\ thread' \in [Threads -> ThreadRecord]
      /\ thread'[t].pc \in Ending /\ thread'[t].call \in EndCalls /\ thread'[t].o = thread[t].o
      /\ \A u \in Threads \ {t} : thread'[u] = thread[u]
  BY FailShape DEF Good
<1>2. Typed'
  BY <1>1 DEF Typed
<1>3. lock' = lock
  BY <1>1, LockStays DEF EndCalls, None
<1> QED
  BY <1>1, <1>2, <1>3, FailStep DEF Mine

\* A failed request or a failed Init.
LEMMA GiveUpGood ==
  ASSUME Good, NEW t \in Threads, NEW pc \in {"mapfailed", "notpaged"}, GiveUp(t, pc),
         thread[t].call \in {"alloc"} \cup MapCalls, thread[t].pc # "commit",
         mem' \in [Objects -> MemRecord], page_fence' \in Int, issued' \in Int,
         SameMem(thread[t].o), \A p \in Objects \ {thread[t].o} : mem'[p] = mem[p],
         lock' = IF lock = t /\ thread'[t] = Idle THEN None ELSE lock,
         UNCHANGED <<used, committed, allocation_map, queues>>
  PROVE  Good'
<1>1. CASE thread[t].call \in MapCalls
  <2>1. Go(t, pc)
    BY <1>1 DEF GiveUp, MapCalls
  <2>2. pc \in Pcs /\ pc \in Mapping
    BY DEF Pcs, Mapping
  <2>3. Moves(t, pc)
    BY <2>1, <2>2, GoMoves DEF Good
  <2> QED
    BY <1>1, <2>2, <2>3, MoveGood DEF MapCalls
<1>2. CASE thread[t].call = "alloc"
  <2>1. Fail(t)
    BY <1>2 DEF GiveUp
  <2> QED
    BY <1>2, <2>1, FailGood
<1> QED
  BY <1>1, <1>2

\* The rest of a step on an object.
Rest(t) == /\ lock' = IF lock = t /\ thread'[t] = Idle THEN None ELSE lock
           /\ UNCHANGED <<allocation_map, queues>>

\* Objects are typed and unchanged.
LEMMA SameAll ==
  ASSUME Good, mem' = mem
  PROVE  mem' \in [Objects -> MemRecord] /\ \A o : SameMem(o)
  BY DEF Good, Typed, SameMem

\* Making the physical memory.
LEMMA PhysicalGood ==
  ASSUME Good, NEW t \in Threads, CreatePhysicalMemory(t), Rest(t) PROVE Good'
<1>1. thread[t].pc = "physical" /\ thread[t].call = "alloc"
  BY PcCall DEF CreatePhysicalMemory, At
<1>2. mem' = mem /\ page_fence' \in Int /\ issued' \in Int
  BY DEF CreatePhysicalMemory, paging, Good, Typed
<1>3. CASE Fail(t)
  BY <1>1, <1>2, <1>3, SameAll, FailGood DEF CreatePhysicalMemory, Rest
<1>4. CASE Go(t, IF Kind(t) \in {"physical", "ipc"} THEN "reserve" ELSE "map")
  <2>1. CASE mem[thread[t].o].kind \in {"physical", "ipc"}
    <3>1. Go(t, "reserve")
      BY <1>4, <2>1 DEF Kind, Obj
    <3>2. "reserve" \in Pcs /\ "reserve" \in Making
      BY DEF Pcs, Making
    <3>3. Moves(t, "reserve")
      BY <3>1, <3>2, GoMoves DEF Good
    <3> QED
      BY <1>1, <1>2, <2>1, <3>2, <3>3, SameAll, MoveGood DEF CreatePhysicalMemory, Rest, Unreserved
  <2>2. CASE mem[thread[t].o].kind \notin {"physical", "ipc"}
    <3>1. Go(t, "map")
      BY <1>4, <2>2 DEF Kind, Obj
    <3>2. "map" \in Pcs /\ "map" \in Making
      BY DEF Pcs, Making
    <3>3. Moves(t, "map")
      BY <3>1, <3>2, GoMoves DEF Good
    <3> QED
      BY <1>1, <1>2, <2>2, <3>2, <3>3, SameAll, MoveGood DEF CreatePhysicalMemory, Rest, Unreserved
  <2> QED
    BY <2>1, <2>2
<1> QED
  BY <1>3, <1>4 DEF CreatePhysicalMemory

\* Mapping the chunks.
LEMMA MapGood ==
  ASSUME Good, NEW t \in Threads, MapGpuVirtualAddress(t), Rest(t) PROVE Good'
<1>1. thread[t].pc = "map" /\ thread[t].call \in {"alloc"} \cup MapCalls /\ thread[t].call # None
  BY PcCall DEF MapGpuVirtualAddress, At, MapCalls, None
<1>2. PICK o \in Objects : o = thread[t].o
  BY <1>1 DEF Good, Calling
<1>3. CASE Page(t, "mapfence", Chunks)
  <2>1. "mapfence" \in Pcs /\ "mapfence" \in Making /\ "mapfence" \in Mapping
    BY DEF Pcs, Making, Mapping
  <2>2. /\ mem' \in [Objects -> MemRecord] /\ issued' \in Int /\ Moves(t, "mapfence")
        /\ SameMem(o) /\ \A p \in Objects \ {o} : mem'[p] = mem[p]
    BY <1>2, <1>3, <2>1, PageMoves DEF Good
  <2>3. page_fence' \in Int /\ committed' = committed /\ used' = used
    BY DEF MapGpuVirtualAddress, Good, Typed
  <2> QED
    BY <1>1, <1>2, <2>1, <2>2, <2>3, MoveGood DEF Rest, Unreserved
<1>4. CASE (\E i \in Chunks : MapFailed(t, i)) /\ UNCHANGED issued
  <2>1. PICK i \in Chunks : MapFailed(t, i)
    BY <1>4
  <2>2. mem' = [mem EXCEPT ![o].mapped = Unwound(mem[o].mapped, i)]
    BY <1>2, <2>1 DEF MapFailed, Obj, Good, Typed
  <2>3. Unwound(mem[o].mapped, i) \in SUBSET Chunks
    BY DEF Unwound, Good, Typed, MemRecord
  <2>4. mem' \in [Objects -> MemRecord] /\ SameMem(o) /\ \A p \in Objects \ {o} : mem'[p] = mem[p]
    BY <2>2, <2>3, MappedSame, Zenon DEF Good
  <2>5. page_fence' \in Int /\ issued' \in Int /\ committed' = committed /\ used' = used
    BY <1>4 DEF MapGpuVirtualAddress, Good, Typed
  <2> QED
    BY <1>1, <1>2, <2>1, <2>4, <2>5, GiveUpGood DEF MapFailed, Rest
<1> QED
  BY <1>3, <1>4 DEF MapGpuVirtualAddress

\* Making the object resident.
LEMMA ResidentGood ==
  ASSUME Good, NEW t \in Threads, MakeResident(t), Rest(t) PROVE Good'
<1>1. thread[t].pc = "resident" /\ thread[t].call \in {"alloc"} \cup MapCalls /\ thread[t].call # None
  BY PcCall DEF MakeResident, At, MapCalls, None
<1>2. PICK o \in Objects : o = thread[t].o
  BY <1>1 DEF Good, Calling
<1>3. CASE Page(t, "residentfence", mem[Obj(t)].mapped)
  <2>1. "residentfence" \in Pcs /\ "residentfence" \in Making /\ "residentfence" \in Mapping
    BY DEF Pcs, Making, Mapping
  <2>2. mem[o].mapped \in SUBSET Chunks
    BY DEF Good, Typed, MemRecord
  <2>3. Page(t, "residentfence", mem[o].mapped)
    BY <1>2, <1>3 DEF Obj
  <2>4. /\ mem' \in [Objects -> MemRecord] /\ issued' \in Int /\ Moves(t, "residentfence")
        /\ SameMem(o) /\ \A p \in Objects \ {o} : mem'[p] = mem[p]
    BY <1>2, <2>1, <2>2, <2>3, PageMoves DEF Good
  <2>5. page_fence' \in Int /\ committed' = committed /\ used' = used
    BY DEF MakeResident, Good, Typed
  <2> QED
    BY <1>1, <1>2, <2>1, <2>4, <2>5, MoveGood DEF Rest, Unreserved
<1>4. CASE GiveUp(t, "notpaged") /\ UNCHANGED <<mem, issued>>
  <2>1. page_fence' \in Int /\ issued' \in Int /\ committed' = committed /\ used' = used
    BY <1>4 DEF MakeResident, Good, Typed
  <2> QED
    BY <1>1, <1>4, <2>1, SameAll, GiveUpGood DEF Rest
<1> QED
  BY <1>3, <1>4 DEF MakeResident

\* Going on with no fence value is moving.
LEMMA ResetMoves ==
  ASSUME Typed, NEW t \in Threads, NEW pc \in Pcs,
         thread' = [thread EXCEPT ![t].pc = pc, ![t].v = 0]
  PROVE  Moves(t, pc)
<1>1. 0 \in Int
  OBVIOUS
<1> QED
  BY <1>1, Zenon DEF Typed, ThreadRecord, Moves

\* Raising the paging fence.
LEMMA UpdateGood ==
  ASSUME Good, NEW t \in Threads, NEW pc, NEW next, Update(t, pc, next), Rest(t),
         \/ pc = "mapfence" /\ next = "resident"
         \/ pc = "residentfence" /\ next = IF thread[t].call = "vamap" THEN "mapdone" ELSE "wait"
  PROVE  Good'
<1>1. /\ thread[t].pc = pc /\ pc # "commit" /\ thread[t].call \in {"alloc"} \cup MapCalls
      /\ thread[t].call = "alloc" => ~Unreserved(t)
  BY PcCall DEF Update, At, Unreserved
<1>2. next \in Pcs /\ (thread[t].call = "alloc" => next \in Making) /\ (thread[t].call = "vamap" => next \in Mapping)
      /\ (thread[t].call = "mapipc" => next \in Mapping \cup {"wait", "waiting"})
      /\ next \in Making \cup Mapping /\ next \notin {"commit", "reserve", "physical"}
  BY DEF Pcs, Making, Mapping
<1>3. Moves(t, next)
  BY <1>2, ResetMoves, Zenon DEF Update, Good
<1>4. mem' = mem /\ issued' \in Int /\ committed' = committed /\ used' = used
  BY DEF Update, Good, Typed
<1>5. page_fence' \in Int
  BY DEF Update, UpdatePageFence, Good, Typed, ThreadRecord
<1> QED
  BY <1>1, <1>2, <1>3, <1>4, <1>5, SameAll, MoveGood DEF Rest

\* Reading the paging fence.
LEMMA LoadGood ==
  ASSUME Good, NEW t \in Threads, LoadPageFence(t), Rest(t) PROVE Good'
<1>1. thread[t].pc = "wait" /\ thread[t].call \in {"alloc", "mapipc"}
  BY PcCall DEF LoadPageFence, At
<1>2. "waiting" \in Pcs /\ "waiting" \in Making
  BY DEF Pcs, Making
<1>3. page_fence \in Int /\ page_fence' = page_fence /\ issued' = issued /\ issued \in Int
  BY DEF LoadPageFence, paging, Good, Typed
<1>4. Moves(t, "waiting")
  BY <1>2, <1>3, ValueMoves, Zenon DEF LoadPageFence, Good
<1>5. mem' = mem /\ committed' = committed /\ used' = used
  BY DEF LoadPageFence
<1> QED
  BY <1>1, <1>2, <1>3, <1>4, <1>5, SameAll, MoveGood DEF Rest, Unreserved, MapCalls

\* Waiting for the paging fence.
LEMMA WaitGood ==
  ASSUME Good, NEW t \in Threads, CpuWait(t), Rest(t) PROVE Good'
<1>1. thread[t].pc = "waiting" /\ thread[t].call \in {"alloc", "mapipc"}
  BY PcCall DEF CpuWait, At
<1>2. /\ page_fence' \in Int /\ issued' \in Int /\ mem' = mem
      /\ committed' = committed /\ used' = used
  BY DEF CpuWait, paging, Good, Typed
<1>3. CASE GiveUp(t, "notpaged")
  BY <1>1, <1>2, <1>3, SameAll, GiveUpGood DEF Rest, MapCalls
<1>4. ASSUME NEW next, next = IF thread[t].call = "mapipc" THEN "mapdone" ELSE "insert",
             thread' = [thread EXCEPT ![t].pc = next, ![t].v = 0]
      PROVE  Good'
  <2>1. next \in Pcs /\ (thread[t].call = "alloc" => next \in Making) /\ (thread[t].call = "mapipc" => next \in Mapping)
        /\ next \in Making \cup Mapping /\ next \notin {"commit", "reserve", "physical"}
    BY <1>1, <1>4 DEF Pcs, Making, Mapping
  <2>2. Moves(t, next)
    BY <1>4, <2>1, ResetMoves, Zenon DEF Good
  <2> QED
    BY <1>1, <1>2, <2>1, <2>2, SameAll, MoveGood DEF Rest, Unreserved, MapCalls
<1> QED
  BY <1>3, <1>4, Zenon DEF CpuWait

\* The range an object gets.
LEMMA ReservedShape ==
  ASSUME Typed, NEW o \in Objects, NEW a \in Ranges,
         mem' = [mem EXCEPT ![o].addr = a, ![o].holds = TRUE]
  PROVE  /\ mem' \in [Objects -> MemRecord] /\ mem'[o].addr = a /\ mem'[o].holds
         /\ mem'[o].kind = mem[o].kind /\ \A p \in Objects \ {o} : mem'[p] = mem[p]
<1>1. mem[o] \in MemRecord /\ DOMAIN mem = Objects
  BY DEF Typed
<1>2. PICK y : y = [mem[o] EXCEPT !.addr = a, !.holds = TRUE]
  OBVIOUS
<1>3. y = [kind |-> mem[o].kind, addr |-> a, holds |-> TRUE, mapped |-> mem[o].mapped,
           fence |-> mem[o].fence, queue |-> mem[o].queue, told |-> mem[o].told]
  BY <1>1, <1>2, Zenon DEF MemRecord
<1>4. y \in MemRecord
  BY <1>1, <1>3 DEF MemRecord
<1>5. mem' = [mem EXCEPT ![o] = y]
  BY <1>1, <1>2, Zenon
<1>6. mem'[o] = y /\ \A p \in Objects \ {o} : mem'[p] = mem[p]
  BY <1>1, <1>5, Zenon
<1>7. mem \in [Objects -> MemRecord]
  BY DEF Typed
<1>8. mem' \in [Objects -> MemRecord]
  BY <1>4, <1>5, <1>7, Zenon
<1>9. y.addr = a /\ y.kind = mem[o].kind
  BY <1>3
<1>10. y.holds
  BY <1>3, Zenon
<1>11. mem'[o].addr = a /\ mem'[o].kind = mem[o].kind
  BY <1>6, <1>9
<1>12. mem'[o].holds
  BY <1>6, <1>10, Zenon
<1> QED
  BY <1>6, <1>8, <1>11, <1>12, Zenon

\* Reserving a range.
LEMMA ReserveGood ==
  ASSUME Good, NEW t \in Threads, ReserveGpuVirtualAddress(t), Rest(t) PROVE Good'
<1>1. thread[t].pc = "reserve" /\ thread[t].call = "alloc"
  BY PcCall DEF ReserveGpuVirtualAddress, At
<1>2. PICK o \in Objects : o = thread[t].o
  BY <1>1 DEF Good, Calling, None
<1>3. page_fence' \in Int /\ issued' \in Int /\ committed' = committed
  BY DEF ReserveGpuVirtualAddress, paging, Good, Typed
<1>4. CASE Fail(t) /\ UNCHANGED <<used, mem>>
  BY <1>1, <1>3, <1>4, SameAll, FailGood DEF Rest
<1>5. ASSUME NEW a \in Heap(Kind(t)) \ used, used' = used \cup {a},
             mem' = [mem EXCEPT ![Obj(t)].addr = a, ![Obj(t)].holds = TRUE],
             NEW next, next = (IF Kind(t) = "system" THEN "commit"
                               ELSE IF Kind(t) \in {"local", "user"} THEN "physical" ELSE "insert"),
             Go(t, next)
      PROVE  Good'
  <2>1. a \in Ranges \ used
    BY <1>5 DEF Heap, Ranges
  <2>2. /\ mem' \in [Objects -> MemRecord] /\ mem'[o].addr = a /\ mem'[o].holds
        /\ mem'[o].kind = mem[o].kind /\ \A p \in Objects \ {o} : mem'[p] = mem[p]
    <3>1. mem' = [mem EXCEPT ![o].addr = a, ![o].holds = TRUE]
      BY <1>2, <1>5 DEF Obj
    <3>2. Typed /\ a \in Ranges
      BY <2>1 DEF Good
    <3> QED
      BY <3>1, <3>2, ReservedShape, Zenon
  <2>3. /\ next \in Pcs /\ next \in Making /\ next # "reserve" /\ (next = "commit" <=> mem[o].kind = "system")
        /\ next = "physical" => mem[o].kind \notin {"physical", "ipc"}
    BY <1>2, <1>5 DEF Pcs, Making, Kind, Obj
  <2>4. Moves(t, next)
    BY <1>5, <2>3, GoMoves DEF Good
  <2>5. Typed' /\ Mine(t)
    BY <1>2, <1>3, <2>2, <2>4 DEF Typed, Mine, Moves
  <2>6. lock' = lock
    BY <1>1, <2>4, LockStays DEF Moves, Rest, None
  <2>7. ~Unreserved(t)'
    BY <1>2, <2>2, <2>3, <2>4 DEF Unreserved, Moves
  <2> QED
    BY <1>1, <1>2, <1>3, <1>5, <2>1, <2>2, <2>3, <2>4, <2>5, <2>6, <2>7, ReserveStep DEF Moves, Rest
<1> QED
  BY <1>4, <1>5, Zenon DEF ReserveGpuVirtualAddress

\* An object loses its range and its address.
LEMMA LostShape ==
  ASSUME Typed, NEW o \in Objects, mem' = [mem EXCEPT ![o].addr = None, ![o].holds = FALSE]
  PROVE  /\ mem' \in [Objects -> MemRecord] /\ mem'[o].addr = None /\ ~mem'[o].holds
         /\ mem'[o].kind = mem[o].kind /\ \A p \in Objects \ {o} : mem'[p] = mem[p]
<1>1. mem[o] \in MemRecord /\ DOMAIN mem = Objects
  BY DEF Typed
<1>2. PICK y : y = [mem[o] EXCEPT !.addr = None, !.holds = FALSE]
  OBVIOUS
<1>3. y = [kind |-> mem[o].kind, addr |-> None, holds |-> FALSE, mapped |-> mem[o].mapped,
           fence |-> mem[o].fence, queue |-> mem[o].queue, told |-> mem[o].told]
  BY <1>1, <1>2, Zenon DEF MemRecord
<1>4. y \in MemRecord
  BY <1>1, <1>3 DEF MemRecord
<1>5. mem' = [mem EXCEPT ![o] = y]
  BY <1>1, <1>2, Zenon
<1>6. y.addr = None /\ y.kind = mem[o].kind
  BY <1>3
<1>7. ~y.holds
  BY <1>3, Zenon
<1> QED
  BY <1>4, <1>5, <1>6, <1>7, MemSet, Zenon

\* An object loses its range to the guard of Init, and keeps the address.
LEMMA GuardedShape ==
  ASSUME Typed, NEW o \in Objects, mem' = [mem EXCEPT ![o].holds = FALSE, ![o].mapped = {}]
  PROVE  /\ mem' \in [Objects -> MemRecord] /\ ~mem'[o].holds
         /\ mem'[o].kind = mem[o].kind /\ \A p \in Objects \ {o} : mem'[p] = mem[p]
<1>1. mem[o] \in MemRecord /\ DOMAIN mem = Objects
  BY DEF Typed
<1>2. PICK y : y = [mem[o] EXCEPT !.holds = FALSE, !.mapped = {}]
  OBVIOUS
<1>3. y = [kind |-> mem[o].kind, addr |-> mem[o].addr, holds |-> FALSE, mapped |-> {},
           fence |-> mem[o].fence, queue |-> mem[o].queue, told |-> mem[o].told]
  BY <1>1, <1>2, Zenon DEF MemRecord
<1>4. y \in MemRecord
  BY <1>1, <1>3 DEF MemRecord
<1>5. mem' = [mem EXCEPT ![o] = y]
  BY <1>1, <1>2, Zenon
<1>6. y.kind = mem[o].kind
  BY <1>3
<1>7. ~y.holds
  BY <1>3, Zenon
<1> QED
  BY <1>4, <1>5, <1>6, <1>7, MemSet, Zenon

\* The thread goes on to the destructor.
LEMMA DestructorShape ==
  ASSUME Typed, NEW t \in Threads, NEW pc \in Ending, NEW again \in BOOLEAN, NEW y,
         y = [pc |-> pc, call |-> "delete", o |-> thread[t].o, key |-> thread[t].key,
              v |-> thread[t].v, again |-> again],
         thread' = [thread EXCEPT ![t] = y]
  PROVE  /\ thread' \in [Threads -> ThreadRecord] /\ thread'[t].pc = pc /\ thread'[t].call = "delete"
         /\ thread'[t].o = thread[t].o /\ thread'[t].again = again
         /\ \A u \in Threads \ {t} : thread'[u] = thread[u]
<1>1. thread[t] \in ThreadRecord
  BY DEF Typed
<1>2. y \in ThreadRecord
  BY <1>1 DEF ThreadRecord, Pcs, EndCalls
<1>3. y.pc = pc /\ y.call = "delete" /\ y.o = thread[t].o /\ y.again = again
  BY Zenon
<1> QED
  BY <1>2, <1>3, ThreadSet, Zenon

\* The range a thread gives up is nobody else's, unless this step robs somebody.
LEMMA NobodyElse ==
  ASSUME NEW a, NEW o, ~robbed', robbed' = (robbed \/ Holders(a, o) # {}) PROVE Holders(a, o) = {}
  BY Zenon

\* Committing the pages of a system range.
LEMMA CommitGood ==
  ASSUME Good, NEW t \in Threads, CommitSystemHeapSpace(t), Rest(t), ~robbed' PROVE Good'
<1>1. thread[t].pc = "commit" /\ thread[t].call = "alloc" /\ ~Unreserved(t)
  BY PcCall DEF CommitSystemHeapSpace, At, Unreserved
<1>2. PICK o \in Objects : o = thread[t].o
  BY <1>1 DEF Good, Calling, None
<1>3. mem[o].kind = "system"
  BY <1>1, <1>2 DEF Good, Progress
<1>4. page_fence' \in Int /\ issued' \in Int
  BY DEF CommitSystemHeapSpace, paging, Good, Typed
<1>5. CASE committed' = committed \cup {mem[o].addr} /\ Go(t, "physical") /\ UNCHANGED <<mem, used, robbed>>
  <2>1. "physical" \in Pcs /\ "physical" \in Making \ {"commit"}
    BY DEF Pcs, Making
  <2>2. Moves(t, "physical")
    BY <1>5, <2>1, GoMoves DEF Good
  <2>3. mem' \in [Objects -> MemRecord] /\ SameMem(o) /\ \A p \in Objects \ {o} : mem'[p] = mem[p]
    BY <1>5 DEF Good, Typed, SameMem
  <2>4. committed \subseteq committed' /\ mem[o].addr \in committed' /\ used' = used
    BY <1>5
  <2> QED
    BY <1>1, <1>2, <1>3, <1>4, <2>1, <2>2, <2>3, <2>4, MoveGood DEF Rest
<1>6. CASE /\ used' = used \ {mem[o].addr}
           /\ robbed' = (robbed \/ Holders(mem[o].addr, o) # {})
           /\ mem' = [mem EXCEPT ![o].addr = None, ![o].holds = FALSE]
           /\ thread' = [thread EXCEPT ![t].pc = "vafree", ![t].call = "delete"]
           /\ UNCHANGED committed
  <2>1. /\ mem' \in [Objects -> MemRecord] /\ mem'[o].addr = None /\ ~mem'[o].holds
        /\ mem'[o].kind = mem[o].kind /\ \A p \in Objects \ {o} : mem'[p] = mem[p]
    BY <1>6, LostShape, Zenon DEF Good
  <2>2. /\ thread' \in [Threads -> ThreadRecord] /\ thread'[t].pc = "vafree" /\ thread'[t].call = "delete"
        /\ thread'[t].o = o /\ \A u \in Threads \ {t} : thread'[u] = thread[u]
    <3>1. thread[t] \in ThreadRecord /\ thread[t].again \in BOOLEAN /\ DOMAIN thread = Threads /\ Typed
      BY DEF Good, Typed, ThreadRecord
    <3>2. PICK y : y = [thread[t] EXCEPT !.pc = "vafree", !.call = "delete"]
      OBVIOUS
    <3>3. y = [pc |-> "vafree", call |-> "delete", o |-> thread[t].o, key |-> thread[t].key,
               v |-> thread[t].v, again |-> thread[t].again]
      BY <3>1, <3>2, Zenon DEF ThreadRecord
    <3>4. thread' = [thread EXCEPT ![t] = y]
      BY <1>6, <3>1, <3>2, Zenon
    <3>5. "vafree" \in Ending
      BY DEF Ending
    <3> QED
      BY <1>2, <3>1, <3>3, <3>4, <3>5, DestructorShape, Zenon
  <2>3. Holders(mem[o].addr, o) = {}
    BY <1>6, NobodyElse, Zenon
  <2>4. Typed' /\ Mine(t)
    BY <1>2, <1>4, <2>1, <2>2 DEF Typed, Mine
  <2>5. lock' = lock
    BY <2>2, LockStays DEF Rest, None
  <2> QED
    BY <1>1, <1>2, <1>6, <2>1, <2>2, <2>3, <2>4, <2>5, LoseStep, Zenon DEF Rest, EndCalls, Ending
<1> QED
  BY <1>2, <1>5, <1>6 DEF CommitSystemHeapSpace, Obj

\* Idle and NoMem are records of the right type.
LEMMA Blank == Idle \in ThreadRecord /\ NoMem \in MemRecord
<1>1. 0 \in Int /\ {} \in SUBSET Chunks
  OBVIOUS
<1> QED
  BY <1>1 DEF Idle, NoMem, ThreadRecord, MemRecord, Pcs

\* Decommitting a system range.
LEMMA DecommitGood ==
  ASSUME Good, NEW t \in Threads, Decommit(t), Rest(t), ~robbed' PROVE Good'
<1>1. thread[t].call \in EndCalls /\ thread[t].call # None
  BY PcCall DEF Decommit, At, Ending, EndCalls, None
<1>2. "vafree" \in Pcs
  BY DEF Pcs, Ending
<1>3. Moves(t, "vafree")
  BY <1>2, GoMoves DEF Good, Decommit
<1>4. mem' = mem /\ used' = used /\ page_fence' = page_fence /\ issued' = issued
  BY DEF Decommit, paging
<1>5. Typed' /\ Mine(t)
  BY <1>3, <1>4 DEF Good, Typed, Mine, Moves
<1>6. Holders(mem[thread[t].o].addr, thread[t].o) = {} /\ committed' = committed \ {mem[thread[t].o].addr}
  BY NobodyElse DEF Decommit, Obj
<1>7. lock' = lock
  BY <1>1, <1>3, LockStays DEF Rest, Moves
<1> QED
  BY <1>1, <1>3, <1>4, <1>5, <1>6, <1>7, DecommitStep DEF Rest, Moves

\* Giving a range back, from the guard of Init or from the destructor.
LEMMA VaFreeGood ==
  ASSUME Good, NEW t \in Threads, VaFree(t), Rest(t), ~robbed' PROVE Good'
<1>1. thread[t].call \in EndCalls /\ thread[t].call # None
  BY PcCall DEF VaFree, At, Ending, EndCalls, None
<1>2. PICK o \in Objects : o = thread[t].o
  BY <1>1 DEF Good, Calling
<1>3. page_fence' = page_fence /\ issued' = issued /\ committed' = committed
  BY DEF VaFree, paging
<1>4. Holders(mem[o].addr, o) = {} /\ used' = used \ {mem[o].addr}
  BY <1>2, NobodyElse DEF VaFree, Obj
<1>5. CASE thread[t].call = "guard"
  <2>1. mem' = [mem EXCEPT ![o].holds = FALSE, ![o].mapped = {}]
    BY <1>2, <1>5 DEF VaFree, Obj
  <2>2. /\ mem' \in [Objects -> MemRecord] /\ ~mem'[o].holds
        /\ mem'[o].kind = mem[o].kind /\ \A p \in Objects \ {o} : mem'[p] = mem[p]
    BY <2>1, GuardedShape, Zenon DEF Good
  <2>3. PICK x \in Ending : x = FreePc(Kind(t))
    BY DEF FreePc, Ending
  <2>4. /\ thread' \in [Threads -> ThreadRecord] /\ thread'[t].pc = x /\ thread'[t].call = "delete"
        /\ thread'[t].o = thread[t].o /\ thread'[t].again = TRUE
        /\ \A u \in Threads \ {t} : thread'[u] = thread[u]
    <3>1. thread[t] \in ThreadRecord /\ DOMAIN thread = Threads /\ Typed
      BY DEF Good, Typed
    <3>2. PICK y : y = [thread[t] EXCEPT !.pc = x, !.call = "delete", !.again = TRUE]
      OBVIOUS
    <3>3. y = [pc |-> x, call |-> "delete", o |-> thread[t].o, key |-> thread[t].key,
               v |-> thread[t].v, again |-> TRUE]
      BY <3>1, <3>2, Zenon DEF ThreadRecord
    <3>4. thread' = [thread EXCEPT ![t] = y]
      BY <1>5, <2>3, <3>1, <3>2, Zenon DEF VaFree
    <3>5. TRUE \in BOOLEAN
      OBVIOUS
    <3> QED
      BY <3>1, <3>3, <3>4, <3>5, DestructorShape, Zenon
  <2>5. Typed' /\ Mine(t)
    BY <1>2, <1>3, <2>2, <2>4 DEF Good, Typed, Mine
  <2>6. lock' = lock
    BY <2>4, LockStays DEF Rest, None
  <2>7. thread'[t].again
    BY <2>4, Zenon
  <2> QED
    BY <1>1, <1>2, <1>3, <1>4, <2>2, <2>4, <2>5, <2>6, <2>7, LoseStep DEF Rest, EndCalls
<1>6. CASE thread[t].call = "delete"
  <2>1. mem' = [mem EXCEPT ![o] = NoMem] /\ thread' = [thread EXCEPT ![t] = Idle]
    BY <1>2, <1>6 DEF VaFree, Obj
  <2>2. mem' \in [Objects -> MemRecord] /\ mem'[o] = NoMem /\ \A p \in Objects \ {o} : mem'[p] = mem[p]
    BY <2>1, Blank, MemSet, Zenon DEF Good
  <2>3. thread' \in [Threads -> ThreadRecord] /\ thread'[t] = Idle /\ \A u \in Threads \ {t} : thread'[u] = thread[u]
    BY <2>1, Blank, ThreadSet, Zenon DEF Good
  <2>4. Typed' /\ Mine(t)
    BY <1>2, <1>3, <2>2, <2>3 DEF Good, Typed, Mine
  <2> QED
    BY <1>2, <1>3, <1>4, <1>6, <2>2, <2>3, <2>4, DeleteStep DEF Rest
<1> QED
  BY <1>1, <1>5, <1>6 DEF EndCalls

\* A step of an operation on an object, unless it robs another one.
LEMMA StepGood ==
  ASSUME Good, NEW t \in Threads, Step(t), ~robbed' PROVE Good'
<1>1. Rest(t) /\ MemStep(t)
  BY DEF Step, Rest
<1>2. CASE Update(t, "mapfence", "resident")
  BY <1>1, <1>2, UpdateGood
<1>3. CASE Update(t, "residentfence", IF thread[t].call = "vamap" THEN "mapdone" ELSE "wait")
  <2>1. PICK next : next = IF thread[t].call = "vamap" THEN "mapdone" ELSE "wait"
    OBVIOUS
  <2>2. Update(t, "residentfence", next)
    BY <1>3, <2>1
  <2> QED
    BY <1>1, <2>1, <2>2, UpdateGood
<1> QED
  BY <1>1, <1>2, <1>3, ReserveGood, CommitGood, PhysicalGood, MapGood, ResidentGood, LoadGood, WaitGood,
     DecommitGood, VaFreeGood, Zenon DEF MemStep

-----------------------------------------------------------------------------
(* The steps of the map. *)

\* A call starts with an object.
LEMMA CalledShape ==
  ASSUME Typed, NEW t \in Threads, NEW pc \in Pcs, NEW call \in {"alloc"} \cup MapCalls \cup EndCalls,
         NEW o \in Objects, NEW key \in Ranges \cup UserPtrs \cup {None}, NEW y,
         y = [pc |-> pc, call |-> call, o |-> o, key |-> key, v |-> 0, again |-> FALSE],
         thread' = [thread EXCEPT ![t] = y]
  PROVE  /\ thread' \in [Threads -> ThreadRecord] /\ thread'[t].pc = pc /\ thread'[t].call = call
         /\ thread'[t].o = o /\ thread'[t].key = key
         /\ \A u \in Threads \ {t} : thread'[u] = thread[u]
<1>2. /\ 0 \in Int /\ FALSE \in BOOLEAN /\ o \in Objects \cup {None}
      /\ call \in {None, "alloc"} \cup MapCalls \cup EndCalls
  OBVIOUS
<1>3. y \in ThreadRecord
  <2>1. [pc |-> pc, call |-> call, o |-> o, key |-> key, v |-> 0, again |-> FALSE] \in ThreadRecord
    BY <1>2, Zenon DEF ThreadRecord
  <2> QED
    BY <2>1
<1>4. y.pc = pc /\ y.call = call /\ y.o = o /\ y.key = key
  BY Zenon
<1> QED
  BY <1>3, <1>4, ThreadSet, Zenon

\* A new object.
LEMMA CreateGood ==
  ASSUME Good, NEW t \in Threads, NEW kind \in Kinds, NEW key \in UserPtrs \cup {None},
         kind = "user" => key \in UserPtrs, At(t, "idle"), Create(t, kind, "alloc", key),
         UNCHANGED <<allocation_map, lock, queues>>
  PROVE  Good'
<1>1. PICK o \in Objects :
        /\ mem[o] = NoMem
        /\ mem' = [mem EXCEPT ![o].kind = kind]
        /\ thread' = [thread EXCEPT ![t] = [Idle EXCEPT
             !.pc = IF kind \in {"physical", "ipc"} THEN "physical" ELSE "reserve",
             !.call = "alloc", !.o = o, !.key = key]]
  BY Zenon DEF Create
<1>2. PICK pc : pc = IF kind \in {"physical", "ipc"} THEN "physical" ELSE "reserve"
  OBVIOUS
<1>3. pc \in Pcs /\ pc \in Making
  BY <1>2 DEF Pcs, Making
<1>4. /\ thread' \in [Threads -> ThreadRecord] /\ thread'[t].pc = pc /\ thread'[t].call = "alloc"
      /\ thread'[t].o = o /\ thread'[t].key = key
      /\ \A u \in Threads \ {t} : thread'[u] = thread[u]
  <2>1. PICK y : y = [Idle EXCEPT !.pc = pc, !.call = "alloc", !.o = o, !.key = key]
    OBVIOUS
  <2>2. thread' = [thread EXCEPT ![t] = y] /\ Typed
    BY <1>1, <1>2, <2>1 DEF Good
  <2>3. "alloc" \in {"alloc"} \cup MapCalls \cup EndCalls /\ key \in Ranges \cup UserPtrs \cup {None}
    OBVIOUS
  <2> QED
    <3>1. y = [pc |-> pc, call |-> "alloc", o |-> o, key |-> key, v |-> 0, again |-> FALSE]
      BY <2>1, Zenon DEF Idle
    <3> QED
      BY <1>3, <2>2, <2>3, <3>1, CalledShape, ZenonT(40)
<1>5. /\ mem' \in [Objects -> MemRecord] /\ mem'[o].kind = kind /\ mem'[o].addr = mem[o].addr
      /\ mem'[o].holds = mem[o].holds /\ \A p \in Objects \ {o} : mem'[p] = mem[p]
  BY <1>1 DEF Good, Typed, MemRecord
<1>6. mem'[o].addr = None /\ ~mem'[o].holds
  BY <1>1, <1>5 DEF NoMem
<1>7. page_fence' = page_fence /\ issued' = issued /\ used' = used /\ committed' = committed
  BY DEF Create, paging
<1>8. Typed'
  BY <1>4, <1>5, <1>7 DEF Good, Typed
<1>9. Unreserved(t)'
  BY <1>2, <1>4, <1>5 DEF Unreserved
<1>10. thread[t].call = None
  BY PcCall DEF At
<1> QED
  BY <1>1, <1>3, <1>4, <1>5, <1>6, <1>7, <1>8, <1>9, <1>10, CreateStep

\* Allocating memory and mapping memory of the caller.
LEMMA AllocGood ==
  ASSUME Good, NEW t \in Threads,
         \/ \E kind \in Kinds \ {"user"} : AllocMemory(t, kind)
         \/ \E p \in UserPtrs : MapUser(t, p)
  PROVE  Good'
<1>1. CASE \E kind \in Kinds \ {"user"} : AllocMemory(t, kind)
  <2>1. PICK kind \in Kinds \ {"user"} : AllocMemory(t, kind)
    BY <1>1
  <2> QED
    BY <2>1, CreateGood DEF AllocMemory
<1>2. CASE \E p \in UserPtrs : MapUser(t, p)
  <2>1. PICK p \in UserPtrs : MapUser(t, p)
    BY <1>2
  <2>2. "user" \in Kinds
    BY DEF Kinds
  <2> QED
    BY <2>1, <2>2, CreateGood DEF MapUser, Start
<1> QED
  BY <1>1, <1>2

\* A thread that returns.
LEMMA ReturnShape ==
  ASSUME Typed, NEW t \in Threads, thread' = [thread EXCEPT ![t] = Idle]
  PROVE  thread' \in [Threads -> ThreadRecord] /\ thread'[t] = Idle /\ \A u \in Threads \ {t} : thread'[u] = thread[u]
  BY Blank, ThreadSet, Zenon

\* The new object enters the map.
LEMMA InsertGood ==
  ASSUME Good, NEW t \in Threads, Insert(t) PROVE Good'
<1>1. thread[t].call = "alloc"
  BY PcCall DEF Insert, At
<1>2. PICK o \in Objects : thread[t].o = o
  BY <1>1 DEF Good, Calling, None
<1>3. mem' = mem /\ page_fence' = page_fence /\ issued' = issued /\ thread' = [thread EXCEPT ![t] = Idle]
  BY DEF Insert, paging
<1>4. Typed'
  BY <1>3, ReturnShape, Zenon DEF Good, Typed
<1> QED
  BY <1>1, <1>2, <1>4, InsertStep

\* The destructor starts.
LEMMA DeleteShape ==
  ASSUME Typed, NEW t \in Threads, NEW o \in Objects, Delete(t, o)
  PROVE  /\ thread' \in [Threads -> ThreadRecord] /\ thread'[t].pc \in Ending /\ thread'[t].call = "delete"
         /\ thread'[t].o = o /\ \A u \in Threads \ {t} : thread'[u] = thread[u]
<1>1. PICK pc \in Ending : pc = FreePc(mem[o].kind)
  BY DEF FreePc, Ending
<1>2. PICK y : y = [Idle EXCEPT !.pc = pc, !.call = "delete", !.o = o]
  OBVIOUS
<1>3. thread' = [thread EXCEPT ![t] = y]
  BY <1>1, <1>2 DEF Delete
<1>4. /\ pc \in Pcs /\ "delete" \in {"alloc"} \cup MapCalls \cup EndCalls
      /\ None \in Ranges \cup UserPtrs \cup {None}
  BY DEF Pcs, EndCalls
<1>5. y = [pc |-> pc, call |-> "delete", o |-> o, key |-> None, v |-> 0, again |-> FALSE]
  BY <1>2, Zenon DEF Idle
<1>6. /\ thread' \in [Threads -> ThreadRecord] /\ thread'[t].pc = pc /\ thread'[t].call = "delete"
      /\ thread'[t].o = o /\ \A u \in Threads \ {t} : thread'[u] = thread[u]
  BY <1>3, <1>4, <1>5, CalledShape, ZenonT(40)
<1> QED
  BY <1>6

\* An object leaves the map with all its entries and is deleted.
LEMMA RemoveGood ==
  ASSUME Good, NEW t \in Threads, NEW k \in Keys, NEW gone, NEW o, o = allocation_map[k].o,
         thread[t].pc = "idle", lock = None, o \in Objects => Delete(t, o),
         ~mem[o].queue \/ mem[o].kind # "system",
         mem[o].kind # "physical" \/ ~Busy(o),
         allocation_map' = Erase(allocation_map, gone),
         \A l \in Keys : l \in gone <=> allocation_map[l].o = o,
         UNCHANGED <<mem, used, committed, paging, queues>>
  PROVE  Good'
<1>1. o \in Objects /\ mem[o].kind \in Kinds /\ mem[o].holds
  BY DEF Good, Entries, Stands
<1>2. \A u \in Threads : thread[u].o # o
  BY Unattended
<1>3. /\ thread' \in [Threads -> ThreadRecord] /\ thread'[t].pc \in Ending /\ thread'[t].call = "delete"
      /\ thread'[t].o = o /\ \A u \in Threads \ {t} : thread'[u] = thread[u]
  BY <1>1, DeleteShape DEF Good
<1>4. Typed'
  BY <1>3 DEF Good, Typed, paging
<1>5. Keys' = Keys \ gone /\ \A l \in Keys \ gone : allocation_map'[l] = allocation_map[l]
  BY DEF Keys, Erase
<1>6. thread[t].call = None
  BY PcCall
<1> QED
  BY <1>1, <1>2, <1>3, <1>4, <1>5, <1>6, RemoveStep

\* Freeing memory.
LEMMA FreeGood ==
  ASSUME Good, NEW t \in Threads, NEW k \in Ranges, k \in Keys, ~allocation_map[k].userptr,
         ~Busy(allocation_map[k].o), FreeMemory(t, k)
  PROVE  Good'
<1>1. PICK o : o = allocation_map[k].o
  OBVIOUS
<1>2. Stands(k, o)
  BY <1>1 DEF Good, Entries
<1>3. ASSUME NEW l \in Keys, allocation_map[l].o = o PROVE l = k
  <2>1. Stands(l, o)
    BY <1>3 DEF Good, Entries
  <2> QED
    BY <1>1, <1>2, <2>1 DEF Stands
<1>4. \A l \in Keys : l \in {k} <=> allocation_map[l].o = o
  BY <1>1, <1>3
<1> QED
  BY <1>1, <1>4, RemoveGood DEF FreeMemory, Start, At, Entry

\* Deregistering imported memory and user pointers.
LEMMA DeregisterGood ==
  ASSUME Good, NEW t \in Threads, NEW k \in Keys, k \in Ranges => ~allocation_map[k].userptr,
         DeregisterMemory(t, k)
  PROVE  Good'
<1>1. PICK o : o = allocation_map[k].o
  OBVIOUS
<1>2. Stands(k, o)
  BY <1>1 DEF Good, Entries
<1>3. mem[o].kind \notin {"system", "physical"}
  BY <1>1, <1>2 DEF DeregisterMemory, Entry, Stands
<1>4. ASSUME NEW l \in Keys PROVE l \in DeregisteredKeys(k) <=> allocation_map[l].o = o
  <2>1. Stands(l, allocation_map[l].o)
    BY DEF Good, Entries
  <2>2. CASE allocation_map[k].userptr
    <3>1. k \in UserPtrs /\ mem[o].addr # k
      BY <2>2, KeyKinds, <1>1
    <3>2. l \in UserPtrs /\ allocation_map[l].o = o => l = k
      BY <1>1, <3>1 DEF Good, Entries
    <3>3. l = mem[o].addr => allocation_map[l].o = o
      BY <1>2, OwnKey DEF Stands
    <3> QED
      BY <1>1, <2>1, <2>2, <3>1, <3>2, <3>3 DEF DeregisteredKeys, Entry, Stands
  <2>3. CASE ~allocation_map[k].userptr
    BY <1>1, <1>2, <2>1, <2>3 DEF DeregisteredKeys, Stands
  <2> QED
    BY <2>2, <2>3
<1> QED
  BY <1>1, <1>3, <1>4, RemoveGood DEF DeregisterMemory, Start, At

\* A request to map starts.
LEMMA RequestGood ==
  ASSUME Good, NEW t \in Threads, NEW k \in Ranges, MapOnRequest(t, k) PROVE Good'
<1>1. PICK o : o = allocation_map[k].o
  OBVIOUS
<1>2. k \in Keys /\ lock = None /\ thread[t].pc = "idle" /\ mem[o].kind \in {"ipc", "physical"} /\ ~Busy(o)
  BY <1>1 DEF MapOnRequest, Start, At, Entry
<1>3. o \in Objects /\ mem[o].kind \in Kinds /\ Settled(o)
  BY <1>1, <1>2 DEF Good, Entries, Stands
<1>4. \A u \in Threads : thread[u].o # o
  BY <1>1, <1>2, Unattended
<1>5. thread[t].call = None /\ thread[t].o = None
  BY <1>2, PcCall DEF Good, Calling
<1>6. PICK call : call = IF mem[o].kind = "ipc" THEN "mapipc" ELSE "vamap"
  OBVIOUS
<1>7. call \in MapCalls /\ (call = "vamap" => mem[o].kind = "physical") /\ (call = "mapipc" => mem[o].kind = "ipc")
  BY <1>2, <1>6 DEF MapCalls
<1>8. /\ thread' \in [Threads -> ThreadRecord] /\ thread'[t].pc = "map" /\ thread'[t].call = call
      /\ thread'[t].o = o /\ \A u \in Threads \ {t} : thread'[u] = thread[u]
  <2>1. PICK y : y = [Idle EXCEPT !.pc = "map", !.call = call, !.o = o]
    OBVIOUS
  <2>2. thread' = [thread EXCEPT ![t] = y] /\ Typed
    BY <1>1, <1>6, <2>1 DEF MapOnRequest, Entry, Good
  <2>3. y = [pc |-> "map", call |-> call, o |-> o, key |-> None, v |-> 0, again |-> FALSE]
    BY <2>1, Zenon DEF Idle
  <2>4. /\ "map" \in Pcs /\ call \in {"alloc"} \cup MapCalls \cup EndCalls
        /\ None \in Ranges \cup UserPtrs \cup {None}
    BY <1>7 DEF Pcs, Making
  <2> QED
    BY <1>3, <2>2, <2>3, <2>4, CalledShape, ZenonT(40)
<1>9. lock' = IF mem[o].kind = "ipc" THEN t ELSE None
  BY <1>1 DEF MapOnRequest, Entry
<1>10. mem' = mem /\ UNCHANGED <<used, committed, allocation_map, queues, page_fence, issued>>
  BY DEF MapOnRequest, paging
<1>11. Typed' /\ \A p \in Objects : SameMem(p)
  BY <1>8, <1>10 DEF Good, Typed, SameMem
<1>12. lock' = lock \/ lock \in {None, t}
  BY <1>2
<1>13. /\ thread'[t].call \in {None} \cup MapCalls
       /\ thread'[t].call = None => thread'[t].pc = "idle" /\ thread'[t].o = None
       /\ thread'[t].call # None => thread'[t].pc = "map" /\ thread'[t].o = o
       /\ thread'[t].call = "vamap" => mem[o].kind = "physical"
       /\ thread'[t].call = "mapipc" => lock' = t
  <2>1. None \notin MapCalls
    BY DEF MapCalls, None
  <2> QED
    BY <1>7, <1>8, <1>9, <2>1
<1>14. thread[t].o \in {None, o} /\ thread[t].pc \notin {"release", "commit", "decommit", "vafree"}
  BY <1>2, <1>5
<1>15. /\ \A p \in Objects \ {o} : mem'[p] = mem[p]
       /\ UNCHANGED <<used, committed, allocation_map, queues>>
  BY <1>10
<1>16. \A u \in Threads \ {t} : thread'[u] = thread[u] /\ thread[u].o # o
  BY <1>4, <1>8
<1>17. thread[t].pc # "release" /\ thread[t].pc \notin {"commit", "decommit", "vafree"}
  BY <1>14
<1> QED
  BY <1>3, <1>11, <1>12, <1>13, <1>14, <1>15, <1>16, <1>17, RequestStep

\* What the caller is told of its object.
LEMMA ToldShape ==
  ASSUME Typed, NEW o \in Objects, NEW told \in {"yes", "no", "unsure"}, mem' = [mem EXCEPT ![o].told = told]
  PROVE  /\ mem' \in [Objects -> MemRecord] /\ SameMem(o) /\ \A p \in Objects \ {o} : mem'[p] = mem[p]
<1>1. mem[o] \in MemRecord /\ DOMAIN mem = Objects
  BY DEF Typed
<1>2. PICK y : y = [mem[o] EXCEPT !.told = told]
  BY Zenon
<1>3. y = [kind |-> mem[o].kind, addr |-> mem[o].addr, holds |-> mem[o].holds, mapped |-> mem[o].mapped,
           fence |-> mem[o].fence, queue |-> mem[o].queue, told |-> told]
  BY <1>1, <1>2, Zenon DEF MemRecord
<1>4. mem' = [mem EXCEPT ![o] = y]
  BY <1>1, <1>2, Zenon
<1>5. y \in MemRecord
  BY <1>1, <1>3 DEF MemRecord
<1>6. y.kind = mem[o].kind /\ y.addr = mem[o].addr /\ y.holds = mem[o].holds /\ y.queue = mem[o].queue
  BY <1>3, Zenon
<1> QED
  BY <1>4, <1>5, <1>6, RestShape, Zenon

\* A request to map returns.
LEMMA ReturnsGood ==
  ASSUME Good, NEW t \in Threads, MapReturns(t) PROVE Good'
<1>1. thread[t].call \in MapCalls /\ thread[t].call # None
  BY PcCall DEF MapReturns, MapCalls, None
<1>2. PICK o \in Objects : o = thread[t].o
  BY <1>1 DEF Good, Calling
<1>3. mem[o].kind \in Kinds /\ \A u \in Threads \ {t} : thread[u].o # o
  BY <1>1, <1>2, OnlyMine DEF Good, Calling
<1>4. Settled(o)
  BY <1>1, <1>3 DEF Settled
<1>5. PICK told \in {"yes", "no", "unsure"} : told = Told(mem[o].told, thread[t].pc)
  BY DEF Told
<1>6. mem' = [mem EXCEPT ![o].told = told]
  BY <1>2, <1>5 DEF MapReturns, Obj
<1>7. mem' \in [Objects -> MemRecord] /\ SameMem(o) /\ \A p \in Objects \ {o} : mem'[p] = mem[p]
  BY <1>6, ToldShape, Zenon DEF Good
<1>8. thread' \in [Threads -> ThreadRecord] /\ thread'[t] = Idle /\ \A u \in Threads \ {t} : thread'[u] = thread[u]
  BY ReturnShape, Zenon DEF Good, MapReturns
<1>9. UNCHANGED <<used, committed, allocation_map, queues, page_fence, issued>>
  BY DEF MapReturns, paging
<1>10. Typed' /\ \A p \in Objects : SameMem(p)
  BY <1>7, <1>8, <1>9 DEF Good, Typed, SameMem
<1>11. lock' = lock \/ lock \in {None, t}
  BY DEF MapReturns
<1>12. thread[t].pc \notin {"release", "commit", "decommit", "vafree"}
  BY DEF MapReturns
<1>13. thread'[t].call = None /\ thread'[t].pc = "idle" /\ thread'[t].o = None
  BY <1>8, IdleShape
<1>14. "vamap" # None /\ "mapipc" # None
  BY DEF None
<1> QED
  BY <1>2, <1>3, <1>4, <1>7, <1>8, <1>9, <1>10, <1>11, <1>12, <1>13, <1>14, RequestStep

\* What is left mapped after a request to unmap.
LEMMA UnmappedShape ==
  ASSUME Typed, NEW o \in Objects, NEW m \in SUBSET Chunks, NEW told \in {"yes", "no", "unsure"},
         mem' = [mem EXCEPT ![o].mapped = m, ![o].told = told]
  PROVE  /\ mem' \in [Objects -> MemRecord] /\ SameMem(o) /\ \A p \in Objects \ {o} : mem'[p] = mem[p]
<1>1. mem[o] \in MemRecord /\ DOMAIN mem = Objects
  BY DEF Typed
<1>2. PICK y : y = [mem[o] EXCEPT !.mapped = m, !.told = told]
  OBVIOUS
<1>3. y = [kind |-> mem[o].kind, addr |-> mem[o].addr, holds |-> mem[o].holds, mapped |-> m,
           fence |-> mem[o].fence, queue |-> mem[o].queue, told |-> told]
  BY <1>1, <1>2, Zenon DEF MemRecord
<1>4. mem' = [mem EXCEPT ![o] = y]
  BY <1>1, <1>2, Zenon
<1>5. y \in MemRecord
  BY <1>1, <1>3 DEF MemRecord
<1>6. y.kind = mem[o].kind /\ y.addr = mem[o].addr /\ y.holds = mem[o].holds /\ y.queue = mem[o].queue
  BY <1>3, Zenon
<1> QED
  BY <1>4, <1>5, <1>6, RestShape, Zenon

\* A request to unmap.
LEMMA UnmapGood ==
  ASSUME Good, NEW t \in Threads, NEW k \in Ranges, UnmapOnRequest(t, k) PROVE Good'
<1>1. PICK o : o = allocation_map[k].o
  OBVIOUS
<1>2. k \in Keys /\ lock = None /\ thread[t].pc = "idle"
  BY DEF UnmapOnRequest, Start, At
<1>3. o \in Objects /\ mem[o].kind \in Kinds
  BY <1>1, <1>2 DEF Good, Entries, Stands
<1>4. PICK i \in 1 .. NumChunks + 1, pending \in BOOLEAN :
        mem' = [mem EXCEPT ![o].mapped = @ \ 1 .. i - 1,
                  ![o].told = IF i > NumChunks /\ ~pending THEN "no" ELSE "unsure"]
  BY <1>1, Zenon DEF UnmapOnRequest
<1>5. PICK told \in {"yes", "no", "unsure"} : told = IF i > NumChunks /\ ~pending THEN "no" ELSE "unsure"
  OBVIOUS
<1>6. PICK m \in SUBSET Chunks : m = mem[o].mapped \ 1 .. i - 1
  BY <1>3, Zenon DEF Good, Typed, MemRecord
<1>7. mem' = [mem EXCEPT ![o].mapped = m, ![o].told = told]
  BY <1>4, <1>5, <1>6
<1>8. mem' \in [Objects -> MemRecord] /\ SameMem(o) /\ \A p \in Objects \ {o} : mem'[p] = mem[p]
  BY <1>3, <1>7, UnmappedShape, Zenon DEF Good
<1>9. UNCHANGED <<used, committed, thread, allocation_map, lock, queues, page_fence, issued>>
  BY DEF UnmapOnRequest, paging
<1>10. Typed'
  BY <1>8, <1>9 DEF Good, Typed
<1>11. Calling' /\ Alone' /\ Progress' /\ Owned' /\ Pages' /\ Entries' /\ Found'
  BY <1>3, <1>8, <1>9, <1>10, OutsideStep, Zenon DEF SameMem
<1>12. \A l \in Keys : Referenced(l) => Referenced(l)'
  BY <1>8, <1>9, Zenon DEF Good, Entries, Stands, Referenced, SameMem, Keys
<1>13. Rings'
  BY <1>9, <1>12, RingsFrame DEF Good
<1> QED
  BY <1>10, <1>11, <1>13 DEF Good

\* A queue is made, takes its reference, and gives it back.
LEMMA QueueShape ==
  ASSUME Typed, NEW o \in Objects, NEW queue \in BOOLEAN, mem' = [mem EXCEPT ![o].queue = queue]
  PROVE  mem' \in [Objects -> MemRecord]
<1>1. mem[o] \in MemRecord /\ mem \in [Objects -> MemRecord]
  BY DEF Typed
<1>2. PICK y : y = [mem[o] EXCEPT !.queue = queue]
  BY Zenon
<1>3. y = [kind |-> mem[o].kind, addr |-> mem[o].addr, holds |-> mem[o].holds, mapped |-> mem[o].mapped,
           fence |-> mem[o].fence, queue |-> queue, told |-> mem[o].told]
  BY <1>1, <1>2 DEF MemRecord
<1>4. y \in MemRecord
  BY <1>1, <1>3 DEF MemRecord
<1>5. mem' = [mem EXCEPT ![o] = y]
  BY <1>1, <1>2
<1> QED
  BY <1>1, <1>4, <1>5

\* Creating a queue.
LEMMA CreateQueueGood ==
  ASSUME Good, NEW t \in Threads, NEW k \in Ranges, CreateQueue(t, k) PROVE Good'
<1>1. PICK o : o = allocation_map[k].o
  OBVIOUS
<1>2. o \in Objects
  BY <1>1 DEF CreateQueue, Good, Entries, Stands
<1>3. mem' = [mem EXCEPT ![o].queue = TRUE] /\ UNCHANGED <<thread, page_fence, issued>>
  BY <1>1 DEF CreateQueue, paging
<1>4. mem' \in [Objects -> MemRecord]
  BY <1>2, <1>3, QueueShape, Zenon DEF Good
<1>5. Typed'
  BY <1>3, <1>4 DEF Good, Typed
<1> QED
  BY <1>5, CreateQueueStep

\* Destroying a queue.
LEMMA DestroyQueueGood ==
  ASSUME Good, NEW t \in Threads, NEW k \in Ranges, DestroyQueue(t, k) PROVE Good'
<1>1. PICK y : y = [Idle EXCEPT !.pc = "release", !.key = k]
  OBVIOUS
<1>2. y = [pc |-> "release", call |-> None, o |-> None, key |-> k, v |-> 0, again |-> FALSE]
  BY <1>1, Zenon DEF Idle
<1>3. y \in ThreadRecord
  <2>1. 0 \in Int /\ "release" \in Pcs
    BY DEF Pcs
  <2> QED
    BY <1>2, <2>1 DEF ThreadRecord
<1>4. thread' = [thread EXCEPT ![t] = y] /\ UNCHANGED <<mem, page_fence, issued>>
  BY <1>1 DEF DestroyQueue, paging
<1>5. Typed'
  BY <1>3, <1>4, ThreadSet DEF Good, Typed
<1> QED
  BY <1>5, DestroyQueueStep

\* Dropping the reference.
LEMMA ReleaseGood ==
  ASSUME Good, NEW t \in Threads, ReleaseBuffer(t) PROVE Good'
<1>1. PICK k : k = thread[t].key
  OBVIOUS
<1>2. k \in Keys
  BY <1>1 DEF ReleaseBuffer, At, Good, Rings, Referenced
<1>3. PICK o \in Objects : o = allocation_map[k].o
  BY <1>2 DEF Good, Entries, Stands
<1>4. mem' = [mem EXCEPT ![o].queue = FALSE]
  BY <1>1, <1>2, <1>3 DEF ReleaseBuffer
<1>5. mem' \in [Objects -> MemRecord]
  BY <1>4, QueueShape, Zenon DEF Good
<1>6. thread' \in [Threads -> ThreadRecord] /\ UNCHANGED <<page_fence, issued>>
  BY ReturnShape, Zenon DEF Good, ReleaseBuffer, paging
<1>7. Typed'
  BY <1>5, <1>6 DEF Good, Typed
<1> QED
  BY <1>1, <1>7, ReleaseStep

\* A call of the interface.
LEMMA CallGood ==
  ASSUME Good, NEW t \in Threads, Call(t) PROVE Good'
<1>1. CASE \E k \in Ranges :
             \/ k \in Keys /\ ~allocation_map[k].userptr /\ ~Busy(allocation_map[k].o) /\ FreeMemory(t, k)
             \/ k \in Keys /\ ~allocation_map[k].userptr /\ DeregisterMemory(t, k)
             \/ MapOnRequest(t, k)
             \/ UnmapOnRequest(t, k)
             \/ CreateQueue(t, k)
             \/ DestroyQueue(t, k)
  <2>1. PICK k \in Ranges :
             \/ k \in Keys /\ ~allocation_map[k].userptr /\ ~Busy(allocation_map[k].o) /\ FreeMemory(t, k)
             \/ k \in Keys /\ ~allocation_map[k].userptr /\ DeregisterMemory(t, k)
             \/ MapOnRequest(t, k)
             \/ UnmapOnRequest(t, k)
             \/ CreateQueue(t, k)
             \/ DestroyQueue(t, k)
    BY <1>1
  <2> QED
    BY <2>1, FreeGood, DeregisterGood, RequestGood, UnmapGood, CreateQueueGood, DestroyQueueGood, Zenon
<1>2. CASE \E p \in UserPtrs : DeregisterMemory(t, p)
  <2>1. PICK p \in UserPtrs : DeregisterMemory(t, p)
    BY <1>2
  <2>2. p \in Keys /\ p \notin Ranges
    BY <2>1, PointerAssumption DEF DeregisterMemory
  <2> QED
    BY <2>1, <2>2, DeregisterGood, Zenon
<1> QED
  BY <1>1, <1>2, AllocGood, Zenon DEF Call

-----------------------------------------------------------------------------
(* The invariant and the theorems. *)

\* The driver finishing a paging operation, and steps of nobody.
LEMMA StutterGood ==
  ASSUME Good, UNCHANGED <<mem, used, committed, page_fence, issued, thread, allocation_map, lock, queues>>
  PROVE  Good'
<1>1. Typed' /\ Calling' /\ Alone' /\ Owned'
  BY DEF Good, Typed, Calling, Alone, Owned
<1>2. Progress' /\ Pages'
  BY DEF Good, Progress, Unreserved, Pages
<1>3. Entries' /\ Found'
  BY MapFrame DEF Good, SameMem, Settled
<1>4. Rings'
  BY DEF Good, Rings, Referenced, Keys
<1> QED
  BY <1>1, <1>2, <1>3, <1>4 DEF Good

\* The initial state.
LEMMA InitGood == Init => IInv
<1> SUFFICES ASSUME Init PROVE Good
  BY DEF IInv
<1> USE DEF Init, MemInit
<1>1. \A t \in Threads : thread[t] = Idle
  OBVIOUS
<1>2. \A o \in Objects : mem[o] = NoMem
  OBVIOUS
<1>3. NoMem.kind = None /\ ~NoMem.holds
  BY DEF NoMem
<1>4. None \notin Kinds /\ None \notin Objects
  BY MemoryAssumption DEF None, Kinds
<1>5. Typed
  BY Blank DEF Typed
<1>6. Calling /\ Alone /\ Progress
  BY <1>1, IdleShape DEF Calling, Alone, Progress, EndCalls, MapCalls, None
<1>7. Owned /\ Pages
  BY <1>2, <1>3 DEF Owned, Pages
<1>8. Entries /\ Found
  BY <1>2, <1>3 DEF Entries, Found, Keys
<1>9. Rings
  BY <1>1, IdleShape DEF Rings
<1> QED
  BY <1>5, <1>6, <1>7, <1>8, <1>9 DEF Good

\* The steps that free a range.
Frees(t) == /\ CommitSystemHeapSpace(t) \/ Decommit(t) \/ VaFree(t)
            /\ robbed' = (robbed \/ Holders(mem[Obj(t)].addr, Obj(t)) # {})

\* Only these touch the history of stolen ranges.
LEMMA OnlyFrees ==
  ASSUME [Next]_vars PROVE robbed' = robbed \/ \E t \in Threads : Frees(t)
<1>1. ASSUME NEW t \in Threads, Call(t) PROVE robbed' = robbed
  BY <1>1, Zenon DEF Call, AllocMemory, Create, MapUser, FreeMemory, DeregisterMemory, MapOnRequest, UnmapOnRequest,
     CreateQueue, DestroyQueue
<1>2. ASSUME NEW t \in Threads, Insert(t) \/ MapReturns(t) \/ ReleaseBuffer(t) PROVE robbed' = robbed
  BY <1>2 DEF Insert, MapReturns, ReleaseBuffer
<1>3. ASSUME NEW t \in Threads, MemStep(t) PROVE robbed' = robbed \/ Frees(t)
  <2>1. CASE ReserveGpuVirtualAddress(t) \/ CreatePhysicalMemory(t) \/ LoadPageFence(t) \/ CpuWait(t)
    BY <2>1 DEF ReserveGpuVirtualAddress, CreatePhysicalMemory, LoadPageFence, CpuWait
  <2>2. CASE MapGpuVirtualAddress(t) \/ MakeResident(t)
    BY <2>2 DEF MapGpuVirtualAddress, MakeResident
  <2>3. CASE \/ Update(t, "mapfence", "resident")
             \/ Update(t, "residentfence", IF thread[t].call = "vamap" THEN "mapdone" ELSE "wait")
    BY <2>3 DEF Update
  <2>4. CASE CommitSystemHeapSpace(t)
    BY <2>4 DEF CommitSystemHeapSpace, Frees
  <2>5. CASE Decommit(t)
    BY <2>5 DEF Decommit, Frees
  <2>6. CASE VaFree(t)
    BY <2>6, Zenon DEF VaFree, Frees
  <2> QED
    BY <1>3, <2>1, <2>2, <2>3, <2>4, <2>5, <2>6, Zenon DEF MemStep
<1>4. CASE PagingDone \/ UNCHANGED vars
  BY <1>4 DEF PagingDone, vars, memvars
<1> QED
  BY <1>1, <1>2, <1>3, <1>4, Zenon DEF Next, Step

\* The invariant is inductive.
LEMMA NextIInv == IInv /\ [Next]_vars => IInv'
<1> SUFFICES ASSUME IInv, [Next]_vars PROVE robbed' \/ Good'
  BY DEF IInv
<1>1. CASE robbed
  BY <1>1, OnlyFrees, Zenon DEF Frees
<1>2. ASSUME Good, ~robbed' PROVE Good'
  <2>1. ASSUME NEW t \in Threads, Call(t) \/ Step(t) \/ Insert(t) \/ MapReturns(t) \/ ReleaseBuffer(t) PROVE Good'
    BY <1>2, <2>1, CallGood, StepGood, InsertGood, ReturnsGood, ReleaseGood, Zenon
  <2>2. CASE \/ PagingDone /\ UNCHANGED <<allocation_map, lock, queues>>
             \/ UNCHANGED vars
    BY <1>2, <2>2, StutterGood DEF PagingDone, vars, memvars, paging
  <2> QED
    BY <2>1, <2>2 DEF Next
<1> QED
  BY <1>1, <1>2 DEF IInv

\* The invariant holds.
LEMMA Inductive == Spec => []IInv
  BY InitGood, NextIInv, PTL DEF Spec

\* Every entry of the map names a living object and every object at rest is found under its
\* address, until a range has been freed twice (memory.cpp 931-947).
THEOREM MapSound == Spec => []EntriesLive
<1>1. IInv => EntriesLive
  <2> SUFFICES ASSUME Good PROVE EntriesLive
    BY DEF IInv, EntriesLive
  <2>1. ASSUME NEW k \in Keys, NEW o, o = allocation_map[k].o
        PROVE  /\ mem[o] # NoMem /\ ~Deleting(o)
               /\ k = mem[o].addr \/ (k \in UserPtrs /\ mem[o].kind = "user")
    <3>1. Stands(k, o)
      BY <2>1 DEF Good, Entries
    <3>2. mem[o] # NoMem
      BY <3>1, MemoryAssumption DEF Stands, NoMem, None, Kinds
    <3>3. ~Deleting(o)
      BY <3>1, PcCall DEF Stands, Settled, Deleting, Obj, Ending, EndCalls, MapCalls
    <3> QED
      BY <3>1, <3>2, <3>3 DEF Stands
  <2>2. ASSUME NEW o \in Objects, mem[o] # NoMem, ~InCall(o)
        PROVE  mem[o].addr \in Keys /\ allocation_map[mem[o].addr].o = o
    <3>1. mem[o].kind # None
      BY <2>2 DEF Good, Owned
    <3>2. Settled(o)
      BY <2>2 DEF InCall, Settled, Obj
    <3> QED
      BY <3>1, <3>2 DEF Good, Found
  <2> QED
    BY <2>1, <2>2 DEF EntriesLive
<1> QED
  BY <1>1, Inductive, PTL

\* A range is reserved, has one owner and keeps its pages as long as the owner lives, until a
\* range has been freed twice (openclose.cpp 295-296).
THEOREM RangesSafe == Spec => []RangeKept
<1>1. IInv => RangeKept
  <2> SUFFICES ASSUME Good, NEW o \in Objects, mem[o].holds, ~Deleting(o)
      PROVE  /\ mem[o].addr \in used
             /\ Holders(mem[o].addr, o) = {}
             /\ (mem[o].kind = "system" /\ ~\E t \in Threads : Obj(t) = o /\ At(t, "commit"))
                  => mem[o].addr \in committed
    BY DEF IInv, RangeKept
  <2>1. mem[o].addr \in used /\ Holders(mem[o].addr, o) = {}
    BY DEF Good, Owned, Holders
  <2>2. ASSUME mem[o].kind = "system", ~\E t \in Threads : Obj(t) = o /\ At(t, "commit")
        PROVE  mem[o].addr \in committed
    BY <2>2 DEF Good, Pages, Deleting, Obj, At
  <2> QED
    BY <2>1, <2>2
<1> QED
  BY <1>1, Inductive, PTL

\* The ring of a running queue stays in the map with its reference, until a range has been
\* freed twice (queues.cpp, hsaKmtCreateQueue and hsaKmtDestroyQueue).
THEOREM RingsSafe == Spec => []RingKept
<1>1. IInv => RingKept
  <2> SUFFICES ASSUME Good, NEW k \in DOMAIN queues
      PROVE  /\ k \in Keys /\ allocation_map[k].o = queues[k]
             /\ mem[queues[k]].queue /\ ~Deleting(queues[k])
    BY DEF IInv, RingKept
  <2>1. k \in Keys /\ allocation_map[k].o = queues[k] /\ mem[queues[k]].queue
    BY DEF Good, Rings, Referenced
  <2>2. Settled(queues[k])
    BY <2>1 DEF Good, Entries, Stands
  <2>3. ~Deleting(queues[k])
    BY <2>2, PcCall DEF Settled, Deleting, Obj, Ending, EndCalls, MapCalls
  <2> QED
    BY <2>1, <2>3
<1> QED
  BY <1>1, Inductive, PTL

\* The first time a range is taken from its owner it is the destructor of an object whose Init
\* failed that frees it, a second time (gpu_memory.cpp 106-114 and 48-53).
THEOREM OnlyTheGuard == Spec => RangeLost
<1>1. ASSUME IInv, [Next]_vars, robbed', ~robbed
      PROVE  \E t \in Threads : thread'[t] # thread[t] /\ thread[t].again
  <2>1. Good
    BY <1>1 DEF IInv
  <2>2. PICK t \in Threads : Frees(t)
    BY <1>1, OnlyFrees, Zenon
  <2>3. PICK p \in Objects \ {thread[t].o} : mem[p].holds /\ mem[p].addr = mem[thread[t].o].addr
    BY <1>1, <2>2, Zenon DEF Frees, Holders, Obj
  <2>4. mem[p].addr # None
    BY <2>1, <2>3, MemoryAssumption DEF Good, Owned, Ranges, None
  <2>5. thread[t].call \in {"alloc"} \cup EndCalls /\ thread[t].call # None
    BY <2>1, <2>2, PcCall DEF Frees, CommitSystemHeapSpace, Decommit, VaFree, At, Ending, EndCalls, None
  <2>6. ~mem[thread[t].o].holds /\ mem[thread[t].o].addr # None
    BY <2>1, <2>3, <2>4, <2>5 DEF Good, Calling, Owned
  <2>7. ~CommitSystemHeapSpace(t)
    BY <2>1, <2>6, PcCall DEF CommitSystemHeapSpace, At, Good, Progress, Unreserved
  <2>8. thread[t].again
    BY <2>1, <2>2, <2>6, <2>7, PcCall DEF Frees, Decommit, VaFree, At, Good, Progress, Ending
  <2>9. thread'[t] # thread[t]
    <3>1. thread \in [Threads -> ThreadRecord]
      BY <2>1 DEF Good, Typed
    <3>2. CASE Decommit(t)
      BY <3>1, <3>2 DEF Decommit, At, Go, ThreadRecord
    <3>3. CASE VaFree(t) /\ thread[t].call = "guard"
      <4>1. Typed /\ thread[t] \in ThreadRecord
        BY <2>1, <3>1 DEF Good
      <4>2. thread'[t].call = "delete"
        BY <3>1, <3>3, <4>1 DEF VaFree, ThreadRecord
      <4> QED
        BY <3>3, <4>2
    <3>4. CASE VaFree(t) /\ thread[t].call # "guard"
      <4>1. thread'[t] = Idle /\ thread[t].pc = "vafree"
        BY <3>1, <3>4 DEF VaFree, At
      <4> QED
        BY <4>1, IdleShape
    <3> QED
      BY <2>2, <2>7, <3>2, <3>3, <3>4 DEF Frees
  <2> QED
    BY <2>8, <2>9
<1>2. IInv /\ [Next]_vars =>
        [(robbed' /\ ~robbed) => \E t \in Threads : thread'[t] # thread[t] /\ thread[t].again]_vars
  BY <1>1
<1> QED
  BY <1>2, Inductive, PTL DEF RangeLost, Spec
=============================================================================
