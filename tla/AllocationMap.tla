---------------------------- MODULE AllocationMap ----------------------------
(***************************************************************************)
(* The memory interface (src/memory.cpp, src/libdrm.cpp) over the map of   *)
(* allocations by address, and the references queues take on their rings   *)
(* (src/queues.cpp).  A call of an operation is one step per critical      *)
(* section of allocation_map_lock_; in between run the steps of GpuMemory. *)
(***************************************************************************)
EXTENDS GpuMemory

CONSTANT UserPtrs  \* memory of the caller, as passed to hsaKmtMapMemoryToGPU

ASSUME PointerAssumption == UserPtrs \cap Ranges = {} /\ None \notin UserPtrs

VARIABLES allocation_map,  \* address -> [o, userptr]
          lock,            \* holder of allocation_map_lock_ across a step, or None
          queues           \* rings with a running queue: address -> object

vars == <<memvars, allocation_map, lock, queues>>

Put(f, k, x) == [c \in DOMAIN f \cup {k} |-> IF c = k THEN x ELSE f[c]]
Erase(f, ks) == [c \in DOMAIN f \ ks |-> f[c]]

Init ==
  /\ MemInit
  /\ allocation_map = [k \in {} |-> {}]
  /\ lock = None
  /\ queues = [k \in {} |-> {}]

Start(t) == At(t, "idle") /\ lock = None
Keys == DOMAIN allocation_map
Entry(k) == mem[allocation_map[k].o]

-----------------------------------------------------------------------------

\* hsaKmtAllocMemoryAlign, hsaKmtHandleImport and hsaKmtRegisterGraphicsHandle with memory
\* of another process: the object is made outside the lock.
AllocMemory(t, kind) ==
  /\ At(t, "idle")
  /\ Create(t, kind, "alloc", None)
  /\ UNCHANGED <<allocation_map, lock, queues>>

\* The new object enters the map, a user pointer under two addresses.
Insert(t) ==
  LET a == mem[Obj(t)].addr
      entry == [o |-> Obj(t), userptr |-> Kind(t) = "user"]
  IN /\ At(t, "insert") /\ lock = None
     /\ allocation_map' = IF Kind(t) = "user"
                            THEN Put(Put(allocation_map, thread[t].key, entry), a, entry)
                            ELSE Put(allocation_map, a, entry)
     /\ thread' = [thread EXCEPT ![t] = Idle]
     /\ UNCHANGED <<mem, used, committed, paging, robbed, lock, queues>>

\* delete gpu_mem.
Delete(t, o) ==
  thread' = [thread EXCEPT ![t] = [Idle EXCEPT !.pc = FreePc(mem[o].kind), !.call = "delete", !.o = o]]

\* Mutant: memory of a queue can be freed.
FreeMemory_Queue(t, k) ==
  /\ Start(t) /\ k \in Keys
  /\ allocation_map' = Erase(allocation_map, {k})
  /\ Delete(t, allocation_map[k].o)
  /\ UNCHANGED <<mem, used, committed, paging, robbed, lock, queues>>

\* hsaKmtFreeMemory and, through amdgpu_bo_free, hsaKmtMemHandleFree.  Memory that is not
\* found or referenced by a queue is refused.  The object is deleted outside the lock.
\* An imported object is not shared within the process: DecSharedReference returns 0.
FreeMemory(t, k) ==
  /\ Start(t) /\ k \in Keys /\ ~Entry(k).queue
  /\ allocation_map' = Erase(allocation_map, {k})
  /\ Delete(t, allocation_map[k].o)
  /\ UNCHANGED <<mem, used, committed, paging, robbed, lock, queues>>

\* Mutant: the entry under the GPU address stays.
DeregisteredKeys_One(k) == {k}

\* A user pointer has a second entry, read from the first after its erasure: the freed node
\* still holds it.
DeregisteredKeys(k) ==
  IF allocation_map[k].userptr THEN {k, Entry(k).addr} ELSE {k}

\* Imported memory and user pointers leave the map and are deleted under the lock.
DeregisterMemory(t, k) ==
  /\ Start(t) /\ k \in Keys
  /\ Entry(k).kind = "ipc" \/ allocation_map[k].userptr
  /\ allocation_map' = Erase(allocation_map, DeregisteredKeys(k))
  /\ Delete(t, allocation_map[k].o)
  /\ lock' = t
  /\ UNCHANGED <<mem, used, committed, paging, robbed, queues>>

\* hsaKmtMapMemoryToGPUNodes on a user pointer that is not mapped, or is with a smaller
\* size: the object is made after the lock is released.
MapUser(t, p) ==
  /\ Start(t)
  /\ Create(t, "user", "alloc", p)
  /\ UNCHANGED <<allocation_map, lock, queues>>

\* Callers do not free an object they are mapping.
Busy(o) == \E t \in Threads : thread[t].call = "vamap" /\ Obj(t) = o

\* hsaKmtMapMemoryToGPUNodes maps imported memory under the lock; amdgpu_bo_va_op maps a
\* handle without it, into a range of the caller.
MapOnRequest(t, k) ==
  /\ Start(t) /\ k \in Keys /\ Entry(k).kind \in {"ipc", "physical"} /\ ~Busy(allocation_map[k].o)
  /\ thread' = [thread EXCEPT ![t] = [Idle EXCEPT
       !.pc = "map", !.call = IF Entry(k).kind = "ipc" THEN "mapipc" ELSE "vamap",
       !.o = allocation_map[k].o]]
  /\ lock' = IF Entry(k).kind = "ipc" THEN t ELSE None
  /\ UNCHANGED <<mem, used, committed, paging, robbed, allocation_map, queues>>

\* What the caller can rely on: mapping what is not mapped leaves nothing when it fails.
Told(told, pc) == IF pc = "mapdone" THEN "yes"
                  ELSE IF pc = "mapfailed" /\ told = "no" THEN "no" ELSE "unsure"

MapReturns(t) ==
  /\ thread[t].pc \in {"mapdone", "mapfailed", "notpaged"}
  /\ mem' = [mem EXCEPT ![Obj(t)].told = Told(@, thread[t].pc)]
  /\ thread' = [thread EXCEPT ![t] = Idle]
  /\ lock' = IF lock = t THEN None ELSE lock
  /\ UNCHANGED <<used, committed, paging, robbed, allocation_map, queues>>

\* hsaKmtUnmapMemoryToGPU and amdgpu_bo_va_op unmap chunk by chunk until one fails, the
\* last with an error also when it is only pending.
UnmapOnRequest(t, k) ==
  /\ Start(t) /\ k \in Keys /\ Entry(k).kind \in {"ipc", "physical"} /\ ~Busy(allocation_map[k].o)
  /\ \E i \in 1 .. NumChunks + 1, pending \in BOOLEAN :
       /\ pending => i = NumChunks + 1
       /\ mem' = [mem EXCEPT ![allocation_map[k].o].mapped = @ \ 1 .. i - 1,
            ![allocation_map[k].o].told = IF i > NumChunks /\ ~pending THEN "no" ELSE "unsure"]
  /\ UNCHANGED <<used, committed, paging, thread, robbed, allocation_map, lock, queues>>

-----------------------------------------------------------------------------

\* hsaKmtCreateQueue.  An address that is not in the map is accepted too, without a
\* reference; callers give every queue a ring of its own in system memory.
CreateQueue(t, k) ==
  /\ Start(t) /\ k \in Keys \ DOMAIN queues /\ Entry(k).kind = "system" /\ ~Entry(k).queue
  /\ mem' = [mem EXCEPT ![allocation_map[k].o].queue = TRUE]
  /\ queues' = Put(queues, k, allocation_map[k].o)
  /\ UNCHANGED <<used, committed, paging, thread, robbed, allocation_map, lock>>

\* hsaKmtDestroyQueue deletes the queue, which joins its thread, then drops the reference.
DestroyQueue(t, k) ==
  /\ At(t, "idle") /\ k \in DOMAIN queues
  /\ queues' = Erase(queues, {k})
  /\ thread' = [thread EXCEPT ![t] = [Idle EXCEPT !.pc = "release", !.key = k]]
  /\ UNCHANGED <<mem, used, committed, paging, robbed, allocation_map, lock>>

ReleaseBuffer(t) ==
  /\ At(t, "release") /\ lock = None
  /\ mem' = IF thread[t].key \in Keys
              THEN [mem EXCEPT ![allocation_map[thread[t].key].o].queue = FALSE] ELSE mem
  /\ thread' = [thread EXCEPT ![t] = Idle]
  /\ UNCHANGED <<used, committed, paging, robbed, allocation_map, lock, queues>>

\* A step of GpuMemory; a deletion under the lock releases it at its end.
Step(t) ==
  /\ MemStep(t)
  /\ lock' = IF lock = t /\ thread'[t] = Idle THEN None ELSE lock
  /\ UNCHANGED <<allocation_map, queues>>

\* Callers give back what is theirs: user pointers with hsaKmtDeregisterMemory.
Call(t) ==
  \/ \E kind \in Kinds \ {"user"} : AllocMemory(t, kind)
  \/ \E p \in UserPtrs : MapUser(t, p)
  \/ \E k \in Ranges : \/ k \in Keys /\ ~allocation_map[k].userptr /\ ~Busy(allocation_map[k].o) /\ FreeMemory(t, k)
                       \/ k \in Keys /\ ~allocation_map[k].userptr /\ DeregisterMemory(t, k)
                       \/ MapOnRequest(t, k)
                       \/ UnmapOnRequest(t, k)
                       \/ CreateQueue(t, k)
                       \/ DestroyQueue(t, k)
  \/ \E p \in UserPtrs : DeregisterMemory(t, p)

Next == \/ \E t \in Threads : Call(t) \/ Step(t) \/ Insert(t) \/ MapReturns(t) \/ ReleaseBuffer(t)
        \/ PagingDone /\ UNCHANGED <<allocation_map, lock, queues>>

Spec == Init /\ [][Next]_vars

-----------------------------------------------------------------------------

Deleting(o) == \E t \in Threads : Obj(t) = o /\ thread[t].pc \in {"decommit", "vafree"}
InCall(o) == \E t \in Threads : Obj(t) = o

\* Every entry of the map names an object that exists and is not being deleted, under its
\* own address or as a user pointer, and every object no call is working on can be found
\* under its address: nothing dangles and nothing is lost, also when two threads map one
\* pointer and the second overwrites the first (memory.cpp 931-947).
EntriesLive ==
  ~robbed =>
    /\ \A k \in Keys : LET o == allocation_map[k].o
                        IN /\ mem[o] # NoMem /\ ~Deleting(o)
                           /\ k = mem[o].addr \/ (k \in UserPtrs /\ mem[o].kind = "user")
    /\ \A o \in Objects : (mem[o] # NoMem /\ ~InCall(o)) =>
         mem[o].addr \in Keys /\ allocation_map[mem[o].addr].o = o

\* An object's range is its own as long as it lives: reserved in its heap, with pages if it
\* is system memory, and no other object has it; decommitting before giving the range back
\* is what keeps the pages of the next owner (openclose.cpp 295-296).
RangeKept ==
  \A o \in Objects :
    (~robbed /\ mem[o].holds /\ ~Deleting(o)) =>
      /\ mem[o].addr \in used
      /\ Holders(mem[o].addr, o) = {}
      /\ (mem[o].kind = "system" /\ ~\E t \in Threads : Obj(t) = o /\ At(t, "commit"))
           => mem[o].addr \in committed

\* The first time an object's range is freed by another one, it is the destructor of an
\* object that failed to initialize, which frees the range its guard has freed already
\* (gpu_memory.cpp 106-114 and 48-53): no other path takes a range from its owner.
RangeLost ==
  [][(robbed' /\ ~robbed) => \E t \in Threads : thread'[t] # thread[t] /\ thread[t].again]_vars

\* Memory handed to the caller is mapped in all its chunks and its paging is finished, with
\* several threads raising one fence; a request to map what is not mapped maps every chunk
\* or, when it fails, none (gpu_memory.cpp 222-246).
PagedIn ==
  \A o \in Objects : (mem[o] # NoMem /\ ~InCall(o)) =>
    /\ mem[o].kind \in {"system", "local", "user"} => mem[o].mapped = Chunks /\ mem[o].fence <= done
    /\ mem[o].told = "yes" => mem[o].mapped = Chunks
    /\ (mem[o].told = "yes" /\ mem[o].kind = "ipc") => mem[o].fence <= done
    /\ (mem[o].told = "no" /\ mem[o].kind \in {"ipc", "physical"}) => mem[o].mapped = {}

\* The ring of a running queue stays in the map with its reference, whoever frees memory
\* and in whatever order queues are destroyed.
RingKept ==
  ~robbed => \A k \in DOMAIN queues :
    /\ k \in Keys /\ allocation_map[k].o = queues[k]
    /\ mem[queues[k]].queue /\ ~Deleting(queues[k])
=============================================================================
