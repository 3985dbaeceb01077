------------------------------ MODULE GpuMemory ------------------------------
(***************************************************************************)
(* The life of a GpuMemory object (src/wddm/gpu_memory.cpp): the range it  *)
(* reserves from the system heap, the local heap or the handle aperture    *)
(* (src/openclose.cpp), its physical memory, its mapping chunk by chunk,   *)
(* the paging fence it waits for, the rollback of a failed Init and the    *)
(* destructor.  Threads create and destroy objects at the same time; the   *)
(* heaps are seen through VaSpace, with ranges of equal size.              *)
(***************************************************************************)
EXTENDS Integers, FiniteSets

CONSTANTS Threads, Objects,
          SystemHeap, LocalHeap, Aperture,  \* the ranges of each heap
          NumChunks,                        \* chunks of GpuMemoryChunkSize in an object
          MaxPaging                         \* bound: paging operations that are not done at once

ASSUME MemoryAssumption ==
  /\ NumChunks \in Nat \ {0} /\ MaxPaging \in Nat
  /\ SystemHeap \cap LocalHeap = {} /\ (SystemHeap \cup LocalHeap) \cap Aperture = {}
  /\ "none" \notin Threads \cup Objects \cup SystemHeap \cup LocalHeap \cup Aperture

VARIABLES mem,         \* the objects
          used,        \* ranges the heaps have handed out
          committed,   \* ranges of the system heap that have pages
          page_fence,  \* page_fence_value_
          issued, done,\* external: paging operations queued by the driver, and finished
          thread,      \* what each thread is at
          robbed       \* history: an object's range has been freed by another one

paging == <<page_fence, issued, done>>
memvars == <<mem, used, committed, paging, thread, robbed>>

Ranges == SystemHeap \cup LocalHeap \cup Aperture
None == "none"
Chunks == 1 .. NumChunks

\* system, local: a range with memory; user: memory of the caller; virtual: a range only;
\* physical: memory with a handle only; ipc: imported from another process, with a range.
Kinds == {"system", "local", "user", "virtual", "physical", "ipc"}

\* holds: the range is reserved and not given back; fence: its last paging operation;
\* queue: is_queue_referenced; told: history of an object mapped on request, whether its
\* caller was last told that it is mapped.
NoMem == [kind |-> None, addr |-> None, holds |-> FALSE, mapped |-> {}, fence |-> 0,
          queue |-> FALSE, told |-> "no"]

\* pc: the next step; call: the operation, o: its object, key: its address argument,
\* v: a fence value in hand, again: the range has been freed by the guard of Init.
Idle == [pc |-> "idle", call |-> None, o |-> None, key |-> None, v |-> 0, again |-> FALSE]

MemInit ==
  /\ mem = [o \in Objects |-> NoMem]
  /\ used = {} /\ committed = {}
  /\ page_fence = 0 /\ issued = 0 /\ done = 0
  /\ thread = [t \in Threads |-> Idle]
  /\ robbed = FALSE

At(t, pc) == thread[t].pc = pc
Go(t, pc) == thread' = [thread EXCEPT ![t].pc = pc]
Obj(t) == thread[t].o
Kind(t) == mem[Obj(t)].kind

Heap(kind) == IF kind = "system" THEN SystemHeap
              ELSE IF kind = "physical" THEN Aperture ELSE LocalHeap

\* CreateGpuMemory: a new object, and where Init or ImportPhysicalHandle starts.
Create(t, kind, call, key) ==
  \E o \in Objects :
    /\ mem[o] = NoMem
    /\ mem' = [mem EXCEPT ![o].kind = kind]
    /\ thread' = [thread EXCEPT ![t] = [Idle EXCEPT
         !.pc = IF kind \in {"physical", "ipc"} THEN "physical" ELSE "reserve",
         !.call = call, !.o = o, !.key = key]]
    /\ UNCHANGED <<used, committed, paging, robbed>>

\* FreeGpuVirtualAddress: a system range is decommitted first.
FreePc(kind) == IF kind = "system" THEN "decommit" ELSE "vafree"

\* Init fails.  Once the range is held its guard frees memory and range, and then the
\* destructor runs, which frees the range again: its address is still in the object.
Fail(t) ==
  thread' = [thread EXCEPT ![t].pc = FreePc(Kind(t)), ![t].v = 0,
                           ![t].call = IF mem[Obj(t)].addr = None THEN "delete" ELSE "guard"]

\* VaMgr.Alloc for the range of an object or its handle.
ReserveGpuVirtualAddress(t) ==
  /\ At(t, "reserve")
  /\ \/ \E a \in Heap(Kind(t)) \ used :
          /\ used' = used \cup {a}
          /\ mem' = [mem EXCEPT ![Obj(t)].addr = a, ![Obj(t)].holds = TRUE]
          /\ Go(t, IF Kind(t) = "system" THEN "commit"
                   ELSE IF Kind(t) \in {"local", "user"} THEN "physical" ELSE "insert")
     \/ /\ Heap(Kind(t)) \subseteq used
        /\ Fail(t) /\ UNCHANGED <<used, mem>>
  /\ UNCHANGED <<committed, paging, robbed>>

\* The objects other than o that hold range a.
Holders(a, o) == {p \in Objects \ {o} : mem[p].holds /\ mem[p].addr = a}

\* Mutant: the failure is not reported.
CommitSystemHeapSpace_Unreported(t) ==
  LET a == mem[Obj(t)].addr
  IN /\ At(t, "commit")
     /\ \/ committed' = committed \cup {a}
        \/ UNCHANGED committed
     /\ Go(t, "physical")
     /\ UNCHANGED <<mem, used, paging, robbed>>

\* Mutant: the object keeps the address of the range that was given back.
CommitSystemHeapSpace_KeepsAddress(t) ==
  LET a == mem[Obj(t)].addr
  IN /\ At(t, "commit")
     /\ \/ committed' = committed \cup {a} /\ Go(t, "physical") /\ UNCHANGED <<mem, used, robbed>>
        \/ /\ used' = used \ {a}
           /\ robbed' = (robbed \/ Holders(a, Obj(t)) # {})
           /\ mem' = [mem EXCEPT ![Obj(t)].holds = FALSE]
           /\ thread' = [thread EXCEPT ![t].pc = "vafree", ![t].call = "delete"]
           /\ UNCHANGED committed
     /\ UNCHANGED paging

\* Commit the pages of a system range.  When that fails the range goes back to the heap and
\* the object never sees it.
CommitSystemHeapSpace(t) ==
  LET a == mem[Obj(t)].addr
  IN /\ At(t, "commit")
     /\ \/ committed' = committed \cup {a} /\ Go(t, "physical") /\ UNCHANGED <<mem, used, robbed>>
        \/ /\ used' = used \ {a}
           /\ robbed' = (robbed \/ Holders(a, Obj(t)) # {})
           /\ mem' = [mem EXCEPT ![Obj(t)].addr = None, ![Obj(t)].holds = FALSE]
           /\ thread' = [thread EXCEPT ![t].pc = "vafree", ![t].call = "delete"]
           /\ UNCHANGED committed
     /\ UNCHANGED paging

CreatePhysicalMemory(t) ==
  /\ At(t, "physical")
  /\ \/ Go(t, IF Kind(t) \in {"physical", "ipc"} THEN "reserve" ELSE "map")
     \/ Fail(t)
  /\ UNCHANGED <<mem, used, committed, paging, robbed>>

-----------------------------------------------------------------------------

\* A call of the driver is done at once, or queued with a fence value the caller has to
\* pass to UpdatePageFence.
Page(t, pc, mapped) ==
  \/ /\ mem' = [mem EXCEPT ![Obj(t)].mapped = mapped]
     /\ Go(t, pc) /\ UNCHANGED issued
  \/ /\ issued < MaxPaging /\ issued' = issued + 1
     /\ mem' = [mem EXCEPT ![Obj(t)].mapped = mapped, ![Obj(t)].fence = issued + 1]
     /\ thread' = [thread EXCEPT ![t].pc = pc, ![t].v = issued + 1]

\* Mutant: the value is stored whatever is there.
UpdatePageFence_Store(t) == page_fence' = thread[t].v

\* The compare-and-exchange loop raises the value and never lowers it.
UpdatePageFence(t) == page_fence' = IF thread[t].v > page_fence THEN thread[t].v ELSE page_fence

Update(t, pc, next) ==
  /\ At(t, pc)
  /\ UpdatePageFence(t)
  /\ thread' = [thread EXCEPT ![t].pc = next, ![t].v = 0]
  /\ UNCHANGED <<mem, used, committed, issued, done, robbed>>

\* What is mapped when the i-th chunk fails: the chunks before it are mapped NoAccess.  The
\* paging a failed call has queued is left out: nobody relies on it.
Unwound(mapped, i) == mapped \ 1 .. i - 1

\* A failed step: Init rolls back, a request to map returns an error at once, which leaves
\* the mapping when it is paging that failed.
GiveUp(t, pc) == IF thread[t].call \in {"mapipc", "vamap"} THEN Go(t, pc) ELSE Fail(t)

MapFailed(t, i) ==
  /\ mem' = [mem EXCEPT ![Obj(t)].mapped = Unwound(@, i)]
  /\ GiveUp(t, "mapfailed")

MapGpuVirtualAddress(t) ==
  /\ At(t, "map")
  /\ \/ Page(t, "mapfence", Chunks)
     \/ (\E i \in Chunks : MapFailed(t, i)) /\ UNCHANGED issued
  /\ UNCHANGED <<used, committed, page_fence, done, robbed>>

MakeResident(t) ==
  /\ At(t, "resident")
  /\ \/ Page(t, "residentfence", mem[Obj(t)].mapped)
     \/ GiveUp(t, "notpaged") /\ UNCHANGED <<mem, issued>>
  /\ UNCHANGED <<used, committed, page_fence, done, robbed>>

\* WaitOnPagingFenceFromCpu reads the value and waits for it.
LoadPageFence(t) ==
  /\ At(t, "wait")
  /\ thread' = [thread EXCEPT ![t].pc = "waiting", ![t].v = page_fence]
  /\ UNCHANGED <<mem, used, committed, paging, robbed>>

CpuWait(t) ==
  /\ At(t, "waiting")
  /\ \/ /\ done >= thread[t].v
        /\ thread' = [thread EXCEPT ![t].pc = IF thread[t].call = "mapipc" THEN "mapdone" ELSE "insert",
                                    ![t].v = 0]
     \/ GiveUp(t, "notpaged")
  /\ UNCHANGED <<mem, used, committed, paging, robbed>>

\* external: the driver finishes its paging operations in order.
PagingDone ==
  /\ done < issued /\ done' = done + 1
  /\ UNCHANGED <<mem, used, committed, page_fence, issued, thread, robbed>>

-----------------------------------------------------------------------------

Decommit(t) ==
  LET a == mem[Obj(t)].addr
  IN /\ At(t, "decommit")
     /\ committed' = committed \ {a}
     /\ robbed' = (robbed \/ Holders(a, Obj(t)) # {})
     /\ Go(t, "vafree")
     /\ UNCHANGED <<mem, used, paging>>

\* The range goes back to its heap.  After the guard of Init the destructor starts; after
\* the destructor the object is gone, with its physical memory and its mappings.
VaFree(t) ==
  LET a == mem[Obj(t)].addr
  IN /\ At(t, "vafree")
     /\ used' = used \ {a}
     /\ robbed' = (robbed \/ Holders(a, Obj(t)) # {})
     /\ IF thread[t].call = "guard"
          THEN /\ mem' = [mem EXCEPT ![Obj(t)].holds = FALSE, ![Obj(t)].mapped = {}]
               /\ thread' = [thread EXCEPT ![t].pc = FreePc(Kind(t)), ![t].call = "delete", ![t].again = TRUE]
          ELSE /\ mem' = [mem EXCEPT ![Obj(t)] = NoMem]
               /\ thread' = [thread EXCEPT ![t] = Idle]
     /\ UNCHANGED <<committed, paging>>

MemStep(t) ==
  \/ ReserveGpuVirtualAddress(t)
  \/ CommitSystemHeapSpace(t)
  \/ CreatePhysicalMemory(t)
  \/ MapGpuVirtualAddress(t)
  \/ Update(t, "mapfence", "resident")
  \/ MakeResident(t)
  \/ Update(t, "residentfence", IF thread[t].call = "vamap" THEN "mapdone" ELSE "wait")
  \/ LoadPageFence(t)
  \/ CpuWait(t)
  \/ Decommit(t)
  \/ VaFree(t)
=============================================================================
