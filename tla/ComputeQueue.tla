---------------------------- MODULE ComputeQueue ----------------------------
(***************************************************************************)
(* The AQL compute queue of librocdxg (src/src/wddm/queue.cpp, class       *)
(* ComputeQueue).                                                          *)
(*                                                                         *)
(* Host threads (ROCr) reserve a slot of the AQL ring, publish a packet in *)
(* it and ring the doorbell.  One translation thread per queue             *)
(* (AqlToPm4Thread) turns each packet into PM4 commands in one frame of a  *)
(* command buffer of GetAqlFrameNum() frames, merges consecutive signal-   *)
(* less kernels into one indirect buffer (IB), and submits IBs with the    *)
(* packet count as fence value.  The GPU executes IBs in order, advances   *)
(* the ring's read pointer, decrements completion signals and signals the  *)
(* fence.  The destructor stops and joins the thread.                      *)
(*                                                                         *)
(* Packet number i is translated into frame i % FrameNum.  The code packs  *)
(* the commands of one IB tightly from the IB's first frame; as each       *)
(* packet uses at most one frame size (the overflow test), the packets of  *)
(* an IB stay within the frames counted here.                              *)
(***************************************************************************)
EXTENDS Integers

CONSTANTS
  FrameNum,         \* WDDMDevice::GetAqlFrameNum(), frames in the command buffer
  RingSize,         \* packets in the AQL ring
  MaxPackets,       \* bound: packets the host ever reserves
  Producers,        \* host threads that submit packets
  ExtSignals,       \* signals completed by something other than this queue
  Templates,        \* the packets the host may write, without number and deps
  PlatformAtomics,  \* WDDMDevice::SupportPlatformAtomic()
  VendorProcess,    \* dxg_runtime->vendor_packet_process
  MayFail,          \* whether the calls into the kernel driver may fail
  None              \* "no packet", "no signal address"

PacketTypes == {"kernel", "and", "or", "vendor", "unknown"}

\* What the translation finds wrong with a packet: the validation errors of a
\* kernel dispatch, and a command that does not fit its frame.
Faults == {"none", "argument", "code_object", "setup", "allocation", "oversize"}

Template == [type : PacketTypes, barrier : BOOLEAN, signal : BOOLEAN, fault : Faults]

ASSUME ConstantsAssumption ==
  /\ FrameNum \in Nat \ {0}
  /\ RingSize \in Nat \ {0}
  /\ MaxPackets \in Nat
  /\ Templates \subseteq Template
  /\ PlatformAtomics \in BOOLEAN
  /\ VendorProcess \in BOOLEAN
  /\ MayFail \in BOOLEAN
  /\ None \notin Nat
  /\ ExtSignals \cap Nat = {}

Ids == 0 .. MaxPackets - 1
SignalIds == Ids \cup ExtSignals

Packet == [id : Ids, type : PacketTypes, barrier : BOOLEAN, signal : BOOLEAN,
           fault : Faults, deps : SUBSET SignalIds]

\* A ring slot whose header is HSA_PACKET_TYPE_INVALID.
Invalid == [type |-> "invalid"]

\* The commands of one packet: an optional barrier, an optional dispatch, an
\* optional barrier, an optional atomic decrement of the completion signal,
\* and the update of the ring's read pointer.
Frame == [id : Ids, pre : BOOLEAN, dispatch : BOOLEAN, post : BOOLEAN, signal : BOOLEAN]

NoFrame == [id |-> None]

VARIABLES
  \* the AQL ring, shared by the host, the translation thread and the GPU
  ring,             \* slot -> packet or Invalid
  ring_wptr,        \* packets reserved by the host
  ring_rptr,        \* packets retired by the GPU
  published,        \* history: every packet the host has written
  \* host threads
  ppc, slot,
  hpc,              \* the thread that runs the destructor
  thread_stop,
  \* the translation thread
  pc,
  write_index,      \* cmdbuf_aql_frame_write_index
  sync_point,       \* write_index at the last submit
  needs_barrier,
  ready_to_submit,
  signal_addr,      \* signal the CPU decrements when there are no platform atomics
  sleep,
  current_position,
  wptr_seen,        \* ring_wptr as read by the comparison with ring_rptr
  error_code,       \* what HandleError stored
  \* command buffer, driver and GPU
  cmdbuf,           \* frame -> commands
  submitted,        \* packets in IBs handed to the driver
  fences,           \* fence values the driver will signal
  sync_value,       \* *sync_addr
  gidx, gphase,     \* packet whose commands the GPU is at, and where in them
  running,          \* dispatches started and not finished
  done,             \* history: dispatches finished
  sig               \* completion signals: 1 until completed

hostvars   == <<ppc, slot, hpc, thread_stop>>
ringvars   == <<ring, ring_wptr, published>>
loopvars   == <<sleep, current_position, wptr_seen>>
batchvars  == <<write_index, sync_point, needs_barrier, ready_to_submit, signal_addr>>
drivervars == <<submitted, fences>>
gpuvars    == <<sync_value, gidx, gphase, running, done, ring_rptr>>

vars == <<hostvars, ringvars, loopvars, batchvars, drivervars, gpuvars,
          pc, error_code, cmdbuf, sig>>

Init ==
  /\ ring = [i \in 0 .. RingSize - 1 |-> Invalid]
  /\ ring_wptr = 0
  /\ ring_rptr = 0
  /\ published = {}
  /\ ppc = [p \in Producers |-> "idle"]
  /\ slot = [p \in Producers |-> None]
  /\ hpc = "run"
  /\ thread_stop = FALSE
  /\ pc = "top"
  /\ write_index = 0
  /\ sync_point = 0
  /\ needs_barrier = TRUE
  /\ ready_to_submit = FALSE
  /\ signal_addr = None
  /\ sleep = FALSE
  /\ current_position = 0
  /\ wptr_seen = 0
  /\ error_code = 0
  /\ cmdbuf = [i \in 0 .. FrameNum - 1 |-> NoFrame]
  /\ submitted = 0
  /\ fences = {}
  /\ sync_value = 0
  /\ gidx = 0
  /\ gphase = "start"
  /\ running = {}
  /\ done = {}
  /\ sig = [s \in SignalIds |-> 1]

-----------------------------------------------------------------------------
(* Host threads: the AQL producer protocol of ROCr, and hsaKmtQueueRingDoorbell. *)

\* Take the next packet number.
Reserve(p) ==
  /\ ppc[p] = "idle"
  /\ hpc = "run"
  /\ ring_wptr < MaxPackets
  /\ ring_wptr' = ring_wptr + 1
  /\ slot' = [slot EXCEPT ![p] = ring_wptr]
  /\ ppc' = [ppc EXCEPT ![p] = "reserved"]
  /\ UNCHANGED <<ring, published, hpc, thread_stop, loopvars, batchvars, drivervars,
                 gpuvars, pc, error_code, cmdbuf, sig>>

\* Signals a barrier packet numbered i may wait for: those of earlier packets
\* of this queue, and those completed elsewhere.
DepCandidates(i) ==
  {q.id : q \in {r \in published : r.signal /\ r.id < i}} \cup ExtSignals

\* The slot of a reserved packet may be written: its last user has left the ring.
MayWrite(p) == ppc[p] = "reserved" /\ slot[p] - ring_rptr < RingSize

\* Wait while the ring is full, then write the packet body and, last, its header.
Publish(p) ==
  /\ MayWrite(p)
  /\ \E t \in Templates :
       \E D \in IF t.type \in {"and", "or"} THEN SUBSET DepCandidates(slot[p]) ELSE {{}} :
         LET k == [id |-> slot[p], type |-> t.type, barrier |-> t.barrier,
                   signal |-> t.signal, fault |-> t.fault, deps |-> D]
         IN /\ ring' = [ring EXCEPT ![slot[p] % RingSize] = k]
            /\ published' = published \cup {k}
  /\ ppc' = [ppc EXCEPT ![p] = "bell"]
  /\ UNCHANGED <<ring_wptr, slot, hpc, thread_stop, loopvars, batchvars, drivervars,
                 gpuvars, pc, error_code, cmdbuf, sig>>

\* Mutant: RingDoorbell and the destructor do not take the lock.
LockFree_NoLock == TRUE

\* thread_cond_lock_ is held by the translation thread between the test for
\* work and the wait; every other critical section is a single step.
LockFree == pc # "locked"

\* RingDoorbell: pass through the lock, then notify.
RingDoorbellLock(p) ==
  /\ ppc[p] = "bell"
  /\ LockFree
  /\ ppc' = [ppc EXCEPT ![p] = "notify"]
  /\ UNCHANGED <<slot, hpc, thread_stop, ringvars, loopvars, batchvars, drivervars,
                 gpuvars, pc, error_code, cmdbuf, sig>>

\* thread_cond_.notify_one(): lost when the thread is not waiting.
NotifyOne == pc' = IF pc = "waiting" THEN "top" ELSE pc

RingDoorbellNotify(p) ==
  /\ ppc[p] = "notify"
  /\ NotifyOne
  /\ ppc' = [ppc EXCEPT ![p] = "idle"]
  /\ slot' = [slot EXCEPT ![p] = None]
  /\ UNCHANGED <<hpc, thread_stop, ringvars, loopvars, batchvars, drivervars,
                 gpuvars, error_code, cmdbuf, sig>>

\* hsaKmtDestroyQueue, called when no host thread is submitting any more.
DestroyStop ==
  /\ hpc = "run"
  /\ \A p \in Producers : ppc[p] = "idle"
  /\ LockFree
  /\ thread_stop' = TRUE
  /\ hpc' = "notify"
  /\ UNCHANGED <<ppc, slot, ringvars, loopvars, batchvars, drivervars, gpuvars,
                 pc, error_code, cmdbuf, sig>>

DestroyNotify ==
  /\ hpc = "notify"
  /\ NotifyOne
  /\ hpc' = "join"
  /\ UNCHANGED <<ppc, slot, thread_stop, ringvars, loopvars, batchvars, drivervars,
                 gpuvars, error_code, cmdbuf, sig>>

DestroyJoin ==
  /\ hpc = "join"
  /\ pc = "exited"
  /\ hpc' = "destroyed"
  /\ UNCHANGED <<ppc, slot, thread_stop, ringvars, loopvars, batchvars, drivervars,
                 gpuvars, pc, error_code, cmdbuf, sig>>

\* Something outside this queue completes one of its signals.
CompleteExt(s) ==
  /\ sig[s] = 1
  /\ sig' = [sig EXCEPT ![s] = 0]
  /\ UNCHANGED <<hostvars, ringvars, loopvars, batchvars, drivervars, gpuvars,
                 pc, error_code, cmdbuf>>

-----------------------------------------------------------------------------
(* The translation thread: the loop of AqlToPm4Thread. *)

Current == ring[write_index % RingSize]
IsInvalidPacket == Current.type = "invalid"

\* The loop sees a packet and calls Process.
LoopPacket ==
  /\ pc = "top"
  /\ ~IsInvalidPacket
  /\ pc' = "process"
  /\ UNCHANGED <<hostvars, ringvars, loopvars, batchvars, drivervars, gpuvars,
                 error_code, cmdbuf, sig>>

\* No packet, and the write index moved since the timer was started.
LoopMoved ==
  /\ pc = "top"
  /\ IsInvalidPacket
  /\ current_position # write_index
  /\ current_position' = write_index
  /\ sleep' = FALSE
  /\ pc' = "spin"
  /\ UNCHANGED <<wptr_seen, hostvars, ringvars, batchvars, drivervars, gpuvars,
                 error_code, cmdbuf, sig>>

\* No packet, and less than kMaxElapsed has passed.
LoopPoll ==
  /\ pc = "top"
  /\ IsInvalidPacket
  /\ current_position = write_index
  /\ pc' = "spin"
  /\ UNCHANGED <<hostvars, ringvars, loopvars, batchvars, drivervars, gpuvars,
                 error_code, cmdbuf, sig>>

\* No packet for more than kMaxElapsed.
LoopTimeout ==
  /\ pc = "top"
  /\ IsInvalidPacket
  /\ current_position = write_index
  /\ sleep' = TRUE
  /\ pc' = "spin"
  /\ UNCHANGED <<wptr_seen, current_position, hostvars, ringvars, batchvars, drivervars,
                 gpuvars, error_code, cmdbuf, sig>>

\* Outstanding packets, and no timeout: go round again.  The two loads are one step:
\* whatever they see, the other way leads to the lock, where both are read again.
SpinTest ==
  /\ pc = "spin"
  /\ pc' = IF ring_wptr > ring_rptr /\ ~sleep THEN "top" ELSE "lock"
  /\ UNCHANGED <<hostvars, ringvars, loopvars, batchvars, drivervars, gpuvars,
                 error_code, cmdbuf, sig>>

\* With the lock held the two pointers are read again, one by one: ring_wptr here,
\* ring_rptr in LockedTest.
LockRead ==
  /\ pc = "lock"
  /\ wptr_seen' = ring_wptr
  /\ pc' = "locked"
  /\ UNCHANGED <<sleep, current_position, hostvars, ringvars, batchvars, drivervars,
                 gpuvars, error_code, cmdbuf, sig>>

\* Mutant: the timeout does not count.
NothingToDo_NoTimeout == wptr_seen <= ring_rptr

\* The test made with the lock held: nothing to translate.
NothingToDo == wptr_seen <= ring_rptr \/ (sleep /\ IsInvalidPacket)

LockedTest ==
  /\ pc = "locked"
  /\ pc' = IF ~NothingToDo THEN "top"
           ELSE IF thread_stop THEN "exited" ELSE "waiting"
  /\ UNCHANGED <<hostvars, ringvars, loopvars, batchvars, drivervars, gpuvars,
                 error_code, cmdbuf, sig>>

\* std::condition_variable::wait may return without a notification.
SpuriousWakeup ==
  /\ pc = "waiting"
  /\ pc' = "top"
  /\ UNCHANGED <<hostvars, ringvars, loopvars, batchvars, drivervars, gpuvars,
                 error_code, cmdbuf, sig>>

-----------------------------------------------------------------------------
(* The translation thread: Process. *)

\* The loop of Process is left when there is no packet to translate.
ProcessTest ==
  /\ pc = "process"
  /\ IF write_index < ring_wptr /\ ~IsInvalidPacket
       THEN pc' = "slot" /\ UNCHANGED sleep
       ELSE pc' = "spin" /\ sleep' = FALSE
  /\ UNCHANGED <<current_position, wptr_seen, hostvars, ringvars, batchvars, drivervars,
                 gpuvars, error_code, cmdbuf, sig>>

\* Mutant: off by one.
FrameBusy_OffByOne == sync_value + FrameNum < write_index

\* The frame that packet write_index is about to use is not free yet.
FrameBusy == sync_value + FrameNum <= write_index

\* The fence value the thread then waits for.
WaitValue == write_index - FrameNum + 1

FrameCheck ==
  /\ pc = "slot"
  /\ pc' = IF FrameBusy THEN "slot_wait" ELSE "switch"
  /\ UNCHANGED <<hostvars, ringvars, loopvars, batchvars, drivervars, gpuvars,
                 error_code, cmdbuf, sig>>

FrameWait ==
  /\ pc = "slot_wait"
  /\ sync_value >= WaitValue
  /\ pc' = "switch"
  /\ UNCHANGED <<hostvars, ringvars, loopvars, batchvars, drivervars, gpuvars,
                 error_code, cmdbuf, sig>>

\* Process returns an error: HandleError reports it and the thread ends.
ErrorValue ==
  [argument |-> 64, code_object |-> 8, setup |-> 2, allocation |-> 4,
   format |-> 32, oversize |-> -1, error |-> -1]

HandleError(e) ==
  /\ error_code' = ErrorValue[e]
  /\ pc' = "exited"

\* A wait for the fence fails.
CpuWaitFails ==
  /\ MayFail
  /\ pc \in {"slot_wait", "signal_wait"}
  /\ HandleError("error")
  /\ UNCHANGED <<hostvars, ringvars, loopvars, batchvars, drivervars, gpuvars,
                 cmdbuf, sig>>

\* Mutant: the header is not reset.
Emit_KeepsHeader(f) ==
  /\ cmdbuf' = [cmdbuf EXCEPT ![write_index % FrameNum] = f]
  /\ write_index' = write_index + 1
  /\ UNCHANGED ring

\* Commands f go to the frame of packet write_index, whose slot is released.
Emit(f) ==
  /\ cmdbuf' = [cmdbuf EXCEPT ![write_index % FrameNum] = f]
  /\ write_index' = write_index + 1
  /\ ring' = [ring EXCEPT ![write_index % RingSize] = Invalid]

\* Where the completion signal of packet k is decremented: by the GPU, or by
\* this thread once the fence has been reached.
SignalByGpu(k) == k.signal /\ PlatformAtomics
SignalByCpu(k) == IF k.signal /\ ~PlatformAtomics THEN k.id ELSE signal_addr

KernelFrame(k) ==
  [id |-> k.id, pre |-> k.barrier /\ needs_barrier, dispatch |-> TRUE,
   post |-> k.signal, signal |-> SignalByGpu(k)]

\* Mutant: the completion of a barrier packet does not wait for the kernels before it.
BarrierFrame_NoBarrier(k) ==
  [id |-> k.id, pre |-> FALSE, dispatch |-> FALSE, post |-> FALSE, signal |-> SignalByGpu(k)]

BarrierFrame(k) ==
  [id |-> k.id, pre |-> k.signal /\ needs_barrier, dispatch |-> FALSE,
   post |-> FALSE, signal |-> SignalByGpu(k)]

VendorFrame(k) ==
  [id |-> k.id, pre |-> FALSE, dispatch |-> FALSE,
   post |-> VendorProcess /\ k.signal, signal |-> VendorProcess /\ SignalByGpu(k)]

\* Mutant: a kernel without signal does not set needs_barrier again.
NeedsBarrierAfter_Sticky(k) == needs_barrier /\ ~k.signal

\* Whether kernels may be running at the end of the commands of packet k.
NeedsBarrierAfter(k) == IF k.type = "kernel" THEN ~k.signal ELSE needs_barrier /\ ~k.signal

\* Mutants: IBs run past the end of the command buffer; every kernel without signal is
\* merged; kernels with a signal are merged.
KeepMerging_PastEnd(k) == ~k.signal /\ sync_value # sync_point

KeepMerging_Always(k) == ~k.signal

KeepMerging_Signals(k) == (write_index + 1) % FrameNum # 0 /\ sync_value # sync_point

\* The IB is submitted unless packet k is a kernel without completion signal,
\* there is room for another frame before the end of the command buffer, and
\* the GPU still has submitted work.
KeepMerging(k) ==
  /\ ~k.signal
  /\ (write_index + 1) % FrameNum # 0
  /\ sync_value # sync_point

\* KernelDispatchAqlToPm4, and the decision to merge.
SwitchKernel ==
  /\ pc = "switch"
  /\ Current.type = "kernel"
  /\ Current.fault = "none"
  /\ Emit(KernelFrame(Current))
  /\ needs_barrier' = NeedsBarrierAfter(Current)
  /\ signal_addr' = SignalByCpu(Current)
  /\ ready_to_submit' = (ready_to_submit \/ ~KeepMerging(Current))
  /\ pc' = IF ready_to_submit' THEN "submit" ELSE "process"
  /\ UNCHANGED <<ring_wptr, published, sync_point, hostvars, loopvars, drivervars,
                 gpuvars, error_code, sig>>

\* A kernel that fails validation, or a packet of no known type.
SwitchInvalid ==
  /\ pc = "switch"
  /\ \/ /\ Current.type = "kernel" /\ Current.fault \notin {"none", "oversize"}
        /\ HandleError(Current.fault)
     \/ Current.type = "unknown" /\ HandleError("format")
  /\ UNCHANGED <<hostvars, ringvars, loopvars, batchvars, drivervars, gpuvars, cmdbuf, sig>>

\* The dependencies of a barrier packet are met: all of them, or one of them.  The code
\* looks at them one by one; a completed signal stays completed.
DepsMet(k) ==
  IF k.type = "and" THEN \A s \in k.deps : sig[s] = 0
  ELSE k.deps = {} \/ \E s \in k.deps : sig[s] = 0

\* BarrierGenericAqlToPm4: the thread itself waits for the dependencies.
SwitchBarrier ==
  /\ pc = "switch"
  /\ Current.type \in {"and", "or"}
  /\ DepsMet(Current)
  /\ Emit(BarrierFrame(Current))
  /\ needs_barrier' = NeedsBarrierAfter(Current)
  /\ signal_addr' = SignalByCpu(Current)
  /\ ready_to_submit' = TRUE
  /\ pc' = "submit"
  /\ UNCHANGED <<ring_wptr, published, sync_point, hostvars, loopvars, drivervars,
                 gpuvars, error_code, sig>>

\* A vendor packet that is skipped completes its signal at once.
VendorSignal(k) ==
  IF k.signal /\ ~VendorProcess THEN [sig EXCEPT ![k.id] = 0] ELSE sig

\* VendorSpecificAqlToPm4.
SwitchVendor ==
  /\ pc = "switch"
  /\ Current.type = "vendor"
  /\ ~(VendorProcess /\ Current.fault = "oversize")
  /\ Emit(VendorFrame(Current))
  /\ signal_addr' = IF VendorProcess THEN SignalByCpu(Current) ELSE signal_addr
  /\ sig' = VendorSignal(Current)
  /\ ready_to_submit' = TRUE
  /\ pc' = "submit"
  /\ UNCHANGED <<ring_wptr, published, sync_point, needs_barrier, hostvars, loopvars,
                 drivervars, gpuvars, error_code>>

\* Commands that exceed their frame have been written all the same, over the next
\* frame too, when the overflow test finds it out.
Overrun ==
  cmdbuf' = [i \in DOMAIN cmdbuf |->
               IF i - (write_index % FrameNum) \in {0, 1} THEN NoFrame ELSE cmdbuf[i]]

\* For a kernel the error ends the thread.
SwitchKernelOversize ==
  /\ pc = "switch"
  /\ Current.type = "kernel"
  /\ Current.fault = "oversize"
  /\ Overrun
  /\ needs_barrier' = NeedsBarrierAfter(Current)
  /\ signal_addr' = SignalByCpu(Current)
  /\ HandleError("oversize")
  /\ UNCHANGED <<write_index, sync_point, ready_to_submit, hostvars, ringvars, loopvars,
                 drivervars, gpuvars, sig>>

\* For a vendor packet SwitchAql2PM4 drops the error, so that the packet stays in the
\* ring and what has been merged is submitted.
SwitchVendorOversize ==
  /\ pc = "switch"
  /\ Current.type = "vendor"
  /\ VendorProcess /\ Current.fault = "oversize"
  /\ Overrun
  /\ signal_addr' = SignalByCpu(Current)
  /\ ready_to_submit' = TRUE
  /\ pc' = "submit"
  /\ UNCHANGED <<write_index, sync_point, needs_barrier, hostvars, ringvars, loopvars,
                 drivervars, gpuvars, error_code, sig>>

\* Mutant: the IB is one frame too long.
Submit_TooLong ==
  /\ pc = "submit"
  /\ submitted' = write_index + 1
  /\ fences' = fences \cup {write_index}
  /\ sync_point' = write_index
  /\ pc' = "process" /\ ready_to_submit' = FALSE
  /\ UNCHANGED <<write_index, needs_barrier, signal_addr, hostvars, ringvars, loopvars,
                 gpuvars, error_code, cmdbuf, sig>>

\* Submit: the IB holds the packets sync_point .. write_index - 1.
Submit ==
  /\ pc = "submit"
  /\ submitted' = write_index
  /\ fences' = fences \cup {write_index}
  /\ sync_point' = write_index
  /\ IF ~PlatformAtomics /\ signal_addr # None
       THEN pc' = "signal_wait" /\ UNCHANGED ready_to_submit
       ELSE pc' = "process" /\ ready_to_submit' = FALSE
  /\ UNCHANGED <<write_index, needs_barrier, signal_addr, hostvars, ringvars, loopvars,
                 gpuvars, error_code, cmdbuf, sig>>

\* The driver refuses the IB, or takes it and then refuses the fence signal
\* (SubmitToSwQueue makes two calls).
SubmitFails ==
  /\ MayFail
  /\ pc = "submit"
  /\ HandleError("error")
  /\ submitted' \in {submitted, write_index}
  /\ UNCHANGED <<fences, hostvars, ringvars, loopvars, batchvars, gpuvars, cmdbuf, sig>>

\* Mutants: the signal is completed before the IB; signal_addr_ is not reset; the wait is
\* for the next fence value.
SignalWait_Early ==
  /\ pc = "signal_wait"
  /\ sig' = [sig EXCEPT ![signal_addr] = @ - 1]
  /\ signal_addr' = None
  /\ ready_to_submit' = FALSE
  /\ pc' = "process"
  /\ UNCHANGED <<write_index, sync_point, needs_barrier, hostvars, ringvars, loopvars,
                 drivervars, gpuvars, error_code, cmdbuf>>

SignalWait_NoReset ==
  /\ pc = "signal_wait"
  /\ sync_value >= write_index
  /\ sig' = [sig EXCEPT ![signal_addr] = @ - 1]
  /\ ready_to_submit' = FALSE
  /\ pc' = "process"
  /\ UNCHANGED <<write_index, sync_point, needs_barrier, signal_addr, hostvars, ringvars,
                 loopvars, drivervars, gpuvars, error_code, cmdbuf>>

SignalWait_OffByOne ==
  /\ SignalWait_NoReset
  /\ sync_value > write_index

\* Without platform atomics the thread waits for the IB and completes the signal.
SignalWait ==
  /\ pc = "signal_wait"
  /\ sync_value >= write_index
  /\ sig' = [sig EXCEPT ![signal_addr] = @ - 1]
  /\ signal_addr' = None
  /\ ready_to_submit' = FALSE
  /\ pc' = "process"
  /\ UNCHANGED <<write_index, sync_point, needs_barrier, hostvars, ringvars, loopvars,
                 drivervars, gpuvars, error_code, cmdbuf>>

-----------------------------------------------------------------------------
(* The GPU and the driver (external): commands are read from the command     *)
(* buffer in order; a dispatch runs on while later commands are executed, up  *)
(* to the next barrier; a fence is signalled once its IB has drained.         *)

GpuFrame == cmdbuf[gidx % FrameNum]

GpuStart ==
  /\ gphase = "start"
  /\ gidx < submitted
  /\ GpuFrame # NoFrame
  /\ GpuFrame.pre => running = {}
  /\ running' = IF GpuFrame.dispatch THEN running \cup {GpuFrame.id} ELSE running
  /\ gphase' = "signal"
  /\ UNCHANGED <<sync_value, gidx, done, ring_rptr, hostvars, ringvars, loopvars, batchvars,
                 drivervars, pc, error_code, cmdbuf, sig>>

GpuSignal ==
  /\ gphase = "signal"
  /\ GpuFrame # NoFrame
  /\ GpuFrame.post => running = {}
  /\ sig' = IF GpuFrame.signal THEN [sig EXCEPT ![GpuFrame.id] = @ - 1] ELSE sig
  /\ gphase' = "rptr"
  /\ UNCHANGED <<sync_value, gidx, running, done, ring_rptr, hostvars, ringvars, loopvars,
                 batchvars, drivervars, pc, error_code, cmdbuf>>

GpuRptr ==
  /\ gphase = "rptr"
  /\ GpuFrame # NoFrame
  /\ ring_rptr' = IF PlatformAtomics THEN ring_rptr + 1 ELSE GpuFrame.id + 1
  /\ gidx' = gidx + 1
  /\ gphase' = "start"
  /\ UNCHANGED <<sync_value, running, done, hostvars, ringvars, loopvars, batchvars,
                 drivervars, pc, error_code, cmdbuf, sig>>

GpuDispatchDone(i) ==
  /\ running' = running \ {i}
  /\ done' = done \cup {i}
  /\ UNCHANGED <<sync_value, gidx, gphase, ring_rptr, hostvars, ringvars, loopvars,
                 batchvars, drivervars, pc, error_code, cmdbuf, sig>>

GpuFence(v) ==
  /\ v > sync_value
  /\ \A w \in fences : w > sync_value => v <= w
  /\ v <= gidx
  /\ \A i \in running : i >= v
  /\ sync_value' = v
  /\ UNCHANGED <<gidx, gphase, running, done, ring_rptr, hostvars, ringvars, loopvars,
                 batchvars, drivervars, pc, error_code, cmdbuf, sig>>

-----------------------------------------------------------------------------

Host(p) == Reserve(p) \/ Publish(p) \/ RingDoorbellLock(p) \/ RingDoorbellNotify(p)

Destroy == DestroyStop \/ DestroyNotify \/ DestroyJoin

Loop == \/ LoopPacket \/ LoopMoved \/ LoopPoll \/ LoopTimeout \/ SpinTest
        \/ LockRead \/ LockedTest \/ SpuriousWakeup

Process == \/ ProcessTest \/ FrameCheck \/ FrameWait \/ CpuWaitFails
           \/ SwitchKernel \/ SwitchKernelOversize \/ SwitchInvalid \/ SwitchBarrier
           \/ SwitchVendor \/ SwitchVendorOversize \/ Submit \/ SubmitFails \/ SignalWait

Gpu == \/ GpuStart \/ GpuSignal \/ GpuRptr
       \/ \E i \in running : GpuDispatchDone(i)
       \/ \E v \in fences : GpuFence(v)

Next == \/ \E p \in Producers : Host(p)
        \/ Destroy
        \/ \E s \in ExtSignals : CompleteExt(s)
        \/ Loop
        \/ Process
        \/ Gpu

Spec == Init /\ [][Next]_vars

\* A step of the translation thread that its own scheduling guarantees.
ThreadStep ==
  \/ LoopPacket \/ LoopMoved \/ LoopPoll \/ SpinTest \/ LockRead \/ LockedTest
  \/ ProcessTest \/ FrameCheck \/ FrameWait \/ SwitchKernel \/ SwitchKernelOversize
  \/ SwitchInvalid \/ SwitchBarrier \/ SwitchVendor \/ SwitchVendorOversize \/ Submit \/ SignalWait

\* The thread and the GPU keep running, a kernel terminates, a host thread that
\* reserved a slot goes on to publish and ring, a destructor that was entered goes
\* on, external signals are completed, and time passes.
Fairness ==
  /\ WF_vars(ThreadStep)
  /\ SF_vars(LoopTimeout)
  /\ WF_vars(GpuStart) /\ WF_vars(GpuSignal) /\ WF_vars(GpuRptr)
  /\ \A i \in Ids : WF_vars(i \in running /\ GpuDispatchDone(i))
  /\ \A v \in 1 .. MaxPackets : WF_vars(v \in fences /\ GpuFence(v))
  /\ \A p \in Producers : /\ WF_vars(Publish(p))
                          /\ WF_vars(RingDoorbellLock(p))
                          /\ WF_vars(RingDoorbellNotify(p))
  /\ WF_vars(DestroyNotify) /\ WF_vars(DestroyJoin)
  /\ \A s \in ExtSignals : WF_vars(CompleteExt(s))

FairSpec == Spec /\ Fairness

-----------------------------------------------------------------------------

ThreadStates ==
  {"top", "spin", "lock", "locked", "waiting", "process", "slot", "slot_wait",
   "switch", "submit", "signal_wait", "exited"}

HostType ==
  /\ ppc \in [Producers -> {"idle", "reserved", "bell", "notify"}]
  /\ slot \in [Producers -> Ids \cup {None}]
  /\ hpc \in {"run", "notify", "join", "destroyed"}
  /\ thread_stop \in BOOLEAN

RingType ==
  /\ ring \in [0 .. RingSize - 1 -> Packet \cup {Invalid}]
  /\ ring_wptr \in 0 .. MaxPackets
  /\ published \subseteq Packet

LoopType ==
  /\ sleep \in BOOLEAN
  /\ current_position \in 0 .. MaxPackets
  /\ wptr_seen \in 0 .. MaxPackets

BatchType ==
  /\ write_index \in 0 .. MaxPackets
  /\ sync_point \in 0 .. MaxPackets
  /\ needs_barrier \in BOOLEAN
  /\ ready_to_submit \in BOOLEAN
  /\ signal_addr \in Ids \cup {None}

DriverType ==
  /\ submitted \in 0 .. MaxPackets
  /\ fences \subseteq 0 .. MaxPackets

GpuType ==
  /\ sync_value \in 0 .. MaxPackets
  /\ gidx \in 0 .. MaxPackets
  /\ gphase \in {"start", "signal", "rptr"}
  /\ running \subseteq Ids
  /\ done \subseteq Ids
  /\ ring_rptr \in 0 .. MaxPackets

ThreadType ==
  /\ pc \in ThreadStates
  /\ error_code \in Int

CmdbufType == cmdbuf \in [0 .. FrameNum - 1 -> Frame \cup {NoFrame}]
SigType == sig \in [SignalIds -> Int]

\* Every variable has its type.
TypeOK ==
  /\ HostType /\ RingType /\ LoopType /\ BatchType /\ DriverType /\ GpuType
  /\ ThreadType /\ CmdbufType /\ SigType

\* The frames of all packets the fence has not passed, submitted or still being
\* merged, hold the commands of exactly these packets: the wait in Process (queue.cpp
\* 976-979) never lets a new packet overwrite commands the GPU may still read.
FrameIntact ==
  \A i \in sync_value .. write_index - 1 : cmdbuf[i % FrameNum].id = i

\* When the thread waits for a frame to become free, the fence value it waits for has
\* been submitted: it never waits for an IB that only it could submit, although merging
\* (queue.cpp 934-937) holds packets back.
FrameWaitSubmitted ==
  pc = "slot_wait" => \E v \in fences : v >= WaitValue

\* The IB that is submitted is one piece of the command buffer: it does not run past the
\* end of the buffer into frames that other packets own (queue.cpp 935, 596-598).
IbInBuffer ==
  pc = "submit" => (sync_point % FrameNum) + (write_index - sync_point) <= FrameNum

\* When the thread waits for the dependencies of a barrier packet, every one of them
\* that an earlier packet of this queue completes belongs to a submitted packet: no
\* packet with a completion signal is held back by merging (queue.cpp 934).
DepsSubmitted ==
  pc = "switch" /\ Current.type \in {"and", "or"} => \A d \in Current.deps \cap Ids : d < submitted

\* The slot a host thread may write is free: the packet that used it last has been
\* translated before the read pointer (advanced by commands in the IB, queue.cpp 727-730)
\* let the host reuse it, whatever order packets are published and retired in.
SlotFree ==
  \A p \in Producers : MayWrite(p) => ring[slot[p] % RingSize] = Invalid

Kernels == {p \in published : p.type = "kernel"}
EarlierKernelsDone(p) == \A q \in Kernels : q.id < p.id => q.id \in done

\* A kernel packet with the barrier bit starts only after all earlier kernels of the
\* queue have finished, although the barrier command is left out when needs_barrier
\* says that the command stream has drained since (queue.cpp 665-667, 701, 803).
BarrierBit ==
  \A p \in Kernels : p.barrier /\ p.id \in running \cup done => EarlierKernelsDone(p)

\* The completion signal of a barrier packet is decremented only when all earlier
\* kernels of the queue have finished (queue.cpp 800-816), and that of a kernel only
\* when this kernel has (queue.cpp 703-722).
CompletionAfterWork ==
  \A p \in published :
    p.signal /\ sig[p.id] < 1 =>
      /\ p.type \in {"and", "or"} => EarlierKernelsDone(p)
      /\ p.type = "kernel" => p.id \in done

\* No completion signal is decremented twice: each packet is translated, submitted and
\* executed once, however its slot, its frame and its signal are reused.
CompletedOnce == \A p \in published : sig[p.id] \in {0, 1}

\* Every packet published with a completion signal is eventually completed: no wakeup
\* of the thread is lost between RingDoorbell and the wait (queue.cpp 215-224, 546-552),
\* and no wait of the thread is for work it holds back itself.
Completion ==
  \A i \in Ids : (\E p \in published : p.id = i /\ p.signal) ~> (sig[i] = 0)

\* The destructor returns: the thread sees thread_stop_ and leaves its loop, even when
\* packets that will never retire keep the pointers of the ring apart.
JoinReturns == thread_stop ~> (hpc = "destroyed")

\* What the comment at queue.cpp 930-933 says of merging: it stops when "the queue is
\* empty now".  A merged kernel is submitted once the GPU has no other work.
MergedSubmitted ==
  \A i \in Ids : (write_index > i /\ sync_value = sync_point) ~> (submitted > i)

-----------------------------------------------------------------------------
(* The inductive invariant behind TypeOK, FrameIntact, FrameWaitSubmitted and  *)
(* SlotFree.                                                                    *)

\* The commands of every packet fit its frame (no step of SwitchKernelOversize or
\* SwitchVendorOversize).
FitsFrame == \A t \in Templates : t.fault # "oversize"

\* The counters of the queue are ordered.
OrderInv ==
  /\ sync_value <= gidx /\ gidx <= submitted /\ submitted <= write_index
  /\ write_index <= ring_wptr
  /\ ring_rptr = gidx
  /\ gphase # "start" => gidx < submitted
  /\ sync_value <= sync_point /\ sync_point <= submitted
  /\ \A v \in fences : v <= sync_point
  /\ sync_point # 0 => sync_point \in fences

\* The IB being built does not reach past the end of the command buffer.
BatchInv ==
  LET pos == (sync_point % FrameNum) + (write_index - sync_point)
  IN /\ pc \notin {"submit", "exited"} => pos < FrameNum
     /\ pos <= FrameNum
     /\ pos < FrameNum => write_index % FrameNum = pos
     /\ pc = "signal_wait" => write_index = sync_point

\* Where the thread stands between the test for a packet and its translation.
ThreadInv ==
  /\ pc \in {"slot", "slot_wait", "switch"} =>
       write_index < ring_wptr /\ Current # Invalid
  /\ pc = "slot_wait" => write_index >= FrameNum
  /\ pc = "switch" => write_index < sync_value + FrameNum
  /\ write_index <= sync_value + FrameNum
  /\ pc = "signal_wait" => signal_addr # None

\* A packet in the ring is not translated yet, sits in its own slot, within one ring size
\* of the read pointer, and is no longer reserved; reservations are distinct.
RingInv ==
  /\ \A i \in 0 .. RingSize - 1 :
       ring[i] # Invalid =>
         /\ write_index <= ring[i].id /\ ring[i].id < ring_wptr
         /\ ring[i].id < ring_rptr + RingSize
         /\ ring[i].id % RingSize = i
         /\ ring[i].fault # "oversize"
         /\ \A p \in Producers : ppc[p] = "reserved" => slot[p] # ring[i].id
  /\ \A p \in Producers :
       ppc[p] = "reserved" =>
         /\ slot[p] \in Ids
         /\ write_index <= slot[p] /\ slot[p] < ring_wptr
         /\ \A q \in Producers : ppc[q] = "reserved" /\ slot[q] = slot[p] => q = p

IInv == TypeOK /\ OrderInv /\ BatchInv /\ ThreadInv /\ RingInv /\ FrameIntact

-----------------------------------------------------------------------------
(* The inductive invariant behind DepsSubmitted, BarrierBit,                   *)
(* CompletionAfterWork and CompletedOnce.                                       *)

\* The packets the host has written are told apart by their numbers, which are reserved no
\* more; what the ring holds is one of them; dependencies are completed by earlier ones.
PublishedInv ==
  /\ \A p, q \in published : p.id = q.id => p = q
  /\ \A p \in published :
       p.id < ring_wptr /\ \A r \in Producers : ppc[r] = "reserved" => slot[r] # p.id
  /\ \A i \in 0 .. RingSize - 1 : ring[i] # Invalid => ring[i] \in published
  /\ \A p \in published : \A d \in p.deps \cap Ids :
       d < p.id /\ \E q \in published : q.id = d /\ q.signal

\* Only signal-less packets are held back.
HeldInv ==
  pc \notin {"submit", "exited"} =>
    \A p \in published : p.signal /\ p.id < write_index => p.id < submitted

\* The GPU has started the commands of packet i, and has passed its completion.
Started(i) == i < gidx \/ (i = gidx /\ gphase # "start")
Passed(i) == i < gidx \/ (i = gidx /\ gphase = "rptr")

\* A signal is 1 until its packet is translated, and then until the one who has to
\* decrement it does.
SigInv ==
  /\ \A i \in Ids : sig[i] \in {0, 1}
  /\ \A i \in Ids : write_index <= i => sig[i] = 1
  /\ \A i \in gidx .. write_index - 1 :
       cmdbuf[i % FrameNum].signal => PlatformAtomics /\ (Passed(i) \/ sig[i] = 1)
  /\ signal_addr # None =>
       /\ ~PlatformAtomics
       /\ pc \in {"submit", "signal_wait", "exited"}
       /\ signal_addr = write_index - 1
       /\ sig[signal_addr] = 1

\* The GPU drains at the commands of packet r.
Drains(r) == r.type \in {"kernel", "and", "or"} /\ r.signal

\* Packet p may not start, or complete, before earlier kernels have finished.
Waits(p) == IF p.type = "kernel" THEN p.barrier ELSE p.type \in {"and", "or"} /\ p.signal

\* The kernels before packet i are finished, or will be before the GPU gets to it.
Quiet(i) ==
  \A q \in Kernels : q.id < i =>
    \/ q.id \in done
    \/ \E r \in published : Drains(r) /\ q.id <= r.id /\ r.id < i /\ ~Passed(r.id)

\* The commands of a packet the GPU has not retired are those of its type, and needs_barrier
\* leaves a barrier out only where it is not needed.
CommandInv ==
  /\ \A p \in published : p.id \in gidx .. write_index - 1 =>
       LET f == cmdbuf[p.id % FrameNum]
       IN /\ f.dispatch <=> p.type = "kernel"
          /\ p.type = "kernel" /\ p.signal => f.post
          /\ Waits(p) => f.pre \/ Quiet(p.id)
  /\ needs_barrier \/ Quiet(write_index)

\* Kernels are started in order; those the fence has passed are finished, and those before
\* a barrier packet whose signal is due.
WorkInv ==
  /\ \A i \in running \cup done : Started(i)
  /\ \A q \in Kernels : Started(q.id) => q.id \in running \cup done
  /\ \A q \in Kernels : q.id < sync_value => q.id \in done
  /\ \A p \in published :
       p.id = gidx /\ gphase = "signal" /\ p.type # "kernel" /\ Waits(p) => EarlierKernelsDone(p)

WInv == PublishedInv /\ HeldInv /\ SigInv /\ CommandInv /\ WorkInv /\ BarrierBit /\ CompletionAfterWork
=============================================================================
