------------------------ MODULE ComputeQueue_proofs ------------------------
(***************************************************************************)
(* Proofs about ComputeQueue for every ring size, command-buffer size,     *)
(* number of packets, set of host threads and choice of hardware options:  *)
(* first the two rings (IInv), then barriers, dependencies and completion  *)
(* (WInv).                                                                 *)
(***************************************************************************)
EXTENDS ComputeQueue, TLAPS

\* Quotient and remainder recompose the dividend.
LEMMA DivMod ==
  ASSUME NEW n \in Nat \ {0}, NEW a \in Nat
  PROVE  /\ a \div n \in Nat
         /\ a % n \in 0 .. n - 1
         /\ a = (n * (a \div n)) + (a % n)
  BY Z3

\* Zero is the only multiple of n strictly between -n and n.
LEMMA NoMultiple ==
  ASSUME NEW n \in Nat \ {0}, NEW k \in Int, n * k < n, n * k > -n
  PROVE  k = 0
<1>1. ASSUME k >= 1 PROVE FALSE
  <2>1. n * k >= n * 1 BY <1>1, Z3
  <2>. QED BY <2>1, Z3
<1>2. ASSUME k <= -1 PROVE FALSE
  <2>1. n * k <= n * (-1) BY <1>2, Z3
  <2>. QED BY <2>1, Z3
<1>. QED BY <1>1, <1>2, Z3

\* A quotient and a remainder are determined by the dividend.
LEMMA DivModUnique ==
  ASSUME NEW n \in Nat \ {0}, NEW q \in Int, NEW r \in 0 .. n - 1,
         NEW p \in Int, NEW s \in 0 .. n - 1, (n * q) + r = (n * p) + s
  PROVE  q = p /\ r = s
<1>1. n * (q - p) = (n * q) - (n * p) BY Z3
<1>2. n * (q - p) = s - r BY <1>1, Z3
<1>3. q - p \in Int BY Z3
<1>4. q - p = 0 BY <1>2, <1>3, NoMultiple, Z3
<1>. QED BY <1>4, Z3

\* The remainder of the successor.
LEMMA ModSucc ==
  ASSUME NEW n \in Nat \ {0}, NEW a \in Nat
  PROVE  (a + 1) % n = IF a % n = n - 1 THEN 0 ELSE (a % n) + 1
<1> DEFINE q == a \div n
           r == a % n
           p == (a + 1) \div n
           s == (a + 1) % n
<1>1. q \in Nat /\ r \in 0 .. n - 1 /\ a = (n * q) + r BY DivMod, Zenon
<1>2. p \in Nat /\ s \in 0 .. n - 1 /\ a + 1 = (n * p) + s
  <2>1. a + 1 \in Nat OBVIOUS
  <2>. QED BY <2>1, DivMod, Zenon
<1> HIDE DEF q, r, p, s
<1>3. CASE r = n - 1
  <2>1. n * (q + 1) = (n * q) + n BY <1>1, Z3
  <2>2. (n * (q + 1)) + 0 = (n * p) + s BY <2>1, <1>1, <1>2, <1>3, Z3
  <2>3. 0 = s BY <2>2, <1>1, <1>2, DivModUnique, Z3
  <2>. QED BY <2>3, <1>3 DEF r, s
<1>4. CASE r # n - 1
  <2>1. (n * q) + (r + 1) = (n * p) + s BY <1>1, <1>2
  <2>2. r + 1 \in 0 .. n - 1 BY <1>1, <1>4
  <2>3. r + 1 = s BY <2>1, <2>2, <1>1, <1>2, DivModUnique, Z3
  <2>. QED BY <2>3, <1>4 DEF r, s
<1>. QED BY <1>3, <1>4

\* Two numbers less than n apart with the same remainder are equal: within a window
\* of n packet numbers, slots and frames are not shared.
LEMMA ModUnique ==
  ASSUME NEW n \in Nat \ {0}, NEW a \in Nat, NEW b \in Nat,
         a % n = b % n, a <= b, b - a < n
  PROVE  a = b
<1>1. a \div n \in Nat /\ a = (n * (a \div n)) + (a % n) BY DivMod, Zenon
<1>2. b \div n \in Nat /\ b = (n * (b \div n)) + (b % n) BY DivMod, Zenon
<1>3. n * ((b \div n) - (a \div n)) = (n * (b \div n)) - (n * (a \div n)) BY <1>1, <1>2, Z3
<1>4. n * ((b \div n) - (a \div n)) = b - a BY <1>1, <1>2, <1>3
<1>5. (b \div n) - (a \div n) = 0 BY <1>1, <1>2, <1>4, NoMultiple, Z3
<1>. QED BY <1>1, <1>2, <1>5, Z3

\* A bound stays a bound when one of its summands grows.
LEMMA AddMonotone ==
  ASSUME NEW a \in Nat, NEW b \in Nat, NEW c \in Nat, NEW n \in Nat, a <= b
  PROVE  /\ n <= a + c => n <= b + c
         /\ n < a + c => n < b + c
  OBVIOUS


\* The counters are natural numbers.
LEMMA CountersAreNat ==
  ASSUME TypeOK
  PROVE  /\ ring_wptr \in Nat /\ ring_rptr \in Nat /\ write_index \in Nat
         /\ sync_point \in Nat /\ submitted \in Nat /\ sync_value \in Nat /\ gidx \in Nat
         /\ FrameNum \in Nat \ {0} /\ RingSize \in Nat \ {0} /\ MaxPackets \in Nat
  BY ConstantsAssumption DEF TypeOK, RingType, BatchType, DriverType, GpuType

\* A group of variables that a step leaves alone keeps its types.
LEMMA UnchangedTypes ==
  ASSUME TypeOK
  PROVE  /\ UNCHANGED hostvars => HostType'
         /\ UNCHANGED ringvars => RingType'
         /\ UNCHANGED loopvars => LoopType'
         /\ UNCHANGED batchvars => BatchType'
         /\ UNCHANGED drivervars => DriverType'
         /\ UNCHANGED gpuvars => GpuType'
         /\ UNCHANGED <<pc, error_code>> => ThreadType'
         /\ UNCHANGED cmdbuf => CmdbufType'
         /\ UNCHANGED sig => SigType'
<1>1. UNCHANGED hostvars => HostType'
  BY DEF TypeOK, HostType, hostvars
<1>2. UNCHANGED ringvars => RingType'
  BY DEF TypeOK, RingType, ringvars
<1>3. UNCHANGED loopvars => LoopType'
  BY DEF TypeOK, LoopType, loopvars
<1>4. UNCHANGED batchvars => BatchType'
  BY DEF TypeOK, BatchType, batchvars
<1>5. UNCHANGED drivervars => DriverType'
  BY DEF TypeOK, DriverType, drivervars
<1>6. UNCHANGED gpuvars => GpuType'
  BY DEF TypeOK, GpuType, gpuvars
<1>7. UNCHANGED <<pc, error_code>> => ThreadType'
  BY DEF TypeOK, ThreadType
<1>8. UNCHANGED cmdbuf => CmdbufType'
  BY DEF TypeOK, CmdbufType
<1>9. UNCHANGED sig => SigType'
  BY DEF TypeOK, SigType
<1>. QED BY <1>1, <1>2, <1>3, <1>4, <1>5, <1>6, <1>7, <1>8, <1>9

\* A packet has a number, which is natural, and Boolean attributes.
LEMMA PacketFields ==
  ASSUME NEW k \in Packet
  PROVE  /\ k.id \in Ids /\ k.id \in Nat
         /\ k.signal \in BOOLEAN /\ k.barrier \in BOOLEAN /\ k.fault \in Faults
  BY DEF Packet, Ids

\* What a slot of the ring holds.
LEMMA RingSlot ==
  ASSUME IInv, NEW i \in 0 .. RingSize - 1, ring[i] # Invalid
  PROVE  /\ ring[i] \in Packet /\ ring[i].id \in Nat
         /\ write_index <= ring[i].id /\ ring[i].id < ring_wptr
         /\ ring[i].id < ring_rptr + RingSize
         /\ ring[i].id % RingSize = i
         /\ ring[i].fault # "oversize"
         /\ \A p \in Producers : ppc[p] = "reserved" => slot[p] # ring[i].id
<1>1. ring[i] \in Packet
  BY DEF IInv, TypeOK, RingType
<1>2. ring[i].id \in Nat
  BY <1>1, PacketFields
<1>. QED BY <1>1, <1>2 DEF IInv, RingInv

\* The slot the thread looks at, when it holds a packet, holds packet write_index.
LEMMA CurrentPacket ==
  ASSUME IInv, Current # Invalid, write_index < ring_wptr
  PROVE  /\ Current \in Packet
         /\ Current.id = write_index
         /\ Current.fault # "oversize"
         /\ write_index % RingSize \in 0 .. RingSize - 1
         /\ write_index \in Ids
         /\ \A p \in Producers : ppc[p] = "reserved" => slot[p] # write_index
<1>0. /\ write_index \in Nat /\ RingSize \in Nat \ {0} /\ ring_rptr \in Nat
      /\ ring_rptr <= write_index
  BY CountersAreNat DEF IInv, OrderInv
<1>1. write_index % RingSize \in 0 .. RingSize - 1
  BY <1>0, DivMod
<1>2. /\ Current \in Packet /\ Current.id \in Nat
      /\ write_index <= Current.id /\ Current.id < ring_rptr + RingSize
      /\ Current.id % RingSize = write_index % RingSize
      /\ Current.fault # "oversize"
      /\ \A p \in Producers : ppc[p] = "reserved" => slot[p] # Current.id
  BY <1>1, RingSlot DEF Current
<1>3. Current.id - write_index < RingSize
  BY <1>0, <1>2
<1>4. Current.id = write_index
  BY <1>0, <1>2, <1>3, ModUnique
<1>. QED BY <1>1, <1>2, <1>4, PacketFields

\* The frame the GPU is at holds the commands of packet gidx.
LEMMA GpuFrameIntact ==
  ASSUME IInv, gidx < submitted
  PROVE  GpuFrame \in Frame /\ GpuFrame.id = gidx /\ gidx \in Ids
<1>0. /\ gidx \in Nat /\ write_index \in Nat /\ FrameNum \in Nat \ {0} /\ submitted \in Nat
      /\ sync_value \in Nat
  BY CountersAreNat DEF IInv
<1>1. gidx \in sync_value .. write_index - 1
  BY <1>0 DEF IInv, OrderInv
<1>2. GpuFrame.id = gidx
  BY <1>1 DEF IInv, FrameIntact, GpuFrame
<1>3. gidx % FrameNum \in 0 .. FrameNum - 1
  BY <1>0, DivMod
<1>4. GpuFrame \in Frame \cup {NoFrame}
  BY <1>3 DEF IInv, TypeOK, CmdbufType, GpuFrame
<1>5. GpuFrame # NoFrame
  BY <1>0, <1>2, ConstantsAssumption DEF NoFrame
<1>. QED BY <1>2, <1>4, <1>5 DEF Frame

-----------------------------------------------------------------------------
(* Steps that move no packet: the loop of the thread, the doorbell, the destructor *)
(* and the tests of Process.                                                       *)

\* A step that leaves the ring, the counters, the command buffer and the GPU alone
\* preserves the invariant if it respects the control states of the thread.
LEMMA ControlStep ==
  ASSUME IInv, HostType', LoopType', BatchType', ThreadType', SigType', ThreadInv',
         UNCHANGED <<ringvars, write_index, sync_point, cmdbuf, drivervars, gpuvars>>,
         pc \in {"submit", "exited"} => pc' \in {"submit", "exited"},
         pc' = "signal_wait" => pc = "signal_wait",
         \A p \in Producers : ppc'[p] = "reserved" => ppc[p] = "reserved" /\ slot'[p] = slot[p]
  PROVE  IInv'
<1>0. TypeOK'
  BY UnchangedTypes DEF IInv, TypeOK
<1>1. OrderInv'
  BY DEF IInv, OrderInv, ringvars, drivervars, gpuvars
<1>2. BatchInv'
  BY DEF IInv, BatchInv
<1>4. RingInv'
  BY DEF IInv, RingInv, ringvars, gpuvars
<1>5. FrameIntact'
  BY DEF IInv, FrameIntact, gpuvars
<1>. QED BY <1>0, <1>1, <1>2, <1>4, <1>5 DEF IInv

\* RingDoorbell changes nothing but where the host thread and the waiting thread are.
LEMMA DoorbellStep ==
  ASSUME IInv, NEW p \in Producers, RingDoorbellLock(p) \/ RingDoorbellNotify(p)
  PROVE  IInv'
<1>1. /\ UNCHANGED <<ringvars, loopvars, batchvars, drivervars, gpuvars, error_code, cmdbuf, sig>>
      /\ pc' = pc \/ (pc = "waiting" /\ pc' = "top")
      /\ UNCHANGED <<hpc, thread_stop>>
      /\ \/ ppc' = [ppc EXCEPT ![p] = "notify"] /\ slot' = slot
         \/ ppc' = [ppc EXCEPT ![p] = "idle"] /\ slot' = [slot EXCEPT ![p] = None]
  BY DEF RingDoorbellLock, RingDoorbellNotify, NotifyOne
<1>2. HostType'
  BY <1>1 DEF IInv, TypeOK, HostType
<1>3. ThreadType'
  BY <1>1 DEF IInv, TypeOK, ThreadType, ThreadStates
<1>4. LoopType' /\ BatchType' /\ SigType'
  BY <1>1, UnchangedTypes DEF IInv
<1>5. ThreadInv'
  BY <1>1 DEF IInv, ThreadInv, Current, ringvars, batchvars, gpuvars
<1>6. \A q \in Producers : ppc'[q] = "reserved" => ppc[q] = "reserved" /\ slot'[q] = slot[q]
  BY <1>1 DEF IInv, TypeOK, HostType
<1>7. UNCHANGED <<write_index, sync_point>>
  BY <1>1 DEF batchvars
<1>. QED BY <1>1, <1>2, <1>3, <1>4, <1>5, <1>6, <1>7, ControlStep

\* The destructor likewise.
LEMMA DestroyStep ==
  ASSUME IInv, Destroy
  PROVE  IInv'
<1>1. /\ UNCHANGED <<ringvars, loopvars, batchvars, drivervars, gpuvars, error_code, cmdbuf, sig>>
      /\ pc' = pc \/ (pc = "waiting" /\ pc' = "top")
      /\ UNCHANGED <<ppc, slot>>
      /\ hpc' \in {"notify", "join", "destroyed"}
      /\ thread_stop' \in {thread_stop, TRUE}
  BY Zenon DEF Destroy, DestroyStop, DestroyNotify, DestroyJoin, NotifyOne
<1>2. HostType'
  BY <1>1, Zenon DEF IInv, TypeOK, HostType
<1>3. ThreadType'
  BY <1>1 DEF IInv, TypeOK, ThreadType, ThreadStates
<1>4. LoopType' /\ BatchType' /\ SigType'
  BY <1>1, UnchangedTypes DEF IInv
<1>5. ThreadInv'
  BY <1>1 DEF IInv, ThreadInv, Current, ringvars, batchvars, gpuvars
<1>6. UNCHANGED <<write_index, sync_point>>
  BY <1>1 DEF batchvars
<1>. QED BY <1>1, <1>2, <1>3, <1>4, <1>5, <1>6, ControlStep

\* Completing a signal elsewhere touches no other state of the queue.
LEMMA CompleteExtStep ==
  ASSUME IInv, NEW s \in ExtSignals, CompleteExt(s)
  PROVE  IInv'
<1>1. /\ UNCHANGED <<hostvars, ringvars, loopvars, batchvars, drivervars, gpuvars>>
      /\ UNCHANGED <<pc, error_code, cmdbuf>>
      /\ sig' = [sig EXCEPT ![s] = 0]
  BY DEF CompleteExt
<1>2. SigType'
  BY <1>1 DEF IInv, TypeOK, SigType, SignalIds
<1>3. HostType' /\ LoopType' /\ BatchType' /\ ThreadType'
  BY <1>1, UnchangedTypes DEF IInv
<1>4. ThreadInv'
  BY <1>1 DEF IInv, ThreadInv, Current, ringvars, batchvars, gpuvars
<1>5. UNCHANGED <<write_index, sync_point, ppc, slot>>
  BY <1>1 DEF batchvars, hostvars
<1>. QED BY <1>1, <1>2, <1>3, <1>4, <1>5, ControlStep

\* The loop of AqlToPm4Thread.
LEMMA LoopStep ==
  ASSUME IInv, Loop
  PROVE  IInv'
<1>1. /\ UNCHANGED <<hostvars, ringvars, batchvars, drivervars, gpuvars, error_code, cmdbuf, sig>>
      /\ pc \in {"top", "spin", "lock", "locked", "waiting"}
      /\ pc' \in {"top", "spin", "lock", "locked", "waiting", "process", "exited"}
      /\ sleep' \in {sleep, TRUE, FALSE}
      /\ current_position' \in {current_position, write_index}
      /\ wptr_seen' \in {wptr_seen, ring_wptr}
  BY Zenon DEF Loop, LoopPacket, LoopMoved, LoopPoll, LoopTimeout, SpinTest, LockRead,
         LockedTest, SpuriousWakeup, loopvars
<1>2. LoopType'
  BY <1>1, Zenon DEF IInv, TypeOK, LoopType, RingType, BatchType
<1>3. ThreadType'
  BY <1>1 DEF IInv, TypeOK, ThreadType, ThreadStates
<1>4. HostType' /\ BatchType' /\ SigType'
  BY <1>1, UnchangedTypes DEF IInv
<1>5. ThreadInv'
  BY <1>1 DEF IInv, ThreadInv, batchvars, gpuvars
<1>6. UNCHANGED <<write_index, sync_point, ppc, slot>>
  BY <1>1 DEF batchvars, hostvars
<1>. QED BY <1>1, <1>2, <1>3, <1>4, <1>5, <1>6, ControlStep

\* The tests and waits of Process, and the errors found before anything is written.
LEMMA ProcessControlStep ==
  ASSUME IInv, ProcessTest \/ FrameCheck \/ FrameWait \/ CpuWaitFails \/ SwitchInvalid
  PROVE  IInv'
<1>1. /\ UNCHANGED <<hostvars, ringvars, batchvars, drivervars, gpuvars, cmdbuf, sig>>
      /\ UNCHANGED <<current_position, wptr_seen>> /\ sleep' \in {sleep, FALSE}
      /\ pc \in {"process", "slot", "slot_wait", "signal_wait", "switch"}
      /\ pc' \in {"slot", "spin", "slot_wait", "switch", "exited"}
  BY Zenon DEF ProcessTest, FrameCheck, FrameWait, CpuWaitFails, SwitchInvalid, HandleError, loopvars
<1>2. LoopType'
  BY <1>1, Zenon DEF IInv, TypeOK, LoopType
<1>3. error_code' \in Int
  <2>1. CASE ProcessTest \/ FrameCheck \/ FrameWait
    BY <2>1 DEF ProcessTest, FrameCheck, FrameWait, IInv, TypeOK, ThreadType
  <2>2. CASE CpuWaitFails
    BY <2>2 DEF CpuWaitFails, HandleError, ErrorValue
  <2>3. CASE SwitchInvalid
    <3>1. Current \in Packet
      BY <2>3, CurrentPacket DEF SwitchInvalid, IInv, ThreadInv
    <3>2. Current.fault \in Faults
      BY <3>1, PacketFields
    <3>. QED BY <2>3, <3>2 DEF SwitchInvalid, HandleError, ErrorValue, Faults
  <2>. QED BY <2>1, <2>2, <2>3
<1>4. ThreadType'
  BY <1>1, <1>3 DEF ThreadType, ThreadStates
<1>5. HostType' /\ BatchType' /\ SigType'
  BY <1>1, UnchangedTypes DEF IInv
<1>6. /\ UNCHANGED <<write_index, sync_point, ppc, slot, sync_value, ring_wptr, ring, signal_addr>>
      /\ Current' = Current
  BY <1>1 DEF batchvars, hostvars, gpuvars, ringvars, Current
<1>7. write_index \in Nat /\ sync_value \in Nat /\ FrameNum \in Nat \ {0}
  BY CountersAreNat DEF IInv
<1>8. ThreadInv'
  <2>1. CASE ProcessTest
    <3>1. Current = Invalid => IsInvalidPacket
      BY DEF IsInvalidPacket, Invalid
    <3>2. /\ pc' \in {"slot", "spin"}
          /\ pc' = "slot" => write_index < ring_wptr /\ Current # Invalid
      BY <2>1, <3>1 DEF ProcessTest
    <3>. QED BY <1>6, <3>2 DEF IInv, ThreadInv
  <2>2. CASE FrameCheck
    <3>1. \/ pc' = "slot_wait" /\ write_index >= FrameNum
          \/ pc' = "switch" /\ write_index < sync_value + FrameNum
      BY <1>7, <2>2 DEF FrameCheck, FrameBusy
    <3>2. pc = "slot"
      BY <2>2 DEF FrameCheck
    <3>. QED BY <1>6, <3>1, <3>2 DEF IInv, ThreadInv
  <2>3. CASE FrameWait
    <3>1. pc = "slot_wait" /\ pc' = "switch" /\ write_index < sync_value + FrameNum
      BY <1>7, <2>3 DEF FrameWait, WaitValue
    <3>. QED BY <1>6, <3>1 DEF IInv, ThreadInv
  <2>4. CASE CpuWaitFails \/ SwitchInvalid
    <3>1. pc' = "exited"
      BY <2>4 DEF CpuWaitFails, SwitchInvalid, HandleError
    <3>. QED BY <1>6, <3>1 DEF IInv, ThreadInv
  <2>. QED BY <2>1, <2>2, <2>3, <2>4
<1>9. pc' # "signal_wait" /\ pc \notin {"submit", "exited"}
  BY <1>1
<1>. QED BY <1>1, <1>2, <1>4, <1>5, <1>6, <1>8, <1>9, ControlStep

-----------------------------------------------------------------------------
(* Translating a packet: SwitchKernel, SwitchBarrier and SwitchVendor. *)

\* Writing the commands of packet write_index and releasing its slot, with all that a
\* translation may change besides.
LEMMA EmitStep ==
  ASSUME IInv, pc = "switch",
         NEW f \in Frame, f.id = Current.id, Emit(f),
         UNCHANGED <<ring_wptr, published, sync_point, hostvars, loopvars, drivervars,
                     gpuvars, error_code>>,
         needs_barrier' \in BOOLEAN, ready_to_submit' \in BOOLEAN,
         signal_addr' \in Ids \cup {None}, SigType',
         pc' = "submit" \/ (pc' = "process" /\ (write_index + 1) % FrameNum # 0)
  PROVE  IInv'
<1>0. /\ write_index \in Nat /\ sync_point \in Nat /\ sync_value \in Nat /\ ring_wptr \in Nat
      /\ ring_rptr \in Nat /\ FrameNum \in Nat \ {0} /\ RingSize \in Nat \ {0}
      /\ MaxPackets \in Nat /\ submitted \in Nat /\ gidx \in Nat
  BY CountersAreNat DEF IInv
<1>1. /\ Current # Invalid /\ write_index < ring_wptr /\ write_index < sync_value + FrameNum
  BY DEF IInv, ThreadInv
<1>2. /\ Current.id = write_index
      /\ write_index % RingSize \in 0 .. RingSize - 1
      /\ \A p \in Producers : ppc[p] = "reserved" => slot[p] # write_index
  BY <1>1, CurrentPacket
<1>3. /\ write_index' = write_index + 1
      /\ ring' = [ring EXCEPT ![write_index % RingSize] = Invalid]
      /\ cmdbuf' = [cmdbuf EXCEPT ![write_index % FrameNum] = f]
  BY DEF Emit
<1>4. /\ UNCHANGED <<ring_rptr, submitted, fences, sync_value, gidx, gphase, ppc, slot>>
  BY DEF drivervars, gpuvars, hostvars
<1>5. write_index % FrameNum \in 0 .. FrameNum - 1
  BY <1>0, DivMod
<1>6. TypeOK'
  <2>1. RingType'
    BY <1>2, <1>3 DEF IInv, TypeOK, RingType
  <2>2. CmdbufType'
    BY <1>3, <1>5 DEF IInv, TypeOK, CmdbufType
  <2>3. ring_wptr \in 0 .. MaxPackets /\ sync_point \in 0 .. MaxPackets
    BY DEF IInv, TypeOK, RingType, BatchType
  <2>4. write_index' \in 0 .. MaxPackets
    BY <1>0, <1>1, <1>3, <2>3
  <2>5. BatchType'
    BY <2>3, <2>4 DEF BatchType
  <2>6. ThreadType'
    BY DEF IInv, TypeOK, ThreadType, ThreadStates
  <2>7. HostType' /\ LoopType' /\ DriverType' /\ GpuType'
    BY UnchangedTypes DEF IInv
  <2>. QED BY <2>1, <2>2, <2>5, <2>6, <2>7 DEF TypeOK
<1>7. OrderInv'
  BY <1>0, <1>1, <1>3, <1>4 DEF IInv, OrderInv
<1>8. BatchInv'
  <2> DEFINE pos == (sync_point % FrameNum) + (write_index - sync_point)
  <2>1. sync_point % FrameNum \in 0 .. FrameNum - 1
    BY <1>0, DivMod
  <2>2. pos < FrameNum /\ write_index % FrameNum = pos
    BY DEF IInv, BatchInv
  <2>3. (write_index + 1) % FrameNum = IF write_index % FrameNum = FrameNum - 1 THEN 0 ELSE pos + 1
    BY <1>0, <2>2, ModSucc, Zenon
  <2>4. sync_point <= write_index
    BY <1>0 DEF IInv, OrderInv
  <2>5. pos \in Nat
    BY <1>0, <2>1, <2>4
  <2>6. pos' = pos + 1
    BY <1>0, <1>3, <2>1
  <2> HIDE DEF pos
  <2>7. /\ pos' <= FrameNum
        /\ pos' < FrameNum => write_index' % FrameNum = pos'
        /\ pc' \notin {"submit", "exited"} => pos' < FrameNum
    BY <1>0, <1>3, <2>2, <2>3, <2>5, <2>6
  <2>8. pc' # "signal_wait"
    OBVIOUS
  <2>. QED BY <2>7, <2>8 DEF BatchInv, pos
<1>9. ThreadInv'
  BY <1>0, <1>1, <1>3, <1>4 DEF ThreadInv
<1>10. RingInv'
  <2>1. ASSUME NEW i \in 0 .. RingSize - 1, ring'[i] # Invalid
        PROVE  /\ write_index' <= ring'[i].id /\ ring'[i].id < ring_wptr'
               /\ ring'[i].id < ring_rptr' + RingSize
               /\ ring'[i].id % RingSize = i
               /\ ring'[i].fault # "oversize"
               /\ \A p \in Producers : ppc'[p] = "reserved" => slot'[p] # ring'[i].id
    <3>1. i # write_index % RingSize /\ ring'[i] = ring[i]
      BY <1>2, <1>3, <2>1 DEF IInv, TypeOK, RingType
    <3>2. /\ ring[i].id \in Nat /\ write_index <= ring[i].id /\ ring[i].id < ring_wptr
          /\ ring[i].id < ring_rptr + RingSize
          /\ ring[i].id % RingSize = i
          /\ ring[i].fault # "oversize"
          /\ \A p \in Producers : ppc[p] = "reserved" => slot[p] # ring[i].id
      BY <2>1, <3>1, RingSlot
    <3>3. ring[i].id # write_index
      BY <3>1, <3>2
    <3>4. write_index + 1 <= ring[i].id
      BY <1>0, <3>2, <3>3
    <3>. QED BY <1>3, <1>4, <3>1, <3>2, <3>4
  <2>2. ASSUME NEW p \in Producers, ppc'[p] = "reserved"
        PROVE  /\ slot'[p] \in Ids
               /\ write_index' <= slot'[p] /\ slot'[p] < ring_wptr'
               /\ \A q \in Producers : ppc'[q] = "reserved" /\ slot'[q] = slot'[p] => q = p
    <3>1. slot[p] # write_index
      BY <1>2, <1>4, <2>2
    <3>2. /\ slot[p] \in Ids
          /\ write_index <= slot[p] /\ slot[p] < ring_wptr
          /\ \A q \in Producers : ppc[q] = "reserved" /\ slot[q] = slot[p] => q = p
      BY <1>4, <2>2 DEF IInv, RingInv
    <3>3. write_index + 1 <= slot[p]
      BY <1>0, <3>1, <3>2 DEF Ids
    <3>. QED BY <1>3, <1>4, <3>2, <3>3
  <2>. QED BY <2>1, <2>2 DEF RingInv
<1>11. FrameIntact'
  <2> SUFFICES ASSUME NEW i \in sync_value .. write_index
               PROVE  cmdbuf'[i % FrameNum].id = i
    BY <1>0, <1>3, <1>4 DEF FrameIntact
  <2>0. i \in Nat /\ sync_value <= i /\ i <= write_index
    BY <1>0
  <2>1. i % FrameNum \in 0 .. FrameNum - 1
    BY <1>0, <2>0, DivMod
  <2>2. CASE i = write_index
    BY <1>2, <1>3, <1>5, <2>2 DEF IInv, TypeOK, CmdbufType
  <2>3. CASE i # write_index
    <3>1. i < write_index /\ write_index - i < FrameNum /\ i \in sync_value .. write_index - 1
      BY <1>0, <1>1, <2>0, <2>3
    <3>2. i % FrameNum # write_index % FrameNum
      BY <1>0, <2>0, <3>1, ModUnique
    <3>3. cmdbuf[i % FrameNum].id = i
      BY <3>1 DEF IInv, FrameIntact
    <3>. QED BY <1>3, <1>5, <2>1, <3>2, <3>3 DEF IInv, TypeOK, CmdbufType
  <2>. QED BY <2>2, <2>3
<1>. QED BY <1>6, <1>7, <1>8, <1>9, <1>10, <1>11 DEF IInv

\* The packet being translated, when Switch finds one.
LEMMA SwitchPacket ==
  ASSUME IInv, pc = "switch"
  PROVE  /\ Current \in Packet /\ Current.id = write_index /\ Current.id \in Ids
         /\ Current.signal \in BOOLEAN /\ Current.barrier \in BOOLEAN
         /\ Current.fault # "oversize"
         /\ needs_barrier \in BOOLEAN /\ ready_to_submit \in BOOLEAN
         /\ SignalByCpu(Current) \in Ids \cup {None}
<1>1. Current # Invalid /\ write_index < ring_wptr
  BY DEF IInv, ThreadInv
<1>2. /\ Current \in Packet /\ Current.id = write_index /\ Current.fault # "oversize"
  BY <1>1, CurrentPacket
<1>3. Current.id \in Ids /\ Current.signal \in BOOLEAN /\ Current.barrier \in BOOLEAN
  BY <1>2, PacketFields
<1>4. needs_barrier \in BOOLEAN /\ ready_to_submit \in BOOLEAN
  BY DEF IInv, TypeOK, BatchType
<1>5. SignalByCpu(Current) \in Ids \cup {None}
  BY <1>3 DEF IInv, TypeOK, BatchType, SignalByCpu
<1>. QED BY <1>2, <1>3, <1>4, <1>5

\* KernelDispatchAqlToPm4 and the decision to merge.
LEMMA SwitchKernelStep ==
  ASSUME IInv, SwitchKernel
  PROVE  IInv'
<1>1. /\ pc = "switch" /\ Emit(KernelFrame(Current))
      /\ needs_barrier' = NeedsBarrierAfter(Current)
      /\ signal_addr' = SignalByCpu(Current)
      /\ ready_to_submit' = (ready_to_submit \/ ~KeepMerging(Current))
      /\ pc' = IF ready_to_submit' THEN "submit" ELSE "process"
      /\ UNCHANGED <<ring_wptr, published, sync_point, hostvars, loopvars, drivervars,
                     gpuvars, error_code, sig>>
  BY DEF SwitchKernel
<1>2. /\ Current.id \in Ids /\ Current.signal \in BOOLEAN /\ Current.barrier \in BOOLEAN
      /\ needs_barrier \in BOOLEAN /\ ready_to_submit \in BOOLEAN
      /\ SignalByCpu(Current) \in Ids \cup {None}
  BY <1>1, SwitchPacket
<1>3. KernelFrame(Current) \in Frame /\ KernelFrame(Current).id = Current.id
  BY <1>2, ConstantsAssumption DEF KernelFrame, Frame, SignalByGpu
<1>4. needs_barrier' \in BOOLEAN /\ ready_to_submit' \in BOOLEAN
  BY <1>1, <1>2, Zenon DEF NeedsBarrierAfter
<1>5. pc' = "submit" \/ (pc' = "process" /\ (write_index + 1) % FrameNum # 0)
  BY <1>1, Zenon DEF KeepMerging
<1>6. SigType'
  BY <1>1, UnchangedTypes DEF IInv
<1>. QED BY <1>1, <1>2, <1>3, <1>4, <1>5, <1>6, EmitStep

\* BarrierGenericAqlToPm4.
LEMMA SwitchBarrierStep ==
  ASSUME IInv, SwitchBarrier
  PROVE  IInv'
<1>1. /\ pc = "switch" /\ Emit(BarrierFrame(Current))
      /\ needs_barrier' = NeedsBarrierAfter(Current)
      /\ signal_addr' = SignalByCpu(Current)
      /\ ready_to_submit' = TRUE
      /\ pc' = "submit"
      /\ UNCHANGED <<ring_wptr, published, sync_point, hostvars, loopvars, drivervars,
                     gpuvars, error_code, sig>>
  BY DEF SwitchBarrier
<1>2. /\ Current.id \in Ids /\ Current.signal \in BOOLEAN /\ Current.barrier \in BOOLEAN
      /\ needs_barrier \in BOOLEAN /\ ready_to_submit \in BOOLEAN
      /\ SignalByCpu(Current) \in Ids \cup {None}
  BY <1>1, SwitchPacket
<1>3. BarrierFrame(Current) \in Frame /\ BarrierFrame(Current).id = Current.id
  BY <1>2, ConstantsAssumption DEF BarrierFrame, Frame, SignalByGpu
<1>4. needs_barrier' \in BOOLEAN /\ ready_to_submit' \in BOOLEAN
  BY <1>1, <1>2, Zenon DEF NeedsBarrierAfter
<1>5. SigType'
  BY <1>1, UnchangedTypes DEF IInv
<1>. QED BY <1>1, <1>2, <1>3, <1>4, <1>5, EmitStep

\* VendorSpecificAqlToPm4.
LEMMA SwitchVendorStep ==
  ASSUME IInv, SwitchVendor
  PROVE  IInv'
<1>1. /\ pc = "switch" /\ Emit(VendorFrame(Current))
      /\ signal_addr' \in {SignalByCpu(Current), signal_addr}
      /\ sig' = VendorSignal(Current)
      /\ ready_to_submit' = TRUE
      /\ pc' = "submit"
      /\ UNCHANGED <<ring_wptr, published, sync_point, needs_barrier, hostvars, loopvars,
                     drivervars, gpuvars, error_code>>
  BY DEF SwitchVendor
<1>2. /\ Current.id \in Ids /\ Current.signal \in BOOLEAN /\ Current.barrier \in BOOLEAN
      /\ needs_barrier \in BOOLEAN /\ ready_to_submit \in BOOLEAN
      /\ SignalByCpu(Current) \in Ids \cup {None}
  BY <1>1, SwitchPacket
<1>3. VendorFrame(Current) \in Frame /\ VendorFrame(Current).id = Current.id
  BY <1>2, ConstantsAssumption DEF VendorFrame, Frame, SignalByGpu
<1>4. signal_addr' \in Ids \cup {None}
  BY <1>1, <1>2 DEF IInv, TypeOK, BatchType
<1>5. SigType'
  <2>1. sig \in [SignalIds -> Int] /\ Current.id \in SignalIds
    BY <1>2 DEF IInv, TypeOK, SigType, SignalIds
  <2>. QED BY <1>1, <2>1 DEF VendorSignal, SigType
<1>6. needs_barrier' \in BOOLEAN /\ ready_to_submit' \in BOOLEAN
  BY <1>1, <1>2, Zenon
<1>. QED BY <1>1, <1>3, <1>4, <1>5, <1>6, EmitStep

\* When every packet fits in its frame the overflow test never fires.
LEMMA NoOversize ==
  ASSUME IInv, SwitchKernelOversize \/ SwitchVendorOversize
  PROVE  FALSE
<1>1. pc = "switch" /\ Current.fault = "oversize"
  BY DEF SwitchKernelOversize, SwitchVendorOversize
<1>. QED BY <1>1, SwitchPacket

-----------------------------------------------------------------------------
(* Submitting an IB and waiting for it. *)

\* Submit, whether the driver takes the IB or not.
LEMMA SubmitStep ==
  ASSUME IInv, Submit \/ SubmitFails
  PROVE  IInv'
<1>1. /\ pc = "submit" /\ pc' \in {"signal_wait", "process", "exited"}
      /\ submitted' \in {submitted, write_index}
      /\ pc' = "signal_wait" => signal_addr # None
      /\ UNCHANGED <<hostvars, ringvars, loopvars, gpuvars, cmdbuf, sig>>
      /\ UNCHANGED <<write_index, needs_barrier, signal_addr>>
      /\ ready_to_submit' \in {ready_to_submit, FALSE}
      /\ error_code' \in {error_code, -1}
      /\ \/ pc' = "exited" /\ UNCHANGED <<sync_point, fences>>
         \/ submitted' = write_index /\ sync_point' = write_index
            /\ fences' = fences \cup {write_index}
  BY Zenon DEF Submit, SubmitFails, HandleError, ErrorValue, batchvars
<1>2. /\ write_index \in 0 .. MaxPackets /\ sync_point \in 0 .. MaxPackets
      /\ submitted \in 0 .. MaxPackets /\ fences \subseteq 0 .. MaxPackets
      /\ FrameNum \in Nat \ {0} /\ MaxPackets \in Nat /\ sync_value \in Nat
      /\ ring_wptr \in Nat /\ gidx \in Nat
  BY CountersAreNat DEF IInv, TypeOK, BatchType, DriverType
<1>3. TypeOK'
  <2>1. BatchType'
    BY <1>1, <1>2, Zenon DEF IInv, TypeOK, BatchType
  <2>2. DriverType'
    BY <1>1, <1>2, Zenon DEF DriverType
  <2>3. ThreadType'
    BY <1>1 DEF IInv, TypeOK, ThreadType, ThreadStates
  <2>4. HostType' /\ RingType' /\ LoopType' /\ GpuType' /\ CmdbufType' /\ SigType'
    BY <1>1, UnchangedTypes DEF IInv
  <2>. QED BY <2>1, <2>2, <2>3, <2>4 DEF TypeOK
<1>4. UNCHANGED <<ring, ring_wptr, ring_rptr, sync_value, gidx, gphase, ppc, slot>>
  BY <1>1 DEF hostvars, ringvars, gpuvars
<1>5. OrderInv'
  <2>1. CASE pc' = "exited" /\ UNCHANGED <<sync_point, fences>>
    BY <1>1, <1>2, <1>4, <2>1 DEF IInv, OrderInv
  <2>2. CASE /\ submitted' = write_index /\ sync_point' = write_index
             /\ fences' = fences \cup {write_index}
    BY <1>1, <1>2, <1>4, <2>2 DEF IInv, OrderInv
  <2>. QED BY <1>1, <2>1, <2>2
<1>6. BatchInv'
  <2>1. write_index % FrameNum \in 0 .. FrameNum - 1
    BY <1>2, DivMod
  <2>2. CASE pc' = "exited" /\ UNCHANGED <<sync_point, fences>>
    BY <1>1, <2>2 DEF IInv, BatchInv
  <2>3. CASE sync_point' = write_index
    BY <1>1, <1>2, <2>1, <2>3 DEF BatchInv
  <2>. QED BY <1>1, <2>2, <2>3
<1>7. ThreadInv'
  BY <1>1, <1>4 DEF IInv, ThreadInv
<1>8. RingInv'
  BY <1>1, <1>4 DEF IInv, RingInv
<1>9. FrameIntact'
  BY <1>1, <1>4 DEF IInv, FrameIntact
<1>. QED BY <1>3, <1>5, <1>6, <1>7, <1>8, <1>9 DEF IInv

\* Without platform atomics: the wait for the IB and the decrement of the signal.
LEMMA SignalWaitStep ==
  ASSUME IInv, SignalWait
  PROVE  IInv'
<1>1. /\ UNCHANGED <<hostvars, ringvars, loopvars, drivervars, gpuvars, error_code, cmdbuf>>
      /\ UNCHANGED <<write_index, sync_point, needs_barrier>>
      /\ pc = "signal_wait" /\ pc' = "process"
      /\ sig' = [sig EXCEPT ![signal_addr] = @ - 1]
      /\ signal_addr' = None /\ ready_to_submit' = FALSE
  BY DEF SignalWait
<1>2. SigType'
  <2>1. sig \in [SignalIds -> Int] /\ signal_addr \in SignalIds
    BY <1>1 DEF IInv, TypeOK, SigType, BatchType, ThreadInv, SignalIds
  <2>. QED BY <1>1, <2>1 DEF SigType
<1>3. BatchType'
  BY <1>1, Zenon DEF IInv, TypeOK, BatchType
<1>4. ThreadType'
  BY <1>1 DEF IInv, TypeOK, ThreadType, ThreadStates
<1>5. HostType' /\ LoopType'
  BY <1>1, UnchangedTypes DEF IInv
<1>6. ThreadInv'
  BY <1>1 DEF IInv, ThreadInv, gpuvars
<1>7. UNCHANGED <<ppc, slot>> /\ pc \notin {"submit", "exited"} /\ pc' # "signal_wait"
  BY <1>1 DEF hostvars
<1>. QED BY <1>1, <1>2, <1>3, <1>4, <1>5, <1>6, <1>7, ControlStep

-----------------------------------------------------------------------------
(* Host threads reserve and publish packets. *)

\* A host thread takes the next packet number.
LEMMA ReserveStep ==
  ASSUME IInv, NEW p \in Producers, Reserve(p)
  PROVE  IInv'
<1>0. /\ ring_wptr \in Nat /\ write_index \in Nat /\ write_index <= ring_wptr
      /\ MaxPackets \in Nat /\ sync_value \in Nat /\ FrameNum \in Nat /\ RingSize \in Nat \ {0}
  BY CountersAreNat DEF IInv, OrderInv
<1>1. /\ ring_wptr < MaxPackets /\ ring_wptr' = ring_wptr + 1
      /\ slot' = [slot EXCEPT ![p] = ring_wptr] /\ ppc' = [ppc EXCEPT ![p] = "reserved"]
      /\ UNCHANGED <<ring, published, hpc, thread_stop, loopvars, batchvars, drivervars,
                     gpuvars, pc, error_code, cmdbuf, sig>>
  BY DEF Reserve
<1>2. ring_wptr \in Ids /\ ring_wptr' \in 0 .. MaxPackets
  BY <1>0, <1>1 DEF Ids
<1>3. UNCHANGED <<ring_rptr, write_index, sync_point, submitted, fences, sync_value, gidx,
                  gphase, signal_addr>>
  BY <1>1 DEF batchvars, drivervars, gpuvars
<1>4. TypeOK'
  <2>1. HostType'
    BY <1>1, <1>2 DEF IInv, TypeOK, HostType
  <2>2. RingType'
    BY <1>1, <1>2 DEF IInv, TypeOK, RingType
  <2>3. LoopType' /\ BatchType' /\ DriverType' /\ GpuType' /\ ThreadType' /\ CmdbufType' /\ SigType'
    BY <1>1, UnchangedTypes DEF IInv
  <2>. QED BY <2>1, <2>2, <2>3 DEF TypeOK
<1>5. OrderInv'
  BY <1>0, <1>1, <1>3 DEF IInv, OrderInv
<1>6. BatchInv'
  BY <1>1, <1>3 DEF IInv, BatchInv
<1>7. ThreadInv'
  BY <1>0, <1>1, <1>3 DEF IInv, ThreadInv, Current
<1>8. RingInv'
  <2>1. \A r \in Producers :
          \/ r = p /\ slot'[r] = ring_wptr
          \/ r # p /\ slot'[r] = slot[r] /\ ppc'[r] = ppc[r]
    BY <1>1 DEF IInv, TypeOK, HostType
  <2>2. \A r \in Producers : r # p /\ ppc[r] = "reserved" =>
          slot[r] \in Ids /\ write_index <= slot[r] /\ slot[r] < ring_wptr
    BY DEF IInv, RingInv
  <2>3. ASSUME NEW q \in Producers, ppc'[q] = "reserved"
        PROVE  /\ slot'[q] \in Ids
               /\ write_index <= slot'[q] /\ slot'[q] < ring_wptr'
               /\ \A r \in Producers : ppc'[r] = "reserved" /\ slot'[r] = slot'[q] => r = q
    <3>1. /\ slot'[q] \in Ids
          /\ write_index <= slot'[q] /\ slot'[q] < ring_wptr'
      BY <1>0, <1>1, <1>2, <2>1, <2>2, <2>3 DEF Ids
    <3>2. \A r \in Producers : r # p /\ ppc[r] = "reserved" => slot[r] # ring_wptr
      BY <1>0, <2>2 DEF Ids
    <3>3. \A r, s \in Producers :
            ppc[r] = "reserved" /\ ppc[s] = "reserved" /\ slot[r] = slot[s] => r = s
      BY DEF IInv, RingInv
    <3>4. \A r \in Producers : ppc'[r] = "reserved" /\ slot'[r] = slot'[q] => r = q
      BY <2>1, <2>3, <3>2, <3>3, Zenon
    <3>. QED BY <3>1, <3>4
  <2>4. ASSUME NEW i \in 0 .. RingSize - 1, ring[i] # Invalid
        PROVE  /\ write_index <= ring[i].id /\ ring[i].id < ring_wptr'
               /\ ring[i].id < ring_rptr + RingSize
               /\ ring[i].id % RingSize = i
               /\ ring[i].fault # "oversize"
               /\ \A q \in Producers : ppc'[q] = "reserved" => slot'[q] # ring[i].id
    <3>1. /\ ring[i].id \in Nat /\ write_index <= ring[i].id /\ ring[i].id < ring_wptr
          /\ ring[i].id < ring_rptr + RingSize
          /\ ring[i].id % RingSize = i
          /\ ring[i].fault # "oversize"
          /\ \A q \in Producers : ppc[q] = "reserved" => slot[q] # ring[i].id
      BY <2>4, RingSlot
    <3>2. ring[i].id < ring_wptr' /\ ring_wptr # ring[i].id
      <4>1. ring[i].id \in Nat /\ ring[i].id < ring_wptr
        BY <3>1
      <4>2. ring_wptr' = ring_wptr + 1 /\ ring_wptr \in Nat
        BY <1>0, <1>1
      <4>. QED BY <4>1, <4>2
    <3>3. \A q \in Producers : ppc'[q] = "reserved" => slot'[q] # ring[i].id
      BY <2>1, <3>1, <3>2
    <3>. QED BY <3>1, <3>2, <3>3
  <2>. QED BY <1>1, <1>3, <2>3, <2>4 DEF RingInv
<1>9. FrameIntact'
  BY <1>1, <1>3 DEF IInv, FrameIntact
<1>. QED BY <1>4, <1>5, <1>6, <1>7, <1>8, <1>9 DEF IInv

\* A host thread writes its packet into its slot.
LEMMA PublishStep ==
  ASSUME FitsFrame, IInv, NEW p \in Producers, Publish(p)
  PROVE  IInv'
<1>0. ring_rptr \in Nat /\ write_index \in Nat /\ RingSize \in Nat \ {0}
  BY CountersAreNat DEF IInv
<1>1. /\ ppc[p] = "reserved" /\ slot[p] - ring_rptr < RingSize
      /\ ppc' = [ppc EXCEPT ![p] = "bell"]
      /\ UNCHANGED <<ring_wptr, slot, hpc, thread_stop, loopvars, batchvars, drivervars,
                     gpuvars, pc, error_code, cmdbuf, sig>>
  BY DEF Publish, MayWrite
<1>2. /\ slot[p] \in Ids /\ write_index <= slot[p] /\ slot[p] < ring_wptr
      /\ \A q \in Producers : ppc[q] = "reserved" /\ slot[q] = slot[p] => q = p
  BY <1>1, Zenon DEF IInv, RingInv
<1>3. slot[p] \in Nat
  BY <1>2 DEF Ids
<1>4. slot[p] % RingSize \in 0 .. RingSize - 1 /\ slot[p] < ring_rptr + RingSize
  BY <1>0, <1>1, <1>3, DivMod
<1>5. PICK k \in Packet : /\ ring' = [ring EXCEPT ![slot[p] % RingSize] = k]
                          /\ published' = published \cup {k}
                          /\ k.id = slot[p] /\ k.fault # "oversize" /\ k # Invalid
  <2>1. PICK t \in Templates :
          \E D \in IF t.type \in {"and", "or"} THEN SUBSET DepCandidates(slot[p]) ELSE {{}} :
            LET k == [id |-> slot[p], type |-> t.type, barrier |-> t.barrier,
                      signal |-> t.signal, fault |-> t.fault, deps |-> D]
            IN ring' = [ring EXCEPT ![slot[p] % RingSize] = k] /\ published' = published \cup {k}
    BY Zenon DEF Publish
  <2>2. DepCandidates(slot[p]) \subseteq SignalIds
    BY DEF DepCandidates, SignalIds, IInv, TypeOK, RingType, Packet
  <2>3. PICK D \in SUBSET SignalIds :
          LET k == [id |-> slot[p], type |-> t.type, barrier |-> t.barrier,
                    signal |-> t.signal, fault |-> t.fault, deps |-> D]
          IN ring' = [ring EXCEPT ![slot[p] % RingSize] = k] /\ published' = published \cup {k}
    BY <2>1, <2>2, Zenon
  <2> DEFINE k == [id |-> slot[p], type |-> t.type, barrier |-> t.barrier,
                   signal |-> t.signal, fault |-> t.fault, deps |-> D]
  <2>4. t \in Template /\ t.fault # "oversize"
    BY ConstantsAssumption DEF FitsFrame
  <2>5. k \in Packet
    BY <1>2, <2>4, Zenon DEF Packet, Template
  <2>6. k.id = slot[p] /\ k.fault # "oversize" /\ k # Invalid
    BY <2>4, Zenon DEF Invalid
  <2>. QED BY <2>3, <2>5, <2>6, Zenon
<1>6. UNCHANGED <<ring_rptr, write_index, sync_point, submitted, fences, sync_value, gidx,
                  gphase, signal_addr>>
  BY <1>1 DEF batchvars, drivervars, gpuvars
<1>7. TypeOK'
  <2>1. RingType'
    BY <1>1, <1>4, <1>5 DEF IInv, TypeOK, RingType
  <2>2. HostType'
    BY <1>1 DEF IInv, TypeOK, HostType
  <2>3. LoopType' /\ BatchType' /\ DriverType' /\ GpuType' /\ ThreadType' /\ CmdbufType' /\ SigType'
    BY <1>1, UnchangedTypes DEF IInv
  <2>. QED BY <2>1, <2>2, <2>3 DEF TypeOK
<1>8. \A i \in 0 .. RingSize - 1 :
        ring'[i] = IF i = slot[p] % RingSize THEN k ELSE ring[i]
  BY <1>5 DEF IInv, TypeOK, RingType
<1>9. OrderInv'
  BY <1>1, <1>6 DEF IInv, OrderInv
<1>10. BatchInv'
  BY <1>1, <1>6 DEF IInv, BatchInv
<1>11. ThreadInv'
  <2>1. write_index % RingSize \in 0 .. RingSize - 1
    BY <1>0, DivMod
  <2>2. Current # Invalid => Current' # Invalid
    BY <1>5, <1>6, <1>8, <2>1 DEF Current
  <2>. QED BY <1>1, <1>6, <2>2 DEF IInv, ThreadInv
<1>12. RingInv'
  <2>1. \A q \in Producers : ppc'[q] = "reserved" => q # p /\ ppc[q] = "reserved"
    BY <1>1 DEF IInv, TypeOK, HostType
  <2>2. ASSUME NEW i \in 0 .. RingSize - 1, ring'[i] # Invalid
        PROVE  /\ write_index <= ring'[i].id /\ ring'[i].id < ring_wptr
               /\ ring'[i].id < ring_rptr + RingSize
               /\ ring'[i].id % RingSize = i
               /\ ring'[i].fault # "oversize"
               /\ \A q \in Producers : ppc'[q] = "reserved" => slot[q] # ring'[i].id
    <3>1. CASE i = slot[p] % RingSize
      <4>1. ring'[i] = k
        BY <1>8, <3>1
      <4>2. \A q \in Producers : ppc'[q] = "reserved" => slot[q] # slot[p]
        BY <1>2, <2>1, Zenon
      <4>. QED BY <1>2, <1>4, <1>5, <3>1, <4>1, <4>2, Zenon
    <3>2. CASE i # slot[p] % RingSize
      <4>1. ring'[i] = ring[i]
        BY <1>8, <3>2, Zenon
      <4>2. /\ write_index <= ring[i].id /\ ring[i].id < ring_wptr
            /\ ring[i].id < ring_rptr + RingSize
            /\ ring[i].id % RingSize = i
            /\ ring[i].fault # "oversize"
            /\ \A q \in Producers : ppc[q] = "reserved" => slot[q] # ring[i].id
        BY <2>2, <4>1, RingSlot, Zenon
      <4>. QED BY <2>1, <4>1, <4>2, Zenon
    <3>. QED BY <3>1, <3>2, Zenon
  <2>3. \A q \in Producers :
          ppc'[q] = "reserved" =>
            /\ slot[q] \in Ids
            /\ write_index <= slot[q] /\ slot[q] < ring_wptr
            /\ \A r \in Producers : ppc'[r] = "reserved" /\ slot[r] = slot[q] => r = q
    BY <2>1 DEF IInv, RingInv
  <2>. QED BY <1>1, <1>6, <2>2, <2>3, Zenon DEF RingInv
<1>13. FrameIntact'
  BY <1>1, <1>6 DEF IInv, FrameIntact
<1>. QED BY <1>7, <1>9, <1>10, <1>11, <1>12, <1>13 DEF IInv

-----------------------------------------------------------------------------
(* The GPU. *)

\* A step of the GPU preserves the invariant if it keeps the order of the counters and
\* moves neither the fence nor the read pointer back.
LEMMA GpuInv ==
  ASSUME IInv, GpuType', SigType', OrderInv', sync_value <= sync_value', ring_rptr <= ring_rptr',
         UNCHANGED <<hostvars, ringvars, loopvars, batchvars, drivervars, pc, error_code, cmdbuf>>
  PROVE  IInv'
<1>0. /\ sync_value \in Nat /\ ring_rptr \in Nat /\ sync_value' \in Nat /\ ring_rptr' \in Nat
      /\ write_index \in Nat /\ FrameNum \in Nat /\ RingSize \in Nat
  BY CountersAreNat DEF IInv, GpuType
<1>1. TypeOK'
  BY UnchangedTypes DEF IInv, TypeOK
<1>2. UNCHANGED <<ring, ring_wptr, write_index, sync_point, ppc, slot, signal_addr>>
  BY DEF hostvars, ringvars, batchvars
<1>3. BatchInv'
  BY <1>2 DEF IInv, BatchInv
<1>4. ThreadInv'
  <2>1. Current' = Current
    BY <1>2 DEF Current
  <2>2. /\ write_index <= sync_value + FrameNum => write_index <= sync_value' + FrameNum
        /\ write_index < sync_value + FrameNum => write_index < sync_value' + FrameNum
    BY <1>0, AddMonotone, Zenon
  <2>. QED BY <1>2, <2>1, <2>2, Zenon DEF IInv, ThreadInv
<1>5. RingInv'
  <2>1. ASSUME NEW i \in 0 .. RingSize - 1, ring[i] # Invalid
        PROVE  ring[i].id < ring_rptr' + RingSize
    <3>1. ring[i].id \in Nat /\ ring[i].id < ring_rptr + RingSize
      BY <2>1, RingSlot
    <3>. QED BY <1>0, <3>1
  <2>. QED BY <1>2, <2>1, Zenon DEF IInv, RingInv
<1>6. FrameIntact'
  <2>1. \A i \in sync_value' .. write_index - 1 : i \in sync_value .. write_index - 1
    BY <1>0
  <2>. QED BY <1>2, <2>1 DEF IInv, FrameIntact
<1>. QED BY <1>1, <1>3, <1>4, <1>5, <1>6 DEF IInv

\* The GPU reads the commands of a packet, dispatches finish, and fences are signalled.
LEMMA GpuStep ==
  ASSUME IInv, Gpu
  PROVE  IInv'
<1>0. /\ sync_value \in Nat /\ ring_rptr \in Nat /\ gidx \in Nat /\ submitted \in Nat
      /\ sync_point \in Nat /\ MaxPackets \in Nat /\ submitted \in 0 .. MaxPackets
  BY CountersAreNat DEF IInv, TypeOK, DriverType
<1>1. CASE GpuStart
  <2>1. /\ gidx < submitted /\ gphase' = "signal"
        /\ running' \in {running, running \cup {GpuFrame.id}}
        /\ UNCHANGED <<sync_value, gidx, done, ring_rptr, sig>>
        /\ UNCHANGED <<hostvars, ringvars, loopvars, batchvars, drivervars, pc, error_code, cmdbuf>>
    BY <1>1 DEF GpuStart
  <2>2. GpuFrame.id \in Ids
    BY <2>1, GpuFrameIntact
  <2>3. GpuType'
    BY <2>1, <2>2 DEF IInv, TypeOK, GpuType
  <2>4. OrderInv'
    BY <2>1 DEF IInv, OrderInv, drivervars, ringvars, batchvars
  <2>5. SigType' /\ sync_value <= sync_value' /\ ring_rptr <= ring_rptr'
    BY <1>0, <2>1, UnchangedTypes DEF IInv
  <2>. QED BY <2>1, <2>3, <2>4, <2>5, GpuInv
<1>2. CASE GpuSignal
  <2>1. /\ gphase = "signal" /\ gphase' = "rptr"
        /\ sig' = IF GpuFrame.signal THEN [sig EXCEPT ![GpuFrame.id] = @ - 1] ELSE sig
        /\ UNCHANGED <<sync_value, gidx, running, done, ring_rptr>>
        /\ UNCHANGED <<hostvars, ringvars, loopvars, batchvars, drivervars, pc, error_code, cmdbuf>>
    BY <1>2 DEF GpuSignal
  <2>2. gidx < submitted
    BY <2>1 DEF IInv, OrderInv
  <2>3. GpuFrame.id \in SignalIds
    BY <2>2, GpuFrameIntact DEF SignalIds
  <2>4. SigType'
    BY <2>1, <2>3 DEF IInv, TypeOK, SigType
  <2>5. GpuType'
    BY <2>1 DEF IInv, TypeOK, GpuType
  <2>6. OrderInv'
    BY <2>1, <2>2 DEF IInv, OrderInv, drivervars, ringvars, batchvars
  <2>7. sync_value <= sync_value' /\ ring_rptr <= ring_rptr'
    BY <1>0, <2>1
  <2>. QED BY <2>1, <2>4, <2>5, <2>6, <2>7, GpuInv
<1>3. CASE GpuRptr
  <2>1. /\ gphase = "rptr" /\ gphase' = "start" /\ gidx' = gidx + 1
        /\ ring_rptr' \in {ring_rptr + 1, GpuFrame.id + 1}
        /\ UNCHANGED <<sync_value, running, done, sig>>
        /\ UNCHANGED <<hostvars, ringvars, loopvars, batchvars, drivervars, pc, error_code, cmdbuf>>
    BY <1>3 DEF GpuRptr
  <2>2. gidx < submitted /\ ring_rptr = gidx /\ sync_value <= gidx
    BY <2>1 DEF IInv, OrderInv
  <2>3. GpuFrame.id = gidx
    BY <2>2, GpuFrameIntact
  <2>4. gidx' = gidx + 1 /\ ring_rptr' = gidx + 1
    BY <2>1, <2>2, <2>3
  <2>5. gidx + 1 \in 0 .. MaxPackets
    BY <1>0, <2>2
  <2>6. GpuType'
    BY <2>1, <2>4, <2>5 DEF IInv, TypeOK, GpuType
  <2>7. OrderInv'
    <3>1. UNCHANGED <<ring_wptr, write_index, sync_point, submitted, fences>>
      BY <2>1 DEF drivervars, ringvars, batchvars
    <3>. QED BY <1>0, <2>1, <2>2, <2>4, <3>1 DEF IInv, OrderInv
  <2>8. SigType' /\ sync_value <= sync_value' /\ ring_rptr <= ring_rptr'
    BY <1>0, <2>1, <2>2, <2>4, UnchangedTypes DEF IInv
  <2>. QED BY <2>1, <2>6, <2>7, <2>8, GpuInv
<1>4. ASSUME NEW i \in running, GpuDispatchDone(i)
      PROVE  IInv'
  <2>1. /\ running' = running \ {i} /\ done' = done \cup {i}
        /\ UNCHANGED <<sync_value, gidx, gphase, ring_rptr, sig>>
        /\ UNCHANGED <<hostvars, ringvars, loopvars, batchvars, drivervars, pc, error_code, cmdbuf>>
    BY <1>4 DEF GpuDispatchDone
  <2>2. GpuType'
    BY <2>1 DEF IInv, TypeOK, GpuType
  <2>3. OrderInv'
    BY <2>1 DEF IInv, OrderInv, drivervars, ringvars, batchvars
  <2>4. SigType' /\ sync_value <= sync_value' /\ ring_rptr <= ring_rptr'
    BY <1>0, <2>1, UnchangedTypes DEF IInv
  <2>. QED BY <2>1, <2>2, <2>3, <2>4, GpuInv
<1>5. ASSUME NEW v \in fences, GpuFence(v)
      PROVE  IInv'
  <2>1. /\ v > sync_value /\ v <= gidx /\ sync_value' = v
        /\ UNCHANGED <<gidx, gphase, running, done, ring_rptr, sig>>
        /\ UNCHANGED <<hostvars, ringvars, loopvars, batchvars, drivervars, pc, error_code, cmdbuf>>
    BY <1>5 DEF GpuFence
  <2>2. v \in 0 .. MaxPackets /\ v <= sync_point
    BY DEF IInv, TypeOK, DriverType, OrderInv
  <2>3. GpuType'
    BY <2>1, <2>2 DEF IInv, TypeOK, GpuType
  <2>4. OrderInv'
    <3>1. UNCHANGED <<ring_wptr, write_index, sync_point, submitted, fences>>
      BY <2>1 DEF drivervars, ringvars, batchvars
    <3>. QED BY <1>0, <2>1, <2>2, <3>1 DEF IInv, OrderInv
  <2>5. SigType' /\ sync_value <= sync_value' /\ ring_rptr <= ring_rptr'
    BY <1>0, <2>1, <2>2, UnchangedTypes DEF IInv
  <2>. QED BY <2>1, <2>3, <2>4, <2>5, GpuInv
<1>. QED BY <1>1, <1>2, <1>3, <1>4, <1>5 DEF Gpu

-----------------------------------------------------------------------------
(* The theorems. *)

\* A queue that has just been created satisfies the invariant.
LEMMA InitIInv ==
  ASSUME Init
  PROVE  IInv
<1>0. /\ ring_wptr = 0 /\ ring_rptr = 0 /\ write_index = 0 /\ sync_point = 0
      /\ current_position = 0 /\ wptr_seen = 0 /\ submitted = 0 /\ sync_value = 0
      /\ gidx = 0 /\ gphase = "start" /\ pc = "top" /\ error_code = 0 /\ signal_addr = None
      /\ published = {} /\ fences = {} /\ running = {} /\ done = {}
  BY DEF Init
<1>1. TypeOK
  <2>0. 0 \in 0 .. MaxPackets
    BY ConstantsAssumption
  <2>1. HostType
    BY Zenon DEF Init, HostType
  <2>2. ring \in [0 .. RingSize - 1 -> Packet \cup {Invalid}]
    BY DEF Init
  <2>3. RingType
    BY <1>0, <2>0, <2>2 DEF RingType
  <2>4. /\ sleep \in BOOLEAN /\ needs_barrier \in BOOLEAN /\ ready_to_submit \in BOOLEAN
    BY Zenon DEF Init
  <2>5. LoopType /\ DriverType
    BY <1>0, <2>0, <2>4 DEF LoopType, DriverType
  <2>6. BatchType
    BY <1>0, <2>0, <2>4 DEF BatchType
  <2>7. GpuType
    BY <1>0, <2>0 DEF GpuType
  <2>8. ThreadType
    BY <1>0 DEF ThreadType, ThreadStates
  <2>9. CmdbufType
    BY DEF Init, CmdbufType
  <2>10. SigType
    BY DEF Init, SigType
  <2>. QED BY <2>1, <2>3, <2>5, <2>6, <2>7, <2>8, <2>9, <2>10 DEF TypeOK
<1>2. OrderInv
  BY <1>0 DEF OrderInv
<1>3. BatchInv
  <2>1. 0 % FrameNum = 0
    BY DivModUnique, ConstantsAssumption
  <2>. QED BY <1>0, <2>1, ConstantsAssumption DEF BatchInv
<1>4. ThreadInv
  BY <1>0, ConstantsAssumption DEF ThreadInv
<1>5. RingInv
  BY DEF Init, RingInv
<1>6. FrameIntact
  BY <1>0 DEF FrameIntact
<1>. QED BY <1>1, <1>2, <1>3, <1>4, <1>5, <1>6 DEF IInv

\* Every step, and every step that leaves the queue alone, preserves the invariant.
LEMMA NextIInv ==
  ASSUME FitsFrame, IInv, [Next]_vars
  PROVE  IInv'
<1>1. CASE Next
  <2>1. ASSUME NEW p \in Producers, Host(p) PROVE IInv'
    BY <2>1, ReserveStep, PublishStep, DoorbellStep DEF Host
  <2>2. ASSUME NEW s \in ExtSignals, CompleteExt(s) PROVE IInv'
    BY <2>2, CompleteExtStep
  <2>3. CASE Process
    BY <2>3, ProcessControlStep, SwitchKernelStep, SwitchBarrierStep, SwitchVendorStep,
       NoOversize, SubmitStep, SignalWaitStep DEF Process
  <2>. QED BY <1>1, <2>1, <2>2, <2>3, DestroyStep, LoopStep, GpuStep DEF Next
<1>2. CASE UNCHANGED vars
  <2>1. UNCHANGED <<hostvars, ringvars, loopvars, batchvars, drivervars, gpuvars,
                    pc, error_code, cmdbuf, sig>>
    BY <1>2 DEF vars
  <2>2. HostType' /\ LoopType' /\ BatchType' /\ ThreadType' /\ SigType'
    BY <2>1, UnchangedTypes DEF IInv
  <2>3. ThreadInv'
    BY <2>1 DEF IInv, ThreadInv, Current, ringvars, batchvars, gpuvars
  <2>4. UNCHANGED <<write_index, sync_point, ppc, slot>>
    BY <2>1 DEF batchvars, hostvars
  <2>. QED BY <2>1, <2>2, <2>3, <2>4, ControlStep
<1>. QED BY <1>1, <1>2

\* The invariant holds in every state of the queue, for every ring, command buffer and
\* set of host threads, when the commands of every packet fit in its frame.
THEOREM Invariance ==
  ASSUME FitsFrame
  PROVE  Spec => []IInv
<1>1. Init => IInv
  BY InitIInv
<1>2. IInv /\ [Next]_vars => IInv'
  BY NextIInv
<1>. QED BY <1>1, <1>2, PTL DEF Spec

\* Every variable keeps its type (class ComputeQueue and its AQL ring); in particular the
\* counters stay within the packets reserved and every frame holds whole commands.
THEOREM TypeCorrect ==
  ASSUME FitsFrame
  PROVE  Spec => []TypeOK
<1>1. IInv => TypeOK
  BY DEF IInv
<1>. QED BY <1>1, Invariance, PTL

\* The wait for a free frame in ComputeQueue::Process keeps commands that the fence has not
\* passed from being overwritten, for every number of frames and interleaving with the GPU.
THEOREM FramesIntact ==
  ASSUME FitsFrame
  PROVE  Spec => []FrameIntact
<1>1. IInv => FrameIntact
  BY DEF IInv
<1>. QED BY <1>1, Invariance, PTL

\* ComputeQueue::Process never waits for a fence value that it has not submitted: a merged
\* IB is always cut before the thread comes round to its frames.
THEOREM NoSelfWait ==
  ASSUME FitsFrame
  PROVE  Spec => []FrameWaitSubmitted
<1>1. IInv => FrameWaitSubmitted
  <2> SUFFICES ASSUME IInv, pc = "slot_wait"
               PROVE  \E v \in fences : v >= WaitValue
    BY DEF FrameWaitSubmitted
  <2>0. sync_point \in Nat /\ write_index \in Nat /\ FrameNum \in Nat \ {0}
    BY CountersAreNat DEF IInv
  <2>1. /\ (sync_point % FrameNum) + (write_index - sync_point) < FrameNum
        /\ write_index >= FrameNum
    BY DEF IInv, BatchInv, ThreadInv
  <2>2. sync_point % FrameNum \in 0 .. FrameNum - 1
    BY <2>0, DivMod
  <2>3. sync_point >= WaitValue /\ sync_point # 0
    BY <2>0, <2>1, <2>2 DEF WaitValue
  <2>4. sync_point \in fences
    BY <2>3 DEF IInv, OrderInv
  <2>. QED BY <2>3, <2>4
<1>. QED BY <1>1, Invariance, PTL

\* ComputeQueue::Submit hands the driver one contiguous piece of the command buffer.
THEOREM IbContiguous ==
  ASSUME FitsFrame
  PROVE  Spec => []IbInBuffer
<1>1. IInv => IbInBuffer
  BY DEF IInv, BatchInv, IbInBuffer
<1>. QED BY <1>1, Invariance, PTL

\* When ComputeQueue's read pointer lets a host thread write its slot, the slot holds no
\* packet: neither one that is still to be translated nor one of another host thread.
THEOREM SlotsFree ==
  ASSUME FitsFrame
  PROVE  Spec => []SlotFree
<1>1. IInv => SlotFree
  <2> SUFFICES ASSUME IInv, NEW p \in Producers, MayWrite(p),
                      ring[slot[p] % RingSize] # Invalid
               PROVE  FALSE
    BY DEF SlotFree
  <2> DEFINE k == ring[slot[p] % RingSize]
  <2>0. /\ ring_rptr \in Nat /\ write_index \in Nat /\ RingSize \in Nat \ {0}
        /\ ring_rptr <= write_index
    BY CountersAreNat DEF IInv, OrderInv
  <2>1. /\ ppc[p] = "reserved" /\ slot[p] \in Nat
        /\ write_index <= slot[p] /\ slot[p] - ring_rptr < RingSize
    BY DEF MayWrite, IInv, RingInv, Ids
  <2>2. slot[p] % RingSize \in 0 .. RingSize - 1
    BY <2>0, <2>1, DivMod
  <2>3. /\ k.id \in Nat /\ write_index <= k.id /\ k.id < ring_rptr + RingSize
        /\ k.id % RingSize = slot[p] % RingSize /\ k.id # slot[p]
    BY <2>1, <2>2, RingSlot
  <2> HIDE DEF k
  <2>4. k.id - slot[p] < RingSize /\ slot[p] - k.id < RingSize
    BY <2>0, <2>1, <2>3
  <2>5. CASE k.id <= slot[p]
    BY <2>0, <2>1, <2>3, <2>4, <2>5, ModUnique
  <2>6. CASE slot[p] <= k.id
    BY <2>0, <2>1, <2>3, <2>4, <2>6, ModUnique
  <2>. QED BY <2>1, <2>3, <2>5, <2>6
<1>. QED BY <1>1, Invariance, PTL


-----------------------------------------------------------------------------
(* Completion and barriers: the parts of WInv that a step leaves alone. *)

\* A packet the host has written has a number and attributes.
LEMMA PublishedPacket ==
  ASSUME IInv, NEW p \in published
  PROVE  /\ p \in Packet /\ p.id \in Nat /\ p.id \in Ids
         /\ p.signal \in BOOLEAN /\ p.barrier \in BOOLEAN
<1>1. p \in Packet
  BY DEF IInv, TypeOK, RingType
<1>. QED BY <1>1, PacketFields

\* The packets of the host stay as they are when none is written, the ring only loses
\* packets and numbers are only reserved afresh.
LEMMA PublishedFrame ==
  ASSUME IInv, PublishedInv, published' = published, ring_wptr' \in Nat, ring_wptr <= ring_wptr',
         \A i \in 0 .. RingSize - 1 : ring'[i] # Invalid => ring'[i] = ring[i],
         \A r \in Producers : ppc'[r] = "reserved" =>
           (ppc[r] = "reserved" /\ slot'[r] = slot[r]) \/ slot'[r] = ring_wptr
  PROVE  PublishedInv'
<1>0. ring_wptr \in Nat
  BY CountersAreNat DEF IInv
<1>1. \A p, q \in published' : p.id = q.id => p = q
  BY Zenon DEF PublishedInv
<1>2. ASSUME NEW p \in published'
      PROVE  p.id < ring_wptr' /\ \A r \in Producers : ppc'[r] = "reserved" => slot'[r] # p.id
  <2>1. p \in published
    OBVIOUS
  <2>2. p.id < ring_wptr /\ \A r \in Producers : ppc[r] = "reserved" => slot[r] # p.id
    BY <2>1, Zenon DEF PublishedInv
  <2>3. p.id \in Nat
    BY <2>1, PublishedPacket
  <2>4. p.id < ring_wptr' /\ p.id # ring_wptr
    BY <1>0, <2>2, <2>3
  <2>. QED BY <2>2, <2>4, Zenon
<1>3. \A i \in 0 .. RingSize - 1 : ring'[i] # Invalid => ring'[i] \in published'
  BY Zenon DEF PublishedInv
<1>4. \A p \in published' : \A d \in p.deps \cap Ids :
        d < p.id /\ \E q \in published' : q.id = d /\ q.signal
  BY Zenon DEF PublishedInv
<1>. QED BY <1>1, <1>2, <1>3, <1>4, Zenon DEF PublishedInv

\* Nothing is translated: a packet with a signal stays submitted.
LEMMA HeldFrame ==
  ASSUME IInv, HeldInv, UNCHANGED <<published, write_index>>,
         submitted' \in Nat, submitted <= submitted',
         pc \in {"submit", "exited"} => pc' \in {"submit", "exited"}
  PROVE  HeldInv'
<1> SUFFICES ASSUME pc' \notin {"submit", "exited"}, NEW p \in published,
                    p.signal, p.id < write_index
             PROVE  p.id < submitted'
  BY Zenon DEF HeldInv
<1>1. p.id < submitted
  BY Zenon DEF HeldInv
<1>2. p.id \in Nat /\ submitted \in Nat
  BY PublishedPacket, CountersAreNat DEF IInv
<1>. QED BY <1>1, <1>2

\* The signals of the queue's own packets and the commands that complete them are left alone.
LEMMA SigFrame ==
  ASSUME IInv, SigInv, \A i \in Ids : sig'[i] = sig[i],
         UNCHANGED <<cmdbuf, write_index, signal_addr>>, gidx' \in Nat, gidx <= gidx',
         \A i \in Ids : Passed(i) => Passed(i)',
         ~PlatformAtomics /\ signal_addr # None /\ pc \in {"submit", "signal_wait", "exited"}
           => pc' \in {"submit", "signal_wait", "exited"}
  PROVE  SigInv'
<1>1. signal_addr # None => signal_addr \in Ids
  BY DEF IInv, TypeOK, BatchType
<1>2. \A i \in gidx .. write_index - 1 : i \in Ids
  <2>1. gidx \in Nat /\ write_index \in 0 .. MaxPackets /\ MaxPackets \in Nat
    BY CountersAreNat DEF IInv, TypeOK, BatchType
  <2>. QED BY <2>1 DEF Ids
<1>3. \A i : i \in gidx' .. write_index' - 1 => i \in gidx .. write_index - 1
  <2>1. gidx \in Nat /\ write_index \in Nat
    BY CountersAreNat DEF IInv
  <2>. QED BY <2>1
<1>4. \A i \in Ids : sig'[i] \in {0, 1}
  BY Zenon DEF SigInv
<1>5. \A i \in Ids : write_index' <= i => sig'[i] = 1
  <2>1. \A i \in Ids : write_index <= i => sig[i] = 1
    BY Zenon DEF SigInv
  <2>. QED BY <2>1
<1>6. \A i \in gidx' .. write_index' - 1 :
        cmdbuf'[i % FrameNum].signal => PlatformAtomics /\ (Passed(i)' \/ sig'[i] = 1)
  BY <1>2, <1>3, Zenon DEF SigInv
<1>7. signal_addr' # None =>
        /\ ~PlatformAtomics
        /\ pc' \in {"submit", "signal_wait", "exited"}
        /\ signal_addr' = write_index' - 1
        /\ sig'[signal_addr'] = 1
  BY <1>1, Zenon DEF SigInv
<1>. QED BY <1>4, <1>5, <1>6, <1>7, Zenon DEF SigInv

\* What is quiet stays so when the packets the GPU passes drain it.
LEMMA QuietFrame ==
  ASSUME NEW i, Quiet(i), published' = published, done \subseteq done',
         \A r \in published : Drains(r) /\ Passed(r.id)' =>
           Passed(r.id) \/ \A q \in Kernels : q.id <= r.id => q.id \in done'
  PROVE  Quiet(i)'
<1> SUFFICES ASSUME NEW q \in Kernels, q.id < i
             PROVE  \/ q.id \in done'
                    \/ \E r \in published : Drains(r) /\ q.id <= r.id /\ r.id < i /\ ~Passed(r.id)'
  BY DEF Quiet, Kernels
<1>1. CASE q.id \in done
  BY <1>1
<1>2. CASE \E r \in published : Drains(r) /\ q.id <= r.id /\ r.id < i /\ ~Passed(r.id)
  <2>1. PICK r \in published : Drains(r) /\ q.id <= r.id /\ r.id < i /\ ~Passed(r.id)
    BY <1>2, Zenon
  <2>. QED BY <2>1, Zenon
<1>. QED BY <1>1, <1>2, Zenon DEF Quiet

\* The packets and their commands are left alone.
LEMMA CommandFrame ==
  ASSUME IInv, CommandInv, UNCHANGED <<published, cmdbuf, write_index, needs_barrier>>,
         gidx' \in Nat, gidx <= gidx', done \subseteq done',
         \A r \in published : Drains(r) /\ Passed(r.id)' =>
           Passed(r.id) \/ \A q \in Kernels : q.id <= r.id => q.id \in done'
  PROVE  CommandInv'
<1>0. \A i : i \in gidx' .. write_index' - 1 => i \in gidx .. write_index - 1
  <2>1. gidx \in Nat /\ write_index \in Nat
    BY CountersAreNat DEF IInv
  <2>. QED BY <2>1
<1>1. needs_barrier' \/ Quiet(write_index)'
  <2>1. PICK w : w = write_index
    BY Zenon
  <2>2. needs_barrier \/ Quiet(w)
    BY <2>1, Zenon DEF CommandInv
  <2>3. needs_barrier' \/ Quiet(w)'
    BY <2>2, QuietFrame
  <2>4. write_index' = w
    BY <2>1
  <2>. QED BY <2>3, <2>4, Zenon DEF Quiet
<1>2. ASSUME NEW p \in published, p.id \in gidx .. write_index - 1
      PROVE  /\ cmdbuf[p.id % FrameNum].dispatch <=> p.type = "kernel"
             /\ p.type = "kernel" /\ p.signal => cmdbuf[p.id % FrameNum].post
             /\ Waits(p) => cmdbuf[p.id % FrameNum].pre \/ Quiet(p.id)'
  <2>1. Quiet(p.id) => Quiet(p.id)'
    BY QuietFrame
  <2>. QED BY <1>2, <2>1, Zenon DEF CommandInv
<1>3. UNCHANGED <<published, cmdbuf>>
  OBVIOUS
<1>. QED BY <1>0, <1>1, <1>2, <1>3, Zenon DEF CommandInv

\* The GPU stands still.
LEMMA WorkFrame ==
  ASSUME WorkInv, UNCHANGED <<published, running, done, gidx, gphase, sync_value>>
  PROVE  WorkInv'
  BY Zenon DEF WorkInv, Kernels, Started, EarlierKernelsDone

\* No kernel starts.
LEMMA BarrierBitFrame ==
  ASSUME BarrierBit, UNCHANGED <<published, running, done>>
  PROVE  BarrierBit'
  BY Zenon DEF BarrierBit, Kernels, EarlierKernelsDone

\* No signal of the queue's own packets is completed.
LEMMA CompletionFrame ==
  ASSUME CompletionAfterWork, published' = published, done \subseteq done',
         \A p \in published : sig'[p.id] = sig[p.id]
  PROVE  CompletionAfterWork'
  BY Zenon DEF CompletionAfterWork, Kernels, EarlierKernelsDone


\* A step that moves no packet and no command preserves the invariant.
LEMMA WControl ==
  ASSUME IInv, WInv, HeldInv',
         UNCHANGED <<published, cmdbuf, write_index, needs_barrier, signal_addr, gpuvars>>,
         \A i \in Ids : sig'[i] = sig[i],
         ~PlatformAtomics /\ signal_addr # None /\ pc \in {"submit", "signal_wait", "exited"}
           => pc' \in {"submit", "signal_wait", "exited"},
         ring_wptr' \in Nat, ring_wptr <= ring_wptr',
         \A i \in 0 .. RingSize - 1 : ring'[i] # Invalid => ring'[i] = ring[i],
         \A r \in Producers : ppc'[r] = "reserved" =>
           (ppc[r] = "reserved" /\ slot'[r] = slot[r]) \/ slot'[r] = ring_wptr
  PROVE  WInv'
<1>0. /\ PublishedInv /\ SigInv /\ CommandInv /\ WorkInv /\ BarrierBit /\ CompletionAfterWork
  BY Zenon DEF WInv
<1>1. UNCHANGED <<gidx, gphase, running, done, sync_value>>
  BY DEF gpuvars
<1>2. /\ \A p \in published : sig'[p.id] = sig[p.id]
      /\ gidx' \in Nat /\ gidx <= gidx'
      /\ \A i : Passed(i)' <=> Passed(i)
  BY <1>1, PublishedPacket, CountersAreNat DEF IInv, Passed
<1>3. PublishedInv'
  BY <1>0, PublishedFrame, Zenon
<1>4. SigInv'
  BY <1>0, <1>2, SigFrame
<1>5. CommandInv'
  BY <1>0, <1>1, <1>2, CommandFrame
<1>6. WorkInv' /\ BarrierBit'
  BY <1>0, <1>1, WorkFrame, BarrierBitFrame
<1>7. CompletionAfterWork'
  BY <1>0, <1>1, <1>2, CompletionFrame
<1>. QED BY <1>3, <1>4, <1>5, <1>6, <1>7, Zenon DEF WInv

\* The host threads but for Publish, the destructor and signals completed elsewhere.
LEMMA WHostStep ==
  ASSUME IInv, WInv, NEW p \in Producers,
         Reserve(p) \/ RingDoorbellLock(p) \/ RingDoorbellNotify(p)
  PROVE  WInv'
<1>0. ring_wptr \in Nat /\ submitted \in Nat
  BY CountersAreNat DEF IInv
<1>1. /\ UNCHANGED <<ring, published, batchvars, drivervars, gpuvars, cmdbuf, sig>>
      /\ pc' = pc \/ (pc = "waiting" /\ pc' = "top")
      /\ ring_wptr' \in {ring_wptr, ring_wptr + 1}
      /\ \/ ppc' = [ppc EXCEPT ![p] = "reserved"] /\ slot' = [slot EXCEPT ![p] = ring_wptr]
         \/ ppc' = [ppc EXCEPT ![p] = "notify"] /\ slot' = slot
         \/ ppc' = [ppc EXCEPT ![p] = "idle"] /\ slot' = [slot EXCEPT ![p] = None]
  BY DEF Reserve, RingDoorbellLock, RingDoorbellNotify, NotifyOne, ringvars
<1>2. ring_wptr' \in Nat /\ ring_wptr <= ring_wptr'
  BY <1>0, <1>1
<1>3. \A r \in Producers : ppc'[r] = "reserved" =>
        (ppc[r] = "reserved" /\ slot'[r] = slot[r]) \/ slot'[r] = ring_wptr
  BY <1>1, Zenon DEF IInv, TypeOK, HostType
<1>4. UNCHANGED <<write_index, needs_barrier, signal_addr, submitted>>
  BY <1>1 DEF batchvars, drivervars
<1>5. HeldInv'
  BY <1>0, <1>1, <1>4, HeldFrame DEF WInv
<1>. QED BY <1>1, <1>2, <1>3, <1>4, <1>5, WControl

\* The destructor, and signals completed elsewhere.
LEMMA WDestroyStep ==
  ASSUME IInv, WInv, Destroy \/ \E s \in ExtSignals : CompleteExt(s)
  PROVE  WInv'
<1>0. ring_wptr \in Nat /\ submitted \in Nat
  BY CountersAreNat DEF IInv
<1>1. /\ UNCHANGED <<ppc, slot, ringvars, batchvars, drivervars, gpuvars, cmdbuf>>
      /\ pc' = pc \/ (pc = "waiting" /\ pc' = "top")
      /\ sig' = sig \/ \E s \in ExtSignals : sig' = [sig EXCEPT ![s] = 0]
  BY DEF Destroy, DestroyStop, DestroyNotify, DestroyJoin, NotifyOne, CompleteExt, hostvars
<1>2. \A i \in Ids : sig'[i] = sig[i]
  BY <1>1, ConstantsAssumption DEF IInv, TypeOK, SigType, SignalIds, Ids
<1>3. UNCHANGED <<write_index, needs_barrier, signal_addr, submitted, ring, ring_wptr, published>>
  BY <1>1 DEF batchvars, drivervars, ringvars
<1>4. HeldInv'
  BY <1>0, <1>1, <1>3, HeldFrame DEF WInv
<1>5. UNCHANGED <<published, cmdbuf, write_index, needs_barrier, signal_addr, gpuvars>>
  BY <1>1, <1>3
<1>6. ~PlatformAtomics /\ signal_addr # None /\ pc \in {"submit", "signal_wait", "exited"}
        => pc' \in {"submit", "signal_wait", "exited"}
  BY <1>1
<1>7. ring_wptr' \in Nat /\ ring_wptr <= ring_wptr'
  BY <1>0, <1>3
<1>8. /\ \A i \in 0 .. RingSize - 1 : ring'[i] # Invalid => ring'[i] = ring[i]
      /\ \A r \in Producers : ppc'[r] = "reserved" =>
           (ppc[r] = "reserved" /\ slot'[r] = slot[r]) \/ slot'[r] = ring_wptr
  BY <1>1, <1>3, Zenon
<1>. QED BY <1>2, <1>4, <1>5, <1>6, <1>7, <1>8, WControl, Zenon

\* The loop of the thread, and what Process does without translating or submitting.
LEMMA WLoopStep ==
  ASSUME IInv, WInv,
         Loop \/ ProcessTest \/ FrameCheck \/ FrameWait \/ CpuWaitFails \/ SwitchInvalid
  PROVE  WInv'
<1>0. ring_wptr \in Nat /\ submitted \in Nat
  BY CountersAreNat DEF IInv
<1>1. /\ UNCHANGED <<hostvars, ringvars, batchvars, drivervars, gpuvars, cmdbuf, sig>>
      /\ pc \notin {"submit", "exited"}
      /\ pc = "signal_wait" => pc' = "exited"
  BY Zenon DEF Loop, LoopPacket, LoopMoved, LoopPoll, LoopTimeout, SpinTest, LockRead, LockedTest,
         SpuriousWakeup, ProcessTest, FrameCheck, FrameWait, CpuWaitFails, SwitchInvalid, HandleError
<1>2. UNCHANGED <<ppc, slot, write_index, needs_barrier, signal_addr, submitted, ring, ring_wptr,
                  published>>
  BY <1>1 DEF hostvars, batchvars, drivervars, ringvars
<1>3. HeldInv'
  BY <1>0, <1>1, <1>2, HeldFrame DEF WInv
<1>. QED BY <1>0, <1>1, <1>2, <1>3, WControl

\* Submit hands over everything that was held back.
LEMMA WSubmitStep ==
  ASSUME IInv, WInv, Submit \/ SubmitFails
  PROVE  WInv'
<1>0. ring_wptr \in Nat
  BY CountersAreNat DEF IInv
<1>1. /\ UNCHANGED <<hostvars, ringvars, gpuvars, cmdbuf, sig, write_index, needs_barrier, signal_addr>>
      /\ \/ pc' = "exited"
         \/ submitted' = write_index /\ (~PlatformAtomics /\ signal_addr # None => pc' = "signal_wait")
  BY DEF Submit, SubmitFails, HandleError, batchvars
<1>2. UNCHANGED <<ppc, slot, ring, ring_wptr, published>>
  BY <1>1 DEF hostvars, ringvars
<1>3. HeldInv'
  BY <1>1, <1>2, Zenon DEF HeldInv
<1>. QED BY <1>0, <1>1, <1>2, <1>3, WControl

-----------------------------------------------------------------------------
(* A packet is published. *)

\* The packet that Publish writes: a new number, and dependencies on earlier packets.
LEMMA PublishPacket ==
  ASSUME FitsFrame, IInv, NEW p \in Producers, Publish(p)
  PROVE  \E k \in Packet :
           /\ ring' = [ring EXCEPT ![slot[p] % RingSize] = k]
           /\ published' = published \cup {k}
           /\ k.id = slot[p] /\ k.fault # "oversize" /\ k # Invalid
           /\ \A d \in k.deps \cap Ids :
                d < slot[p] /\ \E q \in published : q.id = d /\ q.signal
<1>0. slot[p] \in Ids
  BY Zenon DEF Publish, MayWrite, IInv, RingInv
<1>1. PICK t \in Templates :
        \E D \in IF t.type \in {"and", "or"} THEN SUBSET DepCandidates(slot[p]) ELSE {{}} :
          LET k == [id |-> slot[p], type |-> t.type, barrier |-> t.barrier,
                    signal |-> t.signal, fault |-> t.fault, deps |-> D]
          IN ring' = [ring EXCEPT ![slot[p] % RingSize] = k] /\ published' = published \cup {k}
  BY DEF Publish
<1>2. DepCandidates(slot[p]) \subseteq SignalIds
  BY DEF DepCandidates, SignalIds, IInv, TypeOK, RingType, Packet
<1>3. PICK D \in SUBSET DepCandidates(slot[p]) :
        LET k == [id |-> slot[p], type |-> t.type, barrier |-> t.barrier,
                  signal |-> t.signal, fault |-> t.fault, deps |-> D]
        IN ring' = [ring EXCEPT ![slot[p] % RingSize] = k] /\ published' = published \cup {k}
  BY <1>1, Zenon
<1> DEFINE k == [id |-> slot[p], type |-> t.type, barrier |-> t.barrier,
                 signal |-> t.signal, fault |-> t.fault, deps |-> D]
<1>4. t \in Template /\ t.fault # "oversize"
  BY ConstantsAssumption DEF FitsFrame
<1>5. k \in Packet
  BY <1>0, <1>2, <1>4 DEF Packet, Template
<1>6. k.id = slot[p] /\ k.fault # "oversize" /\ k # Invalid /\ k.deps = D
  BY <1>4, Zenon DEF Invalid
<1>7. ASSUME NEW d \in D \cap Ids
      PROVE  d < slot[p] /\ \E q \in published : q.id = d /\ q.signal
  <2>1. d \notin ExtSignals
    BY ConstantsAssumption DEF Ids
  <2>2. PICK q \in {r \in published : r.signal /\ r.id < slot[p]} : d = q.id
    BY <2>1 DEF DepCandidates
  <2>. QED BY <2>2
<1>. QED BY <1>3, <1>5, <1>6, <1>7, Zenon

\* Publish: a packet that is not translated yet changes nothing for those that are.
LEMMA WPublishStep ==
  ASSUME FitsFrame, IInv, WInv, NEW p \in Producers, Publish(p)
  PROVE  WInv'
<1>0. /\ write_index \in Nat /\ ring_wptr \in Nat /\ submitted \in Nat /\ gidx \in Nat
      /\ sync_value \in Nat /\ RingSize \in Nat \ {0}
      /\ gidx <= submitted /\ submitted <= write_index /\ sync_value <= gidx
      /\ gphase # "start" => gidx < submitted
  BY CountersAreNat DEF IInv, OrderInv
<1>1. /\ ppc[p] = "reserved" /\ ppc' = [ppc EXCEPT ![p] = "bell"]
      /\ UNCHANGED <<ring_wptr, slot, batchvars, drivervars, gpuvars, pc, cmdbuf, sig>>
  BY DEF Publish, MayWrite
<1>2. PICK k \in Packet :
        /\ ring' = [ring EXCEPT ![slot[p] % RingSize] = k]
        /\ published' = published \cup {k}
        /\ k.id = slot[p]
        /\ \A d \in k.deps \cap Ids : d < slot[p] /\ \E q \in published : q.id = d /\ q.signal
  BY PublishPacket
<1>3. /\ k.id \in Nat /\ k.id \in Ids /\ write_index <= k.id /\ k.id < ring_wptr
      /\ \A q \in Producers : ppc[q] = "reserved" /\ slot[q] = slot[p] => q = p
  BY <1>1, <1>2, PacketFields, Zenon DEF IInv, RingInv
<1>4. UNCHANGED <<write_index, needs_barrier, signal_addr, submitted, sync_value, gidx, gphase,
                  running, done>>
  BY <1>1 DEF batchvars, drivervars, gpuvars
<1>5. \A q \in published : q.id \in Nat /\ q.id # k.id
  <2>1. \A q \in published : slot[p] # q.id
    BY <1>1, Zenon DEF WInv, PublishedInv
  <2>. QED BY <1>2, <2>1, PublishedPacket
<1>6. PublishedInv'
  <2>1. \A q, r \in published' : q.id = r.id => q = r
    BY <1>2, <1>5, Zenon DEF WInv, PublishedInv
  <2>2. ASSUME NEW q \in published'
        PROVE  q.id < ring_wptr' /\ \A r \in Producers : ppc'[r] = "reserved" => slot'[r] # q.id
    <3>1. \A r \in Producers : ppc'[r] = "reserved" => r # p /\ ppc[r] = "reserved"
      BY <1>1 DEF IInv, TypeOK, HostType
    <3>2. CASE q = k
      BY <1>1, <1>2, <1>3, <3>1, <3>2
    <3>3. CASE q \in published
      BY <1>1, <3>1, <3>3, Zenon DEF WInv, PublishedInv
    <3>. QED BY <1>2, <3>2, <3>3
  <2>3. ASSUME NEW i \in 0 .. RingSize - 1, ring'[i] # Invalid
        PROVE  ring'[i] \in published'
    <3>1. ring'[i] = k \/ ring'[i] = ring[i]
      BY <1>2 DEF IInv, TypeOK, RingType
    <3>2. ring[i] # Invalid => ring[i] \in published
      BY Zenon DEF WInv, PublishedInv
    <3>. QED BY <1>2, <2>3, <3>1, <3>2
  <2>4. ASSUME NEW q \in published', NEW d \in q.deps \cap Ids
        PROVE  d < q.id /\ \E r \in published' : r.id = d /\ r.signal
    BY <1>2, Zenon DEF WInv, PublishedInv
  <2>. QED BY <2>1, <2>2, <2>3, <2>4, Zenon DEF PublishedInv
<1>7. \A q \in published' : q.id < write_index => q \in published
  BY <1>0, <1>2, <1>3
<1>8. HeldInv'
  BY <1>1, <1>4, <1>7, Zenon DEF WInv, HeldInv
<1>9. SigInv'
  BY <1>0, <1>1, <1>4, SigFrame DEF WInv, Passed
<1>10. \A q \in Kernels' : q.id < write_index => q \in Kernels
  BY <1>7 DEF Kernels
<1>11. ASSUME NEW i \in Nat, i <= write_index, Quiet(i)
       PROVE  Quiet(i)'
  <2> SUFFICES ASSUME NEW q \in Kernels', q.id < i
               PROVE  \/ q.id \in done'
                      \/ \E r \in published' : Drains(r) /\ q.id <= r.id /\ r.id < i /\ ~Passed(r.id)'
    BY DEF Quiet
  <2>1. q.id \in Nat
    BY <1>2, <1>3, <1>5, Zenon DEF Kernels
  <2>2. q \in Kernels
    BY <1>0, <1>10, <1>11, <2>1
  <2>. QED BY <1>2, <1>4, <1>11, <2>2, Zenon DEF Quiet, Passed
<1>12. CommandInv'
  <2>1. needs_barrier' \/ Quiet(write_index)'
    BY <1>0, <1>4, <1>11 DEF WInv, CommandInv
  <2>2. ASSUME NEW q \in published', q.id \in gidx .. write_index - 1
        PROVE  /\ cmdbuf[q.id % FrameNum].dispatch <=> q.type = "kernel"
               /\ q.type = "kernel" /\ q.signal => cmdbuf[q.id % FrameNum].post
               /\ Waits(q) => cmdbuf[q.id % FrameNum].pre \/ Quiet(q.id)'
    <3>1. q.id \in Nat /\ q.id < write_index
      BY <1>0, <2>2
    <3>2. q \in published
      BY <1>7, <3>1
    <3>3. Quiet(q.id) => Quiet(q.id)'
      BY <1>0, <1>11, <3>1
    <3>. QED BY <2>2, <3>2, <3>3, Zenon DEF WInv, CommandInv
  <2>. QED BY <1>1, <1>4, <2>1, <2>2, Zenon DEF CommandInv
<1>13. \A i \in Ids : Started(i) => i < write_index
  BY <1>0 DEF Started, Ids
<1>14. ASSUME NEW q \in published, q.id < write_index, EarlierKernelsDone(q)
       PROVE  EarlierKernelsDone(q)'
  <2> SUFFICES ASSUME NEW r \in Kernels', r.id < q.id
               PROVE  r.id \in done'
    BY DEF EarlierKernelsDone
  <2>1. r.id \in Nat /\ q.id \in Nat
    BY <1>2, <1>3, <1>5, Zenon DEF Kernels
  <2>2. r \in Kernels
    BY <1>0, <1>10, <1>14, <2>1
  <2>. QED BY <1>4, <1>14, <2>2, Zenon DEF EarlierKernelsDone
<1>15. \A q \in published' : q.id \in Ids
  BY <1>2, <1>3, PublishedPacket
<1>16. WorkInv'
  <2>0. \A i : Started(i)' <=> Started(i)
    BY <1>4 DEF Started
  <2>1. \A i \in running' \cup done' : Started(i)'
    BY <1>4, <2>0, Zenon DEF WInv, WorkInv
  <2>2. ASSUME NEW q \in Kernels', Started(q.id)
        PROVE  q.id \in running' \cup done'
    <3>1. q.id < write_index
      BY <1>13, <1>15, <2>2 DEF Kernels
    <3>2. q \in Kernels
      BY <1>10, <3>1
    <3>. QED BY <1>4, <2>2, <3>2, Zenon DEF WInv, WorkInv
  <2>3. ASSUME NEW q \in Kernels', q.id < sync_value
        PROVE  q.id \in done'
    <3>1. q.id \in Nat
      BY <1>2, <1>3, <1>5 DEF Kernels
    <3>2. q \in Kernels
      BY <1>0, <1>10, <2>3, <3>1
    <3>. QED BY <1>4, <2>3, <3>2, Zenon DEF WInv, WorkInv
  <2>4. ASSUME NEW q \in published', q.id = gidx, gphase = "signal", q.type # "kernel", Waits(q)
        PROVE  EarlierKernelsDone(q)'
    <3>1. q.id < write_index
      BY <1>0, <2>4
    <3>2. q \in published
      BY <1>7, <3>1
    <3>3. EarlierKernelsDone(q)
      BY <2>4, <3>2, Zenon DEF WInv, WorkInv
    <3>. QED BY <1>14, <3>1, <3>2, <3>3
  <2>. QED BY <1>4, <2>0, <2>1, <2>2, <2>3, <2>4, Zenon DEF WorkInv
<1>17. BarrierBit'
  <2> SUFFICES ASSUME NEW q \in Kernels', q.barrier, q.id \in running' \cup done'
               PROVE  EarlierKernelsDone(q)'
    BY DEF BarrierBit
  <2>1. Started(q.id)
    BY <1>4, Zenon DEF WInv, WorkInv
  <2>2. q.id < write_index
    BY <1>13, <1>15, <2>1 DEF Kernels
  <2>3. q \in Kernels /\ q \in published
    BY <1>7, <1>10, <2>2 DEF Kernels
  <2>4. EarlierKernelsDone(q)
    BY <1>4, <2>3, Zenon DEF WInv, BarrierBit
  <2>. QED BY <1>14, <2>2, <2>3, <2>4
<1>18. CompletionAfterWork'
  <2> SUFFICES ASSUME NEW q \in published', q.signal, sig'[q.id] < 1
               PROVE  /\ q.type \in {"and", "or"} => EarlierKernelsDone(q)'
                      /\ q.type = "kernel" => q.id \in done'
    BY DEF CompletionAfterWork
  <2>1. q.id \in Ids
    BY <1>15, Zenon
  <2>2. q.id < write_index
    <3>1. write_index <= q.id => sig[q.id] = 1
      BY <2>1, Zenon DEF WInv, SigInv
    <3>2. sig' = sig /\ q.id \in Nat
      BY <1>1, <2>1 DEF Ids
    <3>. QED BY <1>0, <3>1, <3>2
  <2>3. q \in published
    BY <1>7, <2>2
  <2>4. /\ q.type \in {"and", "or"} => EarlierKernelsDone(q)
        /\ q.type = "kernel" => q.id \in done
    BY <1>1, <2>3 DEF WInv, CompletionAfterWork
  <2>. QED BY <1>4, <1>14, <2>2, <2>3, <2>4
<1>. QED BY <1>6, <1>8, <1>9, <1>12, <1>16, <1>17, <1>18, Zenon DEF WInv

-----------------------------------------------------------------------------
(* A packet is translated. *)

\* The commands of packet write_index are written: they drain the GPU where the packet
\* asks for it, and complete its signal where the GPU has to.
LEMMA WEmit ==
  ASSUME IInv, WInv, pc = "switch", NEW f, Emit(f),
         UNCHANGED <<ring_wptr, published, hostvars, drivervars, gpuvars>>,
         f.dispatch <=> Current.type = "kernel",
         Current.type = "kernel" /\ Current.signal => f.post,
         Waits(Current) => f.pre \/ ~needs_barrier,
         f.signal => PlatformAtomics /\ sig'[write_index] = 1,
         needs_barrier' \/ Drains(Current) \/ (~needs_barrier /\ Current.type # "kernel"),
         sig'[write_index] = 1 \/ (sig'[write_index] = 0 /\ Current.type = "vendor"),
         \A i \in Ids \ {write_index} : sig'[i] = sig[i],
         pc' = "submit" \/ (pc' = "process" /\ ~Current.signal),
         signal_addr' # None => /\ ~PlatformAtomics /\ pc' = "submit"
                                /\ signal_addr' = write_index /\ sig'[write_index] = 1
  PROVE  WInv'
<1>0. /\ write_index \in Nat /\ gidx \in Nat /\ submitted \in Nat /\ sync_value \in Nat
      /\ FrameNum \in Nat \ {0} /\ ring_wptr \in Nat
      /\ gidx <= submitted /\ submitted <= write_index /\ sync_value <= gidx
      /\ gphase # "start" => gidx < submitted
  BY CountersAreNat DEF IInv, OrderInv
<1>1. /\ Current # Invalid /\ write_index < ring_wptr /\ write_index < sync_value + FrameNum
  BY DEF IInv, ThreadInv
<1>2. /\ Current \in Packet /\ Current.id = write_index /\ write_index \in Ids
      /\ write_index % RingSize \in 0 .. RingSize - 1
  BY <1>1, CurrentPacket, Zenon
<1>3. Current \in published
  BY <1>1, <1>2, Zenon DEF WInv, PublishedInv, Current
<1>4. /\ write_index' = write_index + 1
      /\ ring' = [ring EXCEPT ![write_index % RingSize] = Invalid]
      /\ cmdbuf' = [cmdbuf EXCEPT ![write_index % FrameNum] = f]
  BY DEF Emit
<1>5. UNCHANGED <<submitted, sync_value, gidx, gphase, running, done, ppc, slot>>
  BY DEF drivervars, gpuvars, hostvars
<1>6. \A p \in published : p.id \in Nat /\ (p.id = write_index => p = Current)
  <2>1. \A p \in published : p.id = Current.id => p = Current
    BY <1>3, Zenon DEF WInv, PublishedInv
  <2>. QED BY <1>2, <2>1, PublishedPacket
<1>7. PublishedInv'
  <2>1. \A i \in 0 .. RingSize - 1 : ring'[i] # Invalid => ring'[i] = ring[i]
    BY <1>4 DEF IInv, TypeOK, RingType
  <2>2. ring_wptr' \in Nat /\ ring_wptr <= ring_wptr'
    BY <1>0
  <2>3. \A r \in Producers : ppc'[r] = "reserved" =>
          (ppc[r] = "reserved" /\ slot'[r] = slot[r]) \/ slot'[r] = ring_wptr
    BY <1>5, Zenon
  <2>4. PublishedInv /\ published' = published
    BY Zenon DEF WInv
  <2>. QED BY <2>1, <2>2, <2>3, <2>4, PublishedFrame, Zenon
<1>8. HeldInv'
  <2> SUFFICES ASSUME pc' \notin {"submit", "exited"}, NEW p \in published,
                      p.signal, p.id < write_index'
               PROVE  p.id < submitted
    BY <1>5, Zenon DEF HeldInv
  <2>1. p.id < write_index
    BY <1>0, <1>4, <1>6
  <2>. QED BY <2>1, Zenon DEF WInv, HeldInv
<1>9. /\ cmdbuf'[write_index % FrameNum] = f
      /\ \A i \in gidx .. write_index - 1 : cmdbuf'[i % FrameNum] = cmdbuf[i % FrameNum]
  <2>1. write_index % FrameNum \in 0 .. FrameNum - 1
    BY <1>0, DivMod
  <2>2. ASSUME NEW i \in gidx .. write_index - 1
        PROVE  cmdbuf'[i % FrameNum] = cmdbuf[i % FrameNum]
    <3>1. i \in Nat /\ i < write_index /\ write_index - i < FrameNum
      BY <1>0, <1>1
    <3>2. i % FrameNum # write_index % FrameNum
      <4>1. i <= write_index /\ i # write_index
        BY <1>0, <3>1
      <4>. QED BY <1>0, <3>1, <4>1, ModUnique, Zenon
    <3>. QED BY <1>4, <3>2 DEF IInv, TypeOK, CmdbufType
  <2>. QED BY <1>4, <2>1, <2>2 DEF IInv, TypeOK, CmdbufType
<1>10. \A i \in gidx .. write_index : i \in gidx .. write_index - 1 \/ i = write_index
  BY <1>0
<1>11. \A i \in gidx .. write_index - 1 : i \in Ids \ {write_index}
  <2>1. write_index \in 0 .. MaxPackets - 1 /\ MaxPackets \in Nat
    BY <1>2, ConstantsAssumption DEF Ids
  <2>. QED BY <1>0, <2>1 DEF Ids
<1>12. SigInv'
  <2>1. \A i \in Ids : sig'[i] \in {0, 1}
    BY DEF WInv, SigInv
  <2>2. ASSUME NEW i \in Ids, write_index' <= i PROVE sig'[i] = 1
    <3>1. i \in Nat /\ write_index <= i /\ i # write_index
      BY <1>0, <1>4, <2>2 DEF Ids
    <3>. QED BY <3>1 DEF WInv, SigInv
  <2>3. ASSUME NEW i \in gidx' .. write_index' - 1, cmdbuf'[i % FrameNum].signal
        PROVE  PlatformAtomics /\ (Passed(i)' \/ sig'[i] = 1)
    <3>1. i \in gidx .. write_index
      BY <1>0, <1>4, <1>5
    <3>2. CASE i = write_index
      BY <1>9, <2>3, <3>2, Zenon
    <3>3. CASE i \in gidx .. write_index - 1
      <4>1. cmdbuf[i % FrameNum].signal /\ sig'[i] = sig[i]
        BY <1>9, <1>11, <2>3, <3>3, Zenon
      <4>2. PlatformAtomics /\ (Passed(i) \/ sig[i] = 1)
        BY <3>3, <4>1, Zenon DEF WInv, SigInv
      <4>. QED BY <1>5, <4>1, <4>2, Zenon DEF Passed
    <3>. QED BY <1>10, <3>1, <3>2, <3>3
  <2>4. signal_addr' # None =>
          /\ ~PlatformAtomics
          /\ pc' \in {"submit", "signal_wait", "exited"}
          /\ signal_addr' = write_index' - 1
          /\ sig'[signal_addr'] = 1
    BY <1>0, <1>4
  <2>. QED BY <2>1, <2>2, <2>3, <2>4, Zenon DEF SigInv
<1>13. CommandInv'
  <2>0. PICK w \in Nat : w = write_index
    BY <1>0
  <2>1. ~Passed(w) /\ \A i : Passed(i)' <=> Passed(i)
    BY <1>0, <1>5, <2>0 DEF Passed
  <2>2. ASSUME NEW i, Quiet(i) PROVE Quiet(i)'
    BY <1>5, <2>1, <2>2, QuietFrame, Zenon
  <2>3. needs_barrier' \/ Quiet(write_index)'
    <3>0. ASSUME \A q \in Kernels : q.id < w + 1 =>
                   \/ q.id \in done
                   \/ \E r \in published : Drains(r) /\ q.id <= r.id /\ r.id < w + 1 /\ ~Passed(r.id)
          PROVE  Quiet(write_index)'
      BY <1>4, <1>5, <2>0, <2>1, <3>0 DEF Quiet, Kernels
    <3>1. CASE Drains(Current)
      <4>0. PICK k \in published : Drains(k) /\ k.id = w
        BY <1>2, <1>3, <2>0, <3>1
      <4>1. ASSUME NEW q \in Kernels, q.id < w + 1
            PROVE  q.id <= k.id /\ k.id < w + 1 /\ ~Passed(k.id)
        <5>1. q.id \in Nat
          BY <1>6 DEF Kernels
        <5>2. q.id <= w /\ w < w + 1
          BY <4>1, <5>1
        <5>. QED BY <2>1, <4>0, <5>2, Zenon
      <4>. QED BY <3>0, <4>0, <4>1, Zenon
    <3>2. CASE ~needs_barrier /\ Current.type # "kernel"
      <4>0. Quiet(w)
        BY <2>0, <3>2, Zenon DEF WInv, CommandInv
      <4>1. ASSUME NEW q \in Kernels, q.id < w + 1
            PROVE  q.id < w
        <5>1. q \in published /\ q.id \in Nat /\ q.id # w
          BY <1>6, <2>0, <3>2 DEF Kernels
        <5>. QED BY <4>1, <5>1
      <4>2. ASSUME NEW r \in published, r.id < w
            PROVE  r.id < w + 1
        BY <1>6, <4>2
      <4>. QED BY <3>0, <4>0, <4>1, <4>2, Zenon DEF Quiet
    <3>. QED BY <3>1, <3>2, Zenon
  <2>4. ASSUME NEW p \in published, p.id \in gidx .. write_index
        PROVE  /\ cmdbuf'[p.id % FrameNum].dispatch <=> p.type = "kernel"
               /\ p.type = "kernel" /\ p.signal => cmdbuf'[p.id % FrameNum].post
               /\ Waits(p) => cmdbuf'[p.id % FrameNum].pre \/ Quiet(p.id)'
    <3>1. CASE p.id = write_index
      <4>1. p = Current /\ cmdbuf'[p.id % FrameNum] = f
        BY <1>6, <1>9, <3>1, Zenon
      <4>2. ~needs_barrier => Quiet(write_index)
        BY Zenon DEF WInv, CommandInv
      <4>3. ~needs_barrier => Quiet(p.id)'
        BY <2>2, <3>1, <4>2, Zenon
      <4>. QED BY <4>1, <4>3, Zenon
    <3>2. CASE p.id \in gidx .. write_index - 1
      <4>1. cmdbuf'[p.id % FrameNum] = cmdbuf[p.id % FrameNum]
        BY <1>9, <3>2, Zenon
      <4>2. Quiet(p.id) => Quiet(p.id)'
        BY <2>2, Zenon
      <4>. QED BY <3>2, <4>1, <4>2, Zenon DEF WInv, CommandInv
    <3>. QED BY <1>10, <2>4, <3>1, <3>2, Zenon
  <2>5. \A i : i \in gidx' .. write_index' - 1 => i \in gidx .. write_index
    BY <1>0, <1>4, <1>5
  <2>6. published' = published
    BY Zenon
  <2>. QED BY <2>3, <2>4, <2>5, <2>6, Zenon DEF CommandInv
<1>14. WorkInv' /\ BarrierBit'
  BY <1>5, WorkFrame, BarrierBitFrame, Zenon DEF WInv
<1>15. CompletionAfterWork'
  <2> SUFFICES ASSUME NEW p \in published, p.signal, sig'[p.id] < 1
               PROVE  /\ p.type \in {"and", "or"} => EarlierKernelsDone(p)
                      /\ p.type = "kernel" => p.id \in done
    BY <1>5, Zenon DEF CompletionAfterWork, EarlierKernelsDone, Kernels
  <2>1. CASE p.id = write_index
    BY <1>6, <2>1
  <2>2. CASE p.id # write_index
    <3>1. sig'[p.id] = sig[p.id]
      BY <2>2, PublishedPacket
    <3>. QED BY <3>1, Zenon DEF WInv, CompletionAfterWork
  <2>. QED BY <2>1, <2>2
<1>. QED BY <1>7, <1>8, <1>12, <1>13, <1>14, <1>15, Zenon DEF WInv

\* What the thread finds when it translates: the signal of the packet is not completed, and
\* it owes no other signal.
LEMMA WSwitch ==
  ASSUME IInv, WInv, pc = "switch"
  PROVE  /\ Current.id = write_index /\ write_index \in Ids
         /\ sig[write_index] = 1 /\ signal_addr = None
<1>1. /\ Current.id = write_index /\ write_index \in Ids /\ write_index \in Nat
  BY SwitchPacket, CountersAreNat DEF IInv
<1>2. write_index <= write_index
  BY <1>1
<1>3. sig[write_index] = 1
  BY <1>1, <1>2, Zenon DEF WInv, SigInv
<1>4. signal_addr = None
  BY DEF WInv, SigInv
<1>. QED BY <1>1, <1>3, <1>4

\* KernelDispatchAqlToPm4.
LEMMA WSwitchKernelStep ==
  ASSUME IInv, WInv, SwitchKernel
  PROVE  WInv'
<1>1. /\ pc = "switch" /\ Emit(KernelFrame(Current)) /\ Current.type = "kernel"
      /\ needs_barrier' = NeedsBarrierAfter(Current)
      /\ signal_addr' = SignalByCpu(Current)
      /\ ready_to_submit' = (ready_to_submit \/ ~KeepMerging(Current))
      /\ pc' = IF ready_to_submit' THEN "submit" ELSE "process"
      /\ UNCHANGED <<ring_wptr, published, hostvars, drivervars, gpuvars, sig>>
  BY DEF SwitchKernel
<1>2. /\ Current.id = write_index /\ write_index \in Ids
      /\ sig[write_index] = 1 /\ signal_addr = None
  BY <1>1, WSwitch, Zenon
<1> DEFINE f == KernelFrame(Current)
<1>3. /\ f.dispatch = TRUE
      /\ f.pre = (Current.barrier /\ needs_barrier)
      /\ f.post = Current.signal
      /\ f.signal = (Current.signal /\ PlatformAtomics)
  BY DEF KernelFrame, SignalByGpu
<1>4. Emit(f)
  BY <1>1
<1> HIDE DEF f
<1>5. /\ f.dispatch <=> Current.type = "kernel"
      /\ Current.type = "kernel" /\ Current.signal => f.post
      /\ Waits(Current) => f.pre \/ ~needs_barrier
      /\ f.signal => PlatformAtomics
  BY <1>1, <1>3, Zenon DEF Waits
<1>6. needs_barrier' \/ Drains(Current)
  BY <1>1, Zenon DEF NeedsBarrierAfter, Drains
<1>7. pc' = "submit" \/ (pc' = "process" /\ ~Current.signal)
  BY <1>1, Zenon DEF KeepMerging
<1>8. signal_addr' # None => ~PlatformAtomics /\ Current.signal /\ signal_addr' = write_index
  BY <1>1, <1>2 DEF SignalByCpu
<1>9. sig' = sig
  BY <1>1
<1>. QED BY <1>1, <1>2, <1>4, <1>5, <1>6, <1>7, <1>8, <1>9, WEmit, Zenon

\* BarrierGenericAqlToPm4.
LEMMA WSwitchBarrierStep ==
  ASSUME IInv, WInv, SwitchBarrier
  PROVE  WInv'
<1>1. /\ pc = "switch" /\ Emit(BarrierFrame(Current)) /\ Current.type \in {"and", "or"}
      /\ needs_barrier' = NeedsBarrierAfter(Current)
      /\ signal_addr' = SignalByCpu(Current) /\ pc' = "submit"
      /\ UNCHANGED <<ring_wptr, published, hostvars, drivervars, gpuvars, sig>>
  BY DEF SwitchBarrier
<1>2. /\ Current.id = write_index /\ write_index \in Ids
      /\ sig[write_index] = 1 /\ signal_addr = None
  BY <1>1, WSwitch, Zenon
<1> DEFINE f == BarrierFrame(Current)
<1>3. /\ f.dispatch = FALSE
      /\ f.pre = (Current.signal /\ needs_barrier)
      /\ f.signal = (Current.signal /\ PlatformAtomics)
  BY DEF BarrierFrame, SignalByGpu
<1>4. Emit(f) /\ Current.type # "kernel"
  BY <1>1
<1> HIDE DEF f
<1>5. /\ f.dispatch <=> Current.type = "kernel"
      /\ Waits(Current) => f.pre \/ ~needs_barrier
      /\ f.signal => PlatformAtomics
  BY <1>3, <1>4, Zenon DEF Waits
<1>6. needs_barrier' \/ Drains(Current) \/ ~needs_barrier
  <2>1. needs_barrier \in BOOLEAN /\ Current.signal \in BOOLEAN
    BY <1>1, SwitchPacket
  <2>2. needs_barrier' <=> needs_barrier /\ ~Current.signal
    BY <1>1, <1>4, Zenon DEF NeedsBarrierAfter
  <2>3. Current.signal => Drains(Current)
    BY <1>1 DEF Drains
  <2>. QED BY <2>1, <2>2, <2>3, Zenon
<1>7. signal_addr' # None => ~PlatformAtomics /\ signal_addr' = write_index
  BY <1>1, <1>2 DEF SignalByCpu
<1>8. sig' = sig
  BY <1>1
<1>. QED BY <1>1, <1>2, <1>4, <1>5, <1>6, <1>7, <1>8, WEmit, Zenon

\* VendorSpecificAqlToPm4: a packet that is skipped completes its signal at once.
LEMMA WSwitchVendorStep ==
  ASSUME IInv, WInv, SwitchVendor
  PROVE  WInv'
<1>1. /\ pc = "switch" /\ Emit(VendorFrame(Current)) /\ Current.type = "vendor"
      /\ signal_addr' = IF VendorProcess THEN SignalByCpu(Current) ELSE signal_addr
      /\ sig' = VendorSignal(Current) /\ pc' = "submit"
      /\ UNCHANGED <<ring_wptr, published, needs_barrier, hostvars, drivervars, gpuvars>>
  BY DEF SwitchVendor
<1>2. /\ Current.id = write_index /\ write_index \in Ids
      /\ sig[write_index] = 1 /\ signal_addr = None
  BY <1>1, WSwitch
<1> DEFINE f == VendorFrame(Current)
<1>3. /\ f.dispatch = FALSE
      /\ f.signal = (VendorProcess /\ Current.signal /\ PlatformAtomics)
  BY DEF VendorFrame, SignalByGpu
<1>4. Emit(f)
  BY <1>1
<1> HIDE DEF f
<1>5. /\ f.dispatch <=> Current.type = "kernel"
      /\ ~Waits(Current)
      /\ f.signal => PlatformAtomics /\ VendorProcess
  <2>1. Current.type # "kernel" /\ Current.type \notin {"and", "or"}
    BY <1>1
  <2>. QED BY <1>3, <2>1, Zenon DEF Waits
<1>6. /\ VendorProcess => sig' = sig
      /\ sig'[write_index] \in {0, 1}
      /\ \A i \in Ids \ {write_index} : sig'[i] = sig[i]
  BY <1>1, <1>2 DEF VendorSignal, IInv, TypeOK, SigType, SignalIds
<1>7. signal_addr' # None => ~PlatformAtomics /\ signal_addr' = write_index /\ VendorProcess
  BY <1>1, <1>2, Zenon DEF SignalByCpu
<1>8. needs_barrier' \/ ~needs_barrier
  BY <1>1
<1>. QED BY <1>1, <1>2, <1>4, <1>5, <1>6, <1>7, <1>8, WEmit, Zenon

\* Without platform atomics the thread completes the signal of the packet it submitted
\* last, after everything up to it has been executed.
LEMMA WSignalWaitStep ==
  ASSUME IInv, WInv, SignalWait
  PROVE  WInv'
<1>0. /\ write_index \in Nat /\ sync_value \in Nat /\ ring_wptr \in Nat /\ submitted \in Nat
      /\ gidx \in Nat
  BY CountersAreNat DEF IInv
<1>1. /\ UNCHANGED <<hostvars, ringvars, drivervars, gpuvars, cmdbuf, write_index, needs_barrier>>
      /\ pc = "signal_wait" /\ pc' = "process" /\ sync_value >= write_index
      /\ sig' = [sig EXCEPT ![signal_addr] = @ - 1]
      /\ signal_addr' = None
  BY DEF SignalWait
<1>2. UNCHANGED <<ppc, slot, ring, ring_wptr, published, submitted, sync_value, gidx, gphase,
                  running, done>>
  BY <1>1 DEF hostvars, ringvars, drivervars, gpuvars
<1>3. /\ signal_addr \in Ids /\ ~PlatformAtomics /\ signal_addr = write_index - 1
      /\ sig[signal_addr] = 1
  <2>1. signal_addr # None
    BY <1>1 DEF IInv, ThreadInv
  <2>. QED BY <2>1 DEF WInv, SigInv, IInv, TypeOK, BatchType
<1>4. sig'[signal_addr] = 0 /\ \A i \in Ids \ {signal_addr} : sig'[i] = sig[i]
  BY <1>1, <1>3 DEF IInv, TypeOK, SigType, SignalIds
<1>5. PublishedInv' /\ HeldInv'
  BY <1>0, <1>1, <1>2, PublishedFrame, HeldFrame DEF WInv
<1>6. SigInv'
  <2>1. \A i \in Ids : sig'[i] \in {0, 1}
    BY <1>4 DEF WInv, SigInv
  <2>2. ASSUME NEW i \in Ids, write_index <= i PROVE sig'[i] = 1
    <3>1. i # signal_addr /\ sig[i] = 1
      BY <1>0, <1>3, <2>2 DEF WInv, SigInv, Ids
    <3>. QED BY <1>4, <3>1
  <2>3. ASSUME NEW i \in gidx .. write_index - 1 PROVE ~cmdbuf[i % FrameNum].signal
    BY <1>3, Zenon DEF WInv, SigInv
  <2>. QED BY <1>1, <1>2, <2>1, <2>2, <2>3 DEF SigInv
<1>7. CommandInv' /\ WorkInv' /\ BarrierBit'
  <2>1. \A i : Passed(i)' <=> Passed(i)
    BY <1>2 DEF Passed
  <2>2. CommandInv'
    BY <1>0, <1>1, <1>2, <2>1, CommandFrame DEF WInv
  <2>. QED BY <1>1, <1>2, <2>2, WorkFrame, BarrierBitFrame DEF WInv
<1>8. CompletionAfterWork'
  <2> SUFFICES ASSUME NEW p \in published, p.signal, sig'[p.id] < 1
               PROVE  /\ p.type \in {"and", "or"} => EarlierKernelsDone(p)
                      /\ p.type = "kernel" => p.id \in done
    BY <1>2 DEF CompletionAfterWork, EarlierKernelsDone, Kernels
  <2>1. CASE p.id = signal_addr
    <3>1. p.id < sync_value
      BY <1>0, <1>1, <1>3, <2>1
    <3>2. \A q \in Kernels : q.id < sync_value => q.id \in done
      BY Zenon DEF WInv, WorkInv
    <3>3. p.type = "kernel" => p.id \in done
      BY <3>1, <3>2 DEF Kernels
    <3>4. ASSUME NEW q \in Kernels, q.id < p.id PROVE q.id < sync_value
      <4>1. q.id \in Nat /\ p.id \in Nat
        BY PublishedPacket DEF Kernels
      <4>. QED BY <1>0, <3>1, <3>4, <4>1
    <3>. QED BY <3>2, <3>3, <3>4, Zenon DEF EarlierKernelsDone
  <2>2. CASE p.id # signal_addr
    <3>1. sig'[p.id] = sig[p.id]
      BY <1>4, <2>2, PublishedPacket
    <3>. QED BY <3>1 DEF WInv, CompletionAfterWork
  <2>. QED BY <2>1, <2>2
<1>. QED BY <1>5, <1>6, <1>7, <1>8, Zenon DEF WInv

-----------------------------------------------------------------------------
(* The GPU executes commands. *)

\* What a step of the GPU leaves alone.
LEMMA WGpuFrame ==
  ASSUME IInv, WInv, CommandInv', WorkInv', BarrierBit', SigInv', CompletionAfterWork',
         UNCHANGED <<hostvars, ringvars, batchvars, drivervars, pc>>
  PROVE  WInv'
<1>0. ring_wptr \in Nat /\ submitted \in Nat
  BY CountersAreNat DEF IInv
<1>1. UNCHANGED <<ppc, slot, ring, ring_wptr, published, submitted, write_index>>
  BY DEF hostvars, ringvars, drivervars, batchvars
<1>2. /\ ring_wptr' \in Nat /\ ring_wptr <= ring_wptr'
      /\ submitted' \in Nat /\ submitted <= submitted'
  BY <1>0, <1>1
<1>3. /\ PublishedInv /\ HeldInv /\ published' = published /\ UNCHANGED <<published, write_index>>
      /\ \A i \in 0 .. RingSize - 1 : ring'[i] # Invalid => ring'[i] = ring[i]
      /\ \A r \in Producers : ppc'[r] = "reserved" =>
           (ppc[r] = "reserved" /\ slot'[r] = slot[r]) \/ slot'[r] = ring_wptr
      /\ pc \in {"submit", "exited"} => pc' \in {"submit", "exited"}
  BY <1>1, Zenon DEF WInv
<1>4. PublishedInv'
  BY <1>2, <1>3, PublishedFrame, Zenon
<1>5. HeldInv'
  BY <1>2, <1>3, HeldFrame, Zenon
<1>. QED BY <1>4, <1>5, Zenon DEF WInv

\* The commands of the packet the GPU is at.
LEMMA GpuCommands ==
  ASSUME IInv, WInv, gidx < submitted, NEW p \in published, p.id = gidx
  PROVE  /\ GpuFrame.dispatch <=> p.type = "kernel"
         /\ p.type = "kernel" /\ p.signal => GpuFrame.post
         /\ Waits(p) => GpuFrame.pre \/ Quiet(gidx)
<1>1. p.id \in gidx .. write_index - 1
  BY CountersAreNat DEF IInv, OrderInv
<1>. QED BY <1>1 DEF WInv, CommandInv, GpuFrame

\* With nothing running every kernel that was started is done.
LEMMA NothingRuns ==
  ASSUME WInv, running = {}, NEW q \in Kernels, Started(q.id)
  PROVE  q.id \in done
  BY DEF WInv, WorkInv

\* The GPU starts a packet that waits for earlier kernels only when these are done.
LEMMA GpuDrained ==
  ASSUME IInv, WInv, gidx < submitted, GpuFrame.pre => running = {},
         NEW p \in published, p.id = gidx, Waits(p)
  PROVE  EarlierKernelsDone(p)
<1> SUFFICES ASSUME NEW q \in Kernels, q.id < gidx
             PROVE  q.id \in done
  BY DEF EarlierKernelsDone
<1>1. CASE GpuFrame.pre
  <2>1. Started(q.id)
    BY DEF Started
  <2>. QED BY <1>1, <2>1, NothingRuns
<1>2. CASE Quiet(gidx)
  <2>1. ASSUME NEW r \in published, r.id < gidx PROVE Passed(r.id)
    BY <2>1 DEF Passed
  <2>. QED BY <1>2, <2>1, Zenon DEF Quiet
<1>. QED BY <1>1, <1>2, GpuCommands

\* When the GPU completes a packet that drains, every kernel up to it is done.
LEMMA GpuPasses ==
  ASSUME IInv, WInv, gphase = "signal", GpuFrame.post => running = {},
         NEW p \in published, p.id = gidx, Drains(p),
         NEW q \in Kernels, q.id <= gidx
  PROVE  q.id \in done
<1>0. gidx < submitted /\ gidx \in Nat
  BY CountersAreNat DEF IInv, OrderInv
<1>1. q \in published /\ q.type = "kernel" /\ q.id \in Nat
  BY PublishedPacket DEF Kernels
<1>2. Started(q.id)
  BY <1>0, <1>1 DEF Started
<1>3. CASE p.type = "kernel"
  <2>1. running = {}
    BY <1>0, <1>3, GpuCommands DEF Drains
  <2>. QED BY <1>2, <2>1, NothingRuns
<1>4. CASE p.type \in {"and", "or"}
  <2>1. q.id # gidx
    BY <1>1, <1>4, Zenon DEF WInv, PublishedInv
  <2>2. q.id < p.id
    BY <1>0, <1>1, <2>1
  <2>3. Waits(p) /\ p.type # "kernel"
    BY <1>4 DEF Waits, Drains
  <2>4. EarlierKernelsDone(p)
    BY <2>3, Zenon DEF WInv, WorkInv
  <2>. QED BY <2>2, <2>4, Zenon DEF EarlierKernelsDone
<1>. QED BY <1>3, <1>4 DEF Drains

\* The GPU starts the commands of a packet.
LEMMA WGpuStart ==
  ASSUME IInv, WInv, GpuStart
  PROVE  WInv'
<1>1. /\ gphase = "start" /\ gphase' = "signal" /\ gidx < submitted
      /\ GpuFrame.pre => running = {}
      /\ running' = IF GpuFrame.dispatch THEN running \cup {GpuFrame.id} ELSE running
      /\ UNCHANGED <<sync_value, gidx, done, hostvars, ringvars, batchvars, drivervars, pc, cmdbuf, sig>>
  BY DEF GpuStart
<1>2. UNCHANGED <<published, write_index, needs_barrier, signal_addr>>
  BY <1>1 DEF ringvars, batchvars
<1>3. GpuFrame.id = gidx /\ gidx \in Nat
  BY <1>1, GpuFrameIntact, CountersAreNat DEF IInv
<1>4. gidx' \in Nat /\ gidx <= gidx' /\ \A i : Passed(i)' <=> Passed(i)
  BY <1>1, <1>3 DEF Passed
<1>5. SigInv' /\ CommandInv'
  BY <1>1, <1>2, <1>4, SigFrame, CommandFrame DEF WInv
<1>6. \A i : Started(i)' <=> Started(i) \/ i = gidx
  BY <1>1 DEF Started
<1>7. UNCHANGED <<published, done>> /\ Kernels' = Kernels
  BY <1>1, <1>2 DEF Kernels
<1>8. \A p \in published : EarlierKernelsDone(p)' <=> EarlierKernelsDone(p)
  BY <1>7, Zenon DEF EarlierKernelsDone
<1>9. WorkInv'
  <2>1. \A i \in running' \cup done' : Started(i)'
    BY <1>1, <1>3, <1>6 DEF WInv, WorkInv
  <2>2. ASSUME NEW q \in Kernels, Started(q.id)'
        PROVE  q.id \in running' \cup done
    <3>1. CASE Started(q.id)
      BY <1>1, <3>1 DEF WInv, WorkInv
    <3>2. CASE q.id = gidx
      BY <1>1, <1>3, <3>2, GpuCommands DEF Kernels
    <3>. QED BY <1>6, <2>2, <3>1, <3>2
  <2>3. ASSUME NEW q \in Kernels, q.id < sync_value PROVE q.id \in done
    BY <2>3, Zenon DEF WInv, WorkInv
  <2>4. ASSUME NEW p \in published, p.id = gidx, Waits(p)
        PROVE  EarlierKernelsDone(p)'
    BY <1>1, <1>8, <2>4, GpuDrained
  <2>. QED BY <1>1, <1>7, <2>1, <2>2, <2>3, <2>4, Zenon DEF WorkInv
<1>10. BarrierBit'
  <2> SUFFICES ASSUME NEW p \in Kernels, p.barrier, p.id \in running' \cup done
               PROVE  EarlierKernelsDone(p)
    BY <1>7, <1>8 DEF BarrierBit, Kernels
  <2>1. CASE p.id \in running \cup done
    BY <2>1, Zenon DEF WInv, BarrierBit
  <2>2. CASE p.id = gidx
    <3>1. p \in published /\ Waits(p)
      BY DEF Kernels, Waits
    <3>. QED BY <1>1, <2>2, <3>1, GpuDrained
  <2>. QED BY <1>1, <1>3, <2>1, <2>2
<1>11. CompletionAfterWork'
  BY <1>1, <1>7, CompletionFrame DEF WInv
<1>. QED BY <1>1, <1>5, <1>9, <1>10, <1>11, WGpuFrame

\* The GPU completes a packet.
LEMMA WGpuSignal ==
  ASSUME IInv, WInv, GpuSignal
  PROVE  WInv'
<1>1. /\ gphase = "signal" /\ gphase' = "rptr"
      /\ GpuFrame.post => running = {}
      /\ sig' = IF GpuFrame.signal THEN [sig EXCEPT ![GpuFrame.id] = @ - 1] ELSE sig
      /\ UNCHANGED <<sync_value, gidx, running, done, hostvars, ringvars, batchvars, drivervars,
                     pc, cmdbuf>>
  BY DEF GpuSignal
<1>2. UNCHANGED <<published, write_index, needs_barrier, signal_addr>>
  BY <1>1 DEF ringvars, batchvars
<1>3. /\ gidx < submitted /\ submitted <= write_index
      /\ gidx \in Nat /\ submitted \in Nat /\ write_index \in Nat
  BY <1>1, CountersAreNat DEF IInv, OrderInv
<1>4. GpuFrame.id = gidx /\ gidx \in Ids
  BY <1>3, GpuFrameIntact
<1>5. /\ \A i : Passed(i)' <=> Passed(i) \/ i = gidx
      /\ \A i : Started(i)' <=> Started(i)
      /\ ~Passed(gidx)
  BY <1>1, <1>3 DEF Passed, Started
<1>6. Kernels' = Kernels
  BY <1>2 DEF Kernels
<1>7. /\ GpuFrame.signal => PlatformAtomics /\ sig[gidx] = 1 /\ sig'[gidx] = 0
      /\ ~GpuFrame.signal => sig' = sig
      /\ \A i \in Ids \ {gidx} : sig'[i] = sig[i]
  <2>1. gidx \in gidx .. write_index - 1
    BY <1>3
  <2>2. GpuFrame.signal => PlatformAtomics /\ (Passed(gidx) \/ sig[gidx] = 1)
    BY <2>1, Zenon DEF WInv, SigInv, GpuFrame
  <2>. QED BY <1>1, <1>4, <1>5, <2>2 DEF IInv, TypeOK, SigType, SignalIds
<1>8. SigInv'
  <2>1. \A i \in Ids : sig'[i] \in {0, 1}
    <3>1. \A i \in Ids : sig[i] \in {0, 1}
      BY Zenon DEF WInv, SigInv
    <3>. QED BY <1>7, <3>1
  <2>2. ASSUME NEW i \in Ids, write_index <= i PROVE sig'[i] = 1
    <3>1. i # gidx
      BY <1>3, <2>2
    <3>2. sig[i] = 1
      BY <2>2, Zenon DEF WInv, SigInv
    <3>. QED BY <1>7, <3>1, <3>2
  <2>3. ASSUME NEW i \in gidx .. write_index - 1, cmdbuf[i % FrameNum].signal
        PROVE  PlatformAtomics /\ (Passed(i)' \/ sig'[i] = 1)
    <3>1. PlatformAtomics /\ (Passed(i) \/ sig[i] = 1)
      BY <2>3, Zenon DEF WInv, SigInv
    <3>2. i \in Ids
      <4>1. write_index \in 0 .. MaxPackets /\ MaxPackets \in Nat
        BY CountersAreNat DEF IInv, TypeOK, BatchType
      <4>. QED BY <1>3, <4>1 DEF Ids
    <3>3. i # gidx => sig'[i] = sig[i]
      BY <1>7, <3>2
    <3>. QED BY <1>5, <3>1, <3>3, Zenon
  <2>4. signal_addr # None =>
          /\ ~PlatformAtomics
          /\ pc \in {"submit", "signal_wait", "exited"}
          /\ signal_addr = write_index - 1
          /\ sig[signal_addr] = 1
    BY Zenon DEF WInv, SigInv
  <2>5. signal_addr # None => sig' = sig
    BY <1>7, <2>4, Zenon
  <2>6. UNCHANGED <<pc, gidx, cmdbuf, write_index, signal_addr>>
    BY <1>1, <1>2
  <2>. QED BY <2>1, <2>2, <2>3, <2>4, <2>5, <2>6 DEF SigInv
<1>9. CommandInv'
  <2>1. \A r \in published : Drains(r) /\ Passed(r.id)' =>
          Passed(r.id) \/ \A q \in Kernels : q.id <= r.id => q.id \in done'
    BY <1>1, <1>5, GpuPasses
  <2>. QED BY <1>1, <1>2, <1>3, <2>1, CommandFrame DEF WInv
<1>10. WorkInv'
  <2>1. gphase' # "signal" /\ UNCHANGED <<running, done, sync_value>>
    BY <1>1
  <2>. QED BY <1>5, <1>6, <2>1, Zenon DEF WInv, WorkInv
<1>11. BarrierBit'
  BY <1>1, <1>2, BarrierBitFrame DEF WInv
<1>12. CompletionAfterWork'
  <2> SUFFICES ASSUME NEW p \in published, p.signal, sig'[p.id] < 1
               PROVE  /\ p.type \in {"and", "or"} => EarlierKernelsDone(p)
                      /\ p.type = "kernel" => p.id \in done
    BY <1>1, <1>2 DEF CompletionAfterWork, EarlierKernelsDone, Kernels
  <2>1. CASE p.id = gidx
    <3>1. ASSUME p.type \in {"and", "or"}, NEW q \in Kernels, q.id < p.id
          PROVE  q.id \in done
      <4>1. Drains(p)
        BY <3>1 DEF Drains
      <4>2. q.id \in Nat
        BY PublishedPacket DEF Kernels
      <4>3. q.id <= gidx
        BY <1>3, <2>1, <3>1, <4>2
      <4>. QED BY <1>1, <2>1, <4>1, <4>3, GpuPasses
    <3>2. ASSUME p.type = "kernel" PROVE p.id \in done
      <4>1. Drains(p) /\ p \in Kernels /\ p.id <= gidx
        BY <1>3, <2>1, <3>2 DEF Drains, Kernels
      <4>. QED BY <1>1, <2>1, <4>1, GpuPasses
    <3>. QED BY <3>1, <3>2 DEF EarlierKernelsDone
  <2>2. CASE p.id # gidx
    <3>1. sig'[p.id] = sig[p.id]
      BY <1>7, <2>2, PublishedPacket
    <3>. QED BY <3>1 DEF WInv, CompletionAfterWork
  <2>. QED BY <2>1, <2>2
<1>. QED BY <1>1, <1>8, <1>9, <1>10, <1>11, <1>12, WGpuFrame

\* The GPU retires a packet.
LEMMA WGpuRptr ==
  ASSUME IInv, WInv, GpuRptr
  PROVE  WInv'
<1>1. /\ gphase = "rptr" /\ gphase' = "start" /\ gidx' = gidx + 1
      /\ UNCHANGED <<sync_value, running, done, hostvars, ringvars, batchvars, drivervars, pc,
                     cmdbuf, sig>>
  BY DEF GpuRptr
<1>2. UNCHANGED <<published, write_index, needs_barrier, signal_addr>>
  BY <1>1 DEF ringvars, batchvars
<1>3. gidx \in Nat /\ gidx' \in Nat /\ gidx <= gidx'
  BY <1>1, CountersAreNat DEF IInv
<1>4. \A i \in Ids : (Passed(i)' <=> Passed(i)) /\ (Started(i)' <=> Started(i))
  BY <1>1, <1>3 DEF Passed, Started, Ids
<1>5. \A p \in published : p.id \in Ids
  BY PublishedPacket
<1>6. SigInv'
  BY <1>1, <1>2, <1>3, <1>4, SigFrame DEF WInv
<1>7. CommandInv'
  <2>1. \A r \in published : Passed(r.id)' => Passed(r.id)
    BY <1>4, <1>5
  <2>. QED BY <1>1, <1>2, <1>3, <2>1, CommandFrame DEF WInv
<1>8. WorkInv'
  <2>1. gphase' # "signal" /\ UNCHANGED <<running, done, sync_value>> /\ Kernels' = Kernels
    BY <1>1, <1>2 DEF Kernels
  <2>2. \A i \in running \cup done : i \in Ids
    BY DEF IInv, TypeOK, GpuType
  <2>3. \A q \in Kernels : q.id \in Ids
    BY <1>5 DEF Kernels
  <2>. QED BY <1>4, <2>1, <2>2, <2>3, Zenon DEF WInv, WorkInv
<1>9. BarrierBit'
  BY <1>1, <1>2, BarrierBitFrame DEF WInv
<1>10. CompletionAfterWork'
  BY <1>1, <1>2, CompletionFrame DEF WInv
<1>. QED BY <1>1, <1>6, <1>7, <1>8, <1>9, <1>10, WGpuFrame

\* A kernel finishes, or the fence moves.
LEMMA WGpuDone ==
  ASSUME IInv, WInv,
         (\E i \in running : GpuDispatchDone(i)) \/ (\E v \in fences : GpuFence(v))
  PROVE  WInv'
<1>1. /\ UNCHANGED <<gidx, gphase, hostvars, ringvars, batchvars, drivervars, pc, cmdbuf, sig>>
      /\ running' \cup done' = running \cup done /\ done \subseteq done'
      /\ \/ sync_value' = sync_value
         \/ /\ sync_value' <= gidx /\ sync_value' \in fences /\ UNCHANGED <<running, done>>
            /\ \A i \in running : i >= sync_value'
  BY Zenon DEF GpuDispatchDone, GpuFence
<1>2. UNCHANGED <<published, write_index, needs_barrier, signal_addr>>
  BY <1>1 DEF ringvars, batchvars
<1>3. /\ gidx' \in Nat /\ gidx <= gidx' /\ gidx \in Nat
      /\ \A i : (Passed(i)' <=> Passed(i)) /\ (Started(i)' <=> Started(i))
  BY <1>1, CountersAreNat DEF IInv, Passed, Started
<1>4. SigInv' /\ CommandInv'
  BY <1>1, <1>2, <1>3, SigFrame, CommandFrame DEF WInv
<1>5. Kernels' = Kernels
  BY <1>2 DEF Kernels
<1>6. \A p \in published : EarlierKernelsDone(p) => EarlierKernelsDone(p)'
  BY <1>1, <1>5 DEF EarlierKernelsDone
<1>7. WorkInv'
  <2>1. \A i \in running' \cup done' : Started(i)'
    BY <1>1, <1>3 DEF WInv, WorkInv
  <2>2. \A q \in Kernels : Started(q.id)' => q.id \in running' \cup done'
    BY <1>1, <1>3 DEF WInv, WorkInv
  <2>3. ASSUME NEW q \in Kernels, q.id < sync_value' PROVE q.id \in done'
    <3>1. CASE sync_value' = sync_value
      BY <1>1, <2>3, <3>1 DEF WInv, WorkInv
    <3>2. CASE /\ sync_value' <= gidx /\ sync_value' \in fences /\ UNCHANGED <<running, done>>
               /\ \A i \in running : i >= sync_value'
      <4>1. sync_value' \in Nat /\ q.id \in Nat
        <5>1. sync_value' \in 0 .. MaxPackets
          BY <3>2 DEF IInv, TypeOK, DriverType
        <5>. QED BY <5>1, PublishedPacket, ConstantsAssumption DEF Kernels
      <4>2. q.id < gidx /\ q.id \notin running
        BY <1>3, <2>3, <3>2, <4>1
      <4>3. Started(q.id)
        BY <4>2 DEF Started
      <4>. QED BY <3>2, <4>2, <4>3 DEF WInv, WorkInv
    <3>. QED BY <1>1, <3>1, <3>2
  <2>4. \A p \in published :
          p.id = gidx /\ gphase = "signal" /\ p.type # "kernel" /\ Waits(p) => EarlierKernelsDone(p)'
    BY <1>6, Zenon DEF WInv, WorkInv
  <2>. QED BY <1>1, <1>2, <1>5, <2>1, <2>2, <2>3, <2>4, Zenon DEF WorkInv
<1>8. BarrierBit'
  BY <1>1, <1>2, <1>5, <1>6 DEF WInv, BarrierBit, Kernels
<1>9. CompletionAfterWork'
  BY <1>1, <1>2, CompletionFrame DEF WInv
<1>. QED BY <1>1, <1>4, <1>7, <1>8, <1>9, WGpuFrame

-----------------------------------------------------------------------------
(* The theorems about completion and barriers. *)

\* A queue that has just been created satisfies the invariant of completion.
LEMMA InitWInv ==
  ASSUME Init
  PROVE  WInv
<1>0. /\ published = {} /\ write_index = 0 /\ gidx = 0 /\ gphase = "start" /\ running = {}
      /\ done = {} /\ signal_addr = None /\ ring = [i \in 0 .. RingSize - 1 |-> Invalid]
      /\ sig = [s \in SignalIds |-> 1]
  BY DEF Init
<1>1. PublishedInv
  BY <1>0 DEF PublishedInv
<1>2. HeldInv /\ CommandInv /\ WorkInv /\ BarrierBit /\ CompletionAfterWork
  BY <1>0, Zenon DEF HeldInv, CommandInv, WorkInv, BarrierBit, CompletionAfterWork, Kernels, Quiet
<1>3. SigInv
  <2>1. \A i \in Ids : sig[i] = 1
    BY <1>0 DEF SignalIds
  <2>. QED BY <1>0, <2>1 DEF SigInv
<1>. QED BY <1>1, <1>2, <1>3, Zenon DEF WInv

\* Every step preserves the invariant of completion.
LEMMA NextWInv ==
  ASSUME FitsFrame, IInv, WInv, [Next]_vars
  PROVE  WInv'
<1>1. ASSUME NEW p \in Producers, Host(p) PROVE WInv'
  BY <1>1, WHostStep, WPublishStep DEF Host
<1>2. CASE Process
  BY <1>2, WLoopStep, WSwitchKernelStep, WSwitchBarrierStep, WSwitchVendorStep,
     NoOversize, WSubmitStep, WSignalWaitStep DEF Process
<1>3. CASE Gpu
  BY <1>3, WGpuStart, WGpuSignal, WGpuRptr, WGpuDone DEF Gpu
<1>4. CASE UNCHANGED vars
  <2>0. ring_wptr \in Nat /\ submitted \in Nat
    BY CountersAreNat DEF IInv
  <2>1. UNCHANGED <<hostvars, ringvars, batchvars, drivervars, gpuvars, pc, cmdbuf, sig>>
    BY <1>4 DEF vars
  <2>2. UNCHANGED <<ppc, slot, write_index, needs_barrier, signal_addr, submitted, ring,
                    ring_wptr, published>>
    BY <2>1 DEF hostvars, batchvars, drivervars, ringvars
  <2>3. HeldInv'
    BY <2>0, <2>1, <2>2, HeldFrame DEF WInv
  <2>. QED BY <2>0, <2>1, <2>2, <2>3, WControl
<1>. QED BY <1>1, <1>2, <1>3, <1>4, WDestroyStep, WLoopStep DEF Next

\* The invariant of completion holds in every state of the queue.
THEOREM CompletionInvariance ==
  ASSUME FitsFrame
  PROVE  Spec => [](IInv /\ WInv)
<1>1. Init => WInv
  BY InitWInv
<1>2. IInv /\ WInv /\ [Next]_vars => WInv'
  BY NextWInv
<1>. QED BY <1>1, <1>2, Invariance, PTL DEF Spec

\* A kernel with the barrier bit starts only when all earlier kernels are done: leaving out
\* barriers by needs_barrier (ComputeQueue::KernelDispatchAqlToPm4) is sound, whatever
\* mixture of kernels, barrier packets and vendor packets came before.
THEOREM BarrierHonoured ==
  ASSUME FitsFrame
  PROVE  Spec => []BarrierBit
<1>1. WInv => BarrierBit
  BY DEF WInv
<1>. QED BY <1>1, CompletionInvariance, PTL

\* A completion signal, decremented by the GPU or by the thread, is never ahead of the work
\* it stands for (KernelDispatchAqlToPm4, BarrierGenericAqlToPm4 and the wait in Process).
THEOREM CompletionSound ==
  ASSUME FitsFrame
  PROVE  Spec => []CompletionAfterWork
<1>1. WInv => CompletionAfterWork
  BY DEF WInv
<1>. QED BY <1>1, CompletionInvariance, PTL

\* The completion signal of a packet is decremented at most once, by whichever of the GPU,
\* the thread and the skipping of vendor packets has to.
THEOREM SignalledOnce ==
  ASSUME FitsFrame
  PROVE  Spec => []CompletedOnce
<1>1. IInv /\ WInv => CompletedOnce
  <2> SUFFICES ASSUME IInv, WInv, NEW p \in published
               PROVE  sig[p.id] \in {0, 1}
    BY DEF CompletedOnce
  <2>1. p.id \in Ids
    BY PublishedPacket
  <2>. QED BY <2>1, Zenon DEF WInv, SigInv
<1>. QED BY <1>1, CompletionInvariance, PTL

\* The thread never waits in BarrierGenericAqlToPm4 for a signal of this queue that its own
\* merging holds back.
THEOREM DependenciesInFlight ==
  ASSUME FitsFrame
  PROVE  Spec => []DepsSubmitted
<1>1. IInv /\ WInv => DepsSubmitted
  <2> SUFFICES ASSUME IInv, WInv, pc = "switch", NEW d \in Current.deps \cap Ids
               PROVE  d < submitted
    BY DEF DepsSubmitted
  <2>1. Current # Invalid /\ Current.id = write_index /\ write_index % RingSize \in 0 .. RingSize - 1
    BY CurrentPacket DEF IInv, ThreadInv
  <2>2. Current \in published
    BY <2>1 DEF WInv, PublishedInv, Current
  <2>3. d < Current.id /\ \E q \in published : q.id = d /\ q.signal
    BY <2>2, Zenon DEF WInv, PublishedInv
  <2>4. PICK q \in published : q.id = d /\ q.signal /\ q.id < write_index
    BY <2>1, <2>3
  <2>. QED BY <2>4 DEF WInv, HeldInv
<1>. QED BY <1>1, CompletionInvariance, PTL
=============================================================================
