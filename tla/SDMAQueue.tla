------------------------------ MODULE SDMAQueue ------------------------------
(***************************************************************************)
(* The SDMA queue (src/src/wddm/queue.cpp, class SDMAQueue).  Host threads *)
(* (ROCr) write copy commands into the ring, which is the command buffer   *)
(* itself, and commit them in order with a doorbell.  A thread per queue   *)
(* (SdmaThread) waits on the CPU for the signals polled at the head of     *)
(* each committed range, erases these polls, and submits the range with    *)
(* the running byte count as fence value; the fence is the read pointer of *)
(* the ring.  An index counts packets of one size.                         *)
(***************************************************************************)
EXTENDS Integers, Sequences

CONSTANTS RingSize,   \* cmdbuf_size, in packets
          MaxIndex,   \* bound: packets the host ever writes
          Hosts,      \* host threads
          Signals,    \* signals commands poll
          Shapes,     \* commands: sequences of packets, polls first
          MayFail     \* whether the calls into the kernel driver may fail

Poll(s) == [kind |-> "poll", signal |-> s]      \* the lower half, or 32 bits
PollHi(s) == [kind |-> "poll_hi", signal |-> s] \* the upper half of a 64-bit value
Copy == [kind |-> "copy"]
Nop == [kind |-> "nop"]                         \* padding, and what memset leaves of a poll

Packets == {Copy, Nop} \cup {Poll(s) : s \in Signals} \cup {PollHi(s) : s \in Signals}

\* IsPollPacket, of a packet
Polling(x) == x.kind \in {"poll", "poll_hi"}

ASSUME SdmaAssumption ==
  /\ RingSize \in Nat \ {0} /\ MaxIndex \in Nat /\ MayFail \in BOOLEAN
  /\ \A c \in Shapes :
       /\ c \in Seq(Packets) /\ c # <<>> /\ c[Len(c)] = Copy
       /\ \A j, k \in DOMAIN c : j < k /\ Polling(c[k]) => Polling(c[j])

VARIABLES
  ring,          \* slot -> [index, packet, after]: after is a history, the signals
                 \*   polled by the packets before it in its command
  ppc, span,     \* host threads, and the range each has reserved
  reserved, committed,        \* ROCr's cached reserve and commit indexes
  wptr_next, wptr_pre, wptr_queue, thread_stop,
  hpc,           \* the thread that runs the destructor
  pc, pendings, poll_pkt,     \* SdmaThread
  rptr_next,
  ibs,           \* IBs the driver holds: [start, end, fence]
  sync_value,    \* *sync_addr, the ring's read pointer
  goff,          \* packets of the first of them the GPU has run
  executed,      \* history: the packet the GPU has read last, {} or {[at, slot]}
  refused,       \* history: ranges whose submission failed
  sig            \* signals: 1 until completed

hostvars == <<ring, ppc, span, reserved, committed, wptr_next, hpc>>
bellvars == <<wptr_pre, wptr_queue, thread_stop>>
loopvars == <<pendings, poll_pkt>>
gpuvars == <<sync_value, goff, executed>>
vars == <<hostvars, bellvars, loopvars, pc, rptr_next, ibs, gpuvars, refused, sig>>

Empty == <<0, 0>>

Init ==
  /\ ring = [i \in 0 .. RingSize - 1 |-> [index |-> i - RingSize, packet |-> Nop, after |-> {}]]
  /\ ppc = [p \in Hosts |-> "idle"]
  /\ span = [p \in Hosts |-> Empty]
  /\ reserved = 0 /\ committed = 0
  /\ wptr_next = 0 /\ wptr_pre = 0 /\ wptr_queue = <<>> /\ thread_stop = FALSE
  /\ hpc = "run"
  /\ pc = "top" /\ pendings = <<>> /\ poll_pkt = 0
  /\ rptr_next = 0
  /\ ibs = <<>> /\ sync_value = 0 /\ goff = 0 /\ executed = {} /\ refused = {}
  /\ sig = [s \in Signals |-> 1]

-----------------------------------------------------------------------------
(* Host threads (external): ROCr's blit queue, then hsaKmtQueueRingDoorbell. *)

\* A command is written where it does not cross the end of the ring; what is left
\* before the end is padded by a command of its own.
Commands ==
  LET left == RingSize - (reserved % RingSize)
      fitting == {c \in Shapes : Len(c) <= left}
  IN IF fitting = Shapes THEN Shapes ELSE fitting \cup {[i \in 1 .. left |-> Nop]}

\* What the slot of the k-th packet of command c holds.
Slot(c, k) ==
  [index |-> reserved + k - 1, packet |-> c[k],
   after |-> {c[j].signal : j \in {j \in 1 .. k - 1 : Polling(c[j])}}]

\* Reserve room and write a command.
Write(p) ==
  /\ ppc[p] = "idle" /\ hpc = "run"
  /\ \E c \in Commands :
       /\ reserved + Len(c) <= MaxIndex
       /\ reserved + Len(c) - sync_value <= RingSize
       /\ span' = [span EXCEPT ![p] = <<reserved, reserved + Len(c)>>]
       /\ reserved' = reserved + Len(c)
       /\ ring' = [i \in DOMAIN ring |->
                     LET k == 1 + ((i - reserved) % RingSize)
                     IN IF k <= Len(c) THEN Slot(c, k) ELSE ring[i]]
  /\ ppc' = [ppc EXCEPT ![p] = "written"]
  /\ UNCHANGED <<committed, wptr_next, hpc, bellvars, loopvars, pc, rptr_next, ibs, gpuvars,
                 refused, sig>>

\* Wait for the commands before this one, and move the write pointer.
MoveWptr(p) ==
  /\ ppc[p] = "written"
  /\ committed = span[p][1]
  /\ wptr_next' = span[p][2]
  /\ ppc' = [ppc EXCEPT ![p] = "bell"]
  /\ UNCHANGED <<ring, span, reserved, committed, hpc, bellvars, loopvars, pc, rptr_next, ibs,
                 gpuvars, refused, sig>>

\* Mutant: nobody is notified.
NotifyOne_Never == pc' = pc

\* thread_cond_.notify_one()
NotifyOne == pc' = IF pc = "waiting" THEN "top" ELSE pc

\* RingDoorbell: the range is queued and the thread notified under the lock ...
RingDoorbell(p) ==
  /\ ppc[p] = "bell"
  /\ wptr_queue' = Append(wptr_queue, <<wptr_pre, wptr_next>>)
  /\ NotifyOne
  /\ ppc' = [ppc EXCEPT ![p] = "unlocked"]
  /\ UNCHANGED <<ring, span, reserved, committed, wptr_next, hpc, wptr_pre, thread_stop,
                 loopvars, rptr_next, ibs, gpuvars, refused, sig>>

\* Mutant: the start of the next range is forgotten.
DoorbellReturns_Stale(p) ==
  /\ ppc[p] = "unlocked"
  /\ ppc' = [ppc EXCEPT ![p] = "rung"]
  /\ UNCHANGED <<ring, span, reserved, committed, wptr_next, hpc, bellvars, loopvars, pc,
                 rptr_next, ibs, gpuvars, refused, sig>>

\* ... and the start of the next range is noted after the unlock.
DoorbellReturns(p) ==
  /\ ppc[p] = "unlocked"
  /\ wptr_pre' = wptr_next
  /\ ppc' = [ppc EXCEPT ![p] = "rung"]
  /\ UNCHANGED <<ring, span, reserved, committed, wptr_next, hpc, wptr_queue, thread_stop,
                 loopvars, pc, rptr_next, ibs, gpuvars, refused, sig>>

\* The next command may be committed.
Committed(p) ==
  /\ ppc[p] = "rung"
  /\ committed' = span[p][2]
  /\ span' = [span EXCEPT ![p] = Empty]
  /\ ppc' = [ppc EXCEPT ![p] = "idle"]
  /\ UNCHANGED <<ring, reserved, wptr_next, hpc, bellvars, loopvars, pc, rptr_next, ibs,
                 gpuvars, refused, sig>>

\* ~SDMAQueue, called when no host thread is submitting any more.
DestroyStop ==
  /\ hpc = "run"
  /\ \A p \in Hosts : ppc[p] = "idle"
  /\ thread_stop' = TRUE
  /\ hpc' = "notify"
  /\ UNCHANGED <<ring, ppc, span, reserved, committed, wptr_next, wptr_pre, wptr_queue,
                 loopvars, pc, rptr_next, ibs, gpuvars, refused, sig>>

DestroyNotify ==
  /\ hpc = "notify"
  /\ NotifyOne
  /\ hpc' = "join"
  /\ UNCHANGED <<ring, ppc, span, reserved, committed, wptr_next, bellvars, loopvars,
                 rptr_next, ibs, gpuvars, refused, sig>>

DestroyJoin ==
  /\ hpc = "join"
  /\ pc = "exited"
  /\ hpc' = "destroyed"
  /\ UNCHANGED <<ring, ppc, span, reserved, committed, wptr_next, bellvars, loopvars, pc,
                 rptr_next, ibs, gpuvars, refused, sig>>

\* A signal is completed by its producer.
Complete(s) ==
  /\ sig[s] = 1
  /\ sig' = [sig EXCEPT ![s] = 0]
  /\ UNCHANGED <<hostvars, bellvars, loopvars, pc, rptr_next, ibs, gpuvars, refused>>

-----------------------------------------------------------------------------
(* SdmaThread. *)

\* Mutant: the stop flag is not part of what the thread waits for.
Idle_NoStop == wptr_queue = <<>>

\* The condition under which the thread waits.
Idle == wptr_queue = <<>> /\ ~thread_stop

\* pendings.swap(wptr_queue_)
Swap ==
  /\ pendings' = wptr_queue
  /\ wptr_queue' = <<>>

\* IsPollPacket, of what a slot of the ring holds
IsPoll(k) == k \in DOMAIN ring /\ Polling(ring[k].packet)

\* Mutant: the index is not wrapped.
Wrap_None(i) == i

\* WrapIntoRocrRing
Wrap(i) == i % RingSize

\* One pass under thread_cond_lock_: wait, stop, or take the queued ranges.
Top ==
  /\ pc = "top"
  /\ \/ /\ Idle
        /\ pc' = "waiting"
        /\ UNCHANGED <<pendings, wptr_queue, poll_pkt>>
     \/ /\ ~Idle /\ thread_stop
        /\ pc' = "exited"
        /\ UNCHANGED <<pendings, wptr_queue, poll_pkt>>
     \/ /\ ~Idle /\ ~thread_stop
        /\ Swap
        /\ poll_pkt' = Wrap(Head(wptr_queue)[1])
        /\ pc' = "poll"
  /\ UNCHANGED <<hostvars, wptr_pre, thread_stop, rptr_next, ibs, gpuvars, refused, sig>>

\* A condition variable may wake without a notification.
SpuriousWake ==
  /\ pc = "waiting"
  /\ pc' = "top"
  /\ UNCHANGED <<hostvars, bellvars, loopvars, rptr_next, ibs, gpuvars, refused, sig>>

\* Two polls for the halves of one 64-bit value are one wait.
Skip ==
  IF /\ ring[poll_pkt].packet.kind = "poll_hi"
     /\ IsPoll(poll_pkt + 1)
     /\ ring[poll_pkt + 1].packet = Poll(ring[poll_pkt].packet.signal)
  THEN 2 ELSE 1

\* Mutant: the poll is erased without waiting for its signal.
SignalReached_Always == TRUE

\* hsakmt_hsa_signal_wait_relaxed returns
SignalReached == sig[ring[poll_pkt].packet.signal] = 0

\* A poll at the head of the range: wait for its signal, erase it, go on to the next.
WaitPoll ==
  /\ pc = "poll"
  /\ IsPoll(poll_pkt)
  /\ SignalReached
  /\ ring' = [i \in DOMAIN ring |-> IF i \in poll_pkt .. poll_pkt + Skip - 1
                                   THEN [ring[i] EXCEPT !.packet = Nop] ELSE ring[i]]
  /\ poll_pkt' = poll_pkt + Skip
  /\ UNCHANGED <<ppc, span, reserved, committed, wptr_next, hpc, bellvars, pendings, pc,
                 rptr_next, ibs, gpuvars, refused, sig>>

\* Mutant: the fence counts one packet too many.
PreparePacket_OffByOne(r) == rptr_next + (r[2] - r[1]) + 1

\* PreparePacket: the fence value of the range.
PreparePacket(r) == rptr_next + (r[2] - r[1])

\* The polls are done: PreparePacket and Submit, whose failure nobody looks at.
Submit ==
  /\ pc = "poll"
  /\ ~IsPoll(poll_pkt)
  /\ LET r == Head(pendings)
         rest == Tail(pendings)
     IN /\ rptr_next' = PreparePacket(r)
        /\ \/ /\ ibs' = Append(ibs, [start |-> r[1], end |-> r[2], fence |-> rptr_next'])
              /\ UNCHANGED refused
           \/ /\ MayFail
              /\ refused' = refused \cup (r[1] .. r[2] - 1)
              /\ UNCHANGED ibs
        /\ pendings' = rest
        /\ pc' = IF rest = <<>> THEN "top" ELSE "poll"
        /\ poll_pkt' = IF rest = <<>> THEN 0 ELSE Wrap(Head(rest)[1])
  /\ UNCHANGED <<hostvars, bellvars, gpuvars, sig>>

-----------------------------------------------------------------------------
(* The GPU (external): it runs the IBs in order and signals the fence of each. *)

Execute ==
  /\ ibs # <<>>
  /\ LET ib == Head(ibs)
         at == ib.start + goff
     IN /\ at < ib.end
        /\ executed' = {[at |-> at, slot |-> ring[Wrap(at)]]}
        /\ goff' = goff + 1
  /\ UNCHANGED <<hostvars, bellvars, loopvars, pc, rptr_next, ibs, sync_value, refused, sig>>

SignalFence ==
  /\ ibs # <<>>
  /\ Head(ibs).start + goff = Head(ibs).end
  /\ sync_value' = Head(ibs).fence
  /\ goff' = 0
  /\ executed' = {}
  /\ ibs' = Tail(ibs)
  /\ UNCHANGED <<hostvars, bellvars, loopvars, pc, rptr_next, refused, sig>>

-----------------------------------------------------------------------------
\* The host may stop submitting, and a destroyed queue does nothing.
Finished ==
  /\ hpc = "destroyed" /\ ibs = <<>> /\ \A s \in Signals : sig[s] = 0
  /\ UNCHANGED vars

SdmaThread == Top \/ WaitPoll \/ Submit
Gpu == Execute \/ SignalFence
Host(p) == MoveWptr(p) \/ RingDoorbell(p) \/ DoorbellReturns(p) \/ Committed(p)

Next ==
  \/ \E p \in Hosts : Write(p) \/ Host(p)
  \/ DestroyStop \/ DestroyNotify \/ DestroyJoin
  \/ \E s \in Signals : Complete(s)
  \/ SdmaThread \/ SpuriousWake \/ Gpu
  \/ Finished

Spec == Init /\ [][Next]_vars

\* The threads and the GPU run, a doorbell call returns, and polled signals are completed.
\* Nothing makes the host write, or destroy the queue, or the condition variable wake.
Fairness ==
  /\ WF_vars(SdmaThread) /\ WF_vars(Gpu)
  /\ \A p \in Hosts : WF_vars(Host(p))
  /\ WF_vars(DestroyNotify) /\ WF_vars(DestroyJoin)
  /\ \A s \in Signals : WF_vars(Complete(s))

FairSpec == Spec /\ Fairness

-----------------------------------------------------------------------------
\* Every variable has its type, and the scan for polls stays inside the ring.
TypeOK ==
  /\ \A i \in DOMAIN ring : /\ ring[i].index \in -RingSize .. MaxIndex
                            /\ ring[i].packet \in Packets
                            /\ ring[i].after \subseteq Signals
  /\ ppc \in [Hosts -> {"idle", "written", "bell", "unlocked", "rung"}]
  /\ span \in [Hosts -> (0 .. MaxIndex) \X (0 .. MaxIndex)]
  /\ {reserved, committed, wptr_next, wptr_pre, rptr_next, sync_value} \subseteq 0 .. MaxIndex
  /\ wptr_queue \in Seq((0 .. MaxIndex) \X (0 .. MaxIndex))
  /\ pendings \in Seq((0 .. MaxIndex) \X (0 .. MaxIndex))
  /\ thread_stop \in BOOLEAN
  /\ hpc \in {"run", "notify", "join", "destroyed"}
  /\ pc \in {"top", "waiting", "poll", "exited"}
  /\ poll_pkt \in 0 .. RingSize - 1
  /\ goff \in 0 .. RingSize
  /\ refused \subseteq 0 .. MaxIndex
  /\ sig \in [Signals -> {0, 1}]

\* Each range the thread takes starts at the fence value of the one before: the byte count
\* PreparePacket keeps is the ring index, although RingDoorbell notes the start of the next
\* range after it has released the lock.  ROCr reads the fence as the ring's read pointer.
FenceIsIndex == pc = "poll" => Head(pendings)[1] = rptr_next

\* The GPU reads, for every packet of an IB, what was written for that index: ROCr does not
\* reuse the packet's part of the ring before the fence of its range.
SlotIntact == \A e \in executed : e.slot.index = e.at

\* A copy runs only after the signals polled in front of it in its command are completed,
\* although SdmaThread erases the polls before the GPU can see them.
PollHonoured ==
  \A e \in executed : e.slot.packet = Copy => \A s \in e.slot.after : sig[s] = 0

\* Every committed packet is executed, unless the driver refuses its range or the queue is
\* being destroyed: no doorbell is lost between the test and the wait of SdmaThread.
Retired ==
  \A i \in 1 .. MaxIndex :
    wptr_next >= i ~> (thread_stop \/ sync_value >= i \/ i - 1 \in refused)

\* The destructor's join returns: the thread sees thread_stop_ wherever it is.
JoinReturns == thread_stop ~> hpc = "destroyed"

-----------------------------------------------------------------------------
(* The inductive invariant behind TypeOK, FenceIsIndex, SlotIntact and PollHonoured. *)

\* The ranges that were committed and not submitted yet, in order, and where they end.
Queued == pendings \o wptr_queue
QueueEnd == IF Queued = <<>> THEN rptr_next ELSE Queued[Len(Queued)][2]

\* They follow one another without a gap, from the read pointer on.
QueueInv ==
  /\ pc = "poll" <=> pendings # <<>>
  /\ rptr_next <= QueueEnd
  /\ \A k \in 1 .. Len(Queued) :
       /\ Queued[k][1] = IF k = 1 THEN rptr_next ELSE Queued[k - 1][2]
       /\ rptr_next <= Queued[k][1] /\ Queued[k][1] < Queued[k][2] /\ Queued[k][2] <= QueueEnd
  /\ \A j, k \in 1 .. Len(Queued) : j < k => Queued[j][2] <= Queued[k][1]

\* The hosts hold disjoint ranges, and the one that commits holds the first of them.
HostInv ==
  /\ committed <= reserved
  /\ \A p \in Hosts : ppc[p] # "idle" =>
       committed <= span[p][1] /\ span[p][1] < span[p][2] /\ span[p][2] <= reserved
  /\ \A p, q \in Hosts : p # q /\ ppc[p] # "idle" /\ ppc[q] # "idle" =>
       span[p][2] <= span[q][1] \/ span[q][2] <= span[p][1]
  /\ \A p \in Hosts : ppc[p] \in {"bell", "unlocked", "rung"} =>
       span[p][1] = committed /\ wptr_next = span[p][2]
  /\ \A p \in Hosts : ppc[p] \in {"unlocked", "rung"} => QueueEnd = span[p][2]
  /\ \A p \in Hosts : ppc[p] = "rung" => wptr_pre = span[p][2]
  /\ (\A p \in Hosts : ppc[p] \notin {"bell", "unlocked", "rung"}) => wptr_next = committed
  /\ (\A p \in Hosts : ppc[p] \notin {"unlocked", "rung"}) => QueueEnd = committed
  /\ (\A p \in Hosts : ppc[p] # "rung") => wptr_pre = committed

\* The driver holds ranges in order, behind the read pointer of the thread and ahead of
\* the one of the GPU; the fence of each is its end.
DriverInv ==
  /\ ibs \in Seq([start : Nat, end : Nat, fence : Nat])
  /\ sync_value <= rptr_next
  /\ \A k \in 1 .. Len(ibs) :
       /\ sync_value <= ibs[k].start /\ ibs[k].start < ibs[k].end /\ ibs[k].end <= rptr_next
       /\ ibs[k].fence = ibs[k].end
  /\ \A j, k \in 1 .. Len(ibs) : j < k => ibs[j].end <= ibs[k].start
  /\ goff \in Nat
  /\ IF ibs = <<>> THEN goff = 0 ELSE ibs[1].start + goff <= ibs[1].end

\* The ring holds every index from the GPU's read pointer to the reservations.
RingInv ==
  /\ ring \in [0 .. RingSize - 1 -> [index : Int, packet : Packets, after : SUBSET Signals]]
  /\ reserved - sync_value <= RingSize
  /\ \A i \in sync_value .. reserved - 1 : ring[Wrap(i)].index = i

\* The ranges written and not submitted yet.
Unsubmitted ==
  {Queued[k] : k \in 1 .. Len(Queued)} \cup
  {span[p] : p \in {p \in Hosts : ppc[p] \in {"written", "bell"}}}

\* The packets of a range lie side by side.  From the first one the thread has not looked
\* at on, polls come first and the last packet is none; the signals a packet comes after
\* are completed, or polled by a packet before it that is still there.
Command(r) ==
  LET bot == Wrap(r[1])
      top == bot + (r[2] - r[1])
      from == IF pc = "poll" /\ r[1] = rptr_next THEN poll_pkt ELSE bot
  IN /\ top <= RingSize
     /\ bot <= from /\ from < top
     /\ ~Polling(ring[top - 1].packet)
     /\ \A i, j \in from .. top - 1 : i < j /\ Polling(ring[j].packet) => Polling(ring[i].packet)
     /\ \A i \in bot .. top - 1 : \A s \in ring[i].after :
          sig[s] = 0 \/ \E j \in from .. i - 1 : ring[j].packet \in {Poll(s), PollHi(s)}

CommandInv == \A r \in Unsubmitted : Command(r)

\* No signal is outstanding for the packets of the ranges the driver holds.
CleanInv ==
  \A k \in 1 .. Len(ibs) : \A i \in ibs[k].start .. ibs[k].end - 1 :
    \A s \in ring[Wrap(i)].after : sig[s] = 0

\* What the GPU has read last.
ReadInv ==
  \A e \in executed :
    e.slot.index = e.at /\ e.slot.after \subseteq Signals /\ \A s \in e.slot.after : sig[s] = 0

IInv ==
  /\ TypeOK /\ QueueInv /\ HostInv /\ DriverInv /\ RingInv /\ CommandInv /\ CleanInv /\ ReadInv
=============================================================================
