------------------------------- MODULE Runtime -------------------------------
(***************************************************************************)
(* The runtime object of a process: the counted opening of the device, the *)
(* lock, fork with and without the handlers of pthread_atfork              *)
(* (src/openclose.cpp), and the snapshot of the topology with its devices  *)
(* and heaps (src/topology.cpp).  At a fork the model goes on as the       *)
(* parent or as the child: they share nothing afterwards.                  *)
(***************************************************************************)
EXTENDS Integers, FiniteSets

CONSTANTS Threads,
          Fds,       \* numbers of descriptors
          MaxCalls,  \* bound: calls of the interface
          MaxForks   \* bound: forks

ASSUME RuntimeAssumption ==
  /\ MaxCalls \in Nat /\ MaxForks \in Nat /\ Fds \subseteq Nat
  /\ IsFiniteSet(Threads) /\ "none" \notin Threads /\ "ghost" \notin Threads

VARIABLES rt,       \* *dxg_runtime
          mutex,    \* owner of its hsakmt_mutex, None, or Ghost: a thread the child does not have
          topo,     \* *dxg_topology
          loaded,   \* DxcoreLoader has its library
          atfork,   \* how often the fork handlers are installed
          files,    \* external: what each descriptor of the process is open on
          thread,   \* what each thread is at
          calls, forks,
          stale,    \* history: dxg_fd is the number of a descriptor that was closed
          torn      \* history: a thread came in while the object was being replaced

vars == <<rt, mutex, topo, loaded, atfork, files, thread, calls, forks, stale, torn>>

None == "none"
Ghost == "ghost"
NoFd == -1

\* gen tells the runtime objects apart; same_pid: parent_pid is the process.
NewRuntime(gen) ==
  [gen |-> gen, fd |-> NoFd, count |-> 0, is_forked |-> FALSE, same_pid |-> TRUE, heaps |-> None]

\* next: what the lock is for; gen: the object whose mutex the thread locks; refs: opens that
\* it has not closed; cleared: it has replaced the object; locks: times to lock still.
Idle == [pc |-> "idle", next |-> None, gen |-> 0, refs |-> 0, fd |-> NoFd, cleared |-> FALSE, locks |-> 0]

Init ==
  /\ rt = NewRuntime(0) /\ mutex = None
  /\ topo = [system |-> None, devices |-> None]
  /\ loaded = FALSE /\ atfork = 0
  /\ files = [n \in Fds |-> "free"]
  /\ thread = [t \in Threads |-> Idle]
  /\ calls = 0 /\ forks = 0
  /\ stale = FALSE /\ torn = FALSE

At(t, pc) == thread[t].pc = pc
Go(t, pc) == thread' = [thread EXCEPT ![t].pc = pc]
Forked == rt.is_forked \/ ~rt.same_pid

\* A call starts by locking the mutex of the object dxg_runtime points to.
Call(t, next) ==
  /\ At(t, "idle") /\ calls < MaxCalls /\ calls' = calls + 1
  /\ thread' = [thread EXCEPT ![t] = [@ EXCEPT !.pc = "lock", !.next = next, !.gen = rt.gen, !.locks = 1]]
  /\ UNCHANGED <<rt, mutex, topo, loaded, atfork, files, forks, stale, torn>>

\* The object a thread waits for may be deleted meanwhile: then it is never woken.
Lock(t) ==
  /\ At(t, "lock") /\ thread[t].gen = rt.gen /\ mutex = None
  /\ mutex' = t
  /\ thread' = [thread EXCEPT ![t] = [Idle EXCEPT !.refs = thread[t].refs,
       !.pc = IF thread[t].locks > 1 THEN "relock" ELSE thread[t].next]]
  /\ torn' = (torn \/ \E u \in Threads : thread[u].cleared)
  /\ UNCHANGED <<rt, topo, loaded, atfork, files, calls, forks, stale>>

\* Unlock and return, with d references more.  It is the mutex of the current object that is
\* unlocked.
Return(t, d) ==
  /\ mutex' = None
  /\ thread' = [thread EXCEPT ![t] = [Idle EXCEPT !.refs =
       IF thread[t].refs + d > 0 THEN thread[t].refs + d ELSE 0]]
  /\ UNCHANGED <<calls, forks, torn>>

\* Snapshot, devices and heaps as seen by another object or process than made them.
Former(x) == IF x = None THEN None ELSE "former"
Inherited == [system |-> Former(topo.system), devices |-> Former(topo.devices)]

Close(fd) == [n \in Fds |-> IF n = fd THEN "free" ELSE files[n]]

-----------------------------------------------------------------------------

\* Mutant: the child keeps its copy of the parent's descriptor.
ClearAfterFork_Leaks(t) ==
  /\ At(t, "open") /\ Forked
  /\ UNCHANGED files
  /\ rt' = NewRuntime(rt.gen + 1) /\ mutex' = None /\ stale' = FALSE
  /\ topo' = Inherited
  /\ thread' = [thread EXCEPT ![t].cleared = TRUE]
  /\ UNCHANGED <<loaded, atfork, calls, forks, torn>>

\* The first open in a child closes the descriptor and replaces the object, with a mutex
\* nobody holds.  The topology stays.
ClearAfterFork(t) ==
  /\ At(t, "open") /\ Forked
  /\ files' = Close(rt.fd)
  /\ rt' = NewRuntime(rt.gen + 1) /\ mutex' = None /\ stale' = FALSE
  /\ topo' = Inherited
  /\ thread' = [thread EXCEPT ![t].cleared = TRUE]
  /\ UNCHANGED <<loaded, atfork, calls, forks, torn>>

OpenAgain(t) ==
  /\ At(t, "open") /\ ~Forked /\ rt.count > 0
  /\ rt' = [rt EXCEPT !.count = @ + 1]
  /\ Return(t, 1)
  /\ UNCHANGED <<topo, loaded, atfork, files, stale>>

OpenDevice(t) ==
  /\ At(t, "open") /\ ~Forked /\ rt.count = 0
  /\ \/ \E n \in Fds :
          /\ rt.fd = NoFd /\ files[n] = "free"
          /\ files' = [files EXCEPT ![n] = "device"]
          /\ rt' = [rt EXCEPT !.fd = n]
          /\ thread' = [thread EXCEPT ![t] = [@ EXCEPT !.pc = "load", !.fd = n]]
          /\ UNCHANGED <<mutex, calls, forks, torn>>
     \/ /\ rt.fd # NoFd
        /\ Go(t, "load") /\ UNCHANGED <<rt, files, mutex, calls, forks, torn>>
     \/ /\ rt.fd = NoFd
        /\ Return(t, 0) /\ UNCHANGED <<rt, files>>
  /\ UNCHANGED <<topo, loaded, atfork, stale>>

\* Mutant: the handlers are installed at every first open.
InstallAtfork_Again == atfork + 1

\* Handlers cannot be uninstalled and are installed once.
InstallAtfork == IF atfork = 0 THEN 1 ELSE atfork

\* DxcoreLoader::Initialize.  When it fails the new descriptor is closed and dxg_fd keeps
\* its number.
Load(t) ==
  /\ At(t, "load")
  /\ \/ /\ loaded' = TRUE /\ rt' = [rt EXCEPT !.count = 1]
        /\ atfork' = InstallAtfork
        /\ Return(t, 1) /\ UNCHANGED <<files, stale>>
     \/ /\ loaded' = FALSE /\ files' = Close(thread[t].fd) /\ stale' = TRUE
        /\ Return(t, 0) /\ UNCHANGED <<rt, atfork>>
  /\ UNCHANGED topo

\* The body of hsaKmtCloseKFD.
CloseKFD(t) ==
  LET last == rt.count = 1
  IN /\ At(t, "close")
     /\ rt' = [rt EXCEPT !.count = IF @ > 0 THEN @ - 1 ELSE 0, !.fd = IF last THEN NoFd ELSE @]
     /\ files' = IF last THEN Close(rt.fd) ELSE files
     /\ loaded' = (loaded /\ ~last)
     /\ stale' = (stale /\ ~last)
     /\ Return(t, -1)
     /\ UNCHANGED <<topo, atfork>>

-----------------------------------------------------------------------------

\* hsaKmtAcquireSystemProperties with a snapshot there already.
Snapshot(t) ==
  /\ At(t, "snapshot") /\ topo.system # None
  /\ Return(t, 0)
  /\ UNCHANGED <<rt, topo, loaded, atfork, files, stale>>

\* topology_sysfs_get_system_props gives back heaps and devices and makes new ones.
SystemProps(t) ==
  /\ At(t, "snapshot") /\ topo.system = None
  /\ \/ /\ topo' = [topo EXCEPT !.devices = "own"] /\ rt' = [rt EXCEPT !.heaps = "own"]
        /\ Go(t, "node_props") /\ UNCHANGED <<mutex, calls, forks, torn>>
     \/ /\ topo' = [topo EXCEPT !.devices = None] /\ rt' = [rt EXCEPT !.heaps = None]
        /\ Return(t, 0)
  /\ UNCHANGED <<loaded, atfork, files, stale>>

\* The rest of topology_take_snapshot: the properties of the nodes, then g_system.
NodeProps(t) ==
  /\ At(t, "node_props")
  /\ topo' \in {topo, [topo EXCEPT !.system = "own"]}
  /\ Return(t, 0)
  /\ UNCHANGED <<rt, loaded, atfork, files, stale>>

\* Mutant: the pointer to the snapshot is left.
DropSnapshot_Keeps(t) ==
  /\ At(t, "release")
  /\ topo' = [topo EXCEPT !.devices = None]
  /\ Return(t, 0)
  /\ UNCHANGED <<rt, loaded, atfork, files, stale>>

\* topology_drop_snapshot: the heaps stay until the next snapshot is taken.
DropSnapshot(t) ==
  /\ At(t, "release")
  /\ topo' = [system |-> None, devices |-> None]
  /\ Return(t, 0)
  /\ UNCHANGED <<rt, loaded, atfork, files, stale>>

-----------------------------------------------------------------------------

\* In the child the thread that forked is the only one; those that start later are new.
Child(is_forked, owner) ==
  /\ rt' = [rt EXCEPT !.is_forked = is_forked, !.same_pid = FALSE, !.heaps = Former(@)]
  /\ topo' = Inherited
  /\ mutex' = owner
  /\ thread' = [t \in Threads |-> Idle]
  /\ UNCHANGED <<loaded, atfork, files, calls, stale, torn>>

\* fork(): prepare_fork_handler locks the mutex, once for every time it is installed.
PrepareFork(t) ==
  /\ At(t, "idle") /\ atfork > 0 /\ forks < MaxForks /\ forks' = forks + 1
  /\ thread' = [thread EXCEPT ![t] = [@ EXCEPT !.pc = "lock", !.next = "fork", !.gen = rt.gen, !.locks = atfork]]
  /\ UNCHANGED <<rt, mutex, topo, loaded, atfork, files, calls, stale, torn>>

\* The parent unlocks and keeps its references; the child initializes the mutex.
Fork(t) ==
  /\ At(t, "fork")
  /\ \/ Return(t, 0) /\ UNCHANGED <<rt, topo, loaded, atfork, files, stale>>
     \/ Child(TRUE, None) /\ UNCHANGED forks

\* clone, or fork before the handlers are installed: only the process id tells the child,
\* and the lock may be held by a thread it does not have.
RawFork(t) ==
  /\ At(t, "idle") /\ forks < MaxForks /\ forks' = forks + 1
  /\ Child(rt.is_forked, IF mutex = None THEN None ELSE Ghost)

-----------------------------------------------------------------------------

hsaKmtOpenKFD(t) == Call(t, "open")

\* Mutant: the lock is not taken.
hsaKmtCloseKFD_Unlocked(t) ==
  /\ At(t, "idle") /\ calls < MaxCalls /\ calls' = calls + 1
  /\ thread[t].refs > 0 \/ Forked
  /\ Go(t, "close")
  /\ UNCHANGED <<rt, mutex, topo, loaded, atfork, files, forks, stale, torn>>

\* Threads close what they have opened; a child may also close what its parent had opened.
hsaKmtCloseKFD(t) == (thread[t].refs > 0 \/ Forked) /\ Call(t, "close")

\* CHECK_DXG_OPEN is evaluated before the lock is taken.
hsaKmtAcquireSystemProperties(t) == rt.count > 0 /\ ~rt.is_forked /\ Call(t, "snapshot")

hsaKmtReleaseSystemProperties(t) == Call(t, "release")

\* external: the rest of the program opens a file, one at a time, and closes it.
OtherFile ==
  /\ \E n \in Fds : \/ (\A k \in Fds : files[k] # "other") /\ files[n] = "free" /\ files' = [files EXCEPT ![n] = "other"]
                    \/ files[n] = "other" /\ files' = Close(n)
  /\ UNCHANGED <<rt, mutex, topo, loaded, atfork, thread, calls, forks, stale, torn>>

Start(t) == hsaKmtOpenKFD(t) \/ hsaKmtCloseKFD(t) \/ hsaKmtAcquireSystemProperties(t)
            \/ hsaKmtReleaseSystemProperties(t) \/ PrepareFork(t) \/ RawFork(t)

Step(t) == \/ Lock(t) \/ ClearAfterFork(t) \/ OpenAgain(t) \/ OpenDevice(t) \/ Load(t) \/ CloseKFD(t)
           \/ Snapshot(t) \/ SystemProps(t) \/ NodeProps(t) \/ DropSnapshot(t) \/ Fork(t)

Next == (\E t \in Threads : Start(t) \/ Step(t)) \/ OtherFile

Spec == Init /\ [][Next]_vars /\ \A t \in Threads : WF_vars(Step(t))

-----------------------------------------------------------------------------

InCritical(t) == thread[t].pc \notin {"idle", "lock"}
Quiet == ~torn /\ ~Forked /\ \A t \in Threads : ~InCritical(t)

\* The opens that were not closed: the i-th of thread t.
Opens == UNION {{t} \X (1 .. thread[t].refs) : t \in Threads}

\* In a process that is not an unopened child, dxg_open_count is the number of opens that
\* were not closed; as long as there is one the device is open and the library loaded, and
\* the process has no other descriptor of the device, whatever opens failed and whatever
\* was inherited (openclose.cpp 475-626).  Only a failure of the loader breaks this, until
\* the last close.
ReferenceKept ==
  (Quiet /\ ~stale) =>
    /\ rt.count = Cardinality(Opens)
    /\ rt.count > 0 => rt.fd # NoFd /\ loaded
    /\ {n \in Fds : files[n] = "device"} = IF rt.count > 0 THEN {rt.fd} ELSE {}

\* A snapshot that can be served stands on devices, and one the process took itself on
\* devices and heaps of its own: what a failed attempt or a release leaves behind is never
\* served (topology.cpp 1113-1141, 1179-1182).  A snapshot from before the first open in a
\* child is the exception: it is served, and the new runtime object has no heaps.
SnapshotServed ==
  (Quiet /\ topo.system # None) =>
    /\ topo.devices = topo.system
    /\ topo.system = "own" => rt.heaps = "own"
    /\ topo.system = "former" => rt.heaps = None

\* A thread between lock and unlock owns the mutex and is alone there.  The exception is
\* the first open in a child, from the moment it replaces the object whose mutex it holds
\* (openclose.cpp 483-484): a thread that comes then is not kept out, and is left without
\* its lock when that open returns.
LockHeld ==
  \/ torn
  \/ \A t \in Threads : InCritical(t) =>
       /\ mutex = t \/ thread[t].cleared
       /\ \A u \in Threads \ {t} : ~InCritical(u)

Orphan(t) == At(t, "lock") /\ thread[t].gen # rt.gen

\* Every call returns, fork included, without any fairness of the mutex: the handlers never
\* lock twice (openclose.cpp 581-590).  The exceptions: a thread that waits for the mutex
\* of an object another one has replaced, and a child made without the handlers while the
\* mutex was held.
CallsReturn ==
  \A t \in Threads : ~At(t, "idle") ~> (At(t, "idle") \/ Orphan(t) \/ mutex = Ghost)
=============================================================================
