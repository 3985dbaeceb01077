--------------------------- MODULE Runtime_proofs ---------------------------
(***************************************************************************)
(* Proofs about Runtime for every set of threads and every bound on calls  *)
(* and forks: what the lock of the runtime object protects, what a         *)
(* snapshot stands on, and what the count of opens counts.                 *)
(***************************************************************************)
EXTENDS Runtime, FiniteSetTheorems, TLAPS

Places == {None, "idle", "lock", "relock", "open", "load", "close", "snapshot", "node_props", "release", "fork"}
Calls == Places \ {"node_props"}
ThreadRecord == [pc : Places, next : Calls, gen : Int, refs : Int, fd : Int, cleared : BOOLEAN, locks : Int]
Kept == {None, "own", "former"}

Types ==
  /\ thread \in [Threads -> ThreadRecord]
  /\ topo \in [system : Kept, devices : Kept]
  /\ rt \in [gen : Int, fd : Int, count : Int, is_forked : BOOLEAN, same_pid : BOOLEAN, heaps : Kept]
  /\ torn \in BOOLEAN /\ atfork \in Int

\* The inductive strengthening of LockHeld: only a thread inside has replaced the object.
Inside ==
  torn \/ \A t \in Threads :
    /\ thread[t].cleared => InCritical(t)
    /\ InCritical(t) => /\ mutex = t \/ thread[t].cleared
                        /\ \A u \in Threads \ {t} : ~InCritical(u)

\* The inductive strengthening of SnapshotServed: what a snapshot half taken has made.
Served ==
  torn \/
    /\ \A t \in Threads : At(t, "node_props") =>
         topo.system = None /\ topo.devices = "own" /\ rt.heaps = "own"
    /\ topo.system # None => topo.devices # None
    /\ (~Forked /\ topo.system # None) =>
         /\ topo.devices = topo.system
         /\ topo.system = "own" => rt.heaps = "own"
         /\ topo.system = "former" => rt.heaps = None

Inv == Types /\ Inside /\ Served

\* A thread is about to close, with the object it found.
Closing(t) == At(t, "close") \/ (At(t, "lock") /\ thread[t].next = "close" /\ thread[t].gen = rt.gen)

\* The count is the number of opens that were not closed.  A child starts with none; who
\* closes has opened, unless the call started before the object was replaced.
Counted ==
  torn \/
    /\ \A t \in Threads : thread[t].refs \in Nat
    /\ IsFiniteSet(Opens)
    /\ \A t \in Threads : At(t, "lock") =>
         thread[t].gen <= rt.gen /\ thread[t].next \in {"open", "close", "snapshot", "release", "fork"}
    /\ \A t \in Threads : At(t, "load") => rt.count = 0
    /\ Forked => \A t \in Threads : thread[t].refs = 0 /\ ~At(t, "load")
    /\ ~Forked => rt.count = Cardinality(Opens)
    /\ ~Forked => \A t \in Threads : Closing(t) => thread[t].refs > 0

Devices == {n \in Fds : files[n] = "device"}

\* The process has the device open at most once, under the number in dxg_fd; that number
\* is of a file of the device unless the loader failed, and then of none.
Opened ==
  torn \/
    /\ DOMAIN files = Fds
    /\ rt.fd \in Fds \cup {NoFd}
    /\ Devices \subseteq {rt.fd}
    /\ stale => rt.fd # NoFd
    /\ \A t \in Threads : At(t, "open") => thread[t].fd = NoFd
    /\ ~Forked =>
         /\ rt.count > 0 => rt.fd # NoFd /\ loaded
         /\ Devices = IF stale \/ rt.fd = NoFd THEN {} ELSE {rt.fd}
         /\ rt.fd = NoFd \/ stale \/ rt.count > 0 \/ \E t \in Threads : At(t, "load")
         /\ \A t \in Threads : At(t, "load") =>
              rt.fd # NoFd /\ thread[t].fd = IF stale THEN NoFd ELSE rt.fd

\* A thread outside a call is well-typed.
LEMMA IdleType == Idle \in ThreadRecord
  BY DEF Idle, ThreadRecord, Places, Calls, None, NoFd

\* The initial state is well-typed.
LEMMA TypesInit == Init => Types
<1> SUFFICES ASSUME Init PROVE Types
  OBVIOUS
<1>1. thread \in [Threads -> ThreadRecord]
  BY IdleType DEF Init
<1>2. NewRuntime(0) \in [gen : Int, fd : Int, count : Int, is_forked : BOOLEAN, same_pid : BOOLEAN, heaps : Kept]
  BY DEF NewRuntime, Kept, None, NoFd
<1>3. topo \in [system : Kept, devices : Kept]
  BY DEF Init, Kept
<1>4. atfork \in Int
  BY DEF Init
<1>5. torn \in BOOLEAN
  BY Zenon DEF Init
<1> QED
  BY <1>1, <1>2, <1>3, <1>4, <1>5 DEF Init, Types

\* A thread outside a call, with some references, is well-typed.
LEMMA IdleWith == \A x \in Int : [Idle EXCEPT !.refs = x] \in ThreadRecord
  BY IdleType DEF ThreadRecord

\* Returning leaves the threads well-typed.
LEMMA ReturnTypes ==
  ASSUME Types, NEW t \in Threads, NEW d \in Int, Return(t, d)
  PROVE  thread' \in [Threads -> ThreadRecord] /\ torn' = torn
<1>1. thread[t].refs \in Int
  BY DEF Types, ThreadRecord
<1>2. (IF thread[t].refs + d > 0 THEN thread[t].refs + d ELSE 0) \in Int
  BY <1>1
<1>3. [Idle EXCEPT !.refs = IF thread[t].refs + d > 0 THEN thread[t].refs + d ELSE 0] \in ThreadRecord
  BY <1>2, IdleWith
<1> QED
  BY <1>3 DEF Types, Return

\* A thread that starts a call is well-typed.
LEMMA CallingType ==
  ASSUME NEW r \in ThreadRecord, NEW p \in Places, NEW n \in Calls, NEW g \in Int, NEW l \in Int
  PROVE  [r EXCEPT !.pc = p, !.next = n, !.gen = g, !.locks = l] \in ThreadRecord
<1>1. [r EXCEPT !.pc = p, !.next = n] \in ThreadRecord
  BY Zenon DEF ThreadRecord
<1>2. [[r EXCEPT !.pc = p, !.next = n] EXCEPT !.gen = g, !.locks = l] \in ThreadRecord
  BY <1>1, Zenon DEF ThreadRecord
<1> QED
  BY <1>2

RtType == [gen : Int, fd : Int, count : Int, is_forked : BOOLEAN, same_pid : BOOLEAN, heaps : Kept]

\* Every action keeps the types.
LEMMA TypesNext == ASSUME Types, [Next]_vars PROVE Types'
<1> USE RuntimeAssumption
<1>1. ASSUME NEW t \in Threads, NEW next \in Calls, Call(t, next) PROVE Types'
  <2>1. rt.gen \in Int
    BY DEF Types
  <2>2. [thread[t] EXCEPT !.pc = "lock", !.next = next, !.gen = rt.gen, !.locks = 1] \in ThreadRecord
    <3>1. thread[t] \in ThreadRecord /\ "lock" \in Places /\ 1 \in Int
      BY DEF Types, Places
    <3> QED
      BY ONLY <2>1, <3>1, next \in Calls, CallingType, Zenon
  <2>3. thread' \in [Threads -> ThreadRecord]
    BY <1>1, <2>2 DEF Types, Call
  <2> QED
    BY <2>3, <1>1 DEF Types, Call
<1>2. ASSUME NEW t \in Threads, PrepareFork(t) PROVE Types'
  <2>1. rt.gen \in Int
    BY DEF Types
  <2>2. [thread[t] EXCEPT !.pc = "lock", !.next = "fork", !.gen = rt.gen, !.locks = atfork] \in ThreadRecord
    <3>1. thread[t] \in ThreadRecord /\ "lock" \in Places /\ "fork" \in Calls /\ atfork \in Int
      BY DEF Types, Places, Calls
    <3> QED
      BY ONLY <2>1, <3>1, CallingType, Zenon
  <2>3. thread' \in [Threads -> ThreadRecord]
    BY <1>2, <2>2 DEF Types, PrepareFork
  <2> QED
    BY <2>3, <1>2 DEF Types, PrepareFork
<1>3. ASSUME NEW t \in Threads, RawFork(t) PROVE Types'
  <2>1. rt' \in RtType
    BY <1>3, Zenon DEF Types, RawFork, Child, RtType, Kept, Former, None
  <2>2. topo' \in [system : Kept, devices : Kept]
    BY <1>3 DEF Types, RawFork, Child, Inherited, Former, Kept, None
  <2> QED
    BY <2>1, <2>2, <1>3, IdleType DEF Types, RawFork, Child, RtType
<1>4. ASSUME NEW t \in Threads, Lock(t) PROVE Types'
  <2>1. [Idle EXCEPT !.refs = thread[t].refs, !.pc = IF thread[t].locks > 1 THEN "relock" ELSE thread[t].next] \in ThreadRecord
    BY IdleType, Zenon DEF Types, ThreadRecord, Places, Calls
  <2>2. thread' \in [Threads -> ThreadRecord]
    BY <2>1, <1>4 DEF Types, Lock
  <2>3. torn' \in BOOLEAN
    BY <1>4 DEF Lock
  <2> QED
    BY <2>2, <2>3, <1>4 DEF Types, Lock
<1>5. ASSUME NEW t \in Threads, ClearAfterFork(t) PROVE Types'
  <2>1. NewRuntime(rt.gen + 1) \in RtType
    BY DEF Types, NewRuntime, RtType, Kept, NoFd
  <2>2. topo' \in [system : Kept, devices : Kept]
    BY <1>5 DEF Types, ClearAfterFork, Inherited, Former, Kept, None
  <2>3. thread' \in [Threads -> ThreadRecord]
    BY <1>5, Zenon DEF Types, ClearAfterFork, ThreadRecord
  <2> QED
    BY <2>1, <2>2, <2>3, <1>5 DEF Types, ClearAfterFork, RtType
<1>6. ASSUME NEW t \in Threads, OpenAgain(t) PROVE Types'
  <2>1. rt' \in RtType
    BY <1>6 DEF Types, OpenAgain, RtType
  <2> QED
    BY <2>1, <1>6, ReturnTypes DEF Types, OpenAgain, RtType
<1>7. ASSUME NEW t \in Threads, OpenDevice(t) PROVE Types'
  <2>1. CASE \E n \in Fds : /\ rt' = [rt EXCEPT !.fd = n]
                           /\ thread' = [thread EXCEPT ![t] = [@ EXCEPT !.pc = "load", !.fd = n]]
                           /\ UNCHANGED torn
    <3>1. PICK n \in Fds : /\ rt' = [rt EXCEPT !.fd = n]
                           /\ thread' = [thread EXCEPT ![t] = [@ EXCEPT !.pc = "load", !.fd = n]]
                           /\ UNCHANGED torn
      BY <2>1, Zenon
    <3>2. n \in Int
      OBVIOUS
    <3>3. rt' \in RtType
      BY <3>1, <3>2 DEF Types, RtType
    <3>4. [thread[t] EXCEPT !.pc = "load", !.fd = n] \in ThreadRecord
      BY <3>2, Zenon DEF Types, ThreadRecord, Places
    <3>5. thread' \in [Threads -> ThreadRecord]
      BY <3>1, <3>4 DEF Types
    <3> QED
      BY <3>1, <3>3, <3>5, <1>7, Zenon DEF Types, OpenDevice, RtType
  <2>2. CASE Go(t, "load") /\ UNCHANGED <<rt, torn>>
    <3>1. thread' \in [Threads -> ThreadRecord]
      BY <2>2 DEF Types, Go, ThreadRecord, Places
    <3> QED
      BY <3>1, <2>2, <1>7, Zenon DEF Types, OpenDevice
  <2>3. CASE Return(t, 0) /\ UNCHANGED rt
    BY <2>3, <1>7, ReturnTypes, Zenon DEF Types, OpenDevice
  <2> QED
    BY <2>1, <2>2, <2>3, <1>7, Zenon DEF OpenDevice
<1>8. ASSUME NEW t \in Threads, Load(t) PROVE Types'
  <2>1. rt' \in RtType
    BY <1>8 DEF Types, Load, RtType
  <2>2. atfork' \in Int
    BY <1>8 DEF Types, Load, InstallAtfork
  <2>3. \E d \in Int : Return(t, d)
    BY <1>8 DEF Load
  <2> QED
    BY <2>1, <2>2, <2>3, <1>8, ReturnTypes DEF Types, Load, RtType
<1>9. ASSUME NEW t \in Threads, CloseKFD(t) PROVE Types'
  <2>. DEFINE c == IF rt.count > 0 THEN rt.count - 1 ELSE 0
  <2>. DEFINE f == IF rt.count = 1 THEN NoFd ELSE rt.fd
  <2>3. c \in Int /\ f \in Int
    BY DEF Types, NoFd
  <2>4. rt' = [rt EXCEPT !.count = c, !.fd = f]
    BY <1>9 DEF CloseKFD
  <2>. HIDE DEF c, f
  <2>1. rt' \in RtType
    BY <2>3, <2>4, Zenon DEF Types, RtType
  <2>2. Return(t, -1)
    BY <1>9 DEF CloseKFD
  <2> QED
    BY <2>1, <2>2, <1>9, ReturnTypes DEF Types, CloseKFD, RtType
<1>10. ASSUME NEW t \in Threads, Snapshot(t) PROVE Types'
  BY <1>10, ReturnTypes DEF Types, Snapshot
<1>11. ASSUME NEW t \in Threads, SystemProps(t) PROVE Types'
  <2>1. rt' \in RtType
    BY <1>11 DEF Types, SystemProps, RtType, Kept
  <2>2. topo' \in [system : Kept, devices : Kept]
    BY <1>11 DEF Types, SystemProps, Kept
  <2>3. CASE Go(t, "node_props") /\ UNCHANGED torn
    <3>1. thread' \in [Threads -> ThreadRecord]
      BY <2>3 DEF Types, Go, ThreadRecord, Places
    <3> QED
      BY <2>1, <2>2, <2>3, <3>1, <1>11 DEF Types, SystemProps, RtType
  <2>4. CASE Return(t, 0)
    BY <2>1, <2>2, <2>4, <1>11, ReturnTypes DEF Types, SystemProps, RtType
  <2> QED
    BY <2>3, <2>4, <1>11 DEF SystemProps
<1>12. ASSUME NEW t \in Threads, NodeProps(t) PROVE Types'
  <2>1. topo' \in [system : Kept, devices : Kept]
    BY <1>12 DEF Types, NodeProps, Kept
  <2> QED
    BY <2>1, <1>12, ReturnTypes DEF Types, NodeProps
<1>13. ASSUME NEW t \in Threads, DropSnapshot(t) PROVE Types'
  <2>1. topo' \in [system : Kept, devices : Kept]
    BY <1>13 DEF DropSnapshot, Kept
  <2> QED
    BY <2>1, <1>13, ReturnTypes DEF Types, DropSnapshot
<1>14. ASSUME NEW t \in Threads, Fork(t) PROVE Types'
  <2>1. CASE Return(t, 0) /\ UNCHANGED <<rt, topo, loaded, atfork, files, stale>>
    BY <2>1, ReturnTypes DEF Types
  <2>2. CASE Child(TRUE, None)
    <3>1. rt' \in RtType
      BY <2>2, Zenon DEF Types, Child, RtType, Kept, Former, None
    <3>2. topo' \in [system : Kept, devices : Kept]
      BY <2>2 DEF Types, Child, Inherited, Former, Kept, None
    <3> QED
      BY <3>1, <3>2, <2>2, IdleType DEF Types, Child, RtType
  <2> QED
    BY <2>1, <2>2, <1>14, Zenon DEF Fork
<1>15. CASE OtherFile
  BY <1>15 DEF Types, OtherFile
<1>16. CASE UNCHANGED vars
  BY <1>16 DEF Types, vars
<1>17. ASSUME NEW t \in Threads, Start(t) PROVE Types'
  <2>1. {"open", "close", "snapshot", "release"} \subseteq Calls
    BY DEF Places, Calls
  <2> QED
    BY <2>1, <1>1, <1>2, <1>3, <1>17
    DEF Start, hsaKmtOpenKFD, hsaKmtCloseKFD, hsaKmtAcquireSystemProperties, hsaKmtReleaseSystemProperties
<1>18. ASSUME NEW t \in Threads, Step(t) PROVE Types'
  BY <1>4, <1>5, <1>6, <1>7, <1>8, <1>9, <1>10, <1>11, <1>12, <1>13, <1>14, <1>18 DEF Step
<1> QED
  BY <1>15, <1>16, <1>17, <1>18 DEF Next

\* What returning does to the threads.
LEMMA ReturnShape ==
  ASSUME Types, NEW t \in Threads, NEW d \in Int, Return(t, d)
  PROVE  /\ thread'[t].pc = "idle" /\ thread'[t].cleared = FALSE
         /\ \A u \in Threads \ {t} : thread'[u] = thread[u]
         /\ torn' = torn
<1>. DEFINE x == IF thread[t].refs + d > 0 THEN thread[t].refs + d ELSE 0
<1>1. thread' = [thread EXCEPT ![t] = [Idle EXCEPT !.refs = x]] /\ torn' = torn
  BY DEF Return
<1>. HIDE DEF x
<1> QED
  BY <1>1 DEF Types, Idle

\* A thread that goes on inside stays alone there; one that returns leaves nobody behind.
LEMMA StaysAlone ==
  ASSUME Inside, NEW t \in Threads, InCritical(t), torn' = torn,
         \A u \in Threads \ {t} : thread'[u] = thread[u],
         \/ thread'[t].pc = "idle" /\ thread'[t].cleared = FALSE
         \/ thread'[t].pc \notin {"idle", "lock"} /\ (mutex' = t \/ thread'[t].cleared)
  PROVE  Inside'
<1> SUFFICES ASSUME ~torn PROVE Inside'
  BY DEF Inside
<1>1. \A u \in Threads \ {t} : ~InCritical(u) /\ ~thread[u].cleared
  BY DEF Inside
<1>2. \A u \in Threads \ {t} : thread'[u].pc \in {"idle", "lock"} /\ ~thread'[u].cleared
  BY <1>1 DEF InCritical
<1> QED
  BY <1>2 DEF Inside, InCritical

\* At first nobody is inside.
LEMMA InsideInit == Init => Inside
  BY DEF Init, Inside, InCritical, Idle

\* A call that starts leaves the lock as it is.
LEMMA InsideStart ==
  ASSUME Types, Inside, NEW t \in Threads, At(t, "idle"), UNCHANGED <<mutex, torn>>,
         thread'[t].pc = "lock", thread'[t].cleared = thread[t].cleared,
         \A u \in Threads \ {t} : thread'[u] = thread[u]
  PROVE  Inside'
<1> SUFFICES ASSUME ~torn PROVE Inside'
  BY DEF Inside
<1>1. ~thread[t].cleared
  BY DEF Inside, InCritical, At
<1> QED
  BY <1>1 DEF Inside, InCritical, At

\* Taking the lock: if nobody has replaced the object, nobody is inside.
LEMMA InsideLock == ASSUME Types, Inside, NEW t \in Threads, Lock(t) PROVE Inside'
<1> SUFFICES ASSUME ~torn, \A u \in Threads : ~thread[u].cleared PROVE Inside'
  BY Zenon DEF Lock, Inside
<1>1. None \notin Threads
  BY RuntimeAssumption DEF None
<1>2. \A u \in Threads : ~InCritical(u)
  BY <1>1 DEF Inside, Lock
<1>3. \A u \in Threads \ {t} : thread'[u] = thread[u]
  BY DEF Lock, Types
<1>4. thread'[t].cleared = FALSE /\ mutex' = t
  BY DEF Lock, Types, Idle
<1>5. \A u \in Threads \ {t} : thread'[u].pc \in {"idle", "lock"}
  BY <1>2, <1>3 DEF InCritical
<1>6. torn' = FALSE
  BY Zenon DEF Lock
<1> QED
  BY <1>3, <1>4, <1>5 DEF Inside, InCritical

\* Every action keeps the lock's invariant.
LEMMA InsideNext == ASSUME Types, Inside, [Next]_vars PROVE Inside'
<1>1. ASSUME NEW t \in Threads, NEW next \in Calls, Call(t, next) PROVE Inside'
  <2>1. thread'[t].pc = "lock" /\ thread'[t].cleared = thread[t].cleared
    BY <1>1 DEF Call, Types, ThreadRecord
  <2>2. \A u \in Threads \ {t} : thread'[u] = thread[u]
    BY <1>1 DEF Call, Types
  <2> QED
    BY <2>1, <2>2, <1>1, InsideStart DEF Call
<1>2. ASSUME NEW t \in Threads, PrepareFork(t) PROVE Inside'
  <2>1. thread'[t].pc = "lock" /\ thread'[t].cleared = thread[t].cleared
    BY <1>2 DEF PrepareFork, Types, ThreadRecord
  <2>2. \A u \in Threads \ {t} : thread'[u] = thread[u]
    BY <1>2 DEF PrepareFork, Types
  <2> QED
    BY <2>1, <2>2, <1>2, InsideStart DEF PrepareFork
<1>3. ASSUME thread' = [t \in Threads |-> Idle] PROVE Inside'
  <2>1. \A t \in Threads : thread'[t].pc = "idle" /\ thread'[t].cleared = FALSE
    BY <1>3 DEF Idle
  <2> QED
    BY <2>1 DEF Inside, InCritical
<1>4. ASSUME NEW t \in Threads, InCritical(t), NEW d \in Int, Return(t, d) PROVE Inside'
  BY <1>4, ReturnShape, StaysAlone, Zenon
<1>5. ASSUME NEW t \in Threads, InCritical(t), UNCHANGED <<mutex, torn>>, NEW pc \in Places \ {"idle", "lock"}, Go(t, pc)
      PROVE  Inside'
  <2>1. thread'[t].pc = pc /\ thread'[t].cleared = thread[t].cleared
    BY <1>5 DEF Go, Types, ThreadRecord
  <2>2. \A u \in Threads \ {t} : thread'[u] = thread[u]
    BY <1>5 DEF Go, Types
  <2>3. torn \/ mutex = t \/ thread[t].cleared
    BY <1>5 DEF Inside
  <2>4. CASE torn
    BY <2>4, <1>5 DEF Inside
  <2> QED
    BY <2>1, <2>2, <2>3, <2>4, <1>5, StaysAlone, Zenon
<1>6. ASSUME NEW t \in Threads, ClearAfterFork(t) PROVE Inside'
  <2>1. thread'[t].pc = "open" /\ thread'[t].cleared = TRUE
    BY <1>6 DEF ClearAfterFork, At, Types, ThreadRecord
  <2>2. \A u \in Threads \ {t} : thread'[u] = thread[u]
    BY <1>6 DEF ClearAfterFork, Types
  <2> QED
    BY <2>1, <2>2, <1>6, StaysAlone, Zenon DEF ClearAfterFork, At, InCritical
<1>7. ASSUME NEW t \in Threads, OpenDevice(t) PROVE Inside'
  <2>1. InCritical(t)
    BY <1>7, Zenon DEF OpenDevice, At, InCritical
  <2>2. ASSUME NEW n \in Fds, thread' = [thread EXCEPT ![t] = [@ EXCEPT !.pc = "load", !.fd = n]], UNCHANGED <<mutex, torn>>
        PROVE  Inside'
    <3>1. thread'[t].pc = "load" /\ thread'[t].cleared = thread[t].cleared
      BY <2>2 DEF Types, ThreadRecord
    <3>2. \A u \in Threads \ {t} : thread'[u] = thread[u]
      BY <2>2 DEF Types
    <3>3. torn \/ mutex = t \/ thread[t].cleared
      BY <2>1 DEF Inside
    <3>4. CASE torn
      BY <3>4, <2>2 DEF Inside
    <3> QED
      BY <3>1, <3>2, <3>3, <3>4, <2>1, <2>2, StaysAlone, Zenon
  <2>3. "load" \in Places \ {"idle", "lock"}
    BY DEF Places
  <2>4. CASE Go(t, "load") /\ UNCHANGED <<mutex, torn>>
    BY <2>1, <2>3, <2>4, <1>5
  <2>5. CASE Return(t, 0)
    BY <2>1, <2>5, <1>4
  <2> QED
    BY <2>2, <2>4, <2>5, <1>7, Zenon DEF OpenDevice
<1>8. ASSUME NEW t \in Threads, SystemProps(t) PROVE Inside'
  <2>1. InCritical(t)
    BY <1>8 DEF SystemProps, At, InCritical
  <2>2. "node_props" \in Places \ {"idle", "lock"}
    BY DEF Places
  <2> QED
    BY <2>1, <2>2, <1>4, <1>5, <1>8 DEF SystemProps
<1>9. ASSUME NEW t \in Threads, OpenAgain(t) \/ Load(t) \/ CloseKFD(t) \/ Snapshot(t) \/ NodeProps(t) \/ DropSnapshot(t)
      PROVE  Inside'
  <2>1. InCritical(t)
    BY <1>9 DEF OpenAgain, Load, CloseKFD, Snapshot, NodeProps, DropSnapshot, At, InCritical
  <2>2. \E d \in Int : Return(t, d)
    BY <1>9 DEF OpenAgain, Load, CloseKFD, Snapshot, NodeProps, DropSnapshot
  <2> QED
    BY <2>1, <2>2, <1>4
<1>10. ASSUME NEW t \in Threads, Fork(t) PROVE Inside'
  <2>1. InCritical(t)
    BY <1>10 DEF Fork, At, InCritical
  <2> QED
    BY <2>1, <1>3, <1>4, <1>10 DEF Fork, Child
<1>11. ASSUME NEW t \in Threads, Start(t) PROVE Inside'
  <2>1. {"open", "close", "snapshot", "release"} \subseteq Calls
    BY DEF Places, Calls
  <2> QED
    BY <2>1, <1>1, <1>2, <1>3, <1>11 DEF Start, RawFork, Child,
       hsaKmtOpenKFD, hsaKmtCloseKFD, hsaKmtAcquireSystemProperties, hsaKmtReleaseSystemProperties
<1>12. ASSUME NEW t \in Threads, Step(t) PROVE Inside'
  BY <1>6, <1>7, <1>8, <1>9, <1>10, <1>12, InsideLock DEF Step
<1>13. CASE OtherFile \/ UNCHANGED vars
  <2>1. UNCHANGED <<thread, mutex, torn>>
    BY <1>13 DEF OtherFile, vars
  <2> QED
    BY <2>1 DEF Inside, InCritical
<1> QED
  BY <1>11, <1>12, <1>13 DEF Next

\* LockHeld for any number of threads, calls and forks: between lock and unlock a thread
\* owns the mutex and is alone, except once a child is replacing its runtime object.
THEOREM LockSafe == Spec => []LockHeld
<1>1. Init => Types /\ Inside
  BY TypesInit, InsideInit
<1>2. Types /\ Inside /\ [Next]_vars => (Types /\ Inside)'
  BY TypesNext, InsideNext
<1>3. Inside => LockHeld
  BY DEF Inside, LockHeld
<1> QED
  BY <1>1, <1>2, <1>3, PTL DEF Spec

\* At first there is no snapshot.
LEMMA ServedInit == Init => Served
  BY DEF Init, Served, At, Idle

\* A step that moves no thread to node_props and leaves topology and heaps alone.
LEMMA ServedKept ==
  ASSUME Types, Served, UNCHANGED topo, rt'.heaps = rt.heaps, torn => torn', Forked' = Forked,
         \A t \in Threads : At(t, "node_props")' => At(t, "node_props")
  PROVE  Served'
<1> SUFFICES ASSUME ~torn PROVE Served'
  BY DEF Served
<1> QED
  BY DEF Served

\* Nobody else is taking a snapshot while a thread is inside.
LEMMA NoOther ==
  ASSUME Inside, ~torn, NEW t \in Threads, InCritical(t)
  PROVE  \A u \in Threads \ {t} : ~At(u, "node_props")
  BY DEF Inside, InCritical, At

\* History torn never goes back.
LEMMA TornStays == ASSUME [Next]_vars PROVE torn => torn'
  BY Zenon DEF Next, Start, Step, vars, Call, Lock, Return, ClearAfterFork, OpenAgain, OpenDevice, Load, CloseKFD,
     Snapshot, SystemProps, NodeProps, DropSnapshot, Child, PrepareFork, Fork, RawFork, OtherFile,
     hsaKmtOpenKFD, hsaKmtCloseKFD, hsaKmtAcquireSystemProperties, hsaKmtReleaseSystemProperties

\* Every action keeps what a snapshot stands on.
LEMMA ServedNext == ASSUME Types, Inside, Served, [Next]_vars PROVE Served'
<1> SUFFICES ASSUME ~torn PROVE Served'
  BY TornStays DEF Served
<1>1. ASSUME NEW t \in Threads, NEW d \in Int, Return(t, d)
      PROVE  \A u \in Threads : At(u, "node_props")' => At(u, "node_props") /\ u # t
  BY <1>1, ReturnShape, Zenon DEF At
<1>2. ASSUME NEW t \in Threads, NEW next \in Calls, Call(t, next) PROVE Served'
  <2>1. \A u \in Threads : At(u, "node_props")' => At(u, "node_props")
    BY <1>2 DEF Call, At, Types, ThreadRecord
  <2> QED
    BY <2>1, <1>2, ServedKept DEF Call, Forked
<1>3. ASSUME NEW t \in Threads, PrepareFork(t) PROVE Served'
  <2>1. \A u \in Threads : At(u, "node_props")' => At(u, "node_props")
    BY <1>3 DEF PrepareFork, At, Types, ThreadRecord
  <2> QED
    BY <2>1, <1>3, ServedKept DEF PrepareFork, Forked
<1>4. ASSUME NEW b \in BOOLEAN, NEW m, Child(b, m) PROVE Served'
  <2>1. \A u \in Threads : ~At(u, "node_props")'
    BY <1>4 DEF Child, At, Idle
  <2>2. rt'.same_pid = FALSE
    BY <1>4 DEF Child, Types
  <2>3. topo'.system # None => topo'.devices # None
    BY <1>4 DEF Child, Served, Inherited, Former, None
  <2> QED
    BY <2>1, <2>2, <2>3 DEF Served, Forked
<1>5. ASSUME NEW t \in Threads, ClearAfterFork(t) PROVE Served'
  <2>1. \A u \in Threads : ~At(u, "node_props")'
    <3>1. \A u \in Threads \ {t} : ~At(u, "node_props")
      BY <1>5, NoOther DEF ClearAfterFork, At, InCritical
    <3> QED
      BY <3>1, <1>5 DEF ClearAfterFork, At, Types, ThreadRecord
  <2>2. rt'.heaps = None
    BY <1>5 DEF ClearAfterFork, NewRuntime
  <2>3. topo'.system # None => topo'.system = "former" /\ topo'.devices = "former"
    BY <1>5 DEF ClearAfterFork, Served, Inherited, Former, None
  <2> QED
    BY <2>1, <2>2, <2>3 DEF Served, None
<1>6. ASSUME NEW t \in Threads, Lock(t) PROVE Served'
  <2>1. thread'[t].pc # "node_props" /\ \A u \in Threads \ {t} : thread'[u] = thread[u]
    BY <1>6 DEF Lock, Types, ThreadRecord, Calls, Idle
  <2>2. \A u \in Threads : At(u, "node_props")' => At(u, "node_props")
    BY <2>1 DEF At
  <2> QED
    BY <2>2, <1>6, ServedKept DEF Lock, Forked
<1>7. ASSUME NEW t \in Threads, NEW d \in Int, Return(t, d), UNCHANGED topo,
             rt'.heaps = rt.heaps, Forked' = Forked
      PROVE  Served'
  <2>1. torn' = torn
    BY <1>7 DEF Return
  <2> QED
    BY <2>1, <1>1, <1>7, ServedKept
<1>8. ASSUME NEW t \in Threads, OpenAgain(t) \/ Load(t) \/ CloseKFD(t) PROVE Served'
  <2>1. \E d \in Int : Return(t, d)
    BY <1>8 DEF OpenAgain, Load, CloseKFD
  <2>2. rt'.heaps = rt.heaps /\ rt'.is_forked = rt.is_forked /\ rt'.same_pid = rt.same_pid /\ topo' = topo
    BY <1>8, Zenon DEF OpenAgain, Load, CloseKFD, Types
  <2> QED
    BY <2>1, <2>2, <1>7 DEF Forked
<1>9. ASSUME NEW t \in Threads, OpenDevice(t) PROVE Served'
  <2>1. rt'.heaps = rt.heaps /\ rt'.is_forked = rt.is_forked /\ rt'.same_pid = rt.same_pid /\ topo' = topo
    BY <1>9, Zenon DEF OpenDevice, Types
  <2>2. ASSUME NEW n \in Fds, thread' = [thread EXCEPT ![t] = [@ EXCEPT !.pc = "load", !.fd = n]], UNCHANGED torn
        PROVE  Served'
    <3>1. \A u \in Threads : At(u, "node_props")' => At(u, "node_props")
      BY <2>2 DEF At, Types, ThreadRecord
    <3> QED
      BY <2>1, <2>2, <3>1, ServedKept DEF Forked
  <2>3. ASSUME Go(t, "load"), UNCHANGED torn PROVE Served'
    <3>1. \A u \in Threads : At(u, "node_props")' => At(u, "node_props")
      BY <2>3 DEF Go, At, Types, ThreadRecord
    <3> QED
      BY <2>1, <2>3, <3>1, ServedKept DEF Forked
  <2>4. CASE Return(t, 0)
    BY <2>1, <2>4, <1>7 DEF Forked
  <2> QED
    BY <2>2, <2>3, <2>4, <1>9, Zenon DEF OpenDevice
<1>10. ASSUME NEW t \in Threads, Snapshot(t) PROVE Served'
  BY <1>10, <1>7 DEF Snapshot, Forked
<1>11. ASSUME NEW t \in Threads, SystemProps(t) PROVE Served'
  <2>1. \A u \in Threads \ {t} : ~At(u, "node_props")
    BY <1>11, NoOther DEF SystemProps, At, InCritical
  <2>2. topo'.system = None
    BY <1>11 DEF SystemProps, Types
  <2>3. CASE /\ topo' = [topo EXCEPT !.devices = "own"] /\ rt' = [rt EXCEPT !.heaps = "own"]
             /\ Go(t, "node_props")
    BY <2>2, <2>3 DEF Served, Types
  <2>4. CASE Return(t, 0)
    <3>1. \A u \in Threads : ~At(u, "node_props")'
      BY <1>1, <2>1, <2>4
    <3> QED
      BY <2>2, <3>1 DEF Served
  <2> QED
    BY <2>3, <2>4, <1>11 DEF SystemProps
<1>12. ASSUME NEW t \in Threads, NodeProps(t) PROVE Served'
  <2>1. \A u \in Threads : ~At(u, "node_props")'
    BY <1>1, <1>12, NoOther DEF NodeProps, At, InCritical
  <2>2. topo.system = None /\ topo.devices = "own" /\ rt.heaps = "own" /\ rt' = rt
    BY <1>12 DEF NodeProps, Served
  <2>3. topo'.devices = "own" /\ topo'.system \in {None, "own"}
    BY <1>12, <2>2 DEF NodeProps, Types
  <2> QED
    BY <2>1, <2>2, <2>3 DEF Served, None
<1>13. ASSUME NEW t \in Threads, DropSnapshot(t) PROVE Served'
  <2>1. \A u \in Threads : ~At(u, "node_props")'
    BY <1>1, <1>13, NoOther DEF DropSnapshot, At, InCritical
  <2> QED
    BY <2>1, <1>13 DEF Served, DropSnapshot
<1>14. ASSUME NEW t \in Threads, Fork(t) PROVE Served'
  <2>1. CASE Return(t, 0) /\ UNCHANGED <<rt, topo>>
    BY <2>1, <1>7 DEF Forked
  <2>2. CASE Child(TRUE, None)
    BY <2>2, <1>4, Zenon
  <2> QED
    BY <2>1, <2>2, <1>14, Zenon DEF Fork
<1>15. ASSUME NEW t \in Threads, RawFork(t) PROVE Served'
  BY <1>15, <1>4 DEF RawFork, Types
<1>16. CASE OtherFile \/ UNCHANGED vars
  <2>1. UNCHANGED <<thread, topo, rt, torn>>
    BY <1>16 DEF OtherFile, vars
  <2> QED
    BY <2>1 DEF Served, At, Forked
<1>17. ASSUME NEW t \in Threads, Start(t) PROVE Served'
  <2>1. {"open", "close", "snapshot", "release"} \subseteq Calls
    BY DEF Places, Calls
  <2> QED
    BY <2>1, <1>2, <1>3, <1>15, <1>17 DEF Start,
       hsaKmtOpenKFD, hsaKmtCloseKFD, hsaKmtAcquireSystemProperties, hsaKmtReleaseSystemProperties
<1>18. ASSUME NEW t \in Threads, Step(t) PROVE Served'
  BY <1>5, <1>6, <1>8, <1>9, <1>10, <1>11, <1>12, <1>13, <1>14, <1>18 DEF Step
<1> QED
  BY <1>16, <1>17, <1>18 DEF Next

\* A snapshot that can be served stands on devices, and one the process took itself on its
\* own devices and heaps, for every number of threads, calls and forks: what a failed
\* attempt or a release leaves behind is never served (topology.cpp 1113-1141, 1179-1182).
THEOREM SnapshotSound == Spec => []SnapshotServed
<1>1. Init => Inv
  BY TypesInit, InsideInit, ServedInit DEF Inv
<1>2. Inv /\ [Next]_vars => Inv'
  BY TypesNext, InsideNext, ServedNext DEF Inv
<1>3. Inv => SnapshotServed
  BY DEF Inv, Served, SnapshotServed, Quiet
<1> QED
  BY <1>1, <1>2, <1>3, PTL DEF Spec

-----------------------------------------------------------------------------
(* The count of opens, and the descriptor of the device. *)

\* The opens that were not closed stay when no thread's number of them changes.
LEMMA OpensSame ==
  ASSUME \A u \in Threads : thread'[u].refs = thread[u].refs
  PROVE  Opens' = Opens
  BY DEF Opens

\* Which opens there are.
LEMMA OpensMember ==
  \A x : x \in Opens <=> \E t \in Threads : \E i \in 1 .. thread[t].refs : x = <<t, i>>
  BY DEF Opens

\* One open more.
LEMMA OpensMore ==
  ASSUME NEW t \in Threads, thread[t].refs \in Nat, thread'[t].refs = thread[t].refs + 1,
         \A u \in Threads \ {t} : thread'[u].refs = thread[u].refs, IsFiniteSet(Opens)
  PROVE  IsFiniteSet(Opens') /\ Cardinality(Opens') = Cardinality(Opens) + 1
<1>1. PICK n : n = thread[t].refs
  OBVIOUS
<1>2. <<t, n + 1>> \notin Opens
  BY <1>1, OpensMember
<1>3. 1 .. n + 1 = (1 .. n) \cup {n + 1}
  BY <1>1
<1>4. Opens' = Opens \cup {<<t, n + 1>>}
  <2>1. \A u \in Threads \ {t} : {u} \X (1 .. thread'[u].refs) = {u} \X (1 .. thread[u].refs)
    OBVIOUS
  <2>2. {t} \X (1 .. thread'[t].refs) = ({t} \X (1 .. thread[t].refs)) \cup {<<t, n + 1>>}
    BY <1>1, <1>3
  <2>3. \A x : x \in Opens <=> \E u \in Threads : x \in {u} \X (1 .. thread[u].refs)
    BY DEF Opens
  <2>4. \A x : x \in Opens' <=> \E u \in Threads : x \in {u} \X (1 .. thread'[u].refs)
    BY DEF Opens
  <2>5. ASSUME NEW x \in Opens' PROVE x \in Opens \cup {<<t, n + 1>>}
    <3>1. PICK u \in Threads : x \in {u} \X (1 .. thread'[u].refs)
      BY <2>4
    <3>2. CASE u = t
      BY <2>2, <2>3, <3>1, <3>2, Zenon
    <3>3. CASE u # t
      BY <2>1, <2>3, <3>1, <3>3, Zenon
    <3> QED
      BY <3>2, <3>3
  <2>6. ASSUME NEW x \in Opens \cup {<<t, n + 1>>} PROVE x \in Opens'
    BY <2>1, <2>2, <2>3, <2>4, <2>6, Zenon
  <2> QED
    BY <2>5, <2>6, Zenon
<1> QED
  BY <1>2, <1>4, FS_AddElement, Zenon

\* One open less.
LEMMA OpensLess ==
  ASSUME NEW t \in Threads, thread[t].refs \in Nat, thread[t].refs > 0, thread'[t].refs = thread[t].refs - 1,
         \A u \in Threads \ {t} : thread'[u].refs = thread[u].refs, IsFiniteSet(Opens)
  PROVE  IsFiniteSet(Opens') /\ Cardinality(Opens') = Cardinality(Opens) - 1
<1>1. PICK n : n = thread[t].refs
  OBVIOUS
<1>2. <<t, n>> \in Opens
  BY <1>1, OpensMember
<1>3. 1 .. n - 1 = (1 .. n) \ {n}
  BY <1>1
<1>4. Opens' = Opens \ {<<t, n>>}
  <2>1. \A u \in Threads \ {t} : {u} \X (1 .. thread'[u].refs) = ({u} \X (1 .. thread[u].refs)) \ {<<t, n>>}
    OBVIOUS
  <2>2. {t} \X (1 .. thread'[t].refs) = ({t} \X (1 .. thread[t].refs)) \ {<<t, n>>}
    BY <1>1, <1>3
  <2>3. \A x : x \in Opens <=> \E u \in Threads : x \in {u} \X (1 .. thread[u].refs)
    BY DEF Opens
  <2>4. \A x : x \in Opens' <=> \E u \in Threads : x \in {u} \X (1 .. thread'[u].refs)
    BY DEF Opens
  <2>5. ASSUME NEW x \in Opens' PROVE x \in Opens \ {<<t, n>>}
    <3>1. PICK u \in Threads : x \in {u} \X (1 .. thread'[u].refs)
      BY <2>4
    <3>2. CASE u = t
      BY <2>2, <2>3, <3>1, <3>2, Zenon
    <3>3. CASE u # t
      BY <2>1, <2>3, <3>1, <3>3, Zenon
    <3> QED
      BY <3>2, <3>3
  <2>6. ASSUME NEW x \in Opens \ {<<t, n>>} PROVE x \in Opens'
    BY <2>1, <2>2, <2>3, <2>4, <2>6, Zenon
  <2> QED
    BY <2>5, <2>6, Zenon
<1> QED
  BY <1>2, <1>4, FS_RemoveElement, Zenon

\* No opens, and some.
LEMMA OpensNone ==
  ASSUME \A u \in Threads : thread[u].refs = 0
  PROVE  Opens = {} /\ IsFiniteSet(Opens) /\ Cardinality(Opens) = 0
<1>1. Opens = {}
  BY OpensMember
<1> QED
  BY <1>1, FS_EmptySet

LEMMA OpensSome ==
  ASSUME IsFiniteSet(Opens), NEW t \in Threads, thread[t].refs \in Nat, thread[t].refs > 0
  PROVE  Cardinality(Opens) \in Nat /\ Cardinality(Opens) > 0
<1>1. <<t, 1>> \in Opens
  BY OpensMember
<1>2. Cardinality(Opens) # 0 /\ Cardinality(Opens) \in Nat
  BY <1>1, FS_EmptySet, FS_CardinalityType
<1> QED
  BY <1>2

\* How many opens of its own a returning thread has left.
LEMMA ReturnRefs ==
  ASSUME Types, NEW t \in Threads, NEW d \in Int, Return(t, d), thread[t].refs \in Nat
  PROVE  /\ thread[t].refs + d >= 0 => thread'[t].refs = thread[t].refs + d
         /\ thread[t].refs = 0 /\ d <= 0 => thread'[t].refs = 0
<1>1. PICK x : x = IF thread[t].refs + d > 0 THEN thread[t].refs + d ELSE 0
  OBVIOUS
<1>2. thread' = [thread EXCEPT ![t] = [Idle EXCEPT !.refs = x]]
  BY <1>1 DEF Return
<1>3. thread'[t].refs = x
  BY <1>2 DEF Types, Idle
<1> QED
  BY <1>1, <1>3

\* At first nothing is open.
LEMMA CountedInit == Init => Counted
<1> SUFFICES ASSUME Init PROVE Counted
  OBVIOUS
<1>1. \A t \in Threads : thread[t].refs = 0 /\ thread[t].pc = "idle"
  BY DEF Init, Idle
<1>2. rt.count = 0
  BY DEF Init, NewRuntime
<1> QED
  BY <1>1, <1>2, OpensNone DEF Counted, At, Closing

\* A step of thread t that leaves the count alone.
LEMMA CountedMove ==
  ASSUME Counted, ~torn, Types, NEW t \in Threads,
         rt'.gen = rt.gen, rt'.count = rt.count, Forked' = Forked,
         \A u \in Threads \ {t} : thread'[u] = thread[u], thread'[t].refs = thread[t].refs,
         thread'[t].pc = "load" => rt.count = 0 /\ ~Forked,
         thread'[t].pc = "lock" =>
           /\ thread'[t].gen = rt.gen /\ thread'[t].next \in {"open", "close", "snapshot", "release", "fork"}
           /\ thread'[t].next = "close" => thread[t].refs > 0 \/ Forked,
         thread'[t].pc = "close" => thread[t].refs > 0 \/ Forked
  PROVE  Counted'
<1>0. rt.gen \in Int
  BY DEF Types
<1>1. Opens' = Opens
  BY OpensSame
<1>2. \A u \in Threads : thread'[u].refs \in Nat
  BY DEF Counted
<1>3. \A u \in Threads : thread'[u].pc = "lock" =>
         thread'[u].gen <= rt'.gen /\ thread'[u].next \in {"open", "close", "snapshot", "release", "fork"}
  BY <1>0 DEF Counted, At
<1>4. \A u \in Threads : thread'[u].pc = "load" => rt'.count = 0
  BY DEF Counted, At
<1>5. Forked' => \A u \in Threads : thread'[u].refs = 0 /\ thread'[u].pc # "load"
  BY DEF Counted, At
<1>6. ~Forked' => \A u \in Threads : Closing(u)' => thread'[u].refs > 0
  BY DEF Counted, At, Closing
<1>7. ~Forked' => rt'.count = Cardinality(Opens')
  BY <1>1 DEF Counted
<1> QED
  BY <1>1, <1>2, <1>3, <1>4, <1>5, <1>6, <1>7 DEF Counted, At

\* A step that opens or closes, and returns.
LEMMA CountedChange ==
  ASSUME Counted, Inside, ~torn, NEW t \in Threads, InCritical(t),
         rt'.gen = rt.gen, Forked' = Forked, ~Forked,
         \A u \in Threads \ {t} : thread'[u] = thread[u], thread'[t].pc = "idle", thread'[t].refs \in Nat,
         IsFiniteSet(Opens'), rt'.count = Cardinality(Opens')
  PROVE  Counted'
<1>1. \A u \in Threads \ {t} : ~InCritical(u)
  BY DEF Inside
<1>2. \A u \in Threads : thread'[u].pc # "load"
  BY <1>1 DEF InCritical
<1>3. \A u \in Threads : thread'[u].refs \in Nat
  BY DEF Counted
<1>4. \A u \in Threads : thread'[u].pc = "lock" =>
         thread'[u].gen <= rt'.gen /\ thread'[u].next \in {"open", "close", "snapshot", "release", "fork"}
  BY DEF Counted, At
<1>5. \A u \in Threads : Closing(u)' => thread'[u].refs > 0
  BY DEF Counted, At, Closing
<1> QED
  BY <1>2, <1>3, <1>4, <1>5 DEF Counted, At

\* In a child no thread has opened anything.
LEMMA CountedChild ==
  ASSUME NEW b \in BOOLEAN, NEW m, Types, Child(b, m) PROVE Counted'
<1>1. \A u \in Threads : thread'[u].refs = 0 /\ thread'[u].pc = "idle"
  BY DEF Child, Idle
<1>2. rt'.same_pid = FALSE
  BY DEF Child, Types
<1>3. Opens' = {} /\ IsFiniteSet(Opens')
  <2>1. Opens' = {}
    BY <1>1 DEF Opens
  <2> QED
    BY <2>1, FS_EmptySet
<1> QED
  BY <1>1, <1>2, <1>3 DEF Counted, At, Forked, Closing

\* A step that returns without opening or closing.
LEMMA CountedReturn ==
  ASSUME Counted, ~torn, Types, NEW t \in Threads, Return(t, 0),
         rt'.gen = rt.gen, rt'.count = rt.count, Forked' = Forked
  PROVE  Counted'
<1>1. thread[t].refs \in Nat /\ 0 \in Int
  BY DEF Counted
<1>2. thread'[t].refs = thread[t].refs
  BY <1>1, ReturnRefs
<1>3. thread'[t].pc = "idle" /\ \A u \in Threads \ {t} : thread'[u] = thread[u]
  BY <1>1, ReturnShape, Zenon
<1> QED
  BY <1>2, <1>3, CountedMove

\* A call starts; who closes has opened, or is in a child.
LEMMA CountedCall ==
  ASSUME Counted, ~torn, Types, NEW t \in Threads, NEW next \in {"open", "close", "snapshot", "release"}, Call(t, next),
         next = "close" => thread[t].refs > 0 \/ Forked
  PROVE  Counted'
<1>1. /\ thread'[t].pc = "lock" /\ thread'[t].next = next /\ thread'[t].gen = rt.gen
      /\ thread'[t].refs = thread[t].refs /\ \A u \in Threads \ {t} : thread'[u] = thread[u]
  BY DEF Call, Types, ThreadRecord
<1>2. rt' = rt
  BY DEF Call
<1> QED
  BY <1>1, <1>2, CountedMove DEF Forked

\* The handler before a fork asks for the lock.
LEMMA CountedPrepare == ASSUME Counted, ~torn, Types, NEW t \in Threads, PrepareFork(t) PROVE Counted'
<1>1. /\ thread'[t].pc = "lock" /\ thread'[t].next = "fork" /\ thread'[t].gen = rt.gen
      /\ thread'[t].refs = thread[t].refs /\ \A u \in Threads \ {t} : thread'[u] = thread[u]
  BY DEF PrepareFork, Types, ThreadRecord
<1>2. rt' = rt
  BY DEF PrepareFork
<1> QED
  BY <1>1, <1>2, CountedMove DEF Forked

\* A thread takes the lock of the object it found.
LEMMA CountedLock == ASSUME Counted, ~torn, Types, NEW t \in Threads, Lock(t) PROVE Counted'
<1>1. thread[t].pc = "lock" /\ thread[t].gen = rt.gen /\ rt' = rt
  BY DEF Lock, At
<1>2. /\ thread'[t].refs = thread[t].refs /\ \A u \in Threads \ {t} : thread'[u] = thread[u]
      /\ thread'[t].pc \in {"relock", thread[t].next}
  BY DEF Lock, Types, ThreadRecord, Idle
<1>3. thread[t].next \in {"open", "close", "snapshot", "release", "fork"}
  BY <1>1 DEF Counted, At
<1>4. thread[t].next = "close" => thread[t].refs > 0 \/ Forked
  BY <1>1 DEF Counted, Closing, At
<1> QED
  BY <1>1, <1>2, <1>3, <1>4, CountedMove DEF Forked

\* The object is replaced: nothing is open, and who waits for the old one waits for ever.
LEMMA CountedClear == ASSUME Counted, Inside, ~torn, Types, NEW t \in Threads, ClearAfterFork(t) PROVE Counted'
<1>1. Forked /\ thread[t].pc = "open"
  BY DEF ClearAfterFork, At
<1>2. rt'.count = 0 /\ rt'.gen = rt.gen + 1 /\ rt.gen \in Int /\ ~Forked'
  BY DEF ClearAfterFork, NewRuntime, Types, Forked
<1>3. \A u \in Threads : /\ thread'[u].refs = thread[u].refs /\ thread'[u].pc = thread[u].pc
                         /\ thread'[u].gen = thread[u].gen /\ thread'[u].next = thread[u].next
  BY DEF ClearAfterFork, Types, ThreadRecord
<1>4. \A u \in Threads : thread'[u].refs = 0 /\ thread'[u].pc # "load"
  BY <1>1, <1>3 DEF Counted, At
<1>5. IsFiniteSet(Opens') /\ Cardinality(Opens') = 0
  <2>1. Opens' = {}
    BY <1>4 DEF Opens
  <2> QED
    BY <2>1, FS_EmptySet
<1>6. \A u \in Threads : thread[u].pc # "close"
  BY <1>1 DEF Inside, InCritical
<1>7. \A u \in Threads : thread[u].pc = "lock" => thread[u].gen <= rt.gen /\ thread[u].gen \in Int
                           /\ thread[u].next \in {"open", "close", "snapshot", "release", "fork"}
  BY DEF Counted, At, Types, ThreadRecord
<1>8. \A u \in Threads : ~Closing(u)'
  BY <1>2, <1>3, <1>6, <1>7 DEF Closing, At
<1> QED
  BY <1>2, <1>3, <1>4, <1>5, <1>7, <1>8 DEF Counted, At

\* Opening once more.
LEMMA CountedAgain == ASSUME Counted, Inside, ~torn, Types, NEW t \in Threads, OpenAgain(t) PROVE Counted'
<1>1. InCritical(t) /\ ~Forked /\ Return(t, 1)
  BY DEF OpenAgain, At, InCritical
<1>2. rt'.gen = rt.gen /\ rt'.count = rt.count + 1 /\ Forked' = Forked
  BY DEF OpenAgain, Types, Forked
<1>3. thread[t].refs \in Nat /\ rt.count = Cardinality(Opens) /\ IsFiniteSet(Opens) /\ 1 \in Int
  BY <1>1 DEF Counted
<1>4. thread'[t].refs = thread[t].refs + 1
  BY <1>1, <1>3, ReturnRefs
<1>5. thread'[t].pc = "idle" /\ \A u \in Threads \ {t} : thread'[u] = thread[u]
  BY <1>1, <1>3, ReturnShape, Zenon
<1>6. IsFiniteSet(Opens') /\ Cardinality(Opens') = Cardinality(Opens) + 1
  BY <1>3, <1>4, <1>5, OpensMore
<1> QED
  BY <1>1, <1>2, <1>3, <1>4, <1>5, <1>6, CountedChange

\* Opening the device, or failing to.
LEMMA CountedDevice == ASSUME Counted, ~torn, Types, NEW t \in Threads, OpenDevice(t) PROVE Counted'
<1>1. rt'.gen = rt.gen /\ rt'.count = rt.count /\ Forked' = Forked /\ rt.count = 0 /\ ~Forked
  BY Zenon DEF OpenDevice, Types, Forked
<1>2. ASSUME NEW n, thread' = [thread EXCEPT ![t] = [@ EXCEPT !.pc = "load", !.fd = n]] PROVE Counted'
  <2>1. thread'[t].pc = "load" /\ thread'[t].refs = thread[t].refs /\ \A u \in Threads \ {t} : thread'[u] = thread[u]
    BY <1>2 DEF Types, ThreadRecord
  <2> QED
    BY <1>1, <2>1, CountedMove
<1>3. CASE Go(t, "load")
  <2>1. thread'[t].pc = "load" /\ thread'[t].refs = thread[t].refs /\ \A u \in Threads \ {t} : thread'[u] = thread[u]
    BY <1>3 DEF Go, Types, ThreadRecord
  <2> QED
    BY <1>1, <2>1, CountedMove
<1>4. CASE Return(t, 0)
  BY <1>1, <1>4, CountedReturn
<1> QED
  BY <1>2, <1>3, <1>4, Zenon DEF OpenDevice

\* Loading the library: the first open succeeds, or does not count.
LEMMA CountedLoad == ASSUME Counted, Inside, ~torn, Types, NEW t \in Threads, Load(t) PROVE Counted'
<1>1. InCritical(t) /\ thread[t].pc = "load"
  BY DEF Load, At, InCritical
<1>2. ~Forked /\ rt.count = 0
  BY <1>1 DEF Counted, At
<1>3. thread[t].refs \in Nat /\ rt.count = Cardinality(Opens) /\ IsFiniteSet(Opens) /\ 1 \in Int
  BY <1>2 DEF Counted
<1>4. CASE Return(t, 1) /\ rt' = [rt EXCEPT !.count = 1]
  <2>1. rt'.gen = rt.gen /\ rt'.count = 1 /\ Forked' = Forked
    BY <1>4 DEF Types, Forked
  <2>2. thread'[t].refs = thread[t].refs + 1
    BY <1>3, <1>4, ReturnRefs
  <2>3. thread'[t].pc = "idle" /\ \A u \in Threads \ {t} : thread'[u] = thread[u]
    BY <1>3, <1>4, ReturnShape, Zenon
  <2>4. IsFiniteSet(Opens') /\ Cardinality(Opens') = Cardinality(Opens) + 1
    BY <1>3, <2>2, <2>3, OpensMore
  <2>5. thread'[t].refs \in Nat /\ rt'.count = Cardinality(Opens')
    BY <1>2, <1>3, <2>1, <2>2, <2>4
  <2> QED
    BY <1>1, <1>2, <2>1, <2>3, <2>4, <2>5, CountedChange
<1>5. CASE Return(t, 0) /\ rt' = rt
  BY <1>5, CountedReturn DEF Forked
<1> QED
  BY <1>4, <1>5 DEF Load

\* Closing.  In a child that has not opened, there is nothing of its own to close.
LEMMA CountedClose == ASSUME Counted, Inside, ~torn, Types, NEW t \in Threads, CloseKFD(t) PROVE Counted'
<1>1. InCritical(t) /\ thread[t].pc = "close" /\ Return(t, -1)
  BY DEF CloseKFD, At, InCritical
<1>2. rt'.gen = rt.gen /\ Forked' = Forked /\ rt'.count = IF rt.count > 0 THEN rt.count - 1 ELSE 0
  <2>1. PICK c, f : /\ c = IF rt.count > 0 THEN rt.count - 1 ELSE 0
                    /\ rt' = [rt EXCEPT !.count = c, !.fd = f]
    BY Zenon DEF CloseKFD
  <2> QED
    BY <2>1 DEF Types, Forked
<1>3. thread[t].refs \in Nat /\ -1 \in Int /\ IsFiniteSet(Opens)
  BY DEF Counted
<1>4. thread'[t].pc = "idle" /\ \A u \in Threads \ {t} : thread'[u] = thread[u]
  BY <1>1, <1>3, ReturnShape, Zenon
<1>5. CASE ~Forked
  <2>1. rt.count = Cardinality(Opens) /\ thread[t].refs > 0
    BY <1>1, <1>5 DEF Counted, Closing, At
  <2>2. thread'[t].refs = thread[t].refs - 1
    BY <1>1, <1>3, <2>1, ReturnRefs
  <2>3. IsFiniteSet(Opens') /\ Cardinality(Opens') = Cardinality(Opens) - 1
    BY <1>3, <1>4, <2>1, <2>2, OpensLess
  <2>4. Cardinality(Opens) \in Nat /\ Cardinality(Opens) > 0
    BY <1>3, <2>1, OpensSome
  <2>5. thread'[t].refs \in Nat /\ rt'.count = Cardinality(Opens')
    BY <1>2, <1>3, <2>1, <2>2, <2>3, <2>4
  <2> QED
    BY <1>1, <1>2, <1>4, <1>5, <2>3, <2>5, CountedChange
<1>6. CASE Forked
  <2>1. thread[t].refs = 0 /\ \A u \in Threads : thread[u].refs = 0 /\ thread[u].pc # "load"
    BY <1>6 DEF Counted, At
  <2>2. thread'[t].refs = 0
    BY <1>1, <1>3, <2>1, ReturnRefs
  <2>3. \A u \in Threads : thread'[u].refs = thread[u].refs
    BY <1>4, <2>1, <2>2
  <2>4. Opens' = Opens
    BY <2>3, OpensSame
  <2>5. \A u \in Threads : thread'[u].pc = "lock" =>
          thread'[u].gen <= rt'.gen /\ thread'[u].next \in {"open", "close", "snapshot", "release", "fork"}
    BY <1>2, <1>4 DEF Counted, At
  <2>6. \A u \in Threads : thread'[u].pc # "load" /\ thread'[u].refs = 0
    BY <1>4, <2>1, <2>3
  <2> QED
    BY <1>2, <1>3, <1>6, <2>4, <2>5, <2>6 DEF Counted, At
<1> QED
  BY <1>5, <1>6

\* Every action keeps the count.
LEMMA CountedNext == ASSUME Types, Inside, Counted, [Next]_vars PROVE Counted'
<1> SUFFICES ASSUME ~torn PROVE Counted'
  BY TornStays DEF Counted
<1>1. ASSUME NEW t \in Threads, Start(t) PROVE Counted'
  <2>1. CASE PrepareFork(t)
    BY <2>1, CountedPrepare
  <2>2. CASE RawFork(t)
    BY <2>2, CountedChild DEF RawFork, Types
  <2>3. CASE hsaKmtCloseKFD(t)
    BY <2>3, CountedCall DEF hsaKmtCloseKFD
  <2>4. ASSUME NEW next \in {"open", "snapshot", "release"}, Call(t, next) PROVE Counted'
    BY <2>4, CountedCall
  <2> QED
    BY <1>1, <2>1, <2>2, <2>3, <2>4
    DEF Start, hsaKmtOpenKFD, hsaKmtAcquireSystemProperties, hsaKmtReleaseSystemProperties
<1>2. ASSUME NEW t \in Threads, Snapshot(t) \/ NodeProps(t) \/ DropSnapshot(t) PROVE Counted'
  <2>1. Return(t, 0) /\ rt' = rt
    BY <1>2 DEF Snapshot, NodeProps, DropSnapshot
  <2> QED
    BY <2>1, CountedReturn DEF Forked
<1>3. ASSUME NEW t \in Threads, SystemProps(t) PROVE Counted'
  <2>1. rt'.gen = rt.gen /\ rt'.count = rt.count /\ Forked' = Forked
    BY <1>3 DEF SystemProps, Types, Forked
  <2>2. CASE Go(t, "node_props")
    <3>1. thread'[t].pc = "node_props" /\ thread'[t].refs = thread[t].refs /\ \A u \in Threads \ {t} : thread'[u] = thread[u]
      BY <2>2 DEF Go, Types, ThreadRecord
    <3> QED
      BY <2>1, <3>1, CountedMove
  <2>3. CASE Return(t, 0)
    BY <2>1, <2>3, CountedReturn
  <2> QED
    BY <1>3, <2>2, <2>3 DEF SystemProps
<1>4. ASSUME NEW t \in Threads, Fork(t) PROVE Counted'
  <2>1. CASE Return(t, 0) /\ UNCHANGED rt
    BY <2>1, CountedReturn DEF Forked
  <2>2. CASE Child(TRUE, None)
    BY <2>2, CountedChild, Zenon
  <2> QED
    BY <1>4, <2>1, <2>2, Zenon DEF Fork
<1>5. ASSUME NEW t \in Threads, Step(t) PROVE Counted'
  BY <1>2, <1>3, <1>4, <1>5, CountedLock, CountedClear, CountedAgain, CountedDevice, CountedLoad, CountedClose DEF Step
<1>6. CASE OtherFile \/ UNCHANGED vars
  <2>1. UNCHANGED <<thread, rt, torn>>
    BY <1>6 DEF OtherFile, vars
  <2> QED
    BY <2>1 DEF Counted, At, Forked, Closing, Opens
<1> QED
  BY <1>1, <1>5, <1>6 DEF Next

\* Closing a descriptor.
LEMMA CloseDevices ==
  ASSUME NEW fd, files' = Close(fd)
  PROVE  DOMAIN files' = Fds /\ Devices' = Devices \ {fd}
  BY DEF Close, Devices

\* At first there is no descriptor.
LEMMA OpenedInit == Init => Opened
<1> SUFFICES ASSUME Init PROVE Opened
  OBVIOUS
<1>1. rt.fd = NoFd /\ rt.count = 0 /\ stale = FALSE
  BY DEF Init, NewRuntime
<1>2. DOMAIN files = Fds /\ Devices = {}
  BY DEF Init, Devices
<1>3. \A t \in Threads : thread[t].pc = "idle"
  BY DEF Init, Idle
<1> QED
  BY <1>1, <1>2, <1>3 DEF Opened, At

\* A step of thread t that leaves the device alone and is not part of its opening.
LEMMA OpenedMove ==
  ASSUME Opened, ~torn, NEW t \in Threads, UNCHANGED files, loaded' <=> loaded, stale' <=> stale,
         rt'.fd = rt.fd, rt'.count > 0 <=> rt.count > 0, Forked' = Forked,
         \A u \in Threads \ {t} : thread'[u] = thread[u], thread[t].pc # "load", thread'[t].pc # "load",
         thread'[t].pc = "open" => thread'[t].fd = NoFd
  PROVE  Opened'
<1>1. Devices' = Devices
  BY DEF Devices
<1>2. \A u \in Threads : thread'[u].pc = "load" <=> thread[u].pc = "load"
  OBVIOUS
<1>3. \A u \in Threads : thread'[u].pc = "load" => thread'[u].fd = thread[u].fd
  OBVIOUS
<1>4. \A u \in Threads : thread'[u].pc = "open" => thread'[u].fd = NoFd
  BY DEF Opened, At
<1>5. DOMAIN files' = Fds /\ rt'.fd \in Fds \cup {NoFd} /\ Devices' \subseteq {rt'.fd} /\ (stale' => rt'.fd # NoFd)
  BY <1>1 DEF Opened
<1>6. ASSUME ~Forked'
      PROVE  /\ rt'.count > 0 => rt'.fd # NoFd /\ loaded'
             /\ Devices' = IF stale' \/ rt'.fd = NoFd THEN {} ELSE {rt'.fd}
             /\ rt'.fd = NoFd \/ stale' \/ rt'.count > 0 \/ \E u \in Threads : thread'[u].pc = "load"
             /\ \A u \in Threads : thread'[u].pc = "load" =>
                  rt'.fd # NoFd /\ thread'[u].fd = IF stale' THEN NoFd ELSE rt'.fd
  <2>1. rt'.count > 0 => rt'.fd # NoFd /\ loaded'
    BY <1>6 DEF Opened
  <2>2. Devices' = IF stale' \/ rt'.fd = NoFd THEN {} ELSE {rt'.fd}
    BY <1>1, <1>6 DEF Opened
  <2>3. rt'.fd = NoFd \/ stale' \/ rt'.count > 0 \/ \E u \in Threads : thread'[u].pc = "load"
    BY <1>2, <1>6 DEF Opened, At
  <2>4. \A u \in Threads : thread'[u].pc = "load" =>
          rt'.fd # NoFd /\ thread'[u].fd = IF stale' THEN NoFd ELSE rt'.fd
    BY <1>2, <1>3, <1>6 DEF Opened, At
  <2> QED
    BY <2>1, <2>2, <2>3, <2>4
<1> QED
  BY <1>4, <1>5, <1>6 DEF Opened, At

\* A thread returns from a call that has nothing to do with the device.
LEMMA OpenedReturn ==
  ASSUME Opened, ~torn, Types, NEW t \in Threads, NEW d \in Int, Return(t, d), thread[t].pc # "load",
         UNCHANGED <<files, loaded, stale>>, rt'.fd = rt.fd, rt'.count > 0 <=> rt.count > 0, Forked' = Forked
  PROVE  Opened'
<1>1. thread'[t].pc = "idle" /\ \A u \in Threads \ {t} : thread'[u] = thread[u]
  BY ReturnShape, Zenon
<1> QED
  BY <1>1, OpenedMove

\* A child has the files of its parent.
LEMMA OpenedChild ==
  ASSUME NEW b \in BOOLEAN, NEW m, Types, Opened, ~torn, Child(b, m) PROVE Opened'
<1>1. \A u \in Threads : thread'[u].pc = "idle"
  BY DEF Child, Idle
<1>2. rt'.same_pid = FALSE /\ rt'.fd = rt.fd /\ UNCHANGED <<files, stale>>
  BY DEF Child, Types
<1>3. Devices' = Devices
  BY <1>2 DEF Devices
<1> QED
  BY <1>1, <1>2, <1>3 DEF Opened, At, Forked

\* The number of no descriptor is none.
LEMMA NoFdIsNone == NoFd \notin Fds
  BY RuntimeAssumption DEF NoFd

\* The first open in a child closes the descriptor it has inherited.
LEMMA OpenedClear ==
  ASSUME Counted, Opened, ~torn, Types, NEW t \in Threads, ClearAfterFork(t) PROVE Opened'
<1>1. Forked /\ files' = Close(rt.fd) /\ stale' = FALSE
  BY DEF ClearAfterFork
<1>2. rt'.count = 0 /\ rt'.fd = NoFd
  BY DEF ClearAfterFork, NewRuntime
<1>3. \A u \in Threads : thread'[u].pc = thread[u].pc /\ thread'[u].fd = thread[u].fd
  BY DEF ClearAfterFork, Types, ThreadRecord
<1>4. \A u \in Threads : thread'[u].pc # "load" /\ (thread'[u].pc = "open" => thread'[u].fd = NoFd)
  BY <1>1, <1>3 DEF Counted, Opened, At
<1>5. DOMAIN files' = Fds /\ Devices' = {}
  BY <1>1, CloseDevices DEF Opened
<1> QED
  BY <1>1, <1>2, <1>4, <1>5 DEF Opened, At

\* The device is opened, unless a number is left from a failure of the loader.
LEMMA OpenedDevice ==
  ASSUME Inside, Opened, ~torn, Types, NEW t \in Threads, OpenDevice(t) PROVE Opened'
<1>1. thread[t].pc = "open" /\ ~Forked /\ rt.count = 0 /\ UNCHANGED <<loaded, stale>>
  BY Zenon DEF OpenDevice, At
<1>2. \A u \in Threads \ {t} : thread[u].pc \notin {"load", "open"}
  BY <1>1 DEF Inside, InCritical
<1>3. thread[t].fd = NoFd /\ DOMAIN files = Fds /\ rt.fd \in Fds \cup {NoFd}
  BY <1>1 DEF Opened, At
<1>4. ASSUME NEW n \in Fds, rt.fd = NoFd, files' = [files EXCEPT ![n] = "device"],
             rt' = [rt EXCEPT !.fd = n],
             thread' = [thread EXCEPT ![t] = [@ EXCEPT !.pc = "load", !.fd = n]]
      PROVE  Opened'
  <2>1. rt'.fd = n /\ rt'.count = 0 /\ Forked' = Forked
    BY <1>1, <1>4 DEF Types, Forked
  <2>2. thread'[t].pc = "load" /\ thread'[t].fd = n /\ \A u \in Threads \ {t} : thread'[u] = thread[u]
    BY <1>4 DEF Types, ThreadRecord
  <2>3. ~stale /\ Devices = {}
    BY <1>1, <1>4 DEF Opened
  <2>4. DOMAIN files' = Fds /\ Devices' = {n}
    BY <1>3, <1>4, <2>3 DEF Devices
  <2>5. n # NoFd
    BY NoFdIsNone
  <2>6. \A u \in Threads : thread'[u].pc # "open" /\ (thread'[u].pc = "load" => u = t)
    BY <1>2, <2>2
  <2> QED
    BY <1>1, <2>1, <2>2, <2>3, <2>4, <2>5, <2>6 DEF Opened, At
<1>5. CASE rt.fd # NoFd /\ Go(t, "load") /\ UNCHANGED <<rt, files>>
  <2>1. thread'[t].pc = "load" /\ thread'[t].fd = NoFd /\ \A u \in Threads \ {t} : thread'[u] = thread[u]
    BY <1>3, <1>5 DEF Go, Types, ThreadRecord
  <2>2. stale
    BY <1>1, <1>2, <1>5 DEF Opened, At
  <2>3. \A u \in Threads : thread'[u].pc # "open" /\ (thread'[u].pc = "load" => u = t)
    BY <1>2, <2>1
  <2>4. Devices' = Devices /\ Forked' = Forked
    BY <1>5 DEF Devices, Forked
  <2> QED
    BY <1>1, <1>5, <2>1, <2>2, <2>3, <2>4 DEF Opened, At
<1>6. CASE Return(t, 0) /\ UNCHANGED <<rt, files>>
  BY <1>1, <1>6, OpenedReturn DEF Forked
<1> QED
  BY <1>4, <1>5, <1>6, Zenon DEF OpenDevice

\* The library is loaded, or the new descriptor is closed and its number stays.
LEMMA OpenedLoad ==
  ASSUME Inside, Counted, Opened, ~torn, Types, NEW t \in Threads, Load(t) PROVE Opened'
<1>1. thread[t].pc = "load"
  BY DEF Load, At
<1>2. ~Forked /\ rt.count = 0
  BY <1>1 DEF Counted, At
<1>3. \A u \in Threads \ {t} : thread[u].pc \notin {"load", "open"}
  BY <1>1 DEF Inside, InCritical
<1>4. /\ rt.fd # NoFd /\ thread[t].fd = (IF stale THEN NoFd ELSE rt.fd)
      /\ Devices = (IF stale \/ rt.fd = NoFd THEN {} ELSE {rt.fd})
      /\ DOMAIN files = Fds /\ rt.fd \in Fds \cup {NoFd}
  BY <1>1, <1>2 DEF Opened, At
<1>5. thread'[t].pc = "idle" /\ \A u \in Threads \ {t} : thread'[u] = thread[u]
  <2>1. 0 \in Int /\ 1 \in Int
    OBVIOUS
  <2> QED
    BY <2>1, ReturnShape, Zenon DEF Load
<1>6. \A u \in Threads : thread'[u].pc \notin {"load", "open"}
  BY <1>3, <1>5
<1>7. CASE loaded' = TRUE /\ rt' = [rt EXCEPT !.count = 1] /\ UNCHANGED <<files, stale>>
  <2>1. rt'.fd = rt.fd /\ rt'.count = 1 /\ Forked' = Forked
    BY <1>7 DEF Types, Forked
  <2>2. Devices' = Devices
    BY <1>7 DEF Devices
  <2> QED
    BY <1>4, <1>6, <1>7, <2>1, <2>2 DEF Opened, At
<1>8. CASE files' = Close(thread[t].fd) /\ stale' = TRUE /\ UNCHANGED rt
  <2>1. DOMAIN files' = Fds /\ Devices' = {}
    BY <1>4, <1>8, CloseDevices
  <2>2. rt' = rt /\ Forked' = Forked
    BY <1>8 DEF Forked
  <2> QED
    BY <1>2, <1>4, <1>6, <1>8, <2>1, <2>2 DEF Opened, At
<1> QED
  BY <1>7, <1>8, Zenon DEF Load

\* The last close gives the descriptor back, whoever has the number by then.
LEMMA OpenedClose ==
  ASSUME Inside, Counted, Opened, ~torn, Types, NEW t \in Threads, CloseKFD(t) PROVE Opened'
<1>1. thread[t].pc = "close" /\ Return(t, -1)
  BY DEF CloseKFD, At
<1>2. \A u \in Threads \ {t} : thread[u].pc \notin {"load", "open"}
  BY <1>1 DEF Inside, InCritical
<1>3. thread'[t].pc = "idle" /\ \A u \in Threads \ {t} : thread'[u] = thread[u]
  <2>1. -1 \in Int
    OBVIOUS
  <2> QED
    BY <1>1, <2>1, ReturnShape, Zenon
<1>4. \A u \in Threads : thread'[u].pc \notin {"load", "open"}
  BY <1>2, <1>3
<1>5. /\ rt'.count = (IF rt.count > 0 THEN rt.count - 1 ELSE 0) /\ Forked' = Forked
      /\ rt'.fd = (IF rt.count = 1 THEN NoFd ELSE rt.fd) /\ rt.count \in Int
  <2>1. PICK c, f : /\ c = IF rt.count > 0 THEN rt.count - 1 ELSE 0
                    /\ f = IF rt.count = 1 THEN NoFd ELSE rt.fd
                    /\ rt' = [rt EXCEPT !.count = c, !.fd = f]
    BY Zenon DEF CloseKFD
  <2> QED
    BY <2>1 DEF Types, Forked
<1>6. CASE rt.count = 1
  <2>1. rt'.count = 0 /\ rt'.fd = NoFd
    BY <1>5, <1>6
  <2>3. files' = Close(rt.fd) /\ ~stale'
    BY <1>6, Zenon DEF CloseKFD
  <2>2. DOMAIN files' = Fds /\ Devices' = {}
    BY <2>3, CloseDevices DEF Opened
  <2> QED
    BY <1>4, <2>1, <2>2, <2>3 DEF Opened, At
<1>7. CASE rt.count # 1
  <2>1. files' = files /\ (loaded' <=> loaded) /\ (stale' <=> stale)
    BY <1>7, Zenon DEF CloseKFD
  <2>2. rt'.fd = rt.fd /\ (rt'.count > 0 <=> rt.count > 0)
    BY <1>5, <1>7
  <2> QED
    BY <1>1, <1>3, <1>5, <2>1, <2>2, OpenedMove
<1> QED
  BY <1>6, <1>7

\* Every action keeps the descriptor.
LEMMA OpenedNext == ASSUME Types, Inside, Counted, Opened, [Next]_vars PROVE Opened'
<1> SUFFICES ASSUME ~torn PROVE Opened'
  BY TornStays DEF Opened
<1>0. 0 \in Int /\ 1 \in Int
  OBVIOUS
<1>1. ASSUME NEW t \in Threads, NEW next, Call(t, next) PROVE Opened'
  <2>1. /\ thread[t].pc = "idle" /\ thread'[t].pc = "lock" /\ rt' = rt /\ UNCHANGED <<files, loaded, stale>>
        /\ \A u \in Threads \ {t} : thread'[u] = thread[u]
    BY <1>1 DEF Call, At, Types, ThreadRecord
  <2> QED
    BY <2>1, OpenedMove DEF Forked
<1>2. ASSUME NEW t \in Threads, PrepareFork(t) PROVE Opened'
  <2>1. /\ thread[t].pc = "idle" /\ thread'[t].pc = "lock" /\ rt' = rt /\ UNCHANGED <<files, loaded, stale>>
        /\ \A u \in Threads \ {t} : thread'[u] = thread[u]
    BY <1>2 DEF PrepareFork, At, Types, ThreadRecord
  <2> QED
    BY <2>1, OpenedMove DEF Forked
<1>3. ASSUME NEW t \in Threads, Lock(t) PROVE Opened'
  <2>1. /\ thread[t].pc = "lock" /\ thread'[t].fd = NoFd /\ rt' = rt /\ UNCHANGED <<files, loaded, stale>>
        /\ \A u \in Threads \ {t} : thread'[u] = thread[u] /\ thread'[t].pc \in {"relock", thread[t].next}
    BY <1>3 DEF Lock, At, Types, ThreadRecord, Idle
  <2>2. thread'[t].pc \in {"relock", thread[t].next}
    BY <1>3 DEF Lock, Types, Idle
  <2>3. thread[t].next \in {"open", "close", "snapshot", "release", "fork"}
    BY <2>1 DEF Counted, At
  <2>4. thread[t].pc # "load" /\ thread'[t].pc # "load"
    BY <2>1, <2>2, <2>3
  <2> QED
    BY <2>1, <2>4, OpenedMove DEF Forked
<1>4. ASSUME NEW t \in Threads, Snapshot(t) \/ NodeProps(t) \/ DropSnapshot(t) PROVE Opened'
  <2>1. Return(t, 0) /\ rt' = rt /\ UNCHANGED <<files, loaded, stale>> /\ thread[t].pc # "load"
    BY <1>4 DEF Snapshot, NodeProps, DropSnapshot, At
  <2> QED
    BY <1>0, <2>1, OpenedReturn DEF Forked
<1>5. ASSUME NEW t \in Threads, SystemProps(t) PROVE Opened'
  <2>1. /\ rt'.fd = rt.fd /\ rt'.count = rt.count /\ Forked' = Forked
        /\ UNCHANGED <<files, loaded, stale>> /\ thread[t].pc # "load"
    BY <1>5 DEF SystemProps, Types, Forked, At
  <2>2. CASE Go(t, "node_props")
    <3>1. thread'[t].pc = "node_props" /\ \A u \in Threads \ {t} : thread'[u] = thread[u]
      BY <2>2 DEF Go, Types, ThreadRecord
    <3> QED
      BY <2>1, <3>1, OpenedMove
  <2>3. CASE Return(t, 0)
    BY <1>0, <2>1, <2>3, OpenedReturn
  <2> QED
    BY <1>5, <2>2, <2>3 DEF SystemProps
<1>6. ASSUME NEW t \in Threads, OpenAgain(t) PROVE Opened'
  <2>1. /\ rt'.fd = rt.fd /\ Forked' = Forked /\ rt.count > 0 /\ rt'.count > 0
        /\ UNCHANGED <<files, loaded, stale>> /\ thread[t].pc # "load" /\ Return(t, 1)
    BY <1>6 DEF OpenAgain, Types, Forked, At
  <2> QED
    BY <1>0, <2>1, OpenedReturn
<1>7. ASSUME NEW t \in Threads, Fork(t) PROVE Opened'
  <2>1. CASE Return(t, 0) /\ UNCHANGED <<rt, topo, loaded, atfork, files, stale>>
    <3>1. thread[t].pc # "load"
      BY <1>7 DEF Fork, At
    <3> QED
      BY <1>0, <2>1, <3>1, OpenedReturn DEF Forked
  <2>2. CASE Child(TRUE, None)
    BY <2>2, OpenedChild, Zenon
  <2> QED
    BY <1>7, <2>1, <2>2, Zenon DEF Fork
<1>8. ASSUME NEW t \in Threads, RawFork(t) PROVE Opened'
  BY <1>8, OpenedChild DEF RawFork, Types
<1>9. ASSUME NEW t \in Threads, Start(t) PROVE Opened'
  BY <1>1, <1>2, <1>8, <1>9 DEF Start, hsaKmtOpenKFD, hsaKmtCloseKFD, hsaKmtAcquireSystemProperties,
     hsaKmtReleaseSystemProperties
<1>10. ASSUME NEW t \in Threads, Step(t) PROVE Opened'
  BY <1>3, <1>4, <1>5, <1>6, <1>7, <1>10, OpenedClear, OpenedDevice, OpenedLoad, OpenedClose DEF Step
<1>11. CASE OtherFile
  <2>1. UNCHANGED <<thread, rt, loaded, stale>>
    BY <1>11 DEF OtherFile
  <2>2. DOMAIN files' = Fds /\ Devices' = Devices
    BY <1>11 DEF OtherFile, Close, Devices, Opened
  <2> QED
    BY <2>1, <2>2 DEF Opened, At, Forked
<1>12. CASE UNCHANGED vars
  BY <1>12 DEF vars, Opened, At, Forked, Devices
<1> QED
  BY <1>9, <1>10, <1>11, <1>12 DEF Next

\* dxg_open_count is the number of opens that were not closed, and while there is one the
\* device is open, once, and the library loaded, for every number of threads, descriptors,
\* calls and forks, whatever opens failed and whatever a child has inherited
\* (openclose.cpp 475-626).
THEOREM ReferencesSound == Spec => []ReferenceKept
<1>1. Init => Types /\ Inside /\ Counted /\ Opened
  BY TypesInit, InsideInit, CountedInit, OpenedInit
<1>2. Types /\ Inside /\ Counted /\ Opened /\ [Next]_vars => (Types /\ Inside /\ Counted /\ Opened)'
  BY TypesNext, InsideNext, CountedNext, OpenedNext
<1>3. Counted /\ Opened => ReferenceKept
  <2> SUFFICES ASSUME Counted, Opened, Quiet, ~stale
               PROVE  /\ rt.count = Cardinality(Opens)
                      /\ rt.count > 0 => rt.fd # NoFd /\ loaded
                      /\ Devices = IF rt.count > 0 THEN {rt.fd} ELSE {}
    BY DEF ReferenceKept, Devices
  <2>1. ~torn /\ ~Forked /\ \A t \in Threads : thread[t].pc # "load"
    BY DEF Quiet, InCritical
  <2>2. rt.count = Cardinality(Opens)
    BY <2>1 DEF Counted
  <2>3. /\ rt.count > 0 => rt.fd # NoFd /\ loaded
        /\ Devices = IF rt.fd = NoFd THEN {} ELSE {rt.fd}
        /\ rt.fd = NoFd \/ rt.count > 0
    BY <2>1 DEF Opened, At
  <2> QED
    BY <2>2, <2>3
<1> QED
  BY <1>1, <1>2, <1>3, PTL DEF Spec
=============================================================================
