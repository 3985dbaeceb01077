------------------------------ MODULE SubSpace ------------------------------
(***************************************************************************)
(* What the sub-allocator of device memory promises its callers (the       *)
(* abstract specification of SimpleHeap): a fragment it hands out lies in  *)
(* memory the process owns for as long as it is held, meets no other       *)
(* fragment, and is aligned to a huge page when it is as large as one.     *)
(***************************************************************************)
EXTENDS Integers

CONSTANTS Memory,     \* the pages of the address space
          HugePage,   \* pages of a huge page
          Sizes       \* requests, in pages

VARIABLES live,       \* fragments handed out: <<first page, pages>>
          backing     \* the pages owned by the process

vars == <<live, backing>>

Pages(a, n) == a .. a + n - 1
Cover(ranges) == UNION {Pages(r[1], r[2]) : r \in ranges}

Init == live = {} /\ backing = {}

\* What the heap owns may change with every call, but never under a fragment.
Backed == backing' \in SUBSET Memory /\ Cover(live') \subseteq backing'

Alloc(n) == /\ \E a \in Memory : /\ n >= HugePage => a % HugePage = 0
                                 /\ Pages(a, n) \cap Cover(live) = {}
                                 /\ live' = live \cup {<<a, n>>}
            /\ Backed

AllocFails == UNCHANGED vars

Free(a) == live' = {r \in live : r[1] # a} /\ Backed

\* A new hsaKmtOpenKFD forgets the fragments and keeps the memory.
Forget == live' = {} /\ UNCHANGED backing

Trim == UNCHANGED live /\ Backed

Next == \/ \E n \in Sizes : Alloc(n)
        \/ AllocFails
        \/ \E a \in Memory : Free(a)
        \/ Forget
        \/ Trim

Spec == Init /\ [][Next]_vars
=============================================================================
