------------------------------- MODULE VaSpace -------------------------------
(***************************************************************************)
(* What a virtual-address heap promises its callers (the abstract          *)
(* specification of VaMgr): ranges handed out lie in the heap, are aligned *)
(* and disjoint, and an allocation fails only when no hole is large enough *)
(* for it whatever its alignment.                                          *)
(***************************************************************************)
EXTENDS Integers

CONSTANTS Start, Size,   \* the heap is [Start, Start + Size)
          MinAlign,      \* granularity of the heap
          Sizes, Aligns  \* requests: bytes and alignments, 0 for none

VARIABLES live,          \* ranges handed out and not returned: <<address, bytes>>
          result         \* the last allocation: request and address, 0 if it failed

vars == <<live, result>>

End == Start + Size

\* AlignUp(value, alignment) of src/util/utils.h.
AlignUp(v, a) == ((v + a - 1) \div a) * a

\* What AllocImpl looks for when the first fit is not aligned.
Padded(bytes, align) == bytes + (IF align = 0 THEN 0 ELSE AlignUp(align, MinAlign))

Disjoint(a, n, b, m) == a + n <= b \/ b + m <= a

\* [a, a + n) lies in the heap and meets no range that is handed out.
Hole(a, n) == /\ Start <= a /\ a + n <= End
              /\ \A r \in live : Disjoint(a, n, r[1], r[2])

NoResult == [bytes |-> 0, align |-> 0, addr |-> 0]

Init == live = {} /\ result = NoResult

Alloc(bytes, align) ==
  \/ \E a \in Start .. End - bytes :
       /\ IF align = 0 THEN TRUE ELSE a % align = 0
       /\ Hole(a, bytes)
       /\ live' = live \cup {<<a, bytes>>}
       /\ result' = [bytes |-> bytes, align |-> align, addr |-> a]
  \/ /\ \A a \in Start .. End - 1 : ~Hole(a, Padded(bytes, align))
     /\ result' = [bytes |-> bytes, align |-> align, addr |-> 0]
     /\ UNCHANGED live

\* Returning an address that was not handed out changes nothing.
Free(addr) ==
  /\ live' = {r \in live : r[1] # addr}
  /\ result' = NoResult

Next == \/ \E bytes \in Sizes, align \in Aligns : Alloc(bytes, align)
        \/ \E addr \in 0 .. End - 1 : Free(addr)

Spec == Init /\ [][Next]_vars
=============================================================================
