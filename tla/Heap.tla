--------------------------------- MODULE Heap ---------------------------------
(***************************************************************************)
(* What the kernel expects of its global allocator (core::alloc): a block  *)
(* handed out is aligned, lies in the heap, and is nobody else's until it  *)
(* is given back.  A request may fail.                                     *)
(***************************************************************************)
EXTENDS Integers

CONSTANTS Address,   \* addresses, a set of naturals
          Layout     \* the requests: records [size, align]

VARIABLES lo, hi,    \* the heap is lo .. hi - 1
          live       \* the blocks in use: records [base, size, align]

Overlap(b, c) == b.base < c.base + c.size /\ c.base < b.base + b.size

Init == lo = 0 /\ hi = 0 /\ live = {}

Setup ==
  /\ lo = hi
  /\ \E l \in Address, h \in Address : l <= h /\ lo' = l /\ hi' = h
  /\ UNCHANGED live

Grant(b) ==
  /\ \E l \in Layout : b.size = l.size /\ b.align = l.align
  /\ b.base % b.align = 0
  /\ lo <= b.base /\ b.base + b.size <= hi
  /\ \A c \in live : ~Overlap(b, c)
  /\ live' = live \cup {b}
  /\ UNCHANGED <<lo, hi>>

Release(b) ==
  /\ b \in live
  /\ live' = live \ {b}
  /\ UNCHANGED <<lo, hi>>

Next ==
  \/ Setup
  \/ \E a \in Address, l \in Layout :
       Grant([base |-> a, size |-> l.size, align |-> l.align])
  \/ \E b \in live : Release(b)

Spec == Init /\ [][Next]_<<lo, hi, live>>
===============================================================================
