--------------------------- MODULE MCLinerAllocator ---------------------------
(* A usize of 4 bits.  The heaps start at aligned and odd addresses; one    *)
(* ends at the last address, one past it.                                   *)
EXTENDS LinerAllocator

TestHeaps == {[start |-> 4, size |-> 6], [start |-> 3, size |-> 6],
              [start |-> 10, size |-> 5], [start |-> 10, size |-> 6]}
TestLayouts == [size : {1, 3}, align : {1, 2, 4}]
===============================================================================
