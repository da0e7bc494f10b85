----------------------------- MODULE MCTaskStack -----------------------------
(***************************************************************************)
(* TaskStack with the sizes of the code.  The heaps end during boot,       *)
(* during the spawns and after a few allocations of the tasks.             *)
(***************************************************************************)
EXTENDS TaskStack

KiB == 1024
TestHeaps == {[start |-> 4096 * 1024 + 16, size |-> s * KiB] : s \in {4, 560, 600, 640, 680}}

(* The direct mapping's and the kernel's tables, the eight TSS stacks, the *)
(* TSS, the GDT and the IDT.                                               *)
TestBoot ==
  <<PageTableLayout, PageTableLayout, PageTableLayout, PageTableLayout, PageTableLayout>>
  \o [i \in 1 .. 8 |-> [size |-> 64 * KiB, align |-> 1]]
  \o <<[size |-> 104, align |-> 1], [size |-> 56, align |-> 8],
       [size |-> 4096, align |-> 8]>>

TestTaskLayouts == {[size |-> 24 * KiB, align |-> 8], [size |-> 10 * KiB, align |-> 16],
                    [size |-> 4096, align |-> 4096]}
TestLayouts == {StackLayout, PageTableLayout, ArcLayout}
               \cup {VecLayout(n) : n \in Capacities}
               \cup TestTaskLayouts
               \cup {TestBoot[i] : i \in 1 .. Len(TestBoot)}
===============================================================================
