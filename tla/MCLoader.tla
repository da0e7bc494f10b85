------------------------------- MODULE MCLoader -------------------------------
EXTENDS Loader

(* Page 0 is reserved, the kernel asks for the pages from 1 on, and there  *)
(* is boot code between two stretches of free memory.                      *)
TestMap == [p \in Page |-> CASE p = 0 -> "Reserved"
                             [] p = 4 -> "BootCode"
                             [] OTHER -> "Conventional"]

Segment(page, filesz, memsz) ==
  [p_vaddr |-> 100 + page * PAGE_SIZE, p_paddr |-> page * PAGE_SIZE,
   p_filesz |-> filesz, p_memsz |-> memsz]

(* One segment that ends in bss; text and data that end inside a page;     *)
(* text, data and bss apart.                                               *)
TestKernels ==
  {<<Segment(1, 1, 3)>>,
   <<Segment(1, 1, 1), Segment(2, 1, 2)>>,
   <<Segment(1, 2, 2), Segment(2, 1, 1), Segment(3, 0, 2)>>}
===============================================================================
