------------------------------- MODULE MCPaging -------------------------------
(* Three entries per node: PML4 entry 0 holds the APIC page, entry 1 the    *)
(* direct mapping, entry 2 the kernel.  Pages have two bytes, so a section  *)
(* may end inside a page.  The text starts one page into the kernel area,   *)
(* as in kernel.ld; the sections follow on page boundaries and cross page   *)
(* tables and page directories.                                             *)
EXTENDS Paging

Text == KERNEL_CODE_BASE_VADDR + PAGE
AlignUp(a) == NumPages(a) * PAGE
TestImages ==
  {[text |-> Text, text_end |-> t, rodata |-> AlignUp(t),
    rodata_end |-> AlignUp(t) + r, data |-> AlignUp(AlignUp(t) + r),
    bss_end |-> AlignUp(AlignUp(t) + r) + d] :
     t \in Text + 1 .. Text + 8, r \in {0, 3, 4}, d \in {1, 9}}
===============================================================================
