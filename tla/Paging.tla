-------------------------------- MODULE Paging --------------------------------
(***************************************************************************)
(* Four-level page tables as built by kernel/src/paging.rs and, with the   *)
(* same map and create_mapping, by loader/src/paging.rs.  Memory is a set  *)
(* of nodes at physical addresses.  A mapping is built one table or one    *)
(* entry per step, and the hardware walk is defined apart from the code.   *)
(* The bits of an address above the four indices (its sign extension) are  *)
(* left out, as the masks of nth_level_table_index leave them out.         *)
(***************************************************************************)
EXTENDS Integers, Sequences, FiniteSets

CONSTANTS F,            \* entries per node (512)
          PAGE,         \* bytes per page (4096)
          LINER_MAPPING_BASE_VADDR,
          KERNEL_CODE_BASE_VADDR,
          APIC_IO_START_ADDR,
          HEAP,         \* physical address of the first node allocated
          Images,       \* kernel images: records of section boundaries
          MaxTables     \* bound: page tables made by duplicate_kernel

HUGE == PAGE * F * F                  \* 1 << 30
LINER_MAPPING_SIZE == HUGE * F        \* one PML4 entry
Pages == 0 .. F * F * F * F - 1

ASSUME PagingAssumption ==
  /\ F \in Nat \ {0, 1} /\ PAGE \in Nat \ {0} /\ MaxTables \in Nat
  /\ {LINER_MAPPING_BASE_VADDR, KERNEL_CODE_BASE_VADDR, APIC_IO_START_ADDR} \subseteq Nat
  /\ LINER_MAPPING_BASE_VADDR % LINER_MAPPING_SIZE = 0
  /\ KERNEL_CODE_BASE_VADDR % HUGE = 0
  /\ LINER_MAPPING_BASE_VADDR + LINER_MAPPING_SIZE <= KERNEL_CODE_BASE_VADDR
  /\ APIC_IO_START_ADDR % PAGE = 0 /\ HEAP \in Nat /\ HEAP % PAGE = 0
  /\ APIC_IO_START_ADDR < LINER_MAPPING_BASE_VADDR

(* kernel.ld: the sections follow each other on page boundaries above the  *)
(* base of the kernel area, and the image ends inside the address space.   *)
ASSUME ImageAssumption ==
  \A image \in Images :
    /\ image \in [text : Nat, text_end : Nat, rodata : Nat, rodata_end : Nat,
                  data : Nat, bss_end : Nat]
    /\ {image.text % PAGE, image.rodata % PAGE, image.data % PAGE} = {0}
    /\ KERNEL_CODE_BASE_VADDR < image.text
    /\ image.text <= image.text_end /\ image.text_end <= image.rodata
    /\ image.rodata <= image.rodata_end /\ image.rodata_end <= image.data
    /\ image.data <= image.bss_end /\ image.bss_end < LINER_MAPPING_SIZE * F

VARIABLES booting,    \* "loader" (init_early_paging) or "kernel" (init_paging)
          node,       \* physical address -> node; its domain grows
          root,       \* the PML4 under construction
          todo,       \* calls of create_mapping still to make
          pc,         \* where map is
          op,         \* its locals
          tables,     \* the PML4s in use once paging is set up
          before,     \* what the table is to translate before and after
          expected    \* the call in progress: page -> entry

vars == <<booting, node, root, todo, pc, op, tables, before, expected>>

-----------------------------------------------------------------------------

NotPresent == [addr |-> 0, attr |-> "NotPresent"]
Entry(addr, attr) == [addr |-> addr, attr |-> attr]
IsPresent(e) == e.attr # "NotPresent"
IsHuge(e) == e.attr = "ReadWriteKernel1GiB"
EmptyNode == [i \in 0 .. F - 1 |-> NotPresent]

(* The nodes ns and one more at address a.                                 *)
WithNode(ns, a, n) == [b \in DOMAIN ns \cup {a} |-> IF b = a THEN n ELSE ns[b]]

LevelSpan(level) ==
  CASE level = 1 -> PAGE
    [] level = 2 -> PAGE * F
    [] level = 3 -> PAGE * F * F
    [] level = 4 -> PAGE * F * F * F

(* VirtAddr::nth_level_table_index.                                        *)
Index(vaddr, level) == (vaddr \div LevelSpan(level)) % F

(* What the CPU finds for an address: a leaf at level 1 or, if huge, at    *)
(* level 3.  An entry that leads outside the nodes gives no translation.   *)
Leaf(e, offset) == Entry(e.addr + offset, e.attr)
Lookup(addr, i) == IF addr \in DOMAIN node THEN node[addr][i] ELSE NotPresent
Translate(pml4, vaddr) ==
  LET e4 == Lookup(pml4, Index(vaddr, 4))
      e3 == Lookup(e4.addr, Index(vaddr, 3))
      e2 == Lookup(e3.addr, Index(vaddr, 2))
      e1 == Lookup(e2.addr, Index(vaddr, 1))
  IN  IF ~IsPresent(e4) \/ ~IsPresent(e3) THEN NotPresent
      ELSE IF IsHuge(e3) THEN Leaf(e3, vaddr % HUGE)
      ELSE IF ~IsPresent(e2) \/ ~IsPresent(e1) THEN NotPresent
      ELSE Leaf(e1, vaddr % PAGE)

(* Definitions named after a bug, here a shifted direct mapping, are       *)
(* variants of the one that follows, used to test the properties.          *)
VirtToPhysShifted(virt) ==
  IF /\ virt >= LINER_MAPPING_BASE_VADDR
     /\ virt <= LINER_MAPPING_BASE_VADDR + LINER_MAPPING_SIZE
    THEN virt - LINER_MAPPING_BASE_VADDR + PAGE
    ELSE IF virt >= KERNEL_CODE_BASE_VADDR
    THEN virt - KERNEL_CODE_BASE_VADDR
    ELSE -1

(* virt_to_phys; -1 stands for its panic.                                  *)
VirtToPhys(virt) ==
  IF /\ virt >= LINER_MAPPING_BASE_VADDR
     /\ virt <= LINER_MAPPING_BASE_VADDR + LINER_MAPPING_SIZE
    THEN virt - LINER_MAPPING_BASE_VADDR
    ELSE IF virt >= KERNEL_CODE_BASE_VADDR
    THEN virt - KERNEL_CODE_BASE_VADDR
    ELSE -1

-----------------------------------------------------------------------------

(* The arguments of one create_mapping.                                    *)
Mapping(virt, phys, size, attr) ==
  [virt |-> virt, phys |-> phys, size |-> size, attr |-> attr]

DirectMapping == Mapping(LINER_MAPPING_BASE_VADDR, 0, LINER_MAPPING_SIZE,
                         "ReadWriteKernel1GiB")

Section(from, to, attr) == Mapping(from, VirtToPhys(from), to - from, attr)

(* init_paging of the kernel.                                              *)
InitPaging(image) ==
  <<DirectMapping,
    Section(image.text, image.text_end, "ReadExecuteKernel"),
    Section(image.rodata, image.rodata_end, "ReadKernel"),
    Section(image.data, image.bss_end, "ReadWriteKernel"),
    Mapping(APIC_IO_START_ADDR, APIC_IO_START_ADDR, PAGE, "ReadWriteKernelIO")>>

(* div_ceil of create_mapping; align_up_to_page of the loader rounds the   *)
(* same way before it.                                                     *)
NumPages(size) == (size + PAGE - 1) \div PAGE

(* init_early_paging of the loader: one mapping for the whole image.       *)
InitEarlyPaging(image) ==
  <<DirectMapping,
    Mapping(image.text, image.text - KERNEL_CODE_BASE_VADDR,
            NumPages(image.bss_end - image.text) * PAGE,
            "ReadWriteExecuteKernel")>>

(* The firmware's identity map: huge pages in the first PML4 entry.        *)
(* (external)                                                              *)
FirmwarePml4 == HEAP
FirmwarePdpt == HEAP + PAGE
FirmwareNode == [EmptyNode EXCEPT ![0] = Entry(FirmwarePdpt, "ReadWriteExecuteKernel")]
FirmwareNodes ==
  [a \in {FirmwarePml4, FirmwarePdpt} |->
     IF a = FirmwarePml4 THEN FirmwareNode
     ELSE [i \in 0 .. F - 1 |-> Entry(i * HUGE, "ReadWriteKernel1GiB")]]

(* get_page_table_from_cr3: the loader works on a copy of the PML4.        *)
CopiedPml4 == HEAP + 2 * PAGE

NewNodeSame == HEAP + PAGE

(* Box::new of a zeroed node.                                              *)
NewNode == HEAP + PAGE * Cardinality(DOMAIN node)

Idle == [virt |-> 0, phys |-> 0, pages |-> 0, attr |-> "NotPresent",
         i |-> 0, node |-> 0, level |-> 0, walked |-> FALSE]

Unmapped == [p \in Pages |-> NotPresent]
FirmwareMap ==
  [p \in Pages |-> IF p * PAGE < LINER_MAPPING_SIZE
                     THEN Entry(p * PAGE, "ReadWriteKernel1GiB")
                     ELSE NotPresent]

Init ==
  /\ booting \in {"loader", "kernel"}
  /\ \E image \in Images :
       IF booting = "loader"
         THEN /\ todo = InitEarlyPaging(image)
              /\ node = WithNode(FirmwareNodes, CopiedPml4, FirmwareNode)
              /\ root = CopiedPml4
              /\ expected = FirmwareMap
         ELSE /\ todo = InitPaging(image)
              /\ node = [a \in {HEAP} |-> EmptyNode]
              /\ root = HEAP
              /\ expected = Unmapped
  /\ before = expected
  /\ pc = "idle" /\ op = Idle
  /\ tables = {}

-----------------------------------------------------------------------------

(* What a call of create_mapping asks for.                                 *)
Overlay(space, c) ==
  [p \in Pages |->
     LET k == p - (c.virt \div PAGE)
     IN  IF k >= 0 /\ k * PAGE < c.size
           THEN Entry(c.phys + k * PAGE, c.attr)
           ELSE space[p]]

IsHugeCall(c) ==
  /\ c.attr = "ReadWriteKernel1GiB"
  /\ c.virt % HUGE = 0
  /\ c.phys % HUGE = 0
  /\ NumPages(c.size) % (F * F) = 0

(* create_mapping and the asserts of map.                                  *)
Begin ==
  /\ pc = "idle" /\ todo # <<>>
  /\ LET c == Head(todo)
     IN  IF c.virt % PAGE # 0 \/ c.phys % PAGE # 0
           THEN pc' = "panic" /\ UNCHANGED <<todo, op, before, expected>>
           ELSE /\ pc' = IF IsHugeCall(c) THEN "huge_walk" ELSE "walk"
                /\ todo' = Tail(todo)
                /\ op' = [virt |-> c.virt, phys |-> c.phys,
                          pages |-> NumPages(c.size), attr |-> c.attr,
                          i |-> 0, node |-> root, level |-> 4, walked |-> TRUE]
                /\ before' = expected
                /\ expected' = Overlay(expected, c)
  /\ UNCHANGED <<booting, node, root, tables>>

VaddrStart == op.virt
Vaddr == op.virt + op.i * PAGE

(* get_or_alloc_next_level_table on entry i of op.node: an entry that is   *)
(* present is taken for a pointer to a node, huge or not.                  *)
GetOrAlloc(i, next_pc) ==
  LET e == node[op.node][i]
      new == NewNode
      next == IF IsPresent(e) THEN e.addr ELSE new
  IN  /\ node' = IF IsPresent(e) THEN node
                 ELSE WithNode([node EXCEPT ![op.node][i] =
                                  Entry(new, "ReadWriteExecuteKernel")],
                               new, EmptyNode)
      /\ op' = [op EXCEPT !.node = next, !.level = op.level - 1]
      /\ pc' = IF IsPresent(e) /\ (IsHuge(e) \/ e.addr \notin DOMAIN node)
                 THEN "wild" ELSE next_pc

Walk ==
  /\ pc = "walk"
  /\ GetOrAlloc(Index(Vaddr, op.level), IF op.level = 2 THEN "fill" ELSE "walk")
  /\ UNCHANGED <<booting, root, todo, tables, before, expected>>

FillIndex == (Index(op.virt, 1) + op.i) % F
NeedsWalkNever == FALSE
NeedsWalkAlways == FillIndex = 0 /\ op.i # 0
NeedsWalk == FillIndex = 0 /\ op.i # 0 /\ ~op.walked

(* The loop over the pages leaves a node at its last entry and walks again *)
(* from the PML4.                                                          *)
Rewalk ==
  /\ pc = "fill" /\ op.i < op.pages /\ NeedsWalk
  /\ op' = [op EXCEPT !.node = root, !.level = 4, !.walked = TRUE]
  /\ pc' = "walk"
  /\ UNCHANGED <<booting, node, root, todo, tables, before, expected>>

Fill ==
  /\ pc = "fill" /\ op.i < op.pages /\ ~NeedsWalk
  /\ node' = [node EXCEPT ![op.node][FillIndex] =
                Entry(op.phys + op.i * PAGE, op.attr)]
  /\ op' = [op EXCEPT !.i = op.i + 1, !.walked = FALSE]
  /\ UNCHANGED <<booting, root, todo, pc, tables, before, expected>>

HugeWalk ==
  /\ pc = "huge_walk"
  /\ GetOrAlloc(Index(op.virt, 4), "huge_fill")
  /\ UNCHANGED <<booting, root, todo, tables, before, expected>>

HugePages == op.pages \div (F * F)

HugeFillFrom1 ==
  /\ pc = "huge_fill" /\ op.i < HugePages
  /\ LET i == Index(op.virt, 3) + op.i + 1
     IN  IF i >= F
           THEN pc' = "panic" /\ UNCHANGED <<node, op>>
           ELSE /\ node' = [node EXCEPT ![op.node][i] =
                              Entry(op.phys + op.i * HUGE, op.attr)]
                /\ op' = [op EXCEPT !.i = op.i + 1]
                /\ UNCHANGED pc
  /\ UNCHANGED <<booting, root, todo, tables, before, expected>>

HugeFill ==
  /\ pc = "huge_fill" /\ op.i < HugePages
  /\ LET i == Index(op.virt, 3) + op.i
     IN  IF i >= F
           THEN pc' = "panic" /\ UNCHANGED <<node, op>>
           ELSE /\ node' = [node EXCEPT ![op.node][i] =
                              Entry(op.phys + op.i * HUGE, op.attr)]
                /\ op' = [op EXCEPT !.i = op.i + 1]
                /\ UNCHANGED pc
  /\ UNCHANGED <<booting, root, todo, tables, before, expected>>

MapDone ==
  /\ \/ pc = "fill" /\ op.i = op.pages
     \/ pc = "huge_fill" /\ op.i = HugePages
  /\ pc' = "idle" /\ op' = Idle
  /\ UNCHANGED <<booting, node, root, todo, tables, before, expected>>

(* All mappings made: the table is loaded into CR3.                        *)
WriteCr3 ==
  /\ pc = "idle" /\ todo = <<>>
  /\ pc' = "active"
  /\ tables' = {root}
  /\ UNCHANGED <<booting, node, root, todo, op, before, expected>>

DuplicateKernelButLast(parent) ==
  /\ booting = "kernel" /\ pc = "active" /\ Cardinality(tables) < MaxTables
  /\ node' = WithNode(node, NewNode, [node[parent] EXCEPT ![F - 1] = NotPresent])
  /\ tables' = tables \cup {NewNode}
  /\ UNCHANGED <<booting, root, todo, pc, op, before, expected>>

(* duplicate_kernel, called by spawn on the table of the current task: the *)
(* present entries of the PML4 are copied, and the rest stays zero.        *)
DuplicateKernel(parent) ==
  /\ booting = "kernel" /\ pc = "active" /\ Cardinality(tables) < MaxTables
  /\ node' = WithNode(node, NewNode,
                [i \in 0 .. F - 1 |-> IF IsPresent(node[parent][i])
                                       THEN node[parent][i] ELSE NotPresent])
  /\ tables' = tables \cup {NewNode}
  /\ UNCHANGED <<booting, root, todo, pc, op, before, expected>>

Map == Begin \/ Walk \/ Rewalk \/ Fill \/ HugeWalk \/ HugeFill \/ MapDone \/ WriteCr3

Next == Map \/ \E parent \in tables : DuplicateKernel(parent)

Spec == Init /\ [][Next]_vars /\ WF_vars(Map)

-----------------------------------------------------------------------------

(* For the calls the two programs make, map never takes a huge page for a  *)
(* table (next_node_mut does not look at the huge bit), never indexes past *)
(* a PDPT and never trips over its asserts.                                *)
NoWildWalk == pc \notin {"wild", "panic"}

(* Between calls the CPU translates every page exactly as the calls so far *)
(* ask, the later ones winning, across the ends of page tables and page    *)
(* directories and for sections of any length, zero included.              *)
MappedAsAsked ==
  pc \in {"idle", "active"} =>
    \A p \in Pages : Translate(root, p * PAGE) = expected[p]

(* While a call is under way, no page ever translates to anything but what *)
(* it was before or is to be: a table is linked in empty, and no entry of  *)
(* another region is touched.  The table the CPU is using while the loader *)
(* works on its copy keeps translating as the firmware left it: the slots  *)
(* the loader adds tables to are empty in the firmware's PML4.             *)
NothingElseTouched ==
  \A p \in Pages :
    /\ Translate(root, p * PAGE) \in {before[p], expected[p]}
    /\ booting = "loader" =>
         Translate(FirmwarePml4, p * PAGE) = FirmwareMap[p]

(* The entries of the tables below pml4 that point to a table.             *)
IsLink(e) == IsPresent(node[e[1]][e[2]]) /\ ~IsHuge(node[e[1]][e[2]])
EntriesBelow(es) ==
  {<<node[e[1]][e[2]].addr, i>> : e \in {x \in es : IsLink(x)}, i \in 0 .. F - 1}
TableEntries(pml4) ==
  LET fourth == {<<pml4, i>> : i \in 0 .. F - 1}
      third == EntriesBelow(fourth)
  IN  {e \in fourth \cup third \cup EntriesBelow(third) : IsLink(e)}

(* No node is linked in twice: tables below one PML4 form a tree, so no    *)
(* two regions share a page table.                                         *)
TablesFormTree ==
  pc # "wild" =>
    \A d, e \in TableEntries(root) :
      node[d[1]][d[2]].addr = node[e[1]][e[2]].addr => d = e

(* Once the kernel's table is active, software and hardware agree: a       *)
(* mapped kernel address translates to what virt_to_phys says, and every   *)
(* table is reachable where phys_to_virt says it is.                       *)
SoftwareAgrees ==
  booting = "kernel" /\ pc = "active" =>
    /\ \A p \in Pages :
         LET e == Translate(root, p * PAGE)
         IN  p * PAGE >= LINER_MAPPING_BASE_VADDR /\ IsPresent(e) =>
               e.addr = VirtToPhys(p * PAGE)
    /\ \A n \in DOMAIN node :
         Translate(root, LINER_MAPPING_BASE_VADDR + n).addr = n

(* Every task's table, also a copy of a copy, translates as the idle       *)
(* task's does.                                                            *)
CopiesTranslateAlike ==
  \A t \in tables, p \in Pages :
    Translate(t, p * PAGE) = Translate(root, p * PAGE)

(* virt_to_phys answers only for addresses the kernel's table maps, or     *)
(* that lie in the kernel code area.                                       *)
VirtToPhysOnlyMapped ==
  booting = "kernel" /\ pc = "active" =>
    \A p \in Pages :
      VirtToPhys(p * PAGE) # -1 /\ p * PAGE < KERNEL_CODE_BASE_VADDR =>
        IsPresent(Translate(root, p * PAGE))

(* Setting up the page table comes to an end.                              *)
PagingCompletes == <>(pc = "active")
===============================================================================
