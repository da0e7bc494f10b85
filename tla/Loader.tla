-------------------------------- MODULE Loader --------------------------------
(***************************************************************************)
(* The UEFI loader from its first memory map to the jump into the kernel   *)
(* (loader/src/main.rs, loader/src/memory.rs), next to a firmware that     *)
(* owns the memory map and may allocate on its own until boot services are *)
(* exited.  Memory is a row of pages, each with the type the firmware's    *)
(* map gives it; a descriptor of the map is a maximal run of pages of one  *)
(* type.  The kernel file is its PT_LOAD segments.  A panic of the loader  *)
(* ends the boot; why tells the call whose expect or assert failed.        *)
(***************************************************************************)
EXTENDS Naturals, FiniteSets, FiniteSetsExt, Sequences

CONSTANTS Pages,          \* number of pages
          PAGE_SIZE,      \* bytes of a page
          FirstMap,       \* the map when the loader starts
          Kernels,        \* the kernel files: sequences of segments
          Tables,         \* page table nodes that init_early_paging allocates
          StackPages, HeapPages,
          MAX_MEMORY_REGION_LEN,
          MaxActs         \* model bound: allocations of the firmware

Page == 0 .. Pages - 1
Byte == 0 .. Pages * PAGE_SIZE - 1
PageOf(b) == b \div PAGE_SIZE

Type == {"Conventional", "BootCode", "BootData", "LoaderData", "Reserved"}

ProgramHeader == [p_vaddr : Nat, p_paddr : Nat, p_filesz : Nat, p_memsz : Nat]

(* What a linker makes of a kernel: virtual and physical addresses differ  *)
(* by the same amount in every segment, the lowest is at a page, and no    *)
(* two segments overlap.                                                   *)
ASSUME LoaderAssumption ==
  /\ Pages \in Nat /\ PAGE_SIZE \in Nat \ {0}
  /\ StackPages \in Nat /\ HeapPages \in Nat
  /\ FirstMap \in [Page -> Type]
  /\ \A k \in Kernels :
       /\ k \in Seq(ProgramHeader)
       /\ \A i, j \in DOMAIN k :
            /\ k[i].p_vaddr + k[j].p_paddr = k[j].p_vaddr + k[i].p_paddr
            /\ i # j => \/ k[i].p_paddr + k[i].p_memsz <= k[j].p_paddr
                        \/ k[j].p_paddr + k[j].p_memsz <= k[i].p_paddr
       /\ \E lo, hi \in DOMAIN k :
            /\ k[lo].p_paddr % PAGE_SIZE = 0
            /\ \A i \in DOMAIN k :
                 /\ k[lo].p_vaddr <= k[i].p_vaddr
                 /\ k[i].p_vaddr + k[i].p_memsz <= k[hi].p_vaddr + k[hi].p_memsz

VARIABLES phase,      \* the call that main makes next
          why,        \* of a panic
          type,       \* the firmware's memory map
          revision,   \* and its revision, which a map key names
          owner,      \* history: what the loader uses a page for
          capacity,   \* descriptors that the buffer of the map has room for
          first_map,  \* the map that main reads first
          map_key,    \* of the map read last
          regions,    \* MemoryRegionArray
          elf,        \* the segments of the kernel file
          loaded,     \* the segments copied so far
          image,      \* the bytes of memory, as far as the loader wrote them
          acts,       \* the firmware's allocations,
          moved       \* and those since the call that acts is about

vars == <<phase, why, type, revision, owner, capacity, first_map, map_key,
          regions, elf, loaded, image, acts, moved>>

memoryVars == <<type, revision, owner>>
mapVars == <<capacity, first_map, map_key, regions>>
kernelVars == <<elf, loaded, image>>
firmwareVars == <<acts, moved>>

-----------------------------------------------------------------------------
(* The firmware's memory map                                               *)

Starts(t) == {p \in Page : p = 0 \/ t[p] # t[p - 1]}
Descriptors(t) == Cardinality(Starts(t))

(* Runs of n free pages.                                                   *)
Free(n) == {p \in Page : \A i \in 0 .. n - 1 : p + i \in Page
                                              /\ type[p + i] = "Conventional"}

Take(first, n, use) ==
  /\ type' = [p \in Page |-> IF p \in first .. first + n - 1 THEN "LoaderData"
                             ELSE type[p]]
  /\ owner' = [p \in Page |-> IF p \in first .. first + n - 1 THEN use
                              ELSE owner[p]]
  /\ revision' = revision + 1

Goto(p) == phase' = p /\ UNCHANGED why
Panic(reason) == phase' = "panic" /\ why' = reason

(* A call that allocates n pages anywhere: Vec and Box through the pool,   *)
(* or allocate_memory.                                                     *)
Allocate(n, use, next) ==
  \/ \E first \in Free(n) : Take(first, n, use) /\ Goto(next)
  \/ Free(n) = {} /\ Panic("memory") /\ UNCHANGED memoryVars

-----------------------------------------------------------------------------

Init ==
  /\ phase = "size1" /\ why = "none"
  /\ type = FirstMap /\ revision = 0
  /\ owner = [p \in Page |-> "firmware"]
  /\ capacity = 0 /\ first_map = FirstMap /\ map_key = 0 /\ regions = <<>>
  /\ elf \in Kernels /\ loaded = 0
  /\ image = [b \in Byte |-> <<>>]
  /\ acts = 0 /\ moved = 0

(* Definitions named after a bug, here a size without spare descriptors,   *)
(* are variants of the one that follows, used to test the properties.      *)
ExactMapSize ==
  /\ \/ phase = "size1" /\ Goto("buffer1")
     \/ phase = "size2" /\ Goto("buffer2")
  /\ capacity' = Descriptors(type)
  /\ moved' = 0
  /\ UNCHANGED <<memoryVars, first_map, map_key, regions, kernelVars, acts>>

(* MemoryMap::new: get_memory_map_size, the buffer, get_memory_map.        *)
GetMemoryMapSize ==
  /\ \/ phase = "size1" /\ Goto("buffer1")
     \/ phase = "size2" /\ Goto("buffer2")
  /\ capacity' = Descriptors(type) + 4
  /\ moved' = 0
  /\ UNCHANGED <<memoryVars, first_map, map_key, regions, kernelVars, acts>>

MapBuffer ==
  /\ \/ phase = "buffer1" /\ Allocate(1, "map", "map1")
     \/ phase = "buffer2" /\ Allocate(1, "map", "map2")
  /\ UNCHANGED <<mapVars, kernelVars, firmwareVars>>

FirstKeyKept ==
  /\ phase \in {"map1", "map2"}
  /\ IF Descriptors(type) > capacity
       THEN Panic("map") /\ UNCHANGED <<first_map, map_key, moved>>
       ELSE /\ Goto(IF phase = "map1" THEN "image_base" ELSE "exit")
            /\ first_map' = IF phase = "map1" THEN type ELSE first_map
            /\ map_key' = IF phase = "map1" THEN revision ELSE map_key
            /\ moved' = 0
  /\ UNCHANGED <<memoryVars, capacity, regions, kernelVars, acts>>

GetMemoryMap ==
  /\ phase \in {"map1", "map2"}
  /\ IF Descriptors(type) > capacity
       THEN Panic("map") /\ UNCHANGED <<first_map, map_key, moved>>
       ELSE /\ Goto(IF phase = "map1" THEN "image_base" ELSE "exit")
            /\ first_map' = IF phase = "map1" THEN type ELSE first_map
            /\ map_key' = revision
            /\ moved' = 0
  /\ UNCHANGED <<memoryVars, capacity, regions, kernelVars, acts>>

(* get_image_base; open_root_dir, open_kernel_file and the buffer for the  *)
(* file; read_kernel_file and the parser: each of them may fail.           *)
GetImageBase ==
  /\ phase = "image_base"
  /\ Goto("file") \/ Panic("file")
  /\ UNCHANGED <<memoryVars, mapVars, kernelVars, firmwareVars>>

OpenKernelFile ==
  /\ phase = "file"
  /\ \/ Allocate(1, "file", "read")
     \/ Panic("file") /\ UNCHANGED memoryVars
  /\ UNCHANGED <<mapVars, kernelVars, firmwareVars>>

ReadKernelFile ==
  /\ phase = "read"
  /\ Goto("tables") \/ Panic("file")
  /\ UNCHANGED <<memoryVars, mapVars, kernelVars, firmwareVars>>

(* get_kernel_size                                                         *)
Segments == {elf[i] : i \in DOMAIN elf}
KernelStartVirt == Min({s.p_vaddr : s \in Segments})
KernelStartPhys == Min({s.p_paddr : s \in Segments})
KernelEndVirt == Max({s.p_vaddr + s.p_memsz : s \in Segments})

KernelPages == ((KernelEndVirt - KernelStartVirt) + PAGE_SIZE - 1) \div PAGE_SIZE

(* init_early_paging: the nodes of the new page table come from the pool;  *)
(* what it maps is the subject of module Paging.                           *)
InitEarlyPaging ==
  /\ phase = "tables"
  /\ LET left == Tables - Cardinality({p \in Page : owner[p] = "table"})
     IN  Allocate(1, "table", IF left = 1 THEN "kernel_pages" ELSE "tables")
  /\ UNCHANGED <<mapVars, kernelVars, firmwareVars>>

StatusIgnored ==
  /\ phase = "kernel_pages"
  /\ LET first == PageOf(KernelStartPhys)
     IN  IF first \in Free(KernelPages)
           THEN Take(first, KernelPages, "kernel") /\ Goto("load")
           ELSE Goto("load") /\ UNCHANGED memoryVars
  /\ UNCHANGED <<mapVars, kernelVars, firmwareVars>>

(* allocate_pages at the address the file asks for.                        *)
AllocateKernelPages ==
  /\ phase = "kernel_pages"
  /\ LET first == PageOf(KernelStartPhys)
     IN  IF first \in Free(KernelPages)
           THEN Take(first, KernelPages, "kernel") /\ Goto("load")
           ELSE Panic("kernel_pages") /\ UNCHANGED memoryVars
  /\ UNCHANGED <<mapVars, kernelVars, firmwareVars>>

(* Byte i of what segment s holds, and where load_to_memory puts it.       *)
Content(s, i) == IF i < elf[s].p_filesz THEN <<s, i>> ELSE <<"zero">>

OnlyCopied(s) == elf[s].p_paddr .. elf[s].p_paddr + elf[s].p_filesz - 1

(* The bytes that the copy and the write_bytes of segment s write.         *)
Written(s) == elf[s].p_paddr .. elf[s].p_paddr + elf[s].p_memsz - 1

LoadSegment ==
  /\ phase = "load" /\ loaded < Len(elf)
  /\ loaded' = loaded + 1
  /\ image' = [b \in Byte |-> IF b \in Written(loaded')
                              THEN Content(loaded', b - elf[loaded'].p_paddr)
                              ELSE image[b]]
  /\ UNCHANGED <<phase, why, memoryVars, mapVars, elf, firmwareVars>>

(* load_to_memory returns: the buffer of the file is freed.                *)
LoadReturns ==
  /\ phase = "load" /\ loaded = Len(elf)
  /\ type' = [p \in Page |-> IF owner[p] = "file" THEN "Conventional" ELSE type[p]]
  /\ owner' = [p \in Page |-> IF owner[p] = "file" THEN "firmware" ELSE owner[p]]
  /\ revision' = revision + 1
  /\ Goto("stack")
  /\ UNCHANGED <<mapVars, kernelVars, firmwareVars>>

AllocateStackAndHeap ==
  /\ \/ phase = "stack" /\ Allocate(StackPages, "stack", "heap")
     \/ phase = "heap" /\ Allocate(HeapPages, "heap", "regions")
  /\ UNCHANGED <<mapVars, kernelVars, firmwareVars>>

(* The loop over the first map: one region per descriptor.                 *)
RegionOf(first) ==
  LET after == {p \in Starts(first_map) : p > first}
  IN  [base |-> first,
       len |-> (IF after = {} THEN Pages ELSE Min(after)) - first,
       typ |-> IF first_map[first] \in {"BootCode", "Conventional"}
                 THEN "Usable" ELSE "Reserved"]

(* MemoryMapIterator::next: where the descriptor after the last one read   *)
(* starts, or Pages for None.                                              *)
NextDescriptor ==
  LET ends == {regions[i].base + regions[i].len : i \in DOMAIN regions}
  IN  IF regions = <<>> THEN 0 ELSE Max(ends)

PushOrDrop ==
  /\ phase = "regions"
  /\ LET next == NextDescriptor
     IN  IF next = Pages \/ Len(regions) = MAX_MEMORY_REGION_LEN
           THEN Goto("size2") /\ UNCHANGED regions
           ELSE regions' = Append(regions, RegionOf(next)) /\ UNCHANGED <<phase, why>>
  /\ UNCHANGED <<memoryVars, capacity, first_map, map_key, kernelVars,
                 firmwareVars>>

PushRegion ==
  /\ phase = "regions"
  /\ LET next == NextDescriptor
     IN  IF next = Pages
           THEN Goto("size2") /\ UNCHANGED regions
         ELSE IF Len(regions) < MAX_MEMORY_REGION_LEN
           THEN regions' = Append(regions, RegionOf(next)) /\ UNCHANGED <<phase, why>>
         ELSE Panic("regions") /\ UNCHANGED regions
  /\ UNCHANGED <<memoryVars, capacity, first_map, map_key, kernelVars,
                 firmwareVars>>

ExitBootServices ==
  /\ phase = "exit"
  /\ IF map_key = revision THEN Goto("kernel") ELSE Panic("exit")
  /\ UNCHANGED <<memoryVars, mapVars, kernelVars, firmwareVars>>

Main ==
  \/ GetMemoryMapSize \/ MapBuffer \/ GetMemoryMap \/ GetImageBase
  \/ OpenKernelFile \/ ReadKernelFile \/ InitEarlyPaging
  \/ AllocateKernelPages \/ LoadSegment
  \/ LoadReturns \/ AllocateStackAndHeap \/ PushRegion \/ ExitBootServices

(* A timer or a driver of the firmware allocates a page.                   *)
FirmwareAllocates ==
  /\ phase \notin {"kernel", "panic"} /\ acts < MaxActs
  /\ \E p \in Free(1) : type' = [type EXCEPT ![p] = "BootData"]
  /\ revision' = revision + 1
  /\ acts' = acts + 1 /\ moved' = moved + 1
  /\ UNCHANGED <<phase, why, owner, mapVars, kernelVars>>

(* The kernel runs, or the boot has ended in a panic.                      *)
Ended == phase \in {"kernel", "panic"} /\ UNCHANGED vars

Next == Main \/ FirmwareAllocates \/ Ended

Spec == Init /\ [][Next]_vars

-----------------------------------------------------------------------------

(* load_to_memory writes only to pages allocated for the kernel: a page    *)
(* table, a buffer or the firmware is never overwritten, although the page *)
(* tables are allocated before the pages (main.rs:138, main.rs:165).       *)
CopiesOntoKernelPages ==
  \A s \in 1 .. loaded : \A b \in Written(s) : owner[PageOf(b)] = "kernel"

(* Through the mapping of init_early_paging, which is linear from the      *)
(* lowest address on, the kernel finds every segment at its virtual        *)
(* address: the bytes of the file, then zeros (main.rs:165, main.rs:177).  *)
KernelSeesImage ==
  phase = "kernel" =>
    \A s \in DOMAIN elf : \A i \in 0 .. elf[s].p_memsz - 1 :
      LET offset == elf[s].p_vaddr + i - KernelStartVirt
      IN  /\ offset < KernelPages * PAGE_SIZE
          /\ image[KernelStartPhys + offset] = Content(s, i)

(* The four spare descriptors are enough for the buffer's own allocation   *)
(* and one of the firmware between the two calls (memory.rs:129).          *)
SpareDescriptorsSuffice == why = "map" => moved >= 2

(* exit_boot_services is given a stale key only if the firmware changed    *)
(* the map after it was read: nothing main does in between allocates       *)
(* (main.rs:271).                                                          *)
ExitFailsOnlyIfMapMoved == why = "exit" => moved >= 1

(* The kernel is handed every descriptor of the first map, or the loader   *)
(* has panicked in push: none is dropped (memory.rs:64).                   *)
RegionsComplete ==
  phase \in {"size2", "buffer2", "map2", "exit", "kernel"} =>
    /\ Len(regions) = Descriptors(first_map)
    /\ \A p \in Page : \E i \in DOMAIN regions :
         /\ p \in regions[i].base .. regions[i].base + regions[i].len - 1
         /\ regions[i].typ = "Usable"
              <=> first_map[p] \in {"BootCode", "Conventional"}

(* "it includes page tables and thus isn't employed for this purpose"      *)
(* (main.rs:253): no region handed over as usable holds a page table.      *)
NoPageTableIsUsable ==
  phase = "kernel" =>
    \A i \in DOMAIN regions : regions[i].typ = "Usable" =>
      \A p \in regions[i].base .. regions[i].base + regions[i].len - 1 :
        owner[p] # "table"
===============================================================================
