----------------------------- MODULE LoaderProofs -----------------------------
(***************************************************************************)
(* Proofs about Loader for every memory map, every kernel that             *)
(* LoaderAssumption allows and any number of allocations of the firmware.  *)
(***************************************************************************)
EXTENDS Loader, FiniteSetTheorems, WellFoundedInduction, TLAPS

(* A key that was read is stale only after an allocation of the firmware.  *)
ExitInv ==
  /\ moved \in Nat
  /\ why = "exit" => phase = "panic" /\ moved >= 1
  /\ phase = "exit" => map_key = revision \/ moved >= 1

LEMMA ExitStep ==
  ASSUME ExitInv, [Next]_vars
  PROVE  ExitInv'
<1> USE DEF ExitInv, Goto, Panic, mapVars, memoryVars, kernelVars, firmwareVars
<1>1. CASE GetMemoryMapSize BY <1>1 DEF GetMemoryMapSize
<1>2. CASE MapBuffer BY <1>2 DEF MapBuffer, Allocate
<1>3. CASE GetMemoryMap BY <1>3 DEF GetMemoryMap
<1>4. CASE OpenKernelFile BY <1>4 DEF OpenKernelFile, Allocate
<1>5. CASE ReadKernelFile BY <1>5 DEF ReadKernelFile
<1>6. CASE InitEarlyPaging BY <1>6, Zenon DEF InitEarlyPaging, Allocate
<1>7. CASE AllocateKernelPages BY <1>7 DEF AllocateKernelPages
<1>8. CASE LoadSegment BY <1>8 DEF LoadSegment
<1>9. CASE LoadReturns BY <1>9 DEF LoadReturns
<1>10. CASE AllocateStackAndHeap BY <1>10 DEF AllocateStackAndHeap, Allocate
<1>11. CASE PushRegion BY <1>11 DEF PushRegion
<1>12. CASE ExitBootServices BY <1>12 DEF ExitBootServices
<1>13. CASE FirmwareAllocates
  <2>1. moved' = moved + 1 /\ phase' = phase /\ why' = why /\ phase # "panic"
    BY <1>13 DEF FirmwareAllocates
  <2>2. moved' \in Nat /\ moved' >= 1 BY <2>1
  <2> QED BY <2>1, <2>2
<1>14. CASE GetImageBase BY <1>14 DEF GetImageBase
<1>15. CASE Ended \/ UNCHANGED vars BY <1>15 DEF Ended, vars
<1> QED
  BY <1>1, <1>2, <1>3, <1>4, <1>5, <1>6, <1>7, <1>8, <1>9, <1>10, <1>11,
     <1>12, <1>13, <1>14, <1>15 DEF Next, Main

(* exit_boot_services fails only if the firmware changed the map after     *)
(* main read it for the second time.                                       *)
THEOREM ExitFailsForFirmware == Spec => []ExitFailsOnlyIfMapMoved
<1>1. Init => ExitInv BY DEF Init, ExitInv
<1>2. ExitInv /\ [Next]_vars => ExitInv' BY ExitStep
<1>3. ExitInv => ExitFailsOnlyIfMapMoved BY DEF ExitInv, ExitFailsOnlyIfMapMoved
<1> QED BY <1>1, <1>2, <1>3, PTL DEF Spec

-----------------------------------------------------------------------------

KernelFirst == PageOf(KernelStartPhys)
KernelRange == KernelFirst .. KernelFirst + KernelPages - 1

(* Min and Max are defined by a choice: one lowest element is enough.      *)
LEMMA MinFacts ==
  ASSUME NEW S \in SUBSET Nat, NEW m \in S, \A x \in S : m <= x
  PROVE  Min(S) = m
<1>1. \A x \in S : (\A y \in S : x <= y) => x = m OBVIOUS
<1>2. Min(S) = CHOOSE x \in S : \A y \in S : x <= y BY DEF Min
<1> QED BY <1>1, <1>2, Zenon

LEMMA MaxFacts ==
  ASSUME NEW S \in SUBSET Nat, NEW m \in S, \A x \in S : x <= m
  PROVE  Max(S) = m
<1>1. \A x \in S : (\A y \in S : x >= y) => x = m OBVIOUS
<1>2. Max(S) = CHOOSE x \in S : \A y \in S : x >= y BY DEF Max
<1> QED BY <1>1, <1>2, Zenon

(* A set of naturals has a least element.  With it, an induction over the  *)
(* naturals is the choice of a least counterexample.                       *)
LEMMA LeastNat ==
  ASSUME NEW S \in SUBSET Nat, S # {}
  PROVE  \E m \in S : \A x \in S : m <= x
<1> DEFINE R == {ss \in Nat \X Nat : ss[1] < ss[2]}
<1>1. IsWellFoundedOn(R, Nat) BY NatLessThanWellFounded, Zenon DEF OpToRel
<1> HIDE DEF R
<1>2. PICK m \in S : \A y \in S : ~ (<<y, m>> \in R) BY <1>1, WFMin, Zenon
<1>3. \A y \in S : ~ (y < m) BY <1>2, Zenon DEF R
<1> QED BY <1>3

LEMMA DivFacts ==
  ASSUME NEW n \in Nat, NEW d \in Nat \ {0}
  PROVE  /\ n \div d \in Nat
         /\ d * (n \div d) <= n /\ n < d * (n \div d) + d
         /\ n % d = 0 => d * (n \div d) = n
<1>1. n \div d \in Int /\ n % d \in 0 .. d - 1 /\ n = d * (n \div d) + (n % d)
  OBVIOUS
<1> DEFINE q == n \div d
           r == n % d
<1>2. q \in Int /\ r \in 0 .. d - 1 /\ n = d * q + r BY <1>1
<1> HIDE DEF q, r
<1>3. q >= 0
  <2> SUFFICES ASSUME q <= -1 PROVE FALSE BY <1>2
  <2>1. d * q <= d * (-1) BY <1>2
  <2> QED BY <1>2, <2>1
<1>4. q \in Nat BY <1>2, <1>3
<1>5. d * q \in Nat BY <1>4
<1> QED BY <1>2, <1>4, <1>5 DEF q, r

LEMMA DivLower ==
  ASSUME NEW n \in Nat, NEW d \in Nat \ {0}, NEW k \in Nat, d * k <= n
  PROVE  k <= n \div d
<1> DEFINE q == n \div d
<1>1. q \in Nat /\ n < d * q + d BY DivFacts
<1> HIDE DEF q
<1>2. SUFFICES ASSUME q + 1 <= k PROVE FALSE BY <1>1 DEF q
<1>3. d * (q + 1) <= d * k BY <1>1, <1>2
<1>4. d * (q + 1) = d * q + d BY <1>1
<1> QED BY <1>1, <1>3, <1>4

(* What the assumption says of the headers of one kernel.                  *)
LEMMA HeaderFacts ==
  ASSUME elf \in Kernels, NEW s \in DOMAIN elf
  PROVE  /\ elf[s].p_vaddr \in Nat /\ elf[s].p_paddr \in Nat
         /\ elf[s].p_filesz \in Nat /\ elf[s].p_memsz \in Nat
<1>1. elf[s] \in ProgramHeader BY LoaderAssumption
<1> QED BY <1>1 DEF ProgramHeader

(* The bounds that get_kernel_size computes.                               *)
LEMMA KernelBounds ==
  ASSUME elf \in Kernels
  PROVE  /\ KernelStartVirt \in Nat /\ KernelStartPhys \in Nat
         /\ KernelEndVirt \in Nat /\ KernelStartVirt <= KernelEndVirt
         /\ KernelStartPhys % PAGE_SIZE = 0
         /\ \A s \in DOMAIN elf :
              /\ KernelStartVirt + elf[s].p_paddr = elf[s].p_vaddr + KernelStartPhys
              /\ KernelStartVirt <= elf[s].p_vaddr
              /\ elf[s].p_vaddr + elf[s].p_memsz <= KernelEndVirt
<1>1. PICK lo \in DOMAIN elf, hi \in DOMAIN elf :
        /\ elf[lo].p_paddr % PAGE_SIZE = 0
        /\ \A i \in DOMAIN elf :
             /\ elf[lo].p_vaddr <= elf[i].p_vaddr
             /\ elf[i].p_vaddr + elf[i].p_memsz <= elf[hi].p_vaddr + elf[hi].p_memsz
  BY LoaderAssumption
<1>2. \A i, j \in DOMAIN elf :
        elf[i].p_vaddr + elf[j].p_paddr = elf[j].p_vaddr + elf[i].p_paddr
  BY LoaderAssumption
<1>3. PAGE_SIZE \in Nat \ {0} BY LoaderAssumption
<1> DEFINE vs == elf[lo].p_vaddr
           ps == elf[lo].p_paddr
           ve == elf[hi].p_vaddr + elf[hi].p_memsz
<1>4. vs \in Nat /\ ps \in Nat /\ ve \in Nat /\ vs <= ve
  <2>1. /\ elf[hi].p_vaddr \in Nat /\ elf[hi].p_memsz \in Nat
        /\ elf[lo].p_vaddr \in Nat /\ elf[lo].p_paddr \in Nat
    BY HeaderFacts
  <2>2. elf[lo].p_vaddr <= elf[hi].p_vaddr BY <1>1
  <2> QED BY <2>1, <2>2
<1>5. KernelStartVirt = vs
  <2> DEFINE S == {s.p_vaddr : s \in Segments}
  <2>1. S \in SUBSET Nat BY HeaderFacts DEF Segments
  <2>2. vs \in S /\ \A x \in S : vs <= x BY <1>1 DEF Segments
  <2> HIDE DEF S, vs
  <2>3. Min(S) = vs BY <2>1, <2>2, MinFacts
  <2> QED BY <2>3 DEF KernelStartVirt, S
<1>6. KernelStartPhys = ps
  <2> DEFINE S == {s.p_paddr : s \in Segments}
  <2>1. S \in SUBSET Nat BY HeaderFacts DEF Segments
  <2>2. ASSUME NEW i \in DOMAIN elf PROVE ps <= elf[i].p_paddr
    <3>1. vs + elf[i].p_paddr = elf[i].p_vaddr + ps BY <1>2
    <3>2. vs <= elf[i].p_vaddr BY <1>1
    <3>3. elf[i].p_vaddr \in Nat /\ elf[i].p_paddr \in Nat BY HeaderFacts
    <3> HIDE DEF vs, ps
    <3> QED BY <1>4, <3>1, <3>2, <3>3
  <2>3. ps \in S /\ \A x \in S : ps <= x BY <2>2 DEF Segments
  <2> HIDE DEF S, ps
  <2>4. Min(S) = ps BY <2>1, <2>3, MinFacts
  <2> QED BY <2>4 DEF KernelStartPhys, S
<1>7. KernelEndVirt = ve
  <2> DEFINE S == {s.p_vaddr + s.p_memsz : s \in Segments}
  <2>1. S \in SUBSET Nat
    <3>1. \A i \in DOMAIN elf : elf[i].p_vaddr + elf[i].p_memsz \in Nat
      BY HeaderFacts
    <3> QED BY <3>1 DEF Segments
  <2>2. ve \in S /\ \A x \in S : x <= ve BY <1>1 DEF Segments
  <2> HIDE DEF S, ve
  <2>3. Max(S) = ve BY <2>1, <2>2, MaxFacts
  <2> QED BY <2>3 DEF KernelEndVirt, S
<1> QED BY <1>1, <1>2, <1>4, <1>5, <1>6, <1>7

(* It finds the first page and the number of pages of an image whose       *)
(* segments all lie in them.                                               *)
LEMMA ImageFits ==
  ASSUME elf \in Kernels
  PROVE  /\ KernelFirst \in Nat /\ KernelPages \in Nat
         /\ \A s \in DOMAIN elf : \A b \in Written(s) : PageOf(b) \in KernelRange
<1> DEFINE vs == KernelStartVirt
           ps == KernelStartPhys
           ve == KernelEndVirt
<1>1. PAGE_SIZE \in Nat \ {0} BY LoaderAssumption
<1>2. vs \in Nat /\ ps \in Nat /\ ve \in Nat /\ vs <= ve BY KernelBounds
<1>3. ps % PAGE_SIZE = 0 BY KernelBounds
<1> DEFINE q == ps \div PAGE_SIZE
           k == ((ve - vs) + PAGE_SIZE - 1) \div PAGE_SIZE
<1>4. KernelFirst = q /\ KernelPages = k
  BY DEF KernelFirst, KernelPages, PageOf
<1>5. q \in Nat /\ PAGE_SIZE * q = ps
  <2> HIDE DEF ps
  <2> QED BY <1>1, <1>2, <1>3, DivFacts
<1>6. k \in Nat
  <2> HIDE DEF vs, ve
  <2>1. (ve - vs) + PAGE_SIZE - 1 \in Nat BY <1>1, <1>2
  <2> QED BY <1>1, <2>1, DivFacts
<1>7. ASSUME NEW s \in DOMAIN elf, NEW b \in Written(s)
       PROVE  PageOf(b) \in q .. q + k - 1
  <2>1. /\ elf[s].p_vaddr \in Nat /\ elf[s].p_paddr \in Nat
        /\ elf[s].p_memsz \in Nat
    BY HeaderFacts
  <2>2. vs + elf[s].p_paddr = elf[s].p_vaddr + ps BY KernelBounds
  <2>3. vs <= elf[s].p_vaddr /\ elf[s].p_vaddr + elf[s].p_memsz <= ve
    BY KernelBounds
  <2>4. b \in Int /\ elf[s].p_paddr <= b /\ b <= elf[s].p_paddr + elf[s].p_memsz - 1
    BY <2>1 DEF Written
  <2> HIDE DEF vs, ps, ve
  <2>5. b \in Nat /\ ps <= b /\ b - ps <= ve - vs - 1
    BY <1>2, <2>1, <2>2, <2>3, <2>4
  <2> DEFINE x == b \div PAGE_SIZE
  <2>6. x \in Nat /\ PAGE_SIZE * x <= b BY <1>1, <2>5, DivFacts
  <2> HIDE DEF q
  <2>7. q <= x
    <3>1. PAGE_SIZE * q <= b BY <1>2, <1>5, <2>5
    <3> QED BY <1>1, <1>5, <2>5, <3>1, DivLower, Zenon
  <2> HIDE DEF x
  <2>8. x + 1 - q <= k
    <3> DEFINE n == (ve - vs) + PAGE_SIZE - 1
    <3>1. n \in Nat BY <1>1, <1>2
    <3>2. x + 1 - q \in Nat BY <1>5, <2>6, <2>7
    <3>3. PAGE_SIZE * (x + 1 - q) = PAGE_SIZE * x + PAGE_SIZE - PAGE_SIZE * q
      BY <1>1, <1>5, <2>6
    <3>4. PAGE_SIZE * (x + 1 - q) <= n
      <4> DEFINE y == PAGE_SIZE * x
                 z == PAGE_SIZE * (x + 1 - q)
      <4>1. y \in Int /\ y <= b /\ z = y + PAGE_SIZE - ps
        BY <1>1, <1>5, <2>6, <3>3
      <4> HIDE DEF y, z
      <4>2. z <= n BY <1>1, <1>2, <2>5, <4>1
      <4> QED BY <4>2 DEF z
    <3> HIDE DEF n
    <3>5. x + 1 - q <= n \div PAGE_SIZE BY <1>1, <3>1, <3>2, <3>4, DivLower
    <3> QED BY <3>5 DEF n
  <2>9. PageOf(b) = x BY DEF PageOf, x
  <2> HIDE DEF k
  <2> QED BY <1>5, <1>6, <2>6, <2>7, <2>8, <2>9
<1> QED BY <1>4, <1>5, <1>6, <1>7 DEF KernelRange

-----------------------------------------------------------------------------

(* The pages taken for the kernel are not free, hence never taken again.   *)
OwnerInv ==
  /\ elf \in Kernels /\ loaded \in Nat /\ loaded <= Len(elf)
  /\ type \in [Page -> Type]
  /\ \A p \in Page : owner[p] = "kernel" => type[p] # "Conventional"
  /\ phase = "load" \/ loaded > 0 =>
       \A p \in KernelRange : p \in Page /\ owner[p] = "kernel"

(* Pages that stay the kernel's, in a step that loads nothing.             *)
LEMMA OwnerKept ==
  ASSUME OwnerInv, elf' = elf, loaded' = loaded,
         phase' = "load" => phase = "load",
         type' \in [Page -> Type],
         \A p \in Page : owner'[p] = "kernel" => type'[p] # "Conventional",
         \A p \in Page : owner[p] = "kernel" => owner'[p] = "kernel"
  PROVE  OwnerInv'
<1>1. KernelRange' = KernelRange
  BY DEF KernelRange, KernelFirst, KernelPages, KernelStartPhys, KernelStartVirt,
         KernelEndVirt, Segments
<1> HIDE DEF KernelRange
<1> QED BY <1>1 DEF OwnerInv

(* A step that leaves the memory map alone.                                *)
LEMMA OwnerStays ==
  ASSUME OwnerInv, UNCHANGED <<memoryVars, kernelVars>>,
         phase' = "load" => phase = "load"
  PROVE  OwnerInv'
BY OwnerKept DEF OwnerInv, memoryVars, kernelVars

(* Only free pages are taken.                                              *)
LEMMA TakeKeeps ==
  ASSUME OwnerInv, NEW n \in Nat, NEW first \in Free(n), NEW use, Take(first, n, use)
  PROVE  /\ type' \in [Page -> Type]
         /\ \A p \in Page : owner'[p] = "kernel" => type'[p] # "Conventional"
         /\ \A p \in Page : owner[p] = "kernel" => owner'[p] = "kernel"
         /\ \A p \in first .. first + n - 1 :
              p \in Page /\ owner'[p] = use
<1>1. first \in Nat BY LoaderAssumption DEF Free, Page
<1>2. ASSUME NEW p \in first .. first + n - 1
      PROVE  p \in Page /\ type[p] = "Conventional"
  <2>1. p - first \in 0 .. n - 1 /\ first + (p - first) = p BY <1>1
  <2> QED BY <2>1 DEF Free
<1> HIDE DEF Page
<1>3. type' \in [Page -> Type] BY DEF Take, Type, OwnerInv
<1>4. ASSUME NEW p \in Page
      PROVE  /\ owner'[p] = "kernel" => type'[p] # "Conventional"
             /\ owner[p] = "kernel" => owner'[p] = "kernel"
  <2>1. CASE p \in first .. first + n - 1
    BY <1>2, <2>1 DEF Take, OwnerInv
  <2>2. CASE p \notin first .. first + n - 1
    BY <2>2 DEF Take, OwnerInv
  <2> QED BY <2>1, <2>2
<1>5. \A p \in first .. first + n - 1 : p \in Page /\ owner'[p] = use
  BY <1>2 DEF Take
<1> QED BY <1>3, <1>4, <1>5

LEMMA AllocateKeeps ==
  ASSUME OwnerInv, NEW n \in Nat, NEW use, NEW next, next # "load",
         Allocate(n, use, next), UNCHANGED kernelVars
  PROVE  OwnerInv'
<1>1. ASSUME NEW first \in Free(n), Take(first, n, use), Goto(next)
      PROVE  OwnerInv'
  <2>1. /\ type' \in [Page -> Type]
        /\ \A p \in Page : owner'[p] = "kernel" => type'[p] # "Conventional"
        /\ \A p \in Page : owner[p] = "kernel" => owner'[p] = "kernel"
    BY <1>1, TakeKeeps
  <2> QED BY <1>1, <2>1, OwnerKept DEF Goto, kernelVars
<1>2. CASE Panic("memory") /\ UNCHANGED memoryVars
  BY <1>2, OwnerStays DEF Panic, kernelVars, memoryVars
<1> QED BY <1>1, <1>2 DEF Allocate

LEMMA KernelPagesStep ==
  ASSUME OwnerInv, AllocateKernelPages
  PROVE  OwnerInv'
<1>1. CASE UNCHANGED memoryVars /\ phase' = "panic"
  BY <1>1, OwnerStays DEF AllocateKernelPages, kernelVars, memoryVars
<1>2. CASE /\ KernelFirst \in Free(KernelPages)
           /\ Take(KernelFirst, KernelPages, "kernel")
  <2>1. KernelPages \in Nat /\ elf \in Kernels BY ImageFits DEF OwnerInv
  <2>2. /\ type' \in [Page -> Type]
        /\ \A p \in Page : owner'[p] = "kernel" => type'[p] # "Conventional"
        /\ \A p \in KernelRange : p \in Page /\ owner'[p] = "kernel"
    <3> HIDE DEF KernelFirst, KernelPages
    <3> QED BY <1>2, <2>1, TakeKeeps DEF KernelRange
  <2>3. elf' = elf /\ loaded' = loaded BY DEF AllocateKernelPages, kernelVars
  <2>4. KernelRange' = KernelRange
    BY <2>3 DEF KernelRange, KernelFirst, KernelPages, KernelStartPhys,
                KernelStartVirt, KernelEndVirt, Segments
  <2> HIDE DEF KernelRange
  <2> QED BY <2>2, <2>3, <2>4 DEF OwnerInv
<1> QED BY <1>1, <1>2 DEF AllocateKernelPages, Panic, KernelFirst

LEMMA LoadStep ==
  ASSUME OwnerInv, LoadSegment
  PROVE  OwnerInv'
<1>1. /\ phase = "load" /\ loaded < Len(elf) /\ loaded' = loaded + 1
      /\ elf' = elf /\ type' = type /\ owner' = owner
  BY DEF LoadSegment, memoryVars
<1>2. KernelRange' = KernelRange
  BY <1>1 DEF KernelRange, KernelFirst, KernelPages, KernelStartPhys,
              KernelStartVirt, KernelEndVirt, Segments
<1>3. loaded' \in Nat /\ loaded' <= Len(elf')
  <2>1. Len(elf) \in Nat BY LoaderAssumption DEF OwnerInv
  <2> QED BY <1>1, <2>1 DEF OwnerInv
<1> HIDE DEF KernelRange
<1> QED BY <1>1, <1>2, <1>3 DEF OwnerInv

(* The buffer of the file becomes free; no page of it is the kernel's.     *)
LEMMA ReturnStep ==
  ASSUME OwnerInv, LoadReturns
  PROVE  OwnerInv'
<1>1. /\ type' = [p \in Page |-> IF owner[p] = "file" THEN "Conventional" ELSE type[p]]
      /\ owner' = [p \in Page |-> IF owner[p] = "file" THEN "firmware" ELSE owner[p]]
      /\ elf' = elf /\ loaded' = loaded /\ phase' = "stack"
  BY DEF LoadReturns, kernelVars, Goto
<1> HIDE DEF Page
<1>2. type' \in [Page -> Type] BY <1>1 DEF OwnerInv, Type
<1>3. ASSUME NEW p \in Page
      PROVE  /\ owner'[p] = "kernel" => type'[p] # "Conventional"
             /\ owner[p] = "kernel" => owner'[p] = "kernel"
  BY <1>1 DEF OwnerInv
<1> QED BY <1>1, <1>2, <1>3, OwnerKept

LEMMA FirmwareStep ==
  ASSUME OwnerInv, FirmwareAllocates
  PROVE  OwnerInv'
<1>1. PICK q \in Free(1) : type' = [type EXCEPT ![q] = "BootData"]
  BY Zenon DEF FirmwareAllocates
<1>2. elf' = elf /\ loaded' = loaded /\ phase' = phase /\ owner' = owner
  BY DEF FirmwareAllocates, kernelVars
<1> HIDE DEF Page
<1>3. type' \in [Page -> Type] BY <1>1, Zenon DEF OwnerInv, Type
<1>4. \A p \in Page : owner'[p] = "kernel" => type'[p] # "Conventional"
  BY <1>1, <1>2 DEF OwnerInv
<1> QED BY <1>2, <1>3, <1>4, OwnerKept

LEMMA OwnerInvariant == Spec => []OwnerInv
<1>1. Init => OwnerInv
  <2> SUFFICES ASSUME Init PROVE OwnerInv OBVIOUS
  <2>1. elf \in Kernels /\ loaded = 0 /\ type = FirstMap /\ phase = "size1"
    BY DEF Init
  <2>2. \A p \in Page : owner[p] # "kernel" BY DEF Init
  <2>3. Len(elf) \in Nat BY <2>1, LoaderAssumption
  <2> QED BY <2>1, <2>2, <2>3, LoaderAssumption DEF OwnerInv
<1>2. OwnerInv /\ [Next]_vars => OwnerInv'
  <2> SUFFICES ASSUME OwnerInv, [Next]_vars PROVE OwnerInv' OBVIOUS
  <2> USE DEF Goto, Panic
  <2>1. CASE GetMemoryMapSize \/ GetMemoryMap \/ PushRegion
    <3>1. phase' # "load" \/ phase' = phase
      BY <2>1 DEF GetMemoryMapSize, GetMemoryMap, PushRegion
    <3>2. UNCHANGED <<memoryVars, kernelVars>>
      BY <2>1 DEF GetMemoryMapSize, GetMemoryMap, PushRegion
    <3> QED BY <3>1, <3>2, OwnerStays
  <2>2. CASE GetImageBase \/ ReadKernelFile \/ ExitBootServices
    BY <2>2, OwnerStays DEF GetImageBase, ReadKernelFile, ExitBootServices
  <2>3. CASE MapBuffer BY <2>3, AllocateKeeps DEF MapBuffer
  <2>4. CASE OpenKernelFile
    BY <2>4, AllocateKeeps, OwnerStays DEF OpenKernelFile
  <2>5. CASE InitEarlyPaging
    <3>1. PICK next \in {"kernel_pages", "tables"} : Allocate(1, "table", next)
      BY <2>5 DEF InitEarlyPaging
    <3> QED BY <2>5, <3>1, AllocateKeeps DEF InitEarlyPaging
  <2>6. CASE AllocateStackAndHeap
    BY <2>6, AllocateKeeps, LoaderAssumption DEF AllocateStackAndHeap
  <2>7. CASE Ended \/ UNCHANGED vars
    BY <2>7, OwnerStays DEF Ended, vars, memoryVars, kernelVars
  <2> QED
    BY <2>1, <2>2, <2>3, <2>4, <2>5, <2>6, <2>7, KernelPagesStep, LoadStep,
       ReturnStep, FirmwareStep, SMTT(30) DEF Next, Main
<1> QED BY <1>1, <1>2, PTL DEF Spec

(* What load_to_memory writes, it writes to pages of the kernel: they are  *)
(* the pages it has allocated, and they stay the kernel's.                 *)
THEOREM CopiesOnlyToKernel == Spec => []CopiesOntoKernelPages
<1>1. OwnerInv => CopiesOntoKernelPages
  <2> SUFFICES ASSUME OwnerInv, NEW s \in 1 .. loaded, NEW b \in Written(s)
               PROVE  owner[PageOf(b)] = "kernel"
    BY DEF CopiesOntoKernelPages
  <2>1. elf \in Kernels /\ loaded \in Nat /\ loaded <= Len(elf) BY DEF OwnerInv
  <2>2. s \in DOMAIN elf BY <2>1, LoaderAssumption
  <2>3. PageOf(b) \in KernelRange BY <2>1, <2>2, ImageFits
  <2>4. loaded > 0 BY <2>1
  <2> QED BY <2>3, <2>4 DEF OwnerInv
<1> QED BY <1>1, OwnerInvariant, PTL

-----------------------------------------------------------------------------
(* How many descriptors an allocation adds to the map                      *)

LEMMA StartsFinite ==
  ASSUME NEW t
  PROVE  IsFiniteSet(Starts(t)) /\ Descriptors(t) \in Nat
<1>1. IsFiniteSet(Page)
  <2>1. 0 \in Int /\ Pages - 1 \in Int BY LoaderAssumption
  <2> QED BY <2>1, FS_Interval DEF Page
<1>2. Starts(t) \in SUBSET Page BY DEF Starts
<1> HIDE DEF Page
<1>3. IsFiniteSet(Starts(t)) BY <1>1, <1>2, FS_Subset
<1> QED BY <1>3, FS_CardinalityType DEF Descriptors

LEMMA AddAtMostOne ==
  ASSUME NEW S, NEW x, IsFiniteSet(S)
  PROVE  /\ IsFiniteSet(S \cup {x})
         /\ Cardinality(S) \in Nat /\ Cardinality(S \cup {x}) \in Nat
         /\ Cardinality(S \cup {x}) <= Cardinality(S) + 1
<1>1. IsFiniteSet(S \cup {x}) BY FS_AddElement
<1>2. Cardinality(S) \in Nat /\ Cardinality(S \cup {x}) \in Nat
  BY <1>1, FS_CardinalityType
<1>3. CASE x \in S
  <2>1. Cardinality(S \cup {x}) = Cardinality(S) BY <1>3, FS_AddElement
  <2> QED BY <1>1, <1>2, <2>1
<1>4. CASE x \notin S
  <2>1. Cardinality(S \cup {x}) = Cardinality(S) + 1 BY <1>4, FS_AddElement
  <2> QED BY <1>1, <1>2, <2>1
<1> QED BY <1>3, <1>4

(* A run of pages that gets one type starts at most two descriptors: its   *)
(* own and the one after it.                                               *)
LEMMA RunAddsTwo ==
  ASSUME NEW t, NEW u, NEW c, NEW first \in Nat, NEW n \in Nat,
         \A p \in Page : u[p] = IF p \in first .. first + n - 1 THEN c ELSE t[p]
  PROVE  Descriptors(u) <= Descriptors(t) + 2
<1>1. Starts(u) \subseteq (Starts(t) \cup {first}) \cup {first + n}
  <2> SUFFICES ASSUME NEW p \in Page, p = 0 \/ u[p] # u[p - 1],
                      p # first, p # first + n
               PROVE  p = 0 \/ t[p] # t[p - 1]
    BY DEF Starts
  <2> SUFFICES ASSUME p # 0 PROVE t[p] # t[p - 1] OBVIOUS
  <2>1. p - 1 \in Page /\ p \in Nat BY LoaderAssumption DEF Page
  <2>2. p \in first .. first + n - 1 <=> p - 1 \in first .. first + n - 1
    BY <2>1
  <2> HIDE DEF Page
  <2> QED BY <2>1, <2>2
<1>2. IsFiniteSet(Starts(t)) /\ Cardinality(Starts(t)) \in Nat
  BY StartsFinite DEF Descriptors
<1> DEFINE S1 == Starts(t) \cup {first}
           S2 == S1 \cup {first + n}
<1>3. /\ IsFiniteSet(S1) /\ Cardinality(S1) \in Nat
      /\ Cardinality(S1) <= Cardinality(Starts(t)) + 1
  BY <1>2, AddAtMostOne, Zenon
<1> HIDE DEF S1
<1>4. /\ IsFiniteSet(S2) /\ Cardinality(S2) \in Nat
      /\ Cardinality(S2) <= Cardinality(S1) + 1
  BY <1>3, AddAtMostOne, Zenon
<1>5. Starts(u) \in SUBSET S2 BY <1>1 DEF S1
<1> HIDE DEF S2
<1>6. Cardinality(Starts(u)) <= Cardinality(S2) BY <1>4, <1>5, FS_Subset
<1>7. Cardinality(Starts(u)) \in Nat BY StartsFinite DEF Descriptors
<1> QED BY <1>2, <1>3, <1>4, <1>6, <1>7 DEF Descriptors

(* From the call for the size on, the room left in the buffer pays for two *)
(* descriptors of the buffer's own allocation and two of each allocation   *)
(* of the firmware.                                                        *)
SpareInv ==
  /\ moved \in Nat /\ capacity \in Nat
  /\ why = "map" => phase = "panic" /\ moved >= 2
  /\ phase \in {"buffer1", "buffer2"} =>
       Descriptors(type) + 4 <= capacity + 2 * moved
  /\ phase \in {"map1", "map2"} =>
       Descriptors(type) + 2 <= capacity + 2 * moved

LEMMA SpareBuffer ==
  ASSUME SpareInv, MapBuffer
  PROVE  SpareInv'
<1>1. capacity' = capacity /\ moved' = moved BY DEF MapBuffer, mapVars, firmwareVars
<1>2. Descriptors(type) + 4 <= capacity + 2 * moved /\ why # "map"
  BY DEF MapBuffer, SpareInv
<1>3. CASE phase' = "panic" /\ why' = "memory" BY <1>1, <1>3 DEF SpareInv
<1>4. ASSUME NEW first \in Free(1), NEW next \in {"map1", "map2"},
             Take(first, 1, "map"), Goto(next)
      PROVE  SpareInv'
  <2>1. first \in Nat BY LoaderAssumption DEF Free, Page
  <2>2. \A p \in Page : type'[p] = IF p \in first .. first + 1 - 1
                                     THEN "LoaderData" ELSE type[p]
    BY <1>4 DEF Take
  <2>3. Descriptors(type') <= Descriptors(type) + 2
    <3> DEFINE u == type'
    <3> HIDE DEF u
    <3>1. \A p \in Page : u[p] = IF p \in first .. first + 1 - 1
                                   THEN "LoaderData" ELSE type[p]
      BY <2>2 DEF u
    <3> HIDE DEF Page
    <3>2. Descriptors(u) <= Descriptors(type) + 2 BY <2>1, <3>1, RunAddsTwo, ZenonT(60)
    <3> QED BY <3>2 DEF u
  <2>4. Descriptors(type) \in Nat /\ Descriptors(type') \in Nat
    BY StartsFinite
  <2>5. phase' = next /\ why' = why BY <1>4 DEF Goto
  <2>6. Descriptors(type') + 2 <= capacity' + 2 * moved'
    BY <1>1, <1>2, <2>3, <2>4 DEF SpareInv
  <2> QED BY <1>1, <1>2, <1>4, <2>5, <2>6, SMTT(30) DEF SpareInv, Descriptors, Starts
<1> QED BY <1>3, <1>4 DEF MapBuffer, Allocate, Panic

LEMMA SpareFirmware ==
  ASSUME SpareInv, OwnerInv, FirmwareAllocates
  PROVE  SpareInv'
<1>1. /\ capacity' = capacity /\ moved' = moved + 1
      /\ phase' = phase /\ phase # "panic" /\ why' = why
  BY DEF FirmwareAllocates, mapVars
<1>2. PICK q \in Free(1) : type' = [type EXCEPT ![q] = "BootData"]
  BY Zenon DEF FirmwareAllocates
<1>3. q \in Nat BY LoaderAssumption DEF Free, Page
<1>4. Descriptors(type') <= Descriptors(type) + 2
  <2> DEFINE u == type'
  <2>1. \A p \in Page : u[p] = IF p \in q .. q + 1 - 1 THEN "BootData" ELSE type[p]
    <3>1. \A p \in Page : p \in q .. q + 1 - 1 <=> p = q
      BY <1>3, LoaderAssumption DEF Page
    <3> HIDE DEF Page
    <3> QED BY <1>2, <3>1 DEF OwnerInv
  <2> HIDE DEF Page, u
  <2>2. Descriptors(u) <= Descriptors(type) + 2 BY <1>3, <2>1, RunAddsTwo, ZenonT(60)
  <2> QED BY <2>2 DEF u
<1>5. Descriptors(type) \in Nat /\ Descriptors(type') \in Nat BY StartsFinite
<1>6. why' = "map" => phase' = "panic" BY <1>1 DEF SpareInv
<1>7. moved' \in Nat /\ capacity' \in Nat BY <1>1 DEF SpareInv
<1>8. phase' \in {"buffer1", "buffer2"} =>
        Descriptors(type') + 4 <= capacity' + 2 * moved'
  BY <1>1, <1>4, <1>5 DEF SpareInv
<1>9. phase' \in {"map1", "map2"} =>
        Descriptors(type') + 2 <= capacity' + 2 * moved'
  BY <1>1, <1>4, <1>5 DEF SpareInv
<1> QED BY <1>1, <1>6, <1>7, <1>8, <1>9 DEF SpareInv, Descriptors, Starts

(* A step that is not one of the calls for the map.                        *)
LEMMA SpareElsewhere ==
  ASSUME SpareInv, UNCHANGED <<capacity, firmwareVars>>,
         why' = "map" => why = "map", phase = "panic" => phase' = "panic",
         phase' \notin {"buffer1", "buffer2", "map1", "map2"}
           \/ UNCHANGED <<phase, type>>
  PROVE  SpareInv'
BY DEF SpareInv, firmwareVars, Descriptors, Starts

LEMMA SpareStep ==
  ASSUME SpareInv, OwnerInv, [Next]_vars
  PROVE  SpareInv'
<1> USE DEF Goto, Panic
<1>1. CASE GetMemoryMapSize
  <2>1. /\ capacity' = Descriptors(type) + 4 /\ moved' = 0 /\ type' = type
        /\ phase' \in {"buffer1", "buffer2"} /\ why' = why /\ phase # "panic"
    BY <1>1 DEF GetMemoryMapSize, memoryVars
  <2>2. Descriptors(type) \in Nat BY StartsFinite
  <2>3. Descriptors(type') = Descriptors(type) BY <2>1
  <2>4. Descriptors(type') + 4 <= capacity' + 2 * moved' BY <2>1, <2>2, <2>3
  <2>5. capacity' \in Nat BY <2>1, <2>2
  <2> QED BY <2>1, <2>4, <2>5 DEF SpareInv, Descriptors, Starts
<1>2. CASE MapBuffer BY <1>2, SpareBuffer
<1>3. CASE GetMemoryMap
  <2>1. phase \in {"map1", "map2"} /\ capacity' = capacity
    BY <1>3 DEF GetMemoryMap
  <2>2. Descriptors(type) \in Nat BY StartsFinite
  <2>3. CASE Descriptors(type) > capacity
    <3>1. moved' = moved /\ phase' = "panic" /\ why' = "map"
      BY <1>3, <2>3 DEF GetMemoryMap
    <3>2. moved >= 2 BY <2>1, <2>2, <2>3 DEF SpareInv
    <3> QED BY <2>1, <3>1, <3>2 DEF SpareInv
  <2>4. CASE ~(Descriptors(type) > capacity)
    <3>1. moved' = 0 /\ phase' \in {"image_base", "exit"} /\ why' = why
      BY <1>3, <2>4 DEF GetMemoryMap
    <3> QED BY <2>1, <3>1 DEF SpareInv
  <2> QED BY <2>3, <2>4
<1>4. CASE GetImageBase \/ ReadKernelFile \/ ExitBootServices
  BY <1>4, SpareElsewhere
     DEF GetImageBase, ReadKernelFile, ExitBootServices, mapVars
<1>5. CASE OpenKernelFile
  BY <1>5, SpareElsewhere DEF OpenKernelFile, Allocate, mapVars
<1>6. CASE InitEarlyPaging
  BY <1>6, SpareElsewhere, Zenon DEF InitEarlyPaging, Allocate, mapVars
<1>7. CASE AllocateKernelPages
  BY <1>7, SpareElsewhere DEF AllocateKernelPages, mapVars
<1>8. CASE LoadSegment \/ LoadReturns
  BY <1>8, SpareElsewhere DEF LoadSegment, LoadReturns, mapVars
<1>9. CASE AllocateStackAndHeap
  BY <1>9, SpareElsewhere DEF AllocateStackAndHeap, Allocate, mapVars
<1>10. CASE PushRegion BY <1>10, SpareElsewhere DEF PushRegion, memoryVars
<1>11. CASE FirmwareAllocates BY <1>11, SpareFirmware
<1>12. CASE Ended \/ UNCHANGED vars
  BY <1>12, SpareElsewhere DEF Ended, vars, firmwareVars
<1> QED
  BY <1>1, <1>2, <1>3, <1>4, <1>5, <1>6, <1>7, <1>8, <1>9, <1>10, <1>11, <1>12
  DEF Next, Main

(* get_memory_map finds its buffer too small only if the firmware has      *)
(* allocated twice since the call for the size.                            *)
THEOREM SpareDescriptorsAlwaysSuffice == Spec => []SpareDescriptorsSuffice
<1>1. Init => SpareInv BY DEF Init, SpareInv
<1>2. SpareInv /\ OwnerInv /\ [Next]_vars => SpareInv' BY SpareStep
<1>3. SpareInv => SpareDescriptorsSuffice BY DEF SpareInv, SpareDescriptorsSuffice
<1> QED BY <1>1, <1>2, <1>3, OwnerInvariant, PTL DEF Spec

-----------------------------------------------------------------------------
(* The regions handed to the kernel                                        *)

Ends == {regions[i].base + regions[i].len : i \in DOMAIN regions}

Covers(i, p) ==
  /\ p \in regions[i].base .. regions[i].base + regions[i].len - 1
  /\ regions[i].typ = "Usable" <=> first_map[p] \in {"BootCode", "Conventional"}

Region == [base : Nat, len : Nat, typ : {"Usable", "Reserved"}]

(* The descriptors that start before page n have been pushed, and the next *)
(* one, if any, starts at n.                                               *)
ReadUpTo(n) ==
  /\ n \in Nat /\ n <= Pages
  /\ n \in Starts(first_map) \cup {Pages}
  /\ regions \in Seq(Region)
  /\ (regions = <<>> /\ n = 0) \/ n \in Ends
  /\ \A e \in Ends : e \in Nat /\ e <= n
  /\ Len(regions) = Cardinality({s \in Starts(first_map) : s < n})
  /\ \A p \in Page : p < n => \E i \in DOMAIN regions : Covers(i, p)

BeforeLoop == {"size1", "buffer1", "map1", "image_base", "file", "read",
               "tables", "kernel_pages", "load", "stack", "heap"}
AfterLoop == {"size2", "buffer2", "map2", "exit", "kernel"}

RegionInv ==
  /\ first_map \in [Page -> Type]
  /\ \E n \in Nat : ReadUpTo(n) /\ (phase \in AfterLoop => n = Pages)
  /\ phase \in BeforeLoop => regions = <<>>

LEMMA NothingRead ==
  ASSUME regions = <<>>, first_map \in [Page -> Type]
  PROVE  ReadUpTo(0)
<1>1. Pages \in Nat BY LoaderAssumption
<1>2. 0 \in Starts(first_map) \cup {Pages}
  <2>1. CASE Pages = 0 BY <2>1
  <2>2. CASE Pages # 0
    <3>1. 0 \in Page BY <1>1, <2>2 DEF Page
    <3> QED BY <3>1 DEF Starts
  <2> QED BY <2>1, <2>2
<1>3. \A s \in Page : s \in Nat BY <1>1 DEF Page
<1>4. {s \in Starts(first_map) : s < 0} = {} BY <1>3 DEF Starts
<1>5. Ends = {} BY DEF Ends
<1>6. Cardinality({}) = 0 BY FS_EmptySet
<1>7. \A p \in Page : ~(p < 0) BY <1>3
<1>8. regions \in Seq(Region) /\ Len(regions) = 0 OBVIOUS
<1> HIDE DEF Page
<1>9. Len(regions) = Cardinality({s \in Starts(first_map) : s < 0})
  BY <1>4, <1>6, <1>8, Zenon
<1> QED BY <1>1, <1>2, <1>5, <1>7, <1>8, <1>9, SMTT(30) DEF ReadUpTo

LEMMA NothingReadNext ==
  (regions = <<>> /\ first_map \in [Page -> Type] => ReadUpTo(0))'
<1>1. regions = <<>> /\ first_map \in [Page -> Type] => ReadUpTo(0)
  BY NothingRead
<1> QED BY <1>1, PTL

LEMMA NextIs ==
  ASSUME NEW n, ReadUpTo(n)
  PROVE  NextDescriptor = n
<1>1. CASE regions = <<>> /\ n = 0 BY <1>1 DEF NextDescriptor
<1>2. CASE regions # <<>> \/ n # 0
  <2>1. n \in Ends /\ Ends \in SUBSET Nat /\ \A e \in Ends : e <= n
    BY <1>2 DEF ReadUpTo
  <2>2. Max(Ends) = n
    <3> HIDE DEF Ends
    <3> QED BY <2>1, MaxFacts
  <2>3. regions # <<>> BY <2>1 DEF Ends
  <2> QED BY <2>2, <2>3 DEF NextDescriptor, Ends
<1> QED BY <1>1, <1>2

(* The descriptor that starts at first ends where the next one starts, and *)
(* its pages have one type.                                                *)
LEMMA DescriptorFacts ==
  ASSUME first_map \in [Page -> Type], NEW first \in Starts(first_map),
         NEW e, e = first + RegionOf(first).len
  PROVE  /\ e \in Nat /\ first \in Nat /\ first < e /\ e <= Pages
         /\ RegionOf(first).len \in Nat
         /\ e \in Starts(first_map) \cup {Pages}
         /\ \A s \in Starts(first_map) : s <= first \/ e <= s
         /\ \A p \in first .. e - 1 :
              p \in Page /\ first_map[p] = first_map[first]
<1>1. Pages \in Nat /\ first \in Nat /\ first < Pages
  BY LoaderAssumption, SMTT(30) DEF Starts, Page
<1> DEFINE after == {p \in Starts(first_map) : p > first}
           m == IF after = {} THEN Pages ELSE Min(after)
<1>2. /\ m \in Nat /\ first < m /\ m <= Pages
      /\ m \in Starts(first_map) \cup {Pages}
      /\ \A s \in Starts(first_map) : s <= first \/ m <= s
  <2>0. \A s \in Starts(first_map) : s \in Nat /\ s < Pages
    BY <1>1 DEF Starts, Page
  <2>1. CASE after = {}
    BY <1>1, <2>0, <2>1
  <2>2. CASE after # {}
    <3>1. after \in SUBSET Nat BY <2>0
    <3>2. PICK x \in after : \A y \in after : x <= y
      <4> HIDE DEF after
      <4> QED BY <2>2, <3>1, LeastNat
    <3>3. Min(after) = x
      <4> HIDE DEF after
      <4> QED BY <3>1, <3>2, MinFacts
    <3>4. m = x BY <2>2, <3>3
    <3> HIDE DEF m
    <3> QED BY <1>1, <2>0, <3>2, <3>4
  <2> QED BY <2>1, <2>2
<1>3. RegionOf(first).len = m - first BY DEF RegionOf
<1> HIDE DEF m
<1>4. e = m /\ RegionOf(first).len \in Nat BY <1>1, <1>2, <1>3
<1>5. ASSUME NEW p \in first .. e - 1 PROVE p \in Page
  BY <1>1, <1>2, <1>4 DEF Page
<1>6. ASSUME NEW p \in first .. e - 1, first_map[p] # first_map[first]
      PROVE  FALSE
  <2> DEFINE bad == {x \in first .. e - 1 : first_map[x] # first_map[first]}
  <2>1. bad \in SUBSET Nat /\ bad # {} BY <1>1, <1>2, <1>4, <1>6
  <2>2. PICK x \in bad : \A y \in bad : x <= y
    <3> HIDE DEF bad
    <3> QED BY <2>1, LeastNat
  <2>3. x \in Nat /\ first < x /\ x < m BY <1>1, <1>2, <1>4, <2>2, SMTT(30)
  <2>4. x - 1 \in first .. e - 1 /\ x - 1 \notin bad
    <3>1. x - 1 \in Nat /\ x - 1 \in first .. e - 1 BY <1>1, <1>2, <1>4, <2>3
    <3>2. x - 1 \notin bad
      <4> HIDE DEF bad
      <4> QED BY <2>2, <2>3, <3>1
    <3> QED BY <3>1, <3>2
  <2>5. first_map[x] # first_map[x - 1] BY <2>2, <2>4
  <2>6. x \in Page BY <1>5, <2>2
  <2>7. x \in Starts(first_map) BY <2>5, <2>6 DEF Starts
  <2> QED BY <1>1, <1>2, <2>3, <2>7
<1> QED BY <1>1, <1>2, <1>4, <1>5, <1>6, SMTT(30)

LEMMA AppendFacts ==
  ASSUME NEW S, NEW s \in Seq(S), NEW x \in S
  PROVE  /\ Append(s, x) \in Seq(S) /\ Len(s) + 1 \in Nat
         /\ Len(Append(s, x)) = Len(s) + 1
         /\ DOMAIN Append(s, x) = DOMAIN s \cup {Len(s) + 1}
         /\ Append(s, x)[Len(s) + 1] = x
         /\ \A i \in DOMAIN s : Append(s, x)[i] = s[i]
OBVIOUS

LEMMA PushKeeps ==
  ASSUME NEW n, ReadUpTo(n), n # Pages, first_map \in [Page -> Type],
         first_map' = first_map, regions' = Append(regions, RegionOf(n))
  PROVE  \E e \in Nat : ReadUpTo(e)'
<1>1. n \in Starts(first_map) /\ n \in Nat BY DEF ReadUpTo
<1>r. PICK r : r = RegionOf(n) OBVIOUS
<1>e. PICK e : e = n + r.len OBVIOUS
<1>k. PICK k : k = Len(regions) + 1 OBVIOUS
<1>2. /\ e \in Nat /\ n < e /\ e <= Pages /\ r.len \in Nat
      /\ e \in Starts(first_map) \cup {Pages}
      /\ \A s \in Starts(first_map) : s <= n \/ e <= s
      /\ \A p \in n .. e - 1 : p \in Page /\ first_map[p] = first_map[n]
  BY <1>1, <1>r, <1>e, DescriptorFacts, SMTT(30)
<1>3. /\ r.base = n
      /\ r.typ = IF first_map[n] \in {"BootCode", "Conventional"}
                   THEN "Usable" ELSE "Reserved"
      /\ r \in Region
  <2>1. /\ r.base = n
        /\ r.typ = IF first_map[n] \in {"BootCode", "Conventional"}
                     THEN "Usable" ELSE "Reserved"
    BY <1>r DEF RegionOf
  <2>2. r = [base |-> r.base, len |-> r.len, typ |-> r.typ] BY <1>r DEF RegionOf
  <2> QED BY <1>1, <1>2, <2>1, <2>2, SMTT(30) DEF Region
<1>4. /\ regions \in Seq(Region) /\ regions' = Append(regions, r)
      /\ \A x \in Ends : x \in Nat /\ x <= n
      /\ Len(regions) = Cardinality({s \in Starts(first_map) : s < n})
      /\ \A p \in Page : p < n => \E i \in DOMAIN regions : Covers(i, p)
  BY <1>r DEF ReadUpTo
<1>5. /\ regions' \in Seq(Region) /\ k \in Nat /\ Len(regions') = k
      /\ DOMAIN regions' = DOMAIN regions \cup {k}
      /\ regions'[k] = r /\ \A i \in DOMAIN regions : regions'[i] = regions[i]
  <2> DEFINE a == Append(regions, r)
  <2>1. /\ a \in Seq(Region) /\ k \in Nat /\ Len(a) = k
        /\ DOMAIN a = DOMAIN regions \cup {k}
        /\ a[k] = r /\ \A i \in DOMAIN regions : a[i] = regions[i]
    <3>1. regions \in Seq(Region) /\ r \in Region BY <1>3, <1>4
    <3>2. /\ Append(regions, r) \in Seq(Region) /\ Len(regions) + 1 \in Nat
          /\ Len(Append(regions, r)) = Len(regions) + 1
          /\ DOMAIN Append(regions, r) = DOMAIN regions \cup {Len(regions) + 1}
          /\ Append(regions, r)[Len(regions) + 1] = r
          /\ \A i \in DOMAIN regions : Append(regions, r)[i] = regions[i]
      BY <3>1, AppendFacts
    <3> QED BY <1>k, <3>2, Zenon
  <2>2. regions' = a BY <1>4
  <2> HIDE DEF a
  <2> QED BY <2>1, <2>2, Zenon
<1>6. e = r.base + r.len BY <1>3, <1>e, SMTT(30)
<1>7. Ends' = Ends \cup {e}
  BY <1>5, <1>6 DEF Ends
<1>8. e \in Ends' /\ \A x \in Ends' : x \in Nat /\ x <= e
  BY <1>1, <1>2, <1>4, <1>7, SMTT(30)
<1>9. Len(regions') = Cardinality({s \in Starts(first_map) : s < e})
  <2> DEFINE S == {s \in Starts(first_map) : s < n}
  <2>0. \A s \in Starts(first_map) : s \in Nat BY LoaderAssumption DEF Starts, Page
  <2>1. {s \in Starts(first_map) : s < e} = S \cup {n}
    <3>1. \A s \in Starts(first_map) : s < e <=> s < n \/ s = n
      BY <1>1, <1>2, <2>0
    <3> QED BY <1>1, <3>1, Zenon
  <2>2. n \notin S BY <1>1
  <2>3. IsFiniteSet(S)
    <3>1. S \in SUBSET Starts(first_map) OBVIOUS
    <3> HIDE DEF S
    <3> QED BY <3>1, StartsFinite, FS_Subset
  <2> HIDE DEF S
  <2>4. Cardinality(S \cup {n}) = Cardinality(S) + 1
    BY <2>2, <2>3, FS_AddElement, SMTT(30)
  <2> QED BY <1>4, <1>5, <2>1, <2>4, <1>k, Zenon DEF S
<1>10. ASSUME NEW p \in Page, p < e PROVE \E i \in DOMAIN regions' : Covers(i, p)'
  <2>0. p \in Nat BY LoaderAssumption DEF Page
  <2>1. CASE p < n
    <3>1. PICK i \in DOMAIN regions : Covers(i, p) BY <1>4, <2>1
    <3>2. Covers(i, p)' BY <1>5, <3>1 DEF Covers
    <3> QED BY <1>5, <3>2
  <2>2. CASE ~(p < n)
    <3>1. p \in n .. e - 1 BY <1>1, <1>2, <1>10, <2>0, <2>2, SMTT(30)
    <3>2. p \in regions'[k].base .. regions'[k].base + regions'[k].len - 1
      <4>1. p \in r.base .. r.base + r.len - 1
        BY <1>1, <1>2, <1>3, <1>6, <3>1, SMTT(30)
      <4> QED BY <1>5, <4>1
    <3>3. (regions'[k].typ = "Usable")
            <=> first_map'[p] \in {"BootCode", "Conventional"}
      BY <1>2, <1>3, <1>5, <3>1, SMTT(30)
    <3> QED BY <1>5, <3>2, <3>3 DEF Covers
  <2> QED BY <2>1, <2>2
<1>11. ReadUpTo(e)'
  <2>1. Starts(first_map)' = Starts(first_map) BY DEF Starts
  <2>2. \A p \in Page : p < e => \E i \in DOMAIN regions' : Covers(i, p)'
    BY <1>10
  <2> QED BY <1>2, <1>5, <1>8, <1>9, <2>1, <2>2, SMTT(30) DEF ReadUpTo
<1> QED BY <1>2, <1>11

(* A step that reads no descriptor.                                        *)
LEMMA RegionsElsewhere ==
  ASSUME RegionInv, regions' = regions, first_map' = first_map,
         phase' \in AfterLoop => phase \in AfterLoop,
         phase' \in BeforeLoop => phase \in BeforeLoop
  PROVE  RegionInv'
<1>1. \A n : ReadUpTo(n)' <=> ReadUpTo(n)
  BY SMTT(30) DEF ReadUpTo, Starts, Ends, Covers
<1> QED BY <1>1 DEF RegionInv

LEMMA RegionStep ==
  ASSUME RegionInv, OwnerInv, [Next]_vars
  PROVE  RegionInv'
<1> USE DEF Goto, Panic, mapVars, BeforeLoop, AfterLoop
<1>1. CASE GetMemoryMapSize BY <1>1, RegionsElsewhere DEF GetMemoryMapSize
<1>2. CASE MapBuffer BY <1>2, RegionsElsewhere DEF MapBuffer, Allocate
<1>3. CASE GetMemoryMap /\ phase = "map1" /\ first_map' = type
  <2>1. regions = <<>> /\ regions' = <<>> /\ phase' \in {"image_base", "panic"}
    BY <1>3 DEF GetMemoryMap, RegionInv
  <2>2. first_map' \in [Page -> Type] BY <1>3 DEF OwnerInv
  <2>3. ReadUpTo(0)'
    BY <2>1, <2>2, NothingReadNext, SMTT(30)
  <2> QED BY <2>1, <2>2, <2>3, SMTT(30) DEF RegionInv
<1>4. CASE GetMemoryMap /\ ~(phase = "map1" /\ first_map' = type)
  BY <1>4, RegionsElsewhere, SMTT(30) DEF GetMemoryMap
<1>5. CASE GetImageBase \/ ReadKernelFile \/ ExitBootServices
  BY <1>5, RegionsElsewhere, SMTT(30) DEF GetImageBase, ReadKernelFile, ExitBootServices
<1>6. CASE OpenKernelFile
  BY <1>6, RegionsElsewhere DEF OpenKernelFile, Allocate
<1>7. CASE InitEarlyPaging
  BY <1>7, RegionsElsewhere, Zenon DEF InitEarlyPaging, Allocate
<1>8. CASE AllocateKernelPages
  BY <1>8, RegionsElsewhere DEF AllocateKernelPages
<1>9. CASE LoadSegment \/ LoadReturns
  BY <1>9, RegionsElsewhere DEF LoadSegment, LoadReturns
<1>10. CASE AllocateStackAndHeap
  BY <1>10, RegionsElsewhere DEF AllocateStackAndHeap, Allocate
<1>11. CASE PushRegion
  <2>1. PICK n \in Nat : ReadUpTo(n) BY DEF RegionInv
  <2>2. NextDescriptor = n BY <2>1, NextIs
  <2>3. first_map' = first_map /\ phase = "regions" BY <1>11 DEF PushRegion
  <2>4. CASE n = Pages
    <3>1. regions' = regions /\ phase' = "size2"
      BY <1>11, <2>2, <2>4, SMTT(30) DEF PushRegion
    <3>2. ReadUpTo(n)'
      BY <2>1, <2>3, <3>1 DEF ReadUpTo, Starts, Ends, Covers
    <3> QED BY <2>3, <2>4, <3>1, <3>2, SMTT(30) DEF RegionInv
  <2>5. CASE n # Pages /\ regions' = regions /\ phase' = "panic"
    BY <2>3, <2>5, RegionsElsewhere, SMTT(30)
  <2>6. CASE n # Pages /\ regions' = Append(regions, RegionOf(n)) /\ phase' = phase
    <3>1. \E e \in Nat : ReadUpTo(e)'
      BY <2>1, <2>3, <2>6, PushKeeps, SMTT(30) DEF RegionInv
    <3> QED BY <2>3, <2>6, <3>1, SMTT(30) DEF RegionInv
  <2> QED BY <1>11, <2>2, <2>4, <2>5, <2>6, SMTT(30) DEF PushRegion
<1>12. CASE FirmwareAllocates \/ Ended \/ UNCHANGED vars
  BY <1>12, RegionsElsewhere, SMTT(30) DEF FirmwareAllocates, Ended, vars
<1> QED
  BY <1>1, <1>2, <1>3, <1>4, <1>5, <1>6, <1>7, <1>8, <1>9, <1>10, <1>11, <1>12, SMTT(30)
     DEF Next, Main, GetMemoryMap

(* Once the loop of main over the first map has ended, the array holds     *)
(* exactly one region per descriptor, and every page is in a region whose  *)
(* kind is that of the page: nothing was dropped, whatever the length of   *)
(* the map and of the array.                                               *)
THEOREM RegionsAlwaysComplete == Spec => []RegionsComplete
<1>1. Init => RegionInv
  <2> SUFFICES ASSUME Init PROVE RegionInv OBVIOUS
  <2>1. regions = <<>> /\ first_map \in [Page -> Type] /\ phase = "size1"
    BY LoaderAssumption DEF Init
  <2>2. ReadUpTo(0) BY <2>1, NothingRead, SMTT(30)
  <2> QED BY <2>1, <2>2, SMTT(30) DEF RegionInv, AfterLoop
<1>2. RegionInv /\ OwnerInv /\ [Next]_vars => RegionInv' BY RegionStep
<1>3. RegionInv => RegionsComplete
  <2> SUFFICES ASSUME RegionInv, phase \in AfterLoop
               PROVE  /\ Len(regions) = Descriptors(first_map)
                      /\ \A p \in Page : \E i \in DOMAIN regions : Covers(i, p)
    BY DEF RegionsComplete, AfterLoop, Covers
  <2>1. ReadUpTo(Pages) BY DEF RegionInv
  <2>2. \A p \in Page : p < Pages /\ p \in Nat BY LoaderAssumption DEF Page
  <2>3. {s \in Starts(first_map) : s < Pages} = Starts(first_map)
    BY <2>2 DEF Starts
  <2> QED BY <2>1, <2>2, <2>3, Zenon DEF ReadUpTo, Descriptors
<1> QED BY <1>1, <1>2, <1>3, OwnerInvariant, PTL DEF Spec

-----------------------------------------------------------------------------
(* What the kernel finds at its virtual addresses                          *)

Loaded == {"stack", "heap", "regions"} \cup AfterLoop

(* The segments copied so far are intact.                                  *)
ImageInv ==
  /\ DOMAIN image = Byte
  /\ \A s \in 1 .. loaded : \A i \in 0 .. elf[s].p_memsz - 1 :
       image[elf[s].p_paddr + i] = Content(s, i)
  /\ phase \in Loaded => loaded = Len(elf)

LEMMA InMemory ==
  ASSUME elf \in Kernels, KernelRange \in SUBSET Page,
         NEW s \in DOMAIN elf, NEW b \in Written(s)
  PROVE  b \in Byte
<1>1. PageOf(b) \in Page BY ImageFits, SMTT(30)
<1>2. b \in Nat BY HeaderFacts, SMTT(30) DEF Written
<1>3. PAGE_SIZE \in Nat \ {0} /\ Pages \in Nat BY LoaderAssumption
<1> DEFINE q == b \div PAGE_SIZE
<1>4. q \in Nat /\ b < PAGE_SIZE * q + PAGE_SIZE BY <1>2, <1>3, DivFacts
<1>5. q <= Pages - 1 BY <1>1, <1>3 DEF Page, PageOf
<1> HIDE DEF q
<1>6. PAGE_SIZE * (q + 1) <= PAGE_SIZE * Pages BY <1>3, <1>4, <1>5
<1>7. PAGE_SIZE * (q + 1) = PAGE_SIZE * q + PAGE_SIZE BY <1>3, <1>4
<1>8. Pages * PAGE_SIZE = PAGE_SIZE * Pages /\ Pages * PAGE_SIZE \in Nat BY <1>3
<1>9. PAGE_SIZE * q \in Nat BY <1>3, <1>4
<1> QED BY <1>2, <1>3, <1>4, <1>6, <1>7, <1>8, <1>9, SMTT(30) DEF Byte

LEMMA ImageStays ==
  ASSUME ImageInv, elf' = elf, loaded' = loaded, image' = image,
         phase' \in Loaded => phase \in Loaded \/ loaded = Len(elf)
  PROVE  ImageInv'
BY SMTT(30) DEF ImageInv, Content

LEMMA ImageLoads ==
  ASSUME ImageInv, OwnerInv, LoadSegment
  PROVE  ImageInv'
<1> DEFINE k == loaded + 1
<1>1. /\ phase = "load" /\ phase' = "load" /\ loaded < Len(elf)
      /\ loaded' = k /\ elf' = elf
      /\ image' = [b \in Byte |-> IF b \in Written(loaded')
                                  THEN Content(loaded', b - elf[loaded'].p_paddr)
                                  ELSE image[b]]
  BY SMTT(30) DEF LoadSegment
<1>2. /\ elf \in Kernels /\ loaded \in Nat /\ KernelRange \in SUBSET Page
      /\ elf \in Seq(ProgramHeader) /\ Len(elf) \in Nat
  BY <1>1, LoaderAssumption, SMTT(30) DEF OwnerInv
<1>3. k \in DOMAIN elf /\ 1 .. loaded \in SUBSET DOMAIN elf BY <1>1, <1>2, SMTT(30)
<1> HIDE DEF KernelRange, Byte, Page, k
<1>4. ASSUME NEW s \in 1 .. k, NEW i \in 0 .. elf[s].p_memsz - 1
      PROVE  image'[elf[s].p_paddr + i] = Content(s, i)
  <2> DEFINE b == elf[s].p_paddr + i
  <2>1. s \in DOMAIN elf BY <1>2, <1>3, SMTT(30) DEF k
  <2>2. /\ elf[s].p_paddr \in Nat /\ elf[s].p_memsz \in Nat /\ i \in Nat
        /\ elf[k].p_paddr \in Nat /\ elf[k].p_memsz \in Nat
    BY <1>2, <1>3, <2>1, HeaderFacts, SMTT(30)
  <2>3. b \in Written(s) BY <2>2, SMTT(30) DEF Written
  <2>4. b \in Byte BY <1>2, <2>1, <2>3, InMemory, SMTT(30)
  <2>5. image'[b] = IF b \in Written(k) THEN Content(k, b - elf[k].p_paddr)
                    ELSE image[b]
    BY <1>1, <2>4, SMTT(30)
  <2>6. CASE s = k
    <3>1. b \in Written(k) /\ b - elf[k].p_paddr = i BY <2>2, <2>3, <2>6, SMTT(30)
    <3> QED BY <2>5, <2>6, <3>1, SMTT(30)
  <2>7. CASE s # k
    <3>1. s \in 1 .. loaded BY <1>2, <2>7, SMTT(30) DEF k
    <3>2. \/ elf[s].p_paddr + elf[s].p_memsz <= elf[k].p_paddr
          \/ elf[k].p_paddr + elf[k].p_memsz <= elf[s].p_paddr
      BY <1>2, <1>3, <2>1, <2>7, LoaderAssumption, SMTT(30)
    <3>3. b \notin Written(k) BY <2>2, <3>2, SMTT(30) DEF Written
    <3> QED BY <2>5, <3>1, <3>3 DEF ImageInv
  <2> QED BY <2>6, <2>7, SMTT(30)
<1>5. DOMAIN image' = Byte BY <1>1, SMTT(30)
<1>6. \A s, i : Content(s, i)' = Content(s, i) BY <1>1 DEF Content
<1> QED BY <1>1, <1>4, <1>5, <1>6, SMTT(30) DEF ImageInv, Loaded, AfterLoop, Byte

LEMMA ImageStep ==
  ASSUME ImageInv, OwnerInv, [Next]_vars
  PROVE  ImageInv'
<1> USE DEF Goto, Panic, kernelVars, Loaded, AfterLoop
<1>1. CASE GetMemoryMapSize BY <1>1, ImageStays, SMTT(30) DEF GetMemoryMapSize
<1>2. CASE MapBuffer BY <1>2, ImageStays DEF MapBuffer, Allocate
<1>3. CASE GetMemoryMap BY <1>3, ImageStays DEF GetMemoryMap
<1>4. CASE GetImageBase \/ ReadKernelFile \/ ExitBootServices
  BY <1>4, ImageStays DEF GetImageBase, ReadKernelFile, ExitBootServices
<1>5. CASE OpenKernelFile BY <1>5, ImageStays DEF OpenKernelFile, Allocate
<1>6. CASE InitEarlyPaging BY <1>6, ImageStays, Zenon DEF InitEarlyPaging, Allocate
<1>7. CASE AllocateKernelPages BY <1>7, ImageStays DEF AllocateKernelPages
<1>8. CASE LoadSegment BY <1>8, ImageLoads
<1>9. CASE LoadReturns BY <1>9, ImageStays DEF LoadReturns
<1>10. CASE AllocateStackAndHeap
  BY <1>10, ImageStays DEF AllocateStackAndHeap, Allocate
<1>11. CASE PushRegion BY <1>11, ImageStays, SMTT(30) DEF PushRegion
<1>12. CASE FirmwareAllocates \/ Ended \/ UNCHANGED vars
  BY <1>12, ImageStays DEF FirmwareAllocates, Ended, vars
<1> QED
  BY <1>1, <1>2, <1>3, <1>4, <1>5, <1>6, <1>7, <1>8, <1>9, <1>10, <1>11, <1>12, SMTT(30)
     DEF Next, Main

(* Every segment of every kernel file is where its virtual address leads   *)
(* through the linear mapping, inside the mapped pages: the bytes of the   *)
(* file and then zeros.                                                    *)
THEOREM KernelAlwaysSeesImage == Spec => []KernelSeesImage
<1>1. Init => ImageInv
  <2> SUFFICES ASSUME Init PROVE ImageInv OBVIOUS
  <2> QED BY DEF Init, ImageInv, Loaded, AfterLoop
<1>2. ImageInv /\ OwnerInv /\ [Next]_vars => ImageInv' BY ImageStep
<1>3. ImageInv /\ OwnerInv => KernelSeesImage
  <2> SUFFICES ASSUME ImageInv, OwnerInv, phase = "kernel",
                      NEW s \in DOMAIN elf, NEW i \in 0 .. elf[s].p_memsz - 1
               PROVE  LET offset == elf[s].p_vaddr + i - KernelStartVirt
                      IN  /\ offset < KernelPages * PAGE_SIZE
                          /\ image[KernelStartPhys + offset] = Content(s, i)
    BY SMTT(30) DEF KernelSeesImage
  <2> DEFINE vs == KernelStartVirt
             ps == KernelStartPhys
             ve == KernelEndVirt
             va == elf[s].p_vaddr
             pa == elf[s].p_paddr
             ms == elf[s].p_memsz
             n == (ve - vs) + PAGE_SIZE - 1
  <2>1. elf \in Kernels /\ PAGE_SIZE \in Nat \ {0}
    BY LoaderAssumption, SMTT(30) DEF OwnerInv
  <2>2. /\ vs \in Nat /\ ps \in Nat /\ ve \in Nat /\ vs <= ve
        /\ vs + pa = va + ps /\ vs <= va /\ va + ms <= ve
    BY <2>1, KernelBounds
  <2>3. va \in Nat /\ pa \in Nat /\ ms \in Nat /\ i \in Nat /\ i < ms
    BY <2>1, HeaderFacts, SMTT(30)
  <2>4. s \in 1 .. loaded
    <3>1. loaded = Len(elf) BY DEF ImageInv, Loaded, AfterLoop
    <3> QED BY <2>1, <3>1, LoaderAssumption, SMTT(30)
  <2>5. image[pa + i] = Content(s, i) BY <2>4 DEF ImageInv
  <2>6. KernelPages = n \div PAGE_SIZE BY DEF KernelPages
  <2> HIDE DEF vs, ps, ve, va, pa, ms
  <2>7. ps + (va + i - vs) = pa + i BY <2>2, <2>3
  <2>8. n \in Nat BY <2>1, <2>2
  <2>9. va + i - vs < KernelPages * PAGE_SIZE
    <3> DEFINE q == n \div PAGE_SIZE
    <3>1. q \in Nat /\ n < PAGE_SIZE * q + PAGE_SIZE BY <2>1, <2>8, DivFacts
    <3> HIDE DEF q
    <3>2. q * PAGE_SIZE = PAGE_SIZE * q /\ q * PAGE_SIZE \in Nat BY <2>1, <3>1
    <3> DEFINE z == q * PAGE_SIZE
    <3>3. z \in Nat /\ n < z + PAGE_SIZE BY <3>1, <3>2
    <3> HIDE DEF z
    <3>4. va + i - vs < z BY <2>1, <2>2, <2>3, <3>3
    <3> QED BY <2>6, <3>4, SMTT(30) DEF q, z
  <2> QED BY <2>5, <2>7, <2>9, SMTT(30) DEF vs, ps, va, pa
<1> QED BY <1>1, <1>2, <1>3, OwnerInvariant, PTL DEF Spec
===============================================================================
