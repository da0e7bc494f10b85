-------------------------- MODULE AllocationProofs --------------------------
(***************************************************************************)
(* Proofs about LinerAllocator, for every usize, every heap and every set  *)
(* of layouts, and about TaskStack, for every size of the stacks and the   *)
(* blocks that StackAssumption allows.                                     *)
(***************************************************************************)
EXTENDS TaskStack, TLAPS

(* The cursor is inside the heap once there is one, and nothing was        *)
(* granted before.                                                         *)
IInv ==
  /\ TypeOK
  /\ BlocksFit
  /\ BlocksDisjoint
  /\ PanicNearTop
  /\ status = "new" => start = 0 /\ end = 0 /\ next = 0
  /\ status = "ready" => 1 <= start
  /\ start <= next /\ next <= end

(* Taking off the remainder leaves a multiple, and no more than the        *)
(* remainder is lost: the rounding is to the next multiple, never past it. *)
LEMMA AlignUpFacts ==
  ASSUME NEW x \in Nat, NEW a \in Nat \ {0}
  PROVE  /\ AlignUp(x, a) \in Nat
         /\ x <= AlignUp(x, a)
         /\ AlignUp(x, a) < x + a
         /\ AlignUp(x, a) % a = 0
<1> DEFINE sum == x + a - 1
           q == sum \div a
<1>1. sum \in Nat OBVIOUS
<1>2. sum % a \in 0 .. a - 1 BY <1>1
<1>3. q \in Int /\ sum = a * q + (sum % a) BY <1>1
<1>4. sum - (sum % a) = a * q BY <1>1, <1>2, <1>3
<1>5. (a * q) % a = 0 BY <1>3
<1>6. AlignUp(x, a) = sum - (sum % a) BY DEF AlignUp
<1> QED BY <1>1, <1>2, <1>4, <1>5, <1>6

(* No multiple lies between x and the rounded address.                     *)
LEMMA AlignUpLowest ==
  ASSUME NEW x \in Nat, NEW a \in Nat \ {0},
         NEW m \in Nat, x <= m, m % a = 0
  PROVE  AlignUp(x, a) <= m
<1> DEFINE sum == x + a - 1
           q == sum \div a
           k == m \div a
<1>1. sum \in Nat /\ sum % a \in 0 .. a - 1 OBVIOUS
<1>2. q \in Int /\ AlignUp(x, a) = a * q BY <1>1 DEF AlignUp
<1>3. k \in Int /\ m = a * k OBVIOUS
<1>a. AlignUp(x, a) \in Nat /\ AlignUp(x, a) < x + a BY AlignUpFacts
<1>4. a * q < a * k + a
  <2> HIDE DEF q, k
  <2> QED BY <1>a, <1>2, <1>3
<1>5. q <= k
  <2> HIDE DEF q, k
  <2>1. SUFFICES ASSUME k + 1 <= q PROVE FALSE BY <1>2, <1>3
  <2>2. a * (k + 1) <= a * q BY <2>1, <1>2, <1>3
  <2> QED BY <2>2, <1>2, <1>3, <1>4
<1> HIDE DEF q, k
<1>6. a * q <= a * k BY <1>2, <1>3, <1>5
<1> QED BY <1>2, <1>3, <1>6

(* What a successful alloc adds, from the bound it has checked.            *)
LEMMA GrantFacts ==
  ASSUME IInv, status # "panic", NEW l \in Layouts,
         AlignUp(next, l.align) + l.size <= end
  PROVE  LET base == AlignUp(next, l.align)
         IN  /\ next <= base /\ base % l.align = 0
             /\ base \in 1 .. MAX /\ base + l.size \in 1 .. MAX
             /\ start >= 1
<1>1. l.size \in 1 .. MAX /\ l.align \in 1 .. MAX /\ MAX \in Nat
  BY AllocatorAssumption
<1>2. next \in Nat /\ end \in 0 .. MAX /\ start \in 0 .. MAX /\ start <= next
  BY <1>1 DEF IInv, TypeOK
<1>3. /\ AlignUp(next, l.align) \in Nat
      /\ next <= AlignUp(next, l.align)
      /\ AlignUp(next, l.align) % l.align = 0
  <2>1. l.align \in Nat \ {0} BY <1>1
  <2> QED BY <2>1, <1>2, AlignUpFacts
<1>4. 1 <= end BY <1>1, <1>2, <1>3
<1>5. status # "new" BY <1>4 DEF IInv
<1>6. status = "ready" BY <1>5 DEF IInv, TypeOK
<1>7. 1 <= start BY <1>6 DEF IInv
<1> HIDE DEF IInv
<1> QED BY <1>1, <1>2, <1>3, <1>7

(* init either panics or lays the cursor at the start of an empty heap.    *)
LEMMA InitAllocatorStep ==
  ASSUME IInv, NEW h \in Heaps, InitAllocator(h)
  PROVE  IInv'
<1>1. MAX \in Nat /\ h.start \in 1 .. MAX /\ h.size \in 0 .. MAX
  BY AllocatorAssumption
<1>2. status = "new" /\ start = 0 /\ end = 0 /\ next = 0
      /\ granted' = granted /\ live' = live /\ result' = result
  BY DEF IInv, InitAllocator
<1>3. granted = {}
  BY <1>1, <1>2 DEF IInv, TypeOK, BlocksFit
<1>4. CASE h.start + h.size > MAX
  BY <1>1, <1>2, <1>3, <1>4
     DEF IInv, InitAllocator, TypeOK, BlocksFit, BlocksDisjoint, PanicNearTop,
         fields
<1>5. CASE ~(h.start + h.size > MAX)
  BY <1>1, <1>2, <1>3, <1>5
     DEF IInv, InitAllocator, TypeOK, BlocksFit, BlocksDisjoint, PanicNearTop
<1> QED BY <1>4, <1>5

(* The new block starts at or above the cursor, and every earlier block    *)
(* ends at or below it.                                                    *)
LEMMA AllocBlockStep ==
  ASSUME IInv, status # "panic", NEW l \in Layouts,
         AlignUp(next, l.align) + l.size <= end,
         AllocBlock([base |-> AlignUp(next, l.align), size |-> l.size,
                     align |-> l.align])
  PROVE  IInv'
<1> DEFINE base == AlignUp(next, l.align)
           b == [base |-> base, size |-> l.size, align |-> l.align]
<1>1. /\ next <= base /\ base % l.align = 0
      /\ base \in 1 .. MAX /\ base + l.size \in 1 .. MAX
      /\ start >= 1
  BY GrantFacts
<1>2. l.size \in 1 .. MAX /\ l.align \in 1 .. MAX /\ MAX \in Nat
  BY AllocatorAssumption
<1>3. /\ next' = base + l.size /\ result' = base
      /\ granted' = granted \cup {b} /\ live' = live \cup {b}
      /\ start' = start /\ end' = end /\ status' = status
  BY DEF AllocBlock
<1>4. base + l.size <= end OBVIOUS
<1>5. b.base = base /\ b.size = l.size /\ b.align = l.align
      /\ b \in [base : 1 .. MAX, size : 1 .. MAX, align : 1 .. MAX]
  BY <1>1, <1>2
<1> HIDE DEF base, b
<1>6. TypeOK' BY <1>1, <1>2, <1>3, <1>5 DEF IInv, TypeOK
<1>7. \A c \in granted : c.base \in 1 .. MAX /\ c.size \in 1 .. MAX
                         /\ c.base + c.size <= next /\ start <= c.base
                         /\ c.base % c.align = 0
  BY DEF IInv, TypeOK, BlocksFit
<1>8. next \in 0 .. MAX /\ start \in 0 .. MAX /\ end \in 0 .. MAX
      /\ start <= next
  BY DEF IInv, TypeOK
<1>9. BlocksFit'
  <2> SUFFICES ASSUME NEW c \in granted'
               PROVE  /\ start' <= c.base /\ c.base + c.size <= next'
                      /\ next' <= end' /\ c.base % c.align = 0
    BY DEF BlocksFit
  <2>1. CASE c = b BY <2>1, <1>1, <1>2, <1>3, <1>4, <1>5, <1>8
  <2>2. CASE c \in granted BY <2>2, <1>1, <1>2, <1>3, <1>4, <1>7, <1>8
  <2> QED BY <2>1, <2>2, <1>3
<1>10. BlocksDisjoint'
  <2> SUFFICES ASSUME NEW c \in granted', NEW d \in granted', c # d
               PROVE  ~Overlap(c, d)
    BY DEF BlocksDisjoint, Overlap
  <2>1. CASE c \in granted /\ d \in granted
    BY <2>1 DEF IInv, BlocksDisjoint
  <2>2. CASE c = b /\ d \in granted
    BY <2>2, <1>1, <1>2, <1>5, <1>7, <1>8 DEF Overlap
  <2>3. CASE c \in granted /\ d = b
    BY <2>3, <1>1, <1>2, <1>5, <1>7, <1>8 DEF Overlap
  <2> QED BY <2>1, <2>2, <2>3, <1>3
<1>11. status' # "panic" /\ (status' = "ready" => 1 <= start')
       /\ (status' = "new" => start' = 0 /\ end' = 0 /\ next' = 0)
       /\ start' <= next' /\ next' <= end'
  BY <1>1, <1>2, <1>3, <1>4, <1>8 DEF IInv
<1> QED BY <1>6, <1>9, <1>10, <1>11 DEF IInv, PanicNearTop

(* alloc: the panic needs the cursor, hence the end, to be within one      *)
(* alignment of the top.                                                   *)
LEMMA AllocStep ==
  ASSUME IInv, NEW l \in Layouts, Alloc(l)
  PROVE  IInv'
<1>1. l.size \in 1 .. MAX /\ l.align \in 1 .. MAX /\ MAX \in Nat
  BY AllocatorAssumption
<1>2. CASE next + l.align > MAX
  <2>1. status' = "panic" /\ UNCHANGED <<start, end, next, result, granted, live>>
    BY <1>2 DEF Alloc, fields
  <2>2. end + l.align > MAX
    BY <1>1, <1>2 DEF IInv, TypeOK
  <2> QED BY <2>1, <2>2
          DEF IInv, TypeOK, BlocksFit, BlocksDisjoint, Overlap, PanicNearTop
<1>3. CASE ~(next + l.align > MAX)
  <2>1. CASE AlignUp(next, l.align) + l.size > MAX
             \/ AlignUp(next, l.align) + l.size > end
    <3>1. UNCHANGED <<start, end, next, status, granted, live>> /\ result' = 0
      BY <1>3, <2>1 DEF Alloc, AllocNull, fields
    <3> QED BY <3>1, <1>1
            DEF IInv, TypeOK, BlocksFit, BlocksDisjoint, Overlap, PanicNearTop
  <2>2. CASE ~(AlignUp(next, l.align) + l.size > MAX
               \/ AlignUp(next, l.align) + l.size > end)
    <3>1. status # "panic"
          /\ AllocBlock([base |-> AlignUp(next, l.align), size |-> l.size,
                         align |-> l.align])
      BY <1>3, <2>2 DEF Alloc
    <3>2. AlignUp(next, l.align) \in Nat
      <4>1. next \in Nat /\ l.align \in Nat \ {0} BY <1>1 DEF IInv, TypeOK
      <4> QED BY <4>1, AlignUpFacts, Zenon
    <3>3. AlignUp(next, l.align) + l.size <= end
      BY <2>2, <3>2, <1>1 DEF IInv, TypeOK
    <3> QED BY <3>1, <3>3, AllocBlockStep
  <2> QED BY <2>1, <2>2
<1> QED BY <1>2, <1>3

(* dealloc touches nothing but the caller's claim.                         *)
LEMMA DeallocStep ==
  ASSUME IInv, NEW b \in live, Dealloc(b)
  PROVE  IInv'
BY DEF IInv, Dealloc, fields, TypeOK, BlocksFit, BlocksDisjoint, Overlap,
       PanicNearTop

(* The invariant of the allocator holds for ever.                          *)
THEOREM InductiveInvariant == Spec => []IInv
<1>1. New => IInv
  BY AllocatorAssumption
     DEF New, IInv, TypeOK, BlocksFit, BlocksDisjoint, PanicNearTop
<1>2. IInv /\ [Next]_vars => IInv'
  <2> SUFFICES ASSUME IInv, [Next]_vars PROVE IInv' OBVIOUS
  <2>1. CASE UNCHANGED vars
    BY <2>1 DEF vars, IInv, TypeOK, BlocksFit, BlocksDisjoint, Overlap,
                PanicNearTop
  <2>2. CASE Next
    BY <2>2, InitAllocatorStep, AllocStep, DeallocStep DEF Next
  <2> QED BY <2>1, <2>2
<1> QED BY <1>1, <1>2, PTL DEF Spec

(* The cursor and the bounds stay within usize, and no block is null.      *)
THEOREM AllocatorTypeCorrect == Spec => []TypeOK
<1>1. IInv => TypeOK BY DEF IInv
<1> QED BY <1>1, InductiveInvariant, PTL

(* No byte is ever part of two blocks that alloc returned.                 *)
THEOREM NoOverlap == Spec => []BlocksDisjoint
<1>1. IInv => BlocksDisjoint BY DEF IInv
<1> QED BY <1>1, InductiveInvariant, PTL

(* Every block is in the heap, below the cursor, and aligned as requested. *)
THEOREM BlocksAlwaysFit == Spec => []BlocksFit
<1>1. IInv => BlocksFit BY DEF IInv
<1> QED BY <1>1, InductiveInvariant, PTL

(* The allocator panics only for a heap at the top of the address space.   *)
THEOREM PanicsOnlyNearTop == Spec => []PanicNearTop
<1>1. IInv => PanicNearTop BY DEF IInv
<1> QED BY <1>1, InductiveInvariant, PTL

(* A successful alloc takes the lowest place there is, and a null means    *)
(* there is none.                                                          *)
LEMMA AllocLowest ==
  ASSUME IInv, NEW l \in Layouts, Alloc(l), status' # "panic"
  PROVE  IF Room(l) = {} THEN result' = 0
         ELSE result' \in Room(l) /\ \A a \in Room(l) : result' <= a
<1> DEFINE base == AlignUp(next, l.align)
<1>1. /\ l.size \in 1 .. MAX /\ l.align \in Nat \ {0} /\ MAX \in Nat
      /\ next \in Nat /\ end \in 0 .. MAX /\ next <= end
  BY AllocatorAssumption DEF IInv, TypeOK
<1>2. /\ base \in Nat /\ next <= base /\ base % l.align = 0
  BY <1>1, AlignUpFacts, Zenon
<1>3. \A a \in Room(l) : a \in Nat /\ base <= a /\ a + l.size <= end
  <2> SUFFICES ASSUME NEW a \in Room(l)
               PROVE  a \in Nat /\ base <= a /\ a + l.size <= end
    OBVIOUS
  <2>1. a \in Nat /\ next <= a /\ a % l.align = 0 /\ a + l.size <= end
    BY <1>1 DEF Room
  <2> QED BY <2>1, <1>1, AlignUpLowest
<1>4. ~(next + l.align > MAX) BY DEF Alloc
<1>5. CASE base + l.size > MAX \/ base + l.size > end
  <2>1. result' = 0 BY <1>4, <1>5 DEF Alloc, AllocNull
  <2> HIDE DEF base
  <2>2. Room(l) = {} BY <1>1, <1>2, <1>3, <1>5
  <2> QED BY <2>1, <2>2
<1>6. CASE ~(base + l.size > MAX \/ base + l.size > end)
  <2>1. result' = base BY <1>4, <1>6 DEF Alloc, AllocBlock
  <2> HIDE DEF base
  <2>2. base \in Room(l) BY <1>1, <1>2, <1>6 DEF Room
  <2> QED BY <2>1, <2>2, <1>3
<1> QED BY <1>5, <1>6

(* alloc loses no usable space to its mask or its checks.                  *)
THEOREM AllocAlwaysTakesLowest == Spec => AllocTakesLowest
<1>1. IInv /\ [Next]_vars =>
        [\A l \in Layouts :
           Alloc(l) /\ status' # "panic" =>
             IF Room(l) = {} THEN result' = 0
             ELSE result' \in Room(l) /\ \A a \in Room(l) : result' <= a]_vars
  BY AllocLowest
<1> QED BY <1>1, InductiveInvariant, PTL DEF Spec, AllocTakesLowest

(* A heap in use keeps its end, and its cursor never goes back.            *)
LEMMA CursorAdvances ==
  ASSUME IInv, [Next]_vars, status = "ready"
  PROVE  end' = end /\ next' \in Nat /\ next <= next'
<1>1. next \in Nat BY DEF IInv, TypeOK
<1>2. CASE UNCHANGED vars BY <1>1, <1>2 DEF vars
<1>3. CASE \E h \in Heaps : InitAllocator(h) BY <1>3 DEF InitAllocator
<1>4. CASE \E b \in live : Dealloc(b) BY <1>1, <1>4 DEF Dealloc, fields
<1>5. ASSUME NEW l \in Layouts, Alloc(l)
      PROVE  end' = end /\ next' \in Nat /\ next <= next'
  <2>1. l.size \in Nat /\ l.align \in Nat \ {0} BY AllocatorAssumption
  <2>2. AlignUp(next, l.align) \in Nat /\ next <= AlignUp(next, l.align)
    BY <1>1, <2>1, AlignUpFacts, Zenon
  <2>3. \/ end' = end /\ next' = next
        \/ end' = end /\ next' = AlignUp(next, l.align) + l.size
    BY <1>5 DEF Alloc, AllocNull, AllocBlock, fields
  <2> QED BY <2>1, <2>2, <2>3, <1>1
<1> QED BY <1>2, <1>3, <1>4, <1>5 DEF Next

(* A request that cannot be met can never be met again.                    *)
THEOREM FullForEver == Spec => FullStaysFull
<1>1. IInv /\ [Next]_vars =>
        [\A l \in Layouts :
           status = "ready" /\ Room(l) = {} => Room(l)' = {}]_vars
  <2> SUFFICES ASSUME IInv, [Next]_vars, NEW l \in Layouts,
                      status = "ready", Room(l) = {}
               PROVE  Room(l)' = {}
    OBVIOUS
  <2>1. end' = end /\ next' \in Nat /\ next <= next' BY CursorAdvances
  <2>2. next \in Nat /\ end \in Nat BY AllocatorAssumption DEF IInv, TypeOK
  <2> QED BY <2>1, <2>2 DEF Room
<1> QED BY <1>1, InductiveInvariant, PTL DEF Spec, FullStaysFull

(* Every step of the allocator is a step of the abstract heap, or none.    *)
LEMMA HeapStep ==
  ASSUME IInv, [Next]_vars
  PROVE  [Promise!Next]_<<start, end, live>>
<1>1. CASE UNCHANGED vars BY <1>1 DEF vars
<1>2. ASSUME NEW h \in Heaps, InitAllocator(h)
      PROVE  [Promise!Next]_<<start, end, live>>
  <2>1. MAX \in Nat /\ h.start \in 1 .. MAX /\ h.size \in 0 .. MAX
    BY AllocatorAssumption
  <2>2. CASE h.start + h.size > MAX
    BY <1>2, <2>2 DEF InitAllocator, fields
  <2>3. CASE ~(h.start + h.size > MAX)
    <3>1. start = end /\ start' = h.start /\ end' = h.start + h.size
          /\ live' = live
      BY <1>2, <2>3 DEF InitAllocator, IInv
    <3>2. h.start \in 0 .. MAX /\ h.start + h.size \in 0 .. MAX
          /\ h.start <= h.start + h.size
      BY <2>1, <2>3
    <3>3. Promise!Setup BY <3>1, <3>2 DEF Promise!Setup
    <3> QED BY <3>3 DEF Promise!Next
  <2> QED BY <2>2, <2>3
<1>3. ASSUME NEW l \in Layouts, Alloc(l)
      PROVE  [Promise!Next]_<<start, end, live>>
  <2> DEFINE base == AlignUp(next, l.align)
             b == [base |-> base, size |-> l.size, align |-> l.align]
  <2>1. \/ UNCHANGED <<start, end, live>>
        \/ status # "panic" /\ AllocBlock(b)
           /\ ~(base + l.size > MAX \/ base + l.size > end)
    BY <1>3 DEF Alloc, AllocNull, fields
  <2>2. CASE UNCHANGED <<start, end, live>> BY <2>2
  <2>3. CASE status # "panic" /\ AllocBlock(b)
             /\ ~(base + l.size > MAX \/ base + l.size > end)
    <3>1. l.size \in 1 .. MAX /\ l.align \in Nat \ {0} /\ MAX \in Nat
          /\ next \in Nat /\ end \in 0 .. MAX
      BY AllocatorAssumption DEF IInv, TypeOK
    <3>2. base \in Nat BY <3>1, AlignUpFacts, Zenon
    <3>3. base + l.size <= end
      <4> HIDE DEF base
      <4> QED BY <2>3, <3>1, <3>2
    <3>4. /\ next <= base /\ base % l.align = 0
          /\ base \in 1 .. MAX /\ base + l.size \in 1 .. MAX
      BY <2>3, <3>3, GrantFacts
    <3>5. start <= base
      <4> HIDE DEF base
      <4> QED BY <3>1, <3>2, <3>4 DEF IInv, TypeOK
    <3>6. start' = start /\ end' = end /\ live' = live \cup {b}
      BY <2>3 DEF AllocBlock
    <3>7. b.base = base /\ b.size = l.size /\ b.align = l.align OBVIOUS
    <3> HIDE DEF base
    <3>8. \A c \in live : ~Promise!Overlap(b, c)
      <4> SUFFICES ASSUME NEW c \in live PROVE ~(b.base < c.base + c.size)
        BY DEF Promise!Overlap
      <4>1. c.base \in 1 .. MAX /\ c.size \in 1 .. MAX
            /\ c.base + c.size <= next
        BY DEF IInv, TypeOK, BlocksFit
      <4> QED BY <4>1, <3>1, <3>2, <3>4, <3>7
    <3>9. Promise!Grant(b)
      <4> HIDE DEF b
      <4> QED BY <3>3, <3>4, <3>5, <3>6, <3>7, <3>8 DEF Promise!Grant
    <3>10. base \in 0 .. MAX BY <3>4
    <3> QED BY <3>9, <3>10 DEF Promise!Next
  <2> QED BY <2>1, <2>2, <2>3
<1>4. ASSUME NEW b \in live, Dealloc(b)
      PROVE  [Promise!Next]_<<start, end, live>>
  <2>1. Promise!Release(b) BY <1>4 DEF Dealloc, fields, Promise!Release
  <2> QED BY <2>1 DEF Promise!Next
<1> QED BY <1>1, <1>2, <1>3, <1>4 DEF Next

(* LinerAllocator keeps the promise of module Heap.                        *)
THEOREM KeepsPromise == Spec => ImplementsHeap
<1>1. New => Promise!Init BY DEF New, Promise!Init
<1>2. IInv /\ [Next]_vars => [Promise!Next]_<<start, end, live>>
  BY HeapStep
<1> QED BY <1>1, <1>2, InductiveInvariant, PTL
        DEF Spec, ImplementsHeap, Promise!Spec

-----------------------------------------------------------------------------
(* The stacks are as far apart as their boxes.  That nothing boot          *)
(* allocates reaches them needs a count of the bytes the cursor has moved  *)
(* since the first box: a whole Slot for every spawn that is done, and     *)
(* Spent for the one in progress.                                          *)

(* How far the current spawn may have moved the cursor.                    *)
Spent == CASE at = "page_table" -> KERNEL_STACK_SIZE + PAGE
           [] at = "arc" -> KERNEL_STACK_SIZE + 3 * PAGE
           [] at = "push" -> KERNEL_STACK_SIZE + 3 * PAGE + ARC + WORD
           [] at = "setup" -> Slot
           [] OTHER -> 0

Holding == at \in {"page_table", "arc", "push", "setup"} /\ tasks > 0

Booting == at \notin {"run", "panic"}

Stack == [base : Nat, rsp : Int]

StackTypes ==
  /\ at \in {"allocator", "boot", "kstack", "page_table", "arc", "push", "setup",
             "run", "panic"}
  /\ booted \in Nat /\ kstack \in Nat /\ capacity \in Nat /\ tasks \in 0 .. MaxTasks
  /\ stacks \in Seq(Stack)

(* The idle task has no stack, and a task is pushed before it gets one.    *)
Counts ==
  /\ at \in {"allocator", "boot"} => tasks = 0
  /\ at \in {"kstack", "page_table"} => tasks \in 1 .. MaxTasks - 1
  /\ at \in {"arc", "push"} => tasks < MaxTasks
  /\ at = "setup" => tasks >= 2 /\ Len(stacks) = tasks - 2
  /\ at \notin {"setup", "panic"} => Len(stacks) = IF tasks = 0 THEN 0 ELSE tasks - 1

Boxes ==
  /\ \A i \in 1 .. Len(stacks) :
       /\ stacks[i].rsp = FirstRsp(stacks[i].base)
       /\ stacks[i].base + KERNEL_STACK_SIZE <= next
  /\ \A i, j \in 1 .. Len(stacks) :
       i < j => stacks[i].base + KERNEL_STACK_SIZE <= stacks[j].base

Held ==
  Holding =>
    /\ kstack + KERNEL_STACK_SIZE <= next /\ next <= kstack + Spent
    /\ \A i \in 1 .. Len(stacks) : stacks[i].base + KERNEL_STACK_SIZE <= kstack

Cursor ==
  Booting =>
    \A i \in 1 .. Len(stacks) :
      next <= stacks[i].base + Slot * Len(stacks) + Spent

StackInv == IInv /\ StackTypes /\ Counts /\ Boxes /\ Held /\ Cursor

-----------------------------------------------------------------------------

(* A block that alloc returns starts at the cursor or less than an         *)
(* alignment above it, and moves the cursor to its end.                    *)
LEMMA AllocMoves ==
  ASSUME IInv, NEW l \in Layouts, Alloc(l), ~Failed
  PROVE  /\ next \in Nat /\ result' \in Nat /\ l.size \in Nat /\ l.align \in Nat
         /\ next <= result' /\ result' < next + l.align
         /\ next' = result' + l.size /\ result' + l.size <= next'
         /\ next' <= next + (l.align + l.size)
<1>1. l.size \in 1 .. MAX /\ l.align \in 1 .. MAX /\ MAX \in Nat
  BY AllocatorAssumption
<1>2. next \in Nat BY <1>1 DEF IInv, TypeOK
<1>3. /\ AlignUp(next, l.align) \in Nat
      /\ next <= AlignUp(next, l.align)
      /\ AlignUp(next, l.align) < next + l.align
  <2>1. l.align \in Nat \ {0} BY <1>1
  <2> QED BY <2>1, <1>2, AlignUpFacts, Zenon
<1>4. AllocBlock([base |-> AlignUp(next, l.align), size |-> l.size,
                  align |-> l.align])
  BY DEF Alloc, AllocNull, Failed
<1> QED BY <1>1, <1>2, <1>3, <1>4 DEF AllocBlock

(* Alloc never moves the cursor back, fail or not.                         *)
LEMMA AllocForward ==
  ASSUME IInv, NEW l \in Layouts, Alloc(l)
  PROVE  next \in Nat /\ next' \in Nat /\ next <= next'
<1>1. next \in Nat BY AllocatorAssumption DEF IInv, TypeOK
<1>2. CASE ~Failed BY <1>1, <1>2, AllocMoves
<1>3. CASE Failed
  <2>1. l.size \in 1 .. MAX /\ l.align \in 1 .. MAX /\ MAX \in Nat
    BY AllocatorAssumption
  <2>2. AlignUp(next, l.align) \in Nat /\ next <= AlignUp(next, l.align)
    <3>1. l.align \in Nat \ {0} BY <2>1
    <3> QED BY <3>1, <1>1, AlignUpFacts, Zenon
  <2> QED BY <1>1, <2>1, <2>2 DEF Alloc, AllocNull, AllocBlock, fields
<1> QED BY <1>2, <1>3

(* Slots add up.                                                           *)
LEMMA Slots ==
  /\ Slot \in Nat
  /\ \A n \in Nat : Slot * n \in Nat /\ Slot * (n + 1) = Slot * n + Slot
  /\ \A m, n \in Nat : m <= n => Slot * m <= Slot * n
<1>1. Slot \in Nat
  <2>1. VecSize \in Nat BY StackAssumption DEF VecSize
  <2> QED BY <2>1, StackAssumption DEF Slot
<1> HIDE DEF Slot
<1>2. \A n \in Nat : Slot * n \in Nat /\ Slot * (n + 1) = Slot * n + Slot
  BY <1>1
<1>3. ASSUME NEW m \in Nat, NEW n \in Nat, m <= n PROVE Slot * m <= Slot * n
  BY <1>1, <1>3
<1> QED BY <1>1, <1>2, <1>3
(* Arithmetic about primed values, for the steps below.                    *)
LEMMA Shift ==
  /\ \A room, n, m, x, y \in Nat : n <= room + x /\ m + x <= n + y => m <= room + y
  /\ \A a, b, c, m \in Nat : m = a + b => m <= a + (b + c)
  /\ \A n, m, a, b, c \in Nat : m <= n + (a + b) /\ b <= c => m <= n + (a + c)
  /\ \A n, m, a, x, y \in Nat : m <= n + a /\ x + a <= y => m + x <= n + y
OBVIOUS

LEMMA StackFields ==
  ASSUME StackInv, NEW i \in 1 .. Len(stacks)
  PROVE  stacks[i].base \in Nat /\ stacks[i].rsp \in Int
<1>1. stacks[i] \in Stack BY DEF StackInv, StackTypes
<1> QED BY <1>1 DEF Stack

(* The boxes stay where they are when the cursor moves on.                 *)
LEMMA BoxesStep ==
  ASSUME StackInv, stacks' = stacks,
         next \in Nat, next' \in Nat, next <= next'
  PROVE  Boxes'
<1>1. KERNEL_STACK_SIZE \in Nat BY StackAssumption
<1>2. ASSUME NEW i \in 1 .. Len(stacks)
      PROVE  stacks[i].base + KERNEL_STACK_SIZE <= next'
  <2>1. stacks[i].base \in Nat BY StackFields
  <2>2. stacks[i].base + KERNEL_STACK_SIZE <= next BY DEF StackInv, Boxes
  <2> QED BY <1>1, <2>1, <2>2
<1> QED BY <1>2 DEF StackInv, Boxes, FirstRsp

(* What every step on the way to a failed allocation keeps.                *)
LEMMA PanicStep ==
  ASSUME StackInv, IInv', at' = "panic", StackTypes',
         next \in Nat, next' \in Nat, next <= next', stacks' = stacks
  PROVE  StackInv'
<1>1. Counts' /\ Held' /\ Cursor'
  BY DEF Counts, Held, Holding, Cursor, Booting
<1>3. Boxes' BY BoxesStep
<1> QED BY <1>1, <1>3 DEF StackInv

(* Before the first spawn there are no stacks.                             *)
LEMMA EmptyStep ==
  ASSUME StackInv, IInv', StackTypes', Counts', ~(Holding'),
         stacks' = stacks, Len(stacks) = 0
  PROVE  StackInv'
<1>1. Len(stacks') = 0 OBVIOUS
<1>2. 1 .. Len(stacks') = {} BY <1>1
<1> QED BY <1>2 DEF StackInv, Boxes, Held, Cursor

LEMMA StartStep ==
  ASSUME StackInv, StartAllocator
  PROVE  StackInv'
<1>1. PICK h \in Heaps : InitAllocator(h) BY DEF StartAllocator
<1>2. IInv' BY <1>1, InitAllocatorStep DEF StackInv
<1>3. StackTypes' BY DEF StackInv, StackTypes, StartAllocator
<1>4. tasks = 0 /\ Len(stacks) = 0 /\ tasks' = tasks /\ stacks' = stacks
  BY DEF StackInv, Counts, StartAllocator
<1>5. Counts' BY <1>4 DEF Counts, StartAllocator
<1>6. ~(Holding') BY <1>4 DEF Holding
<1> QED BY <1>2, <1>3, <1>4, <1>5, <1>6, EmptyStep

LEMMA BootStep ==
  ASSUME StackInv, BootAllocates \/ TaskInit
  PROVE  StackInv'
<1>1. tasks = 0 /\ Len(stacks) = 0 /\ tasks' = tasks /\ stacks' = stacks
  BY DEF StackInv, Counts, BootAllocates, TaskInit
<1>2. StackTypes' BY DEF StackInv, StackTypes, BootAllocates, TaskInit
<1>3. Counts' BY <1>1, StackAssumption DEF Counts, BootAllocates, TaskInit
<1>4. IInv'
  <2>1. CASE BootAllocates
    <3>1. BootLayouts[booted + 1] \in Layouts
      BY <2>1, StackAssumption DEF BootAllocates, StackInv, StackTypes
    <3> QED BY <2>1, <3>1, AllocStep DEF BootAllocates, StackInv
  <2>2. CASE TaskInit
    BY <2>2 DEF TaskInit, StackInv, vars, IInv, TypeOK, BlocksFit,
                BlocksDisjoint, Overlap, PanicNearTop
  <2> QED BY <2>1, <2>2
<1>5. ~(Holding') BY <1>1 DEF Holding
<1> QED BY <1>1, <1>2, <1>3, <1>4, <1>5, EmptyStep
(* A step of a spawn that holds its box, and moves the cursor by no more   *)
(* than it adds to Spent.                                                  *)
LEMMA HoldingStep ==
  ASSUME StackInv, IInv', StackTypes', Counts', Holding, Holding',
         kstack' = kstack, stacks' = stacks,
         next \in Nat, next' \in Nat, Spent \in Nat, Spent' \in Nat,
         next <= next', next' + Spent <= next + Spent'
  PROVE  StackInv'
<1>1. stacks \in Seq(Stack) /\ kstack \in Nat /\ KERNEL_STACK_SIZE \in Nat
  BY StackAssumption DEF StackInv, StackTypes
<1>2. Boxes' BY BoxesStep
<1>3. Held' BY <1>1 DEF StackInv, Held
<1>4. Slot * Len(stacks) \in Nat BY <1>1, Slots
<1>5. Cursor'
  <2>1. Booting BY DEF Booting, Holding
  <2>2. ASSUME NEW i \in 1 .. Len(stacks)
        PROVE  next' <= stacks[i].base + Slot * Len(stacks) + Spent'
    <3> DEFINE room == stacks[i].base + Slot * Len(stacks)
    <3>1. next <= room + Spent BY <2>1, <2>2 DEF StackInv, Cursor
    <3>2. room \in Nat BY <1>4, StackFields
    <3> HIDE DEF room
    <3>3. next' <= room + Spent' BY <3>1, <3>2, Shift, Zenon
    <3> QED BY <3>3 DEF room
  <2> QED BY <2>2 DEF Cursor
<1> QED BY <1>2, <1>3, <1>5 DEF StackInv

(* The box of a new task starts at the cursor, above every other.          *)
LEMMA StackStep ==
  ASSUME StackInv, AllocateStack
  PROVE  StackInv'
<1>1. StackLayout \in Layouts /\ KERNEL_STACK_SIZE \in Nat /\ PAGE \in Nat
  BY StackAssumption
<1>2. Alloc(StackLayout) /\ IInv BY DEF AllocateStack, StackInv
<1>3. IInv' BY <1>1, <1>2, AllocStep
<1>4. next \in Nat /\ next' \in Nat /\ next <= next' BY <1>1, <1>2, AllocForward
<1>5. result' \in Nat BY <1>3, AllocatorAssumption DEF IInv, TypeOK
<1>6. StackTypes' BY <1>5 DEF StackInv, StackTypes, AllocateStack
<1>7. stacks' = stacks /\ kstack' = result' /\ tasks' = tasks BY DEF AllocateStack
<1>8. CASE Failed BY <1>3, <1>4, <1>6, <1>7, <1>8, PanicStep DEF AllocateStack
<1>9. CASE ~Failed
  <2>1. /\ next <= result' /\ result' < next + PAGE
        /\ next' = result' + KERNEL_STACK_SIZE
    BY <1>1, <1>2, <1>9, AllocMoves DEF StackLayout
  <2>2. at = "kstack" /\ at' = "page_table" BY <1>9 DEF AllocateStack
  <2>3. Counts' BY <1>7, <2>2 DEF StackInv, Counts
  <2>4. Spent = 0 /\ Spent' = KERNEL_STACK_SIZE + PAGE BY <2>2 DEF Spent
  <2>5. stacks \in Seq(Stack) BY DEF StackInv, StackTypes
  <2>6. Boxes' BY <1>4, <1>7, BoxesStep
  <2>7. Held'
    <3>1. ASSUME NEW i \in 1 .. Len(stacks)
          PROVE  stacks[i].base + KERNEL_STACK_SIZE <= result'
      <4>1. stacks[i].base \in Nat BY StackFields
      <4>2. stacks[i].base + KERNEL_STACK_SIZE <= next BY DEF StackInv, Boxes
      <4> QED BY <1>1, <1>4, <1>5, <2>1, <4>1, <4>2, SMTT(30)
    <3>2. result' + KERNEL_STACK_SIZE <= next'
      BY <1>1, <1>2, <1>9, AllocMoves DEF StackLayout
    <3>3. next' <= result' + (KERNEL_STACK_SIZE + PAGE)
      BY <1>1, <1>4, <1>5, <2>1, Shift, Zenon
    <3> QED BY <1>7, <2>4, <3>1, <3>2, <3>3 DEF Held
  <2>8. Cursor'
    <3>1. ASSUME NEW i \in 1 .. Len(stacks)
          PROVE  next' <= stacks[i].base + Slot * Len(stacks) + (KERNEL_STACK_SIZE + PAGE)
      <4>1. stacks[i].base \in Nat BY StackFields
      <4>2. next <= stacks[i].base + Slot * Len(stacks) + 0
        BY <2>2, <2>4 DEF StackInv, Cursor, Booting
      <4>3. Slot * Len(stacks) \in Nat BY <2>5, Slots
      <4> QED BY <1>1, <1>4, <1>5, <2>1, <4>1, <4>2, <4>3, SMTT(30)
    <3> QED BY <1>7, <2>4, <3>1 DEF Cursor
  <2> QED BY <1>3, <1>6, <2>3, <2>6, <2>7, <2>8 DEF StackInv
<1> QED BY <1>8, <1>9
LEMMA PageTableStep ==
  ASSUME StackInv, AllocatePageTable
  PROVE  StackInv'
<1>1. /\ PageTableLayout \in Layouts /\ KERNEL_STACK_SIZE \in Nat /\ PAGE \in Nat
  BY StackAssumption
<1>2. Alloc(PageTableLayout) /\ IInv BY DEF AllocatePageTable, StackInv
<1>3. IInv' BY <1>1, <1>2, AllocStep
<1>4. next \in Nat /\ next' \in Nat /\ next <= next' BY <1>1, <1>2, AllocForward
<1>5. StackTypes' BY DEF StackInv, StackTypes, AllocatePageTable
<1>6. stacks' = stacks /\ kstack' = kstack /\ tasks' = tasks BY DEF AllocatePageTable
<1>7. CASE Failed BY <1>3, <1>4, <1>5, <1>6, <1>7, PanicStep DEF AllocatePageTable
<1>8. CASE ~Failed
  <2>1. next' <= next + (PAGE + PAGE) BY <1>1, <1>2, <1>8, AllocMoves DEF PageTableLayout
  <2>2. at = "page_table" /\ at' = "arc" BY <1>8 DEF AllocatePageTable
  <2>3. tasks \in 1 .. MaxTasks - 1 BY <2>2 DEF StackInv, Counts
  <2>4. Counts' BY <1>6, <2>2, <2>3, StackAssumption DEF StackInv, Counts
  <2>5. Holding /\ Holding' BY <1>6, <2>2, <2>3, StackAssumption DEF Holding
  <2>6. /\ Spent = KERNEL_STACK_SIZE + PAGE
        /\ Spent' = KERNEL_STACK_SIZE + 3 * PAGE
    BY <2>2 DEF Spent
  <2>7. /\ Spent \in Nat /\ Spent' \in Nat /\ PAGE + PAGE \in Nat
        /\ Spent + (PAGE + PAGE) <= Spent'
    BY <1>1, <2>6
  <2>8. next' + Spent <= next + Spent' BY <1>4, <2>1, <2>7, Shift, Zenon
  <2> QED BY <1>3, <1>4, <1>5, <1>6, <2>4, <2>5, <2>7, <2>8, HoldingStep
<1> QED BY <1>7, <1>8

LEMMA ArcStep ==
  ASSUME StackInv, AllocateArc
  PROVE  StackInv'
<1>1. /\ ArcLayout \in Layouts /\ KERNEL_STACK_SIZE \in Nat /\ PAGE \in Nat
      /\ ARC \in Nat /\ WORD \in Nat /\ MaxTasks \in Nat
  BY StackAssumption
<1>2. Alloc(ArcLayout) /\ IInv BY DEF AllocateArc, StackInv
<1>3. IInv' BY <1>1, <1>2, AllocStep
<1>4. next \in Nat /\ next' \in Nat /\ next <= next' BY <1>1, <1>2, AllocForward
<1>5. StackTypes' BY DEF StackInv, StackTypes, AllocateArc
<1>6. stacks' = stacks /\ kstack' = kstack /\ tasks' = tasks BY DEF AllocateArc
<1>7. CASE Failed BY <1>3, <1>4, <1>5, <1>6, <1>7, PanicStep DEF AllocateArc
<1>8. CASE ~Failed
  <2>1. next' <= next + (WORD + ARC) BY <1>1, <1>2, <1>8, AllocMoves DEF ArcLayout
  <2>2. at = "arc" /\ at' = "push" BY <1>8 DEF AllocateArc
  <2>3. tasks \in Nat BY <1>1 DEF StackInv, StackTypes
  <2>4. Counts' BY <1>6, <2>2 DEF StackInv, Counts
  <2>5. CASE tasks = 0
    <3>1. ~(Holding') BY <1>6, <2>5 DEF Holding
    <3>2. Len(stacks) = 0 BY <2>2, <2>5 DEF StackInv, Counts
    <3> QED BY <1>3, <1>5, <1>6, <2>4, <3>1, <3>2, EmptyStep
  <2>6. CASE tasks > 0
    <3>1. Holding /\ Holding' BY <1>6, <2>2, <2>6 DEF Holding
    <3>2. /\ Spent = KERNEL_STACK_SIZE + 3 * PAGE
          /\ Spent' = KERNEL_STACK_SIZE + 3 * PAGE + ARC + WORD
      BY <2>2 DEF Spent
    <3>3. /\ Spent \in Nat /\ Spent' \in Nat /\ WORD + ARC \in Nat
          /\ Spent + (WORD + ARC) <= Spent'
      BY <1>1, <3>2
    <3>4. next' + Spent <= next + Spent' BY <1>4, <2>1, <3>3, Shift, Zenon
    <3> QED BY <1>3, <1>4, <1>5, <1>6, <2>4, <3>1, <3>3, <3>4, HoldingStep
  <2> QED BY <2>3, <2>5, <2>6
<1> QED BY <1>7, <1>8

(* The push itself, after what the vector may have allocated.              *)
LEMMA PushedStep ==
  ASSUME StackInv, IInv', StackTypes', at = "push", at' = AfterPush,
         tasks' = tasks + 1, kstack' = kstack, stacks' = stacks,
         next \in Nat, next' \in Nat, next <= next',
         next' <= next + (WORD + VecSize)
  PROVE  StackInv'
<1>1. /\ KERNEL_STACK_SIZE \in Nat /\ PAGE \in Nat /\ ARC \in Nat
      /\ WORD \in Nat /\ MaxTasks \in Nat \ {0} /\ VecSize \in Nat
  BY StackAssumption DEF VecSize
<1>2. tasks \in Nat /\ tasks < MaxTasks /\ stacks \in Seq(Stack)
  BY <1>1 DEF StackInv, StackTypes, Counts
<1>3. Len(stacks) = IF tasks = 0 THEN 0 ELSE tasks - 1 BY DEF StackInv, Counts
<1>4. CASE tasks = 0
  <2>1. at' = IF MaxTasks > 1 THEN "kstack" ELSE "run" BY <1>1, <1>4 DEF AfterPush
  <2>2. tasks' = 1 /\ Len(stacks) = 0 BY <1>3, <1>4
  <2>3. Counts' BY <1>1, <2>1, <2>2 DEF Counts
  <2>4. ~(Holding') BY <2>1 DEF Holding
  <2> QED BY <2>2, <2>3, <2>4, EmptyStep
<1>5. CASE tasks > 0
  <2>1. at' = "setup" BY <1>5 DEF AfterPush
  <2>2. Len(stacks) = tasks - 1 BY <1>2, <1>3, <1>5
  <2>3. Counts' BY <1>2, <1>5, <2>1, <2>2 DEF Counts
  <2>4. Holding /\ Holding' BY <1>2, <1>5, <2>1 DEF Holding
  <2>5. /\ Spent = KERNEL_STACK_SIZE + 3 * PAGE + ARC + WORD
        /\ Spent' = KERNEL_STACK_SIZE + 3 * PAGE + ARC + VecSize + 2 * WORD
    BY <2>1 DEF Spent, Slot
  <2>6. /\ Spent \in Nat /\ Spent' \in Nat /\ WORD + VecSize \in Nat
        /\ Spent + (WORD + VecSize) <= Spent'
    BY <1>1, <2>5
  <2>7. next' + Spent <= next + Spent' BY <2>6, Shift, Zenon
  <2> QED BY <2>3, <2>4, <2>6, <2>7, HoldingStep
<1> QED BY <1>2, <1>4, <1>5

LEMMA InPlaceStep ==
  ASSUME StackInv, PushInPlace
  PROVE  StackInv'
<1>1. WORD \in Nat /\ VecSize \in Nat /\ MaxTasks \in Nat
  BY StackAssumption DEF VecSize
<1>2. IInv'
  BY DEF PushInPlace, StackInv, vars, IInv, TypeOK, BlocksFit, BlocksDisjoint,
         Overlap, PanicNearTop
<1>3. next \in Nat /\ next' = next
  BY AllocatorAssumption DEF StackInv, IInv, TypeOK, PushInPlace, vars
<1>4. next' \in Nat /\ next <= next' /\ next' <= next + (WORD + VecSize)
  BY <1>1, <1>3
<1>5. tasks < MaxTasks /\ tasks \in Nat
  BY <1>1 DEF StackInv, StackTypes, Counts, PushInPlace
<1>6. StackTypes'
  BY <1>1, <1>5 DEF StackInv, StackTypes, PushInPlace, AfterPush
<1> QED BY <1>2, <1>3, <1>4, <1>6, PushedStep DEF PushInPlace

LEMMA GrowingStep ==
  ASSUME StackInv, PushGrowing
  PROVE  StackInv'
<1>1. WORD \in Nat /\ VecSize \in Nat /\ MaxTasks \in Nat
  BY StackAssumption DEF VecSize
<1>2. tasks < MaxTasks /\ tasks \in Nat /\ tasks = capacity
  BY <1>1 DEF StackInv, StackTypes, Counts, PushGrowing
<1>3. Grown \in Capacities BY <1>1, <1>2 DEF Grown, Capacities
<1>4. VecLayout(Grown) \in Layouts BY <1>3, StackAssumption
<1>5. Alloc(VecLayout(Grown)) /\ IInv BY DEF PushGrowing, StackInv
<1>6. IInv' BY <1>4, <1>5, AllocStep
<1>7. next \in Nat /\ next' \in Nat /\ next <= next' BY <1>4, <1>5, AllocForward
<1>8. StackTypes'
  BY <1>1, <1>2, <1>3, SMTT(30)
    DEF StackInv, StackTypes, PushGrowing, AfterPush, Capacities
<1>9. CASE Failed BY <1>6, <1>7, <1>8, <1>9, PanicStep DEF PushGrowing
<1>10. CASE ~Failed
  <2>1. next' <= next + (WORD + Grown * WORD)
    BY <1>4, <1>5, <1>10, AllocMoves DEF VecLayout
  <2>2. Grown * WORD \in Nat /\ Grown * WORD <= VecSize
    <3>1. Grown \in Nat /\ Grown <= 2 * MaxTasks + 4 BY <1>1, <1>3 DEF Capacities
    <3>2. ASSUME NEW a \in Nat, NEW b \in Nat, NEW c \in Nat, a <= b
          PROVE  a * c \in Nat /\ a * c <= b * c
      BY <3>2
    <3>3. 2 * MaxTasks + 4 \in Nat BY <1>1
    <3> QED BY <1>1, <3>1, <3>2, <3>3 DEF VecSize
  <2>3. next' <= next + (WORD + VecSize) BY <1>1, <1>7, <2>1, <2>2, Shift
  <2> QED BY <1>6, <1>7, <1>8, <1>10, <2>3, PushedStep DEF PushGrowing
<1> QED BY <1>9, <1>10

(* The new stack is the highest, and the spawn's slot is done.             *)
LEMMA SetupStep ==
  ASSUME StackInv, SetupInitialCall
  PROVE  StackInv'
<1> DEFINE n == Len(stacks)
           new == [base |-> kstack, rsp |-> FirstRsp(kstack)]
<1>1. /\ KERNEL_STACK_SIZE \in Nat /\ WORD \in Nat /\ MaxTasks \in Nat
      /\ KERNEL_STACK_SIZE * WORD \in Nat
  BY StackAssumption
<1>2. stacks \in Seq(Stack) /\ n \in Nat /\ kstack \in Nat /\ tasks \in Nat
  BY <1>1 DEF StackInv, StackTypes
<1>3. new \in Stack
  <2>1. FirstRsp(kstack) \in Int BY <1>1, <1>2, SMTT(30) DEF FirstRsp
  <2> QED BY <1>2, <2>1 DEF Stack
<1>4. /\ IInv' /\ next' = next /\ next \in Nat
  BY AllocatorAssumption
     DEF SetupInitialCall, StackInv, vars, IInv, TypeOK, BlocksFit,
         BlocksDisjoint, Overlap, PanicNearTop
<1>5. /\ at = "setup" /\ kstack' = kstack /\ tasks' = tasks
      /\ stacks' = Append(stacks, new)
      /\ at' = IF tasks = MaxTasks THEN "run" ELSE "kstack"
  BY DEF SetupInitialCall
<1>6. /\ stacks' \in Seq(Stack) /\ Len(stacks') = n + 1
      /\ \A i \in 1 .. n : stacks'[i] = stacks[i]
      /\ stacks'[n + 1] = new
  <2> HIDE DEF new
  <2> QED BY <1>2, <1>3, <1>5
<1>7. StackTypes' BY <1>5, <1>6 DEF StackInv, StackTypes, SetupInitialCall
<1>8. tasks >= 2 /\ n = tasks - 2 /\ tasks <= MaxTasks
  BY <1>1, <1>5 DEF StackInv, Counts, StackTypes
<1>9. Counts' BY <1>1, <1>2, <1>5, <1>6, <1>8 DEF Counts
<1>10. Holding BY <1>5, <1>8, <1>2 DEF Holding
<1>11. /\ kstack + KERNEL_STACK_SIZE <= next /\ next <= kstack + Slot
       /\ \A i \in 1 .. n : stacks[i].base + KERNEL_STACK_SIZE <= kstack
  BY <1>5, <1>10 DEF StackInv, Held, Spent
<1>12. new.base = kstack /\ new.rsp = FirstRsp(kstack) OBVIOUS
<1> HIDE DEF n, new
<1>13. \A i \in 1 .. n + 1 : i \in 1 .. n \/ i = n + 1 BY <1>2
<1>14. Boxes'
  <2>1. ASSUME NEW i \in 1 .. n + 1
        PROVE  /\ stacks'[i].rsp = FirstRsp(stacks'[i].base)
               /\ stacks'[i].base + KERNEL_STACK_SIZE <= next'
    <3>1. CASE i \in 1 .. n BY <3>1, <1>4, <1>6 DEF StackInv, Boxes, n
    <3>2. CASE i = n + 1 BY <3>2, <1>4, <1>6, <1>11, <1>12
    <3> QED BY <1>13, <3>1, <3>2
  <2>2. ASSUME NEW i \in 1 .. n + 1, NEW j \in 1 .. n + 1, i < j
        PROVE  stacks'[i].base + KERNEL_STACK_SIZE <= stacks'[j].base
    <3>1. i \in 1 .. n BY <1>2, <2>2
    <3>2. CASE j \in 1 .. n BY <3>1, <3>2, <2>2, <1>6 DEF StackInv, Boxes, n
    <3>3. CASE j = n + 1 BY <3>1, <3>3, <1>6, <1>11, <1>12
    <3> QED BY <1>13, <3>2, <3>3
  <2> QED BY <1>6, <2>1, <2>2 DEF Boxes, FirstRsp
<1>15. Held' BY <1>5 DEF Held, Holding
<1>16. Cursor'
  <2>1. /\ Slot \in Nat /\ Slot * n \in Nat /\ Slot * (n + 1) \in Nat
        /\ Slot * (n + 1) = Slot * n + Slot
    BY <1>2, Slots
  <2>2. Spent' = 0 BY <1>5 DEF Spent
  <2>3. ASSUME NEW i \in 1 .. n + 1
        PROVE  next <= stacks'[i].base + Slot * (n + 1) + 0
    <3>1. CASE i \in 1 .. n
      <4> DEFINE b == stacks[i].base
      <4>1. b \in Nat BY <3>1, StackFields DEF n
      <4>2. next <= b + Slot * n + Slot
        BY <3>1, <1>5 DEF StackInv, Cursor, Booting, Spent, n
      <4>3. stacks'[i].base = b BY <3>1, <1>6
      <4> HIDE DEF b
      <4>4. next <= b + Slot * (n + 1) + 0 BY <1>4, <2>1, <4>1, <4>2
      <4> QED BY <4>3, <4>4
    <3>2. CASE i = n + 1
      <4>1. stacks'[i].base = kstack BY <3>2, <1>6, <1>12
      <4>2. next <= kstack + Slot * (n + 1) + 0 BY <1>2, <1>4, <1>11, <2>1
      <4> QED BY <4>1, <4>2
    <3> QED BY <1>13, <3>1, <3>2
  <2> QED BY <1>4, <1>6, <2>2, <2>3 DEF Cursor
<1> QED BY <1>4, <1>7, <1>9, <1>14, <1>15, <1>16 DEF StackInv

LEMMA RunStep ==
  ASSUME StackInv, TaskAllocates
  PROVE  StackInv'
<1>1. PICK l \in Layouts : Alloc(l) BY StackAssumption DEF TaskAllocates
<1>2. IInv' BY <1>1, AllocStep DEF StackInv
<1>3. next \in Nat /\ next' \in Nat /\ next <= next' BY <1>1, AllocForward DEF StackInv
<1>4. stacks' = stacks /\ tasks' = tasks /\ at = "run" /\ at' \in {"run", "panic"}
  BY DEF TaskAllocates
<1>5. StackTypes' BY <1>4 DEF StackInv, StackTypes, TaskAllocates
<1>6. Counts' /\ Held' /\ Cursor'
  BY <1>4 DEF StackInv, Counts, Held, Holding, Cursor, Booting
<1>7. Boxes' BY <1>3, <1>4, BoxesStep
<1> QED BY <1>2, <1>5, <1>6, <1>7 DEF StackInv

LEMMA StackStutter ==
  ASSUME StackInv, UNCHANGED stackVars
  PROVE  StackInv'
<1> USE DEF stackVars, vars, spawnVars
<1>1. IInv'
  BY DEF StackInv, IInv, TypeOK, BlocksFit, BlocksDisjoint, Overlap, PanicNearTop
<1>2. StackTypes' /\ Counts' BY DEF StackInv, StackTypes, Counts
<1>3. Boxes' /\ Held' /\ Cursor'
  BY DEF StackInv, Boxes, Held, Holding, Cursor, Booting, Spent, FirstRsp
<1> QED BY <1>1, <1>2, <1>3, SMTT(30) DEF StackInv

(* The invariant of the whole boot, of which the two theorems below are    *)
(* the parts that matter.                                                  *)
THEOREM StackInvariant == StackSpec => []StackInv
<1>1. StackInit => StackInv
  <2> SUFFICES ASSUME StackInit PROVE StackInv OBVIOUS
  <2>1. IInv
    BY AllocatorAssumption
       DEF StackInit, New, IInv, TypeOK, BlocksFit, BlocksDisjoint, PanicNearTop
  <2>2. stacks = <<>> /\ Len(stacks) = 0 /\ 1 .. Len(stacks) = {} BY DEF StackInit
  <2>3. StackTypes BY <2>2, StackAssumption DEF StackInit, StackTypes
  <2>4. Counts BY <2>2 DEF StackInit, Counts
  <2>5. Boxes /\ Cursor BY <2>2 DEF Boxes, Cursor
  <2>6. Held BY DEF StackInit, Held, Holding
  <2> QED BY <2>1, <2>3, <2>4, <2>5, <2>6 DEF StackInv
<1>2. StackInv /\ [StackNext]_stackVars => StackInv'
  BY StartStep, BootStep, StackStep, PageTableStep, ArcStep, InPlaceStep,
     GrowingStep, SetupStep, RunStep, StackStutter DEF StackNext
<1> QED BY <1>1, <1>2, PTL DEF StackSpec

(* The stacks that spawn lays out share no byte, whatever the sizes.       *)
THEOREM StacksAreDisjoint == StackSpec => []StacksDisjoint
<1>1. StackInv => StacksDisjoint
  <2> SUFFICES ASSUME StackInv, NEW i \in 1 .. Len(stacks),
                      NEW j \in 1 .. Len(stacks), i < j
               PROVE  Top(stacks[i]) <= Bottom(stacks[j])
    BY DEF StacksDisjoint
  <2> DEFINE b == stacks[i].base
             c == stacks[j].base
             h == KERNEL_STACK_SIZE * WORD
  <2>1. KERNEL_STACK_SIZE \in Nat /\ WORD \in Nat /\ h \in Nat BY StackAssumption
  <2>2. b \in Nat /\ c \in Nat BY StackFields
  <2>3. b + KERNEL_STACK_SIZE <= c BY DEF StackInv, Boxes
  <2>4. stacks[i].rsp = b + h - WORD /\ stacks[j].rsp = c + h - WORD
    BY DEF StackInv, Boxes, FirstRsp
  <2> HIDE DEF b, c, h
  <2> QED BY <2>1, <2>2, <2>3, <2>4 DEF Top, Bottom
<1> QED BY <1>1, StackInvariant, PTL

LEMMA SpentFits == Spent \in Nat /\ Spent <= Slot
<1>1. /\ KERNEL_STACK_SIZE \in Nat /\ WORD \in Nat /\ PAGE \in Nat
      /\ ARC \in Nat /\ VecSize \in Nat
  BY StackAssumption DEF VecSize
<1>2. Slot = KERNEL_STACK_SIZE + 3 * PAGE + ARC + VecSize + 2 * WORD BY DEF Slot
<1>3. Slot \in Nat BY Slots
<1>4. /\ KERNEL_STACK_SIZE + PAGE \in 0 .. Slot
      /\ KERNEL_STACK_SIZE + 3 * PAGE \in 0 .. Slot
      /\ KERNEL_STACK_SIZE + 3 * PAGE + ARC + WORD \in 0 .. Slot
      /\ Slot \in 0 .. Slot /\ 0 \in 0 .. Slot
  BY <1>1, <1>2, <1>3
<1>5. Spent \in 0 .. Slot
  <2> HIDE DEF Slot
  <2> QED BY <1>4 DEF Spent
<1> QED BY <1>3, <1>5

(* Until the tasks run, no allocation reaches a stack: the slots of all    *)
(* the spawns end below the first one.                                     *)
THEOREM StacksLeftAlone == StackSpec => []BootLeavesStacksAlone
<1>1. StackInv => BootLeavesStacksAlone
  <2> SUFFICES ASSUME StackInv, Booting,
                      NEW i \in 1 .. Len(stacks), NEW blk \in granted
               PROVE  blk.base + blk.size <= Bottom(stacks[i])
    BY DEF BootLeavesStacksAlone, Booting
  <2> DEFINE b == stacks[i].base
             h == KERNEL_STACK_SIZE * WORD
             n == Len(stacks)
             top == blk.base + blk.size
  <2>1. /\ KERNEL_STACK_SIZE \in Nat /\ WORD \in Nat /\ h \in Nat /\ PAGE \in Nat
        /\ ARC \in Nat /\ MaxTasks \in Nat \ {0} /\ VecSize \in Nat
    BY StackAssumption DEF VecSize
  <2>2. b \in Nat /\ n \in Nat BY StackFields DEF StackInv, StackTypes
  <2>3. stacks[i].rsp = b + h - WORD BY DEF StackInv, Boxes, FirstRsp
  <2>4. top <= next BY DEF StackInv, IInv, BlocksFit
  <2>5. next \in Nat /\ top \in Nat
    <3>1. MAX \in Nat BY AllocatorAssumption
    <3>2. blk.base \in 1 .. MAX /\ blk.size \in 1 .. MAX BY DEF StackInv, IInv, TypeOK
    <3>3. next \in 0 .. MAX BY DEF StackInv, IInv, TypeOK
    <3> QED BY <3>1, <3>2, <3>3
  <2>7. Spent \in Nat /\ Spent <= Slot BY SpentFits
  <2>8. next <= b + Slot * n + Spent BY DEF StackInv, Cursor
  <2>9. Slot * n + Spent <= (MaxTasks - 1) * Slot
    <3>1. tasks \in Nat /\ tasks <= MaxTasks BY <2>1 DEF StackInv, StackTypes
    <3>2. n >= 1 BY <2>2
    <3>3. CASE Spent = 0
      <4>1. n <= MaxTasks - 1
        BY <2>1, <2>2, <3>1, <3>2 DEF StackInv, Counts, Booting
      <4>2. Slot * n \in Nat /\ Slot * n <= Slot * (MaxTasks - 1)
        BY <2>1, <2>2, <4>1, Slots
      <4>3. Slot * (MaxTasks - 1) = (MaxTasks - 1) * Slot BY <2>1, Slots
      <4> QED BY <3>3, <4>2, <4>3
    <3>4. CASE Spent # 0
      <4>1. at \in {"page_table", "arc", "push", "setup"} BY <3>4 DEF Spent
      <4>2. n + 1 <= MaxTasks - 1
        BY <2>1, <2>2, <3>1, <3>2, <4>1 DEF StackInv, Counts
      <4>3. /\ Slot * n \in Nat /\ Slot * (n + 1) = Slot * n + Slot
            /\ Slot * (n + 1) <= Slot * (MaxTasks - 1)
        BY <2>1, <2>2, <4>2, Slots
      <4>4. Slot * (MaxTasks - 1) = (MaxTasks - 1) * Slot BY <2>1, Slots
      <4>5. Slot \in Nat BY Slots
      <4> DEFINE p == Slot * n
                 q == Slot * (n + 1)
                 r == Slot * (MaxTasks - 1)
      <4>6. p \in Nat /\ q = p + Slot /\ q <= r /\ r \in Nat
        BY <2>1, <4>3, Slots
      <4> HIDE DEF p, q, r
      <4>7. p + Spent <= r BY <2>7, <4>5, <4>6
      <4> QED BY <4>4, <4>7 DEF p, r
    <3> QED BY <3>3, <3>4
  <2>10. (MaxTasks - 1) * Slot + KERNEL_STACK_SIZE <= h BY StackAssumption
  <2>11. Slot * n \in Nat /\ (MaxTasks - 1) * Slot \in Nat
    BY <2>1, <2>2, Slots
  <2>12. top <= b + h - KERNEL_STACK_SIZE
    <3> DEFINE p == Slot * n
               q == (MaxTasks - 1) * Slot
    <3>1. p \in Nat /\ q \in Nat BY <2>11
    <3>2. next <= b + p + Spent /\ p + Spent <= q /\ q + KERNEL_STACK_SIZE <= h
      BY <2>8, <2>9, <2>10
    <3> HIDE DEF b, h, top, p, q
    <3> QED BY <2>1, <2>2, <2>4, <2>5, <2>7, <3>1, <3>2
  <2> HIDE DEF b, h, top
  <2>13. Bottom(stacks[i]) = b + h - KERNEL_STACK_SIZE
    BY <2>1, <2>2, <2>3 DEF Bottom
  <2> QED BY <2>12, <2>13 DEF top
<1> QED BY <1>1, StackInvariant, PTL
===============================================================================
