---------------------------- MODULE LinerAllocator ----------------------------
(***************************************************************************)
(* The kernel's global allocator (kernel/src/allocator.rs).  Every call    *)
(* runs under the ALLOCATOR spin lock, so a call is one step; what happens *)
(* to callers that are interrupted while they hold the lock is in module   *)
(* Scheduler.  Arithmetic is that of the debug build, which is the build   *)
(* that is run: an overflowing + panics.                                   *)
(***************************************************************************)
EXTENDS Integers

CONSTANTS MAX,       \* usize::MAX
          Heaps,     \* what init may be called with: records [start, size]
          Layouts    \* what alloc may be called with: records [size, align]

(* start is not 0, the null pointer; a Layout has a size of at least 1 and *)
(* its align is a power of two, of which the proofs need only that it is   *)
(* positive (module AllocationProofs).                                     *)
ASSUME AllocatorAssumption ==
  /\ MAX \in Nat
  /\ \A h \in Heaps : h.start \in 1 .. MAX /\ h.size \in 0 .. MAX
  /\ \A l \in Layouts : l.size \in 1 .. MAX /\ l.align \in 1 .. MAX

VARIABLES start, end, next,   \* the fields of LinerAllocator
          status,             \* "new", "ready" or "panic"
          result,             \* what the last alloc returned; 0 is null
          granted,            \* every block alloc ever returned
          live                \* those that were not given to dealloc

vars == <<start, end, next, status, result, granted, live>>
fields == <<start, end, next>>

-----------------------------------------------------------------------------

New ==
  /\ start = 0 /\ end = 0 /\ next = 0
  /\ status = "new"
  /\ result = 0
  /\ granted = {} /\ live = {}

(* Definitions named after a bug (here: init keeps the old cursor) are     *)
(* variants of the one that follows, used to test the properties.          *)
InitAllocatorKeepNext(h) ==
  /\ status = "new"
  /\ start' = h.start
  /\ end' = h.start + h.size
  /\ status' = "ready"
  /\ UNCHANGED <<next, result, granted, live>>

(* init_allocator: kernel_main calls it once.                              *)
InitAllocator(h) ==
  /\ status = "new"
  /\ IF h.start + h.size > MAX
       THEN status' = "panic" /\ UNCHANGED fields
       ELSE /\ start' = h.start
            /\ end' = h.start + h.size
            /\ next' = h.start
            /\ status' = "ready"
  /\ UNCHANGED <<result, granted, live>>

AlignUpDown(current, align) == current - (current % align)
AlignUpByOne(current, align) ==
  LET sum == current + align IN sum - (sum % align)

(* (current + align - 1) & !(align - 1): clearing the low bits of a power  *)
(* of two takes off the remainder.                                         *)
AlignUp(current, align) ==
  LET sum == current + align - 1 IN sum - (sum % align)

AllocNullUnwrapped == status' = "panic" /\ UNCHANGED <<fields, result, granted, live>>

AllocNull == result' = 0 /\ UNCHANGED <<fields, status, granted, live>>

AllocBlockNoPadding(b) ==
  /\ next' = next + b.size
  /\ result' = b.base
  /\ granted' = granted \cup {b}
  /\ live' = live \cup {b}
  /\ UNCHANGED <<start, end, status>>

AllocBlock(b) ==
  /\ next' = b.base + b.size
  /\ result' = b.base
  /\ granted' = granted \cup {b}
  /\ live' = live \cup {b}
  /\ UNCHANGED <<start, end, status>>

Alloc(l) ==
  /\ status # "panic"
  /\ IF next + l.align > MAX
       THEN status' = "panic" /\ UNCHANGED <<fields, result, granted, live>>
       ELSE LET alloc_start == AlignUp(next, l.align)
                alloc_end == alloc_start + l.size
            IN  IF alloc_end > MAX \/ alloc_end > end
                  THEN AllocNull
                  ELSE AllocBlock([base |-> alloc_start, size |-> l.size,
                                   align |-> l.align])

DeallocRewinds(b) ==
  /\ status # "panic"
  /\ live' = live \ {b}
  /\ next' = b.base
  /\ UNCHANGED <<start, end, status, result, granted>>

(* The memory is not used again: only the caller's claim on it ends.       *)
Dealloc(b) ==
  /\ status # "panic"
  /\ live' = live \ {b}
  /\ UNCHANGED <<fields, status, result, granted>>

Next ==
  \/ \E h \in Heaps : InitAllocator(h)
  \/ \E l \in Layouts : Alloc(l)
  \/ \E b \in live : Dealloc(b)

Spec == New /\ [][Next]_vars

-----------------------------------------------------------------------------

TypeOK ==
  /\ start \in 0 .. MAX /\ end \in 0 .. MAX /\ next \in 0 .. MAX
  /\ status \in {"new", "ready", "panic"}
  /\ result \in 0 .. MAX
  /\ granted \subseteq [base : 1 .. MAX, size : 1 .. MAX, align : 1 .. MAX]
  /\ live \subseteq granted

Overlap(b, c) == b.base < c.base + c.size /\ c.base < b.base + b.size

(* No byte is ever part of two blocks alloc returned, even of one given    *)
(* back long ago: whatever the order of sizes and alignments requested,    *)
(* the cursor next is past every block.                                    *)
BlocksDisjoint == \A b, c \in granted : b # c => ~Overlap(b, c)

(* A block lies inside the heap init was given, below the cursor, and      *)
(* starts at a multiple of the alignment its Layout asked for.             *)
BlocksFit ==
  \A b \in granted :
    /\ start <= b.base /\ b.base + b.size <= next /\ next <= end
    /\ b.base % b.align = 0

(* alloc panics on overflow only if the heap ends within one alignment of  *)
(* the top of the address space, or init itself overflowed.                *)
PanicNearTop ==
  status = "panic" => start = 0 \/ \E l \in Layouts : end + l.align > MAX

(* Where a block for l could still go above the cursor.                    *)
Room(l) == {a \in next .. end : a % l.align = 0 /\ a + l.size <= end}

(* alloc takes the lowest place above the cursor, and returns null only if *)
(* there is none: the mask and the checked_add lose no usable space.       *)
AllocTakesLowest ==
  [][\A l \in Layouts :
       Alloc(l) /\ status' # "panic" =>
         IF Room(l) = {} THEN result' = 0
         ELSE result' \in Room(l) /\ \A a \in Room(l) : result' <= a]_vars

(* Once a request cannot be met it never can be again: dealloc gives       *)
(* nothing back, so a task that frees all it allocates (wasm_entry) still  *)
(* uses up the heap.                                                       *)
FullStaysFull ==
  [][\A l \in Layouts :
       status = "ready" /\ Room(l) = {} => Room(l)' = {}]_vars

(* What the kernel expects of its allocator.                               *)
Promise == INSTANCE Heap WITH lo <- start, hi <- end, live <- live,
             Address <- 0 .. MAX, Layout <- Layouts

ImplementsHeap == Promise!Spec
===============================================================================
