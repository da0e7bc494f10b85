------------------------------ MODULE TaskStack ------------------------------
(***************************************************************************)
(* Where the stacks of the tasks lie in the heap: kernel_main's            *)
(* allocations, task::init and task::spawn, on top of LinerAllocator.      *)
(* spawn boxes an AlignedStack, but setup_initial_call adds                *)
(* KERNEL_STACK_SIZE to a pointer to u64: the stack starts that many WORDs *)
(* above the box, and not that many bytes.  Kernel boot runs alone here    *)
(* (module Scheduler has the interleavings), one allocation a step.  What  *)
(* dealloc does is left out: it changes no address (see LinerAllocator).   *)
(***************************************************************************)
EXTENDS LinerAllocator, Sequences

CONSTANTS KERNEL_STACK_SIZE,  \* bytes of an AlignedStack
          WORD,               \* bytes of a u64
          PAGE,               \* alignment of AlignedStack and of PageTable
          ARC,                \* bytes of an Arc<SpinLock<Task>>
          BootLayouts,        \* what is allocated before task::init, in order
          TaskLayouts,        \* what the tasks may allocate later
          MaxTasks            \* tasks kernel_main creates, the idle one included

VARIABLES at,         \* what kernel_main does next
          booted,     \* how many of BootLayouts have been allocated
          kstack,     \* base of the box spawn holds
          tasks,      \* TASKS.len()
          capacity,   \* TASKS.capacity()
          stacks      \* of each task spawned: base of its box, first rsp

spawnVars == <<at, booted, kstack, tasks, capacity, stacks>>
stackVars == <<vars, spawnVars>>

StackLayout == [size |-> KERNEL_STACK_SIZE, align |-> PAGE]
PageTableLayout == [size |-> PAGE, align |-> PAGE]
ArcLayout == [size |-> ARC, align |-> WORD]
VecLayout(n) == [size |-> n * WORD, align |-> WORD]

(* The capacities a growing Vec of MaxTasks elements may take.             *)
Capacities == 1 .. 2 * MaxTasks + 4

(* One spawn moves the cursor by at most this much: four blocks, and the   *)
(* padding before each.                                                    *)
VecSize == (2 * MaxTasks + 4) * WORD
Slot == KERNEL_STACK_SIZE + 3 * PAGE + ARC + VecSize + 2 * WORD

(* All the slots end below the stack of the first task: true of            *)
(* kernel_main's three spawns with a 16 KiB stack and an 8-byte word.      *)
ASSUME StackAssumption ==
  /\ KERNEL_STACK_SIZE \in Nat \ {0} /\ WORD \in Nat \ {0}
  /\ PAGE \in Nat \ {0} /\ ARC \in Nat \ {0} /\ MaxTasks \in Nat \ {0}
  /\ BootLayouts \in Seq(Layouts)
  /\ TaskLayouts \subseteq Layouts
  /\ {StackLayout, PageTableLayout, ArcLayout} \subseteq Layouts
  /\ \A n \in Capacities : VecLayout(n) \in Layouts
  /\ WORD <= KERNEL_STACK_SIZE
  /\ (MaxTasks - 1) * Slot + KERNEL_STACK_SIZE <= KERNEL_STACK_SIZE * WORD

-----------------------------------------------------------------------------

StackInit ==
  /\ New
  /\ at = "allocator" /\ booted = 0
  /\ kstack = 0 /\ tasks = 0 /\ capacity = 0
  /\ stacks = <<>>

StartAllocator ==
  /\ at = "allocator"
  /\ \E h \in Heaps : InitAllocator(h)
  /\ at' = IF status' = "panic" THEN "panic" ELSE "boot"
  /\ UNCHANGED <<booted, kstack, tasks, capacity, stacks>>

(* Box::new, Arc::new and push end the kernel when alloc fails.            *)
Failed == status' = "panic" \/ result' = 0

(* init_paging, init_gdt and init_idt; the TSS leaks its eight stacks.     *)
BootAllocates ==
  /\ at = "boot" /\ booted < Len(BootLayouts)
  /\ Alloc(BootLayouts[booted + 1])
  /\ booted' = booted + 1
  /\ at' = IF Failed THEN "panic" ELSE "boot"
  /\ UNCHANGED <<kstack, tasks, capacity, stacks>>

(* task::init: the idle task runs on the loader's stack, and has no box.   *)
TaskInit ==
  /\ at = "boot" /\ booted = Len(BootLayouts)
  /\ at' = "arc"
  /\ UNCHANGED <<vars, booted, kstack, tasks, capacity, stacks>>

AllocateStackOnce ==
  /\ at = "kstack"
  /\ IF kstack = 0 THEN Alloc(StackLayout) ELSE UNCHANGED vars
  /\ kstack' = IF kstack = 0 THEN result' ELSE kstack
  /\ at' = IF kstack = 0 /\ Failed THEN "panic" ELSE "page_table"
  /\ UNCHANGED <<booted, tasks, capacity, stacks>>

AllocateStack ==
  /\ at = "kstack"
  /\ Alloc(StackLayout)
  /\ kstack' = result'
  /\ at' = IF Failed THEN "panic" ELSE "page_table"
  /\ UNCHANGED <<booted, tasks, capacity, stacks>>

(* duplicate_kernel.                                                       *)
AllocatePageTable ==
  /\ at = "page_table"
  /\ Alloc(PageTableLayout)
  /\ at' = IF Failed THEN "panic" ELSE "arc"
  /\ UNCHANGED <<booted, kstack, tasks, capacity, stacks>>

AllocateArc ==
  /\ at = "arc"
  /\ Alloc(ArcLayout)
  /\ at' = IF Failed THEN "panic" ELSE "push"
  /\ UNCHANGED <<booted, kstack, tasks, capacity, stacks>>

(* What follows the push: init returns and the spawns begin, spawn goes on.*)
AfterPush == CASE tasks > 0 -> "setup"
               [] tasks = 0 /\ MaxTasks > 1 -> "kstack"
               [] OTHER -> "run"

PushInPlace ==
  /\ at = "push" /\ tasks < capacity
  /\ tasks' = tasks + 1
  /\ at' = AfterPush
  /\ UNCHANGED <<vars, booted, kstack, capacity, stacks>>

(* A full Vec moves to one of twice the capacity, and at least 4.          *)
Grown == IF capacity = 0 THEN 4 ELSE 2 * capacity

PushGrowing ==
  /\ at = "push" /\ tasks = capacity
  /\ Alloc(VecLayout(Grown))
  /\ IF Failed
       THEN at' = "panic" /\ UNCHANGED <<tasks, capacity>>
       ELSE at' = AfterPush /\ tasks' = tasks + 1 /\ capacity' = Grown
  /\ UNCHANGED <<booted, kstack, stacks>>

FirstRspOfU16(base) == base + KERNEL_STACK_SIZE * (WORD \div 4) - WORD

(* stack_top.add(KERNEL_STACK_SIZE), and push_stack below it.              *)
FirstRsp(base) == base + KERNEL_STACK_SIZE * WORD - WORD

SetupInitialCall ==
  /\ at = "setup"
  /\ stacks' = Append(stacks, [base |-> kstack, rsp |-> FirstRsp(kstack)])
  /\ at' = IF tasks = MaxTasks THEN "run" ELSE "kstack"
  /\ UNCHANGED <<vars, booted, kstack, tasks, capacity>>

(* The tasks run: wasm_entry, the only one that allocates, does so for ever*)
TaskAllocates ==
  /\ at = "run"
  /\ \E l \in TaskLayouts : Alloc(l)
  /\ at' = IF Failed THEN "panic" ELSE "run"
  /\ UNCHANGED <<booted, kstack, tasks, capacity, stacks>>

StackNext ==
  \/ StartAllocator \/ BootAllocates \/ TaskInit
  \/ AllocateStack \/ AllocatePageTable \/ AllocateArc
  \/ PushInPlace \/ PushGrowing \/ SetupInitialCall
  \/ TaskAllocates

StackSpec == StackInit /\ [][StackNext]_stackVars

-----------------------------------------------------------------------------

(* The bytes a task uses when it goes no deeper than the size of its stack.*)
Bottom(s) == s.rsp + WORD - KERNEL_STACK_SIZE
Top(s) == s.rsp + WORD

(* The stacks of two tasks share no byte, although none of them lies in    *)
(* the box spawn allocated for it: the boxes are apart by a stack's size   *)
(* at least, and every stack is as far above its box as the others.        *)
StacksDisjoint ==
  \A i, j \in 1 .. Len(stacks) :
    i < j => Top(stacks[i]) <= Bottom(stacks[j])

(* Until the tasks run, nothing that boot has allocated, before or after a *)
(* spawn, reaches into the stack it made: the word push_stack writes for   *)
(* one task overwrites nothing, and is not overwritten for a later one.    *)
BootLeavesStacksAlone ==
  at \notin {"run", "panic"} =>
    \A i \in 1 .. Len(stacks), b \in granted :
      b.base # stacks[i].base =>
        b.base + b.size <= Bottom(stacks[i]) \/ Top(stacks[i]) <= b.base
===============================================================================
