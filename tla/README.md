# Verification of noctis

noctis is a small x86-64 kernel in Rust with a UEFI loader. This directory holds
TLA+ models of its parts, the TLC configurations that check them on small
instances, and TLAPS proofs. Line numbers and the definition-by-definition
correspondence to the source are in `PROJECT.json`.

## The system and its parts

| Part | Source | Module | Status |
|---|---|---|---|
| Loader boot sequence, memory map | `loader/src/main.rs`, `memory.rs` | `Loader` | modelled |
| Loader page tables | `loader/src/paging.rs` | `Paging` | partly |
| Kernel page tables | `kernel/src/paging.rs`, `memlayout.rs` | `Paging` | modelled |
| Heap allocator | `kernel/src/allocator.rs` | `LinerAllocator`, `Heap` | modelled |
| Kernel stacks of tasks | `kernel/src/task.rs`, `main.rs` | `TaskStack` | modelled |
| Interrupt entry and exit, IDT | `kernel/src/idt.rs`, `task.rs` | `InterruptEntry`, `Descriptors` | modelled |
| GDT and TSS | `kernel/src/gdt.rs` | `Descriptors`, `InterruptEntry` | partly: not the register loads |
| Address types | `kernel/src/memlayout.rs` | `Paging` | partly: not the arithmetic traits |
| Spin lock | `kernel/src/spin.rs` | `Scheduler` | modelled |
| Task scheduler | `kernel/src/task.rs` | `Scheduler`, `RoundRobin` | modelled |
| Timer | `kernel/src/timer.rs` | `Scheduler` | partly: not the count |
| Kernel boot | `kernel/src/main.rs` | `Scheduler`, `TaskStack` | partly: not `kernel_entry` |
| WebAssembly interpreter | `kernel/src/wasm.rs` | `Wasm`, `WasmReference` | modelled |
| Memory regions, serial port, log, CPU wrappers, test harness | `memory.rs`, `uart.rs`, `log.rs`, `x86.rs`, `qemu.rs`, `test.rs` of the kernel | none | not modelled |

The loader reads the firmware's memory map, builds a first page table, loads the
kernel, exits boot services and jumps. The kernel sets up its heap, its own page
table and its descriptor tables, starts the timer, turns itself into the idle task
and spawns three workers: `task_a`, `task_b` and `wasm_entry`, which runs the
interpreter. The timer interrupts the running task; every third tick switches to
the next runnable one. All shared state is behind spin locks whose `lock` disables
interrupts and whose guards' `drop` enables them.

## Modules

**Scheduler.** A task's kernel stack is a sequence of activation records. The base
record is the task's own code, each further one a timer interrupt that has not
returned. The CPU executes the top record of stack `on`, one step per piece of code
within which an interrupt makes no difference. `lock` is two steps, the swap and
then the `cli`, because an interrupt between them is possible. A failing swap is
the absence of a step. `drop` is a store and an unconditional `sti`.
`TimerInterrupt` is enabled when the flag is set and the APIC is not waiting for an
end-of-interrupt. A saved context is a stack, a depth, a return point and an
interrupt flag. A `ret` through a context that no longer points to a suspended
activation sets `status` to `"astray"`.

`RoundRobin` is the abstract promise: the CPU passes to the first ready task after
the current one.

**InterruptEntry.** The same interrupts one level down. The entry stubs,
`interrupt_handler_common` and `switch_inner` are data, sequences of instructions
that a small CPU executes one at a time on words of memory: the tasks' stacks and
the stack of IST 1. `interrupt_handler` and `check_and_schedule` are compiled code;
they keep the callee-saved registers and leave anything in the others. An interrupt
goes through the gate that `Idt` packed, to the stack its IST index names. `pending`
is a history variable: what each interrupt interrupted.

**Descriptors.** The packing of gates, segments and the TSS, as functions from sets
of bits to sets of bits, so that addresses keep their 64 bits; and the CPU's reading
of them.

**LinerAllocator.** `init`, `alloc` and `dealloc`, one step each, with a `usize` of
`0..MAX`. The `+` that has no check panics on overflow, as in the debug build that
`cargo build` of the Taskfile makes. `Heap` is the abstract promise: blocks are aligned, in the heap
and disjoint while in use.

**TaskStack.** Composes the allocator with what `kernel_main`, `task::init` and
`task::spawn` allocate, one allocation a step. `setup_initial_call` adds
`KERNEL_STACK_SIZE` to a `*mut u64` (`task.rs:63`), so the first `rsp` lies eight
stack sizes above the box and not one; the model has it so.

**Loader.** `main` of the loader against a firmware that may allocate at any time
until boot services are exited. Memory is a row of pages with the types of the UEFI
map; a descriptor is a maximal run of one type. A map key is the map's revision.
Every allocation may land on any free pages, and every `expect` may fail.

**Paging.** `map` one table or one entry per step, for the calls that `init_paging`
and `init_early_paging` make, then `duplicate_kernel`. `Translate` is the
hardware's walk, written apart from the code. Attributes are names.

**Wasm.** One action per instruction of `execute`, plus `call` and its return.
`WasmReference` compiles structured programs to the interpreter's instructions and
evaluates them directly; the interpreter's result must be the direct one.

Definitions marked as mutants, or named after a bug, are faulty variants of the
definition that follows. They are used to show that each property can fail.

## Runs

| Run | States | Shows |
|---|---|---|
| `scheduler_benign` | 78,343 | no hopeless spin, records and saved contexts agree, round robin is implemented, the boot completes and no task starves |
| `scheduler_any` | 540,404 | what holds wherever a slice ends |
| `scheduler_nested_switch` | violation | a slice that ends inside `switch` saves into the wrong context |
| `interrupt` | 683,512 | every handler sees its interrupt, every `iretq` goes back to what was interrupted, no switch on IST 1 |
| `interrupt_registers` | violation | `check_and_schedule` runs after the registers are restored and may change them |
| `allocator` | 17,627 | blocks never overlap, the lowest place is taken, nothing comes back |
| `task_stack` | 4,212 | tasks' stacks are disjoint and boot allocates nothing inside one |
| `loader` | 764,930 | the kernel is copied onto its own pages and found where it is linked, no region is dropped, the exit fails only if the firmware moved the map |
| `loader_regions` | violation | the kernel's first page tables are in regions handed over as usable |
| `wasm` | 198,043 | 610 programs and the two functions of `wasm_entry` give the result they mean |
| `paging` | 1,259 | tables translate exactly as asked, at every step and in every copy |
| `paging_bound` | violation | `virt_to_phys` answers for the address after the direct mapping |

### What the scheduler results depend on

The scheduler is **not** correct when a slice may end at any instruction.
`scheduler_benign` sets `PREEMPTION` to `"benign"`. Ticks then still arrive at any
instruction, but the tick that *ends* a slice finds a task's own code with no
scheduler lock held, a current task, and a second runnable task. The code does not
enforce this; the long timer period only makes it likely. Without the restriction
TLC finds `SpinsEnd`, `RunningTaskAgrees` and `SavedContextsIntact` violated:

- a slice that ends before `task::init` is done panics in `current_task`;
- one that ends while the idle task is the only runnable one makes `switch` lock
  the same task twice, with interrupts off;
- one that ends inside `switch` corrupts a saved context;
- one that ends while the interrupted code holds `TASKS` spins for ever.

The third is a finding, because a comment of the source states the contrary.
`scheduler_any` and the proofs make no such restriction. `interrupt` has it in its
own form: with `InSwitch = FALSE` no timer interrupt arrives between the choice of
the next task and the end of `switch_inner`, where the nested switch of
`scheduler_nested_switch` would happen.

### What the stack results depend on

`BootLeavesStacksAlone` is about boot. Once the tasks run, `wasm_entry` allocates
for ever, and the cursor of the allocator reaches the memory between a stack's box
and its first `rsp`, then the stack itself. Without its condition on boot TLC finds
the property violated.

### Bounds

- Scheduler: the three real workers and the real slice of 3 ticks; four records per
  stack (`MaxNesting`). `scheduler_any` uses one worker and three records per stack,
  enough for a switch to be nested in a switch.
- InterruptEntry: two tasks, two interrupts nested on one task and three in all
  (`MaxNesting`, `MaxPending`), so that a handler is interrupted while another task
  is suspended in one. Stacks of 60 words hold that depth.
- Allocator: addresses of 4 bits, four heaps (aligned, odd, ending at and past the
  last address), sizes 1 and 3, alignments 1, 2 and 4.
- TaskStack: the sizes of the code and the four tasks `kernel_main` makes; heaps that
  end before, during and after the spawns. What the tasks allocate is bounded by the
  heap.
- Loader: eleven pages of two bytes; three kernels, with bss, with segments that end
  inside a page and with segments apart; one page table node; two allocations of the
  firmware (`MaxActs`), which may fall on either side of any call; five regions, so
  that maps above and below the limit occur.
- Wasm: up to two statements nested to depth two, a caller with operands waiting and
  a recursion, and the real functions for a diamond of height 15; 5-bit integers, so
  overflow happens. One leftover frame (`MaxLeft`).
- Paging: 3 entries per node and 2 bytes per page, so sections end inside pages and
  cross tables and directories; three page tables (`MaxTables`).

### Fairness

`FairSpec` assumes that the CPU keeps executing, that the periodic timer keeps
interrupting, and, as strong fairness, that a task that gets the CPU again and again
also gets steps done. The last rests on the timer period (2^24 counts) being longer
than the handler. `paging` assumes only that the set-up code keeps running, `wasm`
the same of the interpreter. The other specifications have no fairness, and no
liveness is checked of them.

Deadlock is checked in `scheduler_benign` and in the loader's runs. The other systems
may stop: after a panic, with a full heap, or when the bounded number of calls,
copies or interrupts has been made.

## Proofs

Each theorem holds for every value of the constants that the named assumptions of
its module allow, and for every interleaving.

**SchedulerProofs**: `TypeOK`,
`TimerLockFree`, `OneEndOfInterrupt`, `PanicOnlyBeforeInit` and `HltWakes`, for every
set of tasks, slice length and nesting bound. Assumed: tasks and locks are distinct
values, no worker is spawned twice. The properties are not inductive by themselves.
The inductive invariant `IInv` adds:

- `StackInv`: what the locals of every suspended record rely on, for instance that
  the task chosen by `switch` has a page table. These facts, once true, stay true
  (`Mono`), so a record need not be looked at again until it is on top.
- `KernelInv`: a runnable task has a page table, and a fresh context enables
  interrupts.
- `TimerInv`: the timer lock is held exactly by a top record that awaits its
  end-of-interrupt. This is why the handler never spins on it.

**LinerAllocatorProofs**: for every heap and set of layouts, the type invariant holds;
blocks are disjoint, fit and are aligned; the panic needs a heap ending within one
alignment of the top; the lowest place is taken; a request that fails once fails for
ever; and the allocator implements `Heap`. The invariant adds `start <= next <= end`
and the fields' values before `init`.

**TaskStackProofs**: `StacksDisjoint` and `BootLeavesStacksAlone`, on top of the
allocator's invariant. Assumed (`StackAssumption`): what the spawns allocate fits
between the first box and the lowest byte of its stack, which is so for the real sizes
and four tasks. The invariant counts how far the cursor has moved since each box: one
`Slot` per finished spawn and `Spent` for the one in progress.

**LoaderProofs**: every invariant of `Loader` that a passing run checks, for every
memory map, every kernel file and any number of allocations of the firmware. Assumed
(`LoaderAssumption`): what a linker guarantees, that virtual and physical addresses
differ by the same amount in every segment, that the lowest segment starts at a page
and that segments do not overlap. The arguments:

- `CopiesOntoKernelPages`: the pages `get_kernel_size` yields contain every segment
  (`ImageFits`), and a page of the kernel is never free again (`OwnerInv`).
- `KernelSeesImage`: a loaded segment keeps its bytes while the later ones are copied,
  because they are disjoint (`ImageInv`).
- `SpareDescriptorsSuffice`: an allocation splits at most one run of the map, so it
  adds at most two descriptors (`RunAddsTwo`); four spare ones cover the buffer's own
  allocation and one more (`SpareInv`).
- `RegionsComplete`: after n rounds of the loop the array describes exactly the pages
  below the n-th descriptor (`RegionInv`).
- `ExitFailsOnlyIfMapMoved`: the key is read after the last allocation (`ExitInv`).

**PagingTree, PagingSteps, PagingProofs**: `NoWildWalk`, `MappedAsAsked`,
`NothingElseTouched`, `TablesFormTree`, `SoftwareAgrees` and `CopiesTranslateAlike`,
for every node size, page size, image and number of tables. Assumed: the layout
constants are aligned and ordered as in `memlayout.rs` (`PagingAssumption`); the
sections of the image follow each other on page boundaries, as `kernel.ld` places them
(`ImageAssumption`). None of the properties is inductive. `TableInv` adds:

- `NodesInv`: nodes are consecutive from the start of the heap, so a new one is never
  an old one.
- `TreeInv`: there are a level and a page prefix for every node such that each link
  leads one level down, to the node whose prefix is that of the table followed by the
  index (`Tree`); and the node `map` holds is the one for the page it is at (`Here`).
  Two links to one node would give it two prefixes.
- `OpInv`, `CallsInv`: 4 KiB pages and huge pages are asked for below different PML4
  entries. This is why a walk never meets a huge page.
- `MapInv`: the pages before `op.i` translate as asked, the others as before the call.
- `AgreeInv`: what the calls ask for is what `virt_to_phys` computes.

`PagingTree` has the arithmetic of page numbers as digits, the calls the two programs
make and what writing an entry does to the tree; `PagingSteps` has one lemma per step
of `map`; `PagingProofs` puts them together. `SoftwareAgrees` is proved for the states
in which the nodes lie in the memory that is mapped directly (`HeapDirectMapped`): the
allocator does not check that, and the instance TLC checks satisfies it. For
`CopiesTranslateAlike` a separate invariant says that every copy agrees with the root
on each present entry (`CopiesInv`).

**DescriptorProofs**: for all addresses, selectors, IST indices, bases and limits, the
CPU reads back from a gate, a TSS descriptor, a code segment and a data segment what
the kernel packed. These are statements about functions; no run checks them, but the
gates of `InterruptEntry` are packed and read with the same functions.

Only model-checked: liveness and everything under fairness, which the prover does not
support; the properties that need benign slices, and the refinement of `RoundRobin`;
`InterruptEntry`, whose invariant would be the layout of every stack at every
instruction; the interpreter, whose properties hold for compiled programs and whose
reference is recursive.

## Not modelled

- The PML4 that the loader leaves in a dead stack frame (`loader/src/paging.rs:374`)
  and the registers the compiler picks in `kernel_entry` (`kernel/src/main.rs:39`):
  the source does not determine the outcome.
- The tick count of the timer (`timer.rs:37`), which only dead code reads. In the
  debug build its 2^32nd increment panics before the test for 0 that follows it; the
  models have no count, so no result here covers that tick.
- The number of bytes a nested interrupt takes on a stack. The compiler decides it;
  the models bound the nesting instead.
- The loads of `gdtr`, `tr`, `idtr` and the segment registers, single instructions
  executed once.
- The fields of `InterruptRegisters`. Their order differs from that of the pushes, but
  only a commented-out line reads them; the fields that are read (vector, error code,
  rip) are in `HandlerSeesInterrupt`.
- Conditionals inside expressions of a wasm program, with operands below them. The
  repository contains none. A skipped `If` leaves its label behind, and the results
  are right only because the label records the height at a statement.
- Mappings made after a page table has been copied. The code makes none.
- The kernel's use of the memory regions: `kernel_main` ignores the argument.
- Serial output, logging, the wrappers of single instructions and the test harness:
  port I/O and formatting without state that another part reads.
