------------------------------- MODULE Scheduler -------------------------------
(***************************************************************************)
(* The kernel's preemptive scheduler on its one CPU: the spin lock with    *)
(* its cli/sti (spin.rs), the local APIC timer interrupt (timer.rs and     *)
(* interrupt_handler in idt.rs), task::init, task::spawn and task::switch  *)
(* (task.rs), driven by kernel_main (main.rs).                             *)
(*                                                                         *)
(* Code runs on kernel stacks.  stack[t] is the stack of task t: a         *)
(* sequence of activation records, the base record being the task's own    *)
(* code and every further one a timer interrupt that has not returned yet. *)
(* The CPU executes the top record of stack[on].  A timer interrupt may    *)
(* push a record whenever the interrupt flag is set and the local APIC is  *)
(* not waiting for an end-of-interrupt.  Instructions between two points   *)
(* at which an interrupt can be told apart are one step.                   *)
(***************************************************************************)
EXTENDS Naturals, Sequences, FiniteSets

CONSTANTS Idle,         \* the task kernel_main becomes in task::init
          Worker,       \* the tasks made by task::spawn
          Workers,      \* the order in which kernel_main spawns them
          Allocating,   \* the workers whose code allocates (wasm_entry)
          NoTask,       \* None, and the holder of a free lock
          SLICE,        \* ticks after which check_and_schedule switches
          MaxNesting,   \* model bound: activation records per stack
          PREEMPTION    \* "any": a slice may end at any instruction
                        \* "benign": see BenignSliceEnd

Task == {Idle} \cup Worker

StaticLock == {"TASKS", "CURRENT_TASK", "LOCAL_APIC_TIMER", "ALLOCATOR"}
Lock == StaticLock \cup Task      \* every Task sits in a SpinLock of its own

ASSUME TaskAssumption ==
  /\ Idle \notin Worker
  /\ NoTask \notin Task \cup StaticLock
  /\ Task \cap StaticLock = {}
  /\ Workers \in Seq(Worker)
  /\ \A j, k \in DOMAIN Workers : Workers[j] = Workers[k] => j = k
  /\ Allocating \subseteq Worker

ASSUME BoundAssumption ==
  /\ SLICE \in Nat \ {0}
  /\ MaxNesting \in Nat \ {0}
  /\ PREEMPTION \in {"any", "benign"}

-----------------------------------------------------------------------------
(* Program points.  A point in SwapPC is a call of SpinLock::lock.         *)

BasePC == {"boot_cli", "init_alloc", "push", "push_alloc", "push_write",
           "init_current", "stack_alloc", "spawn_current", "dup", "dup_alloc",
           "dup_drop", "arc_alloc", "ready", "boot_sti", "work", "work_alloc"}

HandlerPC == {"increment_count", "end_of_interrupt", "tick", "check",
              "sw_enter", "sw_tasks", "sw_current", "sw_probe",
              "sw_drop_tasks", "sw_prev", "sw_next", "sw_set_current",
              "sw_mark", "sw_drop_prev", "sw_drop_next", "sw_save", "sw_load",
              "sw_return", "iretq"}

SwapPC == {"init_alloc", "push", "push_alloc", "init_current", "stack_alloc",
           "spawn_current", "dup", "dup_alloc", "arc_alloc", "ready",
           "work_alloc", "increment_count", "end_of_interrupt", "sw_tasks",
           "sw_current", "sw_probe", "sw_prev", "sw_next", "sw_set_current"}

(* An activation record: the program point; whether lock() has done its    *)
(* swap and not yet its cli; and the local variables of spawn and switch.  *)
Frame == [pc : BasePC \cup HandlerPC, got : BOOLEAN,
          new : Task \cup {NoTask}, prev : Task \cup {NoTask},
          next : Task \cup {NoTask}, i : Nat, start : Nat]

FrameAt(p) == [pc |-> p, got |-> FALSE, new |-> NoTask, prev |-> NoTask,
               next |-> NoTask, i |-> 0, start |-> 0]

(* TaskContext: rsp as a stack and a depth in it, the return address found *)
(* there, and the interrupt flag of rflags.  NoContext is the default one, *)
(* whose rsp is 0.                                                         *)
NoContext == [stk |-> NoTask, depth |-> 0, pc |-> "work", iflag |-> FALSE]

TaskContext == [stk : Task \cup {NoTask}, depth : Nat,
                pc : {"work", "sw_return"}, iflag : BOOLEAN]

TaskRecord == [state : {"Stopped", "Runnable"}, running : BOOLEAN,
               page_table : BOOLEAN, context : TaskContext]

(* Task::new: page_table tells only whether the Option is Some.            *)
NewTask == [state |-> "Stopped", running |-> FALSE, page_table |-> FALSE,
            context |-> NoContext]

VARIABLES
  on,            \* whose kernel stack rsp points into
  iflag,         \* the interrupt flag of the CPU
  in_service,    \* the APIC awaits the end of a timer interrupt
  ticks,         \* CpuContextBlock::ticks
  held,          \* per lock: the stack its guard lives on, or NoTask
  tasks,         \* the Vec in TASKS
  current_task,  \* CpuContextBlock::current_task
  task,          \* per task: the Task in its SpinLock
  cr3,           \* whose page table is loaded
  stack,         \* per task: its kernel stack
  status         \* "running", or why the CPU stopped for good

vars == <<on, iflag, in_service, ticks, held, tasks, current_task, task, cr3,
          stack, status>>

kernelVars == <<tasks, current_task, task, cr3>>

-----------------------------------------------------------------------------
(* State functions and step helpers                                        *)

Depth == Len(stack[on])
Top == stack[on][Depth]

SetTop(f) == stack' = [stack EXCEPT ![on] = [@ EXCEPT ![Len(@)] = f]]
Goto(p) == SetTop([Top EXCEPT !.pc = p, !.got = FALSE])

(* The code at p runs; at a lock call, the swap is still to be done.       *)
At(p) == status = "running" /\ Top.pc = p /\ ~Top.got

(* The swap of the lock call at p succeeded; the cli comes next.           *)
Locked(p) == status = "running" /\ Top.pc = p /\ Top.got

(* Drop of a SpinGuard: the store and then an unconditional sti.           *)
Drop(l) == held' = [held EXCEPT ![l] = NoTask] /\ iflag' = TRUE

Halt(why) ==
  /\ status' = why
  /\ iflag' = FALSE
  /\ UNCHANGED <<on, in_service, ticks, held, tasks, current_task, task, cr3,
                 stack>>

(* The lock that the lock call of record f is for.                         *)
Wanted(f) ==
  CASE f.pc \in {"init_alloc", "push_alloc", "stack_alloc", "dup_alloc",
                 "arc_alloc", "work_alloc"} -> "ALLOCATOR"
    [] f.pc \in {"push", "sw_tasks"} -> "TASKS"
    [] f.pc \in {"init_current", "spawn_current", "sw_current",
                 "sw_set_current"} -> "CURRENT_TASK"
    [] f.pc \in {"increment_count", "end_of_interrupt"} -> "LOCAL_APIC_TIMER"
    [] f.pc = "ready" -> f.new
    [] f.pc \in {"dup", "sw_prev"} -> f.prev
    [] f.pc = "sw_next" -> f.next
    [] f.pc = "sw_probe" -> tasks[f.i + 1]

Init ==
  /\ on = Idle
  /\ iflag = TRUE
  /\ in_service = FALSE
  /\ ticks = 0
  /\ held = [l \in Lock |-> NoTask]
  /\ tasks = <<>>
  /\ current_task = NoTask
  /\ task = [t \in Task |-> NewTask]
  /\ cr3 = Idle
  /\ stack = [t \in Task |-> <<FrameAt(IF t = Idle THEN "boot_cli" ELSE "work")>>]
  /\ status = "running"

-----------------------------------------------------------------------------
(* SpinLock::lock: the swap that ends the spin loop.  A failing swap       *)
(* changes nothing, so spinning is the absence of this step.               *)

Swap ==
  /\ status = "running"
  /\ Top.pc \in SwapPC
  /\ ~Top.got
  /\ held[Wanted(Top)] = NoTask
  /\ held' = [held EXCEPT ![Wanted(Top)] = on]
  /\ SetTop([Top EXCEPT !.got = TRUE])
  /\ UNCHANGED <<on, iflag, in_service, ticks, status, kernelVars>>

-----------------------------------------------------------------------------
(* The timer interrupt                                                     *)

(* Ticks that interrupts already taken have still to add.                  *)
InFlight == Cardinality({d \in DOMAIN stack[on] :
               stack[on][d].pc \in {"increment_count", "end_of_interrupt", "tick"}})

Runnable == {t \in Task : task[t].state = "Runnable"
                          /\ \E k \in DOMAIN tasks : tasks[k] = t}

(* The last tick of a slice finds base code that holds no lock of the      *)
(* scheduler, and there are two tasks to switch between.                   *)
BenignSliceEnd ==
  /\ Depth = 1
  /\ \A l \in Lock \ {"ALLOCATOR"} : held[l] = NoTask
  /\ current_task # NoTask
  /\ \E t \in Runnable : t # current_task

TimerInterrupt ==
  /\ status = "running"
  /\ iflag
  /\ ~in_service
  /\ Depth < MaxNesting
  /\ \/ PREEMPTION = "any"
     \/ ticks + InFlight + 1 < SLICE
     \/ BenignSliceEnd
  /\ stack' = [stack EXCEPT ![on] = Append(@, FrameAt("increment_count"))]
  /\ iflag' = FALSE
  /\ in_service' = TRUE
  /\ UNCHANGED <<on, ticks, held, status, kernelVars>>

(* Mutant of IncrementCount: the EOI is sent before the count.             *)
IncrementCountAfterEoi ==
  /\ Locked("increment_count")
  /\ in_service' = FALSE
  /\ Drop("LOCAL_APIC_TIMER")
  /\ Goto("end_of_interrupt")
  /\ UNCHANGED <<on, ticks, status, kernelVars>>

IncrementCount ==
  /\ Locked("increment_count")
  /\ Drop("LOCAL_APIC_TIMER")
  /\ Goto("end_of_interrupt")
  /\ UNCHANGED <<on, in_service, ticks, status, kernelVars>>

(* Mutant of NotifyEndOfInterrupt: the register is not written.            *)
NotifyWithoutEoi ==
  /\ Locked("end_of_interrupt")
  /\ Drop("LOCAL_APIC_TIMER")
  /\ Goto("tick")
  /\ UNCHANGED <<on, in_service, ticks, status, kernelVars>>

NotifyEndOfInterrupt ==
  /\ Locked("end_of_interrupt")
  /\ in_service' = FALSE
  /\ Drop("LOCAL_APIC_TIMER")
  /\ Goto("tick")
  /\ UNCHANGED <<on, ticks, status, kernelVars>>

(* Mutant of Tick: the tick is not counted.                                *)
TickUncounted ==
  /\ At("tick")
  /\ Goto("check")
  /\ UNCHANGED <<on, iflag, in_service, ticks, held, status, kernelVars>>

Tick ==
  /\ At("tick")
  /\ ticks' = ticks + 1
  /\ Goto("check")
  /\ UNCHANGED <<on, iflag, in_service, held, status, kernelVars>>

CheckAndSchedule ==
  /\ At("check")
  /\ Goto(IF ticks >= SLICE THEN "sw_enter" ELSE "iretq")
  /\ UNCHANGED <<on, iflag, in_service, ticks, held, status, kernelVars>>

(* An interrupt is taken only with the flag set, so iretq sets it again.   *)
Iretq ==
  /\ At("iretq")
  /\ stack' = [stack EXCEPT ![on] = SubSeq(@, 1, Len(@) - 1)]
  /\ iflag' = TRUE
  /\ UNCHANGED <<on, in_service, ticks, held, status, kernelVars>>

-----------------------------------------------------------------------------
(* task::switch                                                            *)

SwitchEnter ==
  /\ At("sw_enter")
  /\ iflag' = FALSE
  /\ ticks' = 0
  /\ Goto("sw_tasks")
  /\ UNCHANGED <<on, in_service, held, status, kernelVars>>

SwitchLockTasks ==
  /\ Locked("sw_tasks")
  /\ iflag' = FALSE
  /\ Goto("sw_current")
  /\ UNCHANGED <<on, in_service, ticks, held, status, kernelVars>>

(* The index at which the round-robin search starts.                       *)
SearchStart(cur) ==
  IF \E k \in DOMAIN tasks : tasks[k] = cur
  THEN (CHOOSE k \in DOMAIN tasks : tasks[k] = cur) % Len(tasks)
  ELSE 0

SwitchCurrent ==
  /\ Locked("sw_current")
  /\ IF current_task = NoTask
     THEN Halt("panic")
     ELSE /\ Drop("CURRENT_TASK")
          /\ SetTop([Top EXCEPT !.pc = IF tasks = <<>> THEN "sw_drop_tasks"
                                                     ELSE "sw_probe",
                                !.got = FALSE,
                                !.prev = current_task,
                                !.next = NoTask,
                                !.i = SearchStart(current_task),
                                !.start = SearchStart(current_task)])
          /\ UNCHANGED <<on, in_service, ticks, status, kernelVars>>

(* Mutant of SwitchProbe: the guard of the probed task lives on.           *)
SwitchProbeKeepsGuard ==
  /\ Locked("sw_probe")
  /\ iflag' = FALSE
  /\ SetTop([Top EXCEPT !.pc = "sw_drop_tasks", !.got = FALSE,
                        !.next = tasks[Top.i + 1]])
  /\ UNCHANGED <<on, in_service, ticks, held, status, kernelVars>>

SwitchProbe ==
  /\ Locked("sw_probe")
  /\ Drop(Wanted(Top))
  /\ LET candidate == tasks[Top.i + 1]
         following == (Top.i + 1) % Len(tasks)
     IN IF task[candidate].state = "Runnable"
        THEN SetTop([Top EXCEPT !.pc = "sw_drop_tasks", !.got = FALSE,
                                !.next = candidate])
        ELSE SetTop([Top EXCEPT !.pc = IF following = Top.start
                                       THEN "sw_drop_tasks" ELSE "sw_probe",
                                !.got = FALSE,
                                !.i = following])
  /\ UNCHANGED <<on, in_service, ticks, status, kernelVars>>

SwitchDropTasks ==
  /\ At("sw_drop_tasks")
  /\ Drop("TASKS")
  /\ Goto(IF Top.next = NoTask THEN "sw_return" ELSE "sw_prev")
  /\ UNCHANGED <<on, in_service, ticks, status, kernelVars>>

SwitchLockPrev ==
  /\ Locked("sw_prev")
  /\ iflag' = FALSE
  /\ Goto("sw_next")
  /\ UNCHANGED <<on, in_service, ticks, held, status, kernelVars>>

SwitchLockNext ==
  /\ Locked("sw_next")
  /\ iflag' = FALSE
  /\ Goto("sw_set_current")
  /\ UNCHANGED <<on, in_service, ticks, held, status, kernelVars>>

SwitchSetCurrent ==
  /\ Locked("sw_set_current")
  /\ current_task' = Top.next
  /\ Drop("CURRENT_TASK")
  /\ Goto("sw_mark")
  /\ UNCHANGED <<on, in_service, ticks, status, tasks, task, cr3>>

(* Mutant of SwitchMark: prev.running is not cleared.                      *)
SwitchMarkNextOnly ==
  /\ At("sw_mark")
  /\ task' = [task EXCEPT ![Top.next].running = TRUE]
  /\ cr3' = Top.next
  /\ Goto("sw_drop_prev")
  /\ UNCHANGED <<on, iflag, in_service, ticks, held, tasks, current_task, status>>

(* The running flags and write_cr3, whose unwrap needs a page table.       *)
SwitchMark ==
  /\ At("sw_mark")
  /\ task' = [[task EXCEPT ![Top.prev].running = FALSE]
                   EXCEPT ![Top.next].running = TRUE]
  /\ IF task[Top.next].page_table
     THEN /\ cr3' = Top.next
          /\ Goto("sw_drop_prev")
          /\ UNCHANGED <<iflag, status>>
     ELSE /\ status' = "panic"
          /\ iflag' = FALSE
          /\ UNCHANGED <<cr3, stack>>
  /\ UNCHANGED <<on, in_service, ticks, held, tasks, current_task>>

SwitchDropPrev ==
  /\ At("sw_drop_prev")
  /\ Drop(Top.prev)
  /\ Goto("sw_drop_next")
  /\ UNCHANGED <<on, in_service, ticks, status, kernelVars>>

SwitchDropNext ==
  /\ At("sw_drop_next")
  /\ Drop(Top.next)
  /\ Goto("sw_save")
  /\ UNCHANGED <<on, in_service, ticks, status, kernelVars>>

(* Mutant of SwitchSave: the contexts are swapped.                         *)
SwitchSaveToNext ==
  /\ At("sw_save")
  /\ task' = [task EXCEPT ![Top.next].context =
                 [stk |-> on, depth |-> Depth, pc |-> "sw_return", iflag |-> iflag]]
  /\ Goto("sw_load")
  /\ UNCHANGED <<on, iflag, in_service, ticks, held, tasks, current_task, cr3, status>>

(* switch_inner, up to the store of rsp into the current context.          *)
SwitchSave ==
  /\ At("sw_save")
  /\ task' = [task EXCEPT ![Top.prev].context =
                 [stk |-> on, depth |-> Depth, pc |-> "sw_return", iflag |-> iflag]]
  /\ Goto("sw_load")
  /\ UNCHANGED <<on, iflag, in_service, ticks, held, tasks, current_task, cr3, status>>

(* rsp is usable if it is the top of a fresh stack, or if the activation   *)
(* record it points to is still suspended in switch_inner.                 *)
Resumable(c) ==
  /\ c.stk # NoTask
  /\ \/ c.pc = "work"
     \/ /\ c.depth \in DOMAIN stack[c.stk]
        /\ stack[c.stk][c.depth].pc = "sw_load"

(* switch_inner, from the loads to its ret.  With any other rsp the ret    *)
(* takes its address from memory that is no longer a return address.       *)
SwitchLoad ==
  /\ At("sw_load")
  /\ LET c == task[Top.next].context
         resumed == [stack[c.stk][c.depth] EXCEPT !.pc = c.pc, !.got = FALSE]
     IN IF ~Resumable(c)
        THEN Halt("astray")
        ELSE /\ on' = c.stk
             /\ stack' = [stack EXCEPT ![c.stk] =
                            [SubSeq(stack[c.stk], 1, c.depth) EXCEPT ![c.depth] = resumed]]
             /\ iflag' = c.iflag
             /\ UNCHANGED <<in_service, ticks, held, status, kernelVars>>

(* Mutant of SwitchReturn: jumps to the task's code, with no iretq.        *)
SwitchReturnToTask ==
  /\ At("sw_return")
  /\ iflag' = TRUE
  /\ Goto("work")
  /\ UNCHANGED <<on, in_service, ticks, held, status, kernelVars>>

SwitchReturn ==
  /\ At("sw_return")
  /\ iflag' = TRUE
  /\ Goto("iretq")
  /\ UNCHANGED <<on, in_service, ticks, held, status, kernelVars>>

-----------------------------------------------------------------------------
(* kernel_main: task::init, then one task::spawn per worker                *)

BootDisableInterrupts ==
  /\ At("boot_cli")
  /\ iflag' = FALSE
  /\ Goto("init_alloc")
  /\ UNCHANGED <<on, in_service, ticks, held, status, kernelVars>>

(* The allocation in Arc::new, after the fields of the idle task are set.  *)
InitTask ==
  /\ Locked("init_alloc")
  /\ task' = [task EXCEPT ![Idle].state = "Runnable", ![Idle].running = TRUE,
                          ![Idle].page_table = TRUE]
  /\ Drop("ALLOCATOR")
  /\ SetTop([Top EXCEPT !.pc = "push", !.got = FALSE, !.new = Idle])
  /\ UNCHANGED <<on, in_service, ticks, status, tasks, current_task, cr3>>

(* Vec::push finds its buffer full: capacity 0, then 4, 8, 16, ...         *)
Full(n) == n = 0 \/ \E k \in 0..n : n = 4 * 2^k

AfterPush == IF Top.new = Idle THEN "init_current" ELSE "ready"

(* Mutant of PushFits: the new task goes to the front.                     *)
PushFitsInFront ==
  /\ Locked("push")
  /\ ~Full(Len(tasks))
  /\ tasks' = <<Top.new>> \o tasks
  /\ Drop("TASKS")
  /\ Goto(AfterPush)
  /\ UNCHANGED <<on, in_service, ticks, status, current_task, task, cr3>>

PushFits ==
  /\ Locked("push")
  /\ ~Full(Len(tasks))
  /\ tasks' = Append(tasks, Top.new)
  /\ Drop("TASKS")
  /\ Goto(AfterPush)
  /\ UNCHANGED <<on, in_service, ticks, status, current_task, task, cr3>>

PushGrows ==
  /\ Locked("push")
  /\ Full(Len(tasks))
  /\ iflag' = FALSE
  /\ Goto("push_alloc")
  /\ UNCHANGED <<on, in_service, ticks, held, status, kernelVars>>

PushAllocate ==
  /\ Locked("push_alloc")
  /\ Drop("ALLOCATOR")
  /\ Goto("push_write")
  /\ UNCHANGED <<on, in_service, ticks, status, kernelVars>>

PushWrite ==
  /\ At("push_write")
  /\ tasks' = Append(tasks, Top.new)
  /\ Drop("TASKS")
  /\ Goto(AfterPush)
  /\ UNCHANGED <<on, in_service, ticks, status, current_task, task, cr3>>

(* Mutant of AfterTask: the last worker is forgotten.                      *)
AfterTaskOffByOne(t) ==
  LET done == IF t = Idle THEN 0 ELSE CHOOSE k \in DOMAIN Workers : Workers[k] = t
  IN IF done + 1 < Len(Workers)
     THEN [Top EXCEPT !.pc = "stack_alloc", !.got = FALSE, !.prev = NoTask,
                      !.new = Workers[done + 1]]
     ELSE [Top EXCEPT !.pc = "boot_sti", !.got = FALSE, !.prev = NoTask,
                      !.new = NoTask]

(* The next call of kernel_main after t has been made.                     *)
AfterTask(t) ==
  LET done == IF t = Idle THEN 0 ELSE CHOOSE k \in DOMAIN Workers : Workers[k] = t
  IN IF done < Len(Workers)
     THEN [Top EXCEPT !.pc = "stack_alloc", !.got = FALSE, !.prev = NoTask,
                      !.new = Workers[done + 1]]
     ELSE [Top EXCEPT !.pc = "boot_sti", !.got = FALSE, !.prev = NoTask,
                      !.new = NoTask]

InitCurrent ==
  /\ Locked("init_current")
  /\ current_task' = Idle
  /\ Drop("CURRENT_TASK")
  /\ SetTop(AfterTask(Idle))
  /\ UNCHANGED <<on, in_service, ticks, status, tasks, task, cr3>>

(* spawn: the kernel stack is boxed.                                       *)
SpawnStack ==
  /\ Locked("stack_alloc")
  /\ Drop("ALLOCATOR")
  /\ Goto("spawn_current")
  /\ UNCHANGED <<on, in_service, ticks, status, kernelVars>>

SpawnCurrent ==
  /\ Locked("spawn_current")
  /\ IF current_task = NoTask
     THEN Halt("panic")
     ELSE /\ Drop("CURRENT_TASK")
          /\ SetTop([Top EXCEPT !.pc = "dup", !.got = FALSE, !.prev = current_task])
          /\ UNCHANGED <<on, in_service, ticks, status, kernelVars>>

(* duplicate_kernel allocates with the current task locked.                *)
SpawnDuplicate ==
  /\ Locked("dup")
  /\ IF ~task[Top.prev].page_table
     THEN Halt("panic")
     ELSE /\ iflag' = FALSE
          /\ Goto("dup_alloc")
          /\ UNCHANGED <<on, in_service, ticks, held, status, kernelVars>>

SpawnDuplicateAllocate ==
  /\ Locked("dup_alloc")
  /\ Drop("ALLOCATOR")
  /\ Goto("dup_drop")
  /\ UNCHANGED <<on, in_service, ticks, status, kernelVars>>

SpawnDuplicateDrop ==
  /\ At("dup_drop")
  /\ Drop(Top.prev)
  /\ Goto("arc_alloc")
  /\ UNCHANGED <<on, in_service, ticks, status, kernelVars>>

SpawnNew ==
  /\ Locked("arc_alloc")
  /\ Drop("ALLOCATOR")
  /\ Goto("push")
  /\ UNCHANGED <<on, in_service, ticks, status, kernelVars>>

(* Mutant of InitialContext: rflags without the interrupt flag.            *)
InitialContextNoIf(t) == [stk |-> t, depth |-> 1, pc |-> "work", iflag |-> FALSE]

(* setup_initial_call: the first ret goes to the task's function with the  *)
(* interrupt flag of 0x202.                                                *)
InitialContext(t) == [stk |-> t, depth |-> 1, pc |-> "work", iflag |-> TRUE]

(* Mutant of SpawnReady: the page table is left out.                       *)
SpawnReadyNoTable ==
  /\ Locked("ready")
  /\ task' = [task EXCEPT ![Top.new].context = InitialContext(Top.new),
                          ![Top.new].state = "Runnable"]
  /\ Drop(Top.new)
  /\ SetTop(AfterTask(Top.new))
  /\ UNCHANGED <<on, in_service, ticks, status, tasks, current_task, cr3>>

SpawnReady ==
  /\ Locked("ready")
  /\ task' = [task EXCEPT ![Top.new].context = InitialContext(Top.new),
                          ![Top.new].state = "Runnable",
                          ![Top.new].page_table = TRUE]
  /\ Drop(Top.new)
  /\ SetTop(AfterTask(Top.new))
  /\ UNCHANGED <<on, in_service, ticks, status, tasks, current_task, cr3>>

BootEnableInterrupts ==
  /\ At("boot_sti")
  /\ iflag' = TRUE
  /\ Goto("work")
  /\ UNCHANGED <<on, in_service, ticks, held, status, kernelVars>>

-----------------------------------------------------------------------------
(* A worker whose code allocates.  The rest of a task's code (print, hlt)  *)
(* takes no lock and is not a step.                                        *)

WorkAllocate ==
  /\ At("work")
  /\ on \in Allocating
  /\ Goto("work_alloc")
  /\ UNCHANGED <<on, iflag, in_service, ticks, held, status, kernelVars>>

WorkAllocated ==
  /\ Locked("work_alloc")
  /\ Drop("ALLOCATOR")
  /\ Goto("work")
  /\ UNCHANGED <<on, in_service, ticks, status, kernelVars>>

-----------------------------------------------------------------------------

Handler == IncrementCount \/ NotifyEndOfInterrupt \/ Tick \/ CheckAndSchedule \/ Iretq

Switch ==
  \/ SwitchEnter \/ SwitchLockTasks \/ SwitchCurrent \/ SwitchProbe
  \/ SwitchDropTasks \/ SwitchLockPrev \/ SwitchLockNext \/ SwitchSetCurrent
  \/ SwitchMark \/ SwitchDropPrev \/ SwitchDropNext \/ SwitchSave
  \/ SwitchLoad \/ SwitchReturn

Boot ==
  \/ BootDisableInterrupts \/ InitTask \/ PushFits \/ PushGrows
  \/ PushAllocate \/ PushWrite \/ InitCurrent \/ SpawnStack \/ SpawnCurrent
  \/ SpawnDuplicate \/ SpawnDuplicateAllocate \/ SpawnDuplicateDrop
  \/ SpawnNew \/ SpawnReady \/ BootEnableInterrupts

Work == WorkAllocate \/ WorkAllocated

CpuStep == Swap \/ Handler \/ Switch \/ Boot \/ Work

Next == CpuStep \/ TimerInterrupt

Spec == Init /\ [][Next]_vars

(* The CPU executes instructions as long as it can, the periodic timer     *)
(* keeps interrupting it, and the timer's period (init count 2^24) exceeds *)
(* the time the handler takes, so a task whose own code gets the CPU again *)
(* and again also gets steps done.                                         *)
OwnStep(t) == on = t /\ Depth = 1 /\ CpuStep

FairSpec ==
  /\ Spec
  /\ WF_vars(CpuStep)
  /\ WF_vars(TimerInterrupt)
  /\ \A t \in Task : SF_vars(OwnStep(t))

-----------------------------------------------------------------------------
(* Properties                                                              *)

(* The state has the shape the comments above give it, and only the base   *)
(* record of a stack is a task's own code.                                 *)
TypeOK ==
  /\ on \in Task
  /\ iflag \in BOOLEAN
  /\ in_service \in BOOLEAN
  /\ ticks \in Nat
  /\ held \in [Lock -> Task \cup {NoTask}]
  /\ tasks \in Seq(Task)
  /\ current_task \in Task \cup {NoTask}
  /\ task \in [Task -> TaskRecord]
  /\ cr3 \in Task
  /\ stack \in [Task -> Seq(Frame)]
  /\ status \in {"running", "panic", "astray"}
  /\ \A t \in Task :
       /\ stack[t] # <<>>
       /\ \A d \in DOMAIN stack[t] : stack[t][d].pc \in BasePC <=> d = 1

(* A record awaiting the end of interrupt: interrupt_handler between the   *)
(* interrupt and the write to the END_OF_INTERRUPT register.               *)
InService(f) == f.pc \in {"increment_count", "end_of_interrupt"}

(* The handler's two calls of LOCAL_APIC_TIMER.lock() (timer.rs) never     *)
(* spin, although a guard's sti re-enables interrupts between them: the    *)
(* APIC delivers no second timer interrupt before the first one's EOI.     *)
TimerLockFree ==
  (status = "running" /\ InService(Top) /\ ~Top.got)
    => held["LOCAL_APIC_TIMER"] = NoTask

(* Every timer interrupt is acknowledged exactly once, by the innermost    *)
(* activation of interrupt_handler: the APIC waits for an EOI just when    *)
(* the top record has not sent its own, and no suspended or interrupted    *)
(* record still owes one.                                                  *)
OneEndOfInterrupt ==
  /\ in_service <=> InService(Top)
  /\ \A t \in Task : \A d \in DOMAIN stack[t] :
       InService(stack[t][d]) => t = on /\ d = Depth

(* Once task::init has set the current task, no unwrap of switch, spawn or *)
(* current_task fails: a task is published in TASKS before it has a page   *)
(* table, but switch never chooses it in that state.                       *)
PanicOnlyBeforeInit == status = "panic" => current_task = NoTask

(* The hlt loops of tasks and of kernel_main can always be woken: own code *)
(* of a task past the boot runs with interrupts enabled.                   *)
HltWakes == (status = "running" /\ Top.pc = "work") => iflag

(* A spin that began can end: the lock's guard is not on this very stack,  *)
(* and the timer can still take the CPU to the stack it is on.             *)
SpinsEnd ==
  (status = "running" /\ Top.pc \in SwapPC /\ ~Top.got
     /\ held[Wanted(Top)] # NoTask)
    => iflag /\ held[Wanted(Top)] # on

(* When a task's own code runs, the scheduler's records agree that it is   *)
(* this task that runs: current_task, the running flags and CR3.           *)
RunningTaskAgrees ==
  (Depth = 1 /\ current_task # NoTask)
    => /\ current_task = on
       /\ cr3 = on
       /\ {t \in Task : task[t].running} = {on}

(* A task that is off the CPU and may be chosen has a context that resumes *)
(* it where it stopped: on its own stack, at its last activation, inside   *)
(* switch_inner, or at the start of its function.                          *)
SavedContextsIntact ==
  \A t \in Task \ {on} :
    task[t].state = "Runnable" =>
      LET c == task[t].context
      IN /\ c.stk = t
         /\ c.depth = Len(stack[t])
         /\ Resumable(c)

(* task.rs:257, above the call of switch_inner: "Save the current task     *)
(* context".  The context written is that of the task whose stack is in    *)
(* use.                                                                    *)
SavesRunningTask == At("sw_save") => Top.prev = on

(* The whole of interrupts, locks and switch_inner implements the          *)
(* round-robin promise: the task that switch makes current is the first    *)
(* runnable one after the previous current task in the order of TASKS.     *)
Abstract == INSTANCE RoundRobin WITH
              ring <- tasks,
              ready <- {t \in Task : task[t].state = "Runnable"},
              cur <- current_task

ImplementsRoundRobin == Abstract!Spec

(* kernel_main reaches its hlt loop with every task enrolled and runnable. *)
BootCompletes == <>[](Runnable = {Idle} \cup {Workers[k] : k \in DOMAIN Workers})

(* No task starves: each one's own code runs again and again.              *)
EveryTaskRuns ==
  \A t \in Task : []<>(on = t /\ Depth = 1 /\ Top.pc = "work")
=============================================================================
