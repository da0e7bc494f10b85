---------------------------- MODULE SchedulerProofs ----------------------------
(***************************************************************************)
(* Proofs about Scheduler for every set of tasks, every slice length and   *)
(* every nesting bound, with preemption at any instruction: the inductive  *)
(* invariant, the steps of the interrupt handler and of lock, the steps of *)
(* switch, those of boot and spawn, and what follows from the invariant.   *)
(***************************************************************************)
EXTENDS Scheduler, TLAPS, SequenceTheorems

Spawned == {Workers[k] : k \in DOMAIN Workers}
SpawnPC == {"stack_alloc", "spawn_current", "dup", "dup_alloc", "dup_drop",
            "arc_alloc", "ready"}
PushPC == {"push", "push_alloc", "push_write"}
DupPC == {"dup", "dup_alloc", "dup_drop"}
SelectedPC == {"sw_prev", "sw_next", "sw_set_current", "sw_mark",
               "sw_drop_prev", "sw_drop_next", "sw_save", "sw_load"}

(* What an activation record knows at its program point, whatever has      *)
(* happened on other records since: tk, ts and cur stand for task, tasks   *)
(* and current_task, now or in the next state.                             *)
FrameInv(f, tk, ts, cur) ==
  /\ f.pc \in SpawnPC => f.new \in Spawned /\ cur # NoTask
  /\ f.pc \in PushPC => \/ f.new = Idle /\ tk[Idle].page_table
                        \/ f.new \in Spawned /\ cur # NoTask
  /\ f.pc = "init_current" => tk[Idle].page_table
  /\ f.pc \in DupPC => f.prev \in Task /\ tk[f.prev].page_table
  /\ f.pc = "sw_probe" => f.prev \in Task /\ f.next = NoTask /\ f.i < Len(ts)
  /\ f.pc = "sw_drop_tasks" =>
       f.prev \in Task /\ (f.next \in Task => tk[f.next].page_table)
  /\ f.pc \in SelectedPC =>
       f.prev \in Task /\ f.next \in Task /\ tk[f.next].page_table

StackInv ==
  \A t \in Task : \A d \in DOMAIN stack[t] :
    FrameInv(stack[t][d], task, tasks, current_task)

KernelInv ==
  /\ \A t \in Task : task[t].state = "Runnable" => task[t].page_table
  /\ current_task \in Task => task[current_task].page_table
  /\ \A t \in Task :
       (task[t].context.pc = "work" /\ task[t].context.stk # NoTask)
         => task[t].context.depth = 1 /\ task[t].context.iflag = TRUE

TimerInv ==
  /\ OneEndOfInterrupt
  /\ held["LOCAL_APIC_TIMER"] # NoTask <=> (InService(Top) /\ Top.got)

IInv ==
  /\ TypeOK
  /\ StackInv
  /\ KernelInv
  /\ TimerInv
  /\ PanicOnlyBeforeInit
  /\ HltWakes

(* The part of TypeOK that is not about stacks.                            *)
RestOK ==
  /\ on \in Task
  /\ iflag \in BOOLEAN
  /\ in_service \in BOOLEAN
  /\ ticks \in Nat
  /\ held \in [Lock -> Task \cup {NoTask}]
  /\ tasks \in Seq(Task)
  /\ current_task \in Task \cup {NoTask}
  /\ task \in [Task -> TaskRecord]
  /\ cr3 \in Task
  /\ status \in {"running", "panic", "astray"}

(* What the records below the top rely on only ever becomes truer.         *)
Mono ==
  /\ Len(tasks) <= Len(tasks')
  /\ \A t \in Task : task[t].page_table => task'[t].page_table
  /\ current_task # NoTask => current_task' # NoTask

-----------------------------------------------------------------------------

(* The CPU always has a record to execute, and its locals are well typed.  *)
LEMMA TopType ==
  ASSUME TypeOK
  PROVE  /\ Depth \in Nat \ {0}
         /\ Depth \in DOMAIN stack[on]
         /\ Top \in Frame
         /\ on \in Task
         /\ DOMAIN stack[on] = 1..Depth
BY DEF TypeOK, Depth, Top

(* Replacing the top record leaves every other record alone.               *)
LEMMA SetTopEffect ==
  ASSUME TypeOK, NEW f \in Frame, SetTop(f)
  PROVE  /\ stack' \in [Task -> Seq(Frame)]
         /\ \A t \in Task : DOMAIN stack'[t] = DOMAIN stack[t]
         /\ \A t \in Task : Len(stack'[t]) = Len(stack[t])
         /\ stack'[on][Depth] = f
         /\ \A t \in Task : \A d \in DOMAIN stack[t] :
              (t # on \/ d # Depth) => stack'[t][d] = stack[t][d]
<1> DEFINE s == stack[on]
           u == [s EXCEPT ![Len(s)] = f]
<1>1. s \in Seq(Frame) /\ s # <<>> /\ on \in Task
  BY DEF TypeOK
<1>2. Len(s) \in 1..Len(s)
  BY <1>1
<1>3. u \in Seq(Frame) /\ Len(u) = Len(s) /\ DOMAIN u = DOMAIN s
      /\ u[Len(s)] = f /\ \A d \in DOMAIN s : d # Len(s) => u[d] = s[d]
  BY <1>1, <1>2
<1>4. stack' = [stack EXCEPT ![on] = u]
  BY DEF SetTop
<1>5. stack \in [Task -> Seq(Frame)]
  BY DEF TypeOK
<1>6. stack'[on] = u /\ \A t \in Task : t # on => stack'[t] = stack[t]
  BY <1>1, <1>4, <1>5
<1> HIDE DEF u
<1>7. stack' \in [Task -> Seq(Frame)]
  BY <1>1, <1>3, <1>4, <1>5
<1> QED
  BY <1>1, <1>3, <1>5, <1>6, <1>7, ZenonT(60) DEF Depth

(* What a record knows survives steps that do not touch it.                *)
LEMMA FrameInvMono ==
  ASSUME TypeOK, RestOK', Mono, NEW f \in Frame,
         FrameInv(f, task, tasks, current_task)
  PROVE  FrameInv(f, task', tasks', current_task')
BY TaskAssumption DEF Mono, FrameInv, Frame, TypeOK, RestOK, Task, DupPC, SelectedPC

(* A step that replaces the top record by f keeps the invariant if f knows *)
(* what its program point needs and the timer's state matches f.           *)
LEMMA TopStep ==
  ASSUME IInv, NEW f \in Frame, SetTop(f), on' = on, RestOK', Mono, KernelInv',
         FrameInv(f, task', tasks', current_task'),
         f.pc \in BasePC <=> Top.pc \in BasePC,
         in_service' <=> InService(f),
         held'["LOCAL_APIC_TIMER"] # NoTask <=> (InService(f) /\ f.got),
         status' = "running",
         f.pc = "work" => iflag'
  PROVE  IInv'
<1> USE DEF IInv
<1>1. /\ stack' \in [Task -> Seq(Frame)]
      /\ \A t \in Task : DOMAIN stack'[t] = DOMAIN stack[t]
      /\ \A t \in Task : Len(stack'[t]) = Len(stack[t])
      /\ stack'[on][Depth] = f
      /\ \A t \in Task : \A d \in DOMAIN stack[t] :
           (t # on \/ d # Depth) => stack'[t][d] = stack[t][d]
  BY SetTopEffect
<1>2. Depth \in DOMAIN stack[on] /\ on \in Task /\ Depth \in Nat \ {0}
  BY TopType
<1>3. Depth' = Depth /\ Top' = f
  BY <1>1, <1>2 DEF Depth, Top
<1>4. stack \in [Task -> Seq(Frame)] /\ \A t \in Task : stack[t] # <<>>
  BY DEF TypeOK
<1>5. \A t \in Task : stack'[t] # <<>>
  BY <1>1, <1>4
<1>6. \A t \in Task : \A d \in DOMAIN stack'[t] : stack'[t][d].pc \in BasePC <=> d = 1
  BY <1>1, <1>2 DEF TypeOK, Top, Depth
<1>7. TypeOK'
  BY <1>1, <1>5, <1>6 DEF TypeOK, RestOK
<1>8. StackInv'
  <2> SUFFICES ASSUME NEW t \in Task, NEW d \in DOMAIN stack'[t]
               PROVE  FrameInv(stack'[t][d], task', tasks', current_task')
    BY DEF StackInv
  <2>1. CASE t = on /\ d = Depth
    BY <1>1, <2>1
  <2>2. CASE t # on \/ d # Depth
    <3>1. stack'[t][d] = stack[t][d] /\ d \in DOMAIN stack[t]
      BY <1>1, <2>2
    <3>2. FrameInv(stack[t][d], task, tasks, current_task)
      BY <3>1 DEF StackInv
    <3>3. stack[t][d] \in Frame
      BY <1>4, <3>1
    <3> QED
      BY <3>1, <3>2, <3>3, FrameInvMono
  <2> QED
    BY <2>1, <2>2
<1>9. OneEndOfInterrupt'
  <2>1. in_service' <=> InService(Top')
    BY <1>3
  <2>2. ASSUME NEW t \in Task, NEW d \in DOMAIN stack'[t], InService(stack'[t][d])
        PROVE  t = on' /\ d = Depth'
    BY <1>1, <1>3, <2>2 DEF TimerInv, OneEndOfInterrupt
  <2> QED
    BY <2>1, <2>2 DEF OneEndOfInterrupt, InService
<1>10. TimerInv'
  BY <1>3, <1>9 DEF TimerInv, InService
<1>11. PanicOnlyBeforeInit' /\ HltWakes'
  BY <1>3 DEF PanicOnlyBeforeInit, HltWakes
<1> QED
  BY <1>7, <1>8, <1>10, <1>11

(* The same when the scheduler's own data does not change.                 *)
LEMMA QuietStep ==
  ASSUME IInv, NEW f \in Frame, SetTop(f), status = "running",
         on' = on, status' = status, kernelVars' = kernelVars,
         ticks' \in Nat, iflag' \in BOOLEAN, in_service' \in BOOLEAN,
         held' \in [Lock -> Task \cup {NoTask}],
         FrameInv(f, task, tasks, current_task),
         f.pc \in BasePC <=> Top.pc \in BasePC,
         in_service' <=> InService(f),
         held'["LOCAL_APIC_TIMER"] # NoTask <=> (InService(f) /\ f.got),
         f.pc = "work" => iflag'
  PROVE  IInv'
<1>1. task' = task /\ tasks' = tasks /\ current_task' = current_task /\ cr3' = cr3
  BY DEF kernelVars
<1>2. RestOK'
  BY <1>1 DEF IInv, TypeOK, RestOK
<1>3. Mono
  BY <1>1 DEF Mono, IInv, TypeOK
<1>4. KernelInv'
  BY <1>1 DEF KernelInv, IInv
<1>5. FrameInv(f, task', tasks', current_task')
  BY <1>1
<1> QED
  BY <1>2, <1>3, <1>4, <1>5, TopStep

(* The top record knows what its program point needs.                      *)
LEMMA TopFrame ==
  ASSUME IInv
  PROVE  FrameInv(Top, task, tasks, current_task)
BY TopType DEF IInv, StackInv, Top
-----------------------------------------------------------------------------
(* Steps that only move the program point, by what they do to the locks.   *)

QuietPC == (BasePC \cup HandlerPC) \ {"increment_count", "end_of_interrupt"}

(* The record Goto(p) leaves on top.                                       *)
Moved(p) == [Top EXCEPT !.pc = p, !.got = FALSE]

(* Replacing the point of execution of a frame keeps its type. *)
LEMMA MovedType ==
  ASSUME TypeOK, NEW p \in QuietPC
  PROVE  Moved(p) \in Frame /\ Moved(p).pc = p /\ ~InService(Moved(p))
         /\ Moved(p).new = Top.new /\ Moved(p).prev = Top.prev
         /\ Moved(p).next = Top.next /\ Moved(p).i = Top.i
BY TopType, ZenonT(60) DEF Moved, Frame, QuietPC, InService

(* A step that only moves the innermost frame, from one quiet point to another, preserves the invariant. *)
LEMMA QuietGoto ==
  ASSUME IInv, NEW p \in QuietPC, Goto(p), status = "running",
         on' = on, status' = status, kernelVars' = kernelVars,
         in_service' = FALSE, ticks' \in Nat, iflag' \in BOOLEAN,
         held' \in [Lock -> Task \cup {NoTask}],
         held'["LOCAL_APIC_TIMER"] = NoTask,
         FrameInv(Moved(p), task, tasks, current_task),
         p \in BasePC <=> Top.pc \in BasePC,
         p = "work" => iflag'
  PROVE  IInv'
<1>1. Moved(p) \in Frame /\ Moved(p).pc = p /\ ~InService(Moved(p))
  BY MovedType DEF IInv
<1>2. SetTop(Moved(p))
  BY DEF Goto, Moved
<1> QED
  BY <1>1, <1>2, QuietStep, ZenonT(60)

(* ... with the locks as they are.                                         *)
LEMMA PlainGoto ==
  ASSUME IInv, NEW p \in QuietPC, Goto(p), status = "running", Top.pc \in QuietPC,
         UNCHANGED <<on, in_service, held, status, kernelVars>>,
         ticks' \in Nat, iflag' \in BOOLEAN,
         FrameInv(Moved(p), task, tasks, current_task),
         p \in BasePC <=> Top.pc \in BasePC,
         p = "work" => iflag'
  PROVE  IInv'
<1>1. ~InService(Top)
  BY DEF QuietPC, InService
<1>2. in_service' = FALSE /\ held'["LOCAL_APIC_TIMER"] = NoTask
  BY <1>1 DEF IInv, TimerInv, OneEndOfInterrupt, TypeOK
<1>3. held' \in [Lock -> Task \cup {NoTask}]
  BY DEF IInv, TypeOK
<1> QED
  BY <1>2, <1>3, QuietGoto, ZenonT(60)

(* What dropping a guard does to the lock table.                           *)
LEMMA DropEffect ==
  ASSUME IInv, NEW l, Drop(l), Top.pc \in QuietPC \/ l = "LOCAL_APIC_TIMER"
  PROVE  /\ held' \in [Lock -> Task \cup {NoTask}]
         /\ held'["LOCAL_APIC_TIMER"] = NoTask
         /\ iflag' = TRUE
<1>1. held \in [Lock -> Task \cup {NoTask}] /\ "LOCAL_APIC_TIMER" \in Lock
  BY DEF IInv, TypeOK, Lock, StaticLock
<1>2. Top.pc \in QuietPC => held["LOCAL_APIC_TIMER"] = NoTask
  BY DEF IInv, TimerInv, InService, QuietPC
<1> QED
  BY <1>1, <1>2, ZenonT(60) DEF Drop

(* The timer invariant looks at nothing but the control points of the stack. *)
LEMMA QuietTimer ==
  ASSUME IInv, Top.pc \in QuietPC
  PROVE  in_service = FALSE /\ held["LOCAL_APIC_TIMER"] = NoTask
BY DEF IInv, TimerInv, OneEndOfInterrupt, InService, QuietPC, TypeOK

(* ... and with one guard dropped.                                         *)
LEMMA QuietDrop ==
  ASSUME IInv, NEW f \in Frame, SetTop(f), NEW l, Drop(l),
         status = "running", Top.pc \in QuietPC,
         UNCHANGED <<on, in_service, ticks, status, kernelVars>>,
         FrameInv(f, task, tasks, current_task),
         f.pc \in QuietPC,
         f.pc \in BasePC <=> Top.pc \in BasePC
  PROVE  IInv'
<1>1. in_service' = FALSE /\ ticks' \in Nat
  BY QuietTimer, ZenonT(60) DEF IInv, TypeOK
<1>2. ~InService(f)
  BY DEF InService, QuietPC
<1> QED
  BY <1>1, <1>2, DropEffect, QuietStep, ZenonT(60)

(* Releasing a lock at the innermost frame and moving on preserves the invariant. *)
LEMMA DropGoto ==
  ASSUME IInv, NEW p \in QuietPC, Goto(p), NEW l, Drop(l),
         status = "running", Top.pc \in QuietPC,
         UNCHANGED <<on, in_service, ticks, status, kernelVars>>,
         FrameInv(Moved(p), task, tasks, current_task),
         p \in BasePC <=> Top.pc \in BasePC
  PROVE  IInv'
<1>1. Moved(p) \in Frame /\ Moved(p).pc = p /\ SetTop(Moved(p))
  BY MovedType, ZenonT(60) DEF IInv, Goto, Moved
<1> QED
  BY <1>1, QuietDrop

-----------------------------------------------------------------------------
(* One lemma per group of actions                                          *)

(* Every step of interrupt_handler (idt.rs) preserves the invariant. *)
LEMMA HandlerStep ==
  ASSUME IInv, Handler
  PROVE  IInv'
<1> USE DEF IInv
<1>0. Top \in Frame /\ FrameInv(Top, task, tasks, current_task)
  BY TopType, TopFrame
<1>1. CASE IncrementCount
  <2> DEFINE f == Moved("end_of_interrupt")
  <2>1. /\ f \in Frame /\ f.pc = "end_of_interrupt" /\ f.got = FALSE
    BY <1>0, ZenonT(60) DEF Moved, Frame, HandlerPC
  <2>2. /\ held' \in [Lock -> Task \cup {NoTask}]
        /\ held'["LOCAL_APIC_TIMER"] = NoTask
        /\ iflag' = TRUE
    BY <1>1, DropEffect, ZenonT(60) DEF IncrementCount
  <2>3. InService(f) /\ in_service' = TRUE /\ ticks' \in Nat
    BY <1>1, <2>1 DEF IncrementCount, Locked, TimerInv, OneEndOfInterrupt, InService, TypeOK
  <2>4. FrameInv(f, task, tasks, current_task)
    BY <2>1 DEF FrameInv, SpawnPC, PushPC, DupPC, SelectedPC
  <2>5. SetTop(f) /\ status = "running" /\ Top.pc = "increment_count"
    BY <1>1 DEF IncrementCount, Goto, Moved, Locked
  <2>6. f.pc \in BasePC <=> Top.pc \in BasePC
    BY <2>1, <2>5 DEF BasePC
  <2> HIDE DEF f
  <2> QED
    BY <1>1, <2>1, <2>2, <2>3, <2>4, <2>5, <2>6, QuietStep DEF IncrementCount
<1>2. CASE NotifyEndOfInterrupt
  <2>1. /\ held' \in [Lock -> Task \cup {NoTask}]
        /\ held'["LOCAL_APIC_TIMER"] = NoTask
        /\ iflag' = TRUE
    BY <1>2, DropEffect, ZenonT(60) DEF NotifyEndOfInterrupt
  <2>2. "tick" \in QuietPC /\ ticks \in Nat
    BY DEF QuietPC, HandlerPC, TypeOK
  <2>3. FrameInv(Moved("tick"), task, tasks, current_task)
    BY <2>2, MovedType DEF FrameInv, SpawnPC, PushPC, DupPC, SelectedPC
  <2>4. "tick" \in BasePC <=> Top.pc \in BasePC
    BY <1>2 DEF NotifyEndOfInterrupt, Locked, BasePC
  <2> QED
    BY <1>2, <2>1, <2>2, <2>3, <2>4, QuietGoto, ZenonT(60) DEF NotifyEndOfInterrupt, Locked
<1>3. CASE Tick
  <2>1. "check" \in QuietPC /\ Top.pc \in QuietPC /\ ticks' \in Nat /\ iflag' \in BOOLEAN
    BY <1>3 DEF Tick, At, QuietPC, HandlerPC, TypeOK
  <2>2. FrameInv(Moved("check"), task, tasks, current_task)
    BY <2>1, MovedType DEF FrameInv, SpawnPC, PushPC, DupPC, SelectedPC
  <2>3. "check" \in BasePC <=> Top.pc \in BasePC
    BY <1>3 DEF Tick, At, BasePC
  <2> QED
    BY <1>3, <2>1, <2>2, <2>3, PlainGoto DEF Tick, At
<1>4. CASE CheckAndSchedule
  <2> DEFINE p == IF ticks >= SLICE THEN "sw_enter" ELSE "iretq"
  <2>1. p \in QuietPC /\ Top.pc \in QuietPC /\ ticks' \in Nat /\ iflag' \in BOOLEAN
    BY <1>4 DEF CheckAndSchedule, At, QuietPC, HandlerPC, TypeOK
  <2>2. FrameInv(Moved(p), task, tasks, current_task)
    BY <2>1, MovedType DEF FrameInv, SpawnPC, PushPC, DupPC, SelectedPC
  <2>3. p \in BasePC <=> Top.pc \in BasePC
    BY <1>4 DEF CheckAndSchedule, At, BasePC
  <2>4. Goto(p) /\ status = "running" /\ p # "work"
    BY <1>4 DEF CheckAndSchedule, At
  <2> HIDE DEF p
  <2> QED
    BY <1>4, <2>1, <2>2, <2>3, <2>4, PlainGoto DEF CheckAndSchedule, At
<1>5. CASE Iretq
  <2> DEFINE u == SubSeq(stack[on], 1, Len(stack[on]) - 1)
  <2>1. /\ on \in Task /\ stack[on] \in Seq(Frame) /\ Depth \in Nat \ {0, 1}
        /\ Top.pc = "iretq" /\ status = "running"
    <3>1. Top.pc = "iretq" /\ status = "running"
      BY <1>5 DEF Iretq, At
    <3>2. Depth # 1
      <4>1. Top.pc \in BasePC <=> Depth = 1
        BY TopType, ZenonT(60) DEF TypeOK, Top
      <4> QED
        BY <3>1, <4>1 DEF BasePC
    <3> QED
      BY <3>1, <3>2, TopType DEF TypeOK
  <2>2. /\ u \in Seq(Frame) /\ Len(u) = Depth - 1 /\ u # <<>>
        /\ DOMAIN u = 1..(Depth - 1)
        /\ \A d \in DOMAIN u : u[d] = stack[on][d] /\ d \in DOMAIN stack[on] /\ d # Depth
    <3> DEFINE q == stack[on]
    <3>0. Depth - 1 \in 1..Depth
      BY <2>1
    <3>1. q \in Seq(Frame) /\ Len(q) = Depth /\ Depth - 1 \in 1..Depth
      BY <2>1, <3>0 DEF Depth
    <3>2. /\ u \in Seq(Frame)
          /\ Len(u) = Depth - 1
          /\ \A d \in 1..(Depth - 1) : u[d] = q[d]
      BY <3>1, SubSeqProperties
    <3>3. DOMAIN u = 1..(Depth - 1) /\ DOMAIN q = 1..Depth
      BY <3>1, <3>2
    <3> HIDE DEF u, q
    <3> QED
      BY <2>1, <3>1, <3>2, <3>3 DEF q
  <2>3. stack' = [stack EXCEPT ![on] = u]
    BY <1>5 DEF Iretq
  <2> HIDE DEF u
  <2>4. /\ stack' \in [Task -> Seq(Frame)]
        /\ stack'[on] = u
        /\ \A t \in Task : t # on => stack'[t] = stack[t]
    BY <2>1, <2>2, <2>3 DEF TypeOK
  <2>5. /\ in_service = FALSE /\ held["LOCAL_APIC_TIMER"] = NoTask
        /\ \A t \in Task : \A d \in DOMAIN stack[t] : ~InService(stack[t][d])
    BY <2>1 DEF TimerInv, OneEndOfInterrupt, InService, TypeOK, Top
  <2>6. \A t \in Task : \A d \in DOMAIN stack'[t] :
          d \in DOMAIN stack[t] /\ stack'[t][d] = stack[t][d]
    BY <2>2, <2>4, SMTT(60)
  <2>7. TypeOK'
    <3>1. \A t \in Task : stack'[t] # <<>>
      BY <2>2, <2>4 DEF TypeOK
    <3>2. \A t \in Task : \A d \in DOMAIN stack'[t] : stack'[t][d].pc \in BasePC <=> d = 1
      BY <2>6 DEF TypeOK
    <3> QED
      BY <1>5, <2>4, <3>1, <3>2 DEF TypeOK, Iretq, kernelVars
  <2>8. StackInv'
    BY <1>5, <2>6 DEF StackInv, Iretq, kernelVars
  <2>9. ~InService(Top)' /\ on' = on
    <3>1. on' = on /\ Depth' = Depth - 1
      BY <1>5, <2>2, <2>4 DEF Iretq, Depth
    <3>2. Top' = stack'[on][Depth - 1] /\ Depth - 1 \in DOMAIN stack'[on]
      BY <2>1, <2>2, <2>4, <3>1 DEF Top
    <3> QED
      BY <2>1, <2>5, <2>6, <3>1, <3>2 DEF InService
  <2>10. TimerInv'
    BY <1>5, <2>5, <2>6, <2>9 DEF TimerInv, OneEndOfInterrupt, Iretq, InService
  <2>11. KernelInv' /\ PanicOnlyBeforeInit' /\ HltWakes'
    BY <1>5 DEF KernelInv, PanicOnlyBeforeInit, HltWakes, Iretq, kernelVars
  <2> QED
    BY <2>7, <2>8, <2>10, <2>11
<1> QED
  BY <1>1, <1>2, <1>3, <1>4, <1>5 DEF Handler

(* Accepting the timer interrupt pushes a handler frame and preserves the invariant. *)
LEMMA TimerInterruptStep ==
  ASSUME IInv, TimerInterrupt
  PROVE  IInv'
<1> USE DEF IInv
<1> DEFINE g == FrameAt("increment_count")
           u == Append(stack[on], g)
<1>1. /\ on \in Task /\ stack[on] \in Seq(Frame) /\ Depth \in Nat \ {0}
      /\ status = "running" /\ in_service = FALSE
  BY TopType DEF TypeOK, TimerInterrupt
<1>2. g \in Frame /\ g.pc = "increment_count" /\ g.got = FALSE /\ InService(g)
  BY DEF FrameAt, Frame, HandlerPC, InService
<1> HIDE DEF g
<1>3. /\ u \in Seq(Frame) /\ Len(u) = Depth + 1 /\ u # <<>>
      /\ DOMAIN u = 1..(Depth + 1) /\ u[Depth + 1] = g
      /\ \A d \in DOMAIN u : d # Depth + 1 => u[d] = stack[on][d] /\ d \in DOMAIN stack[on]
  BY <1>1, <1>2 DEF Depth
<1>4. stack' = [stack EXCEPT ![on] = u]
  BY DEF TimerInterrupt, g
<1> HIDE DEF u
<1>5. /\ stack' \in [Task -> Seq(Frame)]
      /\ stack'[on] = u
      /\ \A t \in Task : t # on => stack'[t] = stack[t]
  BY <1>1, <1>3, <1>4 DEF TypeOK
<1>6. /\ held["LOCAL_APIC_TIMER"] = NoTask
      /\ \A t \in Task : \A d \in DOMAIN stack[t] : ~InService(stack[t][d])
  BY <1>1 DEF TimerInv, OneEndOfInterrupt, InService, Top
<1>7. \A t \in Task : \A d \in DOMAIN stack'[t] :
        IF t = on /\ d = Depth + 1
        THEN stack'[t][d] = g
        ELSE d \in DOMAIN stack[t] /\ stack'[t][d] = stack[t][d]
  BY <1>3, <1>5, ZenonT(60)
<1>8. on' = on /\ Depth' = Depth + 1 /\ Top' = g
  BY <1>3, <1>5 DEF TimerInterrupt, Depth, Top
<1>9. TypeOK'
  <2>1. \A t \in Task : stack'[t] # <<>>
    BY <1>3, <1>5 DEF TypeOK
  <2>2. \A t \in Task : \A d \in DOMAIN stack'[t] : stack'[t][d].pc \in BasePC <=> d = 1
    <3> SUFFICES ASSUME NEW t \in Task, NEW d \in DOMAIN stack'[t]
                 PROVE  stack'[t][d].pc \in BasePC <=> d = 1
      BY SMTT(60)
    <3>1. CASE t = on /\ d = Depth + 1
      BY <1>1, <1>2, <1>7, <3>1, SMTT(60) DEF BasePC
    <3>2. CASE ~(t = on /\ d = Depth + 1)
      BY <1>7, <3>2 DEF TypeOK
    <3> QED
      BY <3>1, <3>2
  <2> QED
    BY <1>5, <2>1, <2>2, ZenonT(60) DEF TypeOK, TimerInterrupt, kernelVars
<1>10. StackInv'
  <2>1. FrameInv(g, task, tasks, current_task)
    BY <1>2 DEF FrameInv, SpawnPC, PushPC, DupPC, SelectedPC
  <2> QED
    BY <1>7, <2>1 DEF StackInv, TimerInterrupt, kernelVars
<1>11. TimerInv'
  <2>1. in_service' = TRUE /\ held' = held
    BY DEF TimerInterrupt
  <2>2. OneEndOfInterrupt'
    BY <1>2, <1>6, <1>7, <1>8, <2>1, SMTT(60) DEF OneEndOfInterrupt, InService
  <2> QED
    BY <1>2, <1>6, <1>8, <2>1, <2>2 DEF TimerInv
<1>12. KernelInv' /\ PanicOnlyBeforeInit' /\ HltWakes'
  BY <1>2, <1>8 DEF KernelInv, PanicOnlyBeforeInit, HltWakes, TimerInterrupt, kernelVars
<1> QED
  BY <1>9, <1>10, <1>11, <1>12

(* Only the timer's two lock calls are for LOCAL_APIC_TIMER.               *)
LEMMA WantedTimer ==
  ASSUME IInv, Top.pc \in SwapPC
  PROVE  /\ Wanted(Top) = "LOCAL_APIC_TIMER" <=> InService(Top)
<1>1. Top \in Frame /\ FrameInv(Top, task, tasks, current_task) /\ tasks \in Seq(Task)
  BY TopType, TopFrame DEF IInv, TypeOK
<1>2. "LOCAL_APIC_TIMER" \notin Task \cup {NoTask}
  BY TaskAssumption DEF StaticLock
<1>3. Top.pc = "sw_probe" => tasks[Top.i + 1] \in Task
  <2> SUFFICES ASSUME Top.pc = "sw_probe"
               PROVE  Top.i + 1 \in 1..Len(tasks)
    BY <1>1
  <2>1. Top.i \in Nat /\ Top.i < Len(tasks) /\ Len(tasks) \in Nat
    BY <1>1 DEF Frame, FrameInv
  <2> QED
    BY <2>1
<1>4. /\ Top.new \in Task \cup {NoTask}
      /\ Top.prev \in Task \cup {NoTask}
      /\ Top.next \in Task \cup {NoTask}
  BY <1>1 DEF Frame
<1> QED
  BY <1>2, <1>3, <1>4 DEF Wanted, SwapPC, InService

(* The successful swap of SpinLock::lock preserves the invariant. *)
LEMMA SwapStep ==
  ASSUME IInv, Swap
  PROVE  IInv'
<1> USE DEF IInv
<1> DEFINE f == [Top EXCEPT !.got = TRUE]
<1>1. Top \in Frame /\ FrameInv(Top, task, tasks, current_task) /\ Top.pc \in SwapPC
      /\ on \in Task
  BY TopType, TopFrame DEF Swap
<1>2. /\ f \in Frame /\ f.pc = Top.pc /\ f.got = TRUE /\ f.new = Top.new
      /\ f.prev = Top.prev /\ f.next = Top.next /\ f.i = Top.i
  BY <1>1, ZenonT(60) DEF Frame
<1>3. SetTop(f) /\ ~Top.got /\ status = "running"
  BY DEF Swap
<1> HIDE DEF f
<1>4. FrameInv(f, task, tasks, current_task)
  BY <1>1, <1>2 DEF FrameInv
<1>5. held \in [Lock -> Task \cup {NoTask}] /\ "LOCAL_APIC_TIMER" \in Lock
  BY DEF TypeOK, Lock, StaticLock
<1>6. held' \in [Lock -> Task \cup {NoTask}]
  BY <1>1, <1>5, ZenonT(60) DEF Swap
<1>7. held'["LOCAL_APIC_TIMER"] # NoTask <=> InService(f)
  <2>1. InService(f) <=> InService(Top)
    BY <1>2 DEF InService
  <2>2. held["LOCAL_APIC_TIMER"] = NoTask
    BY <1>3 DEF TimerInv
  <2>3. on # NoTask
    BY <1>1, TaskAssumption
  <2> QED
    BY <1>1, <1>5, <2>1, <2>2, <2>3, WantedTimer DEF Swap
<1>8. /\ in_service' <=> InService(f)
      /\ in_service' \in BOOLEAN /\ iflag' \in BOOLEAN /\ ticks' \in Nat
  BY <1>2 DEF Swap, TimerInv, OneEndOfInterrupt, InService, TypeOK
<1>9. f.pc # "work"
  BY <1>1, <1>2 DEF SwapPC
<1> QED
  BY <1>1, <1>2, <1>3, <1>4, <1>6, <1>7, <1>8, <1>9, QuietStep, SMTT(60) DEF Swap
-----------------------------------------------------------------------------

(* A panic or a wild jump changes only status and the interrupt flag.      *)
LEMMA HaltStep ==
  ASSUME IInv, NEW why \in {"panic", "astray"}, Halt(why),
         why = "panic" => current_task = NoTask
  PROVE  IInv'
<1> USE DEF IInv
<1>1. UNCHANGED <<on, in_service, ticks, held, tasks, current_task, task, cr3, stack>>
      /\ status' = why /\ iflag' = FALSE
  BY DEF Halt
<1>2. TypeOK'
  BY <1>1, ZenonT(60) DEF TypeOK
<1>3. StackInv' /\ KernelInv'
  BY <1>1 DEF StackInv, KernelInv
<1>4. TimerInv'
  BY <1>1 DEF TimerInv, OneEndOfInterrupt, Top, Depth
<1>5. PanicOnlyBeforeInit' /\ HltWakes'
  BY <1>1 DEF PanicOnlyBeforeInit, HltWakes
<1> QED
  BY <1>2, <1>3, <1>4, <1>5

-----------------------------------------------------------------------------
(* switch, up to the choice of the next task and from there to the save.   *)
LEMMA SwitchGotoStep ==
  ASSUME IInv,
         \/ SwitchEnter \/ SwitchLockTasks \/ SwitchDropTasks \/ SwitchLockPrev
         \/ SwitchLockNext \/ SwitchDropPrev \/ SwitchDropNext \/ SwitchReturn
  PROVE  IInv'
<1> USE DEF IInv
<1>0. Top \in Frame /\ FrameInv(Top, task, tasks, current_task)
  BY TopType, TopFrame
<1>1. CASE SwitchEnter
  <2>1. /\ "sw_tasks" \in QuietPC /\ Top.pc \in QuietPC
        /\ "sw_tasks" \in BasePC <=> Top.pc \in BasePC
        /\ ticks' \in Nat /\ iflag' \in BOOLEAN
    BY <1>1, ZenonT(60) DEF SwitchEnter, At, QuietPC, BasePC, HandlerPC, TypeOK
  <2>2. FrameInv(Moved("sw_tasks"), task, tasks, current_task)
    BY <1>0, <1>1, <2>1, MovedType, ZenonT(60)
    DEF SwitchEnter, At, FrameInv, SpawnPC, PushPC, DupPC, SelectedPC
  <2> QED
    BY <1>1, <2>1, <2>2, PlainGoto, SMTT(60) DEF SwitchEnter, At
<1>2. CASE SwitchLockTasks
  <2>1. /\ "sw_current" \in QuietPC /\ Top.pc \in QuietPC
        /\ "sw_current" \in BasePC <=> Top.pc \in BasePC
        /\ ticks' \in Nat /\ iflag' \in BOOLEAN
    BY <1>2, ZenonT(60) DEF SwitchLockTasks, Locked, QuietPC, BasePC, HandlerPC, TypeOK
  <2>2. FrameInv(Moved("sw_current"), task, tasks, current_task)
    BY <1>0, <1>2, <2>1, MovedType
    DEF SwitchLockTasks, Locked, FrameInv, SpawnPC, PushPC, DupPC, SelectedPC
  <2> QED
    BY <1>2, <2>1, <2>2, PlainGoto, SMTT(60) DEF SwitchLockTasks, Locked
<1>3. CASE SwitchLockPrev
  <2>1. /\ "sw_next" \in QuietPC /\ Top.pc \in QuietPC
        /\ "sw_next" \in BasePC <=> Top.pc \in BasePC
        /\ ticks' \in Nat /\ iflag' \in BOOLEAN
    BY <1>3, ZenonT(60) DEF SwitchLockPrev, Locked, QuietPC, BasePC, HandlerPC, TypeOK
  <2>2. FrameInv(Moved("sw_next"), task, tasks, current_task)
    BY <1>0, <1>3, <2>1, MovedType
    DEF SwitchLockPrev, Locked, FrameInv, SpawnPC, PushPC, DupPC, SelectedPC
  <2> QED
    BY <1>3, <2>1, <2>2, PlainGoto, SMTT(60) DEF SwitchLockPrev, Locked
<1>4. CASE SwitchLockNext
  <2>1. /\ "sw_set_current" \in QuietPC /\ Top.pc \in QuietPC
        /\ "sw_set_current" \in BasePC <=> Top.pc \in BasePC
        /\ ticks' \in Nat /\ iflag' \in BOOLEAN
    BY <1>4, ZenonT(60) DEF SwitchLockNext, Locked, QuietPC, BasePC, HandlerPC, TypeOK
  <2>2. FrameInv(Moved("sw_set_current"), task, tasks, current_task)
    BY <1>0, <1>4, <2>1, MovedType
    DEF SwitchLockNext, Locked, FrameInv, SpawnPC, PushPC, DupPC, SelectedPC
  <2> QED
    BY <1>4, <2>1, <2>2, PlainGoto, SMTT(60) DEF SwitchLockNext, Locked
<1>5. CASE SwitchReturn
  <2>1. /\ "iretq" \in QuietPC /\ Top.pc \in QuietPC
        /\ "iretq" \in BasePC <=> Top.pc \in BasePC
        /\ ticks' \in Nat /\ iflag' \in BOOLEAN
    BY <1>5, SMTT(60) DEF SwitchReturn, At, QuietPC, BasePC, HandlerPC, TypeOK
  <2>2. FrameInv(Moved("iretq"), task, tasks, current_task)
    BY <1>0, <1>5, <2>1, MovedType, ZenonT(60)
    DEF SwitchReturn, At, FrameInv, SpawnPC, PushPC, DupPC, SelectedPC
  <2> QED
    BY <1>5, <2>1, <2>2, PlainGoto, SMTT(60) DEF SwitchReturn, At
<1>6. CASE SwitchDropPrev
  <2>1. /\ "sw_drop_next" \in QuietPC /\ Top.pc \in QuietPC
        /\ "sw_drop_next" \in BasePC <=> Top.pc \in BasePC
    BY <1>6, SMTT(60) DEF SwitchDropPrev, At, QuietPC, BasePC, HandlerPC
  <2>2. FrameInv(Moved("sw_drop_next"), task, tasks, current_task)
    BY <1>0, <1>6, <2>1, MovedType
    DEF SwitchDropPrev, At, FrameInv, SpawnPC, PushPC, DupPC, SelectedPC
  <2> QED
    BY <1>6, <2>1, <2>2, DropGoto DEF SwitchDropPrev, At
<1>7. CASE SwitchDropNext
  <2>1. /\ "sw_save" \in QuietPC /\ Top.pc \in QuietPC
        /\ "sw_save" \in BasePC <=> Top.pc \in BasePC
    BY <1>7, SMTT(60) DEF SwitchDropNext, At, QuietPC, BasePC, HandlerPC
  <2>2. FrameInv(Moved("sw_save"), task, tasks, current_task)
    BY <1>0, <1>7, <2>1, MovedType, SMTT(60)
    DEF SwitchDropNext, At, FrameInv, SpawnPC, PushPC, DupPC, SelectedPC
  <2> QED
    BY <1>7, <2>1, <2>2, DropGoto, SMTT(60) DEF SwitchDropNext, At
<1>8. CASE SwitchDropTasks
  <2> DEFINE p == IF Top.next = NoTask THEN "sw_return" ELSE "sw_prev"
  <2>1. p \in QuietPC /\ Top.pc \in QuietPC /\ (p \in BasePC <=> Top.pc \in BasePC)
    BY <1>8 DEF SwitchDropTasks, At, QuietPC, BasePC, HandlerPC
  <2>2. Top.next = NoTask \/ Top.next \in Task
    BY <1>0, SMTT(60) DEF Frame
  <2>3. FrameInv(Moved(p), task, tasks, current_task)
    BY <1>0, <1>8, <2>1, <2>2, MovedType, ZenonT(60)
    DEF SwitchDropTasks, At, FrameInv, SpawnPC, PushPC, DupPC, SelectedPC
  <2>4. Goto(p) /\ status = "running" /\ Drop("TASKS")
    BY <1>8 DEF SwitchDropTasks, At
  <2> HIDE DEF p
  <2> QED
    BY <1>8, <2>1, <2>3, <2>4, DropGoto, SMTT(60) DEF SwitchDropTasks
<1> QED
  BY <1>1, <1>2, <1>3, <1>4, <1>5, <1>6, <1>7, <1>8, SMTT(60)

(* The search of switch starts at a position inside TASKS. *)
LEMMA SearchStartBound ==
  ASSUME tasks \in Seq(Task), NEW t
  PROVE  /\ SearchStart(t) \in Nat
         /\ tasks # <<>> => SearchStart(t) < Len(tasks)
<1>1. CASE \E k \in DOMAIN tasks : tasks[k] = t
  <2> DEFINE k == CHOOSE k \in DOMAIN tasks : tasks[k] = t
  <2>1. k \in DOMAIN tasks
    BY <1>1
  <2>2. Len(tasks) \in Nat \ {0} /\ k \in Nat
    BY <2>1
  <2>3. SearchStart(t) = k % Len(tasks)
    BY <1>1 DEF SearchStart
  <2> HIDE DEF k
  <2> QED
    BY <2>2, <2>3
<1>2. CASE ~\E k \in DOMAIN tasks : tasks[k] = t
  <2>1. SearchStart(t) = 0 /\ Len(tasks) \in Nat /\ (tasks # <<>> => Len(tasks) # 0)
    BY <1>2 DEF SearchStart
  <2> QED
    BY <2>1
<1> QED
  BY <1>1, <1>2

(* Reading the current task in switch preserves the invariant. *)
LEMMA SwitchCurrentStep ==
  ASSUME IInv, SwitchCurrent
  PROVE  IInv'
<1> USE DEF IInv
<1>0. /\ Top \in Frame /\ Top.pc = "sw_current" /\ status = "running"
      /\ Top.pc \in QuietPC /\ tasks \in Seq(Task)
  BY TopType DEF SwitchCurrent, Locked, QuietPC, HandlerPC, TypeOK
<1>1. CASE current_task = NoTask
  BY <1>1, HaltStep DEF SwitchCurrent
<1>2. CASE current_task # NoTask
  <2> DEFINE p == IF tasks = <<>> THEN "sw_drop_tasks" ELSE "sw_probe"
             f == [Top EXCEPT !.pc = p, !.got = FALSE, !.prev = current_task,
                              !.next = NoTask, !.i = SearchStart(current_task),
                              !.start = SearchStart(current_task)]
  <2>1. current_task \in Task /\ SearchStart(current_task) \in Nat
        /\ (tasks # <<>> => SearchStart(current_task) < Len(tasks))
    BY <1>0, <1>2, SearchStartBound DEF TypeOK
  <2>2. p \in QuietPC /\ p \notin BasePC /\ p \in HandlerPC
    BY DEF QuietPC, BasePC, HandlerPC
  <2>3. /\ f \in Frame /\ f.pc = p /\ f.prev = current_task
        /\ f.next = NoTask /\ f.i = SearchStart(current_task)
    BY <1>0, <2>1, <2>2, ZenonT(60) DEF Frame
  <2>4. SetTop(f) /\ Drop("CURRENT_TASK")
        /\ UNCHANGED <<on, in_service, ticks, status, kernelVars>>
    BY <1>2 DEF SwitchCurrent
  <2>5. FrameInv(f, task, tasks, current_task)
    BY <2>1, <2>3, TaskAssumption DEF FrameInv, SpawnPC, PushPC, DupPC, SelectedPC
  <2>6. f.pc \in BasePC <=> Top.pc \in BasePC
    BY <1>0, <2>2, <2>3 DEF BasePC
  <2> HIDE DEF f, p
  <2> QED
    BY <1>0, <2>2, <2>3, <2>4, <2>5, <2>6, QuietDrop, SMTT(60)
<1> QED
  BY <1>1, <1>2

(* One probe of the round-robin search preserves the invariant. *)
LEMMA SwitchProbeStep ==
  ASSUME IInv, SwitchProbe
  PROVE  IInv'
<1> USE DEF IInv
<1> DEFINE candidate == tasks[Top.i + 1]
           following == (Top.i + 1) % Len(tasks)
           found == [Top EXCEPT !.pc = "sw_drop_tasks", !.got = FALSE,
                                !.next = candidate]
           p == IF following = Top.start THEN "sw_drop_tasks" ELSE "sw_probe"
           onward == [Top EXCEPT !.pc = p, !.got = FALSE, !.i = following]
<1>0. /\ Top \in Frame /\ FrameInv(Top, task, tasks, current_task)
      /\ Top.pc = "sw_probe" /\ status = "running" /\ Top.pc \in QuietPC
      /\ tasks \in Seq(Task)
  BY TopType, TopFrame DEF SwitchProbe, Locked, QuietPC, HandlerPC, TypeOK
<1>1. /\ Top.i \in Nat /\ Top.i < Len(tasks) /\ Len(tasks) \in Nat
      /\ Top.prev \in Task /\ Top.next = NoTask
  BY <1>0, SMTT(60) DEF FrameInv, Frame
<1>2. candidate \in Task
  BY <1>0, <1>1
<1>3. following \in Nat /\ following < Len(tasks)
  BY <1>1
<1>4. /\ Drop(Wanted(Top)) /\ UNCHANGED <<on, in_service, ticks, status, kernelVars>>
      /\ IF task[candidate].state = "Runnable" THEN SetTop(found) ELSE SetTop(onward)
  BY DEF SwitchProbe
<1> HIDE DEF candidate, following
<1>5. CASE task[candidate].state = "Runnable"
  <2>1. /\ found \in Frame /\ found.pc = "sw_drop_tasks" /\ found.next = candidate
        /\ found.prev = Top.prev
    BY <1>0, <1>2, ZenonT(60) DEF Frame, HandlerPC
  <2>2. SetTop(found)
    BY <1>4, <1>5
  <2> HIDE DEF found
  <2>3. FrameInv(found, task, tasks, current_task)
    BY <1>1, <1>2, <1>5, <2>1 DEF FrameInv, SpawnPC, PushPC, DupPC, SelectedPC, KernelInv
  <2>4. found.pc \in QuietPC /\ (found.pc \in BasePC <=> Top.pc \in BasePC)
    BY <1>0, <2>1 DEF QuietPC, BasePC, HandlerPC
  <2> QED
    BY <1>0, <1>4, <2>1, <2>2, <2>3, <2>4, QuietDrop
<1>6. CASE task[candidate].state # "Runnable"
  <2>1. p \in {"sw_drop_tasks", "sw_probe"}
    OBVIOUS
  <2>2. SetTop(onward)
    BY <1>4, <1>6
  <2>3. p \in HandlerPC /\ p \in QuietPC /\ p \notin BasePC
    BY <2>1 DEF HandlerPC, QuietPC, BasePC
  <2> HIDE DEF p
  <2>4. /\ onward \in Frame /\ onward.pc = p /\ onward.i = following
        /\ onward.prev = Top.prev /\ onward.next = NoTask
    BY <1>0, <1>1, <1>3, <2>3, ZenonT(60) DEF Frame
  <2> HIDE DEF onward
  <2>5. FrameInv(onward, task, tasks, current_task)
    BY <1>1, <1>3, <2>1, <2>4, TaskAssumption
    DEF FrameInv, SpawnPC, PushPC, DupPC, SelectedPC
  <2>6. onward.pc \in BasePC <=> Top.pc \in BasePC
    BY <1>0, <2>3, <2>4 DEF BasePC
  <2> QED
    BY <1>0, <1>4, <2>2, <2>3, <2>4, <2>5, <2>6, QuietDrop
<1> QED
  BY <1>5, <1>6

(* TopStep for a move to a point outside the handler's locked part.        *)
LEMMA KernelGoto ==
  ASSUME IInv, NEW f \in Frame, SetTop(f), on' = on,
         RestOK', Mono, KernelInv',
         FrameInv(f, task', tasks', current_task'),
         f.pc \in QuietPC, f.pc # "work",
         f.pc \in BasePC <=> Top.pc \in BasePC,
         in_service' = FALSE, held'["LOCAL_APIC_TIMER"] = NoTask,
         status' = "running"
  PROVE  IInv'
<1>1. ~InService(f)
  BY SMTT(60) DEF InService, QuietPC
<1> QED
  BY <1>1, TopStep

(* The store to current_task in switch preserves the invariant. *)
LEMMA SwitchSetCurrentStep ==
  ASSUME IInv, SwitchSetCurrent
  PROVE  IInv'
<1> USE DEF IInv
<1> DEFINE f == Moved("sw_mark")
<1>0. /\ Top \in Frame /\ FrameInv(Top, task, tasks, current_task)
      /\ Top.pc = "sw_set_current" /\ status = "running" /\ Top.pc \in QuietPC
  BY TopType, TopFrame DEF SwitchSetCurrent, Locked, QuietPC, HandlerPC
<1>1. Top.prev \in Task /\ Top.next \in Task /\ task[Top.next].page_table
  BY <1>0, SMTT(60) DEF FrameInv, SelectedPC
<1>2. /\ f \in Frame /\ f.pc = "sw_mark" /\ f.prev = Top.prev /\ f.next = Top.next
      /\ "sw_mark" \in QuietPC
  BY MovedType DEF QuietPC, HandlerPC
<1>3. SetTop(f) /\ Drop("CURRENT_TASK") /\ current_task' = Top.next
      /\ UNCHANGED <<on, in_service, ticks, status, tasks, task, cr3>>
  BY DEF SwitchSetCurrent, Goto, Moved
<1> HIDE DEF f
<1>4. /\ held' \in [Lock -> Task \cup {NoTask}] /\ iflag' = TRUE
      /\ held'["LOCAL_APIC_TIMER"] = NoTask /\ in_service' = FALSE
  BY <1>0, <1>3, DropEffect, QuietTimer, ZenonT(60)
<1>5. RestOK'
  BY <1>1, <1>3, <1>4 DEF RestOK, TypeOK
<1>6. Mono
  BY <1>1, <1>3, TaskAssumption DEF Mono, TypeOK
<1>7. KernelInv'
  BY <1>1, <1>3, SMTT(60) DEF KernelInv
<1>8. FrameInv(f, task', tasks', current_task')
  BY <1>1, <1>2, <1>3 DEF FrameInv, SpawnPC, PushPC, DupPC, SelectedPC
<1>9. f.pc \in BasePC <=> Top.pc \in BasePC
  BY <1>0, <1>2 DEF BasePC
<1> QED
  BY <1>0, <1>2, <1>3, <1>4, <1>5, <1>6, <1>7, <1>8, <1>9, KernelGoto, ZenonT(60)

(* Clearing prev's running flag and setting next's preserves the invariant. *)
LEMMA SwitchMarkStep ==
  ASSUME IInv, SwitchMark
  PROVE  IInv'
<1> USE DEF IInv
<1> DEFINE f == Moved("sw_drop_prev")
<1>0. /\ Top \in Frame /\ FrameInv(Top, task, tasks, current_task)
      /\ Top.pc = "sw_mark" /\ status = "running" /\ Top.pc \in QuietPC
  BY TopType, TopFrame DEF SwitchMark, At, QuietPC, HandlerPC
<1>1. Top.prev \in Task /\ Top.next \in Task /\ task[Top.next].page_table
  BY <1>0 DEF FrameInv, SelectedPC
<1>2. /\ f \in Frame /\ f.pc = "sw_drop_prev" /\ f.prev = Top.prev /\ f.next = Top.next
      /\ "sw_drop_prev" \in QuietPC
  BY MovedType DEF QuietPC, HandlerPC
<1>3. /\ SetTop(f) /\ cr3' = Top.next
      /\ UNCHANGED <<on, iflag, in_service, ticks, held, tasks, current_task, status>>
  BY <1>1, SMTT(60) DEF SwitchMark, Goto, Moved
<1> HIDE DEF f
<1>4. /\ task' \in [Task -> TaskRecord]
      /\ \A t \in Task : /\ task'[t].state = task[t].state
                         /\ task'[t].page_table = task[t].page_table
                         /\ task'[t].context = task[t].context
  <2>1. task \in [Task -> TaskRecord]
    BY DEF TypeOK
  <2> DEFINE r == [task[Top.prev] EXCEPT !.running = FALSE]
             tk == [task EXCEPT ![Top.prev] = r]
  <2>2. task[Top.prev] \in TaskRecord
    BY <1>1, <2>1, SMTT(60)
  <2>3. /\ r \in TaskRecord
        /\ r.state = task[Top.prev].state
        /\ r.page_table = task[Top.prev].page_table
        /\ r.context = task[Top.prev].context
    BY <2>2, ZenonT(60) DEF TaskRecord
  <2>4. tk = [task EXCEPT ![Top.prev].running = FALSE]
    BY <1>1, <2>1, SMTT(60)
  <2> HIDE DEF r
  <2>5. /\ tk \in [Task -> TaskRecord]
        /\ \A t \in Task : /\ tk[t].state = task[t].state
                           /\ tk[t].page_table = task[t].page_table
                           /\ tk[t].context = task[t].context
    BY <1>1, <2>1, <2>3, SMTT(60)
  <2>6. task' = [tk EXCEPT ![Top.next].running = TRUE]
    BY <2>4, ZenonT(60) DEF SwitchMark
  <2> HIDE DEF tk
  <2>7. /\ task' \in [Task -> TaskRecord]
        /\ \A t \in Task : /\ task'[t].state = tk[t].state
                           /\ task'[t].page_table = tk[t].page_table
                           /\ task'[t].context = tk[t].context
    <3> DEFINE q == [tk[Top.next] EXCEPT !.running = TRUE]
    <3>1. tk \in [Task -> TaskRecord] /\ tk[Top.next] \in TaskRecord
      BY <1>1, <2>5, SMTT(60)
    <3>2. /\ q \in TaskRecord
          /\ q.state = tk[Top.next].state
          /\ q.page_table = tk[Top.next].page_table
          /\ q.context = tk[Top.next].context
      BY <3>1, ZenonT(60) DEF TaskRecord
    <3>3. task' = [tk EXCEPT ![Top.next] = q]
      BY <2>6, <3>1, SMTT(60)
    <3> HIDE DEF q
    <3> QED
      BY <1>1, <3>1, <3>2, <3>3, SMTT(60)
  <2> QED
    BY <2>5, <2>7
<1>5. in_service' = FALSE /\ held'["LOCAL_APIC_TIMER"] = NoTask
  BY <1>0, <1>3, QuietTimer, SMTT(60)
<1>6. RestOK'
  BY <1>1, <1>3, <1>4, SMTT(60) DEF RestOK, TypeOK
<1>7. Mono
  BY <1>3, <1>4, SMTT(60) DEF Mono, TypeOK
<1>8. KernelInv'
  BY <1>3, <1>4, SMTT(60) DEF KernelInv
<1>9. FrameInv(f, task', tasks', current_task')
  BY <1>1, <1>2, <1>4 DEF FrameInv, SpawnPC, PushPC, DupPC, SelectedPC
<1>10. f.pc \in BasePC <=> Top.pc \in BasePC
  BY <1>0, <1>2 DEF BasePC
<1> QED
  BY <1>0, <1>2, <1>3, <1>5, <1>6, <1>7, <1>8, <1>9, <1>10, KernelGoto, ZenonT(60)

(* The save half of switch_inner preserves the invariant. *)
LEMMA SwitchSaveStep ==
  ASSUME IInv, SwitchSave
  PROVE  IInv'
<1> USE DEF IInv
<1> DEFINE f == Moved("sw_load")
           c == [stk |-> on, depth |-> Depth, pc |-> "sw_return", iflag |-> iflag]
<1>0. /\ Top \in Frame /\ FrameInv(Top, task, tasks, current_task)
      /\ Top.pc = "sw_save" /\ status = "running" /\ Top.pc \in QuietPC
  BY TopType, TopFrame DEF SwitchSave, At, QuietPC, HandlerPC
<1>1. Top.prev \in Task /\ Top.next \in Task /\ task[Top.next].page_table
  BY <1>0 DEF FrameInv, SelectedPC
<1>2. /\ f \in Frame /\ f.pc = "sw_load" /\ f.prev = Top.prev /\ f.next = Top.next
      /\ "sw_load" \in QuietPC
  BY MovedType DEF QuietPC, HandlerPC
<1>3. /\ SetTop(f) /\ task' = [task EXCEPT ![Top.prev].context = c]
      /\ UNCHANGED <<on, iflag, in_service, ticks, held, tasks, current_task, cr3, status>>
  BY SMTT(60) DEF SwitchSave, Goto, Moved
<1>4. c \in TaskContext /\ c.pc = "sw_return"
  BY TopType, SMTT(60) DEF TaskContext, TypeOK
<1> HIDE DEF f, c
<1>5. /\ task' \in [Task -> TaskRecord]
      /\ \A t \in Task : /\ task'[t].state = task[t].state
                         /\ task'[t].page_table = task[t].page_table
                         /\ task'[t].context = task[t].context \/ task'[t].context = c
  <2> DEFINE r == [task[Top.prev] EXCEPT !.context = c]
  <2>1. task \in [Task -> TaskRecord] /\ task[Top.prev] \in TaskRecord
    BY <1>1 DEF TypeOK
  <2>2. r \in TaskRecord /\ r.state = task[Top.prev].state
        /\ r.page_table = task[Top.prev].page_table /\ r.context = c
    BY <1>4, <2>1 DEF TaskRecord
  <2>3. task' = [task EXCEPT ![Top.prev] = r]
    BY <1>3
  <2> HIDE DEF r
  <2> QED
    BY <1>1, <2>1, <2>2, <2>3, SMTT(60)
<1>6. in_service' = FALSE /\ held'["LOCAL_APIC_TIMER"] = NoTask
  BY <1>0, <1>3, QuietTimer
<1>7. RestOK'
  BY <1>3, <1>5 DEF RestOK, TypeOK
<1>8. Mono
  BY <1>3, <1>5 DEF Mono, TypeOK
<1>9. KernelInv'
  BY <1>3, <1>4, <1>5, SMTT(60) DEF KernelInv
<1>10. FrameInv(f, task', tasks', current_task')
  BY <1>1, <1>2, <1>5, SMTT(60) DEF FrameInv, SpawnPC, PushPC, DupPC, SelectedPC
<1>11. f.pc \in BasePC <=> Top.pc \in BasePC
  BY <1>0, <1>2, SMTT(60) DEF BasePC
<1> QED
  BY <1>0, <1>2, <1>3, <1>6, <1>7, <1>8, <1>9, <1>10, <1>11, KernelGoto, ZenonT(60)

(* A stack that is not empty has a base record: the domain of its sequence is an interval from 1. *)
LEMMA NonEmptyDomain ==
  ASSUME NEW S, NEW s \in Seq(S), s # <<>>
  PROVE  1 \in DOMAIN s /\ Len(s) \in Nat /\ DOMAIN s = 1..Len(s)
  BY SMTT(60)

(* The load half of switch_inner preserves the invariant, whichever context it finds. *)
LEMMA SwitchLoadStep ==
  ASSUME IInv, SwitchLoad
  PROVE  IInv'
<1> USE DEF IInv
<1> DEFINE c == task[Top.next].context
           q == stack[c.stk]
           g == [q[c.depth] EXCEPT !.pc = c.pc, !.got = FALSE]
           v == SubSeq(q, 1, c.depth)
           u == [v EXCEPT ![c.depth] = g]
<1>0. /\ Top \in Frame /\ FrameInv(Top, task, tasks, current_task)
      /\ Top.pc = "sw_load" /\ status = "running" /\ Top.pc \in QuietPC
  BY TopType, TopFrame, ZenonT(60) DEF SwitchLoad, At, QuietPC, HandlerPC
<1>1. Top.next \in Task /\ c \in TaskContext
  BY <1>0 DEF FrameInv, SelectedPC, TypeOK, TaskRecord
<1>2. CASE ~Resumable(c)
  BY <1>2, HaltStep DEF SwitchLoad
<1>3. CASE Resumable(c)
  <2>1. /\ c.stk \in Task /\ q \in Seq(Frame) /\ q # <<>>
        /\ \A d \in DOMAIN q : q[d].pc \in BasePC <=> d = 1
    BY <1>1, <1>3, ZenonT(60) DEF Resumable, TaskContext, TypeOK
  <2>2. c.pc = "work" => c.depth = 1 /\ c.iflag = TRUE
    BY <1>1, <1>3, SMTT(60) DEF Resumable, KernelInv
  <2>3. c.pc # "work" => c.pc = "sw_return" /\ c.depth \in DOMAIN q /\ q[c.depth].pc = "sw_load"
    BY <1>1, <1>3, ZenonT(60) DEF Resumable, TaskContext
  <2>4. 1 \in DOMAIN q /\ Len(q) \in Nat /\ DOMAIN q = 1..Len(q)
    BY <2>1, NonEmptyDomain, ZenonT(60)
  <2>5. c.depth \in DOMAIN q /\ (c.pc \in BasePC <=> c.depth = 1) /\ c.pc \in BasePC \cup HandlerPC
    <3>1. CASE c.pc = "work"
      BY <2>2, <2>4, <3>1, SMTT(60) DEF BasePC
    <3>2. CASE c.pc # "work"
      BY <2>1, <2>3, <3>2, ZenonT(60) DEF BasePC, HandlerPC
    <3> QED
      BY <3>1, <3>2, SMTT(60)
  <2>6. c.pc \in {"work", "sw_return"} /\ c.depth \in Nat /\ c.iflag \in BOOLEAN
    BY <1>1, SMTT(60) DEF TaskContext
  <2>7. /\ on' = c.stk /\ iflag' = c.iflag
        /\ stack' = [stack EXCEPT ![c.stk] = u]
        /\ UNCHANGED <<in_service, ticks, held, status, kernelVars>>
    BY <1>3, ZenonT(60) DEF SwitchLoad
  <2> HIDE DEF c
  <2>8. /\ v \in Seq(Frame) /\ Len(v) = c.depth /\ DOMAIN v = 1..c.depth
        /\ \A d \in 1..c.depth : v[d] = q[d] /\ d \in DOMAIN q
    <3>1. \A d \in 1..c.depth : q[d] \in Frame /\ d \in DOMAIN q
      BY <2>1, <2>4, <2>5, SMTT(60)
    <3>2. /\ v \in Seq(Frame)
          /\ Len(v) = IF 1 <= c.depth THEN c.depth - 1 + 1 ELSE 0
          /\ \A d \in 1..(c.depth - 1 + 1) : v[d] = q[1 + d - 1]
      BY <2>6, <3>1, SubSeqProperties
    <3> HIDE DEF v, q
    <3> QED
      BY <2>4, <2>5, <2>6, <3>1, <3>2, SMTT(60)
  <2>9. g \in Frame /\ g.pc = c.pc /\ g.got = FALSE
    <3>1. q[c.depth] \in Frame
      BY <2>1, <2>5
    <3> HIDE DEF q
    <3> QED
      BY <2>5, <3>1, ZenonT(60) DEF Frame
  <2> HIDE DEF g, v
  <2>11. /\ u \in Seq(Frame) /\ Len(u) = c.depth /\ DOMAIN u = 1..c.depth
         /\ u[c.depth] = g /\ u # <<>>
         /\ \A d \in DOMAIN u : d \in DOMAIN q /\ (d # c.depth => u[d] = q[d])
    BY <2>4, <2>5, <2>8, <2>9
  <2> HIDE DEF u
  <2>12. /\ stack' \in [Task -> Seq(Frame)]
         /\ stack'[c.stk] = u
         /\ \A t \in Task : t # c.stk => stack'[t] = stack[t]
    BY <2>1, <2>7, <2>11, SMTT(60) DEF TypeOK
  <2>13. \A t \in Task : \A d \in DOMAIN stack'[t] :
           IF t = c.stk /\ d = c.depth
           THEN stack'[t][d] = g
           ELSE d \in DOMAIN stack[t] /\ stack'[t][d] = stack[t][d]
    BY <2>11, <2>12, SMTT(60)
  <2>14. Top' = g /\ Depth' = c.depth
    BY <2>7, <2>11, <2>12, SMTT(60) DEF Top, Depth
  <2>15. TypeOK'
    <3>0. \A t \in Task : stack[t] # <<>>
      BY ZenonT(60) DEF TypeOK
    <3>1. \A t \in Task : stack'[t] # <<>>
      BY <2>11, <2>12, <3>0, SMTT(60)
    <3>2. \A t \in Task : \A d \in DOMAIN stack'[t] : stack'[t][d].pc \in BasePC <=> d = 1
      <4> SUFFICES ASSUME NEW t \in Task, NEW d \in DOMAIN stack'[t]
                   PROVE  stack'[t][d].pc \in BasePC <=> d = 1
        OBVIOUS
      <4>1. CASE t = c.stk /\ d = c.depth
        BY <2>5, <2>9, <2>13, <4>1, SMTT(60)
      <4>2. CASE ~(t = c.stk /\ d = c.depth)
        BY <2>13, <4>2, SMTT(60) DEF TypeOK
      <4> QED
        BY <4>1, <4>2
    <3>3. UNCHANGED <<in_service, ticks, held, status, tasks, current_task, task, cr3>>
      BY <2>7, SMTT(60) DEF kernelVars
    <3> QED
      BY <2>1, <2>6, <2>7, <2>12, <3>1, <3>2, <3>3, SMTT(60) DEF TypeOK
  <2>16. StackInv'
    <3>1. FrameInv(g, task, tasks, current_task)
      BY <2>6, <2>9, SMTT(60) DEF FrameInv, SpawnPC, PushPC, DupPC, SelectedPC
    <3> QED
      BY <2>7, <2>13, <3>1, SMTT(60) DEF StackInv, kernelVars
  <2>17. TimerInv'
    <3>1. /\ in_service = FALSE /\ held["LOCAL_APIC_TIMER"] = NoTask
          /\ \A t \in Task : \A d \in DOMAIN stack[t] : ~InService(stack[t][d])
      BY <1>0, QuietTimer, TopType DEF TimerInv, OneEndOfInterrupt, InService, Top
    <3>2. ~InService(g)
      BY <2>6, <2>9, SMTT(60) DEF InService
    <3>3. \A t \in Task : \A d \in DOMAIN stack'[t] : ~InService(stack'[t][d])
      BY <2>13, <3>1, <3>2, SMTT(60)
    <3> QED
      BY <2>7, <2>14, <3>1, <3>2, <3>3, SMTT(60) DEF TimerInv, OneEndOfInterrupt, InService
  <2>18. KernelInv' /\ PanicOnlyBeforeInit'
    BY <1>0, <2>7, ZenonT(60) DEF KernelInv, PanicOnlyBeforeInit, kernelVars
  <2>19. HltWakes'
    BY <2>2, <2>7, <2>9, <2>14, SMTT(60) DEF HltWakes
  <2> QED
    BY <2>15, <2>16, <2>17, <2>18, <2>19, SMTT(60)
<1> QED
  BY <1>2, <1>3, SMTT(60)

-----------------------------------------------------------------------------
(* The boot steps that only move on or drop a lock preserve the invariant. *)
LEMMA BootGotoStep ==
  ASSUME IInv,
         \/ BootDisableInterrupts \/ PushGrows \/ PushAllocate \/ SpawnStack
         \/ SpawnDuplicateAllocate \/ SpawnDuplicateDrop \/ SpawnNew
         \/ BootEnableInterrupts \/ WorkAllocate \/ WorkAllocated
  PROVE  IInv'
<1> USE DEF IInv
<1>0. Top \in Frame /\ FrameInv(Top, task, tasks, current_task)
  BY TopType, TopFrame, SMTT(60)
<1>1. CASE BootDisableInterrupts
  <2>1. /\ "init_alloc" \in QuietPC /\ Top.pc \in QuietPC
        /\ "init_alloc" \in BasePC <=> Top.pc \in BasePC
        /\ ticks' \in Nat /\ iflag' \in BOOLEAN
    BY <1>1, ZenonT(60) DEF BootDisableInterrupts, At, QuietPC, BasePC, HandlerPC, TypeOK
  <2>2. FrameInv(Moved("init_alloc"), task, tasks, current_task)
    BY <1>0, <1>1, <2>1, MovedType, ZenonT(60)
    DEF BootDisableInterrupts, At, FrameInv, SpawnPC, PushPC, DupPC, SelectedPC
  <2> QED
    BY <1>1, <2>1, <2>2, PlainGoto, SMTT(60) DEF BootDisableInterrupts, At
<1>2. CASE PushGrows
  <2>1. /\ "push_alloc" \in QuietPC /\ Top.pc \in QuietPC
        /\ "push_alloc" \in BasePC <=> Top.pc \in BasePC
        /\ ticks' \in Nat /\ iflag' \in BOOLEAN
    BY <1>2, ZenonT(60) DEF PushGrows, Locked, QuietPC, BasePC, HandlerPC, TypeOK
  <2>2. FrameInv(Moved("push_alloc"), task, tasks, current_task)
    BY <1>0, <1>2, <2>1, MovedType, ZenonT(60)
    DEF PushGrows, Locked, FrameInv, SpawnPC, PushPC, DupPC, SelectedPC
  <2> QED
    BY <1>2, <2>1, <2>2, PlainGoto, SMTT(60) DEF PushGrows, Locked
<1>3. CASE PushAllocate
  <2>1. /\ "push_write" \in QuietPC /\ Top.pc \in QuietPC
        /\ "push_write" \in BasePC <=> Top.pc \in BasePC
    BY <1>3, SMTT(60) DEF PushAllocate, Locked, QuietPC, BasePC, HandlerPC
  <2>2. FrameInv(Moved("push_write"), task, tasks, current_task)
    BY <1>0, <1>3, <2>1, MovedType, ZenonT(60)
    DEF PushAllocate, Locked, FrameInv, SpawnPC, PushPC, DupPC, SelectedPC
  <2> QED
    BY <1>3, <2>1, <2>2, DropGoto, SMTT(60) DEF PushAllocate, Locked
<1>4. CASE SpawnStack
  <2>1. /\ "spawn_current" \in QuietPC /\ Top.pc \in QuietPC
        /\ "spawn_current" \in BasePC <=> Top.pc \in BasePC
    BY <1>4, SMTT(60) DEF SpawnStack, Locked, QuietPC, BasePC, HandlerPC
  <2>2. FrameInv(Moved("spawn_current"), task, tasks, current_task)
    BY <1>0, <1>4, <2>1, MovedType, ZenonT(60)
    DEF SpawnStack, Locked, FrameInv, SpawnPC, PushPC, DupPC, SelectedPC
  <2> QED
    BY <1>4, <2>1, <2>2, DropGoto, SMTT(60) DEF SpawnStack, Locked
<1>5. CASE SpawnDuplicateAllocate
  <2>1. /\ "dup_drop" \in QuietPC /\ Top.pc \in QuietPC
        /\ "dup_drop" \in BasePC <=> Top.pc \in BasePC
    BY <1>5, SMTT(60) DEF SpawnDuplicateAllocate, Locked, QuietPC, BasePC, HandlerPC
  <2>2. FrameInv(Moved("dup_drop"), task, tasks, current_task)
    BY <1>0, <1>5, <2>1, MovedType, ZenonT(60)
    DEF SpawnDuplicateAllocate, Locked, FrameInv, SpawnPC, PushPC, DupPC, SelectedPC
  <2> QED
    BY <1>5, <2>1, <2>2, DropGoto, SMTT(60) DEF SpawnDuplicateAllocate, Locked
<1>6. CASE SpawnDuplicateDrop
  <2>1. /\ "arc_alloc" \in QuietPC /\ Top.pc \in QuietPC
        /\ "arc_alloc" \in BasePC <=> Top.pc \in BasePC
    BY <1>6, SMTT(60) DEF SpawnDuplicateDrop, At, QuietPC, BasePC, HandlerPC
  <2>2. FrameInv(Moved("arc_alloc"), task, tasks, current_task)
    BY <1>0, <1>6, <2>1, MovedType, ZenonT(60)
    DEF SpawnDuplicateDrop, At, FrameInv, SpawnPC, PushPC, DupPC, SelectedPC
  <2> QED
    BY <1>6, <2>1, <2>2, DropGoto, SMTT(60) DEF SpawnDuplicateDrop, At
<1>7. CASE SpawnNew
  <2>1. /\ "push" \in QuietPC /\ Top.pc \in QuietPC
        /\ "push" \in BasePC <=> Top.pc \in BasePC
    BY <1>7, SMTT(60) DEF SpawnNew, Locked, QuietPC, BasePC, HandlerPC
  <2>2. FrameInv(Moved("push"), task, tasks, current_task)
    BY <1>0, <1>7, <2>1, MovedType, ZenonT(60)
    DEF SpawnNew, Locked, FrameInv, SpawnPC, PushPC, DupPC, SelectedPC
  <2> QED
    BY <1>7, <2>1, <2>2, DropGoto, SMTT(60) DEF SpawnNew, Locked
<1>8. CASE BootEnableInterrupts
  <2>1. /\ "work" \in QuietPC /\ Top.pc \in QuietPC
        /\ "work" \in BasePC <=> Top.pc \in BasePC
        /\ ticks' \in Nat /\ iflag' \in BOOLEAN
    BY <1>8, SMTT(60) DEF BootEnableInterrupts, At, QuietPC, BasePC, HandlerPC, TypeOK
  <2>2. FrameInv(Moved("work"), task, tasks, current_task)
    BY <1>0, <1>8, <2>1, MovedType, ZenonT(60)
    DEF BootEnableInterrupts, At, FrameInv, SpawnPC, PushPC, DupPC, SelectedPC
  <2> QED
    BY <1>8, <2>1, <2>2, PlainGoto, SMTT(60) DEF BootEnableInterrupts, At
<1>9. CASE WorkAllocate
  <2>1. /\ "work_alloc" \in QuietPC /\ Top.pc \in QuietPC
        /\ "work_alloc" \in BasePC <=> Top.pc \in BasePC
        /\ ticks' \in Nat /\ iflag' \in BOOLEAN
    BY <1>9, SMTT(60) DEF WorkAllocate, At, QuietPC, BasePC, HandlerPC, TypeOK
  <2>2. FrameInv(Moved("work_alloc"), task, tasks, current_task)
    BY <1>0, <1>9, <2>1, MovedType, ZenonT(60)
    DEF WorkAllocate, At, FrameInv, SpawnPC, PushPC, DupPC, SelectedPC
  <2> QED
    BY <1>9, <2>1, <2>2, PlainGoto, SMTT(60) DEF WorkAllocate, At
<1>10. CASE WorkAllocated
  <2>1. /\ "work" \in QuietPC /\ Top.pc \in QuietPC
        /\ "work" \in BasePC <=> Top.pc \in BasePC
    BY <1>10, SMTT(60) DEF WorkAllocated, Locked, QuietPC, BasePC, HandlerPC
  <2>2. FrameInv(Moved("work"), task, tasks, current_task)
    BY <1>0, <1>10, <2>1, MovedType, ZenonT(60)
    DEF WorkAllocated, Locked, FrameInv, SpawnPC, PushPC, DupPC, SelectedPC
  <2> QED
    BY <1>10, <2>1, <2>2, DropGoto, SMTT(60) DEF WorkAllocated, Locked
<1> QED
  BY <1>1, <1>2, <1>3, <1>4, <1>5, <1>6, <1>7, <1>8, <1>9, <1>10, SMTT(60)

(* Reading the current task in spawn preserves the invariant. *)
LEMMA SpawnCurrentStep ==
  ASSUME IInv, SpawnCurrent
  PROVE  IInv'
<1> USE DEF IInv
<1> DEFINE f == [Top EXCEPT !.pc = "dup", !.got = FALSE, !.prev = current_task]
<1>0. /\ Top \in Frame /\ FrameInv(Top, task, tasks, current_task)
      /\ Top.pc = "spawn_current" /\ status = "running" /\ Top.pc \in QuietPC
  BY TopType, TopFrame, SMTT(60) DEF SpawnCurrent, Locked, QuietPC, BasePC
<1>1. current_task # NoTask /\ Top.new \in Spawned
  BY <1>0, SMTT(60) DEF FrameInv, SpawnPC
<1>2. current_task \in Task /\ task[current_task].page_table
  BY <1>1 DEF TypeOK, KernelInv
<1>3. /\ SetTop(f) /\ Drop("CURRENT_TASK")
      /\ UNCHANGED <<on, in_service, ticks, status, kernelVars>>
  BY <1>1 DEF SpawnCurrent
<1>4. f \in Frame /\ f.pc = "dup" /\ f.prev = current_task /\ f.new = Top.new
  BY <1>0, <1>2, ZenonT(60) DEF Frame, BasePC
<1> HIDE DEF f
<1>5. FrameInv(f, task, tasks, current_task)
  BY <1>1, <1>2, <1>4 DEF FrameInv, SpawnPC, PushPC, DupPC, SelectedPC
<1>6. f.pc \in QuietPC /\ (f.pc \in BasePC <=> Top.pc \in BasePC)
  BY <1>0, <1>4 DEF QuietPC, BasePC
<1> QED
  BY <1>0, <1>3, <1>4, <1>5, <1>6, QuietDrop, SMTT(60)

(* Locking the parent to copy its page table preserves the invariant. *)
LEMMA SpawnDuplicateStep ==
  ASSUME IInv, SpawnDuplicate
  PROVE  IInv'
<1> USE DEF IInv
<1>0. /\ Top \in Frame /\ FrameInv(Top, task, tasks, current_task)
      /\ Top.pc = "dup" /\ status = "running" /\ Top.pc \in QuietPC
  BY TopType, TopFrame DEF SpawnDuplicate, Locked, QuietPC, BasePC
<1>1. task[Top.prev].page_table
  BY <1>0, SMTT(60) DEF FrameInv, DupPC
<1>2. /\ Goto("dup_alloc") /\ iflag' = FALSE
      /\ UNCHANGED <<on, in_service, ticks, held, status, kernelVars>>
  BY <1>1 DEF SpawnDuplicate
<1>3. "dup_alloc" \in QuietPC /\ ("dup_alloc" \in BasePC <=> Top.pc \in BasePC)
  BY <1>0, SMTT(60) DEF QuietPC, BasePC
<1>4. FrameInv(Moved("dup_alloc"), task, tasks, current_task)
  BY <1>0, <1>3, MovedType, ZenonT(60) DEF FrameInv, SpawnPC, PushPC, DupPC, SelectedPC
<1>5. ticks' \in Nat
  BY <1>2, SMTT(60) DEF TypeOK
<1> QED
  BY <1>0, <1>2, <1>3, <1>4, <1>5, PlainGoto, ZenonT(60)

(* A step of the boot code that writes the scheduler's data.               *)
LEMMA BootWrite ==
  ASSUME IInv, NEW f \in Frame, SetTop(f), NEW l, Drop(l), status = "running",
         UNCHANGED <<on, in_service, ticks, status, cr3>>,
         tasks' \in Seq(Task), current_task' \in Task \cup {NoTask},
         task' \in [Task -> TaskRecord], Mono, KernelInv',
         FrameInv(f, task', tasks', current_task'),
         Top.pc \in BasePC, f.pc \in BasePC, f.pc # "work"
  PROVE  IInv'
<1>1. Top.pc \in QuietPC /\ f.pc \in QuietPC
  BY DEF QuietPC, BasePC
<1>2. /\ held' \in [Lock -> Task \cup {NoTask}] /\ iflag' = TRUE
      /\ held'["LOCAL_APIC_TIMER"] = NoTask /\ in_service' = FALSE
  BY <1>1, DropEffect, QuietTimer, ZenonT(60)
<1>3. RestOK'
  BY <1>2 DEF RestOK, IInv, TypeOK
<1> QED
  BY <1>1, <1>2, <1>3, KernelGoto, ZenonT(60)

(* Building the idle task in init preserves the invariant. *)
LEMMA InitTaskStep ==
  ASSUME IInv, InitTask
  PROVE  IInv'
<1> USE DEF IInv
<1> DEFINE f == [Top EXCEPT !.pc = "push", !.got = FALSE, !.new = Idle]
           r == [task[Idle] EXCEPT !.state = "Runnable", !.running = TRUE,
                                   !.page_table = TRUE]
<1>0. Top \in Frame /\ Top.pc = "init_alloc" /\ status = "running" /\ Idle \in Task
  BY TopType DEF InitTask, Locked, Task
<1>1. /\ SetTop(f) /\ Drop("ALLOCATOR")
      /\ UNCHANGED <<on, in_service, ticks, status, tasks, current_task, cr3>>
  BY DEF InitTask
<1>2. f \in Frame /\ f.pc = "push" /\ f.new = Idle
  BY <1>0, ZenonT(60) DEF Frame, BasePC
<1>3. task \in [Task -> TaskRecord] /\ task[Idle] \in TaskRecord
  BY <1>0 DEF TypeOK
<1>4. r \in TaskRecord /\ r.page_table = TRUE /\ r.context = task[Idle].context
  BY <1>3, ZenonT(60) DEF TaskRecord
<1>5. task' = [task EXCEPT ![Idle] = r]
  BY <1>0, <1>3, ZenonT(60) DEF InitTask
<1> HIDE DEF f, r
<1>6. /\ task' \in [Task -> TaskRecord] /\ task'[Idle].page_table
      /\ \A t \in Task : /\ task'[t].context = task[t].context
                         /\ task'[t] = task[t] \/ task'[t].page_table
  BY <1>0, <1>3, <1>4, <1>5
<1>7. Mono
  BY <1>1, <1>6 DEF Mono, TypeOK
<1>8. KernelInv'
  BY <1>1, <1>6, SMTT(60) DEF KernelInv
<1>9. FrameInv(f, task', tasks', current_task')
  BY <1>2, <1>6, SMTT(60) DEF FrameInv, SpawnPC, PushPC, DupPC, SelectedPC
<1>10. /\ Top.pc \in BasePC /\ f.pc \in BasePC /\ f.pc # "work"
       /\ tasks' \in Seq(Task) /\ current_task' \in Task \cup {NoTask}
  BY <1>0, <1>1, <1>2, SMTT(60) DEF BasePC, TypeOK
<1> QED
  BY <1>0, <1>1, <1>2, <1>6, <1>7, <1>8, <1>9, <1>10, BootWrite

(* Appending to TASKS preserves the invariant. *)
LEMMA PushStep ==
  ASSUME IInv, PushFits \/ PushWrite
  PROVE  IInv'
<1> USE DEF IInv
<1> DEFINE p == AfterPush
           f == Moved(p)
<1>0. /\ Top \in Frame /\ FrameInv(Top, task, tasks, current_task)
      /\ Top.pc \in PushPC /\ status = "running"
  BY TopType, TopFrame, SMTT(60) DEF PushFits, PushWrite, At, Locked, PushPC
<1>1. \/ Top.new = Idle /\ task[Idle].page_table
      \/ Top.new \in Spawned /\ current_task # NoTask
  BY <1>0, SMTT(60) DEF FrameInv
<1>2. Spawned \subseteq Worker
  BY TaskAssumption DEF Spawned
<1>3. Top.new \in Task
  BY <1>1, <1>2 DEF Task
<1>4. /\ SetTop(f) /\ Drop("TASKS") /\ tasks' = Append(tasks, Top.new)
      /\ UNCHANGED <<on, in_service, ticks, status, current_task, task, cr3>>
  BY DEF PushFits, PushWrite, Goto, Moved
<1>5. p \in {"init_current", "ready"} /\ (p = "init_current" <=> Top.new = Idle)
  BY DEF AfterPush
<1>6. p \in QuietPC /\ p \in BasePC /\ p # "work" /\ Top.pc \in BasePC
  BY <1>0, <1>5, SMTT(60) DEF QuietPC, BasePC, PushPC
<1>7. f \in Frame /\ f.pc = p /\ f.new = Top.new
  BY <1>6, MovedType
<1> HIDE DEF f, p
<1>8. /\ tasks' \in Seq(Task) /\ Len(tasks') = Len(tasks) + 1 /\ Len(tasks) \in Nat
      /\ current_task' \in Task \cup {NoTask} /\ task' \in [Task -> TaskRecord]
  BY <1>3, <1>4 DEF TypeOK
<1>9. Mono
  BY <1>4, <1>8, SMTT(60) DEF Mono
<1>10. KernelInv'
  BY <1>4 DEF KernelInv
<1>11. Idle \notin Spawned
  BY <1>2, TaskAssumption, SMTT(60)
<1>12. FrameInv(f, task', tasks', current_task')
  BY <1>1, <1>4, <1>5, <1>7, <1>11, SMTT(60) DEF FrameInv, SpawnPC, PushPC, DupPC, SelectedPC
<1> QED
  BY <1>0, <1>4, <1>6, <1>7, <1>8, <1>9, <1>10, <1>12, BootWrite, SMTT(60)

(* kernel_main's next call is for a worker, or the boot is over.           *)
LEMMA AfterTaskType ==
  ASSUME TypeOK, NEW t \in Spawned \cup {Idle}
  PROVE  /\ AfterTask(t) \in Frame
         /\ \/ AfterTask(t).pc = "stack_alloc" /\ AfterTask(t).new \in Spawned
            \/ AfterTask(t).pc = "boot_sti"
<1> DEFINE done == IF t = Idle THEN 0 ELSE CHOOSE k \in DOMAIN Workers : Workers[k] = t
           w == Workers[done + 1]
           f == [Top EXCEPT !.pc = "stack_alloc", !.got = FALSE, !.prev = NoTask, !.new = w]
           g == [Top EXCEPT !.pc = "boot_sti", !.got = FALSE, !.prev = NoTask, !.new = NoTask]
<1>1. Workers \in Seq(Worker) /\ Len(Workers) \in Nat /\ DOMAIN Workers = 1..Len(Workers)
  BY TaskAssumption
<1>2. done \in Nat
  <2>1. CASE t = Idle
    BY <2>1
  <2>2. CASE t # Idle
    <3>1. \E k \in DOMAIN Workers : Workers[k] = t
      BY <2>2 DEF Spawned
    <3>2. done \in DOMAIN Workers
      BY <2>2, <3>1
    <3> QED
      BY <1>1, <3>2
  <2> QED
    BY <2>1, <2>2
<1>3. AfterTask(t) = IF done < Len(Workers) THEN f ELSE g
  BY DEF AfterTask
<1> HIDE DEF done
<1>4. Top \in Frame
  BY TopType
<1>5. CASE done < Len(Workers)
  <2>1. done + 1 \in DOMAIN Workers
    BY <1>1, <1>2, <1>5, SMTT(60)
  <2>2. w \in Spawned /\ w \in Worker
    BY <1>1, <2>1 DEF Spawned
  <2> HIDE DEF w
  <2>3. f \in Frame /\ f.pc = "stack_alloc" /\ f.new = w
    BY <1>4, <2>2, ZenonT(60) DEF Frame, BasePC, Task
  <2> QED
    BY <1>3, <1>5, <2>2, <2>3
<1>6. CASE ~(done < Len(Workers))
  <2>1. g \in Frame /\ g.pc = "boot_sti"
    BY <1>4, ZenonT(60) DEF Frame, BasePC
  <2> QED
    BY <1>3, <1>6, <2>1
<1> QED
  BY <1>5, <1>6, SMTT(60)

(* The store to current_task in init preserves the invariant. *)
LEMMA InitCurrentStep ==
  ASSUME IInv, InitCurrent
  PROVE  IInv'
<1> USE DEF IInv
<1> DEFINE f == AfterTask(Idle)
<1>0. /\ Top \in Frame /\ FrameInv(Top, task, tasks, current_task)
      /\ Top.pc = "init_current" /\ status = "running" /\ Idle \in Task
  BY TopType, TopFrame, ZenonT(60) DEF InitCurrent, Locked, Task
<1>1. task[Idle].page_table
  BY <1>0 DEF FrameInv
<1>2. /\ f \in Frame
      /\ (f.pc = "stack_alloc" /\ f.new \in Spawned) \/ f.pc = "boot_sti"
  BY AfterTaskType, SMTT(60)
<1>3. /\ SetTop(f) /\ Drop("CURRENT_TASK") /\ current_task' = Idle
      /\ UNCHANGED <<on, in_service, ticks, status, tasks, task, cr3>>
  BY DEF InitCurrent
<1> HIDE DEF f
<1>4. Idle # NoTask
  BY <1>0, TaskAssumption, SMTT(60)
<1>5. Mono
  BY <1>3, <1>4, SMTT(60) DEF Mono, TypeOK
<1>6. KernelInv'
  BY <1>1, <1>3, SMTT(60) DEF KernelInv
<1>7. FrameInv(f, task', tasks', current_task')
  BY <1>2, <1>3, <1>4, SMTT(60) DEF FrameInv, SpawnPC, PushPC, DupPC, SelectedPC
<1>8. /\ Top.pc \in BasePC /\ f.pc \in BasePC /\ f.pc # "work"
      /\ tasks' \in Seq(Task) /\ current_task' \in Task \cup {NoTask}
      /\ task' \in [Task -> TaskRecord]
  BY <1>0, <1>2, <1>3, SMTT(60) DEF BasePC, TypeOK
<1> QED
  BY <1>0, <1>2, <1>3, <1>5, <1>6, <1>7, <1>8, BootWrite

(* Completing the spawned task preserves the invariant. *)
LEMMA SpawnReadyStep ==
  ASSUME IInv, SpawnReady
  PROVE  IInv'
<1> USE DEF IInv
<1> DEFINE n == Top.new
           f == AfterTask(n)
           c == InitialContext(n)
           r == [task[n] EXCEPT !.context = c, !.state = "Runnable", !.page_table = TRUE]
<1>0. /\ Top \in Frame /\ FrameInv(Top, task, tasks, current_task)
      /\ Top.pc = "ready" /\ status = "running"
  BY TopType, TopFrame, SMTT(60) DEF SpawnReady, Locked
<1>1. n \in Spawned /\ current_task # NoTask
  BY <1>0, SMTT(60) DEF FrameInv, SpawnPC
<1>2. n \in Task
  BY <1>1, TaskAssumption, SMTT(60) DEF Spawned, Task
<1>3. /\ f \in Frame
      /\ (f.pc = "stack_alloc" /\ f.new \in Spawned) \/ f.pc = "boot_sti"
  BY <1>1, AfterTaskType
<1>4. /\ SetTop(f) /\ Drop(n)
      /\ UNCHANGED <<on, in_service, ticks, status, tasks, current_task, cr3>>
  BY SMTT(60) DEF SpawnReady
<1>5. task \in [Task -> TaskRecord] /\ task[n] \in TaskRecord
  BY <1>2, SMTT(60) DEF TypeOK
<1>6. c \in TaskContext /\ c.depth = 1 /\ c.iflag = TRUE
  BY <1>2 DEF InitialContext, TaskContext
<1>7. task' = [task EXCEPT ![n] = r]
  BY <1>2, <1>5, ZenonT(60) DEF SpawnReady
<1> HIDE DEF f, n, c
<1>8. r \in TaskRecord /\ r.page_table = TRUE /\ r.context = c
  BY <1>5, <1>6, ZenonT(60) DEF TaskRecord
<1> HIDE DEF r
<1>9. /\ task' \in [Task -> TaskRecord]
      /\ \A t \in Task : task'[t] = task[t] \/ task'[t] = r
  BY <1>2, <1>5, <1>7, <1>8
<1>10. Mono
  <2>1. \A t \in Task : task[t].page_table => task'[t].page_table
    BY <1>8, <1>9, SMTT(60)
  <2>2. Len(tasks) <= Len(tasks') /\ current_task' = current_task
    BY <1>4, SMTT(60) DEF TypeOK
  <2> QED
    BY <2>1, <2>2 DEF Mono
<1>11. KernelInv'
  BY <1>4, <1>6, <1>8, <1>9, SMTT(60) DEF KernelInv
<1>12. FrameInv(f, task', tasks', current_task')
  BY <1>1, <1>3, <1>4, SMTT(60) DEF FrameInv, SpawnPC, PushPC, DupPC, SelectedPC
<1>13. /\ Top.pc \in BasePC /\ f.pc \in BasePC /\ f.pc # "work"
       /\ tasks' \in Seq(Task) /\ current_task' \in Task \cup {NoTask}
  BY <1>0, <1>3, <1>4, SMTT(60) DEF BasePC, TypeOK
<1> QED
  BY <1>0, <1>3, <1>4, <1>9, <1>10, <1>11, <1>12, <1>13, BootWrite, SMTT(60)

-----------------------------------------------------------------------------

(* The state in which init_timer returns satisfies the invariant. *)
LEMMA InitIInv ==
  ASSUME Init
  PROVE  IInv
<1> USE DEF Init
<1>1. Idle \in Task /\ NoTask \notin Task
  BY TaskAssumption, SMTT(60) DEF Task
<1>2. \A t \in Task : /\ stack[t] \in Seq(Frame) /\ Len(stack[t]) = 1
                      /\ DOMAIN stack[t] = {1} /\ stack[t] # <<>>
                      /\ stack[t][1].pc \in {"boot_cli", "work"}
                      /\ stack[t][1].got = FALSE
  <2> SUFFICES ASSUME NEW t \in Task
               PROVE  /\ stack[t] \in Seq(Frame) /\ Len(stack[t]) = 1
                      /\ DOMAIN stack[t] = {1} /\ stack[t] # <<>>
                      /\ stack[t][1].pc \in {"boot_cli", "work"}
                      /\ stack[t][1].got = FALSE
    BY ZenonT(60)
  <2> DEFINE p == IF t = Idle THEN "boot_cli" ELSE "work"
             g == FrameAt(p)
  <2>1. stack[t] = <<g>>
    OBVIOUS
  <2>2. g \in Frame /\ g.pc = p /\ g.got = FALSE /\ p \in {"boot_cli", "work"}
    BY DEF FrameAt, Frame, BasePC
  <2> HIDE DEF g, p
  <2> QED
    BY <2>1, <2>2, SMTT(60)
<1>3. Top.pc = "boot_cli" /\ Depth = 1
  BY <1>1 DEF Top, Depth, FrameAt
<1>4. task \in [Task -> TaskRecord]
  BY SMTT(60) DEF NewTask, NoContext, TaskRecord, TaskContext
<1>5. TypeOK
  <2>1. stack \in [Task -> Seq(Frame)]
    BY <1>2
  <2>2. \A t \in Task : \A d \in DOMAIN stack[t] : stack[t][d].pc \in BasePC <=> d = 1
    BY <1>2 DEF BasePC
  <2>3. held \in [Lock -> Task \cup {NoTask}] /\ tasks \in Seq(Task)
    BY SMTT(60)
  <2> QED
    BY <1>1, <1>2, <1>4, <2>1, <2>2, <2>3, ZenonT(60) DEF TypeOK
<1> HIDE DEF Init
<1>6. StackInv
  <2>1. SUFFICES ASSUME NEW t \in Task, NEW d \in DOMAIN stack[t]
                 PROVE  FrameInv(stack[t][d], task, tasks, current_task)
    BY ZenonT(60) DEF StackInv
  <2>2. stack[t][d].pc \in {"boot_cli", "work"}
    BY <1>2, ZenonT(60)
  <2> QED
    BY <2>2, ZenonT(60) DEF FrameInv, SpawnPC, PushPC, DupPC, SelectedPC
<1> USE DEF Init
<1>7. KernelInv
  BY <1>1 DEF KernelInv, NewTask, NoContext
<1>8. TimerInv
  <2>1. "LOCAL_APIC_TIMER" \in Lock
    BY DEF Lock, StaticLock
  <2> QED
    BY <1>2, <1>3, <2>1 DEF TimerInv, OneEndOfInterrupt, InService
<1>9. PanicOnlyBeforeInit /\ HltWakes
  BY <1>3 DEF PanicOnlyBeforeInit, HltWakes
<1> QED
  BY <1>5, <1>6, <1>7, <1>8, <1>9, SMTT(60) DEF IInv

(* A step that changes nothing preserves the invariant. *)
LEMMA StutterIInv ==
  ASSUME IInv, UNCHANGED vars
  PROVE  IInv'
<1> USE DEF IInv, vars
<1>1. TypeOK'
  BY SMTT(60) DEF TypeOK
<1>2. StackInv' /\ KernelInv'
  BY ZenonT(60) DEF StackInv, KernelInv
<1>3. TimerInv'
  BY DEF TimerInv, OneEndOfInterrupt, Top, Depth
<1>4. PanicOnlyBeforeInit' /\ HltWakes'
  BY DEF PanicOnlyBeforeInit, HltWakes, Top, Depth
<1> QED
  BY <1>1, <1>2, <1>3, <1>4, SMTT(60)

(* IInv is inductive: it holds when init_timer has returned, and       *)
(* every step of the interrupt handler, of switch, of the boot code and of *)
(* a task keeps it.                                                        *)
THEOREM InductiveInvariant == Spec => []IInv
<1>1. Init => IInv
  BY InitIInv
<1>2. IInv /\ [Next]_vars => IInv'
  <2> SUFFICES ASSUME IInv, [Next]_vars
               PROVE  IInv'
    OBVIOUS
  <2>1. CASE Swap
    BY <2>1, SwapStep
  <2>2. CASE Handler
    BY <2>2, HandlerStep
  <2>3. CASE Switch
    BY SMTT(60), <2>3, SwitchGotoStep, SwitchCurrentStep, SwitchProbeStep,
       SwitchSetCurrentStep, SwitchMarkStep, SwitchSaveStep, SwitchLoadStep
    DEF Switch
  <2>4. CASE Boot
    BY SMTT(60), <2>4, BootGotoStep, InitTaskStep, PushStep, InitCurrentStep,
       SpawnCurrentStep, SpawnDuplicateStep, SpawnReadyStep
    DEF Boot
  <2>5. CASE Work
    BY <2>5, BootGotoStep DEF Work
  <2>6. CASE TimerInterrupt
    BY <2>6, TimerInterruptStep
  <2>7. CASE UNCHANGED vars
    BY <2>7, StutterIInv
  <2> QED
    BY <2>1, <2>2, <2>3, <2>4, <2>5, <2>6, <2>7 DEF Next, CpuStep
<1> QED
  BY <1>1, <1>2, PTL DEF Spec

(* The scheduler's state keeps its shape: in particular iretq never leaves *)
(* a stack empty, and switch_inner resumes a stack at a record it has.     *)
THEOREM TypeCorrect == Spec => []TypeOK
<1>1. IInv => TypeOK
  BY DEF IInv
<1> QED
  BY <1>1, InductiveInvariant, PTL

(* The handler never spins on LOCAL_APIC_TIMER, wherever interrupts nest.  *)
THEOREM TimerLockNeverSpins == Spec => []TimerLockFree
<1>1. IInv => TimerLockFree
  BY DEF IInv, TimerInv, TimerLockFree
<1> QED
  BY <1>1, InductiveInvariant, PTL

(* Every timer interrupt gets one EOI, from the innermost activation.      *)
THEOREM EndOfInterruptOnce == Spec => []OneEndOfInterrupt
<1>1. IInv => OneEndOfInterrupt
  BY DEF IInv, TimerInv
<1> QED
  BY <1>1, InductiveInvariant, PTL

(* After task::init has set the current task no unwrap fails.              *)
THEOREM NoPanicAfterInit == Spec => []PanicOnlyBeforeInit
<1>1. IInv => PanicOnlyBeforeInit
  BY DEF IInv
<1> QED
  BY <1>1, InductiveInvariant, PTL

(* The timer can always wake a hlt loop.                                   *)
THEOREM HltAlwaysWakes == Spec => []HltWakes
<1>1. IInv => HltWakes
  BY DEF IInv
<1> QED
  BY <1>1, InductiveInvariant, PTL
================================================================================
