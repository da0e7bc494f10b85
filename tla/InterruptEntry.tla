---------------------------- MODULE InterruptEntry ----------------------------
(***************************************************************************)
(* How an interrupt enters and leaves the kernel, instruction by           *)
(* instruction: the gates and the stacks the CPU takes them to (Idt::new,  *)
(* Tss64), the entry stubs and interrupt_handler_common (idt.rs), and the  *)
(* change of stacks in switch_inner (task.rs).  The assembly is data,      *)
(* executed one instruction per step; compiled functions are one or a few  *)
(* steps that keep what the calling convention makes them keep.            *)
(*                                                                         *)
(* Memory is the words of the kernel stacks and of IST 1; an address       *)
(* counts words of 8 bytes, so an even address is aligned to 16 bytes.     *)
(* Instruction i of routine r has the code address 100 * r + i.            *)
(***************************************************************************)
EXTENDS Descriptors, Sequences, FiniteSetsExt

CONSTANTS Tasks,          \* the number of tasks, all of them runnable
          SLICE,          \* ticks after which check_and_schedule switches
          StackWords,     \* words of a stack
          MaxNesting,     \* model bounds: interrupts not returned, of one
          MaxPending,     \* task and of all
          InSwitch        \* whether one may arrive on the way into
                          \* switch_inner or inside it

Task == 1 .. Tasks

Vector == {0, 3, 6, 13, 14, 42}     \* 0: any vector without an entry of its own
COMMON == 100                       \* routine numbers; entry v is routine v
HANDLER == 101
CHECK == 102
SWITCH_INNER == 103
OWN == 104

CallerSaved == {"rax", "rcx", "rdx", "rsi", "rdi", "r8", "r9", "r10", "r11"}
CalleeSaved == {"rbx", "rbp", "r12", "r13", "r14", "r15"}
Reg == CallerSaved \cup CalleeSaved \cup {"rsp"}

Junk == 0                           \* what a call leaves in CallerSaved

Code(r, i) == 100 * r + i

-----------------------------------------------------------------------------
(* The text of the kernel                                                  *)

(* Mutant: the entry of the page fault made without error code.            *)
EntryWithEcode13 == {13}

(* The vectors whose entry is interrupt_entry_with_ecode.                  *)
EntryWithEcode == {13, 14}

InterruptEntry(v) ==
  IF v = 0 THEN << <<"panic">> >>
  ELSE (IF v \in EntryWithEcode THEN <<>> ELSE << <<"push_imm", 0>> >>)
         \o << <<"push_imm", v>>, <<"jmp", COMMON>> >>

Saved == <<"r15", "r14", "r13", "r12", "r11", "r10", "r9", "r8", "rdi", "rsi",
           "rbp", "rsp", "rbx", "rdx", "rcx", "rax">>
Restored == <<"rax", "rcx", "rdx", "rbx", "rsp", "rbp", "rsi", "rdi", "r8",
              "r9", "r10", "r11", "r12", "r13", "r14", "r15">>

(* Mutant: the stack pointer restored from the wrong word.                 *)
CommonFromRsp ==
  [i \in 1 .. Len(Saved) |-> <<"push", Saved[i]>>]
    \o << <<"push", "rsp">>, <<"pop", "rdi">>, <<"push", "rsp">>,
          <<"push_top">>, <<"align">>, <<"call", HANDLER>>, <<"load_rsp", 0>> >>
    \o [i \in 1 .. Len(Restored) |-> <<"pop", Restored[i]>>]
    \o << <<"add_rsp", 2>>, <<"call", CHECK>>, <<"iretq">> >>

InterruptHandlerCommon ==
  [i \in 1 .. Len(Saved) |-> <<"push", Saved[i]>>]
    \o << <<"push", "rsp">>, <<"pop", "rdi">>, <<"push", "rsp">>,
          <<"push_top">>, <<"align">>, <<"call", HANDLER>>, <<"load_rsp", 1>> >>
    \o [i \in 1 .. Len(Restored) |-> <<"pop", Restored[i]>>]
    \o << <<"add_rsp", 2>>, <<"call", CHECK>>, <<"iretq">> >>

(* The offsets are those of the fields of TaskContext, in words.           *)
SwitchInner ==
  << <<"lea", "rax", Code(SWITCH_INNER, 23)>>, <<"push", "rax">>, <<"pushfq">>,
     <<"pop", "rax">>, <<"store", 7, "rax">>, <<"store", 0, "rbx">>,
     <<"store", 1, "rbp">>, <<"store", 2, "r12">>, <<"store", 3, "r13">>,
     <<"store", 4, "r14">>, <<"store", 5, "r15">>, <<"store", 6, "rsp">>,
     <<"load", "rbx", 0>>, <<"load", "rbp", 1>>, <<"load", "r12", 2>>,
     <<"load", "r13", 3>>, <<"load", "r14", 4>>, <<"load", "r15", 5>>,
     <<"load", "rsp", 6>>, <<"load", "rax", 7>>, <<"push", "rax">>,
     <<"popfq">>, <<"ret">>, <<"ret">> >>

(* interrupt_handler and check_and_schedule with switch are compiled code; *)
(* "leave" is the return of a compiled function.                           *)
Text == [r \in Vector \cup {COMMON, HANDLER, CHECK, SWITCH_INNER, OWN} |->
           CASE r \in Vector       -> InterruptEntry(r)
             [] r = COMMON         -> InterruptHandlerCommon
             [] r = HANDLER        -> << <<"match">>, <<"tick">>, <<"leave">> >>
             [] r = CHECK          -> << <<"check">>, <<"call", SWITCH_INNER>>,
                                         <<"sti">>, <<"leave">> >>
             [] r = SWITCH_INNER   -> SwitchInner
             [] r = OWN            -> << <<"own">> >>]

IretqAt == Code(COMMON, Len(InterruptHandlerCommon) - 1)

-----------------------------------------------------------------------------
(* The tables and the stacks                                               *)

BitsOf(n) == {i \in 0 .. 15 : (n \div 2^i) % 2 = 1}
Number(bits) == MapThenSumSet(LAMBDA i : 2^i, bits)

KERNEL_CODE_SEGMENT == {3}

(* Mutant: the timer's gate on IST 1 like the others.                      *)
IdtAllIst == [v \in Vector |->
  GateCreate(KERNEL_CODE_SEGMENT, {0}, {1, 2, 3}, {}, BitsOf(Code(v, 0)))]

Idt == [v \in Vector |->
          GateCreate(KERNEL_CODE_SEGMENT, IF v = 42 THEN {} ELSE {0}, {1, 2, 3},
                     IF v = 3 THEN {0, 1} ELSE {}, BitsOf(Code(v, 0)))]

(* Stack 0 is the one of IST 1, the others are the kernel stacks.          *)
StackOf(k) == k * StackWords .. (k + 1) * StackWords - 1
StackTop(k) == (k + 1) * StackWords
Address == 0 .. StackTop(Tasks) - 1
TssIst == [i \in 1 .. 1 |-> StackTop(0)]

VARIABLES rip, regs, iflag,  \* the CPU; iflag is 1 when interrupts are on
          mem,               \* the stacks
          in_service,        \* the APIC awaits the end of a timer interrupt
          ticks, current_task,    \* CpuContextBlock
          context,           \* per task: its TaskContext
          pending,           \* history: what each interrupt interrupted
          status             \* "running", or why the CPU stopped for good

vars == <<rip, regs, iflag, mem, in_service, ticks, current_task, context,
          pending, status>>

kernelVars == <<in_service, ticks, current_task, context, pending, status>>

Mem(a) == IF a \in Address THEN mem[a] ELSE Junk
Context(p, i) == IF p \in Task THEN context[p][i] ELSE Junk

rsp == regs["rsp"]

(* Words pushed from address a downwards.                                  *)
Pushed(a, words) ==
  [x \in Address |-> IF a - x \in 1 .. Len(words) THEN words[a - x] ELSE mem[x]]

(* The stack once rsp has moved up to sp: what lies below rsp is never     *)
(* read again, for the next interrupt may overwrite it.                    *)
Popped(sp) ==
  [x \in Address |-> IF x \in StackOf(rsp \div StackWords) /\ x \in rsp .. sp - 1
                     THEN Junk ELSE mem[x]]

Clobber(f) == [r \in Reg |-> IF r \in CallerSaved THEN Junk ELSE f[r]]

(* The values that the code of task t keeps in its registers.              *)
OwnValue == [r \in Reg |-> CHOOSE i \in 1 .. Len(Saved) : Saved[i] = r]
OwnRegs(t) ==
  [r \in Reg |-> IF r = "rsp" THEN StackTop(t) - 1 ELSE 1000 * t + OwnValue[r]]

-----------------------------------------------------------------------------
(* kernel_main has become task 1; the others are as spawn leaves them.     *)
Init ==
  /\ rip = Code(OWN, 0)
  /\ regs = OwnRegs(1)
  /\ iflag = 1 /\ in_service = FALSE
  /\ mem = [a \in Address |-> IF a + 1 \in {StackTop(t) : t \in Task \ {1}}
                              THEN Code(OWN, 0) ELSE Junk]
  /\ ticks = 0 /\ current_task = 1
  /\ context = [t \in Task |-> [i \in 0 .. 7 |->
                  CASE t # 1 /\ i = 6 -> StackTop(t) - 1
                    [] t # 1 /\ i = 7 -> 1
                    [] OTHER -> 0]]
  /\ pending = [t \in Task |-> <<>>]
  /\ status = "running"

Instruction == Text[rip \div 100][(rip % 100) + 1]
Op(o) == status = "running" /\ Instruction[1] = o

NextRip == rip' = rip + 1
Push(w) == /\ mem' = Pushed(rsp, <<w>>)
           /\ regs' = [regs EXCEPT !["rsp"] = @ - 1]

PushInstruction ==
  /\ \/ Op("push") /\ Push(regs[Instruction[2]])
     \/ Op("push_imm") /\ Push(Instruction[2])
     \/ Op("push_top") /\ Push(Mem(rsp))
     \/ Op("pushfq") /\ Push(iflag)
  /\ NextRip /\ UNCHANGED <<iflag, kernelVars>>

(* pop rsp leaves the word it read in rsp.                                 *)
PopInstruction ==
  /\ \/ /\ Op("pop")
        /\ regs' = [regs EXCEPT !["rsp"] = @ + 1, ![Instruction[2]] = Mem(rsp)]
        /\ UNCHANGED iflag
     \/ /\ Op("popfq")
        /\ regs' = [regs EXCEPT !["rsp"] = @ + 1]
        /\ iflag' = Mem(rsp)
  /\ mem' = Popped(regs'["rsp"])
  /\ NextRip /\ UNCHANGED kernelVars

MoveInstruction ==
  /\ \/ Op("align") /\ regs' = [regs EXCEPT !["rsp"] = @ - (@ % 2)]
     \/ Op("add_rsp") /\ regs' = [regs EXCEPT !["rsp"] = @ + Instruction[2]]
     \/ Op("load_rsp") /\ regs' = [regs EXCEPT !["rsp"] = Mem(@ + Instruction[2])]
     \/ Op("lea") /\ regs' = [regs EXCEPT ![Instruction[2]] = Instruction[3]]
     \/ /\ Op("load")
        /\ regs' = [regs EXCEPT ![Instruction[2]] =
                      Context(regs["rsi"], Instruction[3])]
  /\ mem' = IF Instruction[1] \in {"add_rsp", "load_rsp"}
              THEN Popped(regs'["rsp"]) ELSE mem
  /\ NextRip /\ UNCHANGED <<iflag, kernelVars>>

StoreInstruction ==
  /\ Op("store")
  /\ context' = [t \in Task |->
       IF t = regs["rdi"]
         THEN [context[t] EXCEPT ![Instruction[2]] = regs[Instruction[3]]]
         ELSE context[t]]
  /\ NextRip
  /\ UNCHANGED <<regs, iflag, mem, in_service, ticks, current_task, pending,
                 status>>

JumpInstruction ==
  /\ \/ /\ Op("jmp") /\ rip' = Code(Instruction[2], 0)
        /\ UNCHANGED <<regs, mem>>
     \/ Op("call") /\ rip' = Code(Instruction[2], 0) /\ Push(rip + 1)
     \/ /\ Op("ret") /\ rip' = Mem(rsp)
        /\ regs' = [regs EXCEPT !["rsp"] = @ + 1] /\ mem' = Popped(rsp + 1)
     \/ /\ Op("leave") /\ rip' = Mem(rsp)
        /\ regs' = Clobber([regs EXCEPT !["rsp"] = @ + 1])
        /\ mem' = Popped(rsp + 1)
  /\ UNCHANGED <<iflag, kernelVars>>

Iretq ==
  /\ Op("iretq")
  /\ rip' = Mem(rsp)
  /\ iflag' = Mem(rsp + 2)
  /\ regs' = [regs EXCEPT !["rsp"] = Mem(rsp + 3)]
  /\ mem' = Popped(Mem(rsp + 3))
  /\ pending' = [pending EXCEPT ![current_task] = SubSeq(@, 1, Len(@) - 1)]
  /\ UNCHANGED <<in_service, ticks, current_task, context, status>>

-----------------------------------------------------------------------------
(* Compiled code                                                           *)

(* interrupt_handler: the guards dropped on the way to the end of          *)
(* interrupt enable interrupts; tick() comes after it.  Every vector but   *)
(* 3 and 42 ends in a hlt loop with interrupts off.                        *)
HandlerMatch ==
  /\ Op("match")
  /\ \/ /\ Mem(regs["rdi"] + 16) = 42
        /\ iflag' = 1 /\ in_service' = FALSE /\ NextRip /\ UNCHANGED status
     \/ /\ Mem(regs["rdi"] + 16) = 3
        /\ rip' = rip + 2 /\ UNCHANGED <<iflag, in_service, status>>
     \/ /\ Mem(regs["rdi"] + 16) \notin {3, 42}
        /\ status' = "halted" /\ UNCHANGED <<rip, iflag, in_service>>
  /\ UNCHANGED <<regs, mem, ticks, current_task, context, pending>>

HandlerTick ==
  /\ Op("tick")
  /\ ticks' = ticks + 1 /\ NextRip
  /\ UNCHANGED <<regs, iflag, mem, in_service, current_task, context, pending,
                 status>>

(* check_and_schedule, and switch up to the call of switch_inner: the next *)
(* task is current before the stacks change, and the drops of its guards   *)
(* have enabled interrupts.                                                *)
CheckAndSchedule ==
  /\ Op("check")
  /\ IF ticks >= SLICE
       THEN /\ ticks' = 0
            /\ current_task' = (current_task % Tasks) + 1
            /\ regs' = [Clobber(regs) EXCEPT !["rdi"] = current_task,
                                             !["rsi"] = (current_task % Tasks) + 1]
            /\ iflag' = 1 /\ rip' = rip + 1
       ELSE /\ regs' = Clobber(regs) /\ rip' = rip + 3
            /\ UNCHANGED <<ticks, current_task, iflag>>
  /\ UNCHANGED <<mem, in_service, context, pending, status>>

(* enable_interrupts at the end of switch.                                 *)
SwitchEnd ==
  /\ Op("sti") /\ iflag' = 1 /\ NextRip
  /\ UNCHANGED <<regs, mem, kernelVars>>

Panic ==
  /\ Op("panic") /\ status' = "panicked"
  /\ UNCHANGED <<rip, regs, iflag, mem, in_service, ticks, current_task,
                 context, pending>>

(* The code of a task sets its registers; only then is it interrupted.     *)
OwnCode ==
  /\ Op("own")
  /\ regs' = OwnRegs(current_task)
  /\ UNCHANGED <<rip, iflag, mem, kernelVars>>

-----------------------------------------------------------------------------
(* Interrupts                                                              *)

(* The CPU: the stack of the gate's IST, aligned; ss, rsp, rflags, cs, rip *)
(* and for some vectors an error code; then the gate's entry point with    *)
(* interrupts off.                                                         *)
Deliver(v, ecode) ==
  LET ist == Number(GateIst(Idt[v]))
      from == IF ist = 0 THEN rsp ELSE TssIst[ist]
      frame == <<16, rsp, iflag, 8, rip>>
                 \o (IF v \in {13, 14} THEN <<ecode>> ELSE <<>>)
  IN  /\ mem' = Pushed(from - (from % 2), frame)
      /\ regs' = [regs EXCEPT !["rsp"] = from - (from % 2) - Len(frame)]
      /\ rip' = Number(GateOffset(Idt[v]))
      /\ iflag' = 0
      /\ pending' = [pending EXCEPT ![current_task] =
           Append(@, [vector |-> v, ecode |-> ecode, rip |-> rip,
                      iflag |-> iflag, regs |-> regs])]
      /\ UNCHANGED <<ticks, current_task, context, status>>

OnTheWayToSwitch == rip = Code(CHECK, 1) \/ rip \div 100 = SWITCH_INNER

MayNest == /\ rip = Code(OWN, 0) => regs = OwnRegs(current_task)
           /\ Len(pending[current_task]) < MaxNesting
           /\ MapThenSumSet(LAMBDA t : Len(pending[t]), Task) < MaxPending

Timer ==
  /\ status = "running" /\ iflag = 1 /\ ~in_service
  /\ MayNest
  /\ InSwitch \/ ~OnTheWayToSwitch
  /\ in_service' = TRUE
  /\ Deliver(42, 0)

(* A breakpoint in the code of a task; a fault there or in the handler.    *)
Exception ==
  /\ status = "running"
  /\ MayNest
  /\ \/ rip = Code(OWN, 0) /\ \E v \in {0, 3, 6} : Deliver(v, 0)
     \/ /\ rip = Code(OWN, 0) \/ rip \div 100 = HANDLER
        /\ \E v \in {13, 14} : Deliver(v, 5)
  /\ UNCHANGED in_service

Next ==
  \/ PushInstruction \/ PopInstruction \/ MoveInstruction \/ StoreInstruction
  \/ JumpInstruction \/ Iretq
  \/ HandlerMatch \/ HandlerTick \/ CheckAndSchedule \/ SwitchEnd \/ Panic
  \/ OwnCode \/ Timer \/ Exception

Spec == Init /\ [][Next]_vars

-----------------------------------------------------------------------------

Interrupted == pending[current_task][Len(pending[current_task])]

(* interrupt_handler runs on an aligned stack and finds in its argument    *)
(* the vector, the error code and the rip of the interrupt that the CPU    *)
(* delivered, on whatever stack and at whatever depth (idt.rs:138-142).    *)
HandlerSeesInterrupt ==
  status = "running" /\ rip = Code(HANDLER, 0) =>
    /\ Mem(regs["rdi"] + 16) = Interrupted.vector
    /\ Mem(regs["rdi"] + 17) = Interrupted.ecode
    /\ Mem(regs["rdi"] + 18) = Interrupted.rip
    /\ rsp % 2 = 1

(* However interrupts nest and tasks are switched in between, the iretq of *)
(* an interrupt goes back to the instruction, the stack, the interrupt     *)
(* flag and the callee-saved registers that it interrupted (idt.rs:165).   *)
ReturnsWhereInterrupted ==
  status = "running" /\ rip = IretqAt =>
    /\ pending[current_task] # <<>>
    /\ Mem(rsp) = Interrupted.rip
    /\ Mem(rsp + 2) = Interrupted.iflag
    /\ Mem(rsp + 3) = Interrupted.regs["rsp"]
    /\ \A r \in CalleeSaved : regs[r] = Interrupted.regs[r]

(* No task is switched away while it is on the stack of IST 1, where the   *)
(* next exception of another task would overwrite its frame (idt.rs:164).  *)
SwitchesOffIst ==
  status = "running" /\ rip = Code(CHECK, 1) => rsp \notin StackOf(0)

(* "Save registers" ... "Restore registers" (idt.rs:121, idt.rs:145): the  *)
(* interrupted code gets back every register.                              *)
RestoresRegisters ==
  status = "running" /\ rip = IretqAt =>
    \A r \in CallerSaved \cup CalleeSaved : regs[r] = Interrupted.regs[r]
===============================================================================
