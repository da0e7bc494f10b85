--------------------------------- MODULE Wasm ---------------------------------
(***************************************************************************)
(* The WebAssembly interpreter of kernel/src/wasm.rs: a Runtime whose      *)
(* operand stack and call stack execute() works on, one action per         *)
(* instruction.  Program counters are 0-based, as in the code.  The        *)
(* arithmetic is that of the debug build: an i32 overflow panics.          *)
(***************************************************************************)
EXTENDS Integers, Sequences

CONSTANTS MAX,         \* i32::MAX
          Stores,      \* the stores a Runtime may be made with: records with
                       \* a field funcs, a sequence of functions
          Args,        \* the argument lists call may be given
          MaxLeft      \* bound: another call is made while at most MaxLeft
                       \* frames were left behind, each passed over at most
                       \* MaxLeft times

ASSUME WidthAssumption == MAX \in Nat \ {0} /\ MaxLeft \in Nat

I32 == -MAX - 1 .. MAX

VARIABLES store,        \* Runtime::store, fixed by Runtime::new
          stack,        \* Runtime::stack
          call_stack,   \* Runtime::call_stack
          phase,        \* "new", "run" (in execute), "done" or "panic"
          entry,        \* the function and arguments of the last call
          result        \* what it returned: <<>> for None, <<v>> for Some(v)

vars == <<store, stack, call_stack, phase, entry, result>>

-----------------------------------------------------------------------------

Init ==
  /\ store \in Stores
  /\ stack = <<>> /\ call_stack = <<>>
  /\ phase = "new"
  /\ entry = [func |-> 0, args |-> <<>>]
  /\ result = <<>>

Func(idx) == store.funcs[idx + 1]

Panic == phase' = "panic" /\ UNCHANGED <<store, stack, call_stack, entry, result>>

(* Definitions named after a bug, here a frame whose sp is taken before    *)
(* the arguments leave the stack, are variants of the one that follows,    *)
(* used to test the properties.                                            *)
PushFrameEarlySp(idx, st, cs) ==
  LET func == Func(idx)
      bottom == Len(st) - func.params
  IN  /\ stack' = SubSeq(st, 1, bottom)
      /\ call_stack' =
           Append(cs, [pc |-> -1, sp |-> Len(st), func |-> idx,
                       arity |-> func.results, labels |-> <<>>,
                       locals |-> SubSeq(st, bottom + 1, Len(st))
                                    \o [i \in 1 .. func.locals |-> 0]])

(* push_frame: the arguments move from the operand stack to the locals.    *)
PushFrame(idx, st, cs) ==
  LET func == Func(idx)
      bottom == Len(st) - func.params
  IN  /\ stack' = SubSeq(st, 1, bottom)
      /\ call_stack' =
           Append(cs, [pc |-> -1, sp |-> bottom, func |-> idx,
                       arity |-> func.results, labels |-> <<>>,
                       locals |-> SubSeq(st, bottom + 1, Len(st))
                                    \o [i \in 1 .. func.locals |-> 0]])

(* call and invoke, up to the loop of execute.  The call stack is not      *)
(* cleared.                                                                *)
Call(idx, args) ==
  /\ phase \in {"new", "done"}
  /\ Len(args) = Func(idx).params
  /\ Len(call_stack) <= MaxLeft
  /\ \A i \in DOMAIN call_stack :
       call_stack[i].pc <= Len(Func(call_stack[i].func).body) + MaxLeft
  /\ PushFrame(idx, args, call_stack)
  /\ phase' = "run"
  /\ entry' = [func |-> idx, args |-> args]
  /\ result' = <<>>
  /\ UNCHANGED store

-----------------------------------------------------------------------------

Top == call_stack[Len(call_stack)]
Body == Func(Top.func).body
Pc == Top.pc + 1
Running == phase = "run" /\ call_stack # <<>>
Fetched(op) == Running /\ Pc < Len(Body) /\ Body[Pc + 1].op = op
Inst == Body[Pc + 1]

SetTop(frame) == [call_stack EXCEPT ![Len(call_stack)] = frame]

(* The instruction is done: st is the operand stack, frame.pc is at it.    *)
Done(st, frame) ==
  /\ stack' = st
  /\ call_stack' = SetTop(frame)
  /\ UNCHANGED <<store, phase, entry, result>>

AtInst == [Top EXCEPT !.pc = Pc]

Pops(n) == SubSeq(stack, 1, Len(stack) - n)

Binary(op) ==
  LET rhs == stack[Len(stack)]
      lhs == stack[Len(stack) - 1]
  IN  CASE op = "I32Add" -> lhs + rhs
        [] op = "I32Sub" -> lhs - rhs
        [] op = "I32Mul" -> lhs * rhs
        [] op = "I32Lts" -> IF lhs < rhs THEN 1 ELSE 0

Operate(op) ==
  /\ Fetched(op)
  /\ IF Len(stack) < 2 \/ Binary(op) \notin I32
       THEN Panic
       ELSE Done(Append(Pops(2), Binary(op)), AtInst)

Const ==
  /\ Fetched("Const")
  /\ Done(Append(stack, Inst.val), AtInst)

LocalGet ==
  /\ Fetched("LocalGet")
  /\ IF Inst.idx < Len(Top.locals)
       THEN Done(Append(stack, Top.locals[Inst.idx + 1]), AtInst)
       ELSE Panic

CallInst ==
  /\ Fetched("Call")
  /\ IF /\ Inst.idx < Len(store.funcs)
        /\ Func(Inst.idx).params <= Len(stack)
       THEN /\ PushFrame(Inst.idx, stack, SetTop(AtInst))
            /\ UNCHANGED <<store, phase, entry, result>>
       ELSE Panic

EndAddrFirst(insts, pc) ==
  CHOOSE p \in pc + 1 .. Len(insts) - 1 :
    /\ insts[p + 1].op = "End"
    /\ \A q \in pc + 1 .. p - 1 : insts[q + 1].op # "End"

(* get_end_addr: the scan from pc, counting the blocks opened on the way.  *)
(* Len(insts) stands for the panic of a scan that runs off the end.        *)
EndAddr(insts, pc) ==
  LET scan[p \in Nat, depth \in Nat] ==
        IF p >= Len(insts) THEN Len(insts)
        ELSE IF insts[p + 1].op = "If" THEN scan[p + 1, depth + 1]
        ELSE IF insts[p + 1].op # "End" THEN scan[p + 1, depth]
        ELSE IF depth = 0 THEN p
        ELSE scan[p + 1, depth - 1]
  IN  scan[pc + 1, 0]

(* A label is pushed whether or not the branch is taken; when it is not,   *)
(* the End that would pop it is skipped.                                   *)
If ==
  /\ Fetched("If")
  /\ LET next_pc == EndAddr(Body, Pc)
         label == [pc |-> next_pc, sp |-> Len(stack) - 1, arity |-> 0]
     IN  IF stack = <<>> \/ next_pc = Len(Body)
           THEN Panic
           ELSE Done(Pops(1),
                     [Top EXCEPT !.pc = IF stack[Len(stack)] = 0 THEN next_pc ELSE Pc,
                                 !.labels = Append(@, label)])

StackUnwindBelow(st, sp, arity) ==
  SubSeq(st, 1, sp - 1) \o SubSeq(st, Len(st) - arity + 1, Len(st))

(* stack_unwind: what is above sp goes, except a result on top.            *)
StackUnwind(st, sp, arity) ==
  SubSeq(st, 1, sp) \o SubSeq(st, Len(st) - arity + 1, Len(st))

CanUnwind(sp, arity) == sp + arity <= Len(stack)

LeaveFrameKept ==
  /\ stack' = StackUnwind(stack, Top.sp, Top.arity)
  /\ call_stack' = SetTop(AtInst)
  /\ UNCHANGED <<store, phase, entry, result>>

(* Return, and an End that closes no block, leave the frame.               *)
LeaveFrame ==
  IF CanUnwind(Top.sp, Top.arity)
    THEN /\ stack' = StackUnwind(stack, Top.sp, Top.arity)
         /\ call_stack' = SubSeq(call_stack, 1, Len(call_stack) - 1)
         /\ UNCHANGED <<store, phase, entry, result>>
    ELSE Panic

Return == Fetched("Return") /\ LeaveFrame

EndFunction == Fetched("End") /\ Top.labels = <<>> /\ LeaveFrame

EndBlockStay ==
  /\ Fetched("End")
  /\ Top.labels # <<>>
  /\ LET label == Top.labels[Len(Top.labels)]
     IN  Done(StackUnwind(stack, label.sp, label.arity),
              [Top EXCEPT !.pc = label.pc])

EndBlock ==
  /\ Fetched("End")
  /\ Top.labels # <<>>
  /\ LET label == Top.labels[Len(Top.labels)]
     IN  IF CanUnwind(label.sp, label.arity)
           THEN Done(StackUnwind(stack, label.sp, label.arity),
                     [Top EXCEPT !.pc = label.pc, !.labels = SubSeq(@, 1, Len(@) - 1)])
           ELSE Panic

(* execute breaks when no frame is left or the top one has run past its    *)
(* last instruction, and invoke pops the result.                           *)
Finish ==
  /\ phase = "run"
  /\ call_stack # <<>> => Pc >= Len(Body)
  /\ LET arity == Func(entry.func).results
     IN  IF arity > Len(stack)
           THEN Panic
           ELSE /\ phase' = "done"
                /\ result' = SubSeq(stack, Len(stack) - arity + 1, Len(stack))
                /\ stack' = Pops(arity)
                /\ call_stack' = IF call_stack = <<>> THEN <<>>
                                 ELSE SetTop(AtInst)
                /\ UNCHANGED <<store, entry>>

Step ==
  \/ \E op \in {"I32Add", "I32Sub", "I32Mul", "I32Lts"} : Operate(op)
  \/ Const \/ LocalGet \/ CallInst \/ If
  \/ Return \/ EndFunction \/ EndBlock
  \/ Finish

Next ==
  \/ \E idx \in 0 .. Len(store.funcs) - 1, args \in Args : Call(idx, args)
  \/ Step

(* execute is a loop of one task; nothing it waits for is outside it.      *)
Spec == Init /\ [][Next]_vars /\ WF_vars(Step)

-----------------------------------------------------------------------------

(* The two functions wasm_entry runs for every line n of a diamond of      *)
(* height size: the blanks and the stars of the line.                      *)
LessThanHalf(half) ==
  <<[op |-> "LocalGet", idx |-> 0], [op |-> "Const", val |-> half],
    [op |-> "I32Lts"], [op |-> "If"]>>

WasmSpace(size) ==
  LET half == size \div 2
  IN  [params |-> 1, locals |-> 0, results |-> 1,
       body |-> LessThanHalf(half) \o
         <<[op |-> "Const", val |-> half], [op |-> "LocalGet", idx |-> 0],
           [op |-> "I32Sub"], [op |-> "Return"], [op |-> "End"],
           [op |-> "LocalGet", idx |-> 0], [op |-> "Const", val |-> half],
           [op |-> "I32Sub"], [op |-> "Return"]>>]

WasmStar(size) ==
  LET half == size \div 2
  IN  [params |-> 1, locals |-> 0, results |-> 1,
       body |-> LessThanHalf(half) \o
         <<[op |-> "LocalGet", idx |-> 0], [op |-> "Const", val |-> 2],
           [op |-> "I32Mul"], [op |-> "Const", val |-> 1],
           [op |-> "I32Add"], [op |-> "Return"], [op |-> "End"],
           [op |-> "Const", val |-> size], [op |-> "Const", val |-> 2],
           [op |-> "LocalGet", idx |-> 0], [op |-> "Const", val |-> half],
           [op |-> "I32Sub"], [op |-> "I32Mul"], [op |-> "I32Sub"],
           [op |-> "Return"]>>]

-----------------------------------------------------------------------------

(* Which functions the interpreter is meant for: those whose operands are  *)
(* on the stack when an instruction pops them.                             *)
Arithmetic == {"I32Add", "I32Sub", "I32Mul", "I32Lts"}
Instruction ==
  [op : {"Const"}, val : I32] \cup [op : {"LocalGet", "Call"}, idx : Nat]
    \cup [op : Arithmetic \cup {"If", "Return", "End"}]
Callable == [params : Nat, locals : Nat, results : 0 .. 1, body : Seq(Instruction)]

(* The operands of a function that are on the stack after inst, if n were  *)
(* before it.  A statement begins without any.                             *)
HeightAfter(funcs, inst, n) ==
  CASE inst.op \in {"Const", "LocalGet"} -> n + 1
    [] inst.op \in Arithmetic -> n - 1
    [] inst.op = "Call" ->
         n - funcs[inst.idx + 1].params + funcs[inst.idx + 1].results
    [] OTHER -> 0

Heights(funcs, body) ==
  LET height[p \in 0 .. Len(body)] ==
        IF p = 0 THEN 0 ELSE HeightAfter(funcs, body[p], height[p - 1])
  IN  height

(* A function that another one calls is left by Return or by its own End:  *)
(* execute stops when it finds a frame past its last instruction.          *)
Closed(body) ==
  /\ body # <<>> /\ body[Len(body)].op \in {"Return", "End"}
  /\ \A p \in 1 .. Len(body) :
       body[p].op = "If" => EndAddr(body, p - 1) # Len(body) - 1

(* An If is a statement of its own: its condition is the only operand.     *)
FitsAt(funcs, body, p, n) ==
  LET inst == body[p + 1]
  IN  /\ inst.op \in Arithmetic => n >= 2
      /\ inst.op = "Call" =>
           /\ inst.idx < Len(funcs) /\ funcs[inst.idx + 1].params <= n
           /\ Closed(funcs[inst.idx + 1].body)
      /\ inst.op = "If" =>
           /\ n = 1 /\ EndAddr(body, p) \in 0 .. Len(body) - 1
           /\ body[EndAddr(body, p) + 1].op = "End"

WellTyped(funcs, body, height) ==
  /\ height \in [0 .. Len(body) -> Nat] /\ height[0] = 0
  /\ \A p \in 0 .. Len(body) - 1 :
       /\ FitsAt(funcs, body, p, height[p])
       /\ height[p + 1] = HeightAfter(funcs, body[p + 1], height[p])

Valid(funcs) ==
  /\ funcs \in Seq(Callable)
  /\ \A i \in DOMAIN funcs : WellTyped(funcs, funcs[i].body, Heights(funcs, funcs[i].body))

ASSUME StoreAssumption ==
  /\ \A s \in Stores : Valid(s.funcs)
  /\ Args \subseteq Seq(I32)

-----------------------------------------------------------------------------

(* The part of the operand stack that belongs to frame i ends where the    *)
(* next frame begins.                                                      *)
Limit(i) == IF i = Len(call_stack) THEN Len(stack) ELSE call_stack[i + 1].sp

(* Frames and, within a frame, labels are stacked on the operand stack in  *)
(* order: an unwind never finds less on the stack than it wants to keep    *)
(* (the drain of stack_unwind would panic), nor reaches below its frame.   *)
FramesNest ==
  phase = "run" =>
    \A i \in DOMAIN call_stack :
      /\ call_stack[i].sp <= Limit(i)
      /\ \A k \in DOMAIN call_stack[i].labels :
           call_stack[i].labels[k].sp \in call_stack[i].sp .. Limit(i)

(* While a function runs, the operands its caller has left on the stack    *)
(* for after the call stay as they are.                                    *)
CallerOperandsKept ==
  [][Running /\ Step /\ phase' = "run" =>
       /\ Top.sp <= Len(stack')
       /\ SubSeq(stack', 1, Top.sp) = SubSeq(stack, 1, Top.sp)]_vars

(* A frame that is still there when call returns has run past its end, so  *)
(* a later call on the same Runtime, which stacks its frame on top of it,  *)
(* cannot continue in the middle of old code.                              *)
LeftFramesSpent ==
  phase = "done" =>
    \A i \in DOMAIN call_stack :
      call_stack[i].pc >= Len(Func(call_stack[i].func).body)

(* execute comes to an end: the jump of an End back to its label does not  *)
(* go round for ever.                                                      *)
CallReturns == phase = "run" ~> phase \in {"done", "panic"}
===============================================================================
