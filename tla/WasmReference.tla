---------------------------- MODULE WasmReference ----------------------------
(***************************************************************************)
(* What a structured program means, and how its functions are laid out as  *)
(* instructions: the reference the interpreter of module Wasm is compared  *)
(* with.  An expression is a constant, a local, an operation or a call; a  *)
(* statement is a conditional or a return; a function has statements, then *)
(* possibly a value, and is closed by Return, by End or by nothing.        *)
(***************************************************************************)
EXTENDS Wasm

Num(v) == [k |-> "num", v |-> v]
Local(i) == [k |-> "local", i |-> i]
Bin(op, l, r) == [k |-> "bin", op |-> op, l |-> l, r |-> r]
CallOf(f, arg) == [k |-> "call", f |-> f, arg |-> arg]
Cond(c, body) == [k |-> "cond", c |-> c, body |-> body]
Ret(e) == [k |-> "ret", e |-> e]
Function(params, locals, stmts, value, close) ==
  [params |-> params, locals |-> locals, stmts |-> stmts, value |-> value,
   close |-> close]

-----------------------------------------------------------------------------

RECURSIVE CodeOf(_), CodeOfStmts(_)

CodeOf(e) ==
  CASE e.k = "num"   -> <<[op |-> "Const", val |-> e.v]>>
    [] e.k = "local" -> <<[op |-> "LocalGet", idx |-> e.i]>>
    [] e.k = "bin"   -> CodeOf(e.l) \o CodeOf(e.r) \o <<[op |-> e.op]>>
    [] e.k = "call"  -> CodeOf(e.arg) \o <<[op |-> "Call", idx |-> e.f]>>

CodeOfStmts(ss) ==
  IF ss = <<>> THEN <<>>
  ELSE LET s == Head(ss)
       IN  (IF s.k = "ret"
              THEN CodeOf(s.e) \o <<[op |-> "Return"]>>
              ELSE CodeOf(s.c) \o <<[op |-> "If"]>> \o CodeOfStmts(s.body)
                     \o <<[op |-> "End"]>>)
             \o CodeOfStmts(Tail(ss))

Compiled(f) ==
  [params |-> f.params, locals |-> f.locals, results |-> Len(f.value),
   body |-> CodeOfStmts(f.stmts)
              \o (IF f.value = <<>> THEN <<>> ELSE CodeOf(f.value[1]))
              \o (IF f.close = "none" THEN <<>> ELSE <<[op |-> f.close]>>)]

StoreOf(src) ==
  [src |-> src, funcs |-> [i \in DOMAIN src |-> Compiled(src[i])]]

-----------------------------------------------------------------------------

(* An outcome is <<"val", v>>, <<"none">> (nothing returned yet, or no     *)
(* result) or <<"panic">>.                                                 *)
RECURSIVE Value(_, _, _), Outcome(_, _, _), Apply(_, _, _)

Value(src, e, env) ==
  CASE e.k = "num"   -> <<"val", e.v>>
    [] e.k = "local" -> <<"val", env[e.i + 1]>>
    [] e.k = "bin"   ->
         LET a == Value(src, e.l, env)
             b == Value(src, e.r, env)
         IN  IF a = <<"panic">> \/ b = <<"panic">> THEN <<"panic">>
             ELSE LET v == CASE e.op = "I32Add" -> a[2] + b[2]
                             [] e.op = "I32Sub" -> a[2] - b[2]
                             [] e.op = "I32Mul" -> a[2] * b[2]
                             [] e.op = "I32Lts" -> IF a[2] < b[2] THEN 1 ELSE 0
                  IN  IF v \in I32 THEN <<"val", v>> ELSE <<"panic">>
    [] e.k = "call"  ->
         LET a == Value(src, e.arg, env)
         IN  IF a = <<"panic">> THEN a ELSE Apply(src, e.f, <<a[2]>>)

Outcome(src, ss, env) ==
  IF ss = <<>> THEN <<"none">>
  ELSE LET s == Head(ss)
       IN  IF s.k = "ret" THEN Value(src, s.e, env)
           ELSE LET c == Value(src, s.c, env)
                    r == IF c = <<"panic">> THEN c
                         ELSE IF c[2] # 0 THEN Outcome(src, s.body, env)
                         ELSE <<"none">>
                IN  IF r # <<"none">> THEN r ELSE Outcome(src, Tail(ss), env)

Apply(src, f, args) ==
  LET func == src[f + 1]
      env == args \o [i \in 1 .. func.locals |-> 0]
      r == Outcome(src, func.stmts, env)
  IN  IF r # <<"none">> \/ func.value = <<>> THEN r
      ELSE Value(src, func.value[1], env)

(* call returns what the structured program means, and panics only when an *)
(* operation of the program itself overflows, also on a Runtime that was   *)
(* used before and after blocks whose label was left behind.               *)
ResultsMatch ==
  LET expected == Apply(store.src, entry.func, entry.args)
  IN  /\ phase = "done" => \/ Len(result) = 1 /\ expected = <<"val", result[1]>>
                           \/ expected = <<"none">> /\ result = <<>>
      /\ phase = "panic" => expected = <<"panic">>
===============================================================================
