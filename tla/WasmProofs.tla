------------------------------ MODULE WasmProofs ------------------------------
(***************************************************************************)
(* Proofs about Wasm for every store of valid functions and any number of  *)
(* calls.  At every step the height of the operand stack is known from the *)
(* program counters alone: the operands of a frame are those its function  *)
(* has at the instruction it is at.                                        *)
(***************************************************************************)
EXTENDS Wasm, TLAPS, SequenceTheorems

Label == [pc : Nat, sp : Nat, arity : {0}]
Frame == [pc : Int, sp : Nat, func : Nat, arity : 0 .. 1, labels : Seq(Label),
          locals : Seq(I32)]

BodyOf(fs, fr) == fs[fr.func + 1].body
HeightOf(fs, fr) == Heights(fs, BodyOf(fs, fr))

(* A label of a frame, also one that a skipped If has left behind, leads   *)
(* to the End of a statement, at the frame's own height.                   *)
EndsIf(body, e) ==
  \E p \in 1 .. Len(body) : body[p].op = "If" /\ e = EndAddr(body, p - 1)
FrameOK(fs, fr) ==
  /\ fr.pc >= -1 /\ fr.func < Len(fs) /\ fr.arity = fs[fr.func + 1].results
  /\ \A k \in DOMAIN fr.labels :
       fr.labels[k].sp = fr.sp /\ EndsIf(BodyOf(fs, fr), fr.labels[k].pc)

(* A frame that an earlier call has left behind.                           *)
Spent(fs, fr) == fr.pc >= Len(BodyOf(fs, fr)) /\ fr.sp = 0

(* A frame that waits at a Call for the next frame, gr, to return.         *)
Suspended(fs, fr, gr) ==
  LET body == BodyOf(fs, fr)
  IN  /\ fr.pc \in 0 .. Len(body) - 1
      /\ body[fr.pc + 1].op = "Call" /\ body[fr.pc + 1].idx = gr.func
      /\ fr.sp + HeightOf(fs, fr)[fr.pc] = gr.sp + fs[gr.func + 1].params

Executing(fs, fr, st) ==
  /\ fr.pc + 1 <= Len(BodyOf(fs, fr))
  /\ Len(st) = fr.sp + HeightOf(fs, fr)[fr.pc + 1]

(* The first b frames were left behind; the frame after them is that of    *)
(* the call in progress, and each further one was called by the one below. *)
Nested(fs, cs, b) ==
  /\ \A i \in 1 .. b : Spent(fs, cs[i])
  /\ \A i \in b + 1 .. Len(cs) - 1 : Suspended(fs, cs[i], cs[i + 1])
  /\ \A i \in b + 2 .. Len(cs) : Closed(BodyOf(fs, cs[i]))
  /\ b < Len(cs) => cs[b + 1].sp = 0
Shape(fs, cs, st, b) ==
  /\ Nested(fs, cs, b)
  /\ b < Len(cs) => Executing(fs, cs[Len(cs)], st)
  /\ b + 1 < Len(cs) => cs[Len(cs)].pc + 1 < Len(BodyOf(fs, cs[Len(cs)]))

IInv ==
  /\ store \in Stores /\ stack \in Seq(I32) /\ call_stack \in Seq(Frame)
  /\ \A i \in DOMAIN call_stack : FrameOK(store.funcs, call_stack[i])
  /\ phase = "run" =>
       /\ entry.func \in 0 .. Len(store.funcs) - 1
       /\ \E b \in 0 .. Len(call_stack) : Shape(store.funcs, call_stack, stack, b)
  /\ phase \in {"new", "done"} =>
       \A i \in DOMAIN call_stack : Spent(store.funcs, call_stack[i])

-----------------------------------------------------------------------------
(* The operand stack                                                       *)

LEMMA Operands ==
  ASSUME NEW st \in Seq(I32), NEW n \in Nat, n <= Len(st)
  PROVE  /\ SubSeq(st, 1, n) \in Seq(I32) /\ Len(SubSeq(st, 1, n)) = n
         /\ \A i \in 1 .. n : SubSeq(st, 1, n)[i] = st[i]
<1>1. \A i \in 1 .. n : st[i] \in I32 OBVIOUS
<1>2. /\ SubSeq(st, 1, n) \in Seq(I32)
      /\ Len(SubSeq(st, 1, n)) = IF 1 <= n THEN n - 1 + 1 ELSE 0
      /\ \A i \in 1 .. n - 1 + 1 : SubSeq(st, 1, n)[i] = st[1 + i - 1]
  BY <1>1, SubSeqProperties
<1> QED BY <1>2

(* The topmost operands.                                                   *)
LEMMA Topmost ==
  ASSUME NEW st \in Seq(I32), NEW n \in Nat, n <= Len(st)
  PROVE  /\ SubSeq(st, Len(st) - n + 1, Len(st)) \in Seq(I32)
         /\ Len(SubSeq(st, Len(st) - n + 1, Len(st))) = n
<1> DEFINE m == Len(st) - n + 1
<1>1. m \in Int /\ \A i \in m .. Len(st) : st[i] \in I32 OBVIOUS
<1>2. m <= Len(st) <=> n # 0 OBVIOUS
<1>3. Len(st) - m + 1 = n OBVIOUS
<1> HIDE DEF m
<1>4. /\ SubSeq(st, m, Len(st)) \in Seq(I32)
      /\ Len(SubSeq(st, m, Len(st))) = IF m <= Len(st) THEN Len(st) - m + 1 ELSE 0
  BY <1>1, SubSeqProperties
<1>5. SubSeq(st, m, Len(st)) \in Seq(I32) /\ Len(SubSeq(st, m, Len(st))) = n
  BY <1>2, <1>3, <1>4
<1> QED BY <1>5 DEF m

(* stack_unwind leaves sp operands and the result, and what is below sp.   *)
LEMMA Unwound ==
  ASSUME NEW st \in Seq(I32), NEW sp \in Nat, NEW ar \in Nat, sp + ar <= Len(st)
  PROVE  /\ StackUnwind(st, sp, ar) \in Seq(I32)
         /\ Len(StackUnwind(st, sp, ar)) = sp + ar
         /\ \A i \in 1 .. sp : StackUnwind(st, sp, ar)[i] = st[i]
<1> DEFINE s == SubSeq(st, 1, sp)
           t == SubSeq(st, Len(st) - ar + 1, Len(st))
<1>1. s \in Seq(I32) /\ Len(s) = sp /\ \A i \in 1 .. sp : s[i] = st[i]
  BY Operands
<1>2. t \in Seq(I32) /\ Len(t) = ar BY Topmost
<1>3. StackUnwind(st, sp, ar) = s \o t BY DEF StackUnwind
<1> HIDE DEF s, t
<1>4. s \o t \in Seq(I32) /\ Len(s \o t) = sp + ar
  <2>1. s \o t \in Seq(I32) /\ Len(s \o t) = Len(s) + Len(t)
    BY <1>1, <1>2, ConcatProperties, Zenon
  <2> QED BY <1>1, <1>2, <2>1
<1>5. \A i \in 1 .. sp : (s \o t)[i] = s[i]
  <2>1. \A i \in 1 .. Len(s) + Len(t) :
          (s \o t)[i] = IF i <= Len(s) THEN s[i] ELSE t[i - Len(s)]
    BY <1>1, <1>2, ConcatProperties, SMTT(30)
  <2> QED BY <1>1, <1>2, <2>1
<1> QED BY <1>1, <1>3, <1>4, <1>5

(* Two stacks that agree below k have the same first k operands.           *)
LEMMA SameBelow ==
  ASSUME NEW st \in Seq(I32), NEW tt \in Seq(I32), NEW k \in Nat,
         k <= Len(st), k <= Len(tt), \A i \in 1 .. k : tt[i] = st[i]
  PROVE  SubSeq(tt, 1, k) = SubSeq(st, 1, k)
<1> DEFINE s == SubSeq(st, 1, k)
           t == SubSeq(tt, 1, k)
<1>1. s \in Seq(I32) /\ Len(s) = k /\ \A i \in 1 .. k : s[i] = st[i]
  BY Operands
<1>2. t \in Seq(I32) /\ Len(t) = k /\ \A i \in 1 .. k : t[i] = tt[i]
  BY Operands
<1> HIDE DEF s, t
<1>3. s = t BY <1>1, <1>2, SeqEqual
<1> QED BY <1>3 DEF s, t

(* Popping n operands and pushing v.                                       *)
LEMMA PopPush ==
  ASSUME NEW st \in Seq(I32), NEW n \in Nat, n <= Len(st), NEW v \in I32
  PROVE  LET tt == Append(SubSeq(st, 1, Len(st) - n), v)
         IN  /\ tt \in Seq(I32) /\ Len(tt) = Len(st) - n + 1
             /\ \A i \in 1 .. Len(st) - n : tt[i] = st[i]
<1>1. Len(st) - n \in Nat /\ Len(st) - n <= Len(st) OBVIOUS
<1> DEFINE s == SubSeq(st, 1, Len(st) - n)
<1>2. s \in Seq(I32) /\ Len(s) = Len(st) - n /\ \A i \in 1 .. Len(st) - n : s[i] = st[i]
  BY <1>1, Operands
<1> HIDE DEF s
<1>3. /\ Append(s, v) \in Seq(I32) /\ Len(Append(s, v)) = Len(s) + 1
      /\ \A i \in 1 .. Len(s) : Append(s, v)[i] = s[i]
  BY <1>2
<1> QED BY <1>2, <1>3 DEF s

-----------------------------------------------------------------------------
(* The call stack                                                          *)

(* The function of a frame is one of the store, and valid.                 *)
LEMMA FrameFacts ==
  ASSUME NEW fs, Valid(fs), NEW fr \in Frame, FrameOK(fs, fr)
  PROVE  /\ fs \in Seq(Callable) /\ fr.func + 1 \in DOMAIN fs
         /\ BodyOf(fs, fr) \in Seq(Instruction)
         /\ fs[fr.func + 1].params \in Nat /\ fs[fr.func + 1].results \in 0 .. 1
         /\ WellTyped(fs, BodyOf(fs, fr), HeightOf(fs, fr))
         /\ HeightOf(fs, fr) \in [0 .. Len(BodyOf(fs, fr)) -> Nat]
         /\ HeightOf(fs, fr)[0] = 0
<1>1. fs \in Seq(Callable) BY DEF Valid
<1>2. fr.func \in Nat /\ fr.func < Len(fs) BY DEF Frame, FrameOK
<1>3. fr.func + 1 \in DOMAIN fs BY <1>1, <1>2
<1>4. fs[fr.func + 1] \in Callable BY <1>1, <1>3
<1>5. /\ BodyOf(fs, fr) \in Seq(Instruction)
      /\ fs[fr.func + 1].params \in Nat /\ fs[fr.func + 1].results \in 0 .. 1
  BY <1>4 DEF Callable, BodyOf
<1>6. WellTyped(fs, BodyOf(fs, fr), HeightOf(fs, fr))
  BY <1>3, Zenon DEF Valid, BodyOf, HeightOf
<1>7. /\ HeightOf(fs, fr) \in [0 .. Len(BodyOf(fs, fr)) -> Nat]
      /\ HeightOf(fs, fr)[0] = 0
  BY <1>6, Zenon DEF WellTyped
<1> QED BY <1>1, <1>3, <1>5, <1>6, <1>7

(* After the End of an If a statement begins, inside the function if it is *)
(* closed.                                                                 *)
LEMMA EndsIfFacts ==
  ASSUME NEW fs, NEW body \in Seq(Instruction), NEW h, WellTyped(fs, body, h),
         NEW e, EndsIf(body, e)
  PROVE  /\ e \in 0 .. Len(body) - 1 /\ h[e + 1] = 0
         /\ Closed(body) => e + 1 < Len(body)
<1>1. PICK p \in 1 .. Len(body) : body[p].op = "If" /\ e = EndAddr(body, p - 1)
  BY DEF EndsIf
<1>2. p - 1 \in 0 .. Len(body) - 1 /\ (p - 1) + 1 = p BY <1>1
<1>3. FitsAt(fs, body, p - 1, h[p - 1]) BY <1>2 DEF WellTyped
<1>4. e \in 0 .. Len(body) - 1 /\ body[e + 1].op = "End"
  BY <1>1, <1>2, <1>3 DEF FitsAt
<1>5. h[e + 1] = HeightAfter(fs, body[e + 1], h[e]) BY <1>4 DEF WellTyped
<1>6. h[e + 1] = 0 BY <1>4, <1>5 DEF HeightAfter, Arithmetic
<1>7. ASSUME Closed(body) PROVE e # Len(body) - 1 BY <1>1, <1>7 DEF Closed
<1> QED BY <1>4, <1>6, <1>7

WithTop(cs, g) == [cs EXCEPT ![Len(cs)] = g]

(* Replacing the innermost frame by one of the same function.              *)
LEMMA Replaced ==
  ASSUME NEW fs, NEW cs \in Seq(Frame), NEW b \in Nat, b < Len(cs),
         Nested(fs, cs, b), \A i \in DOMAIN cs : FrameOK(fs, cs[i]),
         NEW g \in Frame, FrameOK(fs, g),
         g.sp = cs[Len(cs)].sp, g.func = cs[Len(cs)].func
  PROVE  /\ WithTop(cs, g) \in Seq(Frame)
         /\ \A i \in DOMAIN WithTop(cs, g) : FrameOK(fs, WithTop(cs, g)[i])
         /\ Len(WithTop(cs, g)) = Len(cs) /\ WithTop(cs, g)[Len(cs)] = g
         /\ Nested(fs, WithTop(cs, g), b)
<1>1. PICK n \in Nat : n = Len(cs) OBVIOUS
<1>2. n \in 1 .. n /\ DOMAIN cs = 1 .. n BY <1>1
<1>3. PICK ds : ds = WithTop(cs, g) OBVIOUS
<1>4. /\ ds \in Seq(Frame) /\ Len(ds) = n /\ DOMAIN ds = 1 .. n /\ ds[n] = g
      /\ \A i \in 1 .. n : i # n => ds[i] = cs[i]
  BY <1>1, <1>2, <1>3 DEF WithTop
<1>5. \A i \in DOMAIN ds : FrameOK(fs, ds[i]) BY <1>2, <1>4
<1>6. BodyOf(fs, ds[n]) = BodyOf(fs, cs[n]) BY <1>1, <1>4 DEF BodyOf
<1>7. ASSUME NEW i \in 1 .. b PROVE Spent(fs, ds[i])
  <2>1. ds[i] = cs[i] BY <1>1, <1>4
  <2> QED BY <2>1 DEF Nested
<1>8. ASSUME NEW i \in b + 1 .. n - 1 PROVE Suspended(fs, ds[i], ds[i + 1])
  <2>1. Suspended(fs, cs[i], cs[i + 1]) BY <1>1 DEF Nested
  <2>2. ds[i] = cs[i] BY <1>4
  <2>3. ds[i + 1].func = cs[i + 1].func /\ ds[i + 1].sp = cs[i + 1].sp
    <3>1. CASE i + 1 = n BY <1>1, <1>4, <3>1
    <3>2. CASE i + 1 # n BY <1>4, <3>2
    <3> QED BY <3>1, <3>2
  <2> QED BY <2>1, <2>2, <2>3 DEF Suspended
<1>9. ASSUME NEW i \in b + 2 .. n PROVE Closed(BodyOf(fs, ds[i]))
  <2>1. Closed(BodyOf(fs, cs[i])) BY <1>1 DEF Nested
  <2>2. CASE i = n BY <1>6, <2>1, <2>2
  <2>3. CASE i # n
    <3>1. ds[i] = cs[i] BY <1>4, <2>3
    <3> QED BY <2>1, <3>1
  <2> QED BY <2>2, <2>3
<1>10. ds[b + 1].sp = 0
  <2>1. cs[b + 1].sp = 0 BY DEF Nested
  <2>2. CASE b + 1 = n BY <1>1, <1>4, <2>1, <2>2
  <2>3. CASE b + 1 # n
    <3>1. ds[b + 1] = cs[b + 1] BY <1>1, <1>4, <2>3
    <3> QED BY <2>1, <3>1
  <2> QED BY <2>2, <2>3
<1>11. Nested(fs, ds, b) BY <1>4, <1>7, <1>8, <1>9, <1>10 DEF Nested
<1> QED BY <1>1, <1>3, <1>4, <1>5, <1>11

(* The innermost frame moves on.                                           *)
LEMMA Advance ==
  ASSUME NEW fs, NEW cs \in Seq(Frame), NEW st, NEW b \in Nat, b < Len(cs),
         Shape(fs, cs, st, b), \A i \in DOMAIN cs : FrameOK(fs, cs[i]),
         NEW g \in Frame, FrameOK(fs, g),
         g.sp = cs[Len(cs)].sp, g.func = cs[Len(cs)].func,
         NEW tt, Executing(fs, g, tt),
         Closed(BodyOf(fs, g)) => g.pc + 1 < Len(BodyOf(fs, g)),
         NEW ds, ds = WithTop(cs, g)
  PROVE  /\ ds \in Seq(Frame) /\ \A i \in DOMAIN ds : FrameOK(fs, ds[i])
         /\ b < Len(ds) /\ Shape(fs, ds, tt, b)
<1>1. Nested(fs, cs, b) BY DEF Shape
<1>2. /\ ds \in Seq(Frame) /\ \A i \in DOMAIN ds : FrameOK(fs, ds[i])
      /\ Len(ds) = Len(cs) /\ ds[Len(cs)] = g /\ Nested(fs, ds, b)
  BY <1>1, Replaced, Zenon
<1>3. ASSUME b + 1 < Len(ds) PROVE g.pc + 1 < Len(BodyOf(fs, g))
  <2>1. Len(ds) \in b + 2 .. Len(ds) BY <1>2, <1>3
  <2>2. Closed(BodyOf(fs, g)) BY <1>2, <2>1 DEF Nested
  <2> QED BY <2>2
<1>4. Shape(fs, ds, tt, b) BY <1>2, <1>3 DEF Shape
<1> QED BY <1>2, <1>4

(* The innermost frame calls a function: new is its frame.                 *)
LEMMA Enter ==
  ASSUME NEW fs, Valid(fs), NEW cs \in Seq(Frame), NEW b \in Nat,
         b <= Len(cs), Nested(fs, cs, b), \A i \in DOMAIN cs : FrameOK(fs, cs[i]),
         NEW new \in Frame, FrameOK(fs, new), new.pc = -1,
         NEW tt, Len(tt) = new.sp,
         \/ b = Len(cs) /\ new.sp = 0
         \/ b < Len(cs) /\ Suspended(fs, cs[Len(cs)], new) /\ Closed(BodyOf(fs, new))
  PROVE  /\ Append(cs, new) \in Seq(Frame)
         /\ \A i \in DOMAIN Append(cs, new) : FrameOK(fs, Append(cs, new)[i])
         /\ b < Len(Append(cs, new)) /\ Shape(fs, Append(cs, new), tt, b)
<1> DEFINE ds == Append(cs, new)
<1>1. PICK n \in Nat : n = Len(cs) OBVIOUS
<1>2. /\ ds \in Seq(Frame) /\ Len(ds) = n + 1 /\ DOMAIN ds = 1 .. n + 1
      /\ ds[n + 1] = new /\ \A i \in 1 .. n : ds[i] = cs[i]
  BY <1>1
<1> HIDE DEF ds
<1>3. \A i \in DOMAIN ds : FrameOK(fs, ds[i]) BY <1>1, <1>2
<1>4. \A i \in 1 .. b : Spent(fs, ds[i]) BY <1>1, <1>2 DEF Nested
<1>5. ASSUME NEW i \in b + 1 .. n PROVE Suspended(fs, ds[i], ds[i + 1])
  <2>1. CASE i = n BY <1>1, <1>2, <2>1
  <2>2. CASE i # n
    <3>1. Suspended(fs, cs[i], cs[i + 1]) BY <1>1, <2>2 DEF Nested
    <3> QED BY <1>1, <1>2, <2>2, <3>1
  <2> QED BY <2>1, <2>2
<1>6. ASSUME NEW i \in b + 2 .. n + 1 PROVE Closed(BodyOf(fs, ds[i]))
  <2>1. CASE i = n + 1 BY <1>1, <1>2, <2>1
  <2>2. CASE i # n + 1
    <3>1. i \in b + 2 .. Len(cs) BY <1>1, <2>2
    <3>2. Closed(BodyOf(fs, cs[i])) BY <3>1 DEF Nested
    <3> QED BY <1>1, <1>2, <3>1, <3>2
  <2> QED BY <2>1, <2>2
<1>7. ds[b + 1].sp = 0
  <2>1. CASE b = n BY <1>1, <1>2, <2>1
  <2>2. CASE b # n
    <3>1. cs[b + 1].sp = 0 BY <1>1, <2>2 DEF Nested
    <3> QED BY <1>1, <1>2, <2>2, <3>1
  <2> QED BY <2>1, <2>2
<1>8. /\ BodyOf(fs, new) \in Seq(Instruction) /\ HeightOf(fs, new)[0] = 0
      /\ new.sp \in Nat
  BY FrameFacts DEF Frame
<1>9. Executing(fs, new, tt)
  <2>1. new.pc + 1 = 0 OBVIOUS
  <2>2. Len(BodyOf(fs, new)) \in Nat BY <1>8
  <2> QED BY <1>8, <2>1, <2>2 DEF Executing
<1>10. ASSUME b + 1 < n + 1 PROVE new.pc + 1 < Len(BodyOf(fs, new))
  <2>1. Closed(BodyOf(fs, new)) BY <1>1, <1>10
  <2>2. BodyOf(fs, new) # <<>> BY <2>1 DEF Closed
  <2> QED BY <1>8, <2>2
<1>11. Shape(fs, ds, tt, b)
  BY <1>2, <1>4, <1>5, <1>6, <1>7, <1>9, <1>10 DEF Shape, Nested
<1>12. b < Len(ds) BY <1>1, <1>2
<1> QED BY <1>2, <1>3, <1>11, <1>12 DEF ds

(* The innermost frame is left.                                            *)
LEMMA Leave ==
  ASSUME NEW fs, Valid(fs), NEW cs \in Seq(Frame), NEW st, NEW b \in Nat,
         b < Len(cs), Shape(fs, cs, st, b), \A i \in DOMAIN cs : FrameOK(fs, cs[i]),
         NEW tt, Len(tt) = cs[Len(cs)].sp + cs[Len(cs)].arity,
         NEW ds, ds = SubSeq(cs, 1, Len(cs) - 1)
  PROVE  /\ ds \in Seq(Frame) /\ \A i \in DOMAIN ds : FrameOK(fs, ds[i])
         /\ b <= Len(ds) /\ Shape(fs, ds, tt, b)
<1>1. PICK n \in Nat : n + 1 = Len(cs)
  <2>1. Len(cs) \in Nat \ {0} OBVIOUS
  <2>2. Len(cs) - 1 \in Nat /\ (Len(cs) - 1) + 1 = Len(cs) BY <2>1
  <2> QED BY <2>2, Zenon
<1>2. /\ ds \in Seq(Frame) /\ Len(ds) = n /\ DOMAIN ds = 1 .. n
      /\ \A i \in 1 .. n : ds[i] = cs[i]
  <2>1. ds = SubSeq(cs, 1, n) BY <1>1
  <2>2. \A i \in 1 .. n : cs[i] \in Frame BY <1>1
  <2>3. /\ ds \in Seq(Frame) /\ Len(ds) = IF 1 <= n THEN n - 1 + 1 ELSE 0
        /\ \A i \in 1 .. n - 1 + 1 : ds[i] = cs[1 + i - 1]
    BY <2>1, <2>2, SubSeqProperties
  <2>4. ds \in Seq(Frame) /\ Len(ds) = n /\ \A i \in 1 .. n : ds[i] = cs[i]
    BY <2>3
  <2> QED BY <2>4
<1>3. \A i \in DOMAIN ds : FrameOK(fs, ds[i]) BY <1>1, <1>2
<1>4. b <= n BY <1>1
<1>5. ASSUME NEW i \in 1 .. b PROVE Spent(fs, ds[i])
  BY <1>2, <1>4 DEF Shape, Nested
<1>6. ASSUME NEW i \in b + 1 .. n - 1 PROVE Suspended(fs, ds[i], ds[i + 1])
  <2>1. Suspended(fs, cs[i], cs[i + 1]) BY <1>1 DEF Shape, Nested
  <2>2. i \in 1 .. n /\ i + 1 \in 1 .. n OBVIOUS
  <2> QED BY <1>2, <2>1, <2>2
<1>7. ASSUME NEW i \in b + 2 .. n PROVE Closed(BodyOf(fs, ds[i]))
  <2>1. i \in b + 2 .. Len(cs) BY <1>1
  <2>2. Closed(BodyOf(fs, cs[i])) BY <2>1 DEF Shape, Nested
  <2> QED BY <1>2, <2>2, SMTT(30)
<1>8. ASSUME b < n
      PROVE  /\ ds[b + 1].sp = 0 /\ Executing(fs, ds[n], tt)
             /\ Closed(BodyOf(fs, ds[n])) => ds[n].pc + 1 < Len(BodyOf(fs, ds[n]))
  <2>1. ds[b + 1].sp = 0
    <3>1. cs[b + 1].sp = 0 BY DEF Shape, Nested
    <3> QED BY <1>2, <1>8, <3>1
  <2> DEFINE fr == cs[n]
             gr == cs[n + 1]
             body == BodyOf(fs, fr)
             h == HeightOf(fs, fr)
             p == fr.pc
  <2>2. n \in DOMAIN cs /\ n + 1 \in DOMAIN cs BY <1>1, <1>8
  <2>3. fr \in Frame /\ FrameOK(fs, fr) /\ gr \in Frame /\ FrameOK(fs, gr) BY <2>2
  <2>4. Suspended(fs, fr, gr)
    <3>1. n \in b + 1 .. Len(cs) - 1 BY <1>1, <1>8
    <3> QED BY <3>1 DEF Shape, Nested
  <2>5. /\ p \in 0 .. Len(body) - 1 /\ body[p + 1].op = "Call"
        /\ body[p + 1].idx = gr.func
        /\ fr.sp + h[p] = gr.sp + fs[gr.func + 1].params
    BY <2>4 DEF Suspended
  <2>6. /\ body \in Seq(Instruction) /\ h \in [0 .. Len(body) -> Nat]
        /\ WellTyped(fs, body, h)
    BY <2>3, FrameFacts
  <2>7. fs[gr.func + 1].params \in Nat /\ fs[gr.func + 1].results \in 0 .. 1
    BY <2>3, FrameFacts, Zenon
  <2>8. gr.arity = fs[gr.func + 1].results /\ gr.sp \in Nat /\ fr.sp \in Nat
    BY <2>3, Zenon DEF FrameOK, Frame
  <2>9. ds[n] = fr /\ Len(tt) = gr.sp + gr.arity
    <3>1. n \in 1 .. n BY <1>8
    <3> QED BY <1>1, <1>2, <3>1
  <2> HIDE DEF fr, gr, body, h, p
  <2>10. h[p + 1] = HeightAfter(fs, body[p + 1], h[p]) BY <2>5, <2>6 DEF WellTyped
  <2>11. h[p + 1] = h[p] - fs[gr.func + 1].params + fs[gr.func + 1].results
    BY <2>5, <2>10 DEF HeightAfter, Arithmetic
  <2>12. h[p] \in Nat BY <2>5, <2>6, SMTT(30)
  <2>13. Len(tt) = fr.sp + h[p + 1]
    <3>0. 0 .. 1 \subseteq Nat OBVIOUS
    <3>1. PICK k \in Nat, r \in Nat : k = fs[gr.func + 1].params /\ r = gr.arity
      BY <2>7, <2>8, <3>0, Zenon
    <3>2. fr.sp + h[p] = gr.sp + k /\ h[p + 1] = h[p] - k + r
      BY <2>5, <2>8, <2>11, <3>1
    <3>3. PICK x \in Nat, y \in Nat, u \in Nat : x = gr.sp /\ y = fr.sp /\ u = h[p]
      BY <2>8, <2>12
    <3>4. y + u = x + k /\ h[p + 1] = u - k + r BY <3>2, <3>3
    <3>5. x + r = y + (u - k + r) BY <3>4
    <3> QED BY <2>9, <3>1, <3>3, <3>4, <3>5, Zenon
  <2>14. p + 1 <= Len(body) BY <2>5, <2>6
  <2>15. Executing(fs, fr, tt) BY <2>13, <2>14 DEF Executing, p, body, h
  <2>16. ASSUME Closed(body) PROVE p + 1 < Len(body)
    <3>1. body[Len(body)].op # "Call" BY <2>16 DEF Closed
    <3> QED BY <2>5, <2>6, <3>1
  <2> QED BY <2>1, <2>9, <2>15, <2>16, Zenon DEF p, body
<1>9. ASSUME b + 1 < n PROVE ds[n].pc + 1 < Len(BodyOf(fs, ds[n]))
  <2>1. n \in b + 2 .. n /\ b < n BY <1>9
  <2> QED BY <1>7, <1>8, <2>1, Zenon
<1>10. Shape(fs, ds, tt, b)
  BY <1>2, <1>5, <1>6, <1>7, <1>8, <1>9, Zenon DEF Shape, Nested
<1> QED BY <1>2, <1>3, <1>4, <1>10

-----------------------------------------------------------------------------
(* The steps of execute                                                    *)

Height == HeightOf(store.funcs, Top)

(* The step keeps the operands below the innermost frame.                  *)
Kept == Top.sp <= Len(stack') /\ \A i \in 1 .. Top.sp : stack'[i] = stack[i]

(* What is known when an instruction is fetched.                           *)
LEMMA Current ==
  ASSUME IInv, Running, Pc < Len(Body)
  PROVE  /\ Valid(store.funcs) /\ store.funcs \in Seq(Callable)
         /\ Top = call_stack[Len(call_stack)] /\ Top \in Frame
         /\ FrameOK(store.funcs, Top) /\ Body = BodyOf(store.funcs, Top)
         /\ Body \in Seq(Instruction) /\ Pc \in 0 .. Len(Body) - 1
         /\ Top.sp \in Nat /\ Height \in [0 .. Len(Body) -> Nat]
         /\ WellTyped(store.funcs, Body, Height)
         /\ Inst \in Instruction /\ FitsAt(store.funcs, Body, Pc, Height[Pc])
         /\ Height[Pc + 1] = HeightAfter(store.funcs, Inst, Height[Pc])
         /\ Len(stack) = Top.sp + Height[Pc]
         /\ \E b \in Nat : /\ b < Len(call_stack)
                           /\ Shape(store.funcs, call_stack, stack, b)
<1>1. Valid(store.funcs) BY StoreAssumption DEF IInv
<1>2. Top = call_stack[Len(call_stack)] BY DEF Top
<1>3. /\ call_stack \in Seq(Frame) /\ call_stack # <<>> /\ phase = "run"
      /\ Len(call_stack) \in DOMAIN call_stack /\ Len(call_stack) \in Nat
  BY DEF IInv, Running
<1>4. Top \in Frame /\ FrameOK(store.funcs, Top) BY <1>2, <1>3 DEF IInv
<1>5. Body = BodyOf(store.funcs, Top) BY DEF Body, Func, BodyOf
<1>6. /\ store.funcs \in Seq(Callable) /\ Body \in Seq(Instruction)
      /\ WellTyped(store.funcs, Body, Height)
      /\ Height \in [0 .. Len(Body) -> Nat]
  BY <1>1, <1>4, <1>5, FrameFacts DEF Height
<1>7. Top.sp \in Nat /\ Top.pc \in Int /\ Top.pc >= -1 BY <1>4 DEF Frame, FrameOK
<1>8. Pc \in 0 .. Len(Body) - 1 BY <1>6, <1>7 DEF Pc
<1>9. PICK b \in 0 .. Len(call_stack) : Shape(store.funcs, call_stack, stack, b)
  BY <1>3 DEF IInv
<1>10. b < Len(call_stack)
  <2>1. SUFFICES ASSUME b = Len(call_stack) PROVE FALSE BY <1>3
  <2>2. b \in 1 .. b BY <1>3, <2>1
  <2>3. Spent(store.funcs, call_stack[b]) BY <1>9, <2>2, Zenon DEF Shape, Nested
  <2>4. Top.pc >= Len(Body) BY <1>2, <1>5, <2>1, <2>3 DEF Spent
  <2> QED BY <1>6, <1>7, <2>4 DEF Pc
<1>11. Executing(store.funcs, Top, stack) BY <1>2, <1>9, <1>10 DEF Shape
<1>12. Len(stack) = Top.sp + Height[Pc] BY <1>11 DEF Executing, Height, Pc
<1>13. Inst \in Instruction
  <2>1. Pc + 1 \in 1 .. Len(Body) BY <1>6, <1>8
  <2> QED BY <1>6, <2>1, ElementOfSeq DEF Inst
<1>14. /\ FitsAt(store.funcs, Body, Pc, Height[Pc])
       /\ Height[Pc + 1] = HeightAfter(store.funcs, Inst, Height[Pc])
  BY <1>6, <1>8, Zenon DEF WellTyped, Inst
<1>15. b \in Nat BY <1>3
<1> QED
  BY <1>1, <1>2, <1>4, <1>5, <1>6, <1>7, <1>8, <1>9, <1>10, <1>12, <1>13, <1>14,
     <1>15, SMTT(30)

(* An instruction that leaves the frame where it is keeps the invariant if *)
(* it leaves as many operands as its function has at the next one.         *)
LEMMA MovesOn ==
  ASSUME IInv, Running, Pc < Len(Body), NEW g \in Frame, NEW st \in Seq(I32),
         Done(st, g), g.sp = Top.sp, g.func = Top.func, FrameOK(store.funcs, g),
         g.pc + 1 \in 0 .. Len(Body), Len(st) = Top.sp + Height[g.pc + 1],
         Closed(Body) => g.pc + 1 < Len(Body),
         \A i \in 1 .. Top.sp : st[i] = stack[i]
  PROVE  IInv' /\ Kept
<1>1. PICK fs : fs = store.funcs OBVIOUS
<1>2. PICK b \in Nat : b < Len(call_stack) /\ Shape(fs, call_stack, stack, b)
  BY <1>1, Current
<1>3. /\ Top = call_stack[Len(call_stack)] /\ Top.sp \in Nat
      /\ Body = BodyOf(fs, Top) /\ Height \in [0 .. Len(Body) -> Nat]
  BY <1>1, Current
<1>4. /\ stack' = st /\ call_stack' = WithTop(call_stack, g)
      /\ store' = store /\ phase' = phase /\ entry' = entry
  BY DEF Done, SetTop, WithTop
<1>5. BodyOf(fs, g) = Body /\ HeightOf(fs, g) = Height
  BY <1>1, <1>3, Zenon DEF BodyOf, HeightOf, Height
<1>6. Executing(fs, g, st) BY <1>5 DEF Executing
<1>7. /\ call_stack \in Seq(Frame)
      /\ \A i \in DOMAIN call_stack : FrameOK(fs, call_stack[i])
  BY <1>1 DEF IInv
<1>8. PICK ds : ds = WithTop(call_stack, g) OBVIOUS
<1>9. /\ ds \in Seq(Frame) /\ \A i \in DOMAIN ds : FrameOK(fs, ds[i])
      /\ b < Len(ds) /\ Shape(fs, ds, st, b)
  BY <1>1, <1>2, <1>3, <1>5, <1>6, <1>7, <1>8, Advance, Zenon
<1>10. call_stack' = ds /\ store'.funcs = fs BY <1>1, <1>4, <1>8
<1>11. b \in 0 .. Len(ds) BY <1>9
<1>12. phase = "run" BY DEF Running
<1>13. IInv' BY <1>4, <1>9, <1>10, <1>11, <1>12 DEF IInv
<1>14. Kept
  <2>1. Height[g.pc + 1] \in Nat BY <1>3
  <2> QED BY <1>3, <1>4, <2>1 DEF Kept
<1> QED BY <1>13, <1>14

LEMMA PanicStep ==
  ASSUME IInv, Panic
  PROVE  IInv' /\ phase' = "panic"
<1>1. /\ phase' = "panic" /\ store' = store /\ stack' = stack
      /\ call_stack' = call_stack /\ entry' = entry
  BY DEF Panic
<1> QED BY <1>1 DEF IInv

(* An instruction that neither jumps nor calls.                            *)
LEMMA StraightOn ==
  ASSUME IInv, Running, Pc < Len(Body), NEW st \in Seq(I32), Done(st, AtInst),
         Inst.op \notin {"Return", "End"}, Len(st) = Top.sp + Height[Pc + 1],
         \A i \in 1 .. Top.sp : st[i] = stack[i]
  PROVE  IInv' /\ Kept
<1>1. PICK fs : fs = store.funcs OBVIOUS
<1>2. /\ Top \in Frame /\ FrameOK(fs, Top) /\ Body = BodyOf(fs, Top)
      /\ Body \in Seq(Instruction) /\ Pc \in 0 .. Len(Body) - 1
  BY <1>1, Current
<1>3. PICK g : g = AtInst OBVIOUS
<1>4. /\ g \in Frame /\ g.pc = Pc /\ g.sp = Top.sp /\ g.func = Top.func
      /\ g.arity = Top.arity /\ g.labels = Top.labels
  <2>1. Pc \in Int BY <1>2
  <2> QED BY <1>2, <1>3, <2>1, Zenon DEF AtInst, Frame
<1>5. BodyOf(fs, g) = Body BY <1>2, <1>4 DEF BodyOf
<1>6. FrameOK(fs, g)
  <2>1. g.pc >= -1 BY <1>2, <1>4
  <2> QED BY <1>2, <1>4, <1>5, <2>1 DEF FrameOK
<1>7. ASSUME Closed(Body) PROVE Pc + 1 < Len(Body)
  <2>1. Body[Len(Body)].op \in {"Return", "End"} BY <1>7 DEF Closed
  <2>2. Pc + 1 # Len(Body) BY <2>1 DEF Inst
  <2> QED BY <1>2, <2>2
<1>8. g.pc + 1 \in 0 .. Len(Body) BY <1>2, <1>4
<1> QED BY <1>1, <1>3, <1>4, <1>6, <1>7, <1>8, MovesOn

(* The operators of two operands.                                          *)
LEMMA OperateStep ==
  ASSUME IInv, NEW op \in Arithmetic, Operate(op)
  PROVE  IInv' /\ (phase' = "run" => Kept)
<1>1. Running /\ Pc < Len(Body) /\ Inst.op = op BY DEF Operate, Fetched, Inst
<1>2. CASE Panic BY <1>2, PanicStep
<1>3. CASE ~Panic
  <2> DEFINE st == Append(Pops(2), Binary(op))
             n == Height[Pc]
  <2>1. Len(stack) >= 2 /\ Binary(op) \in I32 /\ Done(st, AtInst)
    <3>1. Len(stack) \in Nat BY DEF IInv
    <3> QED BY <1>3, <3>1 DEF Operate
  <2>2. /\ Top.sp \in Nat /\ Height \in [0 .. Len(Body) -> Nat]
        /\ Pc \in 0 .. Len(Body) - 1 /\ Body \in Seq(Instruction)
        /\ FitsAt(store.funcs, Body, Pc, n) /\ Len(stack) = Top.sp + n
        /\ Height[Pc + 1] = HeightAfter(store.funcs, Inst, n)
    BY <1>1, Current
  <2>3. n \in Nat BY <2>2, SMTT(30)
  <2> HIDE DEF n
  <2>4. n >= 2 BY <1>1, <2>2 DEF FitsAt, Inst
  <2>5. Height[Pc + 1] = n - 1
    BY <1>1, <2>2 DEF HeightAfter, Arithmetic
  <2>6. /\ st \in Seq(I32) /\ Len(st) = Len(stack) - 2 + 1
        /\ \A i \in 1 .. Len(stack) - 2 : st[i] = stack[i]
    BY <2>1, PopPush, Zenon DEF IInv, Pops
  <2> HIDE DEF st
  <2>7. PICK k \in Nat : k = Top.sp /\ Len(stack) = k + n BY <2>2
  <2>8. Len(st) = k + (n - 1) /\ \A i \in 1 .. k : st[i] = stack[i]
    <3>1. PICK len \in Nat : len = Len(stack) BY <2>3, <2>7
    <3>2. /\ len - 2 + 1 = k + (n - 1) /\ \A i \in 1 .. k : i \in 1 .. len - 2
      BY <2>3, <2>4, <2>7, <3>1, SMTT(30)
    <3> QED BY <2>6, <3>1, <3>2, Zenon
  <2>9. Inst.op \notin {"Return", "End"} BY <1>1 DEF Arithmetic
  <2> QED BY <1>1, <2>1, <2>5, <2>6, <2>7, <2>8, <2>9, StraightOn
<1> QED BY <1>2, <1>3

(* Const and LocalGet push one operand.                                    *)
LEMMA PushStep ==
  ASSUME IInv, Running, Pc < Len(Body), Inst.op \in {"Const", "LocalGet"},
         NEW v \in I32, Done(Append(stack, v), AtInst)
  PROVE  IInv' /\ Kept
<1> DEFINE st == Append(stack, v)
           n == Height[Pc]
<1>1. /\ Top.sp \in Nat /\ Height \in [0 .. Len(Body) -> Nat]
      /\ Pc \in 0 .. Len(Body) - 1 /\ Body \in Seq(Instruction)
      /\ Len(stack) = Top.sp + n
      /\ Height[Pc + 1] = HeightAfter(store.funcs, Inst, n)
  BY Current
<1>2. n \in Nat BY <1>1
<1> HIDE DEF n
<1>3. Height[Pc + 1] = n + 1 BY <1>1 DEF HeightAfter, Arithmetic
<1>4. stack \in Seq(I32) BY DEF IInv
<1>5. /\ st \in Seq(I32) /\ Len(st) = Len(stack) + 1
      /\ \A i \in 1 .. Len(stack) : st[i] = stack[i]
  BY <1>4, AppendProperties
<1> HIDE DEF st
<1>6. PICK k \in Nat : k = Top.sp /\ Len(stack) = k + n BY <1>1
<1>7. Len(st) = k + (n + 1) /\ \A i \in 1 .. k : st[i] = stack[i]
  BY <1>2, <1>5, <1>6, SMTT(30)
<1>8. Done(st, AtInst) BY DEF st
<1> QED BY <1>3, <1>5, <1>6, <1>7, <1>8, StraightOn

LEMMA ConstStep ==
  ASSUME IInv, Const
  PROVE  IInv' /\ Kept
<1>1. /\ Running /\ Pc < Len(Body) /\ Inst.op = "Const"
      /\ Done(Append(stack, Inst.val), AtInst)
  BY DEF Const, Fetched, Inst
<1>2. Inst \in Instruction BY <1>1, Current
<1>3. Inst.val \in I32 BY <1>1, <1>2 DEF Instruction, Arithmetic
<1> QED BY <1>1, <1>3, PushStep

LEMMA LocalGetStep ==
  ASSUME IInv, LocalGet
  PROVE  IInv' /\ (phase' = "run" => Kept)
<1>1. Running /\ Pc < Len(Body) /\ Inst.op = "LocalGet"
  BY DEF LocalGet, Fetched, Inst
<1>2. CASE Panic BY <1>2, PanicStep
<1>3. CASE ~Panic
  <2>1. /\ Inst.idx < Len(Top.locals)
        /\ Done(Append(stack, Top.locals[Inst.idx + 1]), AtInst)
    BY <1>3 DEF LocalGet
  <2>2. Inst \in Instruction /\ Top \in Frame BY <1>1, Current
  <2>3. Inst.idx \in Nat BY <1>1, <2>2 DEF Instruction, Arithmetic
  <2>4. Top.locals \in Seq(I32) BY <2>2 DEF Frame
  <2>5. Inst.idx + 1 \in 1 .. Len(Top.locals) BY <2>1, <2>3, <2>4
  <2>6. Top.locals[Inst.idx + 1] \in I32 BY <2>4, <2>5, ElementOfSeq
  <2> QED BY <1>1, <2>1, <2>6, PushStep
<1> QED BY <1>2, <1>3

(* A skipped If jumps to its End, a taken one goes on; the label is pushed *)
(* either way.                                                             *)
LEMMA IfStep ==
  ASSUME IInv, If
  PROVE  IInv' /\ (phase' = "run" => Kept)
<1>1. Running /\ Pc < Len(Body) /\ Inst.op = "If" BY DEF If, Fetched, Inst
<1>2. CASE Panic BY <1>2, PanicStep
<1>3. CASE ~Panic
  <2> DEFINE e == EndAddr(Body, Pc)
             label == [pc |-> e, sp |-> Len(stack) - 1, arity |-> 0]
             to == IF stack[Len(stack)] = 0 THEN e ELSE Pc
             g == [Top EXCEPT !.pc = to, !.labels = Append(@, label)]
  <2>1. stack # <<>> /\ Done(Pops(1), g) BY <1>3 DEF If
  <2>2. /\ Top.sp \in Nat /\ Height \in [0 .. Len(Body) -> Nat]
        /\ Pc \in 0 .. Len(Body) - 1 /\ Body \in Seq(Instruction)
        /\ FitsAt(store.funcs, Body, Pc, Height[Pc])
        /\ Len(stack) = Top.sp + Height[Pc]
        /\ Height[Pc + 1] = HeightAfter(store.funcs, Inst, Height[Pc])
        /\ WellTyped(store.funcs, Body, Height)
        /\ Top \in Frame /\ FrameOK(store.funcs, Top)
        /\ Body = BodyOf(store.funcs, Top)
    BY <1>1, Current
  <2>3. Height[Pc] = 1 BY <1>1, <2>2 DEF FitsAt, Inst
  <2>4. Height[Pc + 1] = 0 BY <1>1, <2>2 DEF HeightAfter, Arithmetic
  <2>5. EndsIf(Body, e)
    <3>1. Pc + 1 \in 1 .. Len(Body) /\ (Pc + 1) - 1 = Pc BY <2>2
    <3> QED BY <1>1, <3>1 DEF EndsIf, Inst
  <2>6. /\ e \in 0 .. Len(Body) - 1 /\ Height[e + 1] = 0
        /\ Closed(Body) => e + 1 < Len(Body)
    BY <2>2, <2>5, EndsIfFacts, SMTT(30)
  <2>7. Closed(Body) => Pc + 1 < Len(Body)
    <3>1. ASSUME Closed(Body) PROVE Body[Len(Body)].op # "If"
      BY <3>1, SMTT(30) DEF Closed
    <3> QED BY <1>1, <2>2, <3>1 DEF Inst
  <2>8. Len(stack) - 1 = Top.sp /\ stack \in Seq(I32) BY <2>2, <2>3 DEF IInv
  <2>9. label \in Label /\ label.sp = Top.sp /\ label.pc = e
    BY <2>2, <2>6, <2>8 DEF Label
  <2>10. /\ to \in 0 .. Len(Body) - 1 /\ Height[to + 1] = 0
         /\ Closed(Body) => to + 1 < Len(Body)
    BY <2>2, <2>4, <2>6, <2>7
  <2> HIDE DEF e, label, to
  <2>11. Top.labels \in Seq(Label) BY <2>2 DEF Frame
  <2>12. PICK ls : ls = Append(Top.labels, label) BY Zenon
  <2>13. /\ ls \in Seq(Label) /\ Len(ls) = Len(Top.labels) + 1
         /\ DOMAIN ls = 1 .. Len(Top.labels) + 1
         /\ \A k \in 1 .. Len(Top.labels) : ls[k] = Top.labels[k]
         /\ ls[Len(Top.labels) + 1] = label
    BY <2>9, <2>11, <2>12, AppendProperties
  <2>14. g = [Top EXCEPT !.pc = to, !.labels = ls] BY <2>2, <2>12 DEF Frame
  <2> HIDE DEF g
  <2>15. /\ g \in Frame /\ g.pc = to /\ g.sp = Top.sp /\ g.func = Top.func
         /\ g.arity = Top.arity /\ g.labels = ls
    <3>1. to \in Int BY <2>10, SMTT(30)
    <3> QED BY <2>2, <2>13, <2>14, <3>1, Zenon DEF Frame
  <2>16. FrameOK(store.funcs, g)
    <3>1. BodyOf(store.funcs, g) = Body BY <2>2, <2>15, Zenon DEF BodyOf
    <3>2. ASSUME NEW k \in DOMAIN g.labels
          PROVE  g.labels[k].sp = g.sp /\ EndsIf(Body, g.labels[k].pc)
      <4>1. CASE k = Len(Top.labels) + 1
        BY <2>5, <2>9, <2>13, <2>15, <4>1, SMTT(30)
      <4>2. CASE k # Len(Top.labels) + 1
        <5>1. k \in DOMAIN Top.labels BY <2>11, <2>13, <2>15, <4>2
        <5>2. g.labels[k] = Top.labels[k] BY <2>11, <2>13, <2>15, <5>1
        <5> QED BY <2>2, <2>15, <5>1, <5>2 DEF FrameOK
      <4> QED BY <4>1, <4>2
    <3>3. g.pc >= -1 BY <2>10, <2>15
    <3> QED BY <2>2, <2>15, <3>1, <3>2, <3>3 DEF FrameOK
  <2>17. PICK st : st = Pops(1) OBVIOUS
  <2>18. /\ st \in Seq(I32) /\ Len(st) = Top.sp
         /\ \A i \in 1 .. Top.sp : st[i] = stack[i]
    <3>1. st = SubSeq(stack, 1, Top.sp) BY <2>8, <2>17 DEF Pops
    <3>2. Top.sp <= Len(stack) BY <2>2, <2>3, SMTT(30)
    <3> QED BY <2>2, <2>8, <3>1, <3>2, Operands, SMTT(30)
  <2>19. /\ g.pc + 1 \in 0 .. Len(Body) /\ Len(st) = Top.sp + Height[g.pc + 1]
         /\ Closed(Body) => g.pc + 1 < Len(Body)
    BY <2>2, <2>10, <2>15, <2>18, SMTT(30)
  <2>20. Done(st, g) BY <2>1, <2>17
  <2> QED BY <1>1, <2>15, <2>16, <2>18, <2>19, <2>20, MovesOn
<1> QED BY <1>2, <1>3

(* Call moves the arguments from the stack to the frame of the function.   *)
LEMMA CallInstStep ==
  ASSUME IInv, CallInst
  PROVE  IInv' /\ (phase' = "run" => Kept)
<1>1. Running /\ Pc < Len(Body) /\ Inst.op = "Call"
  BY DEF CallInst, Fetched, Inst
<1>2. CASE Panic BY <1>2, PanicStep
<1>3. CASE ~Panic
  <2> DEFINE n == Height[Pc]
  <2>1. PICK fs : fs = store.funcs BY SMTT(30)
  <2>2. PICK b \in Nat : b < Len(call_stack) /\ Shape(fs, call_stack, stack, b)
    BY <1>1, <2>1, Current, SMTT(30)
  <2>3. /\ Top.sp \in Nat /\ Height \in [0 .. Len(Body) -> Nat]
        /\ Pc \in 0 .. Len(Body) - 1 /\ Body \in Seq(Instruction)
        /\ FitsAt(fs, Body, Pc, n) /\ Len(stack) = Top.sp + n
        /\ Height[Pc + 1] = HeightAfter(fs, Inst, n)
        /\ Valid(fs) /\ fs \in Seq(Callable) /\ Inst \in Instruction
        /\ Top \in Frame /\ FrameOK(fs, Top) /\ Body = BodyOf(fs, Top)
        /\ Top = call_stack[Len(call_stack)]
    BY <1>1, <2>1, Current
  <2>4. PICK idx : idx = Inst.idx OBVIOUS
  <2>5. /\ idx < Len(fs) /\ fs[idx + 1].params <= n /\ Closed(fs[idx + 1].body)
    BY <1>1, <2>3, <2>4, Zenon DEF FitsAt, Inst, Arithmetic
  <2>6. idx \in Nat BY <1>1, <2>3, <2>4, SMTT(30) DEF Instruction, Arithmetic
  <2>7. fs[idx + 1] \in Callable
    <3>1. fs \in Seq(Callable) BY <2>3
    <3>2. idx + 1 \in 1 .. Len(fs) BY <2>5, <2>6, <3>1
    <3> QED BY <3>1, <3>2, ElementOfSeq
  <2>8. PICK func : func = fs[idx + 1] OBVIOUS
  <2>9. /\ func.params \in Nat /\ func.locals \in Nat /\ func.results \in 0 .. 1
    BY <2>7, <2>8, SMTT(30) DEF Callable
  <2>10. n \in Nat /\ stack \in Seq(I32) BY <2>3 DEF IInv
  <2> HIDE DEF n
  <2>11. PICK bottom : bottom = Len(stack) - func.params OBVIOUS
  <2>12. /\ bottom \in Nat /\ Top.sp <= bottom /\ bottom <= Len(stack)
         /\ Top.sp + n = bottom + func.params
    <3>1. PICK k \in Nat : k = Top.sp /\ Len(stack) = k + n BY <2>3
    <3>2. PICK params \in Nat : params = func.params BY <2>9
    <3>3. params <= n BY <2>5, <2>8, <3>2
    <3>4. bottom = (k + n) - params BY <2>11, <3>1, <3>2
    <3>5. bottom \in Nat /\ k <= bottom /\ bottom <= k + n /\ k + n = bottom + params
      BY <2>10, <3>3, <3>4
    <3> QED BY <3>1, <3>2, <3>5, ZenonT(60)
  <2> DEFINE new == [pc |-> -1, sp |-> bottom, func |-> idx, arity |-> func.results,
                     labels |-> <<>>,
                     locals |-> SubSeq(stack, bottom + 1, Len(stack))
                                  \o [i \in 1 .. func.locals |-> 0]]
             cs == SetTop(AtInst)
             st == SubSeq(stack, 1, bottom)
  <2>13. /\ stack' = st /\ call_stack' = Append(cs, new)
         /\ UNCHANGED <<store, phase, entry, result>>
    <3>1. PushFrame(Inst.idx, stack, SetTop(AtInst))
          /\ UNCHANGED <<store, phase, entry, result>>
      BY <1>3 DEF CallInst
    <3>2. Func(idx) = func BY <2>1, <2>8 DEF Func
    <3> QED BY <2>4, <2>11, <3>1, <3>2 DEF PushFrame
  <2>14. /\ st \in Seq(I32) /\ Len(st) = bottom
         /\ \A i \in 1 .. bottom : st[i] = stack[i]
    BY <2>10, <2>12, Operands
  <2>15. SubSeq(stack, bottom + 1, Len(stack)) \in Seq(I32)
    <3>1. Len(stack) - func.params + 1 = bottom + 1 /\ func.params <= Len(stack)
      BY <2>9, <2>10, <2>11, <2>12
    <3> QED BY <2>9, <2>10, <3>1, Topmost
  <2>16. [i \in 1 .. func.locals |-> 0] \in Seq(I32)
    <3>1. 0 \in I32 BY WidthAssumption, SMTT(30) DEF I32
    <3> QED BY <2>9, <3>1
  <2>17. new.locals \in Seq(I32) BY <2>15, <2>16, ConcatProperties
  <2> DEFINE locals == new.locals
  <2>18. new = [pc |-> -1, sp |-> bottom, func |-> idx, arity |-> func.results,
                labels |-> <<>>, locals |-> locals]
    OBVIOUS
  <2>19. locals \in Seq(I32) BY <2>17
  <2> HIDE DEF new, locals, st
  <2>20. /\ new \in Frame /\ new.pc = -1 /\ new.sp = bottom /\ new.func = idx
         /\ new.arity = func.results /\ new.labels = <<>>
    <3>1. <<>> \in Seq(Label) OBVIOUS
    <3> QED BY <2>6, <2>9, <2>12, <2>18, <2>19, <3>1 DEF Frame
  <2>21. FrameOK(fs, new) BY <2>5, <2>8, <2>20 DEF FrameOK
  <2>22. PICK g : g = AtInst OBVIOUS
  <2>23. /\ g \in Frame /\ g.pc = Pc /\ g.sp = Top.sp /\ g.func = Top.func
         /\ g.arity = Top.arity /\ g.labels = Top.labels
    <3>1. Pc \in Int BY <2>3
    <3> QED BY <2>3, <2>22, <3>1, Zenon DEF AtInst, Frame
  <2>24. BodyOf(fs, g) = Body /\ HeightOf(fs, g) = Height
    BY <2>1, <2>3, <2>23, ZenonT(60) DEF BodyOf, HeightOf, Height
  <2>25. FrameOK(fs, g)
    <3>1. g.pc >= -1 BY <2>3, <2>23
    <3> QED BY <2>3, <2>23, <2>24, <3>1, SMTT(30) DEF FrameOK
  <2>26. Suspended(fs, g, new)
    BY <1>1, <2>3, <2>4, <2>8, <2>12, <2>20, <2>23, <2>24, Zenon DEF Suspended, Inst, n
  <2>27. Closed(BodyOf(fs, new)) BY <2>5, <2>20 DEF BodyOf
  <2>28. /\ cs \in Seq(Frame) /\ \A i \in DOMAIN cs : FrameOK(fs, cs[i])
         /\ Len(cs) = Len(call_stack) /\ cs[Len(call_stack)] = g /\ Nested(fs, cs, b)
    <3>1. cs = WithTop(call_stack, g) BY <2>22 DEF SetTop, WithTop
    <3>2. /\ call_stack \in Seq(Frame) /\ Nested(fs, call_stack, b)
          /\ \A i \in DOMAIN call_stack : FrameOK(fs, call_stack[i])
      BY <2>1, <2>2 DEF IInv, Shape
    <3> HIDE DEF cs
    <3> QED BY <2>2, <2>3, <2>23, <2>25, <3>1, <3>2, Replaced, Zenon
  <2> HIDE DEF cs
  <2>29. PICK ds : ds = Append(cs, new) BY Zenon
  <2>30. /\ ds \in Seq(Frame) /\ \A i \in DOMAIN ds : FrameOK(fs, ds[i])
         /\ b < Len(ds) /\ Shape(fs, ds, st, b)
    <3>1. b <= Len(cs) /\ b < Len(cs) BY <2>2, <2>28
    <3> QED BY <2>3, <2>14, <2>20, <2>21, <2>26, <2>27, <2>28, <2>29, <3>1, Enter, Zenon
  <2>31. call_stack' = ds /\ store'.funcs = fs BY <2>1, <2>13, <2>29
  <2>32. b \in 0 .. Len(ds) /\ phase = "run" BY <1>1, <2>30 DEF Running
  <2>33. IInv' BY <2>13, <2>14, <2>30, <2>31, <2>32 DEF IInv
  <2>34. Kept
    <3>1. \A i \in 1 .. Top.sp : i \in 1 .. bottom BY <2>3, <2>12
    <3> QED BY <2>12, <2>13, <2>14, <3>1, SMTT(30) DEF Kept
  <2> QED BY <2>33, <2>34
<1> QED BY <1>2, <1>3

(* Return, and the End of a function.                                      *)
LEMMA LeaveStep ==
  ASSUME IInv, Running, Pc < Len(Body), LeaveFrame
  PROVE  IInv' /\ (phase' = "run" => Kept)
<1>1. CASE Panic BY <1>1, PanicStep
<1>2. CASE ~Panic
  <2>1. PICK fs : fs = store.funcs OBVIOUS
  <2>2. PICK b \in Nat : b < Len(call_stack) /\ Shape(fs, call_stack, stack, b)
    BY <2>1, Current
  <2>3. /\ Valid(fs) /\ Top \in Frame /\ Top.sp \in Nat
        /\ Top = call_stack[Len(call_stack)]
    BY <2>1, Current
  <2>4. Top.arity \in Nat BY <2>3 DEF Frame
  <2>5. PICK st : st = StackUnwind(stack, Top.sp, Top.arity) OBVIOUS
  <2>6. PICK ds : ds = SubSeq(call_stack, 1, Len(call_stack) - 1) BY Zenon
  <2>7. /\ Top.sp + Top.arity <= Len(stack) /\ stack' = st /\ call_stack' = ds
        /\ UNCHANGED <<store, phase, entry, result>>
    BY <1>2, <2>5, <2>6 DEF LeaveFrame, CanUnwind
  <2>8. /\ st \in Seq(I32) /\ Len(st) = Top.sp + Top.arity
        /\ \A i \in 1 .. Top.sp : st[i] = stack[i]
    <3>1. stack \in Seq(I32) BY DEF IInv
    <3>2. PICK sp \in Nat, ar \in Nat : sp = Top.sp /\ ar = Top.arity BY <2>3, <2>4
    <3>3. st = StackUnwind(stack, sp, ar) /\ sp + ar <= Len(stack)
      BY <2>5, <2>7, <3>2
    <3>4. /\ StackUnwind(stack, sp, ar) \in Seq(I32)
          /\ Len(StackUnwind(stack, sp, ar)) = sp + ar
          /\ \A i \in 1 .. sp : StackUnwind(stack, sp, ar)[i] = stack[i]
      BY <3>1, <3>2, <3>3, Unwound, Zenon
    <3> QED BY <3>2, <3>3, <3>4, Zenon
  <2>9. /\ call_stack \in Seq(Frame)
        /\ \A i \in DOMAIN call_stack : FrameOK(fs, call_stack[i])
    BY <2>1 DEF IInv
  <2>10. /\ ds \in Seq(Frame) /\ \A i \in DOMAIN ds : FrameOK(fs, ds[i])
         /\ b <= Len(ds) /\ Shape(fs, ds, st, b)
    BY <2>2, <2>3, <2>6, <2>8, <2>9, Leave, Zenon
  <2>11. b \in 0 .. Len(ds) /\ phase = "run" BY <2>10 DEF Running
  <2>12. store'.funcs = fs BY <2>1, <2>7
  <2>13. IInv' BY <2>7, <2>8, <2>10, <2>11, <2>12 DEF IInv
  <2>14. Kept BY <2>3, <2>4, <2>7, <2>8 DEF Kept
  <2> QED BY <2>13, <2>14
<1> QED BY <1>1, <1>2

(* The End of a block goes to the End its label leads to: its own one, or  *)
(* an earlier one if an If was skipped.                                    *)
LEMMA EndBlockStep ==
  ASSUME IInv, EndBlock
  PROVE  IInv' /\ (phase' = "run" => Kept)
<1>1. Running /\ Pc < Len(Body) /\ Top.labels # <<>> BY SMTT(30) DEF EndBlock, Fetched
<1>2. CASE Panic BY <1>2, PanicStep
<1>3. CASE ~Panic
  <2>1. PICK label : label = Top.labels[Len(Top.labels)] OBVIOUS
  <2>2. PICK ls : ls = SubSeq(Top.labels, 1, Len(Top.labels) - 1) BY Zenon
  <2>3. PICK st : st = StackUnwind(stack, label.sp, label.arity) OBVIOUS
  <2>4. PICK g : g = [Top EXCEPT !.pc = label.pc, !.labels = ls] OBVIOUS
  <2>5. PICK fs : fs = store.funcs OBVIOUS
  <2>6. /\ Top \in Frame /\ FrameOK(fs, Top) /\ Body = BodyOf(fs, Top)
        /\ Body \in Seq(Instruction) /\ WellTyped(fs, Body, Height)
        /\ Top.sp \in Nat
    BY <1>1, <2>5, Current, Zenon
  <2>7. label.sp + label.arity <= Len(stack) /\ Done(st, g)
    BY <1>3, <2>1, <2>2, <2>3, <2>4, <2>6 DEF EndBlock, CanUnwind, Frame
  <2>8. PICK n \in Nat : n + 1 = Len(Top.labels)
    <3>1. Top.labels \in Seq(Label) BY <2>6 DEF Frame
    <3>2. Len(Top.labels) \in Nat \ {0} BY <1>1, <3>1
    <3>3. Len(Top.labels) - 1 \in Nat /\ (Len(Top.labels) - 1) + 1 = Len(Top.labels)
      BY <3>2
    <3> QED BY <3>3
  <2>9. /\ Top.labels \in Seq(Label) /\ DOMAIN Top.labels = 1 .. n + 1
        /\ label = Top.labels[n + 1] /\ label \in Label
    <3>1. Top.labels \in Seq(Label) BY <2>6 DEF Frame
    <3> QED BY <2>1, <2>8, <3>1
  <2>10. label.sp = Top.sp /\ EndsIf(Body, label.pc) /\ label.arity = 0
         /\ label.pc \in Nat
    <3>1. n + 1 \in DOMAIN Top.labels BY <2>9
    <3> QED BY <2>6, <2>9, <3>1, Zenon DEF FrameOK, Label
  <2>11. /\ label.pc \in 0 .. Len(Body) - 1 /\ Height[label.pc + 1] = 0
         /\ Closed(Body) => label.pc + 1 < Len(Body)
    BY <2>6, <2>10, EndsIfFacts
  <2>12. /\ ls \in Seq(Label) /\ DOMAIN ls = 1 .. n
         /\ \A k \in 1 .. n : ls[k] = Top.labels[k]
    <3>1. ls = SubSeq(Top.labels, 1, n) BY <2>2, <2>8, <2>9
    <3>2. \A k \in 1 .. n : Top.labels[k] \in Label BY <2>8, <2>9
    <3>3. /\ ls \in Seq(Label) /\ Len(ls) = IF 1 <= n THEN n - 1 + 1 ELSE 0
          /\ \A k \in 1 .. n - 1 + 1 : ls[k] = Top.labels[1 + k - 1]
      BY <3>1, <3>2, SubSeqProperties
    <3>4. Len(ls) = n /\ \A k \in 1 .. n : ls[k] = Top.labels[k] BY <3>3
    <3> QED BY <3>3, <3>4
  <2>13. /\ g \in Frame /\ g.pc = label.pc /\ g.sp = Top.sp /\ g.func = Top.func
         /\ g.arity = Top.arity /\ g.labels = ls
    <3>1. label.pc \in Int BY <2>10
    <3>2. PICK to \in Int : to = label.pc BY <3>1, SMTT(30)
    <3> QED BY <2>4, <2>6, <2>12, <3>2, Zenon DEF Frame
  <2>14. FrameOK(fs, g)
    <3>1. BodyOf(fs, g) = Body BY <2>6, <2>13, SMTT(30) DEF BodyOf
    <3>2. ASSUME NEW k \in DOMAIN g.labels
          PROVE  g.labels[k].sp = g.sp /\ EndsIf(Body, g.labels[k].pc)
      <4>1. k \in DOMAIN Top.labels /\ g.labels[k] = Top.labels[k]
        BY <2>9, <2>12, <2>13
      <4> QED BY <2>6, <2>13, <4>1 DEF FrameOK
    <3>3. g.pc >= -1 BY <2>10, <2>13
    <3> QED BY <2>6, <2>13, <3>1, <3>2, <3>3, SMTT(30) DEF FrameOK
  <2>15. /\ st \in Seq(I32) /\ Len(st) = Top.sp + 0
         /\ \A i \in 1 .. Top.sp : st[i] = stack[i]
    <3>1. stack \in Seq(I32) BY DEF IInv
    <3>2. PICK sp \in Nat : sp = Top.sp BY <2>6
    <3>3. st = StackUnwind(stack, sp, 0) /\ sp + 0 <= Len(stack)
      BY <2>3, <2>7, <2>10, <3>2
    <3>4. /\ StackUnwind(stack, sp, 0) \in Seq(I32)
          /\ Len(StackUnwind(stack, sp, 0)) = sp + 0
          /\ \A i \in 1 .. sp : StackUnwind(stack, sp, 0)[i] = stack[i]
      <4>1. 0 \in Nat OBVIOUS
      <4> QED BY <3>1, <3>2, <3>3, <4>1, Unwound, Zenon
    <3> QED BY <3>2, <3>3, <3>4, Zenon
  <2>16. /\ g.pc + 1 \in 0 .. Len(Body) /\ Len(st) = Top.sp + Height[g.pc + 1]
         /\ Closed(Body) => g.pc + 1 < Len(Body)
    BY <2>6, <2>11, <2>13, <2>15
  <2> QED BY <1>1, <2>5, <2>7, <2>13, <2>14, <2>15, <2>16, MovesOn
<1> QED BY <1>2, <1>3

(* The end of execute: every frame that is left was left behind before, or *)
(* is that of this call, past its last instruction.                        *)
LEMMA FinishStep ==
  ASSUME IInv, Finish
  PROVE  IInv' /\ phase' # "run"
<1>1. phase = "run" BY DEF Finish
<1>2. PICK fs : fs = store.funcs OBVIOUS
<1>3. Valid(fs) BY <1>2, StoreAssumption DEF IInv
<1>4. PICK arity : arity = Func(entry.func).results OBVIOUS
<1>5. arity \in 0 .. 1
  <2>1. entry.func \in 0 .. Len(fs) - 1 BY <1>1, <1>2 DEF IInv
  <2>2. fs \in Seq(Callable) BY <1>3 DEF Valid
  <2>3. entry.func + 1 \in 1 .. Len(fs) BY <2>1, <2>2
  <2>4. fs[entry.func + 1] \in Callable BY <2>2, <2>3, ElementOfSeq
  <2> QED BY <1>2, <1>4, <2>4 DEF Func, Callable
<1>6. CASE Panic BY <1>6, PanicStep
<1>7. CASE ~Panic
  <2>1. /\ arity <= Len(stack) /\ phase' = "done" /\ stack' = Pops(arity)
        /\ call_stack' = IF call_stack = <<>> THEN <<>> ELSE SetTop(AtInst)
        /\ UNCHANGED <<store, entry>>
    <3>1. Len(stack) \in Nat BY DEF IInv
    <3> QED BY <1>4, <1>5, <1>7, <3>1 DEF Finish
  <2>2. stack' \in Seq(I32)
    <3>1. stack \in Seq(I32) BY DEF IInv
    <3>2. Len(stack) - arity \in Nat /\ Len(stack) - arity <= Len(stack)
      BY <1>5, <2>1, <3>1
    <3>3. SubSeq(stack, 1, Len(stack) - arity) \in Seq(I32)
      BY <3>1, <3>2, Operands
    <3> QED BY <2>1, <3>3 DEF Pops
  <2>3. /\ call_stack' \in Seq(Frame)
        /\ \A i \in DOMAIN call_stack' :
             FrameOK(fs, call_stack'[i]) /\ Spent(fs, call_stack'[i])
    <3>1. CASE call_stack = <<>> BY <2>1, <3>1
    <3>2. CASE call_stack # <<>>
      <4>1. PICK cs : cs = call_stack OBVIOUS
      <4>2. /\ cs \in Seq(Frame) /\ \A i \in DOMAIN cs : FrameOK(fs, cs[i])
        BY <1>2, <4>1 DEF IInv
      <4>3. PICK n \in Nat : n = Len(cs) BY <4>2
      <4>4. n # 0 /\ DOMAIN cs = 1 .. n /\ n \in 1 .. n BY <3>2, <4>1, <4>2, <4>3
      <4>5. PICK b \in 0 .. n : Shape(fs, cs, stack, b)
        BY <1>1, <1>2, <4>1, <4>3, SMTT(30) DEF IInv
      <4>6. Top = cs[n] /\ Body = BodyOf(fs, Top) /\ Pc >= Len(Body)
        BY <1>2, <3>2, <4>1, <4>3 DEF Top, Body, Func, BodyOf, Finish
      <4>7. Top \in Frame /\ FrameOK(fs, Top) BY <4>2, <4>4, <4>6
      <4>8. n <= b + 1
        <5>1. Body \in Seq(Instruction) BY <1>3, <4>6, <4>7, FrameFacts
        <5>2. Top.pc \in Int BY <4>7 DEF Frame
        <5>3. ~(Top.pc + 1 < Len(Body)) BY <4>6, <5>1, <5>2 DEF Pc
        <5>4. ~(b + 1 < n) BY <4>3, <4>5, <4>6, <5>3, Zenon DEF Shape
        <5> QED BY <4>5, <5>4, SMTT(30)
      <4>9. \A i \in 1 .. n : i # n => Spent(fs, cs[i])
        <5>1. \A i \in 1 .. b : Spent(fs, cs[i]) BY <4>5 DEF Shape, Nested
        <5> QED BY <4>8, <5>1
      <4>10. Top.sp = 0
        <5>1. CASE b = n
          <6>1. Spent(fs, cs[n]) BY <4>4, <4>5, <5>1, SMTT(30) DEF Shape, Nested
          <6> QED BY <4>6, <6>1 DEF Spent
        <5>2. CASE b # n
          <6>1. b < Len(cs) /\ b + 1 = n BY <4>3, <4>5, <4>8, <5>2
          <6> QED BY <4>5, <4>6, <6>1 DEF Shape, Nested
        <5> QED BY <5>1, <5>2
      <4>11. PICK g : g = AtInst OBVIOUS
      <4>12. /\ g \in Frame /\ g.pc = Pc /\ g.sp = 0 /\ g.func = Top.func
             /\ g.arity = Top.arity /\ g.labels = Top.labels
        <5>1. Pc \in Int BY <4>7 DEF Pc, Frame
        <5> QED BY <4>7, <4>10, <4>11, <5>1 DEF AtInst, Frame
      <4>13. BodyOf(fs, g) = Body BY <4>6, <4>12, SMTT(30) DEF BodyOf
      <4>14. FrameOK(fs, g)
        <5>1. Top.pc \in Int /\ Top.pc >= -1 BY <4>7 DEF Frame, FrameOK
        <5>2. g.pc >= -1 BY <4>12, <5>1 DEF Pc
        <5> QED BY <4>6, <4>7, <4>10, <4>12, <4>13, <5>2, SMTT(30) DEF FrameOK
      <4>15. Spent(fs, g) BY <4>6, <4>12, <4>13 DEF Spent
      <4>16. PICK ds : ds = WithTop(cs, g) OBVIOUS
      <4>17. /\ ds \in Seq(Frame) /\ DOMAIN ds = 1 .. n /\ ds[n] = g
             /\ \A i \in 1 .. n : i # n => ds[i] = cs[i]
        BY <4>2, <4>3, <4>4, <4>12, <4>16 DEF WithTop
      <4>18. call_stack' = ds
        BY <2>1, <3>2, <4>1, <4>11, <4>16, SMTT(30) DEF SetTop, WithTop
      <4>19. \A i \in 1 .. n : FrameOK(fs, ds[i]) /\ Spent(fs, ds[i])
        BY <4>2, <4>4, <4>9, <4>14, <4>15, <4>17
      <4> QED BY <4>17, <4>18, <4>19
    <3> QED BY <3>1, <3>2
  <2>4. store'.funcs = fs /\ store' \in Stores BY <1>2, <2>1 DEF IInv
  <2> QED BY <2>1, <2>2, <2>3, <2>4 DEF IInv
<1> QED BY <1>6, <1>7

(* call: its frame comes to lie on the frames left behind.                 *)
LEMMA CallStep ==
  ASSUME IInv, NEW idx \in 0 .. Len(store.funcs) - 1, NEW args \in Args,
         Call(idx, args)
  PROVE  IInv'
<1>1. PICK fs : fs = store.funcs OBVIOUS
<1>2. Valid(fs) /\ args \in Seq(I32) BY <1>1, StoreAssumption DEF IInv
<1>3. PICK func : func = fs[idx + 1] OBVIOUS
<1>4. idx \in Nat /\ idx < Len(fs) /\ func \in Callable
  <2>1. fs \in Seq(Callable) BY <1>2 DEF Valid
  <2>2. idx + 1 \in 1 .. Len(fs) /\ idx \in Nat /\ idx < Len(fs) BY <1>1, <2>1
  <2> QED BY <1>3, <2>1, <2>2, ElementOfSeq
<1>5. func.params \in Nat /\ func.locals \in Nat /\ func.results \in 0 .. 1
  BY <1>4 DEF Callable
<1>6. Func(idx) = func BY <1>1, <1>3 DEF Func
<1>7. Len(args) = func.params /\ Len(args) - func.params = 0
  BY <1>2, <1>6 DEF Call
<1> DEFINE st == SubSeq(args, 1, 0)
           locals == SubSeq(args, 0 + 1, Len(args)) \o [i \in 1 .. func.locals |-> 0]
           new == [pc |-> -1, sp |-> 0, func |-> idx, arity |-> func.results,
                   labels |-> <<>>, locals |-> locals]
<1>8. /\ stack' = st /\ call_stack' = Append(call_stack, new)
      /\ phase' = "run" /\ entry'.func = idx /\ store' = store
      /\ phase \in {"new", "done"}
  BY <1>6, <1>7, Zenon DEF Call, PushFrame
<1>9. st \in Seq(I32) /\ Len(st) = 0 BY <1>2, Operands
<1>10. locals \in Seq(I32)
  <2>1. 1 = Len(args) - func.params + 1 /\ func.params <= Len(args)
    BY <1>2, <1>5, <1>7
  <2>2. SubSeq(args, 0 + 1, Len(args)) \in Seq(I32) BY <1>2, <1>5, <2>1, Topmost
  <2>3. 0 \in I32 BY WidthAssumption DEF I32
  <2>4. [i \in 1 .. func.locals |-> 0] \in Seq(I32) BY <1>5, <2>3, SMTT(30)
  <2> QED BY <2>2, <2>4, ConcatProperties
<1> HIDE DEF locals, st
<1>11. /\ new \in Frame /\ new.pc = -1 /\ new.sp = 0 /\ new.func = idx
       /\ new.arity = func.results /\ new.labels = <<>>
  <2>1. <<>> \in Seq(Label) OBVIOUS
  <2> QED BY <1>4, <1>5, <1>10, <2>1 DEF Frame
<1> HIDE DEF new
<1>12. FrameOK(fs, new) BY <1>3, <1>4, <1>11 DEF FrameOK
<1>13. /\ call_stack \in Seq(Frame) /\ Len(call_stack) \in Nat
       /\ \A i \in DOMAIN call_stack :
            FrameOK(fs, call_stack[i]) /\ Spent(fs, call_stack[i])
  BY <1>1, <1>8, SMTT(30) DEF IInv
<1>14. Nested(fs, call_stack, Len(call_stack))
  <2>1. \A i \in 1 .. Len(call_stack) : Spent(fs, call_stack[i]) BY <1>13
  <2> QED BY <1>13, <2>1 DEF Nested
<1>15. PICK ds : ds = Append(call_stack, new) BY Zenon
<1>16. /\ ds \in Seq(Frame) /\ \A i \in DOMAIN ds : FrameOK(fs, ds[i])
       /\ Len(call_stack) < Len(ds) /\ Shape(fs, ds, st, Len(call_stack))
  <2>1. PICK n \in Nat : n = Len(call_stack) /\ n <= n BY <1>13
  <2>2. Len(st) = new.sp BY <1>9, <1>11
  <2>3. Nested(fs, call_stack, n) BY <1>14, <2>1
  <2>4. \A i \in DOMAIN call_stack : FrameOK(fs, call_stack[i]) BY <1>13
  <2>5. /\ Append(call_stack, new) \in Seq(Frame)
        /\ \A i \in DOMAIN Append(call_stack, new) :
             FrameOK(fs, Append(call_stack, new)[i])
        /\ n < Len(Append(call_stack, new))
        /\ Shape(fs, Append(call_stack, new), st, n)
    BY <1>2, <1>11, <1>12, <1>13, <2>1, <2>2, <2>3, <2>4, Enter, Zenon
  <2> QED BY <1>15, <2>1, <2>5
<1>17. call_stack' = ds /\ store'.funcs = fs /\ Len(call_stack) \in 0 .. Len(ds)
  BY <1>1, <1>8, <1>13, <1>15, <1>16
<1>18. entry'.func \in 0 .. Len(fs) - 1 BY <1>1, <1>8
<1> QED BY <1>8, <1>9, <1>16, <1>17, <1>18 DEF IInv

-----------------------------------------------------------------------------

(* A step of execute keeps the invariant, and while the call goes on the   *)
(* operands below the innermost frame.                                     *)
LEMMA ExecuteStep ==
  ASSUME IInv, Step
  PROVE  IInv' /\ (Running /\ phase' = "run" => Kept)
<1>1. ASSUME NEW op \in {"I32Add", "I32Sub", "I32Mul", "I32Lts"}, Operate(op)
      PROVE  IInv' /\ (phase' = "run" => Kept)
  <2>1. op \in Arithmetic BY DEF Arithmetic
  <2> QED BY <1>1, <2>1, OperateStep
<1>2. CASE Const BY <1>2, ConstStep
<1>3. CASE LocalGet BY <1>3, LocalGetStep
<1>4. CASE CallInst BY <1>4, CallInstStep
<1>5. CASE If BY <1>5, IfStep
<1>6. CASE Return
  <2>1. Running /\ Pc < Len(Body) /\ LeaveFrame BY <1>6 DEF Return, Fetched
  <2> QED BY <2>1, LeaveStep
<1>7. CASE EndFunction
  <2>1. Running /\ Pc < Len(Body) /\ LeaveFrame BY <1>7 DEF EndFunction, Fetched
  <2> QED BY <2>1, LeaveStep
<1>8. CASE EndBlock BY <1>8, EndBlockStep
<1>9. CASE Finish BY <1>9, FinishStep
<1> QED BY <1>1, <1>2, <1>3, <1>4, <1>5, <1>6, <1>7, <1>8, <1>9, Zenon DEF Step

LEMMA InitHolds == Init => IInv
<1>1. <<>> \in Seq(I32) /\ <<>> \in Seq(Frame) /\ DOMAIN <<>> = {} OBVIOUS
<1> QED BY <1>1 DEF Init, IInv

LEMMA NextHolds ==
  ASSUME IInv, [Next]_vars
  PROVE  IInv'
<1>1. ASSUME NEW idx \in 0 .. Len(store.funcs) - 1, NEW args \in Args, Call(idx, args)
      PROVE  IInv'
  BY <1>1, CallStep
<1>2. CASE Step BY <1>2, ExecuteStep
<1>3. CASE UNCHANGED vars BY <1>3 DEF vars, IInv
<1> QED BY <1>1, <1>2, <1>3, Zenon DEF Next

(* Throughout a call, and between calls, the operand stack holds for every *)
(* frame of execute exactly the operands its function has where it is, and *)
(* the frames below were called by one another or have been left behind.   *)
THEOREM OperandsAlwaysCounted == Spec => []IInv
<1>1. IInv /\ [Next]_vars => IInv' BY NextHolds
<1> QED BY InitHolds, <1>1, PTL DEF Spec

(* The invariant orders the frames on the operand stack.                   *)
LEMMA NestFromShape == IInv => FramesNest
<1> SUFFICES ASSUME IInv, phase = "run", NEW i \in DOMAIN call_stack
             PROVE  /\ call_stack[i].sp <= Limit(i)
                    /\ \A k \in DOMAIN call_stack[i].labels :
                         call_stack[i].labels[k].sp \in call_stack[i].sp .. Limit(i)
  BY DEF FramesNest
<1>1. PICK fs : fs = store.funcs OBVIOUS
<1>2. PICK cs : cs = call_stack OBVIOUS
<1>3. /\ cs \in Seq(Frame) /\ \A j \in DOMAIN cs : FrameOK(fs, cs[j])
      /\ stack \in Seq(I32) /\ Valid(fs)
  BY <1>1, <1>2, StoreAssumption DEF IInv
<1>4. PICK n \in Nat : n = Len(cs) BY <1>3
<1>5. DOMAIN cs = 1 .. n /\ i \in 1 .. n BY <1>2, <1>3, <1>4
<1>6. PICK b \in 0 .. n : Shape(fs, cs, stack, b) BY <1>1, <1>2, <1>4 DEF IInv
<1>7. \A j \in 1 .. n : cs[j] \in Frame /\ FrameOK(fs, cs[j]) /\ cs[j].sp \in Nat
  <2>1. \A j \in 1 .. n : cs[j] \in Frame /\ FrameOK(fs, cs[j]) BY <1>3, <1>5
  <2>2. \A fr \in Frame : fr.sp \in Nat BY DEF Frame
  <2> QED BY <2>1, <2>2
<1>8. Limit(i) \in Nat
  <2>1. CASE i = n BY <1>2, <1>3, <1>4, <2>1 DEF Limit
  <2>2. CASE i # n
    <3>1. i + 1 \in 1 .. n BY <1>5, <2>2
    <3> QED BY <1>2, <1>4, <1>7, <2>2, <3>1 DEF Limit
  <2> QED BY <2>1, <2>2
<1>9. cs[i].sp <= Limit(i)
  <2>1. CASE i <= b
    <3>1. Spent(fs, cs[i]) BY <1>5, <1>6, <2>1 DEF Shape, Nested
    <3> QED BY <1>8, <3>1, SMTT(30) DEF Spent
  <2>2. CASE b < i /\ i = n
    <3>1. Executing(fs, cs[n], stack) BY <1>4, <1>6, <2>2 DEF Shape
    <3>2. cs[n] \in Frame /\ FrameOK(fs, cs[n]) /\ cs[n].sp \in Nat
      BY <1>5, <1>7, <2>2, SMTT(30)
    <3>3. /\ HeightOf(fs, cs[n]) \in [0 .. Len(BodyOf(fs, cs[n])) -> Nat]
          /\ BodyOf(fs, cs[n]) \in Seq(Instruction)
      BY <1>3, <3>2, FrameFacts
    <3>4. cs[n].pc + 1 \in 0 .. Len(BodyOf(fs, cs[n]))
      <4>1. cs[n].pc \in Int /\ cs[n].pc >= -1 BY <3>2 DEF Frame, FrameOK
      <4> QED BY <3>1, <3>3, <4>1, SMTT(30) DEF Executing
    <3>5. HeightOf(fs, cs[n])[cs[n].pc + 1] \in Nat BY <3>3, <3>4
    <3>6. Len(stack) = cs[n].sp + HeightOf(fs, cs[n])[cs[n].pc + 1]
      BY <3>1, SMTT(30) DEF Executing
    <3>7. PICK x \in Nat, y \in Nat : cs[n].sp = x /\ Len(stack) = x + y
      BY <3>2, <3>5, <3>6
    <3> QED BY <1>2, <1>4, <2>2, <3>7 DEF Limit
  <2>3. CASE b < i /\ i # n
    <3>1. i \in b + 1 .. n - 1 /\ i + 1 \in 1 .. n BY <1>5, <1>6, <2>3, SMTT(30)
    <3>2. Suspended(fs, cs[i], cs[i + 1])
      BY <1>4, <1>6, <3>1, SMTT(30) DEF Shape, Nested
    <3> DEFINE fr == cs[i]
               gr == cs[i + 1]
               body == BodyOf(fs, fr)
               h == HeightOf(fs, fr)
    <3>3. /\ fr \in Frame /\ FrameOK(fs, fr) /\ fr.sp \in Nat
          /\ gr \in Frame /\ FrameOK(fs, gr) /\ gr.sp \in Nat
      BY <1>5, <1>7, <3>1
    <3>4. /\ body \in Seq(Instruction) /\ h \in [0 .. Len(body) -> Nat]
          /\ WellTyped(fs, body, h)
      BY <1>3, <3>3, FrameFacts, Zenon
    <3>5. /\ fr.pc \in 0 .. Len(body) - 1 /\ body[fr.pc + 1].op = "Call"
          /\ body[fr.pc + 1].idx = gr.func
          /\ fr.sp + h[fr.pc] = gr.sp + fs[gr.func + 1].params
      BY <3>2 DEF Suspended
    <3>6. Limit(i) = gr.sp BY <1>2, <1>4, <2>3, SMTT(30) DEF Limit
    <3> HIDE DEF fr, gr, body, h
    <3>7. FitsAt(fs, body, fr.pc, h[fr.pc]) BY <3>4, <3>5, SMTT(30) DEF WellTyped
    <3>8. fs[gr.func + 1].params <= h[fr.pc]
      BY <3>5, <3>7 DEF FitsAt, Arithmetic
    <3>9. fs[gr.func + 1].params \in Nat BY <1>3, <3>3, FrameFacts
    <3>10. h[fr.pc] \in Nat BY <3>4, <3>5
    <3>11. PICK x \in Nat, y \in Nat, u \in Nat, v \in Nat :
             x = fr.sp /\ y = gr.sp /\ u = h[fr.pc] /\ v = fs[gr.func + 1].params
      BY <3>3, <3>9, <3>10
    <3>12. x + u = y + v /\ v <= u BY <3>5, <3>8, <3>11
    <3>13. x <= y BY <3>12
    <3>14. fr.sp <= Limit(i) BY <3>6, <3>11, <3>13, SMTT(30)
    <3> QED BY <3>14 DEF fr
  <2> QED BY <1>5, <1>6, <2>1, <2>2, <2>3
<1>10. \A k \in DOMAIN cs[i].labels : cs[i].labels[k].sp = cs[i].sp
  BY <1>5, <1>7 DEF FrameOK
<1>11. cs[i].sp \in cs[i].sp .. Limit(i) BY <1>5, <1>7, <1>8, <1>9
<1> QED BY <1>2, <1>9, <1>10, <1>11

(* stack_unwind never finds fewer operands than it is to keep: frames, and *)
(* the labels of a frame, lie in order on the operand stack.               *)
THEOREM FramesAlwaysNest == Spec => []FramesNest
BY OperandsAlwaysCounted, NestFromShape, PTL

(* A call leaves behind only frames that have run past their end.          *)
THEOREM LeftFramesAlwaysSpent == Spec => []LeftFramesSpent
<1>1. IInv => LeftFramesSpent BY DEF IInv, LeftFramesSpent, Spent, BodyOf, Func
<1> QED BY OperandsAlwaysCounted, <1>1, PTL

(* No instruction of a function touches the operands its callers keep on   *)
(* the stack, whatever it calls and however it returns.                    *)
THEOREM CallerOperandsAlwaysKept == Spec => CallerOperandsKept
<1>1. ASSUME IInv, IInv', Running, Step, phase' = "run"
      PROVE  /\ Top.sp <= Len(stack')
             /\ SubSeq(stack', 1, Top.sp) = SubSeq(stack, 1, Top.sp)
  <2>1. Kept BY <1>1, ExecuteStep
  <2>2. Top \in Frame /\ Len(call_stack) \in DOMAIN call_stack
    <3>1. call_stack \in Seq(Frame) /\ call_stack # <<>> BY <1>1 DEF IInv, Running
    <3> QED BY <3>1 DEF Top
  <2>3. PICK k \in Nat : k = Top.sp BY <2>2 DEF Frame
  <2>4. k <= Limit(Len(call_stack))
    <3>1. FramesNest BY <1>1, NestFromShape
    <3> QED BY <1>1, <2>2, <2>3, <3>1 DEF FramesNest, Top, Running
  <2>5. stack \in Seq(I32) /\ stack' \in Seq(I32) BY <1>1 DEF IInv
  <2>6. k <= Len(stack) BY <2>4 DEF Limit
  <2>7. k <= Len(stack') /\ \A i \in 1 .. k : stack'[i] = stack[i]
    BY <2>1, <2>3 DEF Kept
  <2>8. SubSeq(stack', 1, k) = SubSeq(stack, 1, k)
    BY <2>5, <2>6, <2>7, SameBelow
  <2> QED BY <2>3, <2>7, <2>8
<1>2. IInv /\ IInv' /\ [Next]_vars
        => [Running /\ Step /\ phase' = "run" =>
              /\ Top.sp <= Len(stack')
              /\ SubSeq(stack', 1, Top.sp) = SubSeq(stack, 1, Top.sp)]_vars
  BY <1>1, Zenon
<1> QED BY OperandsAlwaysCounted, <1>2, PTL DEF Spec, CallerOperandsKept
===============================================================================
