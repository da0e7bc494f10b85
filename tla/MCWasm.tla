-------------------------------- MODULE MCWasm --------------------------------
EXTENDS WasmReference

(* All functions of one parameter with up to two statements, nested to     *)
(* depth two, closed in each of the three ways.                            *)
Exprs == {Num(2), Local(0)}
Conds == {Local(0), Bin("I32Lts", Local(0), Num(1))}
Flat == {Cond(c, body) : c \in Conds, body \in {<<>>} \cup {<<Ret(e)>> : e \in Exprs}}
Nested == {Cond(c, <<s>>) : c \in Conds, s \in Flat}
Lists == {<<>>} \cup {<<s>> : s \in Flat \cup Nested}
           \cup {<<s, t>> : s \in Flat, t \in Flat \cup Nested}
           \cup {<<s, t>> : s \in Nested, t \in Flat}
Values == {<<Bin("I32Mul", Local(0), Num(7))>>}
Single == {<<Function(1, 0, l, v, close)>> :
             l \in Lists, v \in Values, close \in {"Return", "End", "none"}}
Void == {<<Function(1, 0, l, <<>>, close)>> :
           l \in {<<>>} \cup {<<Cond(c, <<>>)>> : c \in Conds},
           close \in {"Return", "End", "none"}}

(* Functions that call: a caller with operands waiting on the stack, and   *)
(* a recursion.                                                            *)
Caller(close) ==
  <<Function(1, 0, <<>>,
             <<Bin("I32Sub", Local(0), CallOf(1, Bin("I32Add", Local(0), Num(1))))>>,
             close),
    Function(1, 1, <<Cond(Local(1), <<Ret(Num(9))>>),
                     Cond(Local(0), <<Cond(Local(1), <<>>)>>)>>,
             <<Bin("I32Sub", Local(1), Local(0))>>, close)>>
Factorial(close) ==
  <<Function(1, 0, <<Cond(Bin("I32Lts", Local(0), Num(2)), <<Ret(Num(1))>>)>>,
             <<Bin("I32Mul", Local(0), CallOf(0, Bin("I32Sub", Local(0), Num(1))))>>,
             close)>>
Calls == {Caller(close) : close \in {"Return", "End"}}
           \cup {Factorial(close) : close \in {"Return", "End"}}

(* What the comments of wasm_entry say of its two functions.               *)
Size == 15
SpaceSrc ==
  <<Function(1, 0, <<Cond(Bin("I32Lts", Local(0), Num(Size \div 2)),
                          <<Ret(Bin("I32Sub", Num(Size \div 2), Local(0)))>>)>>,
             <<Bin("I32Sub", Local(0), Num(Size \div 2))>>, "Return")>>
StarSrc ==
  <<Function(1, 0, <<Cond(Bin("I32Lts", Local(0), Num(Size \div 2)),
                          <<Ret(Bin("I32Add", Bin("I32Mul", Local(0), Num(2)),
                                    Num(1)))>>)>>,
             <<Bin("I32Sub", Num(Size),
                   Bin("I32Mul", Num(2), Bin("I32Sub", Local(0),
                                             Num(Size \div 2))))>>, "Return")>>

Diamond == {[src |-> SpaceSrc, funcs |-> <<WasmSpace(Size)>>],
            [src |-> StarSrc, funcs |-> <<WasmStar(Size)>>]}

TestStores == Diamond \cup {StoreOf(src) : src \in Single \cup Void \cup Calls}

(* Every line of the diamond.                                              *)
TestArgs == {<<n>> : n \in 0 .. Size - 1}
===============================================================================
