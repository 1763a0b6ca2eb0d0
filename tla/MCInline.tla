------------------------------ MODULE MCInline ------------------------------
(* Inline on a function f that calls g and h, of all the shapes below; g may *)
(* call a function e.                                                      *)
EXTENDS Inline, TLC

MCNewBlock(c) == "rest of " \o c
MCNewPhi(c) == "phi of " \o c

\* A function is a sequence of blocks; a block has its instructions, each with
\* its address, and its successors.
I(name, type, operands) == [name |-> name, type |-> type, operands |-> operands, value |-> "none"]
Phi(name, operands, from) == [I(name, "kPhi", operands) EXCEPT !.value = from]
Call(name, g, args) == [I(name, "kCall", args) EXCEPT !.value = g]
Block(name, code, succs) == [name |-> name, code |-> code, succs |-> succs]

Ret(name, v) == I(name, "kReturn", <<v>>)
Add(name, x, y) == I(name, "kAdd", <<x, y>>)
Jump(name) == I(name, "kJump", <<>>)
Br(name, v) == I(name, "kBranch", <<v>>)
To(b) == <<b, nullptr>>
Nowhere == <<nullptr, nullptr>>

\* What g and h may be; p tells the addresses of the two apart.  `inner` is what
\* it computes from its arguments.
Callee(p, inner) ==
  LET n(name) == p \o name
      args == <<I(n("x"), "kArg", <<>>), I(n("y"), "kArg", <<>>)>>
  IN  CASE inner = "sum" ->
             <<Block(n("A"), args \o <<Add(n("s"), n("x"), n("y")), Ret(n("r"), n("s"))>>, Nowhere)>>
        [] inner = "second argument" ->
             <<Block(n("A"), args \o <<Ret(n("r"), n("y"))>>, Nowhere)>>
        [] inner = "one of two" ->
             <<Block(n("A"), args \o <<Br(n("b"), n("x"))>>, <<n("B"), n("C")>>),
               Block(n("B"), <<Ret(n("r"), n("x"))>>, Nowhere),
               Block(n("C"), <<Add(n("s"), n("x"), n("y")), Ret(n("t"), n("s"))>>, Nowhere)>>
        [] inner = "joined" ->
             <<Block(n("A"), args \o <<Br(n("b"), n("x"))>>, <<n("B"), n("C")>>),
               Block(n("B"), <<Add(n("s"), n("x"), n("y")), Jump(n("j"))>>, To(n("C"))),
               Block(n("C"), <<Phi(n("p"), <<n("x"), n("s")>>, <<n("A"), n("B")>>),
                               Ret(n("r"), n("p"))>>, Nowhere)>>
        [] inner = "loop" ->
             <<Block(n("A"), args \o <<Jump(n("j"))>>, To(n("B"))),
               Block(n("B"), <<Add(n("s"), n("x"), n("y")), Br(n("b"), n("s"))>>, <<n("B"), n("C")>>),
               Block(n("C"), <<Ret(n("r"), n("s"))>>, Nowhere)>>
        [] inner = "never returns" ->
             <<Block(n("A"), args \o <<Jump(n("j"))>>, To(n("A")))>>
        [] inner = "one argument" ->
             <<Block(n("A"), <<I(n("x"), "kArg", <<>>), Ret(n("r"), n("x"))>>, Nowhere)>>
        [] inner = "calls e" ->
             <<Block(n("A"), args \o <<Call(n("c"), "e", <<n("y"), n("x")>>),
                                       Ret(n("r"), n("c"))>>, Nowhere)>>
        [] inner = "calls e with a sum" ->
             <<Block(n("A"), args \o <<Add(n("s"), n("x"), n("y")),
                                       Call(n("c"), "e", <<n("s"), n("s")>>),
                                       Ret(n("r"), n("c"))>>, Nowhere)>>

\* What f may be; two constants and one or two calls.
K == <<I("k", "kConst", <<>>), I("l", "kConst", <<>>)>>
C1 == Call("c", "g", <<"k", "l">>)
C2(g, x) == Call("d", g, <<x, "k">>)

Callers ==
  {<<Block("A", K \o <<C1, Ret("r", "c")>>, Nowhere)>>,
   <<Block("A", K \o <<C1, Add("s", "c", "k")>>, Nowhere)>>,
   <<Block("A", K \o <<C1, Jump("j")>>, To("B")),
     Block("B", <<Add("s", "c", "k"), Ret("r", "s")>>, Nowhere)>>,
   \* a branch on the call, a phi that names the block of the call
   <<Block("A", K \o <<C1, Br("b", "c")>>, <<"B", "C">>),
     Block("B", <<Add("s", "c", "l"), Jump("j")>>, To("C")),
     Block("C", <<Phi("p", <<"c", "s">>, <<"A", "B">>), Ret("r", "p")>>, Nowhere)>>,
   \* a call in a loop
   <<Block("A", K \o <<Jump("j")>>, To("B")),
     Block("B", <<C1, Br("b", "c")>>, <<"B", "C">>),
     Block("C", <<Ret("r", "c")>>, Nowhere)>>,
   \* nothing, or more than one instruction, behind the call
   <<Block("A", K \o <<C1>>, Nowhere)>>,
   <<Block("A", K \o <<C1, Add("s", "c", "k"), Ret("r", "s")>>, Nowhere)>>,
   \* a call of f itself
   <<Block("A", K \o <<Call("c", "f", <<"k", "l">>), Ret("r", "c")>>, Nowhere)>>}
  \cup
  UNION {
   {\* two calls in two blocks, the second of what the first returns or not
    <<Block("A", K \o <<C1, Jump("j")>>, To("B")),
      Block("B", <<C2(g, x), Add("s", "c", "d")>>, Nowhere)>>,
    \* the second of a sum of what the first returns
    <<Block("A", K \o <<C1, Jump("j")>>, To("B")),
      Block("B", <<Add("s", "c", x), C2(g, "s"), Ret("r", "d")>>, Nowhere)>>,
    \* in the two ways of a branch
    <<Block("A", K \o <<Br("b", "k")>>, <<"B", "C">>),
      Block("B", <<C1, Jump("j")>>, To("D")),
      Block("C", <<C2(g, "l"), Jump("i")>>, To("D")),
      Block("D", <<Phi("p", <<"c", "d">>, <<"B", "C">>), Ret("r", "p")>>, Nowhere)>>,
    \* in one block, one behind the other or not
    <<Block("A", K \o <<C1, C2(g, x), Ret("r", "d")>>, Nowhere)>>,
    <<Block("A", K \o <<C1, Add("s", "c", "k"), C2(g, "s"), Ret("r", "d")>>, Nowhere)>>} :
    g \in {"g", "h"}, x \in {"c", "l"}}

ProgramOf(fns) ==
  LET blocks == UNION {ToSet(fns[f]) : f \in DOMAIN fns}
      instrs == UNION {ToSet(b.code) : b \in blocks}
      BlockAt(a) == CHOOSE b \in blocks : b.name = a
      InstrAt(a) == CHOOSE i \in instrs : i.name = a
      Addresses(bs) == [k \in DOMAIN bs |-> bs[k].name]
  IN  [bbs |-> [f \in DOMAIN fns |-> Addresses(fns[f])],
       succs |-> [a \in {b.name : b \in blocks} |-> BlockAt(a).succs],
       code |-> [a \in {b.name : b \in blocks} |-> Addresses(BlockAt(a).code)],
       instrs |-> [a \in {i.name : i \in instrs} |->
                     LET i == InstrAt(a) IN Instr(i.type, i.operands, i.value)]]

MCPrograms ==
  {ProgramOf([f |-> caller, g |-> Callee("g.", inner), h |-> Callee("h.", other),
              e |-> Callee("e.", "sum")]) :
     caller \in Callers,
     inner \in {"sum", "second argument", "one of two", "joined", "loop", "never returns",
                "one argument", "calls e", "calls e with a sum"},
     other \in {"sum", "one of two"}}

=============================================================================
