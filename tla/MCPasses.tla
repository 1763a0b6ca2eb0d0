------------------------------ MODULE MCPasses ------------------------------
(* Passes on small blocks. *)
EXTENDS Passes, Bitwise, TLC

CONSTANT MaxInstrs   \* the instructions of a program

BitwiseOr(x, y) == x | y

\* Constants come first, in ascending order, then the one argument, then the rest.
Canonical(h, instr) ==
  /\ Len(h) < MaxInstrs
  /\ instr.type \in {"kConst", "kArg"} => \A i \in DOMAIN h : h[i].type = "kConst"
  /\ instr.type = "kConst" => \A i \in DOMAIN h : h[i].value < instr.value

PassNames == {"Peephole", "ConstantFolding"}
PeepholeOnly == {<<"Peephole">>}
UpToTwoPasses == {<<x>> : x \in PassNames} \cup (PassNames \X PassNames)

=============================================================================
