--------------------------------- MODULE Ir ---------------------------------
(***************************************************************************)
(* The instructions of a basic block and who uses them: lib/ir/instr.hpp,  *)
(* the list m_instrs of lib/ir/basic_block.hpp and the part of the         *)
(* Builder, lib/ir/builder.hpp, that makes constants, arguments, binary    *)
(* operations, returns and calls.                                          *)
(*                                                                         *)
(* Instructions are objects on the heap; a place in the heap is never used *)
(* again, so a pointer to an erased instruction stays recognisable.        *)
(***************************************************************************)
EXTENDS Instrs

CONSTANTS
  Width,         \* the bits of an i64
  BitOr(_, _),   \* | of two i64
  ConstValues,   \* the values of the constants a program is built from
  Admits(_, _)   \* bound: the instructions that may follow those of a heap

\* 2^n, and the values of Width bits.
PowerOf2[n \in 0 .. Width] == IF n = 0 THEN 1 ELSE 2 * PowerOf2[n - 1]
Word == 0 .. PowerOf2[Width] - 1

ASSUME WidthAssumption == Width \in Nat \ {0}
ASSUME BitOrAssumption ==
  \A x \in Word :
    /\ \A y \in Word : BitOr(x, y) \in Word
    /\ BitOr(x, x) = x /\ BitOr(x, 0) = x /\ BitOr(0, x) = x
ASSUME ValuesAssumption == ConstValues \subseteq Word

VARIABLES
  heap,      \* address -> instruction
  m_instrs,  \* the block: addresses in the order of execution
  erased     \* the addresses of the instructions that were destroyed

irVars == <<heap, m_instrs, erased>>

Binary == {"kAdd", "kMul", "kOr", "kShl"}
InstrType == Binary \cup {"kConst", "kArg", "kReturn", "kCall"}

Operands(i) == ToSet(heap[i].operands)
Lhs(i) == heap[i].operands[1]
Rhs(i) == heap[i].operands[2]
IsConst(i) == heap[i].type = "kConst"
IsConstOf(i, value) == IsConst(i) /\ heap[i].value = value

IrInit == heap = <<>> /\ m_instrs = <<>> /\ erased = {}

----------------------------------------------------------------------------
\* The loop in replace_instr_uses calls a method of an instruction that is no more.
TouchesErased(from) == ToSet(heap[from].users) \cap erased # {}

----------------------------------------------------------------------------
\* The Builder appends an instruction to the block.

Here == Len(heap) + 1

Emplace(instr, registeredFor) ==
  /\ Admits(heap, instr)
  /\ heap' = AddUser(Append(heap, instr), Here, registeredFor)
  /\ m_instrs' = Append(m_instrs, Here)
  /\ UNCHANGED erased

\* Bound: a return or a call is the last instruction.
Open == \A i \in DOMAIN heap : heap[i].type \notin {"kReturn", "kCall"}

CreateInt ==
  /\ Open
  /\ \E data \in ConstValues : Emplace(Instr("kConst", <<>>, data), <<>>)

CreateArg == Open /\ Emplace(Instr("kArg", <<>>, 0), <<>>)

CreateBinInstr ==
  /\ Open
  /\ \E type \in Binary, lhs, rhs \in DOMAIN heap :
       Emplace(Instr(type, <<lhs, rhs>>, 0), <<lhs, rhs>>)

CreateRet ==
  /\ Open
  /\ \E ret \in DOMAIN heap : Emplace(Instr("kReturn", <<ret>>, 0), <<ret>>)

\* A call is not registered as a user of its arguments.
CreateCall ==
  /\ Open
  /\ \E arg \in DOMAIN heap : Emplace(Instr("kCall", <<arg>>, 0), <<>>)

----------------------------------------------------------------------------
\* What instructions compute, modulo 2^Width.  A shift by the width or more is
\* undefined in C++.

Undefined == PowerOf2[Width]
Wrap(n) == n % PowerOf2[Width]

Compute(type, x, y) ==
  IF Undefined \in {x, y} THEN Undefined
  ELSE CASE type = "kAdd" -> Wrap(x + y)
         [] type = "kMul" -> Wrap(x * y)
         [] type = "kOr" -> BitOr(x, y)
         [] type = "kShl" -> IF y >= Width THEN Undefined ELSE Wrap(x * PowerOf2[y])

\* The value of each instruction when the arguments of the function are args.
Args == {i \in DOMAIN heap : heap[i].type = "kArg"}

Values(args) ==
  LET value[i \in DOMAIN heap] ==
        CASE heap[i].type = "kConst" -> heap[i].value
          [] heap[i].type = "kArg" -> args[i]
          [] heap[i].type \in Binary ->
               Compute(heap[i].type, value[Lhs(i)], value[Rhs(i)])
          [] OTHER -> value[Lhs(i)]
  IN  value

=============================================================================
