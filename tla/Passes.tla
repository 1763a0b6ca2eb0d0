------------------------------- MODULE Passes -------------------------------
(***************************************************************************)
(* The passes Peephole, lib/pass/peephole.hpp, and ConstantFolding,        *)
(* lib/pass/constant_folding.hpp, which PassManager::run applies to a      *)
(* function of one block that a Builder made.  A step of a pass is an      *)
(* iteration of its loop over the instructions of the block, ++instr_it    *)
(* included; the iterator is a position in m_instrs, and the position      *)
(* after the last one is end().                                            *)
(***************************************************************************)
EXTENDS Ir

CONSTANT PassLists   \* the passes to run, one list after the other in a list

ASSUME PassListsAssumption ==
  PassLists \subseteq Seq({"Peephole", "ConstantFolding"}) \ {<<>>}

VARIABLES
  passes,    \* the passes still to run; the head is the running one
  instr_it,  \* its iterator
  changed,   \* what it will return
  phase,     \* "build", "run", "done" or "crashed"
  built      \* history: m_instrs and the values returned, when the pass began

vars == <<heap, m_instrs, erased, passes, instr_it, changed, phase, built>>

\* What the function returns for all arguments it may get.
Returned ==
  [args \in [Args -> Word] |->
     LET value == Values(args)
     IN  {value[i] : i \in {i \in ToSet(m_instrs) : heap[i].type = "kReturn"}}]

Snapshot == [code |-> m_instrs, returned |-> Returned]

Init ==
  /\ IrInit
  /\ passes = <<>> /\ instr_it = 1 /\ changed = FALSE
  /\ phase = "build"
  /\ built = Snapshot

Build ==
  /\ phase = "build"
  /\ CreateInt \/ CreateArg \/ CreateBinInstr \/ CreateRet \/ CreateCall
  /\ UNCHANGED <<passes, instr_it, changed, phase, built>>

Apply(list) ==
  /\ passes' = list
  /\ instr_it' = 1 /\ changed' = FALSE
  /\ built' = Snapshot
  /\ UNCHANGED irVars

Run ==
  /\ phase = "build" /\ m_instrs # <<>>
  /\ \E list \in PassLists : Apply(list)
  /\ phase' = "run"

Running(pass) ==
  phase = "run" /\ passes # <<>> /\ Head(passes) = pass /\ instr_it <= Len(m_instrs)
This == m_instrs[instr_it]

\* The loop goes on behind the iterator `it`.  list::erase returns end() if it
\* erased the last instruction; ++ on that is undefined, and in libstdc++ and
\* libc++ it leads to the first instruction.
Advance_Stays(code, it) == instr_it' = it  \* mutant
Advance(code, it) == instr_it' = IF it > Len(code) THEN 1 ELSE it + 1

Report == changed' = TRUE

\* The instruction goes; its users now use `to`, which is in the block.
EraseFor(to) ==
  /\ heap' = ReplaceUses(heap, This, to)
  /\ m_instrs' = RemoveAt(m_instrs, instr_it)
  /\ erased' = erased \cup {This}
  /\ Report
  /\ Advance(RemoveAt(m_instrs, instr_it), instr_it)
  /\ UNCHANGED <<passes, phase, built>>

\* A new constant goes where the instruction was, and its users use that.
Inserted_Next == instr_it + 1  \* mutant
Inserted == instr_it

FoldTo(value) ==
  /\ heap' = ReplaceUses(Append(heap, Instr("kConst", <<>>, value)), This, Here)
  /\ m_instrs' = [m_instrs EXCEPT ![instr_it] = Here]
  /\ erased' = erased \cup {This}
  /\ Report
  /\ Advance(m_instrs, Inserted)
  /\ UNCHANGED <<passes, phase, built>>

Leave ==
  /\ Advance(m_instrs, instr_it)
  /\ UNCHANGED <<heap, m_instrs, erased, passes, changed, phase, built>>

\* replace_instr_uses calls a method of an instruction that was erased.
UseAfterFree ==
  /\ phase' = "crashed"
  /\ UNCHANGED <<heap, m_instrs, erased, passes, instr_it, changed, built>>

----------------------------------------------------------------------------
\* Peephole.

\* The operand that does what the instruction does, if there is one.  Of a
\* multiplication the lhs is looked at first.
MulOperand(i) ==
  IF IsConstOf(Lhs(i), 1) THEN {Rhs(i)}
  ELSE IF IsConstOf(Rhs(i), 1) /\ ~ IsConstOf(Lhs(i), 0) THEN {Lhs(i)}
  ELSE {}

OrOperand(i) ==
  IF Lhs(i) = Rhs(i) \/ IsConstOf(Lhs(i), 0) THEN {Rhs(i)}
  ELSE IF IsConstOf(Rhs(i), 0) THEN {Lhs(i)}
  ELSE {}

ShlOperand_Rhs(i) ==  \* mutant
  IF IsConstOf(Rhs(i), 0) \/ IsConstOf(Lhs(i), 0) THEN {Rhs(i)} ELSE {}

ShlOperand(i) ==
  IF IsConstOf(Rhs(i), 0) \/ IsConstOf(Lhs(i), 0) THEN {Lhs(i)} ELSE {}

Substitute(i) ==
  CASE heap[i].type = "kMul" -> MulOperand(i)
    [] heap[i].type = "kOr" -> OrOperand(i)
    [] heap[i].type = "kShl" -> ShlOperand(i)
    [] OTHER -> {}

IsZero(i) ==
  /\ heap[i].type = "kMul"
  /\ MulOperand(i) = {}
  /\ IsConstOf(Lhs(i), 0) \/ IsConstOf(Rhs(i), 0)

PeepholeErase ==
  /\ Running("Peephole") /\ ~ TouchesErased(This)
  /\ \E to \in Substitute(This) : EraseFor(to)

PeepholeZero ==
  /\ Running("Peephole") /\ ~ TouchesErased(This)
  /\ IsZero(This)
  /\ FoldTo(0)

PeepholeLeave ==
  /\ Running("Peephole")
  /\ Substitute(This) = {} /\ ~ IsZero(This)
  /\ Leave

PeepholeCrash ==
  /\ Running("Peephole") /\ TouchesErased(This)
  /\ Substitute(This) # {} \/ IsZero(This)
  /\ UseAfterFree

----------------------------------------------------------------------------
\* ConstantFolding.

Foldable(i) == heap[i].type \in Binary /\ IsConst(Lhs(i)) /\ IsConst(Rhs(i))

\* The values the fold may have: that of an undefined shift is any.
Folded(i) ==
  LET value == Compute(heap[i].type, heap[Lhs(i)].value, heap[Rhs(i)].value)
  IN  IF value = Undefined THEN Word ELSE {value}

Fold ==
  /\ Running("ConstantFolding") /\ ~ TouchesErased(This)
  /\ Foldable(This)
  /\ \E value \in Folded(This) : FoldTo(value)

FoldLeave ==
  /\ Running("ConstantFolding")
  /\ ~ Foldable(This)
  /\ Leave

FoldCrash ==
  /\ Running("ConstantFolding") /\ TouchesErased(This)
  /\ Foldable(This)
  /\ UseAfterFree

----------------------------------------------------------------------------

EndOfPass == phase = "run" /\ instr_it = Len(m_instrs) + 1

NextPass ==
  /\ EndOfPass /\ Len(passes) > 1
  /\ Apply(Tail(passes))
  /\ UNCHANGED phase

Finish ==
  /\ EndOfPass /\ Len(passes) = 1
  /\ phase' = "done"
  /\ UNCHANGED <<heap, m_instrs, erased, passes, instr_it, changed, built>>

Next ==
  \/ Build \/ Run
  \/ PeepholeErase \/ PeepholeZero \/ PeepholeLeave \/ PeepholeCrash
  \/ Fold \/ FoldLeave \/ FoldCrash
  \/ NextPass \/ Finish

Spec == Init /\ [][Next]_vars

\* The program is sequential: it runs on while it has a step to take.
FairSpec == Spec /\ WF_vars(Next)

----------------------------------------------------------------------------
\* Properties.

InBlock == ToSet(m_instrs)

\* The passes keep what the function returns, at every step and for all
\* arguments for which it was defined.
MeaningPreserved ==
  phase # "build" =>
    LET now == Returned
    IN  \A args \in DOMAIN now :
          Undefined \in built.returned[args] \/ built.returned[args] = now[args]

\* An instruction that is registered as a user never keeps an operand that was
\* erased, and its operands are computed before it.
OperandsInOrder ==
  \A k \in DOMAIN m_instrs :
    heap[m_instrs[k]].type # "kCall" =>
      Operands(m_instrs[k]) \subseteq {m_instrs[j] : j \in 1 .. k - 1}

\* The users a pass relies on are complete: what is in the block is listed by
\* each of its operands, calls excepted.
UsersComplete ==
  \A i \in InBlock : heap[i].type # "kCall" =>
    \A op \in Operands(i) : i \in ToSet(heap[op].users)

\* One run of ConstantFolding folds all there is to fold, what its own results
\* make foldable included.
FoldingComplete ==
  EndOfPass /\ Head(passes) = "ConstantFolding" => ~ \E i \in InBlock : Foldable(i)

\* i64 shl <instr>, 0 is replaced by <instr>.
ShlByZeroReplaced ==
  EndOfPass /\ Head(passes) = "Peephole" =>
    ~ \E i \in InBlock : heap[i].type = "kShl" /\ IsConstOf(Rhs(i), 0)

\* The users of this instruction that were destroyed are not in the block that the
\* running pass began with: an earlier pass destroyed them.
DestroyedEarlier ==
  \A u \in ToSet(heap[This].users) \cap erased : u \notin ToSet(built.code)

\* The running pass erased the last instruction and so went back to the first.
WentAround == Last(built.code) \in erased

\* The passes return.  replace_operand is called on a destroyed instruction only if
\* an earlier pass destroyed it, as a pass comes to the users of an instruction
\* later than to itself, unless it goes around.
Termination ==
  <>(phase = "done" \/ (phase = "crashed" /\ (DestroyedEarlier \/ WentAround)))

----------------------------------------------------------------------------
\* Why the properties hold: the inductive invariant.

Arity(type) ==
  IF type \in Binary THEN 2 ELSE IF type \in {"kReturn", "kCall"} THEN 1 ELSE 0

\* The state has its shape.  An instruction is in the block once, unless it was
\* erased.
TypeOK ==
  /\ heap \in Seq([type : InstrType, operands : UNION {[1 .. n -> DOMAIN heap] : n \in 0 .. 2},
                   value : Word, users : Seq(DOMAIN heap)])
  /\ \A i \in DOMAIN heap : DOMAIN heap[i].operands = 1 .. Arity(heap[i].type)
  /\ erased \subseteq DOMAIN heap
  /\ m_instrs \in Seq(DOMAIN heap \ erased)
  /\ \A j, k \in 1 .. Len(m_instrs) : m_instrs[j] = m_instrs[k] => j = k
  /\ passes \in Seq({"Peephole", "ConstantFolding"})
  /\ instr_it \in 1 .. Len(m_instrs) + 1
  /\ changed \in BOOLEAN
  /\ phase \in {"build", "run", "done", "crashed"}
  /\ phase = "build" => InBlock = DOMAIN heap
  /\ phase # "build" => passes # <<>> /\ DOMAIN built.returned = [Args -> Word]

\* The values of the instructions are defined one by one: of what was not put in by
\* a pass, an operand was made before.
OperandsOlder ==
  \A i \in DOMAIN heap : \A op \in Operands(i) : IsConst(op) \/ op < i

\* ConstantFolding leaves nothing behind it.
FoldedSoFar ==
  phase = "run" /\ Head(passes) = "ConstantFolding" =>
    \A k \in 1 .. Len(m_instrs) : k < instr_it => ~ Foldable(m_instrs[k])

IInv ==
  /\ TypeOK /\ OperandsOlder /\ OperandsInOrder /\ UsersComplete
  /\ FoldedSoFar /\ MeaningPreserved

=============================================================================
