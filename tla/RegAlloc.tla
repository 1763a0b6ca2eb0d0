------------------------------ MODULE RegAlloc ------------------------------
(***************************************************************************)
(* What a register allocation promises, whatever algorithm computes it:    *)
(* an instruction is put into a register that no instruction with an       *)
(* overlapping lifetime is in, or into a spill slot of its own; it keeps   *)
(* its register until the end or until it moves to memory for good.        *)
(***************************************************************************)
EXTENDS Allocation

Init ==
  /\ Inputs
  /\ m_results = [i \in Values |-> Unallocated]

\* Register r suits i if every other instruction in it, those of `leaving`
\* apart, has a lifetime that does not meet that of i.
Suits(r, i, leaving) ==
  \A j \in Values \ (leaving \cup {i}) : m_results[j] = Register(r) => Compatible(i, j)

FreshSlot(slot) == \A j \in Values : m_results[j] # Spill(slot)

\* i is given a register.
Place(i, r) ==
  /\ m_results[i] = Unallocated
  /\ Suits(r, i, {})
  /\ m_results' = [m_results EXCEPT ![i] = Register(r)]

\* i is given a spill slot.
PlaceInMemory(i, slot) ==
  /\ m_results[i] = Unallocated
  /\ FreshSlot(slot)
  /\ m_results' = [m_results EXCEPT ![i] = Spill(slot)]

\* j moves to a spill slot and i takes over its register.
Replace(i, j, slot) ==
  /\ m_results[i] = Unallocated
  /\ InRegister(j)
  /\ FreshSlot(slot)
  /\ Suits(m_results[j].index, i, {j})
  /\ m_results' = [m_results EXCEPT ![i] = m_results[j], ![j] = Spill(slot)]

\* There are never more slots in use than instructions.
Slots == 0 .. (Cardinality(Values) - 1)

Next ==
  /\ \E i \in Values :
       \/ \E r \in Regs : Place(i, r)
       \/ \E slot \in Slots : PlaceInMemory(i, slot)
       \/ \E j \in Values, slot \in Slots : Replace(i, j, slot)
  /\ UNCHANGED <<lifetime, regs_num>>

vars == <<lifetime, regs_num, m_results>>

Spec == Init /\ [][Next]_vars
=============================================================================
