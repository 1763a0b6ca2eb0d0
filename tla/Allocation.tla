----------------------------- MODULE Allocation -----------------------------
(***************************************************************************)
(* The input and the output of register allocation, shared by the promise  *)
(* (RegAlloc) and by the algorithm (LinearScan): the lifetime of every     *)
(* instruction, as LifeTime computes it (lib/analysis/lifetime.hpp), and   *)
(* the location the allocator gives it (lib/analysis/regalloc.hpp).        *)
(***************************************************************************)
EXTENDS Integers, FiniteSets

CONSTANTS
  Instr,      \* the instructions of a function
  Targets,    \* the numbers of registers of a target
  Lifetimes   \* the lifetimes an instruction may have: sets of ranges

ASSUME InstrAssumption == IsFiniteSet(Instr)
ASSUME TargetsAssumption == Targets \subseteq Nat

\* A lifetime is a non-empty set of ranges <<s, e>>, each standing for the
\* times s, ..., e - 1, one of which ends last.  A range may be empty: an
\* operand read by the first instruction of a block gets one there.
ASSUME LifetimesAssumption ==
  \A L \in Lifetimes :
    /\ L \subseteq Nat \X Nat
    /\ \E r \in L : \A q \in L : q[2] <= r[2]

VARIABLES
  lifetime,   \* instruction -> lifetime, the input: those that LifeTime holds
  regs_num,   \* number of registers of the target
  m_results   \* instruction with a lifetime -> location, the output

\* The instructions that have a lifetime: no others are given a location.
Values == DOMAIN lifetime

\* What the constructor is given.
Inputs ==
  /\ regs_num \in Targets
  /\ \E S \in SUBSET Instr : lifetime \in [S -> Lifetimes]

Regs == 0 .. (regs_num - 1)

Register(r) == [kind |-> "Register", index |-> r]
Spill(slot) == [kind |-> "Spill", index |-> slot]
Unallocated == [kind |-> "Unallocated", index |-> 0]
Location == [kind : {"Register", "Spill"}, index : Nat] \cup {Unallocated}

InRegister(i) == m_results[i].kind = "Register"
InMemory(i) == m_results[i].kind = "Spill"

Disjoint(r, q) == r[2] <= q[1] \/ q[2] <= r[1]

\* No time belongs to the lifetimes of both instructions.
Compatible(i, j) == \A r \in lifetime[i], q \in lifetime[j] : Disjoint(r, q)

(***************************************************************************)
(* Two instructions share a register only if their lifetimes are disjoint: *)
(* no write to the one destroys a value of the other that is still needed  *)
(* (get_register, lines 31-36, answers for the whole lifetime at once).    *)
(***************************************************************************)
NoClobber ==
  \A i, j \in Values :
    (/\ i # j
     /\ InRegister(i) /\ InRegister(j)
     /\ m_results[i].index = m_results[j].index) => Compatible(i, j)

(***************************************************************************)
(* No two instructions share a spill slot: slots are never recycled, so a  *)
(* value in memory lives until the function returns (get_spill_slot).      *)
(***************************************************************************)
DistinctSlots ==
  \A i, j \in Values :
    (i # j /\ InMemory(i) /\ InMemory(j)) => m_results[i].index # m_results[j].index
=============================================================================
