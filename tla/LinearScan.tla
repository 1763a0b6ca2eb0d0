----------------------------- MODULE LinearScan -----------------------------
(***************************************************************************)
(* The linear scan register allocator, lib/analysis/regalloc.hpp.  Its     *)
(* input is the lifetime of every instruction, as computed by LifeTime     *)
(* (lib/analysis/lifetime.hpp); its output is the location m_results.      *)
(*                                                                         *)
(* The constructor runs prepare_intervals and then allocate.  An action    *)
(* here is prepare_intervals, one predicate call of the std::erase_if in   *)
(* expire_old_intervals, or the rest of one iteration of the loop in       *)
(* allocate.  The interval of an instruction is Start(i), End(i);          *)
(* `intervals` and `active` hold instructions in the order of the vectors  *)
(* of that name.                                                           *)
(***************************************************************************)
EXTENDS Allocation, Vectors

VARIABLES
  intervals,    \* the instructions sorted by the start of their interval
  active,       \* instructions in registers, sorted by the end
  free_regs,    \* the set of free registers
  spill_count,  \* number of spill slots handed out
  next,         \* position in intervals of the current iteration
  scan,         \* position in active of the next erase_if predicate call
  pc            \* "prepare", "allocate", "done" or "undefined"

vars == <<lifetime, regs_num, m_results, intervals, active, free_regs,
          spill_count, next, scan, pc>>

\* What the algorithm promises.
Promise == INSTANCE RegAlloc

Least(S) == CHOOSE x \in S : \A y \in S : x <= y
Greatest(S) == CHOOSE x \in S : \A y \in S : y <= x

\* Where a set of ranges begins and ends; the interval of an instruction covers
\* all its ranges.
Earliest(L) == Least({r[1] : r \in L})
Latest_OfFirst(L) == Least({r[2] : r \in L})  \* mutant
Latest(L) == Greatest({r[2] : r \in L})

Start(i) == Earliest(lifetime[i])
End(i) == Latest(lifetime[i])

\* The instructions of the vector `active`.
ActiveSet == {active[k] : k \in 1 .. Len(active)}

----------------------------------------------------------------------------

Init ==
  /\ Inputs
  /\ m_results = [i \in Values |-> Unallocated]
  /\ intervals = <<>> /\ active = <<>>
  /\ free_regs = Regs
  /\ spill_count = 0
  /\ next = 1 /\ scan = 1
  /\ pc = "prepare"

\* The orders std::sort may produce: ties on the start are broken by the
\* address of the instruction, which may be any.
StartOrders ==
  {order \in [1 .. Cardinality(Values) -> Values] :
     \A j, k \in DOMAIN order :
       j < k => order[j] # order[k] /\ Start(order[j]) <= Start(order[k])}

PrepareIntervals ==
  /\ pc = "prepare"
  /\ intervals' \in StartOrders
  /\ pc' = "allocate"
  /\ UNCHANGED <<lifetime, regs_num, m_results, active, free_regs, spill_count, next, scan>>

InLoop == pc = "allocate" /\ next <= Len(intervals)
Current == intervals[next]

\* Whether i is over when j starts.
EndedBefore_Strict(i, j) == End(i) < Start(j)  \* mutant
EndedBefore(i, j) == End(i) <= Start(j)

Release_Forgotten(i) == UNCHANGED free_regs  \* mutant
Release(i) == free_regs' = free_regs \cup {m_results[i].index}

\* erase_if looks at the active interval at `scan`: it ended before the current
\* one starts, so it goes and its register is free again ...
ExpireOne ==
  /\ InLoop /\ scan <= Len(active)
  /\ EndedBefore(active[scan], Current)
  /\ Release(active[scan])
  /\ active' = Erase(active, scan)
  /\ UNCHANGED <<lifetime, regs_num, m_results, intervals, spill_count, next, scan, pc>>

\* ... or it stays.
KeepOne ==
  /\ InLoop /\ scan <= Len(active)
  /\ ~ EndedBefore(active[scan], Current)
  /\ scan' = scan + 1
  /\ UNCHANGED <<lifetime, regs_num, m_results, intervals, active, free_regs,
                 spill_count, next, pc>>

\* All active intervals that ended are gone.
Expired == InLoop /\ scan > Len(active)

NextIteration == next' = next + 1 /\ scan' = 1

\* Where lower_bound inserts i into the vector s: before the first interval
\* that does not end earlier.
LowerBound_AtBack(s, i) == Len(s) + 1  \* mutant
LowerBound(s, i) ==
  Least({k \in 1 .. Len(s) + 1 : k <= Len(s) => End(i) <= End(s[k])})

InsertByEnd(s, i) == Insert(s, LowerBound(s, i), i)

\* A register is free: the lowest one is taken.
TakeFreeRegister ==
  /\ Expired
  /\ Len(active) # regs_num
  /\ free_regs # {}
  /\ LET reg == Least(free_regs)
     IN  /\ free_regs' = free_regs \ {reg}
         /\ m_results' = [m_results EXCEPT ![Current] = Register(reg)]
  /\ active' = InsertByEnd(active, Current)
  /\ NextIteration
  /\ UNCHANGED <<lifetime, regs_num, intervals, spill_count, pc>>

Victim == Back(active)

\* No register is free and the interval at the back of active ends last: it
\* moves to a new spill slot and the current one takes its register.
SpillActive_StillInRegister ==  \* mutant
  /\ Expired
  /\ Len(active) = regs_num /\ active # <<>>
  /\ End(Victim) > End(Current)
  /\ m_results' = [m_results EXCEPT ![Current] = Register(m_results[Victim].index)]
  /\ active' = InsertByEnd(PopBack(active), Current)
  /\ spill_count' = spill_count + 1
  /\ NextIteration
  /\ UNCHANGED <<lifetime, regs_num, intervals, free_regs, pc>>

SpillActive_AlsoReleases ==  \* mutant
  /\ Expired
  /\ Len(active) = regs_num /\ active # <<>>
  /\ End(Victim) > End(Current)
  /\ Release(Victim)
  /\ m_results' = [m_results EXCEPT ![Current] = Register(m_results[Victim].index),
                                    ![Victim] = Spill(spill_count)]
  /\ active' = InsertByEnd(PopBack(active), Current)
  /\ spill_count' = spill_count + 1
  /\ NextIteration
  /\ UNCHANGED <<lifetime, regs_num, intervals, pc>>

SpillActive ==
  /\ Expired
  /\ Len(active) = regs_num /\ active # <<>>
  /\ End(Victim) > End(Current)
  /\ m_results' = [m_results EXCEPT ![Current] = Register(m_results[Victim].index),
                                    ![Victim] = Spill(spill_count)]
  /\ active' = InsertByEnd(PopBack(active), Current)
  /\ spill_count' = spill_count + 1
  /\ NextIteration
  /\ UNCHANGED <<lifetime, regs_num, intervals, free_regs, pc>>

\* No register is free and the current interval ends last: it is spilled.
SpillCurrent_SameSlot ==  \* mutant
  /\ Expired
  /\ Len(active) = regs_num /\ active # <<>>
  /\ End(Victim) <= End(Current)
  /\ m_results' = [m_results EXCEPT ![Current] = Spill(spill_count)]
  /\ NextIteration
  /\ UNCHANGED <<lifetime, regs_num, intervals, active, free_regs, spill_count, pc>>

SpillCurrent ==
  /\ Expired
  /\ Len(active) = regs_num /\ active # <<>>
  /\ End(Victim) <= End(Current)
  /\ m_results' = [m_results EXCEPT ![Current] = Spill(spill_count)]
  /\ spill_count' = spill_count + 1
  /\ NextIteration
  /\ UNCHANGED <<lifetime, regs_num, intervals, active, free_regs, pc>>

\* active.back() of an empty vector, or *begin() of an empty set: nothing is
\* known of the program after that.
Undefined ==
  /\ Expired
  /\ IF Len(active) = regs_num THEN active = <<>> ELSE free_regs = {}
  /\ pc' = "undefined"
  /\ UNCHANGED <<lifetime, regs_num, m_results, intervals, active, free_regs,
                 spill_count, next, scan>>

Finish ==
  /\ pc = "allocate" /\ next > Len(intervals)
  /\ pc' = "done"
  /\ UNCHANGED <<lifetime, regs_num, m_results, intervals, active, free_regs,
                 spill_count, next, scan>>

Next ==
  \/ PrepareIntervals
  \/ ExpireOne \/ KeepOne
  \/ TakeFreeRegister \/ SpillActive \/ SpillCurrent
  \/ Undefined
  \/ Finish

Spec == Init /\ [][Next]_vars

----------------------------------------------------------------------------
(***************************************************************************)
(* Properties.                                                             *)
(***************************************************************************)

\* Every variable has its type; the bounds on next and scan are those of the
\* vectors they index.
TypeOK ==
  /\ regs_num \in Targets
  /\ Values \subseteq Instr /\ lifetime \in [Values -> Lifetimes]
  /\ m_results \in [Values -> Location]
  /\ intervals \in Seq(Values)
  /\ active \in Seq(Values)
  /\ free_regs \subseteq Regs
  /\ spill_count \in Nat
  /\ next \in 1 .. Len(intervals) + 1
  /\ scan \in 1 .. Len(active) + 1
  /\ pc \in {"prepare", "allocate", "done", "undefined"}

\* Every register is either free or held by exactly one active interval
\* (free_regs and active are kept in step by lines 87-91, 101 and 109-115).
RegistersPartitioned ==
  /\ \A r \in Regs :
       r \in free_regs <=> ~ \E i \in ActiveSet : m_results[i] = Register(r)
  /\ \A j, k \in 1 .. Len(active) :
       j # k => m_results[active[j]] # m_results[active[k]]

\* With at least one register the allocator never takes the back of an empty
\* vector nor the first element of an empty set (lines 87 and 108).
NeverUndefined == regs_num > 0 => pc # "undefined"

\* The instruction that moves to memory is one whose interval ends last among
\* those in registers and the current one (the point of keeping active sorted,
\* lines 69-74, and of looking only at its back, line 108).
SpillsFurthestEnd ==
  [][\A i \in Values :
       InMemory(i)' /\ ~ InMemory(i) =>
         \A j \in ActiveSet' : End(j) <= End(i)]_vars

\* The others that hold a value at the time the interval of c starts.
LiveAtStart(c, S) == {j \in S \ {c} : Start(j) <= Start(c) /\ Start(c) < End(j)}

\* The intervals of S can share the registers.
Fits(S) == \A c \in S : Cardinality(LiveAtStart(c, S)) < regs_num

\* Spilling the furthest end is optimal: no choice of fewer instructions to
\* keep in memory would leave intervals that fit the registers.  Intervals that
\* are empty are left out: the comparison on line 109 spills for them.
SpillsMinimal ==
  (pc = "done" /\ regs_num > 0 /\ \A i \in Values : Start(i) < End(i)) =>
    \A S \in SUBSET Values :
      Fits(S) => Cardinality(S) <= Cardinality({i \in Values : InRegister(i)})

\* The algorithm keeps the promise of RegAlloc at every step.
ImplementsRegAlloc == Promise!Spec

----------------------------------------------------------------------------
(***************************************************************************)
(* Why the properties hold: the inductive invariant.                       *)
(***************************************************************************)

\* The instructions of the iterations that are over.
Handled == {intervals[k] : k \in 1 .. next - 1}

\* The vector intervals is sorted by start and names nothing twice.
StartsSorted ==
  \A j, k \in 1 .. Len(intervals) :
    j < k => /\ intervals[j] # intervals[k]
             /\ Start(intervals[j]) <= Start(intervals[k])

\* The vector active is sorted by end.
EndsSorted ==
  \A j, k \in 1 .. Len(active) : j < k => End(active[j]) <= End(active[k])

\* Exactly the handled instructions have a location; slots are below
\* spill_count and one iteration hands out at most one.
Placed ==
  /\ pc = "prepare" => intervals = <<>>
  /\ pc # "prepare" => Len(intervals) = Cardinality(Values)
  /\ \A i \in Values : m_results[i] # Unallocated <=> i \in Handled
  /\ \A i \in Values : InRegister(i) => m_results[i].index \in Regs
  /\ \A i \in ActiveSet : InRegister(i)
  /\ \A i \in Values : InMemory(i) => m_results[i].index < spill_count
  /\ spill_count < next

\* An instruction that holds a register but is no longer active ended before
\* the current one starts, hence before every later one.
Retired ==
  \A i \in Values \ ActiveSet :
    (InRegister(i) /\ next <= Len(intervals)) => End(i) <= Start(intervals[next])

\* Intervals in the same register follow each other.
RegistersFollow ==
  \A i, j \in Values :
    (/\ i # j
     /\ InRegister(i) /\ InRegister(j)
     /\ m_results[i].index = m_results[j].index) =>
       End(i) <= Start(j) \/ End(j) <= Start(i)

\* The invariant every step keeps: NoClobber and DistinctSlots alone say
\* nothing of the next instruction to be placed, nor of the free registers.
IInv ==
  /\ TypeOK
  /\ StartsSorted
  /\ EndsSorted
  /\ Placed
  /\ RegistersPartitioned
  /\ Retired
  /\ RegistersFollow
  /\ DistinctSlots
  /\ NeverUndefined
=============================================================================
