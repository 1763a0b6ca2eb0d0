-------------------------- MODULE LinearScanProofs --------------------------
(***************************************************************************)
(* Proofs about the linear scan register allocator, for any number of      *)
(* instructions and registers and any lifetimes.                           *)
(***************************************************************************)
EXTENDS LinearScan, VectorsProofs, FiniteSetTheorems

(***************************************************************************)
(* Intervals.                                                              *)
(***************************************************************************)

\* Least picks an element of a non-empty set of numbers that none is below.
LEMMA LeastIsLeast ==
  ASSUME NEW T, T \subseteq Nat, T # {}
  PROVE  Least(T) \in T /\ \A k \in T : Least(T) <= k
BY NatHasLeast DEF Least

\* The interval of a lifetime covers all its ranges.
LEMMA IntervalCovers ==
  ASSUME NEW L \in Lifetimes
  PROVE  /\ Earliest(L) \in Nat /\ Latest(L) \in Nat
         /\ \A r \in L : /\ r[1] \in Nat /\ r[2] \in Nat
                        /\ Earliest(L) <= r[1] /\ r[2] <= Latest(L)
<1>2. /\ \A r \in L : r[1] \in Nat /\ r[2] \in Nat
      /\ \E r \in L : \A q \in L : q[2] <= r[2]
  BY LifetimesAssumption
<1> DEFINE Starts == {r[1] : r \in L}  Ends == {r[2] : r \in L}
<1>3. Starts \subseteq Nat /\ Starts # {} /\ Ends \subseteq Nat
  BY <1>2
<1>4. Least(Starts) \in Starts /\ \A k \in Starts : Least(Starts) <= k
  BY <1>3, LeastIsLeast
<1>5. \E x \in Ends : \A y \in Ends : y <= x
  BY <1>2
<1>6. Greatest(Ends) \in Ends /\ \A y \in Ends : y <= Greatest(Ends)
  BY <1>5 DEF Greatest
<1>7. Earliest(L) = Least(Starts) /\ Latest(L) = Greatest(Ends)
  BY DEF Earliest, Latest
<1> HIDE DEF Starts, Ends
<1>8. Earliest(L) \in Nat /\ Latest(L) \in Nat
  BY <1>3, <1>4, <1>6, <1>7
<1>9. \A r \in L : r[1] \in Starts /\ r[2] \in Ends
  BY DEF Starts, Ends
<1> QED BY <1>2, <1>4, <1>6, <1>7, <1>8, <1>9

\* Intervals that follow each other belong to compatible lifetimes.
LEMMA FollowingIsCompatible ==
  ASSUME NEW L \in Lifetimes, NEW M \in Lifetimes,
         Latest(L) <= Earliest(M) \/ Latest(M) <= Earliest(L)
  PROVE  \A r \in L, q \in M : Disjoint(r, q)
<1> SUFFICES ASSUME NEW r \in L, NEW q \in M
             PROVE  r[2] <= q[1] \/ q[2] <= r[1]
  BY DEF Disjoint
<1>1. /\ Earliest(L) \in Nat /\ Latest(L) \in Nat /\ r[1] \in Nat /\ r[2] \in Nat
      /\ Earliest(L) <= r[1] /\ r[2] <= Latest(L)
  BY IntervalCovers
<1>2. /\ Earliest(M) \in Nat /\ Latest(M) \in Nat /\ q[1] \in Nat /\ q[2] \in Nat
      /\ Earliest(M) <= q[1] /\ q[2] <= Latest(M)
  BY IntervalCovers
<1> QED BY <1>1, <1>2

\* There are finitely many values.
LEMMA ValuesFinite ==
  ASSUME Values \subseteq Instr
  PROVE  IsFiniteSet(Values) /\ Cardinality(Values) \in Nat
BY InstrAssumption, FS_Subset, FS_CardinalityType

\* The input stays what it is.
LEMMA InputStays ==
  ASSUME UNCHANGED <<lifetime, regs_num>>
  PROVE  Values' = Values /\ Regs' = Regs
BY DEF Values, Regs

\* The first conjunct of the invariant that matters outside.
THEOREM InvariantNoClobber == IInv => NoClobber
<1> SUFFICES ASSUME IInv, NEW i \in Values, NEW j \in Values, i # j,
                    InRegister(i), InRegister(j),
                    m_results[i].index = m_results[j].index
             PROVE  Compatible(i, j)
  BY DEF NoClobber
<1>1. lifetime[i] \in Lifetimes /\ lifetime[j] \in Lifetimes
  BY DEF IInv, TypeOK
<1>2. \/ Latest(lifetime[i]) <= Earliest(lifetime[j])
      \/ Latest(lifetime[j]) <= Earliest(lifetime[i])
  BY DEF IInv, RegistersFollow, Start, End
<1> QED BY <1>1, <1>2, FollowingIsCompatible DEF Compatible

(***************************************************************************)
(* The initial state and the steps that move nothing.                      *)
(***************************************************************************)

\* The invariant holds when the constructor starts.
LEMMA InitIInv == Init => IInv
<1> SUFFICES ASSUME Init PROVE IInv
  OBVIOUS
<1>0. Values \subseteq Instr /\ lifetime \in [Values -> Lifetimes]
  BY DEF Init, Inputs, Values
<1>1. TypeOK
  BY <1>0 DEF Init, Inputs, TypeOK, Location, Unallocated, Regs
<1>2. ActiveSet = {} /\ Handled = {}
  BY DEF Init, ActiveSet, Handled
<1>3. \A i \in Values : m_results[i] = Unallocated
  BY DEF Init
<1>4. \A i \in Values : ~ InRegister(i) /\ ~ InMemory(i)
  BY <1>3 DEF InRegister, InMemory, Unallocated
<1>5. StartsSorted /\ EndsSorted
  BY DEF Init, StartsSorted, EndsSorted
<1>6. Placed
  BY <1>2, <1>3, <1>4 DEF Init, Placed
<1>7. RegistersPartitioned
  BY <1>2 DEF Init, RegistersPartitioned
<1>8. Retired /\ RegistersFollow /\ DistinctSlots /\ NeverUndefined
  BY <1>4 DEF Init, Retired, RegistersFollow, DistinctSlots, NeverUndefined
<1> QED BY <1>1, <1>5, <1>6, <1>7, <1>8 DEF IInv

\* prepare_intervals yields a sorted vector of all instructions.
LEMMA PrepareKeepsIInv == IInv /\ PrepareIntervals => IInv'
<1> SUFFICES ASSUME IInv, PrepareIntervals PROVE IInv'
  OBVIOUS
<1> USE DEF PrepareIntervals
<1> Values' = Values /\ Regs' = Regs
  BY InputStays
<1>1. PICK order \in [1 .. Cardinality(Values) -> Values] :
        /\ intervals' = order
        /\ \A j, k \in DOMAIN order :
             j < k => /\ order[j] # order[k]
                      /\ Earliest(lifetime[order[j]]) <= Earliest(lifetime[order[k]])
  BY DEF StartOrders, Start
<1>2. Cardinality(Values) \in Nat
  BY ValuesFinite DEF IInv, TypeOK
<1>3. intervals' \in Seq(Values) /\ Len(intervals') = Cardinality(Values)
  BY <1>1, <1>2
<1>4. intervals = <<>> /\ next = 1 /\ Handled = {} /\ Handled' = {}
  BY DEF IInv, TypeOK, Placed, Handled
<1>5. TypeOK'
  BY <1>3, <1>4 DEF IInv, TypeOK
<1>6. StartsSorted'
  BY <1>1, <1>2, <1>3 DEF StartsSorted, Start
<1>7. EndsSorted' /\ RegistersPartitioned' /\ RegistersFollow' /\ DistinctSlots'
      /\ NeverUndefined'
  BY DEF IInv, EndsSorted, RegistersPartitioned, RegistersFollow, DistinctSlots,
         NeverUndefined, ActiveSet, InRegister, InMemory, Start, End
<1>8. \A i \in Values : m_results[i] = Unallocated
  BY <1>4 DEF IInv, Placed
<1>9. Placed'
  BY <1>3, <1>4 DEF IInv, Placed, InRegister, InMemory, ActiveSet
<1>10. Retired'
  BY <1>8 DEF Retired, InRegister, Unallocated
<1> QED BY <1>5, <1>6, <1>7, <1>9, <1>10 DEF IInv

\* erase_if keeps an interval; the loop ends; a step that changes nothing.
LEMMA ControlKeepsIInv ==
  ASSUME IInv, KeepOne \/ Finish \/ UNCHANGED vars PROVE IInv'
<1>1. /\ UNCHANGED <<lifetime, regs_num, m_results, intervals, active, free_regs,
                     spill_count, next>>
      /\ pc' = pc \/ (pc = "allocate" /\ pc' = "done")
  BY DEF KeepOne, Finish, vars
<1> Values' = Values /\ Regs' = Regs
  BY <1>1, InputStays
<1>2. TypeOK'
  BY <1>1 DEF IInv, TypeOK, KeepOne, Finish, vars
<1>3. StartsSorted' /\ EndsSorted' /\ RegistersPartitioned' /\ Retired'
      /\ RegistersFollow' /\ DistinctSlots' /\ NeverUndefined'
  BY <1>1 DEF IInv, StartsSorted, EndsSorted, RegistersPartitioned, Retired,
     RegistersFollow, DistinctSlots, NeverUndefined, ActiveSet, InRegister,
     InMemory, Start, End
<1>4. Placed'
  BY <1>1 DEF IInv, Placed, Handled, ActiveSet, InRegister, InMemory
<1> QED BY <1>2, <1>3, <1>4 DEF IInv

\* No more intervals are active than there are registers, and if none is free
\* exactly as many.
LEMMA ActiveFitsRegisters ==
  ASSUME IInv
  PROVE  /\ Len(active) <= regs_num
         /\ free_regs = {} => Len(active) = regs_num
<1> DEFINE f == [k \in 1 .. Len(active) |-> m_results[active[k]].index]
<1>1. /\ Len(active) \in Nat /\ regs_num \in Nat
      /\ \A k \in 1 .. Len(active) : active[k] \in Values /\ active[k] \in ActiveSet
  BY TargetsAssumption DEF IInv, TypeOK, ActiveSet
<1>2. f \in [1 .. Len(active) -> Regs]
  BY <1>1 DEF IInv, Placed
<1>3. /\ IsFiniteSet(1 .. Len(active)) /\ Cardinality(1 .. Len(active)) = Len(active)
      /\ IsFiniteSet(Regs) /\ Cardinality(Regs) = regs_num
  <2>1. /\ Cardinality(1 .. Len(active)) = IF 1 > Len(active) THEN 0
                                            ELSE (Len(active) - 1) + 1
        /\ IsFiniteSet(1 .. Len(active))
    BY <1>1, FS_Interval, SMTT(30)
  <2>2. /\ Cardinality(0 .. regs_num - 1) = IF 0 > regs_num - 1 THEN 0
                                           ELSE ((regs_num - 1) - 0) + 1
        /\ IsFiniteSet(0 .. regs_num - 1)
    <3>1. 0 \in Int /\ regs_num - 1 \in Int
      BY <1>1
    <3> QED BY <3>1, FS_Interval
  <2> QED BY <1>1, <2>1, <2>2 DEF Regs
<1>4. Len(active) <= regs_num
  <2>1. \A j, k \in 1 .. Len(active) : j # k => f[j] # f[k]
    <3> SUFFICES ASSUME NEW j \in 1 .. Len(active), NEW k \in 1 .. Len(active), j # k
                 PROVE  m_results[active[j]].index # m_results[active[k]].index
      OBVIOUS
    <3>1. InRegister(active[j]) /\ InRegister(active[k])
      BY <1>1 DEF IInv, Placed
    <3>2. m_results[active[j]] \in Location /\ m_results[active[k]] \in Location
      BY <1>1 DEF IInv, TypeOK
    <3>3. m_results[active[j]] # m_results[active[k]]
      BY DEF IInv, RegistersPartitioned
    <3> QED BY <3>1, <3>2, <3>3 DEF InRegister, Location, Unallocated
  <2>2. f \in Injection(1 .. Len(active), Regs)
    BY <1>2, <2>1 DEF Injection, IsInjective
  <2> HIDE DEF f
  <2> QED BY <1>3, <2>2, FS_Injection
<1>5. ASSUME free_regs = {} PROVE regs_num <= Len(active)
  <2>1. \A r \in Regs : \E k \in 1 .. Len(active) : f[k] = r
    <3> TAKE r \in Regs
    <3>1. PICK i \in ActiveSet : m_results[i] = Register(r)
      BY <1>5 DEF IInv, RegistersPartitioned
    <3>2. PICK k \in 1 .. Len(active) : active[k] = i
      BY DEF ActiveSet
    <3> QED BY <3>1, <3>2 DEF Register
  <2>2. f \in Surjection(1 .. Len(active), Regs)
    BY <1>2, <2>1 DEF Surjection
  <2>3. ExistsSurjection(1 .. Len(active), Regs)
    BY <2>2 DEF ExistsSurjection
  <2> QED BY <1>1, <1>3, <2>3, FS_SurjCardinalityBound
<1> QED BY <1>1, <1>4, <1>5

\* Undefined behaviour is met only without registers.
LEMMA UndefinedKeepsIInv == IInv /\ Undefined => IInv'
<1> SUFFICES ASSUME IInv, Undefined PROVE IInv'
  OBVIOUS
<1>1. /\ UNCHANGED <<lifetime, regs_num, m_results, intervals, active, free_regs,
                     spill_count, next, scan>>
      /\ pc' = "undefined" /\ pc = "allocate" /\ next <= Len(intervals)
  BY DEF Undefined, Expired, InLoop
<1> Values' = Values /\ Regs' = Regs
  BY <1>1, InputStays
<1>2. regs_num = 0
  BY <1>1, ActiveFitsRegisters, TargetsAssumption DEF Undefined
<1>3. TypeOK' /\ NeverUndefined'
  BY <1>1, <1>2 DEF IInv, TypeOK, NeverUndefined
<1>4. StartsSorted' /\ EndsSorted' /\ RegistersPartitioned' /\ Retired'
      /\ RegistersFollow' /\ DistinctSlots'
  BY <1>1 DEF IInv, StartsSorted, EndsSorted, RegistersPartitioned, Retired,
     RegistersFollow, DistinctSlots, ActiveSet, InRegister, InMemory, Start, End
<1>5. Placed'
  BY <1>1 DEF IInv, Placed, Handled, ActiveSet, InRegister, InMemory
<1> QED BY <1>3, <1>4, <1>5 DEF IInv

(***************************************************************************)
(* The steps of an iteration.                                              *)
(***************************************************************************)

\* The current instruction is new, and handling it adds just it to Handled.
LEMMA CurrentIsNew ==
  ASSUME IInv, InLoop
  PROVE  /\ next \in 1 .. Len(intervals)
         /\ Current \in Values /\ Current \notin Handled
         /\ m_results[Current] = Unallocated
         /\ Current \notin ActiveSet
         /\ (UNCHANGED intervals /\ next' = next + 1) =>
              Handled' = Handled \cup {Current}
<1>1. next \in 1 .. Len(intervals) /\ Current \in Values
  BY DEF IInv, TypeOK, InLoop, Current
<1>2. Current \notin Handled
  BY <1>1 DEF IInv, StartsSorted, Handled, Current
<1>3. m_results[Current] = Unallocated
  BY <1>1, <1>2 DEF IInv, Placed
<1>4. Current \notin ActiveSet
  BY <1>3 DEF IInv, Placed, InRegister, Unallocated
<1>5. (UNCHANGED intervals /\ next' = next + 1) => Handled' = Handled \cup {Current}
  <2> SUFFICES ASSUME UNCHANGED intervals, next' = next + 1
               PROVE  Handled' = Handled \cup {Current}
    OBVIOUS
  <2>1. 1 .. (next + 1) - 1 = (1 .. next - 1) \cup {next}
    BY <1>1
  <2> QED BY <2>1 DEF Handled, Current
<1> QED BY <1>1, <1>2, <1>3, <1>4, <1>5

\* The interval that erase_if removes gives its register back, to free_regs alone.
LEMMA ExpireKeepsIInv == IInv /\ ExpireOne => IInv'
<1> SUFFICES ASSUME IInv, ExpireOne PROVE IInv'
  OBVIOUS
<1> DEFINE gone == active[scan]
<1>0. /\ UNCHANGED <<lifetime, regs_num, m_results, intervals, spill_count, next, scan, pc>>
      /\ active' = Erase(active, scan)
      /\ free_regs' = free_regs \cup {m_results[gone].index}
      /\ InLoop /\ Latest(lifetime[gone]) <= Earliest(lifetime[intervals[next]])
  BY DEF ExpireOne, Release, EndedBefore, Start, End, Current
<1> Values' = Values /\ Regs' = Regs
  BY <1>0, InputStays
<1>1. scan \in 1 .. Len(active) /\ Len(active) \in Nat /\ active \in Seq(Values)
  BY DEF IInv, TypeOK, ExpireOne
<1>2. /\ active' \in Seq(Values) /\ Len(active') = Len(active) - 1
      /\ \A j \in 1 .. scan - 1 : active'[j] = active[j]
      /\ \A j \in scan .. Len(active) - 1 : active'[j] = active[j + 1]
  BY <1>0, <1>1, EraseProperties
\* Where the elements of the new vector were in the old one.
<1> DEFINE was(j) == IF j < scan THEN j ELSE j + 1
<1>3. \A j \in 1 .. Len(active') :
        was(j) \in 1 .. Len(active) /\ was(j) # scan /\ active'[j] = active[was(j)]
  BY <1>1, <1>2
<1>4. \A j, k \in 1 .. Len(active') : j < k => was(j) < was(k)
  BY <1>1, <1>2
<1>5. gone \in Values /\ gone \in ActiveSet
  BY <1>1 DEF ActiveSet
<1>6. \A j, k \in 1 .. Len(active) : j # k => active[j] # active[k]
  BY DEF IInv, RegistersPartitioned
<1>7. ActiveSet' = ActiveSet \ {gone}
  <2>1. ActiveSet' \subseteq ActiveSet \ {gone}
    BY <1>1, <1>3, <1>6 DEF ActiveSet
  <2>2. ASSUME NEW k \in 1 .. Len(active), active[k] # gone
        PROVE  active[k] \in ActiveSet'
    <3>1. CASE k < scan
      <4>1. k \in 1 .. Len(active') /\ active'[k] = active[k]
        BY <1>1, <1>2, <3>1
      <4> QED BY <4>1 DEF ActiveSet
    <3>2. CASE k > scan
      <4>1. k - 1 \in 1 .. Len(active') /\ active'[k - 1] = active[(k - 1) + 1]
            /\ (k - 1) + 1 = k
        BY <1>1, <1>2, <3>2
      <4> QED BY <4>1 DEF ActiveSet
    <3> QED BY <1>1, <2>2, <3>1, <3>2
  <2> QED BY <2>1, <2>2 DEF ActiveSet
<1> HIDE DEF was
<1>8. InRegister(gone) /\ m_results[gone].index \in Regs /\ m_results[gone] \in Location
  BY <1>5 DEF IInv, Placed, TypeOK
<1>9. TypeOK'
  BY <1>0, <1>1, <1>2, <1>8 DEF IInv, TypeOK
<1>10. StartsSorted' /\ RegistersFollow' /\ DistinctSlots' /\ NeverUndefined'
  BY <1>0 DEF IInv, StartsSorted, RegistersFollow, DistinctSlots, NeverUndefined,
     InRegister, InMemory, Start, End
<1>11. EndsSorted'
  BY <1>0, <1>3, <1>4 DEF IInv, EndsSorted, End
<1>12. Placed'
  BY <1>0, <1>7 DEF IInv, Placed, Handled, InRegister, InMemory
<1>13. RegistersPartitioned'
  <2>1. \A r \in Regs :
          r \in free_regs' <=> ~ \E i \in ActiveSet' : m_results[i] = Register(r)
    <3> TAKE r \in Regs
    <3>1. m_results[gone] = Register(m_results[gone].index)
      BY <1>8 DEF Location, InRegister, Register, Unallocated
    <3>2. \A i \in ActiveSet \ {gone} : m_results[i] # m_results[gone]
      BY <1>1 DEF IInv, RegistersPartitioned, ActiveSet
    <3>3. CASE r = m_results[gone].index
      BY <1>0, <1>7, <3>1, <3>2, <3>3
    <3>4. CASE r # m_results[gone].index
      BY <1>0, <1>7, <3>1, <3>4 DEF IInv, RegistersPartitioned, Register
    <3> QED BY <3>3, <3>4
  <2>2. \A j, k \in 1 .. Len(active') :
          j # k => m_results[active'[j]] # m_results[active'[k]]
    <3> SUFFICES ASSUME NEW j \in 1 .. Len(active'), NEW k \in 1 .. Len(active'),
                        j < k
                 PROVE  m_results[active'[j]] # m_results[active'[k]]
      BY <1>1, <1>2
    <3>1. was(j) \in 1 .. Len(active) /\ was(k) \in 1 .. Len(active) /\ was(j) # was(k)
      BY <1>1, <1>3, <1>4
    <3> QED BY <1>3, <3>1, SMTT(30) DEF IInv, RegistersPartitioned
  <2> QED BY <1>0, <2>1, <2>2 DEF RegistersPartitioned
<1>14. Retired'
  BY <1>0, <1>7 DEF IInv, Retired, InRegister, Start, End
<1> QED BY <1>9, <1>10, <1>11, <1>12, <1>13, <1>14 DEF IInv

\* Spilling the current instruction takes a new slot and no register.
LEMMA SpillCurrentKeepsIInv == IInv /\ SpillCurrent => IInv'
<1> SUFFICES ASSUME IInv, SpillCurrent PROVE IInv'
  OBVIOUS
<1> DEFINE cur == Current
<1>0. /\ UNCHANGED <<lifetime, regs_num, intervals, active, free_regs, pc>>
      /\ m_results' = [m_results EXCEPT ![cur] = Spill(spill_count)]
      /\ spill_count' = spill_count + 1
      /\ next' = next + 1 /\ scan' = 1
      /\ InLoop
  BY DEF SpillCurrent, NextIteration, Expired
<1> Values' = Values /\ Regs' = Regs
  BY <1>0, InputStays
<1>1. /\ next \in 1 .. Len(intervals) /\ cur \in Values /\ m_results[cur] = Unallocated
      /\ cur \notin ActiveSet /\ Handled' = Handled \cup {cur}
  BY <1>0, CurrentIsNew
<1>2. /\ m_results' \in [Values -> Location] /\ m_results'[cur] = Spill(spill_count)
      /\ \A i \in Values \ {cur} : m_results'[i] = m_results[i]
      /\ spill_count \in Nat /\ Spill(spill_count) # Unallocated
      /\ ActiveSet' = ActiveSet
  BY <1>0, <1>1 DEF IInv, TypeOK, Location, Spill, Unallocated, ActiveSet
<1> HIDE DEF cur
<1>3. TypeOK'
  BY <1>0, <1>1, <1>2 DEF IInv, TypeOK
<1>4. StartsSorted' /\ EndsSorted' /\ NeverUndefined'
  BY <1>0 DEF IInv, StartsSorted, EndsSorted, NeverUndefined, Start, End
<1>5. /\ \A i \in Values : InRegister(i)' <=> (i # cur /\ InRegister(i))
      /\ \A i \in Values : InMemory(i)' <=> (i = cur \/ InMemory(i))
  BY <1>1, <1>2 DEF InRegister, InMemory, Spill, Unallocated
<1>6. Placed'
  <2>1. \A i \in Values : m_results'[i] # Unallocated <=> i \in Handled'
    BY <1>1, <1>2 DEF IInv, Placed
  <2>2. \A i \in Values : InRegister(i)' => m_results'[i].index \in Regs
    BY <1>2, <1>5 DEF IInv, Placed
  <2>3. \A i \in ActiveSet' : InRegister(i)'
    <3>1. ActiveSet \subseteq Values
      BY DEF IInv, TypeOK, ActiveSet
    <3> QED BY <1>1, <1>2, <1>5, <3>1 DEF IInv, Placed
  <2>4. \A i \in Values : InMemory(i)' => m_results'[i].index < spill_count'
    <3> SUFFICES ASSUME NEW i \in Values, InMemory(i)'
                 PROVE  m_results'[i].index < spill_count'
      OBVIOUS
    <3>1. CASE i = cur
      BY <1>0, <1>2, <3>1 DEF Spill
    <3>2. CASE i # cur
      <4>1. m_results[i].index < spill_count /\ m_results[i] \in Location
        BY <1>5, <3>2 DEF IInv, Placed, TypeOK
      <4> QED BY <1>0, <1>2, <3>2, <4>1 DEF Location, Unallocated
    <3> QED BY <3>1, <3>2
  <2>5. spill_count' < next'
    BY <1>0, <1>1, <1>2 DEF IInv, Placed
  <2> QED BY <1>0, <2>1, <2>2, <2>3, <2>4, <2>5 DEF IInv, Placed, InLoop
<1>7. RegistersPartitioned'
  <2>1. ActiveSet \subseteq Values \ {cur} /\ \A k \in 1 .. Len(active) : active[k] \in ActiveSet
    BY <1>1 DEF IInv, TypeOK, ActiveSet
  <2> QED BY <1>0, <1>2, <2>1 DEF IInv, RegistersPartitioned
<1>8. Retired'
  <2> SUFFICES ASSUME NEW i \in Values \ ActiveSet, InRegister(i)',
                      next + 1 <= Len(intervals)
               PROVE  Latest(lifetime[i]) <= Earliest(lifetime[intervals[next + 1]])
    BY <1>0, <1>2 DEF Retired, Start, End
  <2>1. Latest(lifetime[i]) <= Earliest(lifetime[intervals[next]])
    BY <1>1, <1>5 DEF IInv, Retired, Start, End
  <2>2. Earliest(lifetime[intervals[next]]) <= Earliest(lifetime[intervals[next + 1]])
    BY <1>1 DEF IInv, StartsSorted, Start
  <2>3. /\ lifetime[i] \in Lifetimes /\ lifetime[intervals[next]] \in Lifetimes
        /\ lifetime[intervals[next + 1]] \in Lifetimes
    BY <1>1 DEF IInv, TypeOK
  <2> QED BY <2>1, <2>2, <2>3, IntervalCovers, SMTT(30)
<1>9. RegistersFollow'
  BY <1>0, <1>2, <1>5 DEF IInv, RegistersFollow, Start, End
<1>10. DistinctSlots'
  BY <1>2, <1>5 DEF IInv, DistinctSlots, Placed, Spill
<1> QED BY <1>3, <1>4, <1>6, <1>7, <1>8, <1>9, <1>10 DEF IInv

\* What is inserted by end leaves the vector sorted and without repetition.
LEMMA InsertByEndProperties ==
  ASSUME lifetime \in [Values -> Lifetimes],
         NEW s \in Seq(Values), NEW i \in Values,
         \A j, k \in 1 .. Len(s) :
           j < k => /\ Latest(lifetime[s[j]]) <= Latest(lifetime[s[k]])
                    /\ s[j] # s[k],
         \A j \in 1 .. Len(s) : s[j] # i
  PROVE  LET t == InsertByEnd(s, i) IN
         /\ t \in Seq(Values) /\ Len(t) = Len(s) + 1
         /\ \A x : (\E j \in 1 .. Len(t) : t[j] = x)
                     <=> (x = i \/ \E j \in 1 .. Len(s) : s[j] = x)
         /\ \A j, k \in 1 .. Len(t) :
              j < k => /\ Latest(lifetime[t[j]]) <= Latest(lifetime[t[k]])
                       /\ t[j] # t[k]
<1> DEFINE t == InsertByEnd(s, i)
           K == {k \in 1 .. Len(s) + 1 :
                   k <= Len(s) => Latest(lifetime[i]) <= Latest(lifetime[s[k]])}
           p == Least(K)
           end(x) == Latest(lifetime[x])
<1>0. Len(s) \in Nat /\ \A x \in Values : end(x) \in Nat
  BY IntervalCovers
<1>1. p \in K /\ \A k \in K : p <= k
  <2>1. K \subseteq Nat /\ Len(s) + 1 \in K
    BY <1>0
  <2> QED BY <2>1, LeastIsLeast
<1>2. p = LowerBound(s, i)
  BY DEF LowerBound, End
<1>3. p \in 1 .. Len(s) + 1
  BY <1>1
<1>4. \A j \in 1 .. p - 1 : end(s[j]) < end(i)
  <2> SUFFICES ASSUME NEW j \in 1 .. p - 1 PROVE end(s[j]) < end(i)
    OBVIOUS
  <2>0. p \in Nat /\ j \in Nat /\ j < p /\ j \in 1 .. Len(s)
    BY <1>0, <1>3
  <2>1. j \in 1 .. Len(s) /\ j \notin K /\ s[j] \in Values
    <3> HIDE DEF K, p
    <3> QED BY <1>1, <2>0
  <2> QED BY <1>0, <2>1
<1>5. \A j \in p .. Len(s) : end(i) <= end(s[j])
  <2> SUFFICES ASSUME NEW j \in p .. Len(s) PROVE end(i) <= end(s[j])
    OBVIOUS
  <2>1. /\ p \in 1 .. Len(s) /\ j \in 1 .. Len(s)
        /\ s[p] \in Values /\ s[j] \in Values
    BY <1>0, <1>3
  <2>2. end(i) <= end(s[p])
    BY <1>0, <1>1, <2>1
  <2>3. end(s[p]) <= end(s[j])
    BY <1>0, <2>1
  <2> QED BY <1>0, <2>1, <2>2, <2>3
<1> HIDE DEF p, K
<1>6. /\ t \in Seq(Values) /\ Len(t) = Len(s) + 1
      /\ \A j \in 1 .. p - 1 : t[j] = s[j]
      /\ t[p] = i
      /\ \A j \in p .. Len(s) : t[j + 1] = s[j]
  BY <1>2, <1>3, InsertProperties DEF InsertByEnd
<1> HIDE DEF t
<1>7. \A j \in p + 1 .. Len(t) : t[j] = s[j - 1] /\ j - 1 \in p .. Len(s)
  <2> SUFFICES ASSUME NEW j \in p + 1 .. Len(t)
               PROVE  t[j] = s[j - 1] /\ j - 1 \in p .. Len(s)
    OBVIOUS
  <2>1. j - 1 \in p .. Len(s) /\ (j - 1) + 1 = j
    BY <1>0, <1>3, <1>6
  <2> QED BY <1>6, <2>1
<1>8. \A j \in 1 .. Len(t) : j \in 1 .. p - 1 \/ j = p \/ j \in p + 1 .. Len(t)
  BY <1>0, <1>3, <1>6
<1>9. \A x : (\E j \in 1 .. Len(t) : t[j] = x)
              <=> (x = i \/ \E j \in 1 .. Len(s) : s[j] = x)
  <2>1. ASSUME NEW j \in 1 .. Len(t)
        PROVE  t[j] = i \/ \E k \in 1 .. Len(s) : s[k] = t[j]
    <3>1. CASE j \in 1 .. p - 1
      <4>1. j \in 1 .. Len(s)
        BY <1>0, <1>3, <3>1
      <4> QED BY <1>6, <3>1, <4>1
    <3>2. CASE j \in p + 1 .. Len(t)
      <4>1. t[j] = s[j - 1] /\ j - 1 \in 1 .. Len(s)
        BY <1>0, <1>3, <1>7, <3>2
      <4> QED BY <4>1
    <3> QED BY <1>6, <1>8, <3>1, <3>2
  <2>2. \E j \in 1 .. Len(t) : t[j] = i
    BY <1>0, <1>3, <1>6
  <2>3. ASSUME NEW k \in 1 .. Len(s) PROVE \E j \in 1 .. Len(t) : t[j] = s[k]
    <3>1. CASE k \in 1 .. p - 1
      BY <1>0, <1>6, <3>1
    <3>2. CASE k \in p .. Len(s)
      <4>1. k + 1 \in 1 .. Len(t)
        BY <1>0, <1>3, <1>6, <3>2
      <4> QED BY <1>6, <3>2, <4>1
    <3> QED BY <1>0, <1>3, <3>1, <3>2
  <2> QED BY <2>1, <2>2, <2>3, ZenonT(60)
<1>10. ASSUME NEW j \in 1 .. Len(t), NEW k \in 1 .. Len(t), j < k
       PROVE  end(t[j]) <= end(t[k]) /\ t[j] # t[k]
  <2>0. p \in Nat /\ j \in Nat /\ k \in Nat
    BY <1>0, <1>3, <1>6
  <2>1. CASE k \in 1 .. p - 1
    <3>1. j \in 1 .. p - 1 /\ j \in 1 .. Len(s) /\ k \in 1 .. Len(s)
      BY <1>0, <1>3, <1>6, <1>10, <2>0, <2>1, SMTT(30)
    <3> QED BY <1>6, <1>10, <2>1, <3>1
  <2>2. CASE k = p
    <3>1. j \in 1 .. p - 1 /\ j \in 1 .. Len(s) /\ s[j] \in Values
      BY <1>0, <1>3, <1>10, <2>0, <2>2
    <3> QED BY <1>0, <1>4, <1>6, <2>2, <3>1, SMTT(30)
  <2>3. CASE k \in p + 1 .. Len(t)
    <3>1. t[k] = s[k - 1] /\ k - 1 \in p .. Len(s) /\ k - 1 \in 1 .. Len(s)
          /\ s[k - 1] \in Values
      BY <1>0, <1>3, <1>7, <2>0, <2>3, SMTT(30)
    <3>2. CASE j \in 1 .. p - 1
      <4>1. j \in 1 .. Len(s) /\ j < k - 1
        BY <1>0, <1>3, <2>0, <3>1, <3>2, SMTT(30)
      <4> QED BY <1>6, <3>1, <3>2, <4>1
    <3>3. CASE j = p
      BY <1>5, <1>6, <3>1, <3>3
    <3>4. CASE j \in p + 1 .. Len(t)
      <4>1. t[j] = s[j - 1] /\ j - 1 \in 1 .. Len(s) /\ j - 1 < k - 1
        BY <1>0, <1>3, <1>7, <1>10, <2>0, <3>4
      <4> QED BY <3>1, <4>1
    <3> QED BY <1>8, <3>2, <3>3, <3>4
  <2> QED BY <1>8, <2>1, <2>2, <2>3
<1>11. \A j, k \in 1 .. Len(t) : j < k => end(t[j]) <= end(t[k]) /\ t[j] # t[k]
  BY <1>10
<1> QED BY <1>6, <1>9, <1>11 DEF t

\* A step that puts the current instruction into register reg and inserts it
\* into what is left of active: the part TakeFreeRegister and SpillActive share.
LEMMA PlacingKeepsIInv ==
  ASSUME IInv, InLoop, NextIteration,
         UNCHANGED <<lifetime, regs_num, intervals, pc>>,
         \* what is left of active, and the instruction that leaves, if any
         NEW rest \in Seq(Values), NEW left,
         NEW reg \in Regs,
         active' = InsertByEnd(rest, Current),
         \A j, k \in 1 .. Len(rest) :
           j < k => /\ Latest(lifetime[rest[j]]) <= Latest(lifetime[rest[k]])
                    /\ rest[j] # rest[k],
         \A x : (\E j \in 1 .. Len(rest) : rest[j] = x) <=> x \in ActiveSet \ {left},
         m_results' \in [Values -> Location],
         m_results'[Current] = Register(reg),
         \A i \in Values \ {Current, left} : m_results'[i] = m_results[i],
         \/ /\ left \notin Values /\ UNCHANGED spill_count
            /\ reg \in free_regs /\ free_regs' = free_regs \ {reg}
         \/ /\ left \in ActiveSet /\ UNCHANGED free_regs
            /\ m_results[left] = Register(reg)
            /\ m_results'[left] = Spill(spill_count)
            /\ spill_count' = spill_count + 1
  PROVE  IInv' /\ ActiveSet' = (ActiveSet \ {left}) \cup {Current}
<1> DEFINE cur == Current
<1> Values' = Values /\ Regs' = Regs
  BY InputStays
<1>1. /\ next \in 1 .. Len(intervals) /\ cur \in Values /\ m_results[cur] = Unallocated
      /\ cur \notin ActiveSet /\ Handled' = Handled \cup {cur}
      /\ next' = next + 1 /\ scan' = 1
      /\ cur = intervals[next]
  BY CurrentIsNew DEF NextIteration, Current
<1> HIDE DEF cur
<1>2. ActiveSet \subseteq Values /\ \A i \in ActiveSet : InRegister(i)
  BY DEF IInv, TypeOK, Placed, ActiveSet
<1>3. /\ active' \in Seq(Values)
      /\ \A x : (\E j \in 1 .. Len(active') : active'[j] = x)
                  <=> (x = cur \/ x \in ActiveSet \ {left})
      /\ \A j, k \in 1 .. Len(active') :
           j < k => /\ Latest(lifetime[active'[j]]) <= Latest(lifetime[active'[k]])
                    /\ active'[j] # active'[k]
  <2>1. lifetime \in [Values -> Lifetimes]
    BY DEF IInv, TypeOK
  <2>2. \A j \in 1 .. Len(rest) : rest[j] # cur
    BY <1>1
  <2>3. active' = InsertByEnd(rest, cur)
    BY DEF cur
  <2>4. /\ active' \in Seq(Values)
        /\ \A x : (\E j \in 1 .. Len(active') : active'[j] = x)
                    <=> (x = cur \/ \E j \in 1 .. Len(rest) : rest[j] = x)
        /\ \A j, k \in 1 .. Len(active') :
             j < k => /\ Latest(lifetime[active'[j]]) <= Latest(lifetime[active'[k]])
                      /\ active'[j] # active'[k]
    <3>1. cur \in Values /\ rest \in Seq(Values)
      BY <1>1
    <3>2. \A j, k \in 1 .. Len(rest) :
            j < k => /\ Latest(lifetime[rest[j]]) <= Latest(lifetime[rest[k]])
                     /\ rest[j] # rest[k]
      OBVIOUS
    <3> DEFINE t == InsertByEnd(rest, cur)
    <3>3. /\ t \in Seq(Values)
          /\ \A x : (\E j \in 1 .. Len(t) : t[j] = x)
                      <=> (x = cur \/ \E j \in 1 .. Len(rest) : rest[j] = x)
          /\ \A j, k \in 1 .. Len(t) :
               j < k => /\ Latest(lifetime[t[j]]) <= Latest(lifetime[t[k]])
                        /\ t[j] # t[k]
      BY ONLY <2>1, <2>2, <3>1, <3>2, InsertByEndProperties
    <3> HIDE DEF t
    <3>4. active' = t
      BY <2>3 DEF t
    <3> QED BY ONLY <3>3, <3>4
  <2> QED BY <2>4
<1>4. ActiveSet' = (ActiveSet \ {left}) \cup {cur}
  <2>1. \A x : x \in ActiveSet' <=> \E k \in 1 .. Len(active') : active'[k] = x
    BY DEF ActiveSet
  <2>2. \A x : x \in ActiveSet' <=> x \in (ActiveSet \ {left}) \cup {cur}
    BY <1>3, <2>1
  <2> QED BY <2>2
<1>5. /\ spill_count \in Nat /\ spill_count' \in Nat
      /\ spill_count <= spill_count' /\ spill_count' <= spill_count + 1
  BY DEF IInv, TypeOK
<1>6. /\ m_results'[cur] = Register(reg)
      /\ \A i \in Values \ {cur, left} : m_results'[i] = m_results[i]
      /\ cur # left
  BY <1>1 DEF cur
<1>7. \A i \in Values : InRegister(i)' <=> (i = cur \/ (i # left /\ InRegister(i)))
  BY <1>1, <1>6 DEF InRegister, Register, Spill, Unallocated
<1>8. \A i \in Values : InMemory(i)' <=> (i # cur /\ (i = left \/ InMemory(i)))
  BY <1>1, <1>6 DEF InMemory, Register, Spill, Unallocated
<1>9. \A i \in Values : InRegister(i) =>
        m_results[i] = Register(m_results[i].index) /\ m_results[i].index \in Regs
  BY DEF IInv, TypeOK, Placed, InRegister, Location, Register, Unallocated
<1>10. TypeOK'
  BY <1>1, <1>3, <1>5 DEF IInv, TypeOK
<1>11. StartsSorted' /\ NeverUndefined'
  BY DEF IInv, StartsSorted, NeverUndefined, Start
<1>12. EndsSorted'
  BY <1>3 DEF EndsSorted, End
<1>13. Placed'
  <2>1. \A i \in Values : m_results'[i] # Unallocated <=> i \in Handled'
    <3> SUFFICES ASSUME NEW i \in Values
                 PROVE  m_results'[i] # Unallocated <=> i \in Handled'
      OBVIOUS
    <3>1. CASE i = cur
      BY <1>1, <1>6, <3>1 DEF Register, Unallocated
    <3>2. CASE i = left
      <4>1. m_results[i] # Unallocated /\ m_results'[i] # Unallocated
        BY <3>2 DEF Register, Spill, Unallocated
      <4>2. i \in Handled
        BY <4>1 DEF IInv, Placed
      <4> QED BY <1>1, <4>1, <4>2
    <3>3. CASE i \in Values \ {cur, left}
      BY <1>1, <1>6, <3>3 DEF IInv, Placed
    <3> QED BY <3>1, <3>2, <3>3
  <2>2. \A i \in Values : InRegister(i)' => m_results'[i].index \in Regs
    <3> SUFFICES ASSUME NEW i \in Values, InRegister(i)'
                 PROVE  m_results'[i].index \in Regs
      OBVIOUS
    <3>1. CASE i = cur
      BY <1>6, <3>1 DEF Register
    <3>2. CASE i # cur
      <4>1. i # left /\ InRegister(i)
        BY <1>7, <3>2
      <4> QED BY <1>6, <1>9, <3>2, <4>1
    <3> QED BY <3>1, <3>2
  <2>3. \A i \in ActiveSet' : InRegister(i)'
    BY <1>1, <1>2, <1>4, <1>7
  <2>4. \A i \in Values : InMemory(i)' => m_results'[i].index < spill_count'
    <3> SUFFICES ASSUME NEW i \in Values, InMemory(i)'
                 PROVE  m_results'[i].index < spill_count'
      OBVIOUS
    <3>1. CASE i = left
      BY <1>2, <1>5, <3>1 DEF Spill
    <3>2. CASE i # left
      <4>1. i # cur /\ InMemory(i)
        BY <1>8, <3>2
      <4>2. m_results[i].index < spill_count /\ m_results[i] \in Location
        BY <4>1 DEF IInv, Placed, TypeOK
      <4> QED BY <1>5, <1>6, <3>2, <4>1, <4>2 DEF Location, Unallocated
    <3> QED BY <3>1, <3>2
  <2>5. spill_count' < next'
    BY <1>1, <1>5 DEF IInv, Placed
  <2> QED BY <2>1, <2>2, <2>3, <2>4, <2>5 DEF IInv, Placed, InLoop
\* Who is in reg: the one that leaves, or nobody.
<1>14. \A i \in ActiveSet \ {left} : m_results[i] # Register(reg)
  <2>1. CASE left \notin Values
    BY <2>1, <1>2 DEF IInv, RegistersPartitioned
  <2>2. CASE left \in ActiveSet /\ m_results[left] = Register(reg)
    BY <2>2 DEF IInv, RegistersPartitioned, ActiveSet
  <2> QED BY <1>2, <2>1, <2>2
<1>15. RegistersPartitioned'
  <2>1. \A r \in Regs :
          r \in free_regs' <=> ~ \E i \in ActiveSet' : m_results'[i] = Register(r)
    <3> TAKE r \in Regs
    <3>1. CASE r = reg
      <4>1. reg \notin free_regs'
        BY <1>2 DEF IInv, RegistersPartitioned
      <4> QED BY <1>4, <1>6, <3>1, <4>1
    <3>2. CASE r # reg
      <4>1. r \in free_regs' <=> r \in free_regs
        BY <3>2
      <4>2. Register(r) # Register(reg)
        BY <3>2 DEF Register
      <4>3. (\E i \in ActiveSet' : m_results'[i] = Register(r))
              <=> \E i \in ActiveSet : m_results[i] = Register(r)
        BY <1>1, <1>2, <1>4, <1>6, <4>2
      <4> QED BY <4>1, <4>3 DEF IInv, RegistersPartitioned
    <3> QED BY <3>1, <3>2
  <2>2. \A a, b \in ActiveSet : a # b => m_results[a] # m_results[b]
    BY DEF IInv, RegistersPartitioned, ActiveSet
  <2>3. \A a, b \in ActiveSet' : a # b => m_results'[a] # m_results'[b]
    BY <1>1, <1>2, <1>4, <1>6, <1>14, <2>2
  <2>4. \A j, k \in 1 .. Len(active') : j # k => active'[j] # active'[k]
    <3>1. Len(active') \in Nat
      BY <1>3
    <3> QED BY <1>3, <3>1
  <2>5. \A k \in 1 .. Len(active') : active'[k] \in ActiveSet'
    BY <1>3, <1>4
  <2> QED BY <2>1, <2>3, <2>4, <2>5 DEF RegistersPartitioned
<1>16. Retired'
  <2> SUFFICES ASSUME NEW i \in Values \ ActiveSet', InRegister(i)',
                      next + 1 <= Len(intervals)
               PROVE  Latest(lifetime[i]) <= Earliest(lifetime[intervals[next + 1]])
    BY <1>1 DEF Retired, Start, End
  <2>1. Latest(lifetime[i]) <= Earliest(lifetime[intervals[next]])
    <3>1. i \in Values \ ActiveSet /\ InRegister(i)
      BY <1>4, <1>7
    <3> QED BY <1>1, <3>1 DEF IInv, Retired, Start, End
  <2>2. Earliest(lifetime[intervals[next]]) <= Earliest(lifetime[intervals[next + 1]])
    BY <1>1 DEF IInv, StartsSorted, Start
  <2>3. /\ lifetime[i] \in Lifetimes /\ lifetime[intervals[next]] \in Lifetimes
        /\ lifetime[intervals[next + 1]] \in Lifetimes
    BY <1>1 DEF IInv, TypeOK
  <2> QED BY <2>1, <2>2, <2>3, IntervalCovers, SMTT(30)
<1>17. RegistersFollow'
  \* Who held reg before and is not active ended before cur starts.
  <2>1. ASSUME NEW i \in Values, i # cur, i # left, InRegister(i), m_results[i].index = reg
        PROVE  Latest(lifetime[i]) <= Earliest(lifetime[cur])
    <3>1. i \notin ActiveSet
      BY <1>9, <1>14, <2>1
    <3> QED BY <1>1, <2>1, <3>1 DEF IInv, Retired, Start, End
  <2>2. ASSUME NEW i \in Values, NEW j \in Values, i # j, InRegister(i)', InRegister(j)',
               m_results'[i].index = m_results'[j].index
        PROVE  \/ Latest(lifetime[i]) <= Earliest(lifetime[j])
               \/ Latest(lifetime[j]) <= Earliest(lifetime[i])
    <3>1. CASE i = cur
      BY <1>6, <1>7, <2>1, <2>2, <3>1 DEF Register
    <3>2. CASE j = cur
      BY <1>6, <1>7, <2>1, <2>2, <3>2 DEF Register
    <3>3. CASE i # cur /\ j # cur
      BY <1>6, <1>7, <2>2, <3>3 DEF IInv, RegistersFollow, Start, End
    <3> QED BY <3>1, <3>2, <3>3
  <2> QED BY <2>2 DEF RegistersFollow, Start, End
<1>18. DistinctSlots'
  <2> SUFFICES ASSUME NEW i \in Values, NEW j \in Values, i # j, InMemory(i)', InMemory(j)'
               PROVE  m_results'[i].index # m_results'[j].index
    BY DEF DistinctSlots
  <2>1. \A x \in Values : InMemory(x) => m_results[x].index < spill_count
    BY DEF IInv, Placed
  <2>2. left \in Values => m_results'[left].index = spill_count
    BY <1>2 DEF Spill
  <2>3. CASE i = left
    <3>1. m_results'[j] = m_results[j] /\ InMemory(j)
      BY <1>6, <1>8, <2>3
    <3> QED BY <1>5, <2>1, <2>2, <2>3, <3>1
  <2>4. CASE j = left
    <3>1. m_results'[i] = m_results[i] /\ InMemory(i)
      BY <1>6, <1>8, <2>4
    <3> QED BY <1>5, <2>1, <2>2, <2>4, <3>1
  <2>5. CASE i # left /\ j # left
    BY <1>6, <1>8, <2>5 DEF IInv, DistinctSlots
  <2> QED BY <2>3, <2>4, <2>5
<1>19. IInv'
  BY <1>10, <1>11, <1>12, <1>13, <1>15, <1>16, <1>17, <1>18 DEF IInv
<1> QED BY <1>4, <1>19 DEF cur

\* The free register that is taken suits the current instruction.
LEMMA TakeFreeKeepsIInv == IInv /\ TakeFreeRegister => IInv'
<1> SUFFICES ASSUME IInv, TakeFreeRegister PROVE IInv'
  OBVIOUS
<1> DEFINE reg == Least(free_regs)  left == CHOOSE x : x \notin Values
<1>1. /\ InLoop /\ NextIteration /\ UNCHANGED <<lifetime, regs_num, intervals, pc, spill_count>>
      /\ free_regs # {} /\ free_regs' = free_regs \ {reg}
      /\ m_results' = [m_results EXCEPT ![Current] = Register(reg)]
      /\ active' = InsertByEnd(active, Current)
  BY DEF TakeFreeRegister, Expired
<1>2. reg \in free_regs /\ reg \in Regs /\ reg \in Nat
  <2>1. free_regs \subseteq Regs /\ Regs \subseteq Nat
    BY TargetsAssumption DEF IInv, TypeOK, Regs
  <2> QED BY <1>1, <2>1, LeastIsLeast
<1>3. left \notin Values
  BY NoSetContainsEverything
<1> HIDE DEF reg, left
<1>4. active \in Seq(Values) /\ m_results \in [Values -> Location] /\ Current \in Values
      /\ ActiveSet \subseteq Values
  BY <1>1, CurrentIsNew DEF IInv, TypeOK, ActiveSet
<1>5. \A j, k \in 1 .. Len(active) :
        j < k => /\ Latest(lifetime[active[j]]) <= Latest(lifetime[active[k]])
                 /\ active[j] # active[k]
  BY DEF IInv, EndsSorted, RegistersPartitioned, End
<1>6. \A x : (\E j \in 1 .. Len(active) : active[j] = x) <=> x \in ActiveSet \ {left}
  BY <1>3, <1>4 DEF ActiveSet
<1>7. /\ m_results' \in [Values -> Location] /\ m_results'[Current] = Register(reg)
      /\ \A i \in Values \ {Current, left} : m_results'[i] = m_results[i]
  BY <1>1, <1>2, <1>4 DEF Location, Register
<1> QED BY <1>1, <1>2, <1>3, <1>4, <1>5, <1>6, <1>7, PlacingKeepsIInv

\* The register of the victim suits the current instruction, which takes its
\* place in active.
LEMMA SpillActiveKeepsIInv ==
  IInv /\ SpillActive => IInv' /\ ActiveSet' = (ActiveSet \ {Victim}) \cup {Current}
<1> SUFFICES ASSUME IInv, SpillActive
             PROVE  IInv' /\ ActiveSet' = (ActiveSet \ {Victim}) \cup {Current}
  OBVIOUS
<1> DEFINE rest == PopBack(active)  reg == m_results[Victim].index
<1>1. /\ InLoop /\ NextIteration /\ UNCHANGED <<lifetime, regs_num, intervals, pc, free_regs>>
      /\ m_results' = [m_results EXCEPT ![Current] = Register(reg),
                                        ![Victim] = Spill(spill_count)]
      /\ active' = InsertByEnd(rest, Current)
      /\ spill_count' = spill_count + 1
      /\ active # <<>>
  BY DEF SpillActive, Expired
<1>2. /\ active \in Seq(Values) /\ Len(active) \in 1 .. Len(active) /\ Len(active) \in Nat
      /\ m_results \in [Values -> Location] /\ spill_count \in Nat
      /\ Victim = active[Len(active)] /\ Victim \in Values /\ Victim \in ActiveSet
  BY <1>1 DEF IInv, TypeOK, Victim, Back, ActiveSet
<1>3. Current \in Values /\ Current # Victim
  BY <1>1, <1>2, CurrentIsNew
<1>4. m_results[Victim] = Register(reg) /\ reg \in Regs /\ reg \in Nat
  BY <1>2, TargetsAssumption
     DEF IInv, Placed, InRegister, Location, Register, Unallocated, Regs
<1>5. /\ rest \in Seq(Values) /\ Len(rest) = Len(active) - 1
      /\ \A j \in 1 .. Len(active) - 1 : rest[j] = active[j]
  BY <1>1, <1>2, PopBackProperties
<1> HIDE DEF rest, reg
<1>6. \A j, k \in 1 .. Len(active) :
        j < k => /\ Latest(lifetime[active[j]]) <= Latest(lifetime[active[k]])
                 /\ active[j] # active[k]
  BY DEF IInv, EndsSorted, RegistersPartitioned, End
<1>7. \A j, k \in 1 .. Len(rest) :
        j < k => /\ Latest(lifetime[rest[j]]) <= Latest(lifetime[rest[k]])
                 /\ rest[j] # rest[k]
  BY <1>2, <1>5, <1>6, SMTT(30)
<1>8. \A x : (\E j \in 1 .. Len(rest) : rest[j] = x) <=> x \in ActiveSet \ {Victim}
  <2>1. \A j \in 1 .. Len(rest) : j \in 1 .. Len(active) /\ j < Len(active)
    BY <1>2, <1>5
  <2>2. \A j \in 1 .. Len(active) : j = Len(active) \/ j \in 1 .. Len(rest)
    BY <1>2, <1>5
  <2>3. \A x : x \in ActiveSet <=> \E j \in 1 .. Len(active) : active[j] = x
    BY DEF ActiveSet
  <2>4. \A j \in 1 .. Len(rest) : rest[j] = active[j] /\ rest[j] # Victim
    BY <1>2, <1>5, <1>6, <2>1
  <2> QED BY <1>2, <2>1, <2>2, <2>3, <2>4
<1>9. /\ m_results' \in [Values -> Location] /\ m_results'[Current] = Register(reg)
      /\ m_results'[Victim] = Spill(spill_count)
      /\ \A i \in Values \ {Current, Victim} : m_results'[i] = m_results[i]
  BY <1>1, <1>2, <1>3, <1>4 DEF Location, Register, Spill
<1>10. /\ IInv /\ InLoop /\ NextIteration /\ UNCHANGED <<lifetime, regs_num, intervals, pc>>
       /\ active' = InsertByEnd(rest, Current)
       /\ Victim \in ActiveSet /\ UNCHANGED free_regs
       /\ spill_count' = spill_count + 1
  BY <1>1, <1>2
<1> QED BY ONLY <1>10, <1>4, <1>5, <1>7, <1>8, <1>9, PlacingKeepsIInv

(***************************************************************************)
(* The theorems.                                                           *)
(***************************************************************************)

\* Every step of the allocator keeps the invariant.
LEMMA NextKeepsIInv == IInv /\ [Next]_vars => IInv'
BY PrepareKeepsIInv, ControlKeepsIInv, ExpireKeepsIInv, TakeFreeKeepsIInv,
   SpillActiveKeepsIInv, SpillCurrentKeepsIInv, UndefinedKeepsIInv DEF Next

\* The inductive invariant holds in every reachable state.
THEOREM Invariance == Spec => []IInv
<1>1. Init => IInv
  BY InitIInv
<1>2. IInv /\ [Next]_vars => IInv'
  BY NextKeepsIInv
<1> QED BY <1>1, <1>2, PTL DEF Spec

\* The vector active is sorted by end, so its back is the interval that ends last
\* (lines 71 and 108), and it is never longer than there are registers, so that
\* its length tells whether a register is free (line 84).
THEOREM ActiveInOrder == Spec => [](EndsSorted /\ Len(active) <= regs_num)
<1>1. IInv => EndsSorted /\ Len(active) <= regs_num
  BY ActiveFitsRegisters DEF IInv
<1> QED BY <1>1, Invariance, PTL

\* Instructions in one register have lifetimes that never overlap, holes in
\* the lifetimes and empty ranges included.
THEOREM RegisterSafety == Spec => []NoClobber
BY InvariantNoClobber, Invariance, PTL

\* No two instructions share a spill slot.
THEOREM SlotSafety == Spec => []DistinctSlots
<1>1. IInv => DistinctSlots
  BY DEF IInv
<1> QED BY <1>1, Invariance, PTL

\* free_regs and the registers of active intervals always partition the
\* registers.
THEOREM RegisterAccounting == Spec => []RegistersPartitioned
<1>1. IInv => RegistersPartitioned
  BY DEF IInv
<1> QED BY <1>1, Invariance, PTL

\* Given at least one register, back() and *begin() are never evaluated on an
\* empty container.
THEOREM DefinedBehaviour == Spec => []NeverUndefined
<1>1. IInv => NeverUndefined
  BY DEF IInv
<1> QED BY <1>1, Invariance, PTL

(***************************************************************************)
(* The spilled interval is one that ends last.                             *)
(***************************************************************************)

\* The back of active ends last of all active intervals.
LEMMA BackEndsLast ==
  ASSUME IInv, active # <<>>
  PROVE  /\ Victim \in ActiveSet /\ ActiveSet \subseteq Values
         /\ \A x \in ActiveSet : Latest(lifetime[x]) <= Latest(lifetime[Victim])
<1>1. /\ active \in Seq(Values) /\ Len(active) \in Nat /\ Len(active) \in 1 .. Len(active)
      /\ Victim = active[Len(active)] /\ lifetime \in [Values -> Lifetimes]
  BY DEF IInv, TypeOK, Victim, Back
<1>2. Victim \in ActiveSet /\ ActiveSet \subseteq Values
  BY <1>1 DEF ActiveSet
<1>3. ASSUME NEW k \in 1 .. Len(active)
      PROVE  Latest(lifetime[active[k]]) <= Latest(lifetime[Victim])
  <2>1. CASE k = Len(active)
    <3>1. lifetime[Victim] \in Lifetimes
      BY <1>1
    <3>2. Latest(lifetime[Victim]) \in Nat
      BY <3>1, IntervalCovers
    <3> QED BY <1>1, <2>1, <3>2
  <2>2. CASE k < Len(active)
    BY <1>1, <2>2 DEF IInv, EndsSorted, End
  <2> QED BY <1>1, <2>1, <2>2
<1> QED BY <1>2, <1>3 DEF ActiveSet

\* The one step that moves an instruction to memory moves one that ends last.
LEMMA StepSpillsFurthestEnd ==
  IInv /\ [Next]_vars =>
    [\A i \in Values :
       InMemory(i)' /\ ~ InMemory(i) => \A j \in ActiveSet' : End(j) <= End(i)]_vars
<1> SUFFICES ASSUME IInv, Next, NEW i \in Values, InMemory(i)', ~ InMemory(i),
                    NEW j \in ActiveSet'
             PROVE  Latest(lifetime[j]) <= Latest(lifetime[i])
  BY DEF End
<1>0. /\ m_results \in [Values -> Location]
      /\ \A x \in Values : Latest(lifetime[x]) \in Nat
  <2>1. \A x \in Values : lifetime[x] \in Lifetimes
    BY DEF IInv, TypeOK
  <2> QED BY <2>1, IntervalCovers DEF IInv, TypeOK
<1>1. m_results' # m_results
  BY DEF InMemory
<1>2. CASE TakeFreeRegister
  <2>1. m_results'[i] = m_results[i] \/ m_results'[i] = Register(Least(free_regs))
    BY <1>0, <1>2 DEF TakeFreeRegister
  <2> QED BY <2>1 DEF InMemory, Register
<1>3. CASE SpillActive
  <2>1. i = Victim
    <3>1. /\ InLoop
          /\ m_results' = [m_results EXCEPT
               ![Current] = Register(m_results[Victim].index), ![Victim] = Spill(spill_count)]
      BY <1>3 DEF SpillActive, Expired
    <3>2. CASE i = Current /\ i # Victim
      <4>1. m_results'[i] = Register(m_results[Victim].index)
        BY <1>0, <3>1, <3>2
      <4> QED BY <4>1 DEF InMemory, Register
    <3>3. CASE i # Current /\ i # Victim
      BY <1>0, <3>1, <3>3 DEF InMemory
    <3> QED BY <3>2, <3>3
  <2>2. /\ ActiveSet' = (ActiveSet \ {Victim}) \cup {Current}
        /\ active # <<>> /\ Current \in Values
        /\ Latest(lifetime[Victim]) > Latest(lifetime[Current])
    BY <1>3, SpillActiveKeepsIInv, CurrentIsNew DEF SpillActive, Expired, End
  <2> QED BY <1>0, <2>1, <2>2, BackEndsLast
<1>4. CASE SpillCurrent
  <2>1. /\ InLoop /\ m_results' = [m_results EXCEPT ![Current] = Spill(spill_count)]
        /\ active # <<>> /\ ActiveSet' = ActiveSet
        /\ Latest(lifetime[Victim]) <= Latest(lifetime[Current])
    BY <1>4 DEF SpillCurrent, Expired, ActiveSet, End
  <2>2. i = Current
    BY <1>0, <2>1 DEF InMemory
  <2> QED BY <1>0, <2>1, <2>2, BackEndsLast
<1> QED BY <1>1, <1>2, <1>3, <1>4
     DEF Next, PrepareIntervals, ExpireOne, KeepOne, Undefined, Finish

\* Whatever goes to memory ends no earlier than anything left in registers.
THEOREM SpillChoice == Spec => SpillsFurthestEnd
BY Invariance, StepSpillsFurthestEnd, PTL DEF Spec, SpillsFurthestEnd

(***************************************************************************)
(* The algorithm implements the promise.                                   *)
(***************************************************************************)

\* Who holds the register the current instruction gets, and is not active, has
\* a lifetime compatible with it.
LEMMA RetiredIsCompatible ==
  ASSUME IInv, InLoop, NEW j \in Values, InRegister(j), j \notin ActiveSet
  PROVE  Compatible(Current, j)
<1>1. /\ Current \in Values /\ Current = intervals[next] /\ next <= Len(intervals)
  BY CurrentIsNew DEF Current, InLoop
<1>2. Latest(lifetime[j]) <= Earliest(lifetime[Current])
  BY <1>1 DEF IInv, Retired, Start, End
<1>3. lifetime[j] \in Lifetimes /\ lifetime[Current] \in Lifetimes
  BY <1>1 DEF IInv, TypeOK
<1> QED BY <1>2, <1>3, FollowingIsCompatible DEF Compatible

\* The next spill slot is one nobody has.
LEMMA SlotIsFresh ==
  ASSUME IInv, InLoop
  PROVE  spill_count \in Promise!Slots /\ Promise!FreshSlot(spill_count)
<1>1. spill_count \in Promise!Slots
  <2>1. next \in 1 .. Len(intervals) /\ Len(intervals) = Cardinality(Values)
        /\ spill_count \in Nat /\ spill_count < next
    BY CurrentIsNew DEF IInv, Placed, InLoop, TypeOK
  <2>2. Cardinality(Values) \in Nat
    BY ValuesFinite DEF IInv, TypeOK
  <2> QED BY <2>1, <2>2 DEF Promise!Slots, Promise!Cardinality, Cardinality,
                             Promise!Values, Values
<1>2. ASSUME NEW j \in Values, m_results[j] = Spill(spill_count) PROVE FALSE
  <2>1. InMemory(j) /\ m_results[j].index = spill_count /\ spill_count \in Nat
    BY <1>2 DEF InMemory, Spill, IInv, TypeOK
  <2> QED BY <2>1 DEF IInv, Placed
<1> QED BY <1>1, <1>2 DEF Promise!FreshSlot, Promise!Values, Values, Promise!Spill, Spill

\* The promise starts where the allocator does.
LEMMA InitRefines == Init => Promise!Init
BY DEF Init, Promise!Init, Promise!Inputs, Inputs, Promise!Values, Values,
       Promise!Unallocated, Unallocated

\* A step of the allocator is a step the promise allows, or changes nothing that
\* the promise speaks of.
LEMMA StepRefines == IInv /\ [Next]_vars => [Promise!Next]_Promise!vars
<1> SUFFICES ASSUME IInv, Next, ~ UNCHANGED <<lifetime, regs_num, m_results>> PROVE Promise!Next
  BY DEF vars, Promise!vars
<1>0. m_results \in [Values -> Location]
  BY DEF IInv, TypeOK
<1>1. CASE TakeFreeRegister
  <2> DEFINE reg == Least(free_regs)
  <2>1. /\ InLoop /\ m_results' = [m_results EXCEPT ![Current] = Register(reg)]
        /\ free_regs # {} /\ UNCHANGED <<lifetime, regs_num>>
    BY <1>1 DEF TakeFreeRegister, Expired
  <2>2. reg \in free_regs /\ reg \in Regs
    <3>1. free_regs \subseteq Regs /\ Regs \subseteq Nat
      BY TargetsAssumption DEF IInv, TypeOK, Regs
    <3> QED BY <2>1, <3>1, LeastIsLeast
  <2>3. Current \in Values /\ m_results[Current] = Unallocated
    BY <2>1, CurrentIsNew
  <2> HIDE DEF reg
  <2>4. Promise!Suits(reg, Current, {})
    <3> SUFFICES ASSUME NEW j \in Values \ {Current}, m_results[j] = Register(reg)
                 PROVE  Compatible(Current, j)
      BY DEF Promise!Suits, Promise!Values, Values, Promise!Register, Promise!Compatible, Promise!Disjoint,
             Register, Compatible, Disjoint
    <3>1. j \notin ActiveSet /\ InRegister(j)
      BY <2>2 DEF IInv, RegistersPartitioned, InRegister, Register
    <3> QED BY <2>1, <3>1, RetiredIsCompatible
  <2>5. Promise!Place(Current, reg)
    BY <2>1, <2>3, <2>4 DEF Promise!Place, Promise!Unallocated, Promise!Register,
       Unallocated, Register
  <2> QED BY <2>1, <2>2, <2>3, <2>5 DEF Promise!Next, Promise!Values, Values,
       Promise!Regs, Regs
<1>2. CASE SpillActive
  <2> DEFINE reg == m_results[Victim].index
  <2>1. /\ InLoop /\ active # <<>> /\ UNCHANGED <<lifetime, regs_num>>
        /\ m_results' = [m_results EXCEPT ![Current] = Register(reg),
                                          ![Victim] = Spill(spill_count)]
    BY <1>2 DEF SpillActive, Expired
  <2>2. /\ Current \in Values /\ m_results[Current] = Unallocated
        /\ Victim \in Values /\ Victim \in ActiveSet
    BY <2>1, CurrentIsNew, BackEndsLast
  <2>3. InRegister(Victim) /\ m_results[Victim] = Register(reg)
    BY <1>0, <2>2 DEF IInv, Placed, InRegister, Location, Register, Unallocated
  <2> HIDE DEF reg
  <2>4. Promise!Suits(reg, Current, {Victim})
    <3> SUFFICES ASSUME NEW j \in Values \ {Current, Victim}, m_results[j] = Register(reg)
                 PROVE  Compatible(Current, j)
      BY DEF Promise!Suits, Promise!Values, Values, Promise!Register, Promise!Compatible, Promise!Disjoint,
             Register, Compatible, Disjoint
    <3>1. \A x, y \in ActiveSet : x # y => m_results[x] # m_results[y]
      BY DEF IInv, RegistersPartitioned, ActiveSet
    <3>2. j \notin ActiveSet /\ InRegister(j)
      BY <2>2, <2>3, <3>1 DEF InRegister, Register
    <3> QED BY <2>1, <3>2, RetiredIsCompatible
  <2>5. m_results' = [m_results EXCEPT ![Current] = m_results[Victim],
                                       ![Victim] = Promise!Spill(spill_count)]
    BY <2>1, <2>3 DEF Spill, Promise!Spill
  <2>6. Promise!Replace(Current, Victim, spill_count)
    BY <2>1, <2>2, <2>3, <2>4, <2>5, SlotIsFresh
       DEF Promise!Replace, Promise!Unallocated, Unallocated, Promise!InRegister,
           InRegister, reg
  <2> QED BY <2>1, <2>2, <2>6, SlotIsFresh DEF Promise!Next, Promise!Values, Values
<1>3. CASE SpillCurrent
  <2>1. /\ InLoop /\ UNCHANGED <<lifetime, regs_num>>
        /\ m_results' = [m_results EXCEPT ![Current] = Spill(spill_count)]
    BY <1>3 DEF SpillCurrent, Expired
  <2>2. Current \in Values /\ m_results[Current] = Unallocated
    BY <2>1, CurrentIsNew
  <2>3. Promise!PlaceInMemory(Current, spill_count)
    BY <2>1, <2>2, SlotIsFresh
       DEF Promise!PlaceInMemory, Promise!Unallocated, Unallocated, Promise!Spill, Spill
  <2> QED BY <2>1, <2>2, <2>3, SlotIsFresh DEF Promise!Next, Promise!Values, Values
<1> QED BY <1>1, <1>2, <1>3
     DEF Next, PrepareIntervals, ExpireOne, KeepOne, Undefined, Finish

\* Linear scan implements the promise of register allocation.
THEOREM Refinement == Spec => ImplementsRegAlloc
BY InitRefines, StepRefines, Invariance, PTL DEF Spec, Promise!Spec, ImplementsRegAlloc
=============================================================================
