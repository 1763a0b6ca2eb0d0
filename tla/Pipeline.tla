------------------------------ MODULE Pipeline ------------------------------
(***************************************************************************)
(* From the blocks of a function to registers: the loop tree, the          *)
(* lifetimes and the linear scan, one after the other on the same          *)
(* function.  LinearScan takes for its input what LifeTime has in          *)
(* m_intervals: the instructions without ranges are not there.             *)
(***************************************************************************)
EXTENDS LifeTime

CONSTANT Targets   \* the numbers of registers of a target

ASSUME InstrAssumption == IsFiniteSet(Instr)
ASSUME TargetsAssumption == Targets \subseteq Nat

VARIABLES
  regs_num,      \* the registers of the target
  m_results,     \* instruction with a lifetime -> location
  sorted,        \* intervals of LinearScan
  active, free_regs, spill_count, next, scan,
  allocation     \* where the constructor of LinearScan is; "none": not called yet

allocVars ==
  <<regs_num, m_results, sorted, active, free_regs, spill_count, next, scan, allocation>>

\* The instructions that LifeTime has a lifetime of, and the lifetimes.
Values == {i \in Instr : m_intervals[i] # <<>>}
LifetimeOf == [i \in Values |-> ToSet(m_intervals[i])]

\* LinearScan takes any lifetimes with a range that ends last.
AnyLifetime ==
  {L \in SUBSET (Nat \X Nat) : \E r \in L : \A q \in L : q[2] <= r[2]}

\* The allocator for these instructions.
Allocator ==
  INSTANCE LinearScan WITH
    Lifetimes <- AnyLifetime, lifetime <- LifetimeOf,
    intervals <- sorted, pc <- allocation

PipelineInit ==
  /\ LifeInit
  /\ regs_num = 0
  /\ m_results = [i \in {} |-> {}]
  /\ sorted = <<>> /\ active = <<>>
  /\ free_regs = {}
  /\ spill_count = 0 /\ next = 1 /\ scan = 1
  /\ allocation = "none"

LifeTimeStep == LifeNext /\ UNCHANGED allocVars

\* The constructor of LinearScan gets a number of registers and the lifetimes.
ConstructLinearScan ==
  /\ stage = "done"
  /\ stage' = "allocate"
  /\ regs_num' \in Targets
  /\ free_regs' = 0 .. regs_num' - 1
  /\ m_results' = [i \in Values |-> [kind |-> "Unallocated", index |-> 0]]
  /\ allocation' = "prepare"
  /\ UNCHANGED <<vars, programVars, linear, place, order, resultVars, blockVars,
                 sorted, active, spill_count, next, scan>>

LinearScanStep ==
  /\ stage = "allocate"
  /\ UNCHANGED <<vars, lifeVars>>
  /\ Allocator!Next

PipelineNext == LifeTimeStep \/ ConstructLinearScan \/ LinearScanStep

PipelineSpec == PipelineInit /\ [][PipelineNext]_<<vars, lifeVars, allocVars>>

\* The program is sequential: it runs on while it has a step to take.
PipelineFairSpec ==
  PipelineSpec /\ WF_<<vars, lifeVars, allocVars>>(PipelineNext)

----------------------------------------------------------------------------
\* Properties.

\* What get_register answers holds wherever the program is: a value that is needed
\* somewhere has a location, and two values that are needed at one place are not
\* in one register.
AllocationSound ==
  (/\ allocation = "done" /\ Structured(m_succs) /\ PhisFirst
   /\ LoopsInOnePiece(Reverse(order))) =>
    LET needed == [v \in Instr |-> LivePlaces(v)]
    IN  /\ \A v \in Instr : needed[v] # {} => v \in DOMAIN m_results
        /\ \A v, w \in DOMAIN m_results :
             v # w /\ m_results[v].kind = "Register" /\ m_results[v] = m_results[w] =>
               needed[v] \cap needed[w] = {}

\* What input_operands does not expect: a function with it fails the assertion.
HasUnexpected ==
  \E b \in BasicBlock : \E i \in ToSet(Code(b)) : Type(i) = "kOther"

\* The three constructors return, but for two limits: the assertion of
\* input_operands stops them for an instruction it does not know, and the
\* allocator is undefined for want of any register.  In particular no register that
\* an ended interval held is missing when the next one needs it (line 87).
PipelineTermination ==
  <>(\/ allocation = "done" /\ (regs_num > 0 \/ Values = {}) /\ ~ HasUnexpected
     \/ allocation = "undefined" /\ regs_num = 0 /\ ~ HasUnexpected
     \/ stage = "aborted" /\ HasUnexpected)

----------------------------------------------------------------------------
\* Why AllocationSound holds: the inductive invariant.

\* What LifeTime collects are lifetimes that LinearScan takes.
HasEnd(ranges) ==
  /\ ranges \in Seq(Nat \X Nat)
  /\ ranges # <<>> =>
       \E j \in DOMAIN ranges : \A k \in DOMAIN ranges : ranges[k][2] <= ranges[j][2]

LifetimesSoFar ==
  stage \notin {"loops", "linear", "number"} /\ Regular =>
    /\ \A v \in Instr : HasEnd(m_intervals[v])
    /\ stage = "instrs" => \A v \in DOMAIN intervals : intervals[v] \in Nat \X Nat

\* The allocator starts as it does on its own and keeps its invariant.
AllocationSoFar ==
  /\ allocation = "none" <=> stage # "allocate"
  /\ allocation = "none" =>
       sorted = <<>> /\ active = <<>> /\ spill_count = 0 /\ next = 1 /\ scan = 1
  /\ allocation # "none" =>
       place > Len(order) /\ (Regular => Allocator!IInv)

PipelineIInv == IInv /\ LifeIInv /\ LifetimesSoFar /\ AllocationSoFar

=============================================================================
