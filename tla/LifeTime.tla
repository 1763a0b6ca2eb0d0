------------------------------ MODULE LifeTime ------------------------------
(***************************************************************************)
(* analysis::LifeTime, lib/analysis/lifetime.hpp, on the loop tree that    *)
(* module LoopTree builds: detail::linear_order puts the blocks of a       *)
(* function in a row, its instructions are numbered along the row in steps *)
(* of kLifetimeStep, and a walk over the row from its end to its start     *)
(* collects the ranges in which each instruction's value is needed.        *)
(***************************************************************************)
EXTENDS LoopTree, Integers

CONSTANTS
  Instr,      \* the instructions
  Programs    \* the functions to analyse

kLifetimeStep == 2

\* Instructions by what input_operands does with them: binary operations, those
\* with one operand, those without, phis, and those it does not expect.
InstrKind == {"kBinary", "kBranch", "kReturn", "kConst", "kJump", "kPhi", "kOther"}

ASSUME ProgramsAssumption ==
  \A p \in Programs :
    /\ p.succs \in CfgGraphs
    /\ \A b \in BasicBlock : p.code[b] \in Seq(Instr)
    /\ p.type \in [Instr -> InstrKind]
    /\ \A i \in Instr : p.operands[i] \in Seq(Instr)
    /\ p.phi_nodes \in [Instr -> SUBSET (Instr \X BasicBlock)]

VARIABLES
  program,           \* the function
  linear,            \* the blocks that hold Marker::linear
  place,             \* position in rpo_vector, then in the reverse order
  at,                \* position in the block of the instruction to look at
  instr_lifetime,    \* the number of that instruction
  order,             \* the linear order, then m_reverse_linear_order
  m_bb_lifetimes,    \* block -> the number of its first instruction
  bb_lifetime,       \* the number of the next instruction
  m_intervals,       \* instruction -> its ranges; none: it is not in the map
  live,              \* block -> the values live where it starts
  bb_live,           \* build_intervals: the values live at this place of the block
  intervals,         \* build_intervals: the range of each value in this block
  stage              \* where the constructor is

programVars == <<program, m_bb_lifetimes, bb_lifetime>>
blockVars == <<at, instr_lifetime, bb_live, intervals>>
resultVars == <<m_intervals, live>>
lifeVars == <<programVars, linear, place, order, resultVars, blockVars, stage>>

NoRanges == [i \in {} |-> <<0, 0>>]

LifeInit ==
  /\ program \in Programs
  /\ m_succs = program.succs
  /\ Start
  /\ linear = {} /\ place = 0 /\ order = <<>>
  /\ m_bb_lifetimes = [b \in BasicBlock |-> 0] /\ bb_lifetime = 0
  /\ m_intervals = [i \in Instr |-> <<>>]
  /\ live = [b \in BasicBlock |-> {}]
  /\ at = 0 /\ instr_lifetime = 0 /\ bb_live = {} /\ intervals = NoRanges
  /\ stage = "loops"

Code(b) == program.code[b]
Type(i) == program.type[i]

----------------------------------------------------------------------------
\* linear_order.

LoopTreeStep ==
  /\ stage = "loops" /\ ~ Done
  /\ Next
  /\ UNCHANGED lifeVars

\* linear_order calls graph::rpo again, with the number of reachable blocks: the
\* blocks hold no marker that rpo looks at, so it returns the same vector.
StartLinear ==
  /\ stage = "loops" /\ Done
  /\ stage' = "linear"
  /\ place' = 1
  /\ UNCHANGED <<vars, programVars, linear, order, resultVars, blockVars>>

InOrder == stage = "linear" /\ place <= Len(rpo_vector)
Block == rpo_vector[place]
IsReducibleHeader(b) == b \in DOMAIN loops /\ loops[b].reducible

AlreadyPlaced ==
  /\ InOrder /\ Block \in linear
  /\ place' = place + 1
  /\ UNCHANGED <<vars, programVars, linear, order, resultVars, blockVars, stage>>

PlaceLoop_Unmarked ==  \* mutant
  /\ InOrder /\ Block \notin linear /\ IsReducibleHeader(Block)
  /\ order' = order \o loops[Block].basic_blocks
  /\ linear' = linear \cup {Block}
  /\ place' = place + 1
  /\ UNCHANGED <<vars, programVars, resultVars, blockVars, stage>>

PlaceLoop ==
  /\ InOrder /\ Block \notin linear /\ IsReducibleHeader(Block)
  /\ order' = order \o loops[Block].basic_blocks
  /\ linear' = linear \cup Blocks(Block)
  /\ place' = place + 1
  /\ UNCHANGED <<vars, programVars, resultVars, blockVars, stage>>

PlaceBlock ==
  /\ InOrder /\ Block \notin linear /\ ~ IsReducibleHeader(Block)
  /\ order' = Append(order, Block)
  /\ linear' = linear \cup {Block}
  /\ place' = place + 1
  /\ UNCHANGED <<vars, programVars, resultVars, blockVars, stage>>

OrderReturn ==
  /\ stage = "linear" /\ place > Len(rpo_vector)
  /\ linear' = linear \ ToSet(order)
  /\ place' = 1
  /\ stage' = "number"
  /\ UNCHANGED <<vars, programVars, order, resultVars, blockVars>>

\* The constructor numbers the instructions.  A block that is in the row more
\* than once keeps the last of its numbers.
Length(b) == kLifetimeStep * Len(Code(b))

NumberBlock ==
  /\ stage = "number" /\ place <= Len(order)
  /\ m_bb_lifetimes' = [m_bb_lifetimes EXCEPT ![order[place]] = bb_lifetime]
  /\ bb_lifetime' = bb_lifetime + Length(order[place])
  /\ place' = place + 1
  /\ UNCHANGED <<vars, program, linear, order, resultVars, blockVars, stage>>

ReverseOrder ==
  /\ stage = "number" /\ place > Len(order)
  /\ order' = Reverse(order)
  /\ place' = 1
  /\ stage' = "blocks"
  /\ UNCHANGED <<vars, programVars, linear, resultVars, blockVars>>

----------------------------------------------------------------------------
\* build_intervals.

Current == order[place]
First(b) == m_bb_lifetimes[b]
End(b) == First(b) + Length(b)

Phis(b) == {i \in ToSet(Code(b)) : Type(i) = "kPhi"}

\* What the successor s needs of the block b: what is live at its start and the
\* values its phis take from b.
SuccLiveIn_NoPhis(b, s) == live[s]  \* mutant
SuccLiveIn(b, s) ==
  live[s] \cup
  {n[1] : n \in {n \in UNION {program.phi_nodes[i] : i \in Phis(s)} : n[2] = b}}

EnterBlock ==
  /\ stage = "blocks" /\ place <= Len(order)
  /\ bb_live' = UNION {SuccLiveIn(Current, s) : s \in Succs(m_succs, Current)}
  /\ intervals' = [i \in bb_live' |-> <<First(Current), End(Current)>>]
  /\ at' = Len(Code(Current))
  /\ instr_lifetime' = End(Current) - kLifetimeStep
  /\ stage' = "instrs"
  /\ UNCHANGED <<vars, programVars, linear, place, order, resultVars>>

InBlock == stage = "instrs" /\ at > 0
This == Code(Current)[at]

SkipPhi ==
  /\ InBlock /\ Type(This) = "kPhi"
  /\ at' = at - 1
  /\ UNCHANGED <<vars, programVars, linear, place, order, resultVars,
                 instr_lifetime, bb_live, intervals, stage>>

\* assert(false && "Unexpected instruction type for input operand")
Unexpected ==
  /\ InBlock /\ Type(This) = "kOther"
  /\ stage' = "aborted"
  /\ UNCHANGED <<vars, programVars, linear, place, order, resultVars, blockVars>>

\* The range of the value starts here; each operand that has no range yet is
\* needed from the start of the block up to here.
VisitInstr ==
  /\ InBlock /\ Type(This) \notin {"kPhi", "kOther"}
  /\ LET new == ToSet(program.operands[This]) \ DOMAIN intervals
     IN  /\ intervals' = [i \in DOMAIN intervals \cup new |->
              IF i \in new THEN <<First(Current), instr_lifetime>>
              ELSE IF i = This THEN <<instr_lifetime, intervals[i][2]>>
              ELSE intervals[i]]
         /\ bb_live' = (bb_live \ {This}) \cup new
  /\ at' = at - 1
  /\ instr_lifetime' = instr_lifetime - kLifetimeStep
  /\ UNCHANGED <<vars, programVars, linear, place, order, resultVars, stage>>

\* A value that is live where a loop starts is live in the whole loop.
InLoop(b, values) ==
  IF IsReducibleHeader(b)
  THEN [i \in DOMAIN intervals \cup values |->
          IF i \in values
          THEN <<First(b), End(Last(loops[b].basic_blocks))>>
          ELSE intervals[i]]
  ELSE intervals

\* update_intervals: the range r extends the first range that it touches, or is
\* a range of its own.
Touching(ranges, r) ==
  SelectInSeq(ranges, LAMBDA q : r[1] = q[2] \/ r[2] = q[1])

Extend(ranges, r) ==
  LET k == Touching(ranges, r)
  IN  IF k = 0
      THEN Append(ranges, r)
      ELSE [ranges EXCEPT ![k] = <<Min({@[1], r[1]}), Max({@[2], r[2]})>>]

LiveAtStart_WithPhis == bb_live  \* mutant
LiveAtStart == bb_live \ Phis(Current)

LeaveBlock ==
  /\ stage = "instrs" /\ at = 0
  /\ live' = [live EXCEPT ![Current] = LiveAtStart]
  /\ LET ranges == InLoop(Current, LiveAtStart)
     IN  m_intervals' = [i \in Instr |->
           IF i \in DOMAIN ranges THEN Extend(m_intervals[i], ranges[i])
           ELSE m_intervals[i]]
  /\ place' = place + 1
  /\ stage' = "blocks"
  /\ UNCHANGED <<vars, programVars, linear, order, blockVars>>

LifeReturn ==
  /\ stage = "blocks" /\ place > Len(order)
  /\ stage' = "done"
  /\ UNCHANGED <<vars, programVars, linear, place, order, resultVars, blockVars>>

LifeNext ==
  \/ LoopTreeStep
  \/ StartLinear \/ AlreadyPlaced \/ PlaceLoop \/ PlaceBlock \/ OrderReturn
  \/ NumberBlock \/ ReverseOrder
  \/ EnterBlock \/ SkipPhi \/ Unexpected \/ VisitInstr \/ LeaveBlock \/ LifeReturn

LifeSpec == LifeInit /\ [][LifeNext]_<<vars, lifeVars>>

----------------------------------------------------------------------------
\* Where values are live, said without the algorithm.

DefBlocks(v) == {b \in BasicBlock : v \in ToSet(Code(b))}

UsedAt(v, b, k) ==
  Type(Code(b)[k]) # "kPhi" /\ v \in ToSet(program.operands[Code(b)[k]])

\* A phi of a block that follows b takes v from the end of b.
TakenFrom(v, b) ==
  \E s \in Succs(m_succs, b) : \E i \in Phis(s) : <<v, b>> \in program.phi_nodes[i]

\* v is needed where block b starts: some path leads from there to a use of v
\* that does not go through the definition of v.
LiveIn(v, b) ==
  \E u \in Reach(m_succs, b, DefBlocks(v)) :
    TakenFrom(v, u) \/ \E k \in DOMAIN Code(u) : UsedAt(v, u, k)

LiveOut(v, b) ==
  TakenFrom(v, b) \/ \E s \in Succs(m_succs, b) : LiveIn(v, s)

\* v is needed after the k-th instruction of block b.  The phis of a block are made
\* where it starts, all at once.
MadeBy(v, b, k) ==
  \E d \in DOMAIN Code(b) : Code(b)[d] = v /\ (d <= k \/ Type(v) = "kPhi")

LiveAfter(v, b, k) ==
  /\ IF b \in DefBlocks(v) THEN MadeBy(v, b, k) ELSE LiveIn(v, b)
  /\ LiveOut(v, b) \/ \E j \in k + 1 .. Len(Code(b)) : UsedAt(v, b, j)

\* Block by block, the loops are in one piece of the linear order, which starts
\* with the header and ends with the block that is taken for the end.
LoopsInOnePiece(row) ==
  \A h \in {h \in Headers : loops[h].reducible} :
    \E j \in DOMAIN row :
      /\ row[j] = h
      /\ j + Cardinality(Blocks(h)) - 1 <= Len(row)
      /\ LET piece == SubSeq(row, j, j + Cardinality(Blocks(h)) - 1)
         IN  ToSet(piece) = Blocks(h) /\ Last(piece) = Last(loops[h].basic_blocks)

----------------------------------------------------------------------------
\* Properties.

\* The row is complete and nothing has been done with it; it does not change after.
Numbered == stage = "blocks" /\ place = 1

\* In structured code the linear order has every block exactly once, starts at
\* the root, and leaves no marker behind.
LinearOrderComplete ==
  Numbered /\ Structured(m_succs) =>
    /\ ToSet(order) = BasicBlock
    /\ IsInjective(order)
    /\ Last(order) = root
    /\ linear = {}

Covers(ranges, n) == \E k \in DOMAIN ranges : ranges[k][1] <= n /\ n < ranges[k][2]
Spans(ranges, n) ==
  \E j, k \in DOMAIN ranges : ranges[j][1] <= n /\ n < ranges[k][2]

LivePlaces(v) ==
  {n \in UNION {{<<b, k>> : k \in DOMAIN Code(b)} : b \in BasicBlock} :
     LiveAfter(v, n[1], n[2])}

Number(n) == First(n[1]) + kLifetimeStep * (n[2] - 1)

\* The phis of a block are its first instructions: create_phi, which appends
\* them, leaves that to its caller, and a phi behind another instruction is not
\* counted in the numbers of those before it.
PhisFirst ==
  \A b \in BasicBlock : \A j, k \in DOMAIN Code(b) :
    j < k /\ Type(Code(b)[k]) = "kPhi" => Type(Code(b)[j]) = "kPhi"

\* While a value is needed its ranges say so, as long as each loop is in one
\* piece of the linear order.
LiveRangesCover ==
  (/\ stage = "done" /\ Structured(m_succs) /\ PhisFirst
   /\ LoopsInOnePiece(Reverse(order))) =>
    \A v \in Instr : \A n \in LivePlaces(v) : Covers(m_intervals[v], Number(n))

\* A value is live in a whole loop, to loop_end, if it is where the loop starts:
\* in all structured code a value is needed only between the start of its first
\* range and the end of its last, where LinearScan keeps it.
LoopEndEndsLoop ==
  stage = "done" /\ Structured(m_succs) =>
    \A v \in Instr : \A n \in LivePlaces(v) : Spans(m_intervals[v], Number(n))

\* Code without loops gets no range longer than it needs: a place in the ranges
\* of a value is one where the value is live.
RangesExact ==
  stage = "done" /\ Structured(m_succs) /\ Headers = {} =>
    \A v \in Instr, b \in BasicBlock : \A k \in DOMAIN Code(b) :
      Covers(m_intervals[v], First(b) + kLifetimeStep * (k - 1)) => LiveAfter(v, b, k)

----------------------------------------------------------------------------
\* Why the properties hold: the inductive invariant, in structured code.

LifeTypeOK ==
  /\ program \in Programs
  /\ stage # "loops" => phase = "done" /\ place \in Nat \ {0}
  /\ order \in Seq(BasicBlock)
  /\ bb_lifetime \in Nat /\ m_bb_lifetimes \in [BasicBlock -> Nat]
  /\ live \in [BasicBlock -> SUBSET Instr]
  /\ bb_live \subseteq Instr /\ DOMAIN intervals \subseteq Instr
  /\ stage \in {"blocks", "done"} => place <= Len(order) + 1
  /\ stage = "instrs" => place <= Len(order) /\ at \in 0 .. Len(Code(Current))
  /\ stage = "done" => place > Len(order)

\* The calls of loop_search lead on without back edges, or they have come past
\* the header of a loop that the first of them lies in.
WalkLeads ==
  phase = "search" =>
    \A k \in 1 .. Len(calls) : \A j \in 1 .. k :
      \/ calls[k].bb \in Reach(Forward, calls[j].bb, {})
      \/ \E i \in j + 1 .. k :
           calls[i].bb \in Headers /\ calls[j].bb \in NaturalLoop(m_succs, calls[i].bb)

\* From its n-th block on, the row s has a block behind those with an edge to it
\* that is no back edge, unless it lies in a loop whose header comes later: one of
\* the headers hs.
InFlow(s, n, hs) ==
  \A k \in n .. Len(s) :
    \/ \E h \in hs : s[k] \in NaturalLoop(m_succs, h) /\ \A j \in 1 .. k : s[j] # h
    \/ \A a \in BasicBlock : s[k] \in Succs(Forward, a) => \E j \in 1 .. k - 1 : s[j] = a

WalkSoFar ==
  Structured(m_succs) =>
    /\ WalkLeads
    /\ \A h \in Headers :
         InFlow(loops[h].basic_blocks, 2, Headers \cap NaturalLoop(m_succs, h))

\* The blocks that the first n blocks of rpo_vector bring into the row.
Placed(n) ==
  {rpo_vector[k] : k \in 1 .. n} \cup
  UNION {NaturalLoop(m_succs, h) : h \in Headers \cap {rpo_vector[k] : k \in 1 .. n}}

IsRow(s) ==
  /\ s \in Seq(BasicBlock)
  /\ \A j, k \in 1 .. Len(s) : s[j] = s[k] => j = k
  /\ InFlow(s, 1, Headers)

\* The blocks are put in a row, each once.
RowSoFar ==
  Structured(m_succs) =>
    /\ stage = "loops" => linear = {} /\ order = <<>>
    /\ stage = "linear" =>
         /\ place \in 1 .. Len(rpo_vector) + 1
         /\ IsRow(order) /\ Elements(order) = linear /\ linear = Placed(place - 1)
         /\ place > 1 => order # <<>> /\ order[1] = root
    /\ stage \notin {"loops", "linear"} =>
         LET row == IF stage = "number" THEN order ELSE Reverse(order)
         IN  /\ linear = {}
             /\ IsRow(row) /\ Elements(row) = BasicBlock /\ row[1] = root

\* The numbers go up along the row.
NumbersSoFar ==
  Structured(m_succs) =>
    /\ stage = "number" =>
         /\ place \in 1 .. Len(order) + 1
         /\ \A k \in 1 .. place - 1 : End(order[k]) <= bb_lifetime
         /\ \A k \in 1 .. place - 1 : \A j \in 1 .. k - 1 : End(order[j]) <= First(order[k])
    /\ stage \notin {"loops", "linear", "number"} =>
         \A k \in 1 .. Len(order) : \A j \in 1 .. k - 1 : End(order[k]) <= First(order[j])

----------------------------------------------------------------------------
\* The ranges, as long as each loop is in one piece and the phis come first.

Regular == Structured(m_succs) /\ PhisFirst /\ LoopsInOnePiece(Reverse(order))

\* A value that some block behind block b needs, as far as live tells.
NeededBehind(v, b) == TakenFrom(v, b) \/ \E s \in Succs(Forward, b) : v \in live[s]

NumberAt(b, k) == First(b) + kLifetimeStep * (k - 1)

\* Where a value is made by an instruction that is no phi.
Makes(b, d, v) == Code(b)[d] = v /\ Type(v) # "kPhi"

IsRange(r) == r \in Int \X Int

\* The walk through the block b, from its end to its k-th instruction, that
\* instruction left out.
BlockSoFar(b, k) ==
  /\ DOMAIN intervals \subseteq bb_live \cup ToSet(Code(b))
  /\ \A v \in DOMAIN intervals :
       /\ IsRange(intervals[v]) /\ intervals[v][2] >= NumberAt(b, k + 1)
       /\ (\A d \in k + 1 .. Len(Code(b)) : ~ Makes(b, d, v)) => intervals[v][1] = First(b)
       /\ \A d \in k + 1 .. Len(Code(b)) :
            Makes(b, d, v) => intervals[v][1] <= NumberAt(b, d)
  /\ \A v \in Instr :
       /\ NeededBehind(v, b) => v \in DOMAIN intervals /\ intervals[v][2] = End(b)
       /\ \A j \in k + 1 .. Len(Code(b)) :
            UsedAt(v, b, j) => v \in DOMAIN intervals /\ intervals[v][2] >= NumberAt(b, j)
  /\ k > 0 /\ Type(Code(b)[k]) # "kPhi" => instr_lifetime = NumberAt(b, k)

\* What was said of a block whose walk is over.
BlockIsLive(b) ==
  \A v \in Instr :
    (/\ b \notin DefBlocks(v)
     /\ NeededBehind(v, b) \/ \E j \in DOMAIN Code(b) : UsedAt(v, b, j))
      => v \in live[b]

BlockIsCovered(b) ==
  \A v \in Instr : \A k \in DOMAIN Code(b) :
    (/\ b \in DefBlocks(v) => MadeBy(v, b, k)
     /\ NeededBehind(v, b) \/ \E j \in k + 1 .. Len(Code(b)) : UsedAt(v, b, j))
      => Covers(m_intervals[v], NumberAt(b, k))

LoopIsCovered(b) ==
  b \in Headers => \A v \in live[b] : \A n \in First(b) .. End(Last(loops[b].basic_blocks)) - 1 :
    Covers(m_intervals[v], n)

RangesSoFar ==
  /\ stage \in {"loops", "linear", "number"} => \A v \in Instr : m_intervals[v] = <<>>
  /\ stage \notin {"loops", "linear", "number"} /\ Regular =>
       /\ \A v \in Instr : m_intervals[v] \in Seq(Int \X Int)
       /\ stage = "instrs" => BlockSoFar(Current, at)
       /\ \A k \in 1 .. place - 1 :
            BlockIsLive(order[k]) /\ BlockIsCovered(order[k]) /\ LoopIsCovered(order[k])

LifeIInv == LifeTypeOK /\ WalkSoFar /\ RowSoFar /\ NumbersSoFar /\ RangesSoFar

=============================================================================
