# A TLA+ model of injir

injir is a small compiler middle end in C++: an SSA intermediate representation with a builder,
graph algorithms over its basic blocks, analyses (loops, lifetimes, register allocation) and
passes (peephole, constant folding, check elimination, inlining). The program is sequential. What
makes it hard is not interleaving but long runs of steps over shared mutable structure: markers
kept in the blocks and shared by all algorithms, vectors that are filled from the end, iterators
that outlive what they point to, lists of users that must mirror the operands, and greedy
algorithms whose next choice depends on all the earlier ones.

Paths below are relative to `src/`.

## Inventory

| Component | Code | State it keeps | Operations | What makes it correct |
|---|---|---|---|---|
| Linear scan | `lib/analysis/regalloc.hpp` | `m_results`, `free_regs`, `active`, `spill_count`, sorted `intervals` | constructor: `prepare_intervals`, `allocate`, `expire_old_intervals`, `add_active_interval`, `spill_at_interval` | no register shared by overlapping values, no slot shared at all, registers accounted for, spills as few as possible |
| Depth first search | `lib/graph/dfs.hpp` | `Marker::dfs` on the blocks, `dfs_vector`, the recursion | `dfs` | exactly the reachable blocks, once each; no marker left |
| Reverse postorder | `lib/graph/rpo.hpp` | `Marker::rpo`, `rpo_vector` filled from the end, a counter the caller provides | `rpo` | every block after its dominators, and after its predecessors but for back edges |
| Dominator tree | `lib/graph/dom.hpp` | `Marker::removed`, the tree | `dom` | dominance |
| Loop tree | `lib/analysis/loop.hpp` | `loop_tree_t`, the map from blocks to loops, `Marker::grey`, `Marker::black`, `Marker::dfs` | `collect_back_edges`, `populate_loops`, `loop_search`, `loop_tree` | loops are natural loops, nesting is containment, irreducible cycles found too |
| Life times | `lib/analysis/lifetime.hpp` | linear order, start of each block, ranges of each value | `linear_order`, `update_intervals`, `build_intervals`, `input_operands` | the ranges cover every place where a value is needed |
| Instructions, blocks, builder | `lib/ir/instr.hpp`, `basic_block.hpp`, `builder.hpp` | operands, users, successors, predecessors, the list of a block | the `create_*` functions, `replace_operand`, `add_user`, `splice`, ... | users mirror operands, definitions before uses |
| Peephole, constant folding, pass manager | `lib/pass/peephole.hpp`, `constant_folding.hpp`, `common.hpp` | the iterator, `changed` | `apply`, `replace_instr_uses`, `PassManager::run` | the function returns what it did before |
| Check elimination | `lib/pass/check_elimination.hpp` | `m_seen` | the walk over the dominator tree | whatever way is taken, a check is passed that makes the erased one superfluous; none superfluous is left; `m_seen` holds no erased check |
| Inlining | `lib/pass/inline.hpp` | the caller under surgery: blocks, edges, instructions, the calls collected from a block | `inline_call`, `apply` | every instruction computes what it did, definitions dominate uses, the callee takes exactly the place of the call |
| Function, types, markers | `lib/ir/function.hpp`, `type.hpp`, `common.hpp` | list of blocks, argument types | accessors | - |

How they interact: `loop_tree` calls `dom` (which calls `dfs` once per block, with that block
removed), walks the graph itself and calls `rpo`; `LifeTime` takes the loop tree and calls `rpo`;
`LinearScan` takes the `LifeTime`; check elimination calls `dom`; the other passes call `rpo` or
walk the list of blocks, and call `replace_instr_uses`. All of the
graph algorithms communicate through the markers of the blocks: one left behind cuts a block off
from the next algorithm.

`PROJECT.json` lists, under `hazards`, what can go wrong in this code that a test would hardly
reach, each at its line and with the properties that speak of it.

## Modules

| Module | Models | Extends |
|---|---|---|
| `Allocation` | lifetimes, `Location`, who may share a register | - |
| `RegAlloc` | abstract: what an allocator promises | `Allocation` |
| `Vectors` | `erase`, `insert`, `back`, `pop_back` of `std::vector`; what a vector holds, and what a loop keeps of it | - |
| `LinearScan` | the allocator | `Allocation`, `Vectors` |
| `Cfg` | graphs a `Builder` makes; reachability, dominance, loops defined without an algorithm | - |
| `Search` | abstract: what a traversal promises | `Cfg` |
| `Dfs`, `Rpo` | the two traversals | `Cfg`, `Vectors` |
| `Dom` | the dominator tree, whose steps include those of `Dfs` | `Dfs` |
| `LoopTree` | the loop tree, whose steps include those of `Rpo` | `Rpo` by INSTANCE |
| `LifeTime` | the lifetimes, whose steps include those of `LoopTree` | `LoopTree` |
| `Pipeline` | loop tree, lifetimes and linear scan on one function | `LifeTime`, `LinearScan` by INSTANCE |
| `CheckElimination` | the pass, on the tree that `Dom` builds | `Dom` |
| `Instrs` | instructions, users, `replace_operand`, `replace_instr_uses` | - |
| `Ir` | the builder, on a heap of instructions | `Instrs` |
| `Inline` | the pass, on a program of several functions | `Instrs` |
| `Passes` | peephole, constant folding, the pass manager | `Ir` |
| `VectorsProofs`, `CfgProofs` | lemmas about vectors; about reachability, paths and dominance | the module of that name |
| `LinearScanProofs`, `RpoProofs`, `CheckEliminationProofs`, `LoopTreeProofs`, `LifeTimeProofs`, `PassesProofs` | proofs; those of `Search`, `Dfs` and `Dom` are in `CheckEliminationProofs`, those of `Pipeline` in `LifeTimeProofs` | the module of that name and the lemmas and proofs it builds on |
| `MC*` | inputs and symmetry for the model checker | the module of that name |

### How state and actions correspond to the code

- **A step is what the code does between two decisions.** In `LinearScan` it is an iteration of
  the loop of `allocate` or one call of the predicate of `erase_if`, whose write to `free_regs`
  reads `m_results` as it is at that moment. In the traversals it is a call of
  `process_successor`, a call or a return. In the passes it is an iteration over the instructions
  with `++instr_it` included, so that the step over an instruction after `erase` is there. In
  `Inline` it is one of the steps that the comments of `inline_call` number.
- **Recursion is a sequence of frames**, innermost call first: the block and how far its body got.
- **The loops of `dom`** are explicit: `cursor` is the block that is removed, `other` the place of the
  inner loop, which appends one block or passes over it in a step. As a filter over a vector the
  loop would be a recursive operator, about which nothing could be proved.
- **`LifeTime` numbers a block in a step** and then walks the row backwards, an instruction in a step.
  The phis of a block are made where it starts, all at once, so a phi behind another instruction is
  out of place (`PhisFirst`); the code steps over phis without counting them.
- **Constant inputs.** `|` of the integers of `Ir` is the constant `BitOr`, so that the passes can
  be proved about; `MCPasses` gives it the bitwise one. `Admits` bounds the programs that a run of
  `Passes` builds, `regs_num` and the lifetimes of `LinearScan` are variables that `Init` chooses, so that `Pipeline`
  can hand it what `LifeTime` leaves.
- **A marker is the set of the blocks that hold it.** It is a variable of its own and is not reset
  between algorithms unless the code does it.
- **Undefined behaviour and failed assertions are states**: `pc = "undefined"` for `back()` of an
  empty vector, `"crashed"` for a null block or an instruction that was destroyed, `"aborted"` for an
  assertion. An incremented `end()` is undefined too; `Passes!Advance` goes on with the first
  instruction, as `std::list` of libstdc++ does. `Inline` has `"undefined"` for a callee without blocks
  and for the splice of `end()`. No action leaves these states.
- **Unordered containers** are sets and functions; where the code iterates over one and the order
  matters (the order in which `std::sort` leaves equal starts, the predecessor lists, the
  dominance order of the loop headers) the order is chosen by `\E` over all that are possible.
- **Pointers to instructions** in `Ir` are addresses which are never used again: a dangling one is
  recognised by its membership in `erased`. In `Inline` an address is given, and that of the block
  and the phi made for a call are functions of the call.
- **Composition by phases.** `Pipeline` and `CheckElimination` include the steps of the modules they
  build on and continue when those are done, on the state they left. `Pipeline` instantiates
  `LinearScan` with the lifetimes of the instructions that `LifeTime` has ranges of, as `m_intervals` has;
  its own `ConstructLinearScan` is the call of the constructor, with any number of registers.
- Operators that mutate a definition on purpose have a suffix (`Ignored_Removed`) and the comment
  `mutant`; nothing uses them. They are the bugs that each property was shown to catch.

## Runs

| Run | Question | Bounds |
|---|---|---|
| `linear_scan` | is a live value ever overwritten, are registers and slots accounted for, is the right value spilled, are spills as few as can be, is every step allowed by `RegAlloc`? | 4 values, all or some of them with a lifetime, times 0..3, 2 registers or none; lifetimes with holes and with an empty last range among them |
| `dfs` | does `dfs` find what is reachable, as `Search` allows, and does every step bring it nearer to its end? | every graph of 3 blocks, none or one of them removed |
| `rpo` | is the order topological, with dominators first; what if the caller passes a size that is not the number of reachable blocks? | the same graphs, every size |
| `check_elimination` | is the result of `dom` dominance, and is no marker left; does every execution pass a check for each erased one, is none left without need, is `m_seen` free of erased checks? | for `dom` every graph of 4 blocks; for the walk those of up to 4 edges with all blocks reachable, and every placement of 3 instructions: null checks, bound checks that contain each other, checks of another value; up to symmetry of the blocks other than the root |
| `loop_tree` | has every cycle a header, is no marker left; are the loops natural and nested by containment; does `loop_tree`, and with it `rpo`, return? | every graph of 3 blocks, irreducible ones included, every structured graph of 4 (up to the names of the blocks), every order of predecessors |
| `pipeline` | is the linear order complete, do the ranges cover what is needed, and no more where there is no loop; are two values in one register ever needed at one place; do all three constructors return, but for an instruction that `LifeTime` does not know and a target without registers? | structured graphs of 3 blocks and an exit, two nested loops; every placement of a definition, a use and a phi, with and without a call; 0, 1 or 2 registers |
| `passes` | is the meaning kept, are operands in order and users complete, is nothing left to fold; do the passes end, and with an answer unless an earlier pass destroyed a user or the walk went around the end? | every block of up to 4 instructions, 2 bit integers, constants 0..2, one pass or two in a row |
| `inline` | does every instruction compute what it did, if no call takes the result of a call or an argument; do definitions dominate uses, is nothing inlined still used, does the callee fill the place of the call; do predecessor lists and phis know the edges, when the name of a block that was split is read as its last part (the lists keep the old name: `inline.hpp:27`); does no assertion fail within the limits of the pass? | 24 callers: a call before a return, a jump, a branch, in a loop, as the last instruction, with more behind it, of the caller itself, two calls in one block, in a row of blocks, in the two ways of a branch; 9 callees: one return or several, a phi, a loop, no return, too few arguments, a call of a third function with its arguments or with a sum of them; two calls of one function or of two |
| `inline_arguments` | and if a call does take the result of a call or an argument? Violated | as `inline` |

*Structured* (`Cfg!Structured`) means: every block is reachable, without the edges to dominators
there is no cycle, and each loop goes back to its header by one edge, from another block. This is
what front ends with `while` and `if` produce. Properties that are not restricted to it hold for all
graphs.

Four runs end in a violation, and each is a disagreement between the code and what it or its tests
say (details under `findings` in `PROJECT.json`):

- `loop_tree_self`: a loop with two latches becomes its own outer loop, if the walk from the first
  latch meets the second (`lib/analysis/loop.hpp:107`).
- `life_time_loop_end`: `basic_blocks.back()` need not be the end of the loop in the linear order
  (`lib/analysis/lifetime.hpp:222`). An inner loop B that is left from its header, with the latch C, in
  an outer loop from A to D gives the row A C B D: C is taken for the end of the inner loop and stands
  before its header. A value that is live at the header and in the whole inner loop gets an empty
  range for it, so it can lose its register inside the loop that needs it.
  `LiveRangesCover` and `AllocationSound` of the run `pipeline` therefore have the condition that
  each loop is in one piece of the linear order, beside the one that the phis come first.
- `passes_shl`: after `erase` the loop steps over the next instruction
  (`lib/pass/peephole.hpp:133`), so a shift by 0 remains.
- `inline_arguments`: calls are not users of their arguments (`lib/ir/builder.hpp:138`), so what replaces
  arguments and calls (`lib/pass/inline.hpp:48`, `84`) does not reach the operands of other calls. If f
  calls g(k, l), which calls e(y, x), the call of e ends up in f with the arguments of g, which has no
  blocks any more. `DataflowPreserved` of the run `inline` is therefore about programs whose calls take
  neither.

Other states that the passing runs reach, and that the properties except by name:

- `pipeline`: the assertion in `input_operands` (`lib/analysis/lifetime.hpp:117`) for a function that
  calls, `"aborted"`; the back of the empty vector `active` on a target without registers
  (`lib/analysis/regalloc.hpp:108`), `"undefined"`.
- `passes`: `"crashed"` where the second pass calls `replace_operand` on a user the first one
  destroyed (or the same pass, once `++` on `end()` led it around); `Termination` says that there is no
  other cause. Calls are not users of their arguments (`lib/ir/builder.hpp:138`), so a call can keep an
  operand that was erased; `OperandsInOrder`, `UsersComplete` and `CallsReplaced` except calls.
- `inline`: `splice` with one iterator moves one instruction (`lib/ir/basic_block.hpp:68`), so what
  else is behind a call stays in front of the code that was called. Without the condition
  `OneBehind`, that each call has one instruction behind it, `DefsDominateUses` is violated.
  `"undefined"` for a call with nothing behind it and for a second call of a function that
  is empty by then; `"aborted"` for recursion, for a callee that never returns or has another
  number of arguments, and for a second call that was moved out of its block before it was looked for.
  `StopsOnlyBeyondLimits` says that these are all the causes.

### Why the bounds are enough

- Linear scan: the interesting cases are a hole, an end that meets a start, a spill of an active
  value and of the current one, two spills, and the reuse of the register of a spilled value. All
  fit in four values and two registers; the theorems cover the rest.
- Graphs: with three blocks there is already a self loop, an irreducible cycle, a block that cannot
  be reached, two edges to one block, a header with two latches; four add diamonds, chains of
  dominators, and loops that lie side by side in another. `dfs` is proved for any number
  of blocks. Symmetry is used only in `check_elimination`, which checks no liveness property: it is
  not sound for those.
- Life times: the functions follow one value around the graph; values do not influence each
  other's ranges, so one definition, one use and one phi suffice, beside a constant that every
  branch tests.
- Check elimination: three checks are one that covers, one that is covered and one that is covered
  by the second only, which is what a wrong order of visits would leave uncovered; four edges make a
  diamond, a loop behind a chain of dominators, and a block visited for several chains.
- Pipeline: with one register a value, the constant and the phi compete; with two a spilled one
  frees its place for another; with none the constructor is undefined.
- Inlining: two calls are enough for one to disturb the other, as each uses only what the one
  before has left in the block and in the function called.
- Passes: a rewrite whose result enables or disturbs the next needs an argument or constant, two
  binary operations and a return; `passes_shl` uses five instructions. Two bits are the least width with an overflow and a shift by the width.

### Fairness

Liveness is checked in `loop_tree`, `passes` and `pipeline`, under weak fairness of the whole next-state
relation only (`WF_vars(Next)`, in `Pipeline` that of all three phases): the program is one thread and takes its next
step whenever there is one. No property needs strong fairness.
Deadlock is not checked, as every function returns and the model then stops; the `Termination`
properties say where it stops. For `dfs` the action property `Progresses` says more than termination would: every
step marks a block, or keeps the marks and comes past a successor, so that the recursion is bounded
by the number of blocks; it needs no fairness and is proved. `LinearScan`, `Rpo` on its own, `CheckElimination` and
`Inline` have no liveness property: the first goes through a vector that it does not change, the liveness of
`rpo` is part of that of `loop_tree`, and the steps of the two passes follow a tree and lists that
they only shorten.

## Proofs

`tlapm` checks every proof to the leaves. The assumptions are those named in the modules: a finite
set of instructions (`InstrAssumption`), natural numbers of registers (`TargetsAssumption`),
lifetimes with a range that ends last (`LifetimesAssumption`), a root that is a block (`RootAssumption`), finitely many
blocks (`BlocksAssumption`, which `rpo` needs to count them), a null pointer that is no block
(`NullAssumption`), bounds of bound checks that are integers (`KindAssumption`) and a number of
instructions (`BoundAssumption`), functions whose code and operands are sequences of instructions
(`ProgramsAssumption`), integers of at least one bit (`WidthAssumption`), an `|` of them with the
three laws that `Peephole` relies on, x | x = x | 0 = 0 | x = x (`BitOrAssumption`), constants that are such integers
(`ValuesAssumption`) and lists of passes that are not empty (`PassListsAssumption`). All hold of every
program the code can be given. The theorems hold
for any graph of blocks with up to two successors each, irreducible ones, self loops and blocks that
cannot be reached included, except that those of `CheckElimination` are about functions in which
every block can be reached; the walk never looks at the others.

**Linear scan** (`LinearScanProofs`, with facts about vectors in `VectorsProofs`). Neither
`NoClobber` nor `DistinctSlots` is inductive. What is needed, `LinearScan!IInv`, is that the
intervals handled so far are those before `next`, sorted by start (`StartsSorted`); that the handled
ones are exactly those with a location (`Placed`); that `active` is sorted by end (`EndsSorted`),
or the early end of the expiry and the choice of the victim would mean nothing; that the registers
are partitioned between `free_regs` and `active`; and, the crucial part, that a value which holds a
register but is not active ended before the current one starts (`Retired`), hence before all later
ones, as starts are sorted. So whoever gets a register follows everyone who had it
(`RegistersFollow`), which gives `NoClobber`. During the expiry loop `scan` separates those already
examined from the rest. Theorems: `Invariance`, `ActiveInOrder` (`active` is sorted and fits the registers),
`RegisterSafety`, `SlotSafety`, `RegisterAccounting`, `DefinedBehaviour`, `SpillChoice` (an action property) and
`Refinement` (every step is a step of `RegAlloc` or a stutter), for any number of values, at least one register
and any lifetimes. Of a target without registers `IInv` says nothing; the runs try it.

**Search** (`CheckEliminationProofs`). A traversal that takes the steps of `Search` visits only reachable
blocks, since each one it visits is the root or a successor of one visited before; when it
finishes with no successor left, what it has visited is closed and contains the root, and the
reachable blocks lie in every such set (`SearchSoFar`). So `SearchFindsReachable` holds for any graph.

**Graphs** (`CfgProofs`). `Cfg!Reach` is the least closed set, so to show that all that can be reached
has a property it is enough that the blocks with it are closed (`ReachLeast`), and to show that a
block can be reached, to follow one edge (`ReachStep`). `Cfg!Dominance` is said with paths instead;
`DominanceIsCut` shows, from a simple path to each reachable block (`ReachHasPath`), that
it is the same as being cut off from the root by the removal of a block. Cuts compose
(`CutTransitive`) and go one way (`CutOneWay`), which makes strict dominance an order. A header
dominates the blocks of its natural loop (`HeaderDominatesLoop`), and two natural loops that share a
block lie one in the other (`LoopsNest`). Calls that are a path from the root are dealt
with once (`LeadOn`), for `rpo` and for the collection of back edges.

**Depth first search** (`CheckEliminationProofs`). `dfs` ends when its stack is empty, and it must be shown that
no successor is then left to visit. The invariant, `Dfs!IInv`, says that a found block is either the
block of a call in progress, which has settled the successors it came past, or has settled both
(`CallsSettle`); settled means null, removed or found. With the facts that markers and result agree
(`TypeOK`) and that no block is found twice (`FoundOnce`) it is inductive. `Refinement` maps a call
to `Visit`, the end to `Finish` and every other step to a stutter; `Completeness` then follows from
`SearchFindsReachable`, for functions of any number of blocks. `DfsProgresses` is the measure by which the
recursion ends: a call is made only for a block without the marker and sets it, so the marks grow or the
topmost call comes past a successor.

**Reverse postorder** (`RpoProofs`). The invariant, `Rpo!IInv`, has the parts of that of `Dfs`, with the
places of the vector that are filled instead of the found blocks, and more. The number of places
filled is the length of the vector less the counter, and no block is in two of them (`FoundOnce`); by
counting, the last block that returns takes the last place exactly if the caller passed the number of
reachable blocks (`SizeDecides`). For the order, `CallsLead` says that each call in progress leads to
the running one, and that a block which is on the stack can be reached around every block that is
not. So a successor that is found and still on the stack leads back to the block that returns,
and any other is in the vector already, behind the place that is filled next; and a block that is in
the vector already is not needed to reach it, hence dominates it not. `OrderSoFar` is this for
the places filled so far, `OrderIsTopological` for the answer. In structured code `ForwardSoFar` adds that no
call goes along a back edge, since the header it would call is still on the stack, and that what a block in the
vector leads to by other edges is in it already, behind: an edge against the order is a back edge. `Refinement`: a call is `Visit`, the end
is `Finish`. The answer of a crash or an abort is none, and they are stutters.

**Dominator tree** (`CheckEliminationProofs`). A call of `dfs` inside `dom` starts as `Dfs!Init` allows, with one
block removed or none, so `Dfs!IInv` holds through it (`CallsClean`) and what it finds is what can be
reached. The block that was removed keeps its marker until exactly then. Hence the tree lists for
each block what is cut off without it (`TreeSoFar`, as far as the loops have come), which is
dominance by definition: `DomIsDominance`.

**Check elimination** (`CheckEliminationProofs`). The walk visits a block once for each chain of
dominators that leads to it, and erases in each visit. Three things must be known of `m_seen`: it holds exactly
the checks that the calls in progress have looked at and left, each call's behind those of its callers
(`SeenIsScanned`, so `resize` takes away what the call itself found); the calls are for a
chain of strict dominators (`CallsDescend`); and a call that visits a child has nothing left to look at,
so what an outer call has in `m_seen` is not erased by an inner one, whose block is another
(`SeenIsAlive`). `NoCheckMissed`: a check that makes an erased one superfluous may be erased later
itself, but then by one that covers both, as covering is transitive (`ErasedHaveCover` is kept); and
what comes before a place on every way from the root does so on every way from a definition that dominates it.
`NothingSuperfluous` is the harder half: what a block dominates must be clean of all that is covered
when its call returns, although the subtrees are visited under other chains before and after.
`CleanSoFar` follows it: nothing the calls have looked at is covered by something of a call
above, whatever block a call has been through as a child is clean with respect to every block
below (`PassedThrough`, `Finished`), and erasing keeps what is clean clean.

**Loop tree** (`LoopTreeProofs`). The steps of `rpo` inside `loop_tree` are those of `Rpo`, called with
the number of reachable blocks, so its invariant holds through them and its answer is known
(`RpoAnswer`). The invariant, `LoopTree!IInv`, has five parts, of which the first three, `Core`, keep
themselves for any graph:

- `MarkersSoFar`: each search finds the reachable blocks without the markers that it looks at, so none is
  cut short. At the end this is `MarkersClean`.
- `CollectSoFar`: an edge that `collect_back_edges` has come past leads to a block that was left before,
  to a header, or to the block of the next call. So a block that is left without being a header lies on
  no cycle that avoids the headers, for its successors were left before it or are headers
  (`EveryCycleHasHeader`), and this needs no assumption on the graph.
- `LatchesSoFar`, in structured code: the calls are a path, so an edge to a grey block closes a cycle, which
  without back edges there is not; hence exactly the back edges give latches, and each header gets
  one, that it dominates (`CallsLead`, `HasLatch`).
- `LoopsSoFar`, in structured code: the walk from the latch stays in the natural loop, and when it is over no
  block outside can have an edge into it, so it has been to the whole loop (`SearchSoFar`, which gives
  `LoopsAreNatural`). Among the loops that are filled, every block is mapped to the smallest around it, and
  every loop lies in the smallest around its header; the walk puts in its own loop the blocks that were in
  none, and of the loops it meets those that were in none (`NestedSoFar`). This is right because a header that
  is filled later is in no loop that was filled before, as `rpo` puts dominators first, so that what the
  walk meets lies wholly in the new loop. This gives `NestingIsContainment`.

The result of `dom` enters as it does in the model; that the algorithm computes it is `DomIsDominance`.

**Life times** (`LifeTimeProofs`). The invariant, `LifeTime!LifeIInv`, joins that of the loop tree; all but
its types is about structured code.

- `WalkSoFar` is about `loop_search` again: its calls lead on by edges that are no back edges, or have come past
  the header of a loop further in. So a block of `basic_blocks` stands behind those with such an edge to it.
- `RowSoFar`: no block is in the row twice, the markers are those of the blocks placed, and a block is
  behind those with a forward edge to it or in a loop whose header comes later. The row is complete at its end, as the order of
  `rpo` is, with the root first: `OrderIsComplete`.
- `NumbersSoFar`: the numbers go up along the row.
- `RangesSoFar`, if each loop is in one piece of the row and the phis of a block come first. Then all
  successors but for back edges are behind a block, and a loop goes from the number of its header to
  the end of its last block (`Layout`). In the block at hand every value that a later place needs has a
  range from the block's start, or its definition, to that place or the block's end (`BlockSoFar`); of the blocks
  that were left it says that `live` has what is needed behind them (`BlockIsLive`), that the places where it is are covered
  (`BlockIsCovered`), and that what is live at a header is covered to the end of the loop (`LoopIsCovered`).

The walk makes one pass, and when it looks at a latch `live` of the header is still empty: what comes over
back edges is missing from `live` for ever. `LiveInIsLive` shows what saves the answer: a value that a path
needs at the start of a block is in `live` of that block or of the header of a loop around it, and there the rule for loops
has covered the block. With that `RangesCover` follows. Both conditions are needed: `life_time_loop_end` shows it of
the loops, and a phi behind another instruction shifts the numbers of those before it.

**From blocks to registers** (`LifeTimeProofs`). `Pipeline!PipelineIInv` has the invariants of the loop tree, of
the lifetimes and of the allocator, and says what one leaves for the next: every list of ranges
has one that ends last, in natural numbers (`LifetimesSoFar`), which is all that the proofs of `LinearScan` assume;
and while the allocator runs the lifetimes stay what they are (`AllocationSoFar`). So `PipelineInvariance` needs nothing new of
the allocator: its lemmas are those of `LinearScanProofs`, for the lifetimes in `m_intervals`. Then two values needed
at one place have ranges that hold its number (`NeededIsCovered`), so their lifetimes are not compatible, and `NoClobber` keeps
them out of one register: `PipelineSound`, for any function, any numbers of blocks, instructions and registers.

**Passes** (`PassesProofs`). The invariant, `Passes!IInv`: an operand that is no constant was made before its
user (`OperandsOlder`), so every instruction has a value (`ValuesExist`); operands come first in the block
(`OperandsInOrder`); an instruction of the block is listed by each of its operands (`UsersComplete`); what constant
folding has come past is folded (`FoldedSoFar`); and the function returns what it did
(`MeaningPreserved`). `OperandsInOrder` and `UsersComplete` except calls, as above. A rewrite keeps the values of all instructions, where they had one, if what is put
in computes the same (`RewriteKeepsValues`, by the least instruction that would differ); that it reaches every use in the block
needs the lists of users complete, and that nothing erased is used needs the order. That the substitutes compute the same is the
arithmetic of `ComputeLaws`. The theorems `MeaningKept`, `OrderKept`, `UsersKept` and `FoldsAll` hold for any
block, any width of the integers, any lists of passes and any `|` with the three laws.

**Model-checked only**:

- the liveness properties, `Termination` and `PipelineTermination`: the prover has neither fairness nor ENABLED;
- `SpillsMinimal`, a minimum over all allocations, whose proof is by induction over the intervals;
- `RangesExact`, which holds because a value has one definition that dominates its uses: the programs of the runs have it,
  `ProgramsAssumption` does not say it;
- the six properties of `Inline`: an invariant would have to follow five steps of surgery on the blocks, edges and
  phis of two functions at once;
- what the runs with a violation refute. That no loop is in itself is part of `NestingIsContainment` in structured code; elsewhere it is false (`loop_tree_self`).

## Not modelled, and why

- **Memory instructions and floating point** in the IR and `Builder`: they change no more than
  operands and users do already. `CheckElimination` has the checks as records of what it compares.
- **Order of predecessor lists in `Inline`**: the pass only appends to them; they are sets.
- **The dominator tree inside `LoopTree`** enters by its result, dominance, as `Dom` shows; the
  second call of `rpo` in `linear_order` and the rpo loops of the passes likewise.
- **Functions of several blocks in `Passes`**: both passes treat blocks one by one.
- **The exact hash order** of unordered containers: any order is allowed.
- **`Type`, argument types of `Function`, tests, build files**: no behaviour for a model.
- **What `Inline::apply` returns**: true, whatever it did. The other passes return what they set when
  they erase or replace, which the models keep (`changed`, `m_changed`); no other code reads it.

## Plan

1. Done: linear scan with its abstract specification; the traversals and dominators; loop tree,
   lifetimes, and lifetimes fed to the allocator; peephole and constant folding; check elimination on the dominator tree;
   inlining. The proofs of all of these but `Inline`, the composed `Pipeline` included.
2. Proofs: what `Inline` keeps of the graph (`SameSkeleton`, `PredecessorsKnown`) and of the data flow; `RangesExact`, from an
   assumption that definitions dominate uses.
3. `kCmpLessEqual` and functions of several blocks in `Passes`.
