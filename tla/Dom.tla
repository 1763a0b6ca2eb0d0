-------------------------------- MODULE Dom --------------------------------
(***************************************************************************)
(* graph::dom, lib/graph/dom.hpp: which blocks every block dominates.  dom *)
(* calls dfs once to list the reachable blocks and then once more for each *)
(* of them, with that block removed: what dfs does not find any more is    *)
(* dominated by it.  The calls run the steps of module Dfs on the same     *)
(* blocks, whose markers are shared between the calls.                     *)
(***************************************************************************)
EXTENDS Dfs

VARIABLES
  blocks,     \* dfs_vector of dom, the result of its first call
  cursor,     \* position in blocks of dom_basic_block
  other,      \* position in blocks of basic_block, in the inner loop
  dom_tree,   \* the result: the blocks that each block strictly dominates
  phase       \* "list", "remove", "search", "collect" or "return"

domVars == <<blocks, cursor, other, dom_tree, phase>>

\* dom is called on a function in which no block is removed.
DomInit ==
  /\ m_succs \in BuiltGraphs
  /\ removed = {} /\ marked = {} /\ stack = <<>> /\ dfs_vector = <<>>
  /\ pc = "call"
  /\ blocks = <<>> /\ cursor = 1 /\ other = 1
  /\ dom_tree = [b \in {} |-> <<>>]
  /\ phase = "list"

\* A step of the running call of dfs.
DfsStep == Next /\ UNCHANGED domVars

Listed ==
  /\ phase = "list" /\ pc = "done"
  /\ blocks' = dfs_vector
  /\ phase' = "remove"
  /\ UNCHANGED <<vars, cursor, other, dom_tree>>

Dominator == blocks[cursor]

\* An iteration of the loop over the blocks up to its call of dfs ...
Remove ==
  /\ phase = "remove" /\ cursor <= Len(blocks)
  /\ dom_tree' = [b \in DOMAIN dom_tree \cup {Dominator} |->
                    IF b = Dominator THEN <<>> ELSE dom_tree[b]]
  /\ removed' = removed \cup {Dominator}
  /\ pc' = "call" /\ dfs_vector' = <<>>
  /\ phase' = "search"
  /\ UNCHANGED <<m_succs, marked, stack, blocks, cursor, other>>

\* ... the return of that call ...
Restore ==
  /\ phase = "search" /\ pc = "done"
  /\ removed' = removed \ {Dominator}
  /\ other' = 1
  /\ phase' = "collect"
  /\ UNCHANGED <<m_succs, marked, stack, dfs_vector, pc, blocks, cursor, dom_tree>>

\* ... the inner loop, which appends what was not found ...
Collecting == phase = "collect" /\ other <= Len(blocks)
NotFound_Itself(b) == b \notin Found  \* mutant
NotFound(b) == b # Dominator /\ b \notin Found

Collect ==
  /\ Collecting /\ NotFound(blocks[other])
  /\ dom_tree' = [dom_tree EXCEPT ![Dominator] = Append(@, blocks[other])]
  /\ other' = other + 1
  /\ UNCHANGED <<vars, blocks, cursor, phase>>

PassOver ==
  /\ Collecting /\ ~ NotFound(blocks[other])
  /\ other' = other + 1
  /\ UNCHANGED <<vars, blocks, cursor, dom_tree, phase>>

\* ... and the end of the iteration.
NextDominator ==
  /\ phase = "collect" /\ other > Len(blocks)
  /\ cursor' = cursor + 1
  /\ phase' = "remove"
  /\ UNCHANGED <<vars, blocks, other, dom_tree>>

DomReturn ==
  /\ phase = "remove" /\ cursor > Len(blocks)
  /\ phase' = "return"
  /\ UNCHANGED <<vars, blocks, cursor, other, dom_tree>>

DomNext ==
  DfsStep \/ Listed \/ Remove \/ Restore \/ Collect \/ PassOver \/ NextDominator \/ DomReturn

DomSpec == DomInit /\ [][DomNext]_<<vars, domVars>>

----------------------------------------------------------------------------
\* Properties.

\* What dom returns is dominance: each reachable block is listed with exactly
\* the other reachable blocks that have it on all their paths from the root.  The
\* calls of dfs share the markers of the blocks, and none is left.
DomTreeIsDominance ==
  phase = "return" =>
    /\ [a \in DOMAIN dom_tree |-> Elements(dom_tree[a])] =
         StrictlyDominated(m_succs)
    /\ marked = {} /\ removed = {}

----------------------------------------------------------------------------
\* Why the property holds: the inductive invariant.

\* Each call of dfs starts without markers but the one dom puts, and finds
\* blocks that can be reached; between the calls no marker is left.
CallsClean ==
  /\ m_succs \in BuiltGraphs
  /\ removed = IF phase = "search" THEN {Dominator} ELSE {}
  /\ IF phase \in {"list", "search"}
     THEN IInv /\ Found \subseteq Reach(m_succs, root, removed)
     ELSE pc = "done" /\ stack = <<>> /\ marked = {}
  /\ phase = "collect" => Found = Reach(m_succs, root, {Dominator})

\* The first call listed the reachable blocks, each once.
BlocksListed ==
  IF phase = "list"
  THEN blocks = <<>> /\ cursor = 1 /\ DOMAIN dom_tree = {}
  ELSE /\ blocks \in Seq(BasicBlock)
       /\ Elements(blocks) = Reachable(m_succs)
       /\ \A j, k \in 1 .. Len(blocks) : blocks[j] = blocks[k] => j = k
       /\ cursor \in 1 .. Len(blocks) + 1
       /\ phase \in {"search", "collect"} => cursor <= Len(blocks)
       /\ phase \notin {"remove", "search", "collect"} => cursor > Len(blocks)

\* What is cut off from the root without the block a.
CutOff(a) == {b \in Reachable(m_succs) \ {a} : b \notin Reach(m_succs, root, {a})}

\* The tree is finished for the blocks before the cursor, and for the one there
\* as far as the inner loop has come.
TreeSoFar ==
  /\ DOMAIN dom_tree =
       {blocks[k] : k \in 1 .. IF phase \in {"search", "collect"} THEN cursor ELSE cursor - 1}
  /\ \A a \in DOMAIN dom_tree : dom_tree[a] \in Seq(BasicBlock)
  /\ \A k \in 1 .. cursor - 1 : Elements(dom_tree[blocks[k]]) = CutOff(blocks[k])
  /\ phase = "search" => dom_tree[Dominator] = <<>>
  /\ phase = "collect" =>
       /\ other \in 1 .. Len(blocks) + 1
       /\ Elements(dom_tree[Dominator]) =
            {blocks[k] : k \in {k \in 1 .. other - 1 : NotFound(blocks[k])}}

\* The invariant every step keeps.
DomIInv == CallsClean /\ BlocksListed /\ TreeSoFar

=============================================================================
