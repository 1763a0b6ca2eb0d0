----------------------------- MODULE MCLoopTree -----------------------------
(* LoopTree on small control flow graphs. *)
EXTENDS LoopTree, TLC

CONSTANTS first, last   \* two of the blocks other than the root

\* Every graph in which `last` is cut off from the others.
GraphsWithoutLast ==
  {g \in BuiltGraphs :
     g[last] = <<nullptr, nullptr>> /\ \A b \in BasicBlock : last \notin Succs(g, b)}

\* Graphs whose edges are distinct and lead to another block.
SimpleGraphs ==
  {g \in BuiltGraphs : \A b \in BasicBlock :
     b \notin Succs(g, b) /\ (g[b][1] = g[b][2] => g[b][1] = nullptr)}

\* Structured functions.  Only their edges tell blocks apart, so the one behind
\* the root may as well be `first`.
StructuredGraphs ==
  {g \in SimpleGraphs : g[root][1] = first /\ Structured(g)}

SmallGraphs == GraphsWithoutLast \cup StructuredGraphs

=============================================================================
