------------------------------ MODULE Search ------------------------------
(***************************************************************************)
(* What the depth first traversals of lib/graph promise: starting at the   *)
(* root, blocks that are not removed are visited one at a time, each a     *)
(* successor of one visited before, and the traversal ends only when no    *)
(* such block is left.                                                     *)
(***************************************************************************)
EXTENDS Cfg

VARIABLES
  m_succs,    \* the graph
  removed,    \* the blocks that hold Marker::removed
  visited,    \* the blocks found so far
  finished    \* the result has been returned

vars == <<m_succs, removed, visited, finished>>

Init ==
  /\ m_succs \in BuiltGraphs
  /\ removed \in SUBSET BasicBlock
  /\ visited = {}
  /\ finished = FALSE

Frontier ==
  ({root} \cup UNION {Succs(m_succs, b) : b \in visited}) \ (removed \cup visited)

Visit(b) ==
  /\ ~ finished
  /\ visited = {} => b = root
  /\ b \in Frontier
  /\ visited' = visited \cup {b}
  /\ UNCHANGED <<m_succs, removed, finished>>

Finish ==
  /\ ~ finished
  /\ visited = {} => root \in removed
  /\ visited # {} => Frontier = {}
  /\ finished' = TRUE
  /\ UNCHANGED <<m_succs, removed, visited>>

Next == Finish \/ \E b \in BasicBlock : Visit(b)

Spec == Init /\ [][Next]_vars

\* When the traversal is over it has found the reachable blocks, all of them
\* and nothing else.
FindsReachable == finished => visited = Reach(m_succs, root, removed)

=============================================================================
