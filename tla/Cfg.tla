-------------------------------- MODULE Cfg --------------------------------
(***************************************************************************)
(* Control flow graphs: the m_succs arrays of the basic blocks of one      *)
(* function (lib/ir/basic_block.hpp), as the Builder leaves them.  A graph *)
(* g maps a block to its pair [true successor, false successor].           *)
(***************************************************************************)
EXTENDS Naturals, Sequences, FiniteSets

CONSTANTS
  BasicBlock,   \* the blocks of a function
  nullptr,      \* no block
  root          \* the entry block

ASSUME NullAssumption == nullptr \notin BasicBlock
ASSUME RootAssumption == root \in BasicBlock
ASSUME BlocksAssumption == IsFiniteSet(BasicBlock)

BBSuccs == (BasicBlock \cup {nullptr}) \X (BasicBlock \cup {nullptr})

\* create_bb leaves no successor, create_jump sets the true one and create_br
\* both: a block with a false successor has a true one.
BuiltGraphs ==
  {g \in [BasicBlock -> BBSuccs] :
     \A b \in BasicBlock : g[b][1] = nullptr => g[b][2] = nullptr}

Succs(g, b) == {g[b][1], g[b][2]} \ {nullptr}

----------------------------------------------------------------------------
\* What the graph algorithms are about, said without them.

\* The set S has every successor of its blocks that is not in `avoid`.
ClosedUnder(g, avoid, S) == \A b \in S : Succs(g, b) \ avoid \subseteq S

\* The blocks that can be reached from the block `from` without entering `avoid`.
Reach(g, from, avoid) ==
  IF from \in avoid
  THEN {}
  ELSE {b \in BasicBlock : \A S \in SUBSET BasicBlock :
          from \in S /\ ClosedUnder(g, avoid, S) => b \in S}

Reachable(g) == Reach(g, root, {})

\* The paths from the root that visit no block twice.
SimplePaths(g) ==
  {p \in UNION {[1 .. n -> BasicBlock] : n \in 1 .. Cardinality(BasicBlock)} :
     /\ p[1] = root
     /\ \A j \in 1 .. Len(p) - 1 : p[j + 1] \in Succs(g, p[j])
     /\ \A j, k \in DOMAIN p : p[j] = p[k] => j = k}

\* The pairs of reachable blocks <<a, b>> such that a dominates b: a is on every
\* path from the root to b.
Dominance(g) ==
  LET paths == SimplePaths(g)
  IN  {d \in Reachable(g) \X Reachable(g) :
         \A p \in paths : p[Len(p)] = d[2] => \E j \in DOMAIN p : p[j] = d[1]}

\* For each reachable block, the others that it dominates.
StrictlyDominated(g) ==
  LET dominance == Dominance(g)
  IN  [a \in Reachable(g) |-> {b \in Reachable(g) \ {a} : <<a, b>> \in dominance}]

----------------------------------------------------------------------------
\* Loops.

Edges(g, a, b) == {e \in 1 .. 2 : g[a][e] = b}

\* Edges to a block that dominates their source.
BackEdges(g) ==
  {e \in Reachable(g) \X Reachable(g) : e[2] \in Succs(g, e[1])} \cap
  {<<d[2], d[1]>> : d \in Dominance(g)}

\* No cycle of reachable blocks is left when the headers are taken away.
CutsCycles(g, headers) ==
  \A b \in Reachable(g) \ headers :
    \A c \in Succs(g, b) : b \notin Reach(g, c, headers)

\* The graph without some of its edges.
Without(g, edges) ==
  [b \in BasicBlock |->
     [e \in 1 .. 2 |-> IF <<b, g[b][e]>> \in edges THEN nullptr ELSE g[b][e]]]

\* Reachable, reducible code: without the back edges there is no cycle.  Each
\* loop goes back to its header from one place, another block.
Structured(g) ==
  LET back == BackEdges(g)
  IN  /\ Reachable(g) = BasicBlock
      /\ CutsCycles(Without(g, back), {})
      /\ \A e \in back : e[1] # e[2] /\ Cardinality(Edges(g, e[1], e[2])) = 1
      /\ \A e, f \in back : e[2] = f[2] => e = f

\* The header h and the blocks that lead to the source of a back edge to h
\* without going through h.
NaturalLoop(g, h) ==
  LET latches == {e[1] : e \in {e \in BackEdges(g) : e[2] = h}}
  IN  {h} \cup {b \in BasicBlock : Reach(g, b, {h}) \cap latches # {}}

=============================================================================
