-------------------------------- MODULE Rpo --------------------------------
(***************************************************************************)
(* graph::rpo, lib/graph/rpo.hpp: the blocks in reverse postorder.  The    *)
(* caller passes the number of blocks; the result is a vector of that size *)
(* which is filled from its end.  The recursion of rpo_algorithm is the    *)
(* sequence `stack`, whose head is the running call.                       *)
(***************************************************************************)
EXTENDS Cfg, Vectors

VARIABLES
  m_succs,               \* the graph
  removed,               \* the blocks that hold Marker::removed
  marked,                \* the blocks that hold Marker::rpo
  stack,                 \* the calls of rpo_algorithm that have not returned
  basic_blocks_counter,  \* the places of rpo_vector still to fill
  rpo_vector,            \* the result; position k of the vector is k + 1 here
  pc                     \* "call", "search", "done", "aborted" or "crashed"

vars == <<m_succs, removed, marked, stack, basic_blocks_counter, rpo_vector, pc>>

Frame == [bb : BasicBlock, succ : 0 .. 2]

Sizes == 1 .. Cardinality(BasicBlock)
Ordered == Elements(rpo_vector) \ {nullptr}

\* Every step of the traversal is one that Search allows.
Promise == INSTANCE Search
  WITH visited <- IF pc = "done" THEN Ordered ELSE marked,
       finished <- (pc = "done")

----------------------------------------------------------------------------

Start ==
  /\ marked = {}
  /\ stack = <<>>
  /\ rpo_vector = <<>>
  /\ pc = "call"

\* The passes count every block of the function, loop_tree only the reachable
\* ones.
Init ==
  /\ m_succs \in BuiltGraphs
  /\ removed \in {{}} \cup {{b} : b \in BasicBlock}
  /\ basic_blocks_counter \in Sizes
  /\ Start

\* A call of rpo_algorithm for block b by the calls in `callers`; succ is the
\* successor to process next: 2, the false one, then 1; 0: none.
Enter(b, callers) ==
  /\ marked' = marked \cup {b}
  /\ stack' = <<[bb |-> b, succ |-> 2]>> \o callers

CallRemoved ==
  /\ pc = "call" /\ root \in removed
  /\ pc' = "done"
  /\ UNCHANGED <<m_succs, removed, marked, stack, basic_blocks_counter, rpo_vector>>

Call ==
  /\ pc = "call" /\ root \notin removed
  /\ rpo_vector' = [k \in 1 .. basic_blocks_counter |-> nullptr]
  /\ Enter(root, <<>>)
  /\ pc' = "search"
  /\ UNCHANGED <<m_succs, removed, basic_blocks_counter>>

InCall == pc = "search" /\ stack # <<>>
Top == Head(stack)
Successor == m_succs[Top.bb][Top.succ]
Advanced == <<[Top EXCEPT !.succ = @ - 1]>> \o Tail(stack)

Ignored_Removed(c) == c = nullptr \/ c \in marked  \* mutant
Ignored(c) == c = nullptr \/ c \in removed \/ c \in marked

IgnoreSuccessor ==
  /\ InCall /\ Top.succ > 0
  /\ Ignored(Successor)
  /\ stack' = Advanced
  /\ UNCHANGED <<m_succs, removed, marked, basic_blocks_counter, rpo_vector, pc>>

VisitSuccessor ==
  /\ InCall /\ Top.succ > 0
  /\ ~ Ignored(Successor)
  /\ Enter(Successor, Advanced)
  /\ UNCHANGED <<m_succs, removed, basic_blocks_counter, rpo_vector, pc>>

\* Both successors are done: the block takes the last free place.
Return_FromFront ==  \* mutant
  /\ InCall /\ Top.succ = 0
  /\ basic_blocks_counter # 0
  /\ basic_blocks_counter' = basic_blocks_counter - 1
  /\ rpo_vector' =
       [rpo_vector EXCEPT ![Len(rpo_vector) + 1 - basic_blocks_counter] = Top.bb]
  /\ stack' = Tail(stack)
  /\ UNCHANGED <<m_succs, removed, marked, pc>>

Return ==
  /\ InCall /\ Top.succ = 0
  /\ basic_blocks_counter # 0
  /\ basic_blocks_counter' = basic_blocks_counter - 1
  /\ rpo_vector' = [rpo_vector EXCEPT ![basic_blocks_counter] = Top.bb]
  /\ stack' = Tail(stack)
  /\ UNCHANGED <<m_succs, removed, marked, pc>>

\* assert(basic_blocks_counter != 0)
Abort ==
  /\ InCall /\ Top.succ = 0
  /\ basic_blocks_counter = 0
  /\ pc' = "aborted"
  /\ UNCHANGED <<m_succs, removed, marked, stack, basic_blocks_counter, rpo_vector>>

Full_Unchecked == TRUE  \* mutant
Full == nullptr \notin Elements(rpo_vector)

\* Marker::rpo is deleted from every entry of the vector ...
Unmark ==
  /\ pc = "search" /\ stack = <<>> /\ Full
  /\ marked' = marked \ Ordered
  /\ pc' = "done"
  /\ UNCHANGED <<m_succs, removed, stack, basic_blocks_counter, rpo_vector>>

\* ... and the first entry is null when there are fewer blocks than places.
UnmarkNull ==
  /\ pc = "search" /\ stack = <<>> /\ ~ Full
  /\ pc' = "crashed"
  /\ UNCHANGED <<m_succs, removed, marked, stack, basic_blocks_counter, rpo_vector>>

Next ==
  \/ CallRemoved \/ Call
  \/ IgnoreSuccessor \/ VisitSuccessor
  \/ Return \/ Abort
  \/ Unmark \/ UnmarkNull

Spec == Init /\ [][Next]_vars

----------------------------------------------------------------------------
\* Properties.

\* The blocks rpo must order.
Expected == Reach(m_succs, root, removed)

\* The answer is complete and the run is free of the assertion failure and of
\* the null block exactly if the caller counted the reachable blocks.
SizeMatters ==
  LET size == IF rpo_vector = <<>> THEN basic_blocks_counter ELSE Len(rpo_vector)
  IN  /\ pc = "aborted" => size < Cardinality(Expected)
      /\ pc = "crashed" => size > Cardinality(Expected)
      /\ pc = "done" /\ root \notin removed => size = Cardinality(Expected)

\* A block comes after the blocks that dominate it and after its predecessors,
\* but for those it leads back to: an edge against the order closes a cycle, and
\* in structured code it is a back edge.
Topological ==
  pc = "done" =>
    \A j, k \in 1 .. Len(rpo_vector) :
      LET a == rpo_vector[j]
          b == rpo_vector[k]
      IN  /\ removed = {} /\ <<a, b>> \in Dominance(m_succs) => j <= k
          /\ k >= j /\ a \in Succs(m_succs, b) =>
               /\ b \in Reach(m_succs, a, removed)
               /\ removed = {} /\ Structured(m_succs) => <<b, a>> \in BackEdges(m_succs)

\* Every step of rpo is one Search allows, so it orders the reachable blocks.
ImplementsSearch == Promise!Spec

----------------------------------------------------------------------------
\* Why the properties hold: the inductive invariant.

\* The blocks whose calls have not returned.
Calling == {f.bb : f \in Elements(stack)}
Found == Ordered \cup Calling

\* The state has its shape; the marked blocks are those found until the result
\* is returned.
TypeOK ==
  /\ m_succs \in BuiltGraphs
  /\ removed \subseteq BasicBlock
  /\ stack \in Seq(Frame)
  /\ rpo_vector \in Seq(BasicBlock \cup {nullptr})
  /\ basic_blocks_counter \in Nat
  /\ pc \in {"call", "search", "done", "aborted", "crashed"}
  /\ marked = IF pc = "done" THEN {} ELSE Found

\* The vector is allocated by the call for the root, which is the first.  The
\* search stops without an answer with a block in hand and no place for it, or
\* with places and no block.
Control ==
  /\ pc = "call" => rpo_vector = <<>> /\ stack = <<>> /\ basic_blocks_counter # 0
  /\ pc \in {"search", "aborted", "crashed"} => rpo_vector # <<>>
  /\ pc = "aborted" => stack # <<>> /\ basic_blocks_counter = 0
  /\ pc = "crashed" => stack = <<>> /\ basic_blocks_counter # 0
  /\ pc = "done" => stack = <<>>
  /\ IF rpo_vector = <<>>
     THEN stack = <<>> /\ (pc = "done" => root \in removed)
     ELSE /\ root \in Found /\ root \notin removed
          /\ basic_blocks_counter <= Len(rpo_vector)
          /\ pc = "done" => basic_blocks_counter = 0

\* No block is found twice: the places from the counter on hold different
\* blocks, and none of those has a call left.
FoundOnce ==
  /\ \A k \in 1 .. Len(rpo_vector) :
       rpo_vector[k] = nullptr <=> k <= basic_blocks_counter
  /\ \A j, k \in 1 .. Len(rpo_vector) :
       rpo_vector[j] = rpo_vector[k] /\ rpo_vector[j] # nullptr => j = k
  /\ \A j, k \in 1 .. Len(stack) : stack[j].bb = stack[k].bb => j = k
  /\ Ordered \cap Calling = {}

\* Successor e of block b is nothing to visit, or it has been found.
Settled(b, e) == m_succs[b][e] \in removed \cup {nullptr} \cup Found

\* Each call has settled the successors it came past, a call that has returned
\* all of them.
CallsSettle ==
  /\ \A f \in Elements(stack) : \A e \in 1 .. 2 : e > f.succ => Settled(f.bb, e)
  /\ \A b \in Ordered : \A e \in 1 .. 2 : Settled(b, e)

\* The calls are a path in the graph g: from the block of a call to those of the
\* calls it led to, and from the root around every block that is not on it.
CallsFollow(g) ==
  /\ \A k \in 1 .. Len(stack) : \A j \in 1 .. k :
       stack[j].bb \in Reach(g, stack[k].bb, removed)
  /\ \A k \in 1 .. Len(stack) : \A a \in BasicBlock :
       (\A j \in k .. Len(stack) : stack[j].bb # a) =>
         stack[k].bb \in Reach(g, root, {a})

CallsLead == CallsFollow(m_succs)

\* A successor of an ordered block is behind it or leads back to it, and no
\* block behind it is needed to reach it.
OrderSoFar ==
  \A j \in 1 .. Len(rpo_vector) : rpo_vector[j] # nullptr =>
    /\ \A a \in Succs(m_succs, rpo_vector[j]) \ removed :
         \/ rpo_vector[j] \in Reach(m_succs, a, removed)
         \/ \E k \in j + 1 .. Len(rpo_vector) : rpo_vector[k] = a
    /\ \A k \in j + 1 .. Len(rpo_vector) :
         rpo_vector[j] \in Reach(m_succs, root, {rpo_vector[k]})

\* In structured code, all of it there: no call is made along a back edge, and what
\* an ordered block leads to along other edges is behind it.
Forward == Without(m_succs, BackEdges(m_succs))
ForwardSoFar ==
  Structured(m_succs) /\ removed = {} =>
    /\ CallsFollow(Forward)
    /\ stack # <<>> => stack[Len(stack)].bb = root
    /\ \A j \in 1 .. Len(rpo_vector) : rpo_vector[j] # nullptr =>
         \A a \in Succs(Forward, rpo_vector[j]) :
           \E k \in j + 1 .. Len(rpo_vector) : rpo_vector[k] = a

\* The invariant every step keeps, Core by itself: SizeMatters and Topological
\* speak of the end alone.
Core ==
  /\ TypeOK /\ Control /\ FoundOnce /\ CallsSettle
  /\ Found \subseteq Expected
  /\ CallsLead /\ OrderSoFar
IInv == Core /\ ForwardSoFar

=============================================================================
