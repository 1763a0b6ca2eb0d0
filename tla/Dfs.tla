-------------------------------- MODULE Dfs --------------------------------
(***************************************************************************)
(* graph::dfs, lib/graph/dfs.hpp.  The recursion of dfs_algorithm is the   *)
(* sequence `stack`, whose head is the running call: its block and which   *)
(* of the two process_successor calls comes next.                          *)
(***************************************************************************)
EXTENDS Cfg, Vectors

VARIABLES
  m_succs,      \* the graph
  removed,      \* the blocks that hold Marker::removed
  marked,       \* the blocks that hold Marker::dfs
  stack,        \* the calls of dfs_algorithm that have not returned
  dfs_vector,   \* the result
  pc            \* "call", "search" or "done"

vars == <<m_succs, removed, marked, stack, dfs_vector, pc>>

Frame == [bb : BasicBlock, succ : 1 .. 3]

Found == Elements(dfs_vector)

\* Every step of the traversal is one that Search allows.
Promise == INSTANCE Search WITH visited <- Found, finished <- (pc = "done")

----------------------------------------------------------------------------

\* dom marks one block removed before it calls dfs; nothing else does.
Init ==
  /\ m_succs \in BuiltGraphs
  /\ removed \in {{}} \cup {{b} : b \in BasicBlock}
  /\ marked = {}
  /\ stack = <<>>
  /\ dfs_vector = <<>>
  /\ pc = "call"

\* A call of dfs_algorithm for block b by the calls in `callers`.
Enter_Unmarked(b, callers) ==  \* mutant
  /\ UNCHANGED marked
  /\ dfs_vector' = Append(dfs_vector, b)
  /\ stack' = <<[bb |-> b, succ |-> 1]>> \o callers

Enter(b, callers) ==
  /\ marked' = marked \cup {b}
  /\ dfs_vector' = Append(dfs_vector, b)
  /\ stack' = <<[bb |-> b, succ |-> 1]>> \o callers

CallRemoved ==
  /\ pc = "call" /\ root \in removed
  /\ pc' = "done"
  /\ UNCHANGED <<m_succs, removed, marked, stack, dfs_vector>>

Call ==
  /\ pc = "call" /\ root \notin removed
  /\ Enter(root, <<>>)
  /\ pc' = "search"
  /\ UNCHANGED <<m_succs, removed>>

InCall == pc = "search" /\ stack # <<>>
Top == Head(stack)

\* The argument of the next process_successor, and the stack after that call.
Successor == m_succs[Top.bb][Top.succ]
Advanced_Twice == <<[Top EXCEPT !.succ = 3]>> \o Tail(stack)  \* mutant
Advanced == <<[Top EXCEPT !.succ = @ + 1]>> \o Tail(stack)

Ignored_Removed(c) == c = nullptr \/ c \in marked  \* mutant
Ignored(c) == c = nullptr \/ c \in removed \/ c \in marked

IgnoreSuccessor ==
  /\ InCall /\ Top.succ <= 2
  /\ Ignored(Successor)
  /\ stack' = Advanced
  /\ UNCHANGED <<m_succs, removed, marked, dfs_vector, pc>>

VisitSuccessor ==
  /\ InCall /\ Top.succ <= 2
  /\ ~ Ignored(Successor)
  /\ Enter(Successor, Advanced)
  /\ UNCHANGED <<m_succs, removed, pc>>

Return ==
  /\ InCall /\ Top.succ = 3
  /\ stack' = Tail(stack)
  /\ UNCHANGED <<m_succs, removed, marked, dfs_vector, pc>>

\* The blocks of the result lose Marker::dfs.
Unmark ==
  /\ pc = "search" /\ stack = <<>>
  /\ marked' = marked \ Found
  /\ pc' = "done"
  /\ UNCHANGED <<m_succs, removed, stack, dfs_vector>>

Next ==
  CallRemoved \/ Call \/ IgnoreSuccessor \/ VisitSuccessor \/ Return \/ Unmark

Spec == Init /\ [][Next]_vars

----------------------------------------------------------------------------
\* Properties.

\* The state has its shape; the marked blocks are those found until the result
\* is returned.
TypeOK ==
  /\ m_succs \in BuiltGraphs
  /\ removed \subseteq BasicBlock
  /\ stack \in Seq(Frame)
  /\ dfs_vector \in Seq(BasicBlock)
  /\ pc \in {"call", "search", "done"}
  /\ marked = IF pc = "done" THEN {} ELSE Found

\* No block is found twice, so the recursion is no deeper than the function has
\* blocks.
FoundOnce ==
  /\ \A j, k \in 1 .. Len(dfs_vector) : dfs_vector[j] = dfs_vector[k] => j = k
  /\ \A j, k \in 1 .. Len(stack) : stack[j].bb = stack[k].bb => j = k

\* The result is the set of reachable blocks that are not removed, found in an
\* order that Search allows.
FindsReachable == Promise!FindsReachable
ImplementsSearch == Promise!Spec

\* The recursion ends in every graph, loops and removed blocks included, as no
\* step of it is idle: it finds a block that was not found before, or ends a call,
\* or takes one past a successor, or is the last.  Only so many of each can
\* follow each other.  A successor that was found is never called again because its
\* marker was set before its own successors were looked at (lines 16-29).
Progresses ==
  [][\/ Found \subseteq Found' /\ Found # Found'
     \/ /\ Found' = Found
        /\ \/ pc # "done" /\ pc' = "done"
           \/ Len(stack') < Len(stack)
           \/ /\ Len(stack') = Len(stack) /\ stack # <<>>
              /\ Head(stack').succ > Head(stack).succ]_vars

----------------------------------------------------------------------------
\* Why the properties hold: the inductive invariant.

\* Successor e of block b is nothing to visit, or it has been found.
Settled(b, e) == m_succs[b][e] \in removed \cup {nullptr} \cup Found

\* Each call is for a found block and has settled the successors it came past;
\* a found block whose call has returned has settled them all.
CallsSettle ==
  /\ \A f \in Elements(stack) :
       f.bb \in Found /\ \A e \in 1 .. 2 : e < f.succ => Settled(f.bb, e)
  /\ \A b \in Found :
       (\E f \in Elements(stack) : f.bb = b) \/ \A e \in 1 .. 2 : Settled(b, e)

\* Nothing is found before the traversal starts, then the root is, if it is not
\* removed; in the end no call is left.
RootFirst ==
  /\ pc = "call" => dfs_vector = <<>> /\ stack = <<>>
  /\ pc = "search" => root \in Found /\ root \notin removed
  /\ pc = "done" => stack = <<>> /\ IF Found = {} THEN root \in removed ELSE root \in Found

\* The invariant every step keeps: Search ends only when no successor is left,
\* which FoundOnce and TypeOK alone do not tell.
IInv == TypeOK /\ FoundOnce /\ CallsSettle /\ RootFirst

=============================================================================
