------------------------------ MODULE LoopTree ------------------------------
(***************************************************************************)
(* analysis::loop_tree, lib/analysis/loop.hpp.  It computes the dominator  *)
(* tree, collects the back edges with a depth first search, orders the     *)
(* blocks with graph::rpo and then fills the loops from the last header in *)
(* that order to the first, walking from the latches of each against the   *)
(* edges.  The two recursions, collect_back_edges and loop_search, are the *)
(* sequence `calls`, whose head is the running call.                       *)
(***************************************************************************)
EXTENDS Cfg, Vectors, SequencesExt

CONSTANTS
  CfgGraphs,   \* the control flow graphs to analyse
  noLoop       \* no loop (loops are named by their header, the root by nullptr)

ASSUME GraphsAssumption == CfgGraphs \subseteq BuiltGraphs
ASSUME NoLoopAssumption == noLoop \notin BasicBlock \cup {nullptr}

VARIABLES
  m_succs, m_preds,   \* the graph
  removed, marked, stack, basic_blocks_counter, rpo_vector, pc,  \* of graph::rpo
  dom_tree,           \* block -> the blocks it strictly dominates
  loops,              \* loop_tree: header -> Loop
  bb_to_loop,         \* block -> header of the innermost loop found so far
  dfs_marked, grey,   \* the blocks that hold Marker::dfs, Marker::grey
  calls,              \* the recursion
  cursor,             \* place in rpo_vector of the header being filled
  latch,              \* place in its latches of the next loop_search
  phase               \* where loop_tree is

rpoVars == <<removed, marked, stack, basic_blocks_counter, rpo_vector, pc>>
graphVars == <<m_succs, m_preds, dom_tree>>
searchVars == <<dfs_marked, grey, calls>>
placeVars == <<cursor, latch>>
vars == <<graphVars, rpoVars, searchVars, placeVars, loops, bb_to_loop, phase>>

Rpo == INSTANCE Rpo

EmptyLoop == [latches |-> <<>>, basic_blocks |-> <<>>, reducible |-> FALSE,
              outer_loop |-> noLoop, inner_loops |-> {}]

----------------------------------------------------------------------------
\* The Builder appends a block to the predecessors of its targets when it makes
\* the block's terminator, the true target first; terminators may be made in
\* any order of the blocks.
Orders == {s \in [1 .. Cardinality(BasicBlock) -> BasicBlock] : Elements(s) = BasicBlock}

\* Edge 2k - 1 is the one to the true successor of block k in the order, edge 2k
\* that to the false one.
Preds(g, order) ==
  LET source == [e \in 1 .. 2 * Len(order) |-> order[(e + 1) \div 2]]
      Target(e) == g[source[e]][2 - (e % 2)]
  IN  [b \in BasicBlock |-> Kept(source, {e \in DOMAIN source : Target(e) = b})]

Start ==
  /\ \E order \in Orders : m_preds = Preds(m_succs, order)
  /\ removed = {} /\ marked = {} /\ stack = <<>> /\ rpo_vector = <<>>
  /\ basic_blocks_counter = 0 /\ pc = "done"
  /\ dom_tree = [b \in {} |-> {}]
  /\ loops = [b \in {} |-> EmptyLoop]
  /\ bb_to_loop = [b \in BasicBlock |-> noLoop]
  /\ dfs_marked = {} /\ grey = {} /\ calls = <<>>
  /\ cursor = 0 /\ latch = 0
  /\ phase = "dom"

Init == m_succs \in CfgGraphs /\ Start

Top == Head(calls)
Call(b) == [bb |-> b, next |-> 1]
Advanced == <<[Top EXCEPT !.next = @ + 1]>> \o Tail(calls)

----------------------------------------------------------------------------
\* collect_back_edges.

Collect_NotGrey(b, callers) ==  \* mutant
  /\ dfs_marked' = dfs_marked \cup {b}
  /\ calls' = <<Call(b)>> \o callers
  /\ UNCHANGED grey

Collect(b, callers) ==
  /\ dfs_marked' = dfs_marked \cup {b}
  /\ grey' = grey \cup {b}
  /\ calls' = <<Call(b)>> \o callers

\* graph::dom, which module Dom models, returns; the search starts at the root.
CallDom ==
  /\ phase = "dom"
  /\ dom_tree' = StrictlyDominated(m_succs)
  /\ Collect(root, <<>>)
  /\ phase' = "collect"
  /\ UNCHANGED <<m_succs, m_preds, rpoVars, placeVars, loops, bb_to_loop>>

Collecting == phase = "collect" /\ calls # <<>>
Successor == m_succs[Top.bb][Top.next]

\* The loop of header h gets another latch.
WithLatch(h, l) ==
  LET loop == IF h \in DOMAIN loops THEN loops[h] ELSE EmptyLoop
  IN  [loop EXCEPT !.latches = Append(@, l),
                   !.reducible = @ \/ l \in dom_tree[h]]

WithLoop(h, loop) ==
  [b \in DOMAIN loops \cup {h} |-> IF b = h THEN loop ELSE loops[b]]

BackEdge ==
  /\ Collecting /\ Top.next <= 2
  /\ Successor \in grey
  /\ loops' = WithLoop(Successor, WithLatch(Successor, Top.bb))
  /\ calls' = Advanced
  /\ UNCHANGED <<graphVars, rpoVars, dfs_marked, grey, placeVars, bb_to_loop, phase>>

OtherEdge ==
  /\ Collecting /\ Top.next <= 2
  /\ Successor = nullptr \/ Successor \in dfs_marked \ grey
  /\ calls' = Advanced
  /\ UNCHANGED <<graphVars, rpoVars, dfs_marked, grey, placeVars, loops,
                 bb_to_loop, phase>>

TreeEdge ==
  /\ Collecting /\ Top.next <= 2
  /\ Successor \notin dfs_marked \cup {nullptr}
  /\ Collect(Successor, Advanced)
  /\ UNCHANGED <<graphVars, rpoVars, placeVars, loops, bb_to_loop, phase>>

CollectReturn ==
  /\ Collecting /\ Top.next = 3
  /\ grey' = grey \ {Top.bb}
  /\ calls' = Tail(calls)
  /\ UNCHANGED <<graphVars, rpoVars, dfs_marked, placeVars, loops, bb_to_loop, phase>>

----------------------------------------------------------------------------
\* graph::rpo, called with the number of reachable blocks.

Size_OneShort == Cardinality(DOMAIN dom_tree) - 1  \* mutant
Size == Cardinality(DOMAIN dom_tree)

CallRpo ==
  /\ phase = "collect" /\ calls = <<>>
  /\ dfs_marked' = dfs_marked \ DOMAIN dom_tree
  /\ grey' = grey \ DOMAIN dom_tree
  /\ basic_blocks_counter' = Size
  /\ pc' = "call"
  /\ phase' = "order"
  /\ UNCHANGED <<graphVars, removed, marked, stack, rpo_vector, calls, placeVars,
                 loops, bb_to_loop>>

RpoStep ==
  /\ phase = "order" /\ pc # "done"
  /\ Rpo!Next
  /\ UNCHANGED <<m_preds, dom_tree, searchVars, placeVars, loops, bb_to_loop, phase>>

RpoReturn ==
  /\ phase = "order" /\ pc = "done"
  /\ cursor' = Len(rpo_vector)
  /\ phase' = "populate"
  /\ UNCHANGED <<graphVars, rpoVars, searchVars, latch, loops, bb_to_loop>>

----------------------------------------------------------------------------
\* populate_loops.

Populating == phase = "populate" /\ cursor > 0
Header == rpo_vector[cursor]
Ordered == {rpo_vector[k] : k \in 1 .. Len(rpo_vector)}

NotAHeader ==
  /\ Populating /\ Header \notin DOMAIN loops
  /\ cursor' = cursor - 1
  /\ UNCHANGED <<graphVars, rpoVars, searchVars, latch, loops, bb_to_loop, phase>>

\* The next header in rpo_vector; Marker::dfs is deleted from its entries.
NextHeader_KeepMarks == cursor' = cursor - 1 /\ UNCHANGED dfs_marked  \* mutant
NextHeader == cursor' = cursor - 1 /\ dfs_marked' = dfs_marked \ Ordered

IrreducibleLoop ==
  /\ Populating /\ Header \in DOMAIN loops
  /\ ~ loops[Header].reducible
  /\ LET latches == loops[Header].latches
     IN  /\ loops' = [loops EXCEPT ![Header].basic_blocks = <<Header>> \o latches]
         /\ bb_to_loop' = [b \in BasicBlock |->
              IF b \in {Header} \cup ToSet(latches) THEN Header ELSE bb_to_loop[b]]
  /\ NextHeader
  /\ UNCHANGED <<graphVars, rpoVars, grey, calls, latch, phase>>

ReducibleLoop ==
  /\ Populating /\ Header \in DOMAIN loops
  /\ loops[Header].reducible
  /\ loops' = [loops EXCEPT ![Header].basic_blocks = <<Header>>]
  /\ bb_to_loop' = [bb_to_loop EXCEPT ![Header] = Header]
  /\ dfs_marked' = dfs_marked \cup {Header}
  /\ latch' = 1
  /\ phase' = "search"
  /\ UNCHANGED <<graphVars, rpoVars, grey, calls, cursor>>

\* A call of loop_search for block b, which is in no loop yet, or in a loop that
\* is in no loop yet, or in one that is.
Claim_Outermost(b) ==  \* mutant
  /\ bb_to_loop' = [bb_to_loop EXCEPT ![b] = Header]
  /\ UNCHANGED loops

Claim(b) ==
  LET inner == bb_to_loop[b]
  IN  \/ /\ inner = noLoop
         /\ bb_to_loop' = [bb_to_loop EXCEPT ![b] = Header]
         /\ UNCHANGED loops
      \/ /\ inner # noLoop /\ loops[inner].outer_loop = noLoop
         /\ loops' = [loops EXCEPT ![inner].outer_loop = Header,
                                   ![Header].inner_loops = @ \cup {inner}]
         /\ UNCHANGED bb_to_loop
      \/ /\ inner # noLoop /\ loops[inner].outer_loop # noLoop
         /\ UNCHANGED <<loops, bb_to_loop>>

LoopSearch(b, callers) ==
  /\ dfs_marked' = dfs_marked \cup {b}
  /\ Claim(b)
  /\ calls' = <<Call(b)>> \o callers

Searching == phase = "search" /\ calls # <<>>

SearchLatch ==
  /\ phase = "search" /\ calls = <<>>
  /\ latch <= Len(loops[Header].latches)
  /\ LoopSearch(loops[Header].latches[latch], <<>>)
  /\ latch' = latch + 1
  /\ UNCHANGED <<graphVars, rpoVars, grey, cursor, phase>>

Pred == m_preds[Top.bb][Top.next]
HasPred_SkipFirst == Top.next < Len(m_preds[Top.bb])  \* mutant
HasPred == Top.next <= Len(m_preds[Top.bb])

SearchPred ==
  /\ Searching /\ HasPred
  /\ Pred \notin dfs_marked
  /\ LoopSearch(Pred, Advanced)
  /\ UNCHANGED <<graphVars, rpoVars, grey, placeVars, phase>>

SkipPred ==
  /\ Searching /\ HasPred
  /\ Pred \in dfs_marked
  /\ calls' = Advanced
  /\ UNCHANGED <<graphVars, rpoVars, dfs_marked, grey, placeVars, loops,
                 bb_to_loop, phase>>

SearchReturn ==
  /\ Searching /\ ~ HasPred
  /\ loops' = [loops EXCEPT ![Header].basic_blocks = Append(@, Top.bb)]
  /\ calls' = Tail(calls)
  /\ UNCHANGED <<graphVars, rpoVars, dfs_marked, grey, placeVars, bb_to_loop, phase>>

LoopDone ==
  /\ phase = "search" /\ calls = <<>>
  /\ latch > Len(loops[Header].latches)
  /\ NextHeader
  /\ phase' = "populate"
  /\ UNCHANGED <<graphVars, rpoVars, grey, calls, latch, loops, bb_to_loop>>

----------------------------------------------------------------------------
\* The rest of loop_tree: the root loop has the blocks of no loop, and the
\* loops that are in no other are in it.
Finish ==
  /\ phase = "populate" /\ cursor = 0
  /\ LET outermost == {h \in DOMAIN loops : loops[h].outer_loop = noLoop}
         rest == Kept(rpo_vector, {k \in DOMAIN rpo_vector : bb_to_loop[rpo_vector[k]] = noLoop})
         root_loop == [EmptyLoop EXCEPT !.basic_blocks = rest,
                                        !.inner_loops = outermost]
     IN  loops' = [h \in DOMAIN loops \cup {nullptr} |->
                     IF h = nullptr THEN root_loop
                     ELSE IF h \in outermost
                     THEN [loops[h] EXCEPT !.outer_loop = nullptr]
                     ELSE loops[h]]
  /\ phase' = "done"
  /\ UNCHANGED <<graphVars, rpoVars, searchVars, placeVars, bb_to_loop>>

Next ==
  \/ CallDom \/ BackEdge \/ OtherEdge \/ TreeEdge \/ CollectReturn
  \/ CallRpo \/ RpoStep \/ RpoReturn
  \/ NotAHeader \/ IrreducibleLoop \/ ReducibleLoop
  \/ SearchLatch \/ SearchPred \/ SkipPred \/ SearchReturn \/ LoopDone
  \/ Finish

Spec == Init /\ [][Next]_vars

\* The program is sequential: it runs on while it has a step to take.
FairSpec == Spec /\ WF_vars(Next)

----------------------------------------------------------------------------
\* Properties.

Done == phase = "done"
Headers == DOMAIN loops \ {nullptr}
Blocks(h) == ToSet(loops[h].basic_blocks)

\* No cycle of reachable blocks escapes the analysis: each has a loop header,
\* whatever the graph.
EveryCycleHasHeader == Done => CutsCycles(m_succs, Headers)

\* Markers are shared with every other algorithm: no reachable block keeps one.
MarkersClean == Done => Reachable(m_succs) \cap (dfs_marked \cup grey \cup marked) = {}

\* In structured code the loops are the natural loops, each block listed once,
\* the header first and the latch last.
LoopsAreNatural ==
  Done /\ Structured(m_succs) =>
    /\ Headers = {e[2] : e \in BackEdges(m_succs)}
    /\ \A h \in Headers :
         LET bbs == loops[h].basic_blocks
         IN  /\ ToSet(bbs) = NaturalLoop(m_succs, h)
             /\ IsInjective(bbs)
             /\ bbs[1] = h
             /\ <<bbs[Len(bbs)], h>> \in BackEdges(m_succs)

\* In structured code the outer loop of a loop is the smallest loop around it,
\* its inner loops are the loops it is the outer one of, and the root loop has
\* what is in no loop.
NestingIsContainment ==
  Done /\ Structured(m_succs) =>
    /\ \A h \in Headers :
         LET around == {o \in Headers \ {h} : h \in Blocks(o)}
             outer == loops[h].outer_loop
         IN  IF around = {}
             THEN outer = nullptr
             ELSE outer \in around /\ \A o \in around : Blocks(outer) \subseteq Blocks(o)
    /\ \A o \in DOMAIN loops :
         loops[o].inner_loops = {h \in Headers : loops[h].outer_loop = o}
    /\ Blocks(nullptr) = BasicBlock \ UNION {Blocks(h) : h \in Headers}

\* A loop lies in some other loop or in the root loop, as the tests of loop_tree
\* expect of each loop they build, those with several latches included.
NoLoopInItself ==
  Done => \A h \in Headers : IsInjective(loops[h].latches) => loops[h].outer_loop # h

\* loop_tree returns.
Termination == <>Done

----------------------------------------------------------------------------
\* Why the properties hold: the inductive invariant.

Frame == [bb : BasicBlock, next : Nat \ {0}]
Loop == [latches : Seq(BasicBlock), basic_blocks : Seq(BasicBlock), reducible : BOOLEAN,
         outer_loop : BasicBlock \cup {noLoop, nullptr}, inner_loops : SUBSET BasicBlock]

Running == {f.bb : f \in Elements(calls)}

\* The state has its shape.  A block lists its predecessors, in whatever order.
TypeOK ==
  /\ m_succs \in CfgGraphs
  /\ m_preds \in [BasicBlock -> Seq(BasicBlock)]
  /\ \A b \in BasicBlock : Elements(m_preds[b]) = {a \in BasicBlock : b \in Succs(m_succs, a)}
  /\ phase \in {"dom", "collect", "order", "populate", "search", "done"}
  /\ phase # "dom" => dom_tree = StrictlyDominated(m_succs)
  /\ loops \in [DOMAIN loops -> Loop]
  /\ Headers \subseteq Reachable(m_succs)
  /\ nullptr \in DOMAIN loops <=> phase = "done"
  /\ bb_to_loop \in [BasicBlock -> BasicBlock \cup {noLoop}]
  /\ dfs_marked \subseteq BasicBlock
  /\ calls \in Seq(Frame)
  /\ \A j, k \in 1 .. Len(calls) : calls[j].bb = calls[k].bb => j = k
  /\ phase \notin {"collect", "search"} => calls = <<>>
  /\ cursor \in Nat /\ latch \in Nat
  /\ phase = "search" => latch # 0 /\ Header \in Headers /\ Running \subseteq dfs_marked

\* The calls of graph::dom, collect_back_edges and graph::rpo find none of the
\* markers that they look at; rpo_vector stays as it was returned.
MarkersSoFar ==
  /\ removed = {}
  /\ IF phase \in {"dom", "collect"}
     THEN /\ pc = "done" /\ marked = {} /\ stack = <<>> /\ rpo_vector = <<>>
          /\ phase = "dom" => dfs_marked = {} /\ grey = {}
     ELSE /\ Rpo!IInv
          /\ phase # "order" => pc = "done"
          /\ Reachable(m_succs) \cap grey = {}
          /\ phase # "search" => Reachable(m_succs) \cap dfs_marked = {}
  /\ phase \in {"populate", "search"} => cursor <= Len(rpo_vector)
  /\ phase = "search" => cursor > 0

\* The blocks whose calls of collect_back_edges have returned.
Black == dfs_marked \ grey

\* A call has passed edge e of the block b.
Passed(b, e) ==
  \/ b \in Black
  \/ \E k \in 1 .. Len(calls) : calls[k].bb = b /\ e < calls[k].next

\* The edges that were passed lead to what was left before, to headers, or to
\* the block of the next call.  So no cycle avoids the headers: its last block to
\* be left would have an edge to one that was left before.
CollectSoFar ==
  /\ phase = "dom" => Headers = {}
  /\ phase = "collect" =>
       /\ grey = Running /\ grey \cup Headers \subseteq dfs_marked
       /\ root \in dfs_marked /\ dfs_marked \subseteq Reachable(m_succs)
       /\ \A k \in 1 .. Len(calls) :
            /\ calls[k].next <= 3
            /\ \A e \in 1 .. 2 : e < calls[k].next =>
                 \/ m_succs[calls[k].bb][e] \in {nullptr} \cup Black \cup Headers
                 \/ k > 1 /\ m_succs[calls[k].bb][e] = calls[k - 1].bb
       /\ \A b \in Black : Succs(m_succs, b) \subseteq Black \cup Headers
       /\ \A b \in Black \ Headers : \A c \in Succs(m_succs, b) : b \notin Reach(m_succs, c, Headers)
  /\ phase \notin {"dom", "collect"} => CutsCycles(m_succs, Headers)

\* In structured code: the calls are a path without back edges, from the root
\* around whatever is not on it, ...
Forward == Without(m_succs, BackEdges(m_succs))
CallsLead ==
  /\ \A k \in 1 .. Len(calls) : \A j \in 1 .. k :
       calls[j].bb \in Reach(Forward, calls[k].bb, {})
  /\ \A k \in 1 .. Len(calls) : \A a \in BasicBlock :
       (\A j \in k .. Len(calls) : calls[j].bb # a) => calls[k].bb \in Reach(Forward, root, {a})
  /\ calls # <<>> => calls[Len(calls)].bb = root

\* ... and each header has one latch, from which a back edge was passed.
HasLatch(h) ==
  \E l \in BasicBlock :
    /\ loops[h].latches = <<l>> /\ loops[h].reducible
    /\ <<l, h>> \in BackEdges(m_succs)
    /\ phase = "collect" => \E e \in 1 .. 2 : Passed(l, e) /\ m_succs[l][e] = h

LatchesSoFar ==
  Structured(m_succs) =>
    /\ phase = "collect" => CallsLead
    /\ \A h \in Headers : HasLatch(h)
    /\ phase = "collect" => \A b \in BasicBlock : \A e \in 1 .. 2 :
         Passed(b, e) /\ <<b, m_succs[b][e]>> \in BackEdges(m_succs) => m_succs[b][e] \in Headers
    /\ phase \notin {"dom", "collect"} => Headers = {e[2] : e \in BackEdges(m_succs)}

\* The loops that are filled, and those to come.
Filled == {rpo_vector[k] : k \in cursor + 1 .. Len(rpo_vector)} \cap Headers
ToCome == Headers \ (Filled \cup IF phase = "search" THEN {Header} ELSE {})

IsNatural(h) ==
  LET bbs == loops[h].basic_blocks
  IN  /\ Elements(bbs) = NaturalLoop(m_succs, h)
      /\ \A j, k \in 1 .. Len(bbs) : bbs[j] = bbs[k] => j = k
      /\ bbs[1] = h
      /\ <<bbs[Len(bbs)], h>> \in BackEdges(m_succs)

\* The walk from the latch stays in the natural loop and is closed under the
\* predecessors it came past.  The blocks it left are listed, the latch last.
SearchSoFar ==
  LET bbs == loops[Header].basic_blocks
  IN  /\ Header \in Headers
      /\ Header \in dfs_marked /\ dfs_marked \subseteq NaturalLoop(m_succs, Header)
      /\ Running \subseteq dfs_marked \ {Header}
      /\ Elements(bbs) = dfs_marked \ Running
      /\ \A j, k \in 1 .. Len(bbs) : bbs[j] = bbs[k] => j = k
      /\ bbs[1] = Header
      /\ latch = 1 => dfs_marked = {Header} /\ calls = <<>>
      /\ latch # 1 =>
           /\ latch = 2 /\ loops[Header].latches[1] \in dfs_marked
           /\ (IF calls = <<>> THEN bbs[Len(bbs)] ELSE calls[Len(calls)].bb) =
                loops[Header].latches[1]
      /\ \A b \in dfs_marked \ (Running \cup {Header}) : Elements(m_preds[b]) \subseteq dfs_marked
      /\ \A k \in 1 .. Len(calls) : \A n \in 1 .. Len(m_preds[calls[k].bb]) :
           n < calls[k].next => m_preds[calls[k].bb][n] \in dfs_marked

\* The header of the smallest natural loop around the block b, of those in hs.
Smallest(hs, b, loop) ==
  IF loop = noLoop
  THEN \A o \in hs : b \notin NaturalLoop(m_succs, o)
  ELSE /\ loop \in hs /\ b \in NaturalLoop(m_succs, loop)
       /\ \A o \in hs : b \in NaturalLoop(m_succs, o) =>
            NaturalLoop(m_succs, loop) \subseteq NaturalLoop(m_succs, o)

\* The walk has been to a block that lies in the loop h and in no smaller one.
Met(h) == phase = "search" /\ \E b \in dfs_marked : bb_to_loop[b] = h

\* Among the loops that are filled, each block is mapped to the smallest around it
\* and each loop lies in the next; the walk adds what it meets to its loop.
NestedSoFar ==
  /\ \A b \in BasicBlock :
       IF phase = "search" /\ b \in dfs_marked /\ Smallest(Filled, b, noLoop)
       THEN bb_to_loop[b] = Header
       ELSE Smallest(Filled, b, bb_to_loop[b])
  /\ \A h \in Filled :
       IF Smallest(Filled \ {h}, h, noLoop) /\ Met(h)
       THEN loops[h].outer_loop = Header
       ELSE Smallest(Filled \ {h}, h, loops[h].outer_loop)
  /\ \A h \in Headers \ Filled : loops[h].outer_loop = noLoop
  /\ \A o \in Headers : loops[o].inner_loops = {h \in Headers : loops[h].outer_loop = o}

LoopsSoFar ==
  Structured(m_succs) =>
    /\ phase \in {"dom", "collect", "order"} =>
         /\ \A h \in Headers :
              /\ loops[h].basic_blocks = <<>> /\ loops[h].outer_loop = noLoop
              /\ loops[h].inner_loops = {}
         /\ \A b \in BasicBlock : bb_to_loop[b] = noLoop
    /\ phase \in {"populate", "search"} =>
         /\ \A h \in Filled : IsNatural(h)
         /\ \A h \in ToCome : loops[h].basic_blocks = <<>>
         /\ NestedSoFar
    /\ phase = "search" => SearchSoFar
    /\ LoopsAreNatural /\ NestingIsContainment

\* The invariant every step keeps; the first three parts do so by themselves.
Core == TypeOK /\ MarkersSoFar /\ CollectSoFar
IInv == Core /\ LatchesSoFar /\ LoopsSoFar

=============================================================================
