--------------------------- MODULE LoopTreeProofs ---------------------------
(***************************************************************************)
(* loop_tree finds a header on every cycle and leaves no marker behind, in *)
(* any function; in structured code the loops it builds are the natural    *)
(* loops, each in the smallest one around it.                              *)
(***************************************************************************)
EXTENDS LoopTree, CfgProofs

RpoP == INSTANCE RpoProofs

(***************************************************************************)
(* What is known of graph::rpo.                                            *)
(***************************************************************************)

\* The graphs of rpo are these graphs.
LEMMA SameGraphs ==
  /\ \A g, x : Rpo!Succs(g, x) = Succs(g, x)
  /\ \A g, x, y : Rpo!Reach(g, x, y) = Reach(g, x, y)
  /\ Rpo!Structured(m_succs) <=> Structured(m_succs)
  /\ Rpo!Forward = Forward
<1>1. \A g, x : Rpo!Succs(g, x) = Succs(g, x)
  BY DEF Rpo!Succs, Succs
<1>2. \A g, x, y : Rpo!Reach(g, x, y) = Reach(g, x, y)
  BY <1>1 DEF Rpo!Reach, Reach, Rpo!ClosedUnder, ClosedUnder
<1>3. \A g : Rpo!Reachable(g) = Reachable(g)
  BY <1>2 DEF Rpo!Reachable, Reachable
<1>4. \A g : Rpo!Dominance(g) = Dominance(g)
  BY <1>1, <1>3 DEF Rpo!Dominance, Dominance, Rpo!SimplePaths, SimplePaths,
         Rpo!Cardinality, Cardinality
<1>5. \A g : Rpo!BackEdges(g) = BackEdges(g)
  BY <1>1, <1>3, <1>4 DEF Rpo!BackEdges, BackEdges
<1>6. \A g : Rpo!CutsCycles(g, {}) <=> CutsCycles(g, {})
  BY <1>1, <1>2, <1>3 DEF Rpo!CutsCycles, CutsCycles
<1>7. \A g, e : Rpo!Without(g, e) = Without(g, e)
  BY DEF Rpo!Without, Without
<1>8. \A g, x, y : Rpo!Edges(g, x, y) = Edges(g, x, y)
  BY DEF Rpo!Edges, Edges
<1>9. \A S : Rpo!Cardinality(S) = Cardinality(S)
  BY DEF Rpo!Cardinality, Cardinality
<1>10. Rpo!Structured(m_succs) <=> Structured(m_succs)
  BY <1>3, <1>5, <1>6, <1>7, <1>8, <1>9 DEF Rpo!Structured, Structured
<1>11. Rpo!Forward = Forward
  BY <1>5, <1>7 DEF Rpo!Forward, Forward
<1> QED BY <1>1, <1>2, <1>3, <1>4, <1>5, <1>10, <1>11

LEMMA SameGraphsInProofs ==
  /\ \A g, x : RpoP!Succs(g, x) = Succs(g, x)
  /\ \A g, x, y : RpoP!Reach(g, x, y) = Reach(g, x, y)
  /\ \A g : RpoP!Reachable(g) = Reachable(g)
  /\ \A g : RpoP!Dominance(g) = Dominance(g)
  /\ \A g : RpoP!BackEdges(g) = BackEdges(g)
  /\ RpoP!Structured(m_succs) <=> Structured(m_succs)
  /\ RpoP!Forward = Forward
<1>1. \A g, x : RpoP!Succs(g, x) = Succs(g, x)
  BY DEF RpoP!Succs, Succs
<1>2. \A g, x, y : RpoP!Reach(g, x, y) = Reach(g, x, y)
  BY <1>1 DEF RpoP!Reach, Reach, RpoP!ClosedUnder, ClosedUnder
<1>3. \A g : RpoP!Reachable(g) = Reachable(g)
  BY <1>2 DEF RpoP!Reachable, Reachable
<1>4. \A g : RpoP!Dominance(g) = Dominance(g)
  BY <1>1, <1>3 DEF RpoP!Dominance, Dominance, RpoP!SimplePaths, SimplePaths,
         RpoP!Cardinality, Cardinality
<1>5. \A g : RpoP!BackEdges(g) = BackEdges(g)
  BY <1>1, <1>3, <1>4 DEF RpoP!BackEdges, BackEdges
<1>6. \A g : RpoP!CutsCycles(g, {}) <=> CutsCycles(g, {})
  BY <1>1, <1>2, <1>3 DEF RpoP!CutsCycles, CutsCycles
<1>7. \A g, e : RpoP!Without(g, e) = Without(g, e)
  BY DEF RpoP!Without, Without
<1>8. \A g, x, y : RpoP!Edges(g, x, y) = Edges(g, x, y)
  BY DEF RpoP!Edges, Edges
<1>9. \A S : RpoP!Cardinality(S) = Cardinality(S)
  BY DEF RpoP!Cardinality, Cardinality
<1>10. RpoP!Structured(m_succs) <=> Structured(m_succs)
  BY <1>3, <1>5, <1>6, <1>7, <1>8, <1>9 DEF RpoP!Structured, Structured
<1>11. RpoP!Forward = Forward
  BY <1>5, <1>7 DEF RpoP!Forward, Forward
<1> QED BY <1>1, <1>2, <1>3, <1>4, <1>5, <1>10, <1>11

\* The invariant and the steps of rpo are those its proofs speak of.
LEMMA SameRpoInvariant == Rpo!IInv <=> RpoP!IInv
<1>1. Rpo!Core <=> RpoP!Core
  BY DEF Rpo!Core, Rpo!TypeOK, Rpo!Control, Rpo!FoundOnce, Rpo!CallsSettle, Rpo!CallsLead,
         Rpo!CallsFollow, Rpo!OrderSoFar, Rpo!Settled, Rpo!Found, Rpo!Calling, Rpo!Ordered,
         Rpo!Expected, Rpo!Frame, Rpo!Elements, Rpo!BuiltGraphs, Rpo!BBSuccs, Rpo!Succs,
         Rpo!Reach, Rpo!ClosedUnder, RpoP!Core, RpoP!TypeOK, RpoP!Control, RpoP!FoundOnce,
         RpoP!CallsSettle, RpoP!CallsLead, RpoP!CallsFollow, RpoP!OrderSoFar, RpoP!Settled,
         RpoP!Found, RpoP!Calling, RpoP!Ordered, RpoP!Expected, RpoP!Frame, RpoP!Elements,
         RpoP!BuiltGraphs, RpoP!BBSuccs, RpoP!Succs, RpoP!Reach, RpoP!ClosedUnder
<1>2. Rpo!CallsFollow(Forward) <=> RpoP!CallsFollow(Forward)
  BY SameGraphs, SameGraphsInProofs DEF Rpo!CallsFollow, RpoP!CallsFollow
<1>3. Rpo!ForwardSoFar <=> RpoP!ForwardSoFar
  BY <1>2, SameGraphs, SameGraphsInProofs DEF Rpo!ForwardSoFar, RpoP!ForwardSoFar
<1> QED BY <1>1, <1>3 DEF Rpo!IInv, RpoP!IInv

LEMMA SameRpoSteps == Rpo!Next <=> RpoP!Next
BY DEF Rpo!Next, Rpo!CallRemoved, Rpo!Call, Rpo!IgnoreSuccessor, Rpo!VisitSuccessor,
       Rpo!Return, Rpo!Abort, Rpo!Unmark, Rpo!UnmarkNull, Rpo!InCall, Rpo!Top,
       Rpo!Successor, Rpo!Advanced, Rpo!Ignored, Rpo!Enter, Rpo!Full, Rpo!Ordered,
       Rpo!Elements, RpoP!Next, RpoP!CallRemoved, RpoP!Call, RpoP!IgnoreSuccessor,
       RpoP!VisitSuccessor, RpoP!Return, RpoP!Abort, RpoP!Unmark, RpoP!UnmarkNull,
       RpoP!InCall, RpoP!Top, RpoP!Successor, RpoP!Advanced, RpoP!Ignored, RpoP!Enter,
       RpoP!Full, RpoP!Ordered, RpoP!Elements

\* The graph is one of those the Builder makes.
LEMMA GraphIsBuilt == TypeOK => m_succs \in BuiltGraphs
BY GraphsAssumption DEF TypeOK

\* A call of rpo with the number of reachable blocks starts as its proofs assume.
LEMMA RpoStarts ==
  /\ m_succs \in BuiltGraphs /\ removed = {} /\ marked = {} /\ stack = <<>>
  /\ rpo_vector = <<>> /\ pc = "call" /\ basic_blocks_counter \in Nat \ {0}
  => Rpo!IInv
<1> SUFFICES ASSUME m_succs \in BuiltGraphs, removed = {}, marked = {}, stack = <<>>,
                    rpo_vector = <<>>, pc = "call", basic_blocks_counter \in Nat \ {0}
             PROVE  Rpo!IInv
  OBVIOUS
<1>1. /\ Rpo!Ordered = {} /\ Rpo!Calling = {} /\ Rpo!Found = {} /\ Rpo!Elements(stack) = {}
  BY DEF Rpo!Ordered, Rpo!Calling, Rpo!Found, Rpo!Elements
<1>2. Rpo!TypeOK
  BY <1>1 DEF Rpo!TypeOK, Rpo!BuiltGraphs, Rpo!BBSuccs, BuiltGraphs, BBSuccs
<1>3. Rpo!Control /\ Rpo!FoundOnce
  BY <1>1 DEF Rpo!Control, Rpo!FoundOnce
<1>4. Rpo!CallsSettle /\ Rpo!CallsLead /\ Rpo!OrderSoFar
  BY <1>1 DEF Rpo!CallsSettle, Rpo!CallsLead, Rpo!CallsFollow, Rpo!OrderSoFar
<1>5. Rpo!ForwardSoFar
  BY <1>1 DEF Rpo!ForwardSoFar, Rpo!CallsFollow
<1> QED BY <1>1, <1>2, <1>3, <1>4, <1>5 DEF Rpo!IInv, Rpo!Core

\* Each step of rpo keeps its invariant, the graph and Marker::removed.
LEMMA RpoGoesOn ==
  /\ Rpo!IInv /\ (Rpo!Next \/ UNCHANGED <<m_succs, rpoVars>>) => Rpo!IInv'
  /\ Rpo!Next => UNCHANGED <<m_succs, removed>>
<1>1. RpoP!IInv /\ [RpoP!Next]_(RpoP!vars) => RpoP!IInv'
  BY RpoP!NextKeepsIInv, NullAssumption, RootAssumption, BlocksAssumption
     DEF IsFiniteSet, RpoP!IsFiniteSet
<1>2. UNCHANGED <<m_succs, rpoVars>> => UNCHANGED RpoP!vars
  BY DEF rpoVars, RpoP!vars
<1>3. Rpo!IInv /\ (Rpo!Next \/ UNCHANGED <<m_succs, rpoVars>>) => Rpo!IInv'
  BY <1>1, <1>2, SameRpoInvariant, SameRpoSteps, PTL
<1>4. Rpo!Next => UNCHANGED <<m_succs, removed>>
  BY DEF Rpo!Next, Rpo!CallRemoved, Rpo!Call, Rpo!IgnoreSuccessor, Rpo!VisitSuccessor,
         Rpo!Return, Rpo!Abort, Rpo!Unmark, Rpo!UnmarkNull
<1> QED BY <1>3, <1>4

\* What rpo returns: the reachable blocks, each once, those that dominate a block
\* before it; and no marker is left.
LEMMA RpoAnswer ==
  ASSUME Rpo!IInv, pc = "done", removed = {}
  PROVE  /\ rpo_vector \in Seq(BasicBlock) /\ marked = {}
         /\ Elements(rpo_vector) = Reachable(m_succs)
         /\ \A j, k \in 1 .. Len(rpo_vector) :
              /\ rpo_vector[j] = rpo_vector[k] => j = k
              /\ <<rpo_vector[j], rpo_vector[k]>> \in Dominance(m_succs) => j <= k
<1>0. RpoP!IInv /\ RpoP!Core
  BY SameRpoInvariant DEF RpoP!IInv
<1>1. stack = <<>> /\ rpo_vector # <<>> /\ basic_blocks_counter = 0 /\ marked = {}
  BY <1>0 DEF RpoP!Core, RpoP!TypeOK, RpoP!Control
<1>2. rpo_vector \in Seq(BasicBlock \cup {nullptr})
  BY <1>0 DEF RpoP!Core, RpoP!TypeOK
<1>3. \A k \in 1 .. Len(rpo_vector) : rpo_vector[k] # nullptr
  BY <1>0, <1>1, <1>2 DEF RpoP!Core, RpoP!FoundOnce
<1>4. rpo_vector \in Seq(BasicBlock)
  BY <1>2, <1>3
<1>5. RpoP!Ordered = Elements(rpo_vector)
  BY <1>3 DEF RpoP!Ordered, RpoP!Elements, Elements
<1>6. RpoP!Ordered = RpoP!Expected
  BY <1>0, <1>1, RpoP!OrderedIsExpected, NullAssumption, RootAssumption, BlocksAssumption
     DEF IsFiniteSet, RpoP!IsFiniteSet
<1>7. RpoP!Expected = Reachable(m_succs)
  BY DEF RpoP!Expected, RpoP!Reach, RpoP!ClosedUnder, RpoP!Succs, Reachable, Reach,
         ClosedUnder, Succs
<1>8. RpoP!Topological
  BY <1>0, RpoP!IInvTopological, NullAssumption, RootAssumption, BlocksAssumption
     DEF IsFiniteSet, RpoP!IsFiniteSet
<1>9. RpoP!Dominance(m_succs) = Dominance(m_succs)
  BY DEF RpoP!Dominance, Dominance, RpoP!SimplePaths, SimplePaths, RpoP!Reachable,
         Reachable, RpoP!Reach, Reach, RpoP!ClosedUnder, ClosedUnder, RpoP!Succs, Succs,
         RpoP!Cardinality, Cardinality
<1>10. \A j, k \in 1 .. Len(rpo_vector) : rpo_vector[j] = rpo_vector[k] => j = k
  BY <1>0, <1>3 DEF RpoP!Core, RpoP!FoundOnce
<1>11. \A j, k \in 1 .. Len(rpo_vector) :
         <<rpo_vector[j], rpo_vector[k]>> \in Dominance(m_succs) => j <= k
  BY <1>8, <1>9 DEF RpoP!Topological
<1> QED BY <1>1, <1>4, <1>5, <1>6, <1>7, <1>10, <1>11

\* In structured code the edges against the order are the back edges.
RisesForward(s) ==
  \A j, k \in 1 .. Len(s) :
    k >= j /\ s[j] \in Succs(m_succs, s[k]) => <<s[k], s[j]>> \in BackEdges(m_succs)

LEMMA RpoAnswerRises ==
  ASSUME Rpo!IInv, pc = "done", removed = {}, Structured(m_succs)
  PROVE  RisesForward(rpo_vector)
<1>1. RpoP!IInv
  BY SameRpoInvariant
<1>2. RpoP!Topological
  BY <1>1, RpoP!IInvTopological, NullAssumption, RootAssumption, BlocksAssumption
     DEF IsFiniteSet, RpoP!IsFiniteSet
<1> QED BY <1>2, SameGraphsInProofs DEF RpoP!Topological, RisesForward

(***************************************************************************)
(* The calls.                                                              *)
(***************************************************************************)

\* The blocks of any calls.
BlocksOf(s) == {f.bb : f \in Elements(s)}

\* What the running call looks at.
LEMMA RunningCall ==
  ASSUME TypeOK, calls # <<>>
  PROVE  /\ Top \in Frame /\ Top = calls[1] /\ Len(calls) \in Nat \ {0}
         /\ Top.bb \in BasicBlock /\ Top.next \in Nat \ {0}
         /\ Tail(calls) \in Seq(Frame) /\ Len(calls) = Len(Tail(calls)) + 1
         /\ \A k \in 1 .. Len(Tail(calls)) : Tail(calls)[k] = calls[k + 1]
         /\ Running = {Top.bb} \cup BlocksOf(Tail(calls))
         /\ Top.bb \notin BlocksOf(Tail(calls))
         /\ DistinctCalls(calls) /\ DistinctCalls(Tail(calls))
<1>1. calls \in Seq(Frame) /\ DistinctCalls(calls)
  BY DEF TypeOK, DistinctCalls
<1>2. /\ Top \in Frame /\ Tail(calls) \in Seq(Frame) /\ Top = calls[1]
      /\ Len(calls) = Len(Tail(calls)) + 1
      /\ \A k \in 1 .. Len(Tail(calls)) : Tail(calls)[k] = calls[k + 1]
      /\ Elements(calls) = {Top} \cup Elements(Tail(calls))
  BY <1>1, PopProperties DEF Top
<1>3. /\ DistinctCalls(Tail(calls))
      /\ \A g \in Elements(Tail(calls)) : g.bb # Top.bb
  BY <1>1, PopKeepsDistinctCalls DEF Top
<1>4. Running = {Top.bb} \cup BlocksOf(Tail(calls))
  BY <1>2 DEF Running, BlocksOf
<1>5. Top.bb \notin BlocksOf(Tail(calls))
  BY <1>3 DEF BlocksOf
<1>6. Len(calls) \in Nat \ {0}
  BY <1>1
<1>7. Top.bb \in BasicBlock /\ Top.next \in Nat \ {0}
  BY <1>2 DEF Frame
<1> QED BY <1>1, <1>2, <1>3, <1>4, <1>5, <1>6, <1>7

\* The calls are for blocks.
LEMMA CallsAreForBlocks ==
  ASSUME NEW s \in Seq(Frame)
  PROVE  /\ \A k \in 1 .. Len(s) : s[k] \in Frame /\ s[k].bb \in BasicBlock /\ s[k].bb \in BlocksOf(s)
         /\ BlocksOf(s) \subseteq BasicBlock
         /\ \A b \in BlocksOf(s) : \E k \in 1 .. Len(s) : s[k].bb = b
<1>1. \A k \in 1 .. Len(s) : s[k] \in Frame
  OBVIOUS
<1>2. \A f \in Frame : f.bb \in BasicBlock
  BY DEF Frame
<1> QED BY <1>1, <1>2 DEF BlocksOf, Elements

\* The running call comes past an edge; the blocks of the calls are the same.
LEMMA AdvancedProperties ==
  ASSUME TypeOK, calls # <<>>
  PROVE  /\ Advanced \in Seq(Frame) /\ Advanced # <<>> /\ Len(Advanced) = Len(calls)
         /\ \A k \in 1 .. Len(calls) : Advanced[k].bb = calls[k].bb
         /\ Advanced[1].next = Top.next + 1
         /\ \A k \in 2 .. Len(calls) : Advanced[k] = calls[k]
         /\ DistinctCalls(Advanced) /\ BlocksOf(Advanced) = Running
<1> DEFINE adv == [Top EXCEPT !.next = @ + 1]
           t == Tail(calls)
<1>0. /\ Top \in Frame /\ Top = calls[1] /\ Len(calls) \in Nat \ {0}
      /\ t \in Seq(Frame) /\ Len(calls) = Len(t) + 1
      /\ \A k \in 1 .. Len(t) : t[k] = calls[k + 1]
      /\ Running = {Top.bb} \cup BlocksOf(t) /\ DistinctCalls(calls)
  BY RunningCall
<1>1. adv \in Frame /\ adv.bb = Top.bb /\ adv.next = Top.next + 1
  BY <1>0 DEF Frame
<1>1a. Advanced = <<adv>> \o t
  BY DEF Advanced
<1> HIDE DEF adv, t
<1>2. /\ Advanced \in Seq(Frame) /\ Len(Advanced) = Len(t) + 1 /\ Advanced[1] = adv
      /\ \A k \in 1 .. Len(t) : Advanced[k + 1] = t[k]
      /\ Elements(Advanced) = {adv} \cup Elements(t)
  BY <1>0, <1>1, <1>1a, PushProperties
<1>3. \A k \in 2 .. Len(calls) : k - 1 \in 1 .. Len(t) /\ (k - 1) + 1 = k
  BY <1>0
<1>4. \A k \in 2 .. Len(calls) : Advanced[k] = calls[k]
  <2> TAKE k \in 2 .. Len(calls)
  <2>1. k - 1 \in 1 .. Len(t) /\ (k - 1) + 1 = k
    BY <1>3
  <2> QED BY <1>0, <1>2, <2>1
<1>5. \A k \in 1 .. Len(calls) : Advanced[k].bb = calls[k].bb
  <2> TAKE k \in 1 .. Len(calls)
  <2>1. k = 1 \/ k \in 2 .. Len(calls)
    OBVIOUS
  <2> QED BY <1>0, <1>1, <1>2, <1>4, <2>1
<1>6. Len(Advanced) = Len(calls) /\ Advanced # <<>>
  BY <1>0, <1>2
<1>7. DistinctCalls(Advanced)
  BY <1>0, <1>5, <1>6 DEF DistinctCalls
<1>8. BlocksOf(Advanced) = Running
  BY <1>0, <1>1, <1>2 DEF BlocksOf
<1> QED BY <1>1, <1>2, <1>4, <1>5, <1>6, <1>7, <1>8

\* A call for another block is put in front of other calls.
LEMMA NewCall ==
  ASSUME NEW s \in Seq(Frame), DistinctCalls(s), NEW b \in BasicBlock, b \notin BlocksOf(s)
  PROVE  LET t == <<Call(b)>> \o s
         IN  /\ t \in Seq(Frame) /\ t # <<>> /\ Len(t) = Len(s) + 1
             /\ t[1].bb = b /\ t[1].next = 1
             /\ \A k \in 1 .. Len(s) : t[k + 1] = s[k]
             /\ DistinctCalls(t) /\ BlocksOf(t) = {b} \cup BlocksOf(s)
<1> DEFINE t == <<Call(b)>> \o s
<1>1. Call(b) \in Frame /\ Call(b).bb = b /\ Call(b).next = 1
  BY DEF Call, Frame
<1>2. /\ t \in Seq(Frame) /\ Len(t) = Len(s) + 1 /\ t[1] = Call(b)
      /\ \A k \in 1 .. Len(s) : t[k + 1] = s[k]
      /\ Elements(t) = {Call(b)} \cup Elements(s)
  BY <1>1, PushProperties
<1>3. \A g \in Elements(s) : g.bb # Call(b).bb
  BY <1>1 DEF BlocksOf
<1>4. DistinctCalls(t)
  BY <1>1, <1>3, PushKeepsDistinctCalls
<1> HIDE DEF t
<1>5. BlocksOf(t) = {b} \cup BlocksOf(s)
  BY <1>1, <1>2 DEF BlocksOf
<1>6. t # <<>>
  BY <1>2
<1> QED BY <1>1, <1>2, <1>4, <1>5, <1>6 DEF t

(***************************************************************************)
(* The first three parts of the invariant: collect_back_edges.             *)
(***************************************************************************)

\* At the start there are no predecessors but those of the edges.
LEMMA PredsAreSources ==
  ASSUME NEW g \in BuiltGraphs, NEW order \in Orders
  PROVE  /\ Preds(g, order) \in [BasicBlock -> Seq(BasicBlock)]
         /\ \A b \in BasicBlock :
              Elements(Preds(g, order)[b]) = {a \in BasicBlock : b \in Succs(g, a)}
<1> DEFINE source == [e \in 1 .. 2 * Len(order) |-> order[(e + 1) \div 2]]
           Target(e) == g[source[e]][2 - (e % 2)]
           In(b) == {e \in DOMAIN source : Target(e) = b}
<1>1. order \in Seq(BasicBlock) /\ Len(order) \in Nat /\ Elements(order) = BasicBlock
  <2>1. Cardinality(BasicBlock) \in Nat
    BY BlocksAssumption, FS_CardinalityType
  <2> QED BY <2>1 DEF Orders
<1>2. /\ DOMAIN source = 1 .. 2 * Len(order)
      /\ \A e \in 1 .. 2 * Len(order) :
           (e + 1) \div 2 \in 1 .. Len(order) /\ source[e] = order[(e + 1) \div 2]
  BY <1>1
<1>3. source \in Seq(BasicBlock) /\ Len(source) = 2 * Len(order)
  <2>1. source \in [1 .. 2 * Len(order) -> BasicBlock]
    BY <1>1, <1>2
  <2> QED BY <1>1, <2>1
<1>4. ASSUME NEW b \in BasicBlock
      PROVE  /\ Kept(source, In(b)) \in Seq(BasicBlock)
             /\ Elements(Kept(source, In(b))) = {source[e] : e \in In(b)}
  <2>1. In(b) \in SUBSET (1 .. Len(source))
    BY <1>2, <1>3
  <2> HIDE DEF source, In
  <2> QED BY <1>3, <2>1, KeptElements
<1>5. Preds(g, order) = [b \in BasicBlock |-> Kept(source, In(b))]
  BY DEF Preds
<1>6. ASSUME NEW b \in BasicBlock
      PROVE  {source[e] : e \in In(b)} = {a \in BasicBlock : b \in Succs(g, a)}
  <2>1. ASSUME NEW e \in In(b) PROVE source[e] \in BasicBlock /\ b \in Succs(g, source[e])
    <3>1. source[e] \in BasicBlock
      BY <1>1, <1>2
    <3>2. 2 - (e % 2) \in {1, 2}
      BY <1>1, <1>2
    <3>3. g[source[e]][2 - (e % 2)] = b
      OBVIOUS
    <3> HIDE DEF source
    <3> QED BY <3>1, <3>2, <3>3, NullAssumption DEF Succs
  <2>2. ASSUME NEW a \in BasicBlock, b \in Succs(g, a) PROVE \E e \in In(b) : source[e] = a
    <3>1. PICK j \in 1 .. Len(order) : order[j] = a
      BY <1>1 DEF Elements
    <3>2. g[a][1] = b \/ g[a][2] = b
      BY <2>2 DEF Succs
    <3>3. CASE g[a][1] = b
      <4>1. /\ 2 * j - 1 \in 1 .. 2 * Len(order) /\ ((2 * j - 1) + 1) \div 2 = j
            /\ 2 - ((2 * j - 1) % 2) = 1
        BY <1>1
      <4> QED BY <1>2, <3>1, <3>3, <4>1
    <3>4. CASE g[a][2] = b
      <4>1. /\ 2 * j \in 1 .. 2 * Len(order) /\ ((2 * j) + 1) \div 2 = j
            /\ 2 - ((2 * j) % 2) = 2
        BY <1>1
      <4> QED BY <1>2, <3>1, <3>4, <4>1
    <3> QED BY <3>2, <3>3, <3>4
  <2> HIDE DEF source, In
  <2> QED BY <2>1, <2>2
<1> HIDE DEF source, In
<1> QED BY <1>4, <1>5, <1>6

LEMMA InitCore == Init => Core
<1> SUFFICES ASSUME Init PROVE Core
  OBVIOUS
<1>1. m_succs \in BuiltGraphs /\ m_succs \in CfgGraphs
  BY GraphsAssumption DEF Init
<1>2. PICK order \in Orders : m_preds = Preds(m_succs, order)
  BY DEF Init, Start
<1>3. Headers = {} /\ DOMAIN loops = {} /\ calls = <<>> /\ Running = {}
  BY DEF Init, Start, Headers, Running, Elements
<1>4. TypeOK
  BY <1>1, <1>2, <1>3, PredsAreSources, NullAssumption DEF Init, Start, TypeOK
<1>5. MarkersSoFar /\ CollectSoFar
  BY <1>3 DEF Init, Start, MarkersSoFar, CollectSoFar
<1> QED BY <1>4, <1>5 DEF Core

\* collect_back_edges starts at the root.
LEMMA CallDomKeepsCore == Core /\ CallDom => Core'
<1> SUFFICES ASSUME Core, CallDom PROVE Core'
  OBVIOUS
<1>1. /\ phase = "dom" /\ phase' = "collect" /\ dom_tree' = StrictlyDominated(m_succs)
      /\ dfs_marked' = dfs_marked \cup {root} /\ grey' = grey \cup {root}
      /\ calls' = <<Call(root)>> \o <<>>
      /\ UNCHANGED <<m_succs, m_preds, rpoVars, placeVars, loops, bb_to_loop>>
  BY DEF CallDom, Collect
<1>2. /\ dfs_marked' = {root} /\ grey' = {root} /\ Headers = {} /\ Headers' = {}
      /\ Black' = {} /\ root \in BasicBlock
  BY <1>1, RootAssumption DEF Core, MarkersSoFar, CollectSoFar, Headers, Black
<1>3. <<>> \in Seq(Frame) /\ DistinctCalls(<<>>) /\ BlocksOf(<<>>) = {} /\ Len(<<>>) = 0
  BY DEF DistinctCalls, BlocksOf, Elements
<1>4. /\ calls' \in Seq(Frame) /\ Len(calls') = 1 /\ calls'[1].next = 1
      /\ DistinctCalls(calls') /\ BlocksOf(calls') = {root}
  BY <1>1, <1>2, <1>3, NewCall
<1>5. TypeOK'
  BY <1>1, <1>2, <1>4 DEF Core, TypeOK, rpoVars, placeVars, DistinctCalls
<1>6. MarkersSoFar'
  BY <1>1 DEF Core, MarkersSoFar, rpoVars
<1>7. CollectSoFar'
  <2>1. Running' = {root}
    BY <1>4 DEF Running, BlocksOf
  <2>2. root \in Reachable(m_succs)
    BY RootAssumption, ReachStart DEF Reachable
  <2> QED BY <1>1, <1>2, <1>4, <2>1, <2>2 DEF CollectSoFar
<1> QED BY <1>5, <1>6, <1>7 DEF Core

\* The successor the running call looks at.
LEMMA NextSuccessor ==
  ASSUME TypeOK, Collecting, Top.next <= 2
  PROVE  /\ Top.next \in 1 .. 2 /\ Successor = m_succs[Top.bb][Top.next]
         /\ Successor \in BasicBlock \cup {nullptr}
         /\ Successor # nullptr => Successor \in Succs(m_succs, Top.bb)
<1>1. Top.bb \in BasicBlock /\ Top.next \in 1 .. 2
  BY RunningCall DEF Collecting
<1>2. m_succs[Top.bb] \in BBSuccs
  BY <1>1, GraphIsBuilt DEF BuiltGraphs
<1>3. \/ Successor = m_succs[Top.bb][1] /\ Top.next = 1
      \/ Successor = m_succs[Top.bb][2] /\ Top.next = 2
  BY <1>1 DEF Successor
<1> QED BY <1>1, <1>2, <1>3 DEF Succs, BBSuccs, Successor

\* What the steps of collect_back_edges leave alone.
LEMMA CollectKeepsType ==
  ASSUME TypeOK, phase = "collect", UNCHANGED <<graphVars, placeVars, bb_to_loop, phase>>,
         calls' \in Seq(Frame), DistinctCalls(calls'), dfs_marked' \subseteq BasicBlock,
         loops' \in [DOMAIN loops' -> Loop], nullptr \notin DOMAIN loops',
         DOMAIN loops' \subseteq Reachable(m_succs)
  PROVE  TypeOK'
BY DEF TypeOK, graphVars, placeVars, DistinctCalls, Headers

LEMMA CollectKeepsMarkers ==
  ASSUME MarkersSoFar, phase = "collect", UNCHANGED <<rpoVars, phase>>
  PROVE  MarkersSoFar'
BY DEF MarkersSoFar, rpoVars

\* While back edges are collected the loops are those of blocks.
LEMMA LoopsOfBlocks ==
  ASSUME TypeOK, phase # "done"
  PROVE  Headers = DOMAIN loops /\ nullptr \notin DOMAIN loops /\ Headers \subseteq BasicBlock
<1>1. Reachable(m_succs) \subseteq BasicBlock
  BY DEF Reachable, Reach
<1> QED BY ZenonT(60), <1>1 DEF TypeOK, Headers

\* The edges that the calls of s came past lead to settled blocks, or to the block
\* of the call before.
CallLeads(g, s, settled, k) ==
  /\ s[k].next <= 3
  /\ \A e \in 1 .. 2 : e < s[k].next =>
       \/ g[s[k].bb][e] \in {nullptr} \cup settled
       \/ k > 1 /\ g[s[k].bb][e] = s[k - 1].bb

CallsLeadTo(g, s, settled) == \A k \in 1 .. Len(s) : CallLeads(g, s, settled, k)

\* CollectSoFar with it.
LEMMA CollectMeans ==
  phase = "collect" =>
    (CollectSoFar <=>
       /\ grey = Running /\ grey \cup Headers \subseteq dfs_marked
       /\ root \in dfs_marked /\ dfs_marked \subseteq Reachable(m_succs)
       /\ CallsLeadTo(m_succs, calls, Black \cup Headers)
       /\ \A b \in Black : Succs(m_succs, b) \subseteq Black \cup Headers
       /\ \A b \in Black \ Headers : \A c \in Succs(m_succs, b) : b \notin Reach(m_succs, c, Headers))
BY DEF CollectSoFar, CallsLeadTo, CallLeads

\* If the running call came past an edge to a settled block, all calls lead to
\* settled blocks.
LEMMA AdvancedLeads ==
  ASSUME TypeOK, Collecting, Top.next <= 2, NEW before, NEW settled, before \subseteq settled,
         CallsLeadTo(m_succs, calls, before)
  PROVE  /\ \A k \in 2 .. Len(calls) : CallLeads(m_succs, Advanced, settled, k)
         /\ Successor \in {nullptr} \cup settled => CallLeads(m_succs, Advanced, settled, 1)
         /\ \A e \in 1 .. 2 : e < Top.next => m_succs[Top.bb][e] \in {nullptr} \cup settled
         /\ Advanced[1].next <= 3 /\ Advanced[1].bb = Top.bb
<1>1. /\ Len(Advanced) = Len(calls) /\ Len(calls) \in Nat \ {0} /\ Top = calls[1]
      /\ \A k \in 1 .. Len(calls) : Advanced[k].bb = calls[k].bb
      /\ Advanced[1].next = Top.next + 1 /\ \A k \in 2 .. Len(calls) : Advanced[k] = calls[k]
  BY AdvancedProperties, RunningCall DEF Collecting
<1>2. Top.next \in 1 .. 2 /\ Successor = m_succs[Top.bb][Top.next]
  BY NextSuccessor
<1>3. ASSUME NEW k \in 2 .. Len(calls) PROVE CallLeads(m_succs, Advanced, settled, k)
  <2>1. k \in 1 .. Len(calls) /\ k - 1 \in 1 .. Len(calls) /\ k > 1
    OBVIOUS
  <2>2. CallLeads(m_succs, calls, before, k)
    BY <2>1 DEF CallsLeadTo
  <2>3. Advanced[k] = calls[k] /\ Advanced[k - 1].bb = calls[k - 1].bb
    BY <1>1, <2>1
  <2> QED BY <2>1, <2>2, <2>3 DEF CallLeads
<1>4. \A e \in 1 .. 2 : e < Top.next => m_succs[Top.bb][e] \in {nullptr} \cup settled
  <2>1. 1 \in 1 .. Len(calls) /\ ~ (1 > 1)
    BY <1>1
  <2>2. CallLeads(m_succs, calls, before, 1)
    BY <2>1 DEF CallsLeadTo
  <2> QED BY <1>1, <2>1, <2>2 DEF CallLeads
<1>5. Advanced[1].next <= 3 /\ Advanced[1].bb = Top.bb
  BY <1>1, <1>2
<1>6. ASSUME Successor \in {nullptr} \cup settled
      PROVE  CallLeads(m_succs, Advanced, settled, 1)
  <2> SUFFICES ASSUME NEW e \in 1 .. 2, e < Advanced[1].next
               PROVE  m_succs[Top.bb][e] \in {nullptr} \cup settled
    BY <1>5 DEF CallLeads
  <2>1. e < Top.next \/ e = Top.next
    BY <1>1, <1>2
  <2> QED BY <1>2, <1>4, <1>6, <2>1
<1> QED BY <1>3, <1>4, <1>5, <1>6

\* An edge that leads nowhere, or to a block that was left.
LEMMA OtherEdgeKeepsCore == Core /\ OtherEdge => Core'
<1> SUFFICES ASSUME Core, OtherEdge PROVE Core'
  OBVIOUS
<1>1. /\ Collecting /\ Top.next <= 2 /\ phase = "collect" /\ calls # <<>>
      /\ Successor = nullptr \/ Successor \in Black
      /\ calls' = Advanced
      /\ UNCHANGED <<graphVars, rpoVars, dfs_marked, grey, placeVars, loops, bb_to_loop, phase>>
  BY DEF OtherEdge, Collecting, Black
<1>2. TypeOK /\ Headers = DOMAIN loops /\ nullptr \notin DOMAIN loops
  BY <1>1, LoopsOfBlocks DEF Core
<1>3. /\ Advanced \in Seq(Frame) /\ Len(Advanced) = Len(calls) /\ Len(calls) \in Nat
      /\ DistinctCalls(Advanced) /\ BlocksOf(Advanced) = Running
  BY <1>1, <1>2, AdvancedProperties, RunningCall
<1>4. TypeOK'
  BY <1>1, <1>2, <1>3, CollectKeepsType DEF TypeOK
<1>5. MarkersSoFar'
  BY <1>1, CollectKeepsMarkers DEF Core
<1>6. Black' = Black /\ Headers' = Headers /\ Running' = Running /\ m_succs' = m_succs
  BY <1>1, <1>3 DEF Black, Headers, Running, BlocksOf, graphVars
<1>7. CallsLeadTo(m_succs, calls', Black \cup Headers)
  <2>1. CallsLeadTo(m_succs, calls, Black \cup Headers)
    BY <1>1, CollectMeans DEF Core
  <2>2. \A k \in 1 .. Len(calls) : k = 1 \/ k \in 2 .. Len(calls)
    BY <1>3
  <2>3. \A k \in 1 .. Len(calls) : CallLeads(m_succs, Advanced, Black \cup Headers, k)
    BY <1>1, <1>2, <2>1, <2>2, AdvancedLeads
  <2> QED BY <1>1, <1>3, <2>3 DEF CallsLeadTo
<1>8. CollectSoFar'
  BY <1>1, <1>6, <1>7 DEF Core, CollectSoFar, CallsLeadTo, CallLeads
<1> QED BY <1>4, <1>5, <1>8 DEF Core

\* A back edge makes a loop, whose header is on the way to it.
LEMMA BackEdgeKeepsCore == Core /\ BackEdge => Core'
<1> SUFFICES ASSUME Core, BackEdge PROVE Core'
  OBVIOUS
<1>1. /\ Collecting /\ Top.next <= 2 /\ phase = "collect" /\ calls # <<>>
      /\ Successor \in grey
      /\ loops' = WithLoop(Successor, WithLatch(Successor, Top.bb))
      /\ calls' = Advanced
      /\ UNCHANGED <<graphVars, rpoVars, dfs_marked, grey, placeVars, bb_to_loop, phase>>
  BY DEF BackEdge, Collecting
<1>2. TypeOK /\ Headers = DOMAIN loops /\ nullptr \notin DOMAIN loops /\ Top.bb \in BasicBlock
  BY <1>1, LoopsOfBlocks, RunningCall DEF Core
<1>3. /\ Advanced \in Seq(Frame) /\ Len(Advanced) = Len(calls) /\ Len(calls) \in Nat
      /\ DistinctCalls(Advanced) /\ BlocksOf(Advanced) = Running
  BY <1>1, <1>2, AdvancedProperties, RunningCall
<1>4. /\ grey = Running /\ grey \cup Headers \subseteq dfs_marked
      /\ dfs_marked \subseteq Reachable(m_succs)
      /\ CallsLeadTo(m_succs, calls, Black \cup Headers)
  BY <1>1, CollectMeans DEF Core
<1>5. Reachable(m_succs) \subseteq BasicBlock
  BY DEF Reachable, Reach
<1>6. DOMAIN loops' = DOMAIN loops \cup {Successor}
  BY <1>1 DEF WithLoop
<1>7. WithLatch(Successor, Top.bb) \in Loop
  <2>1. EmptyLoop \in Loop
    BY DEF EmptyLoop, Loop
  <2> DEFINE loop == IF Successor \in DOMAIN loops THEN loops[Successor] ELSE EmptyLoop
             latches == Append(loop.latches, Top.bb)
             reducible == loop.reducible \/ Top.bb \in dom_tree[Successor]
  <2>2. loop \in Loop
    BY <1>2, <2>1 DEF TypeOK
  <2>3. WithLatch(Successor, Top.bb) = [[loop EXCEPT !.latches = latches] EXCEPT !.reducible = reducible]
    BY DEF WithLatch
  <2>4. loop.latches \in Seq(BasicBlock)
    BY <2>2 DEF Loop
  <2>5. latches \in Seq(BasicBlock) /\ reducible \in BOOLEAN
    BY <1>2, <2>4
  <2> HIDE DEF loop, latches, reducible
  <2> QED BY <2>2, <2>3, <2>5 DEF Loop
<1>8. loops' \in [DOMAIN loops' -> Loop]
  BY <1>1, <1>2, <1>6, <1>7 DEF WithLoop, TypeOK
<1>9. Headers' = Headers \cup {Successor} /\ nullptr \notin DOMAIN loops'
  BY <1>2, <1>4, <1>5, <1>1, <1>6, NullAssumption DEF Headers
<1>10. TypeOK'
  BY <1>1, <1>2, <1>3, <1>4, <1>5, <1>6, <1>8, <1>9, CollectKeepsType DEF TypeOK
<1>11. MarkersSoFar'
  BY <1>1, CollectKeepsMarkers DEF Core
<1>12. Black' = Black /\ Running' = Running /\ m_succs' = m_succs
  BY <1>1, <1>3 DEF Black, Running, BlocksOf, graphVars
<1>13. CallsLeadTo(m_succs, calls', Black \cup Headers')
  <2>1. \A k \in 1 .. Len(calls) : k = 1 \/ k \in 2 .. Len(calls)
    BY <1>3
  <2>2. Black \cup Headers \subseteq Black \cup Headers' /\ Successor \in Black \cup Headers'
    BY <1>9
  <2>3. \A k \in 1 .. Len(calls) : CallLeads(m_succs, Advanced, Black \cup Headers', k)
    BY <1>1, <1>2, <1>4, <2>1, <2>2, AdvancedLeads
  <2> QED BY <1>1, <1>3, <2>3 DEF CallsLeadTo
<1>14. \A b \in Black \ Headers' : \A c \in Succs(m_succs, b) : b \notin Reach(m_succs, c, Headers')
  <2>1. \A c : Reach(m_succs, c, Headers') \subseteq Reach(m_succs, c, Headers)
    BY <1>9, ReachShrinks
  <2> QED BY <1>1, <1>9, <2>1 DEF Core, CollectSoFar
<1>15. CollectSoFar'
  <2>1. \A b \in Black : Succs(m_succs, b) \subseteq Black \cup Headers'
    BY <1>1, <1>9 DEF Core, CollectSoFar
  <2> QED BY <1>1, <1>4, <1>9, <1>12, <1>13, <1>14, <2>1
          DEF Core, CollectSoFar, CallsLeadTo, CallLeads
<1> QED BY <1>10, <1>11, <1>15 DEF Core

\* An edge to a block that was not found leads to its call.
LEMMA TreeEdgeKeepsCore == Core /\ TreeEdge => Core'
<1> SUFFICES ASSUME Core, TreeEdge PROVE Core'
  OBVIOUS
<1>1. /\ Collecting /\ Top.next <= 2 /\ phase = "collect" /\ calls # <<>>
      /\ Successor \notin dfs_marked \cup {nullptr}
      /\ dfs_marked' = dfs_marked \cup {Successor} /\ grey' = grey \cup {Successor}
      /\ calls' = <<Call(Successor)>> \o Advanced
      /\ UNCHANGED <<graphVars, rpoVars, placeVars, loops, bb_to_loop, phase>>
  BY DEF TreeEdge, Collecting, Collect
<1>2. TypeOK /\ Headers = DOMAIN loops /\ nullptr \notin DOMAIN loops
  BY <1>1, LoopsOfBlocks DEF Core
<1>3. /\ Successor \in BasicBlock /\ Successor \in Succs(m_succs, Top.bb)
      /\ Top.next \in 1 .. 2 /\ Successor = m_succs[Top.bb][Top.next]
      /\ Top.bb \in Running
  BY <1>1, <1>2, NextSuccessor, RunningCall
<1>4. /\ grey = Running /\ grey \cup Headers \subseteq dfs_marked
      /\ dfs_marked \subseteq Reachable(m_succs)
      /\ CallsLeadTo(m_succs, calls, Black \cup Headers)
  BY <1>1, CollectMeans DEF Core
<1>5. /\ Advanced \in Seq(Frame) /\ Len(Advanced) = Len(calls) /\ Len(calls) \in Nat \ {0}
      /\ DistinctCalls(Advanced) /\ BlocksOf(Advanced) = Running
      /\ Advanced[1].next = Top.next + 1
  BY <1>1, <1>2, AdvancedProperties, RunningCall
<1>6. /\ calls' \in Seq(Frame) /\ Len(calls') = Len(calls) + 1
      /\ calls'[1].bb = Successor /\ calls'[1].next = 1
      /\ \A k \in 1 .. Len(calls) : calls'[k + 1] = Advanced[k]
      /\ DistinctCalls(calls') /\ BlocksOf(calls') = {Successor} \cup Running
  BY <1>1, <1>3, <1>4, <1>5, NewCall
<1>7. Successor \in Reachable(m_succs)
  BY <1>2, <1>3, <1>4, GraphIsBuilt, RootAssumption, ReachStep DEF Reachable
<1>8. dfs_marked' \subseteq Reachable(m_succs) /\ Reachable(m_succs) \subseteq BasicBlock
  BY <1>1, <1>4, <1>7 DEF Reachable, Reach
<1>9. TypeOK'
  BY <1>1, <1>2, <1>4, <1>6, <1>8, CollectKeepsType DEF TypeOK
<1>10. MarkersSoFar'
  BY <1>1, CollectKeepsMarkers DEF Core
<1>11. /\ Black' = Black /\ Headers' = Headers /\ Running' = Running \cup {Successor}
       /\ m_succs' = m_succs
  BY <1>1, <1>4, <1>6 DEF Black, Headers, Running, BlocksOf, graphVars
<1>12. CallsLeadTo(m_succs, calls', Black \cup Headers)
  <2> DEFINE settled == Black \cup Headers
  <2>0. /\ \A k \in 2 .. Len(calls) : CallLeads(m_succs, Advanced, settled, k)
        /\ \A e \in 1 .. 2 : e < Top.next => m_succs[Top.bb][e] \in {nullptr} \cup settled
        /\ Advanced[1].next <= 3 /\ Advanced[1].bb = Top.bb
    BY <1>1, <1>2, <1>4, AdvancedLeads
  <2> HIDE DEF settled
  <2>1. CallLeads(m_succs, calls', settled, 1)
    BY <1>6 DEF CallLeads
  <2>2. CallLeads(m_succs, calls', settled, 2)
    <3>1. calls'[2] = Advanced[1] /\ 2 > 1 /\ 2 - 1 = 1
      BY <1>5, <1>6
    <3>2. ASSUME NEW e \in 1 .. 2, e < Advanced[1].next
          PROVE  \/ m_succs[Top.bb][e] \in {nullptr} \cup settled
                 \/ m_succs[Top.bb][e] = calls'[1].bb
      <4>1. e < Top.next \/ e = Top.next
        BY <1>3, <1>5, <3>2
      <4> QED BY <1>3, <1>6, <2>0, <4>1
    <3> QED BY <2>0, <3>1, <3>2 DEF CallLeads
  <2>3. ASSUME NEW k \in 3 .. Len(calls') PROVE CallLeads(m_succs, calls', settled, k)
    <3>1. /\ k - 1 \in 2 .. Len(calls) /\ k - 1 \in 1 .. Len(calls) /\ (k - 1) + 1 = k
          /\ k - 2 \in 1 .. Len(calls) /\ (k - 2) + 1 = k - 1 /\ (k - 1) - 1 = k - 2
          /\ k > 1 /\ k - 1 > 1
      BY <1>5, <1>6
    <3>2. calls'[k] = Advanced[k - 1] /\ calls'[k - 1] = Advanced[k - 2]
      BY <1>6, <3>1
    <3>3. CallLeads(m_succs, Advanced, settled, k - 1)
      BY <2>0, <3>1
    <3> QED BY <3>1, <3>2, <3>3 DEF CallLeads
  <2>4. \A k \in 1 .. Len(calls') : k = 1 \/ k = 2 \/ k \in 3 .. Len(calls')
    BY SMTT(30), <1>6
  <2> QED BY <2>1, <2>2, <2>3, <2>4 DEF CallsLeadTo, settled
<1>13. CollectSoFar'
  BY <1>1, <1>4, <1>8, <1>11, <1>12 DEF Core, CollectSoFar, CallsLeadTo, CallLeads
<1> QED BY <1>9, <1>10, <1>13 DEF Core

\* A block that all successors were left before, headers apart, closes no cycle.
LEMMA CollectReturnKeepsCore == Core /\ CollectReturn => Core'
<1> SUFFICES ASSUME Core, CollectReturn PROVE Core'
  OBVIOUS
<1> DEFINE b == Top.bb
           t == Tail(calls)
<1>1. /\ Top.next = 3 /\ phase = "collect" /\ calls # <<>>
      /\ grey' = grey \ {b} /\ calls' = t
      /\ UNCHANGED <<graphVars, rpoVars, dfs_marked, placeVars, loops, bb_to_loop, phase>>
  BY DEF CollectReturn, Collecting
<1>2. TypeOK /\ Headers = DOMAIN loops /\ nullptr \notin DOMAIN loops /\ m_succs \in BuiltGraphs
  BY <1>1, LoopsOfBlocks, GraphIsBuilt DEF Core
<1>3. /\ Top = calls[1] /\ b \in BasicBlock /\ t \in Seq(Frame) /\ Len(calls) = Len(t) + 1
      /\ \A k \in 1 .. Len(t) : t[k] = calls[k + 1]
      /\ Running = {b} \cup BlocksOf(t) /\ b \notin BlocksOf(t) /\ DistinctCalls(t)
      /\ Len(calls) \in Nat \ {0} /\ Len(t) \in Nat
  BY <1>1, <1>2, RunningCall
<1>4. /\ grey = Running /\ grey \cup Headers \subseteq dfs_marked
      /\ CallsLeadTo(m_succs, calls, Black \cup Headers)
      /\ \A c \in Black : Succs(m_succs, c) \subseteq Black \cup Headers
      /\ \A c \in Black \ Headers : \A d \in Succs(m_succs, c) : c \notin Reach(m_succs, d, Headers)
  BY <1>1, CollectMeans DEF Core
<1> HIDE DEF b, t
<1>5. TypeOK'
  BY <1>1, <1>2, <1>3, CollectKeepsType DEF TypeOK
<1>6. MarkersSoFar'
  BY <1>1, CollectKeepsMarkers DEF Core
<1>7. /\ Black' = Black \cup {b} /\ Headers' = Headers /\ Running' = grey' /\ m_succs' = m_succs
      /\ b \notin Black
  BY <1>1, <1>3, <1>4 DEF Black, Headers, Running, BlocksOf, graphVars
<1>8. Succs(m_succs, b) \subseteq Black \cup Headers
  <2>1. 1 \in 1 .. Len(calls) /\ ~ (1 > 1)
    BY <1>3
  <2>2. CallLeads(m_succs, calls, Black \cup Headers, 1)
    BY <1>4, <2>1 DEF CallsLeadTo
  <2>3. \A e \in 1 .. 2 : m_succs[b][e] \in {nullptr} \cup Black \cup Headers
    BY <1>1, <1>3, <2>2 DEF CallLeads, b
  <2> QED BY <2>3 DEF Succs
<1>9. ASSUME NEW c \in Succs(m_succs, b), b \notin Headers PROVE b \notin Reach(m_succs, c, Headers)
  <2>1. CASE c \in Headers
    BY <2>1 DEF Reach
  <2>2. CASE c \in Black
    <3>1. ClosedUnder(m_succs, Headers, Black)
      BY <1>4 DEF ClosedUnder
    <3>2. Black \subseteq BasicBlock
      BY <1>2 DEF Black, TypeOK
    <3> QED BY <1>7, <2>2, <3>1, <3>2, ReachLeast
  <2> QED BY <1>8, <2>1, <2>2
<1>10. CallsLeadTo(m_succs, t, Black \cup {b} \cup Headers)
  <2> SUFFICES ASSUME NEW k \in 1 .. Len(t)
               PROVE  CallLeads(m_succs, t, Black \cup {b} \cup Headers, k)
    BY DEF CallsLeadTo
  <2>1. k + 1 \in 1 .. Len(calls) /\ t[k] = calls[k + 1] /\ (k + 1) - 1 = k
    BY <1>3
  <2>2. CallLeads(m_succs, calls, Black \cup Headers, k + 1)
    BY <1>4, <2>1 DEF CallsLeadTo
  <2>3. CASE k = 1
    BY <1>3, <2>1, <2>2, <2>3 DEF CallLeads, b
  <2>4. CASE k # 1
    <3>1. k - 1 \in 1 .. Len(t) /\ k > 1 /\ (k - 1) + 1 = k
      BY <1>3, <2>4
    <3>2. t[k - 1] = calls[k]
      BY <1>3, <3>1
    <3> QED BY <2>1, <2>2, <3>1, <3>2 DEF CallLeads
  <2> QED BY <2>3, <2>4
<1>11. CollectSoFar'
  <2>1. \A c \in Black' : Succs(m_succs, c) \subseteq Black' \cup Headers
    BY <1>4, <1>7, <1>8
  <2>2. \A c \in Black' \ Headers : \A d \in Succs(m_succs, c) : c \notin Reach(m_succs, d, Headers)
    BY <1>4, <1>7, <1>9
  <2>3. grey' \cup Headers \subseteq dfs_marked
    BY <1>1, <1>4
  <2> QED BY <1>1, <1>7, <1>10, <2>1, <2>2, <2>3 DEF Core, CollectSoFar, CallsLeadTo, CallLeads
<1> QED BY <1>5, <1>6, <1>11 DEF Core

(***************************************************************************)
(* The first three parts: graph::rpo.                                      *)
(***************************************************************************)

\* When all calls have returned every cycle has a header, and graph::rpo is called
\* with the number of reachable blocks.
LEMMA CallRpoKeepsCore == Core /\ CallRpo => Core'
<1> SUFFICES ASSUME Core, CallRpo PROVE Core'
  OBVIOUS
<1>1. /\ phase = "collect" /\ calls = <<>> /\ phase' = "order" /\ pc' = "call"
      /\ dfs_marked' = dfs_marked \ DOMAIN dom_tree /\ grey' = grey \ DOMAIN dom_tree
      /\ basic_blocks_counter' = Cardinality(DOMAIN dom_tree)
      /\ UNCHANGED <<graphVars, removed, marked, stack, rpo_vector, calls, placeVars,
                     loops, bb_to_loop>>
  BY DEF CallRpo, Size
<1>2. DOMAIN dom_tree = Reachable(m_succs) /\ m_succs \in BuiltGraphs
  BY <1>1, GraphIsBuilt DEF Core, TypeOK, StrictlyDominated
<1>3. /\ grey = Running /\ Headers \subseteq dfs_marked /\ root \in dfs_marked
      /\ \A b \in Black : Succs(m_succs, b) \subseteq Black \cup Headers
      /\ \A b \in Black \ Headers : \A c \in Succs(m_succs, b) : b \notin Reach(m_succs, c, Headers)
  BY <1>1, CollectMeans DEF Core
<1>4. Black = dfs_marked
  BY <1>1, <1>3 DEF Running, Elements, Black
<1>5. TypeOK'
  BY <1>1 DEF Core, TypeOK, graphVars, placeVars, Headers
<1>6. MarkersSoFar'
  <2>1. basic_blocks_counter' \in Nat \ {0}
    <3>1. Reachable(m_succs) \subseteq BasicBlock /\ root \in Reachable(m_succs)
      BY RootAssumption, ReachStart DEF Reachable, Reach
    <3>2. IsFiniteSet(Reachable(m_succs))
      BY <3>1, BlocksAssumption, FS_Subset
    <3> QED BY <1>1, <1>2, <3>1, <3>2, FS_CardinalityType, FS_EmptySet
  <2>2. /\ m_succs' \in BuiltGraphs /\ removed' = {} /\ marked' = {} /\ stack' = <<>>
        /\ rpo_vector' = <<>> /\ pc' = "call"
    BY <1>1, <1>2 DEF Core, MarkersSoFar, graphVars
  <2>3. (/\ m_succs \in BuiltGraphs /\ removed = {} /\ marked = {} /\ stack = <<>>
         /\ rpo_vector = <<>> /\ pc = "call" /\ basic_blocks_counter \in Nat \ {0})'
        => Rpo!IInv'
    BY RpoStarts, PTL
  <2>4. Rpo!IInv'
    BY <2>1, <2>2, <2>3
  <2> QED BY <1>1, <1>2, <2>2, <2>4 DEF MarkersSoFar, graphVars
<1>7. CollectSoFar'
  <2>1. Reachable(m_succs) \subseteq Black
    <3>1. ClosedUnder(m_succs, {}, Black)
      BY <1>3, <1>4 DEF ClosedUnder
    <3>2. Black \subseteq BasicBlock
      BY DEF Black, Core, TypeOK
    <3> QED BY <1>3, <1>4, <3>1, <3>2, ReachLeast DEF Reachable
  <2>2. CutsCycles(m_succs, Headers)
    BY <1>3, <2>1 DEF CutsCycles
  <2> QED BY <1>1, <2>2 DEF CollectSoFar, graphVars, Headers
<1> QED BY <1>5, <1>6, <1>7 DEF Core

LEMMA RpoKeepsCore == Core /\ (RpoStep \/ RpoReturn) => Core'
<1> SUFFICES ASSUME Core, RpoStep \/ RpoReturn PROVE Core'
  OBVIOUS
<1>1. /\ phase = "order" /\ phase' \in {"order", "populate"}
      /\ m_succs' = m_succs /\ removed' = removed
      /\ UNCHANGED <<m_preds, dom_tree, searchVars, latch, loops, bb_to_loop>>
      /\ Rpo!IInv => Rpo!IInv'
  BY RpoGoesOn DEF RpoStep, RpoReturn, graphVars, rpoVars, placeVars
<1>2. /\ cursor' \in Nat
      /\ phase' = "populate" => pc' = "done" /\ cursor' = Len(rpo_vector')
  <2>1. ASSUME RpoReturn PROVE cursor' \in Nat /\ pc' = "done" /\ cursor' = Len(rpo_vector')
    <3>1. /\ pc = "done" /\ phase = "order" /\ cursor' = Len(rpo_vector)
          /\ UNCHANGED <<pc, rpo_vector>>
      BY <2>1 DEF RpoReturn, rpoVars
    <3>2. rpo_vector \in Seq(BasicBlock)
      BY <3>1, RpoAnswer DEF Core, MarkersSoFar
    <3> QED BY <3>1, <3>2
  <2>2. ASSUME RpoStep PROVE cursor' \in Nat /\ phase' = "order"
    BY <2>2 DEF RpoStep, placeVars, Core, TypeOK
  <2> QED BY <2>1, <2>2
<1>3. TypeOK'
  BY <1>1, <1>2 DEF Core, TypeOK, searchVars, Headers
<1>4. MarkersSoFar'
  <2>1. Len(rpo_vector') <= Len(rpo_vector') \/ phase' # "populate"
    <3>1. ASSUME phase' = "populate" PROVE Len(rpo_vector') \in Nat
      BY <1>2, <3>1
    <3> QED BY <3>1
  <2> QED BY <1>1, <1>2, <2>1 DEF Core, MarkersSoFar, searchVars
<1>5. CollectSoFar'
  BY <1>1 DEF Core, CollectSoFar, Headers
<1> QED BY <1>3, <1>4, <1>5 DEF Core

(***************************************************************************)
(* The first three parts: populate_loops.                                  *)
(***************************************************************************)

\* From the call of populate_loops on, rpo_vector lists the reachable blocks.
LEMMA AfterRpo ==
  ASSUME Core, phase \in {"populate", "search", "done"}
  PROVE  /\ rpo_vector \in Seq(BasicBlock) /\ Len(rpo_vector) \in Nat
         /\ Ordered = Reachable(m_succs) /\ Ordered = Elements(rpo_vector) /\ marked = {}
         /\ \A j, k \in 1 .. Len(rpo_vector) :
              /\ rpo_vector[j] = rpo_vector[k] => j = k
              /\ <<rpo_vector[j], rpo_vector[k]>> \in Dominance(m_succs) => j <= k
         /\ phase # "done" /\ cursor > 0 =>
              cursor \in 1 .. Len(rpo_vector) /\ Header \in BasicBlock
<1>1. Rpo!IInv /\ pc = "done" /\ removed = {}
  BY DEF Core, MarkersSoFar
<1>2. /\ rpo_vector \in Seq(BasicBlock) /\ Len(rpo_vector) \in Nat
      /\ Elements(rpo_vector) = Reachable(m_succs) /\ marked = {}
      /\ \A j, k \in 1 .. Len(rpo_vector) :
           /\ rpo_vector[j] = rpo_vector[k] => j = k
           /\ <<rpo_vector[j], rpo_vector[k]>> \in Dominance(m_succs) => j <= k
  BY <1>1, RpoAnswer
<1>3. Ordered = Elements(rpo_vector)
  BY DEF Ordered, Elements
<1>4. phase # "done" /\ cursor > 0 => cursor \in 1 .. Len(rpo_vector) /\ Header \in BasicBlock
  <2>1. phase # "done" => cursor <= Len(rpo_vector) /\ cursor \in Nat
    BY DEF Core, MarkersSoFar, TypeOK
  <2> QED BY <1>2, <2>1 DEF Header
<1>5. \A j, k \in 1 .. Len(rpo_vector) :
        /\ rpo_vector[j] = rpo_vector[k] => j = k
        /\ <<rpo_vector[j], rpo_vector[k]>> \in Dominance(m_succs) => j <= k
  BY <1>2
<1> QED BY <1>2, <1>3, <1>4, <1>5

\* The steps of populate_loops leave the graph, rpo_vector and the headers alone.
LEMMA PopulateKeepsRest ==
  ASSUME Core, phase \in {"populate", "search"}, phase' \in {"populate", "search", "done"},
         UNCHANGED <<graphVars, rpoVars, grey>>, Headers' = Headers,
         phase' # "done" => cursor' <= Len(rpo_vector),
         phase' = "search" => cursor' > 0,
         phase' # "search" => Reachable(m_succs) \cap dfs_marked' = {}
  PROVE  MarkersSoFar' /\ CollectSoFar'
<1>1. Rpo!IInv'
  BY RpoGoesOn DEF Core, MarkersSoFar, graphVars
<1>2. MarkersSoFar'
  BY <1>1 DEF Core, MarkersSoFar, graphVars, rpoVars
<1>3. CollectSoFar'
  BY DEF Core, CollectSoFar, graphVars
<1> QED BY <1>2, <1>3

\* They keep the shape of the state if they keep that of what they change.
LEMMA PopulateKeepsType ==
  ASSUME TypeOK, phase \in {"populate", "search"}, phase' \in {"populate", "search"},
         UNCHANGED <<graphVars, rpoVars>>, DOMAIN loops' = DOMAIN loops,
         loops' \in [DOMAIN loops' -> Loop], bb_to_loop' \in [BasicBlock -> BasicBlock \cup {noLoop}],
         dfs_marked' \subseteq BasicBlock, calls' \in Seq(Frame), DistinctCalls(calls'),
         phase' = "populate" => calls' = <<>>,
         cursor' \in Nat, latch' \in Nat,
         phase' = "search" => latch' # 0 /\ Header' \in Headers /\ BlocksOf(calls') \subseteq dfs_marked'
  PROVE  TypeOK' /\ Headers' = Headers
<1>1. Headers' = Headers
  BY DEF Headers
<1>2. Running' = BlocksOf(calls')
  BY DEF Running, BlocksOf
<1> QED BY <1>1, <1>2 DEF TypeOK, graphVars, DistinctCalls

\* No call is in progress between the loops.
LEMMA NoCalls ==
  <<>> \in Seq(Frame) /\ DistinctCalls(<<>>) /\ BlocksOf(<<>>) = {} /\ Len(<<>>) = 0
BY DEF DistinctCalls, BlocksOf, Elements

\* A loop keeps its shape when one of its parts changes.
LEMMA LoopTypes ==
  ASSUME NEW loop \in Loop
  PROVE  /\ loop.latches \in Seq(BasicBlock) /\ loop.basic_blocks \in Seq(BasicBlock)
         /\ \A bbs \in Seq(BasicBlock) : [loop EXCEPT !.basic_blocks = bbs] \in Loop
         /\ \A h \in BasicBlock \cup {nullptr} : [loop EXCEPT !.outer_loop = h] \in Loop
         /\ \A hs \in SUBSET BasicBlock : [loop EXCEPT !.inner_loops = hs] \in Loop
BY DEF Loop

LEMMA BetweenLoopsKeepsCore == Core /\ (NotAHeader \/ IrreducibleLoop \/ LoopDone) => Core'
<1> SUFFICES ASSUME Core, NotAHeader \/ IrreducibleLoop \/ LoopDone PROVE Core'
  OBVIOUS
<1>1. /\ phase \in {"populate", "search"} /\ phase' = "populate"
      /\ cursor' = cursor - 1 /\ dfs_marked' \in {dfs_marked, dfs_marked \ Ordered}
      /\ phase = "search" => dfs_marked' = dfs_marked \ Ordered
      /\ calls = <<>> /\ calls' = <<>> /\ latch' = latch /\ cursor > 0
      /\ UNCHANGED <<graphVars, rpoVars, grey>>
  BY DEF NotAHeader, IrreducibleLoop, LoopDone, NextHeader, Populating, searchVars, Core,
         TypeOK, MarkersSoFar
<1>2. /\ cursor \in 1 .. Len(rpo_vector) /\ Header \in BasicBlock /\ Len(rpo_vector) \in Nat
      /\ Ordered = Reachable(m_succs)
  BY <1>1, AfterRpo
<1>3. Reachable(m_succs) \cap dfs_marked' = {}
  BY <1>1, <1>2 DEF Core, MarkersSoFar
<1>4. cursor' \in Nat /\ cursor' <= Len(rpo_vector)
  BY <1>1, <1>2
<1>5. /\ DOMAIN loops' = DOMAIN loops /\ loops' \in [DOMAIN loops' -> Loop]
      /\ bb_to_loop' \in [BasicBlock -> BasicBlock \cup {noLoop}]
  <2>1. ASSUME IrreducibleLoop
        PROVE  /\ DOMAIN loops' = DOMAIN loops /\ loops' \in [DOMAIN loops' -> Loop]
               /\ bb_to_loop' \in [BasicBlock -> BasicBlock \cup {noLoop}]
    <3> DEFINE latches == loops[Header].latches
    <3>1. /\ Header \in DOMAIN loops
          /\ loops' = [loops EXCEPT ![Header].basic_blocks = <<Header>> \o latches]
          /\ bb_to_loop' = [b \in BasicBlock |->
               IF b \in {Header} \cup ToSet(latches) THEN Header ELSE bb_to_loop[b]]
      BY <2>1 DEF IrreducibleLoop
    <3>2. loops \in [DOMAIN loops -> Loop] /\ loops[Header] \in Loop
      BY <3>1 DEF Core, TypeOK
    <3>3. <<Header>> \o latches \in Seq(BasicBlock)
      BY <1>2, <3>2, LoopTypes
    <3>4. [loops[Header] EXCEPT !.basic_blocks = <<Header>> \o latches] \in Loop
      BY <3>2, <3>3, LoopTypes
    <3>5. bb_to_loop' \in [BasicBlock -> BasicBlock \cup {noLoop}]
      BY <1>2, <3>1 DEF Core, TypeOK
    <3> HIDE DEF latches
    <3> QED BY <3>1, <3>2, <3>4, <3>5
  <2>2. ASSUME NotAHeader \/ LoopDone PROVE UNCHANGED <<loops, bb_to_loop>>
    BY <2>2 DEF NotAHeader, LoopDone
  <2> QED BY <2>1, <2>2 DEF Core, TypeOK
<1>6. TypeOK' /\ Headers' = Headers
  <2>1. dfs_marked' \subseteq BasicBlock /\ latch' \in Nat
    BY <1>1 DEF Core, TypeOK
  <2> QED BY <1>1, <1>4, <1>5, <2>1, NoCalls, PopulateKeepsType DEF Core
<1> QED BY <1>1, <1>3, <1>4, <1>6, PopulateKeepsRest DEF Core

LEMMA ReducibleLoopKeepsCore == Core /\ ReducibleLoop => Core'
<1> SUFFICES ASSUME Core, ReducibleLoop PROVE Core'
  OBVIOUS
<1>1. /\ phase = "populate" /\ phase' = "search" /\ cursor > 0 /\ Header \in DOMAIN loops
      /\ loops' = [loops EXCEPT ![Header].basic_blocks = <<Header>>]
      /\ bb_to_loop' = [bb_to_loop EXCEPT ![Header] = Header]
      /\ dfs_marked' = dfs_marked \cup {Header} /\ latch' = 1
      /\ UNCHANGED <<graphVars, rpoVars, grey, calls, cursor>>
  BY DEF ReducibleLoop, Populating
<1>2. /\ cursor \in 1 .. Len(rpo_vector) /\ Header \in BasicBlock /\ Header' = Header
      /\ calls = <<>> /\ Headers = DOMAIN loops
  BY <1>1, AfterRpo, LoopsOfBlocks DEF Core, TypeOK, Header, rpoVars
<1>3. /\ DOMAIN loops' = DOMAIN loops /\ loops' \in [DOMAIN loops' -> Loop]
      /\ bb_to_loop' \in [BasicBlock -> BasicBlock \cup {noLoop}]
  <2>1. loops \in [DOMAIN loops -> Loop] /\ loops[Header] \in Loop
    BY <1>1 DEF Core, TypeOK
  <2>2. [loops[Header] EXCEPT !.basic_blocks = <<Header>>] \in Loop
    <3>1. <<Header>> \in Seq(BasicBlock)
      BY <1>2
    <3> QED BY <2>1, <3>1, LoopTypes
  <2> QED BY <1>1, <1>2, <2>1, <2>2 DEF Core, TypeOK
<1>4. TypeOK' /\ Headers' = Headers
  <2>1. dfs_marked' \subseteq BasicBlock /\ cursor' \in Nat /\ latch' \in Nat
    BY <1>1, <1>2 DEF Core, TypeOK
  <2> QED BY <1>1, <1>2, <1>3, <2>1, NoCalls, PopulateKeepsType DEF Core
<1> QED BY <1>1, <1>2, <1>4, PopulateKeepsRest DEF Core

\* A call of loop_search leaves all loops loops.
LEMMA ClaimTypes ==
  ASSUME TypeOK, Header \in Headers, Headers \subseteq BasicBlock, Header \in DOMAIN loops,
         NEW b \in BasicBlock, Claim(b)
  PROVE  /\ DOMAIN loops' = DOMAIN loops /\ loops' \in [DOMAIN loops' -> Loop]
         /\ bb_to_loop' \in [BasicBlock -> BasicBlock \cup {noLoop}]
<1> DEFINE inner == bb_to_loop[b]
<1>1. loops \in [DOMAIN loops -> Loop] /\ bb_to_loop \in [BasicBlock -> BasicBlock \cup {noLoop}]
  BY DEF TypeOK
<1>2. CASE UNCHANGED <<loops, bb_to_loop>>
  BY <1>1, <1>2
<1>3. CASE UNCHANGED loops /\ bb_to_loop' = [bb_to_loop EXCEPT ![b] = Header]
  BY <1>1, <1>3
<1>4. CASE /\ inner # noLoop /\ UNCHANGED bb_to_loop
           /\ loops' = [loops EXCEPT ![inner].outer_loop = Header,
                                     ![Header].inner_loops = @ \cup {inner}]
  <2>1. inner \in BasicBlock
    BY <1>1, <1>4
  <2> DEFINE first == [loops EXCEPT ![inner].outer_loop = Header]
  <2>2. first \in [DOMAIN loops -> Loop]
    <3>1. inner \in DOMAIN loops => [loops[inner] EXCEPT !.outer_loop = Header] \in Loop
      BY <1>1, LoopTypes
    <3> QED BY <1>1, <3>1
  <2>3. loops' = [first EXCEPT ![Header].inner_loops = @ \cup {inner}]
    BY <1>4
  <2> HIDE DEF first, inner
  <2>4. first[Header] \in Loop
    BY <2>2
  <2>5. [first[Header] EXCEPT !.inner_loops = first[Header].inner_loops \cup {inner}] \in Loop
    <3>1. first[Header].inner_loops \cup {inner} \subseteq BasicBlock
      BY <2>1, <2>4 DEF Loop
    <3> QED BY <2>4, <3>1, LoopTypes
  <2>6. DOMAIN loops' = DOMAIN loops /\ loops' \in [DOMAIN loops' -> Loop]
    BY <2>2, <2>3, <2>5
  <2> QED BY <1>1, <1>4, <2>6
<1> QED BY <1>2, <1>3, <1>4 DEF Claim

\* What is known during the search of a loop.
LEMMA WhileSearching ==
  ASSUME Core, phase = "search"
  PROVE  /\ TypeOK /\ cursor \in 1 .. Len(rpo_vector) /\ cursor \in Nat /\ cursor > 0
         /\ Header \in Headers /\ Header \in BasicBlock /\ Headers = DOMAIN loops
         /\ Headers \subseteq BasicBlock /\ loops[Header] \in Loop
         /\ Running \subseteq dfs_marked /\ dfs_marked \subseteq BasicBlock
         /\ latch \in Nat \ {0} /\ calls \in Seq(Frame) /\ DistinctCalls(calls)
<1>1. cursor > 0 /\ TypeOK
  BY DEF Core, MarkersSoFar
<1>2. cursor \in 1 .. Len(rpo_vector) /\ Header \in BasicBlock
  BY <1>1, AfterRpo
<1>3. Headers = DOMAIN loops /\ Headers \subseteq BasicBlock
  BY <1>1, LoopsOfBlocks
<1> QED BY <1>1, <1>2, <1>3 DEF TypeOK, DistinctCalls

LEMMA LoopSearchKeepsCore ==
  ASSUME Core, phase = "search", NEW b \in BasicBlock, NEW s \in Seq(Frame),
         DistinctCalls(s), b \notin BlocksOf(s), BlocksOf(s) \subseteq dfs_marked,
         LoopSearch(b, s), latch' \in Nat \ {0}, UNCHANGED <<graphVars, rpoVars, grey, cursor, phase>>
  PROVE  Core'
<1>1. dfs_marked' = dfs_marked \cup {b} /\ calls' = <<Call(b)>> \o s /\ Claim(b)
  BY DEF LoopSearch
<1>2. calls' \in Seq(Frame) /\ DistinctCalls(calls') /\ BlocksOf(calls') = {b} \cup BlocksOf(s)
  BY <1>1, NewCall
<1>3. Header' = Header
  BY DEF Header, rpoVars
<1>4. /\ DOMAIN loops' = DOMAIN loops /\ loops' \in [DOMAIN loops' -> Loop]
      /\ bb_to_loop' \in [BasicBlock -> BasicBlock \cup {noLoop}]
  BY <1>1, WhileSearching, ClaimTypes
<1>5. TypeOK' /\ Headers' = Headers
  BY <1>1, <1>2, <1>3, <1>4, WhileSearching, PopulateKeepsType
<1> QED BY <1>5, WhileSearching, PopulateKeepsRest DEF Core, MarkersSoFar

LEMMA SearchLatchKeepsCore == Core /\ SearchLatch => Core'
<1> SUFFICES ASSUME Core, SearchLatch PROVE Core'
  OBVIOUS
<1>1. /\ phase = "search" /\ calls = <<>> /\ latch <= Len(loops[Header].latches)
      /\ LoopSearch(loops[Header].latches[latch], <<>>) /\ latch' = latch + 1
      /\ UNCHANGED <<graphVars, rpoVars, grey, cursor, phase>>
  BY DEF SearchLatch
<1>2. latch' \in Nat \ {0} /\ loops[Header].latches[latch] \in BasicBlock
  <2>1. loops[Header].latches \in Seq(BasicBlock) /\ latch \in Nat \ {0}
    BY <1>1, WhileSearching, LoopTypes
  <2> QED BY <1>1, <2>1
<1> QED BY <1>1, <1>2, NoCalls, LoopSearchKeepsCore

\* The predecessor the running call looks at.
LEMMA NextPred ==
  ASSUME TypeOK, Searching, HasPred
  PROVE  /\ Top.next \in 1 .. Len(m_preds[Top.bb]) /\ Pred = m_preds[Top.bb][Top.next]
         /\ Pred \in BasicBlock /\ Top.bb \in Succs(m_succs, Pred)
<1>1. Top.bb \in BasicBlock /\ Top.next \in Nat \ {0}
  BY RunningCall DEF Searching
<1>2. /\ m_preds[Top.bb] \in Seq(BasicBlock)
      /\ Elements(m_preds[Top.bb]) = {a \in BasicBlock : Top.bb \in Succs(m_succs, a)}
  BY <1>1 DEF TypeOK
<1>3. Top.next \in 1 .. Len(m_preds[Top.bb])
  BY <1>1, <1>2 DEF HasPred
<1>4. Pred \in Elements(m_preds[Top.bb])
  BY <1>3 DEF Pred, Elements
<1> QED BY <1>2, <1>3, <1>4 DEF Pred

LEMMA SearchPredKeepsCore == Core /\ SearchPred => Core'
<1> SUFFICES ASSUME Core, SearchPred PROVE Core'
  OBVIOUS
<1>1. /\ Searching /\ HasPred /\ phase = "search" /\ calls # <<>> /\ Pred \notin dfs_marked
      /\ LoopSearch(Pred, Advanced) /\ UNCHANGED <<graphVars, rpoVars, grey, placeVars, phase>>
  BY DEF SearchPred, Searching
<1>2. Pred \in BasicBlock
  BY <1>1, NextPred DEF Core
<1>3. Advanced \in Seq(Frame) /\ DistinctCalls(Advanced) /\ BlocksOf(Advanced) = Running
  BY <1>1, AdvancedProperties DEF Core
<1>4. latch' \in Nat \ {0} /\ cursor' = cursor /\ Running \subseteq dfs_marked
  BY <1>1, WhileSearching DEF placeVars
<1> QED BY <1>1, <1>2, <1>3, <1>4, LoopSearchKeepsCore

LEMMA WalkKeepsCore == Core /\ (SkipPred \/ SearchReturn) => Core'
<1> SUFFICES ASSUME Core, SkipPred \/ SearchReturn PROVE Core'
  OBVIOUS
<1>1. /\ Searching /\ phase = "search" /\ calls # <<>> /\ calls' \in {Advanced, Tail(calls)}
      /\ \/ UNCHANGED loops
         \/ loops' = [loops EXCEPT ![Header].basic_blocks = Append(@, Top.bb)]
      /\ UNCHANGED <<graphVars, rpoVars, dfs_marked, grey, placeVars, bb_to_loop, phase>>
  BY DEF SkipPred, SearchReturn, Searching
<1>2. /\ calls' \in Seq(Frame) /\ DistinctCalls(calls') /\ BlocksOf(calls') \subseteq Running
      /\ Top.bb \in BasicBlock
  BY <1>1, AdvancedProperties, RunningCall DEF Core
<1>3. DOMAIN loops' = DOMAIN loops /\ loops' \in [DOMAIN loops' -> Loop]
  <2> DEFINE bbs == Append(loops[Header].basic_blocks, Top.bb)
  <2>1. loops \in [DOMAIN loops -> Loop] /\ loops[Header] \in Loop
    BY <1>1, WhileSearching DEF TypeOK
  <2>2. bbs \in Seq(BasicBlock)
    BY <1>2, <2>1, LoopTypes
  <2>3. [loops[Header] EXCEPT !.basic_blocks = bbs] \in Loop
    BY <2>1, <2>2, LoopTypes
  <2> QED BY <1>1, <2>1, <2>3
<1>4. /\ Header' = Header /\ latch' \in Nat \ {0} /\ cursor' \in Nat /\ cursor' <= Len(rpo_vector)
      /\ cursor' > 0 /\ bb_to_loop' \in [BasicBlock -> BasicBlock \cup {noLoop}]
      /\ dfs_marked' \subseteq BasicBlock
  BY <1>1, WhileSearching DEF Header, rpoVars, placeVars, TypeOK
<1>5. TypeOK' /\ Headers' = Headers
  BY <1>1, <1>2, <1>3, <1>4, WhileSearching, PopulateKeepsType
<1> QED BY <1>1, <1>4, <1>5, PopulateKeepsRest DEF Core

\* What the root loop takes are blocks, and the loops that lie in no other.
LEMMA FinishMakes ==
  ASSUME Core, Finish
  PROVE  LET outermost == {h \in Headers : loops[h].outer_loop = noLoop}
             rest == loops'[nullptr].basic_blocks
         IN  /\ DOMAIN loops' = Headers \cup {nullptr} /\ Headers' = Headers
             /\ nullptr \notin Headers
             /\ rest \in Seq(BasicBlock)
             /\ Elements(rest) = {b \in Reachable(m_succs) : bb_to_loop[b] = noLoop}
             /\ loops'[nullptr] = [EmptyLoop EXCEPT !.basic_blocks = rest, !.inner_loops = outermost]
             /\ \A h \in outermost : loops'[h] = [loops[h] EXCEPT !.outer_loop = nullptr]
             /\ \A h \in Headers \ outermost : loops'[h] = loops[h]
<1> DEFINE outermost == {h \in DOMAIN loops : loops[h].outer_loop = noLoop}
           kept == {k \in DOMAIN rpo_vector : bb_to_loop[rpo_vector[k]] = noLoop}
           rest == Kept(rpo_vector, kept)
           root_loop == [EmptyLoop EXCEPT !.basic_blocks = rest, !.inner_loops = outermost]
<1>1. /\ phase = "populate"
      /\ loops' = [h \in DOMAIN loops \cup {nullptr} |->
                     IF h = nullptr THEN root_loop
                     ELSE IF h \in outermost THEN [loops[h] EXCEPT !.outer_loop = nullptr]
                     ELSE loops[h]]
  BY DEF Finish
<1>2. Headers = DOMAIN loops /\ nullptr \notin DOMAIN loops
  BY <1>1, LoopsOfBlocks DEF Core
<1>3. rpo_vector \in Seq(BasicBlock) /\ Elements(rpo_vector) = Reachable(m_succs)
  BY <1>1, AfterRpo
<1>4. rest \in Seq(BasicBlock) /\ Elements(rest) = {rpo_vector[k] : k \in kept}
  <2>1. kept \in SUBSET (1 .. Len(rpo_vector))
    BY <1>3
  <2> HIDE DEF kept
  <2> QED BY <1>3, <2>1, KeptElements
<1>5. Elements(rest) = {b \in Reachable(m_succs) : bb_to_loop[b] = noLoop}
  <2>1. {rpo_vector[k] : k \in kept} = {b \in Elements(rpo_vector) : bb_to_loop[b] = noLoop}
    BY <1>3 DEF Elements
  <2> HIDE DEF rest, kept
  <2> QED BY <1>3, <1>4, <2>1
<1>6. loops'[nullptr] = root_loop /\ root_loop.basic_blocks = rest
  BY <1>1 DEF EmptyLoop
<1>7. DOMAIN loops' = Headers \cup {nullptr} /\ Headers' = Headers
  BY ZenonT(60), <1>1, <1>2 DEF Headers
<1>8. /\ \A h \in outermost : loops'[h] = [loops[h] EXCEPT !.outer_loop = nullptr]
      /\ \A h \in Headers \ outermost : loops'[h] = loops[h]
  BY <1>1, <1>2
<1> HIDE DEF rest
<1> QED BY <1>2, <1>4, <1>5, <1>6, <1>7, <1>8

LEMMA FinishKeepsCore == Core /\ Finish => Core'
<1> SUFFICES ASSUME Core, Finish PROVE Core'
  OBVIOUS
<1> DEFINE outermost == {h \in Headers : loops[h].outer_loop = noLoop}
           rest == loops'[nullptr].basic_blocks
<1>1. /\ phase = "populate" /\ phase' = "done"
      /\ UNCHANGED <<graphVars, rpoVars, searchVars, placeVars, bb_to_loop>>
  BY DEF Finish
<1>2. /\ DOMAIN loops' = Headers \cup {nullptr} /\ Headers' = Headers /\ nullptr \notin Headers
      /\ rest \in Seq(BasicBlock)
      /\ loops'[nullptr] = [EmptyLoop EXCEPT !.basic_blocks = rest, !.inner_loops = outermost]
      /\ \A h \in outermost : loops'[h] = [loops[h] EXCEPT !.outer_loop = nullptr]
      /\ \A h \in Headers \ outermost : loops'[h] = loops[h]
  BY FinishMakes
<1>3. Headers = DOMAIN loops /\ Headers \subseteq BasicBlock /\ \A h \in Headers : loops[h] \in Loop
  BY <1>1, LoopsOfBlocks DEF Core, TypeOK
<1>4. loops'[nullptr] \in Loop
  <2>1. outermost \in SUBSET BasicBlock
    BY <1>3
  <2>2. EmptyLoop \in Loop
    BY DEF EmptyLoop, Loop
  <2> DEFINE filled == [EmptyLoop EXCEPT !.basic_blocks = rest]
  <2>3. filled \in Loop
    BY <1>2, <2>2, LoopTypes
  <2>4. loops'[nullptr] = [filled EXCEPT !.inner_loops = outermost]
    BY <1>2
  <2> HIDE DEF filled
  <2> QED BY <2>1, <2>3, <2>4, LoopTypes
<1>5. ASSUME NEW h \in Headers PROVE loops'[h] \in Loop
  <2>1. loops'[h] = loops[h] \/ loops'[h] = [loops[h] EXCEPT !.outer_loop = nullptr]
    BY <1>2
  <2>2. loops[h] \in Loop
    BY <1>3
  <2>3. [loops[h] EXCEPT !.outer_loop = nullptr] \in Loop
    BY <2>2, LoopTypes
  <2> QED BY <2>1, <2>2, <2>3
<1>6. loops' \in [DOMAIN loops' -> Loop]
  <2>1. loops' = [h \in DOMAIN loops' |-> loops'[h]]
    BY DEF Finish
  <2>2. \A h \in DOMAIN loops' : loops'[h] \in Loop
    BY <1>2, <1>4, <1>5
  <2> HIDE DEF rest
  <2> QED BY <2>1, <2>2
<1>7. TypeOK'
  BY <1>1, <1>2, <1>6 DEF Core, TypeOK, graphVars, searchVars, placeVars
<1> QED BY SMTT(30), <1>1, <1>2, <1>7, PopulateKeepsRest DEF Core, MarkersSoFar, searchVars

LEMMA StutterKeepsCore == Core /\ UNCHANGED vars => Core'
<1> SUFFICES ASSUME Core, UNCHANGED vars PROVE Core'
  OBVIOUS
<1>1. Rpo!IInv => Rpo!IInv'
  BY RpoGoesOn DEF vars, graphVars
<1>2. TypeOK'
  BY DEF Core, TypeOK, vars, graphVars, rpoVars, searchVars, placeVars, Headers, Header, Running
<1>3. MarkersSoFar'
  BY <1>1 DEF Core, MarkersSoFar, vars, graphVars, rpoVars, searchVars, placeVars
<1>4. CollectSoFar'
  BY DEF Core, CollectSoFar, vars, graphVars, searchVars, Headers, Running, Black
<1> QED BY <1>2, <1>3, <1>4 DEF Core

LEMMA NextKeepsCore == Core /\ [Next]_vars => Core'
BY CallDomKeepsCore, BackEdgeKeepsCore, OtherEdgeKeepsCore, TreeEdgeKeepsCore,
   CollectReturnKeepsCore, CallRpoKeepsCore, RpoKeepsCore, BetweenLoopsKeepsCore,
   ReducibleLoopKeepsCore, SearchLatchKeepsCore, SearchPredKeepsCore, WalkKeepsCore,
   FinishKeepsCore, StutterKeepsCore DEF Next

\* At the end these parts say what is asked for.
LEMMA CoreMeans == Core => EveryCycleHasHeader /\ MarkersClean
<1> SUFFICES ASSUME Core, phase = "done"
             PROVE  /\ CutsCycles(m_succs, Headers)
                    /\ Reachable(m_succs) \cap (dfs_marked \cup grey \cup marked) = {}
  BY DEF EveryCycleHasHeader, MarkersClean, Done
<1>1. marked = {}
  BY AfterRpo
<1> QED BY <1>1 DEF Core, MarkersSoFar, CollectSoFar

(***************************************************************************)
(* In structured code: collect_back_edges finds the back edges.            *)
(***************************************************************************)

\* The calls of s are a path of edges that are no back edges.
CallsAreAPath(s) == LeadOn(Forward, {}, s) /\ (s # <<>> => s[Len(s)].bb = root)

LEMMA CallsLeadMeans == CallsLead <=> CallsAreAPath(calls)
BY DEF CallsLead, CallsAreAPath, LeadOn

\* The edges that are no back edges.
LEMMA ForwardSuccs ==
  ASSUME TypeOK, NEW b \in BasicBlock
  PROVE  \A c : c \in Succs(Forward, b) <=>
           c \in Succs(m_succs, b) /\ <<b, c>> \notin BackEdges(m_succs)
<1>1. m_succs \in BuiltGraphs
  BY GraphIsBuilt
<1>2. Succs(Forward, b) = {c \in Succs(m_succs, b) : <<b, c>> \notin BackEdges(m_succs)}
  BY <1>1, WithoutSuccs DEF Forward
<1> QED BY <1>2

\* An edge back to a running call is a back edge: without back edges there is no
\* cycle.  And a back edge leads to a running call: its target is on every path.
LEMMA RetreatingIsBackEdge ==
  ASSUME Core, CallsLead, Structured(m_succs), Collecting, Top.next <= 2
  PROVE  Successor \in Running <=> <<Top.bb, Successor>> \in BackEdges(m_succs)
<1>1. TypeOK /\ m_succs \in BuiltGraphs /\ calls # <<>>
  BY GraphIsBuilt DEF Core, Collecting
<1>2. /\ Top = calls[1] /\ Len(calls) \in Nat \ {0} /\ Top.bb \in BasicBlock
      /\ calls \in Seq(Frame)
  BY <1>1, RunningCall DEF TypeOK
<1>3. 1 \in 1 .. Len(calls) /\ Len(calls) \in 1 .. Len(calls)
  BY <1>2
<1>4. ASSUME Successor \in Running, <<Top.bb, Successor>> \notin BackEdges(m_succs)
      PROVE  FALSE
  <2>1. PICK k \in 1 .. Len(calls) : calls[k].bb = Successor
    BY <1>2, <1>4, CallsAreForBlocks DEF Running, BlocksOf
  <2>2. Successor \in BasicBlock
    BY <1>2, <2>1, CallsAreForBlocks
  <2>3. Successor \in Succs(m_succs, Top.bb)
    BY <1>1, <2>2, NextSuccessor, NullAssumption
  <2>4. Successor \in Succs(Forward, Top.bb)
    BY <1>1, <1>2, <1>4, <2>3, ForwardSuccs
  <2>5. Top.bb \in Reachable(Forward)
    BY <1>2, <1>3 DEF CallsLead, Reachable
  <2>6. Top.bb \in Reach(Forward, Successor, {})
    <3>1. 1 \in 1 .. k
      BY <1>2
    <3> QED BY <1>2, <2>1, <3>1 DEF CallsLead
  <2>7. CutsCycles(Forward, {})
    BY <1>1, StructuredMeans DEF Forward
  <2> QED BY <2>4, <2>5, <2>6, <2>7 DEF CutsCycles
<1>5. ASSUME Successor \notin Running, <<Top.bb, Successor>> \in BackEdges(m_succs)
      PROVE  FALSE
  <2>1. Successor \in BasicBlock /\ Top.bb \notin Reach(m_succs, root, {Successor})
    BY <1>1, <1>5, StructuredMeans
  <2>2. \A j \in 1 .. Len(calls) : calls[j].bb # Successor
    BY <1>2, <1>5, CallsAreForBlocks DEF Running, BlocksOf
  <2>3. Top.bb \in Reach(Forward, root, {Successor})
    BY <1>2, <1>3, <2>1, <2>2 DEF CallsLead
  <2> QED BY <1>1, <2>1, <2>3, WithoutReaches DEF Forward
<1> QED BY <1>4, <1>5

\* The paths of the calls, step by step.
LEMMA FirstCallIsAPath ==
  ASSUME NEW s, Len(s) = 1, s[1].bb = root
  PROVE  CallsAreAPath(s)
<1>1. LeadOn(Forward, {}, s)
  BY FirstLeadsOn
<1> QED BY <1>1 DEF CallsAreAPath

LEMMA AdvancedIsAPath ==
  ASSUME TypeOK, calls # <<>>, CallsAreAPath(calls)
  PROVE  CallsAreAPath(Advanced)
<1>1. /\ Len(Advanced) = Len(calls) /\ Len(calls) \in Nat \ {0}
      /\ \A k \in 1 .. Len(calls) : Advanced[k].bb = calls[k].bb
  BY AdvancedProperties, RunningCall
<1>2. LeadOn(Forward, {}, Advanced)
  BY <1>1, SameBlocksLeadOn DEF CallsAreAPath
<1>3. Advanced[Len(Advanced)].bb = root
  BY <1>1 DEF CallsAreAPath
<1> QED BY <1>2, <1>3 DEF CallsAreAPath

LEMMA PushIsAPath ==
  ASSUME NEW s \in Seq(Frame), s # <<>>, CallsAreAPath(s), NEW b \in Succs(Forward, s[1].bb),
         b \in BasicBlock
  PROVE  CallsAreAPath(<<Call(b)>> \o s)
<1> DEFINE t == <<Call(b)>> \o s
<1>1. Call(b) \in Frame /\ Call(b).bb = b /\ \A f \in Frame : f.bb \in BasicBlock
  BY DEF Call, Frame
<1>2. LeadOn(Forward, {}, t)
  <2>1. Call(b).bb \in Succs(Forward, s[1].bb) /\ Call(b).bb \notin {}
    BY <1>1
  <2>2. LeadOn(Forward, {}, s)
    BY DEF CallsAreAPath
  <2> QED BY <1>1, <2>1, <2>2, PushLeadsOn
<1>3. Len(t) = Len(s) + 1 /\ Len(s) \in Nat \ {0} /\ \A k \in 1 .. Len(s) : t[k + 1] = s[k]
  BY <1>1, PushProperties
<1>4. t[Len(t)].bb = root
  BY <1>3 DEF CallsAreAPath
<1> QED BY <1>2, <1>4 DEF CallsAreAPath

LEMMA TailIsAPath ==
  ASSUME TypeOK, calls # <<>>, CallsAreAPath(calls)
  PROVE  CallsAreAPath(Tail(calls))
<1>1. calls \in Seq(Frame)
  BY DEF TypeOK
<1>2. LeadOn(Forward, {}, Tail(calls))
  BY <1>1, PopLeadsOn DEF CallsAreAPath
<1>3. ASSUME Tail(calls) # <<>> PROVE Tail(calls)[Len(Tail(calls))].bb = root
  <2>1. /\ Len(calls) = Len(Tail(calls)) + 1 /\ Tail(calls) \in Seq(Frame)
        /\ \A k \in 1 .. Len(Tail(calls)) : Tail(calls)[k] = calls[k + 1]
    BY RunningCall
  <2>2. Len(Tail(calls)) \in 1 .. Len(Tail(calls))
    BY <1>3, <2>1
  <2> QED BY <2>1, <2>2 DEF CallsAreAPath
<1> QED BY <1>2, <1>3 DEF CallsAreAPath

\* Which edges have been passed, for any calls.
PassedBy(black, s, b, e) ==
  b \in black \/ \E k \in 1 .. Len(s) : s[k].bb = b /\ e < s[k].next

LEMMA PassedMeans == \A b, e : Passed(b, e) <=> PassedBy(Black, calls, b, e)
BY DEF Passed, PassedBy

\* The running call passes the edge it looks at and no other.
LEMMA PassedNext ==
  ASSUME TypeOK, calls # <<>>
  PROVE  \A b : \A e \in 1 .. 2 : PassedBy(Black, Advanced, b, e) <=>
           Passed(b, e) \/ (b = Top.bb /\ e = Top.next)
<1>1. /\ Len(Advanced) = Len(calls) /\ Len(calls) \in Nat \ {0} /\ Top = calls[1]
      /\ \A k \in 1 .. Len(calls) : Advanced[k].bb = calls[k].bb
      /\ Advanced[1].next = Top.next + 1 /\ \A k \in 2 .. Len(calls) : Advanced[k] = calls[k]
      /\ Top.next \in Nat
  BY AdvancedProperties, RunningCall
<1>2. TAKE b
<1>3. TAKE e \in 1 .. 2
<1>4. \A k \in 1 .. Len(calls) : k = 1 \/ k \in 2 .. Len(calls)
  OBVIOUS
<1>5. e < Top.next + 1 <=> e < Top.next \/ e = Top.next
  BY <1>1
<1>6. ASSUME NEW k \in 1 .. Len(calls), Advanced[k].bb = b, e < Advanced[k].next
      PROVE  Passed(b, e) \/ (b = Top.bb /\ e = Top.next)
  BY <1>1, <1>4, <1>5, <1>6 DEF Passed
<1>7. ASSUME NEW k \in 1 .. Len(calls), calls[k].bb = b, e < calls[k].next
      PROVE  PassedBy(Black, Advanced, b, e)
  BY <1>1, <1>4, <1>5, <1>7 DEF PassedBy
<1>8. ASSUME b = Top.bb, e = Top.next PROVE PassedBy(Black, Advanced, b, e)
  <2>1. 1 \in 1 .. Len(Advanced)
    BY <1>1
  <2> QED BY <1>1, <1>5, <1>8, <2>1 DEF PassedBy
<1> QED BY <1>1, <1>6, <1>7, <1>8 DEF Passed, PassedBy

\* A new call has passed none.
LEMMA PassedPush ==
  ASSUME NEW s \in Seq(Frame), NEW x \in BasicBlock, NEW black
  PROVE  \A b : \A e \in 1 .. 2 : PassedBy(black, <<Call(x)>> \o s, b, e) <=> PassedBy(black, s, b, e)
<1> DEFINE t == <<Call(x)>> \o s
<1>1. Call(x) \in Frame /\ Call(x).next = 1
  BY DEF Call, Frame
<1>2. /\ Len(t) = Len(s) + 1 /\ t[1] = Call(x) /\ \A k \in 1 .. Len(s) : t[k + 1] = s[k]
      /\ Len(s) \in Nat
  BY <1>1, PushProperties
<1> HIDE DEF t
<1>3. TAKE b
<1>4. TAKE e \in 1 .. 2
<1>5. ASSUME NEW k \in 1 .. Len(t), t[k].bb = b, e < t[k].next
      PROVE  \E j \in 1 .. Len(s) : s[j].bb = b /\ e < s[j].next
  <2>1. k # 1
    BY <1>1, <1>2, <1>5
  <2>2. k - 1 \in 1 .. Len(s) /\ (k - 1) + 1 = k
    BY <1>2, <2>1
  <2> QED BY <1>2, <1>5, <2>2
<1>6. ASSUME NEW j \in 1 .. Len(s), s[j].bb = b, e < s[j].next
      PROVE  \E k \in 1 .. Len(t) : t[k].bb = b /\ e < t[k].next
  <2>1. j + 1 \in 1 .. Len(t)
    BY <1>2
  <2> QED BY <1>2, <1>6, <2>1
<1> QED BY <1>5, <1>6 DEF PassedBy, t

\* A call that returns has passed all edges of its block.
LEMMA PassedReturn ==
  ASSUME TypeOK, calls # <<>>, Top.next = 3
  PROVE  \A b : \A e \in 1 .. 2 :
           PassedBy(Black \cup {Top.bb}, Tail(calls), b, e) <=> Passed(b, e)
<1> DEFINE t == Tail(calls)
<1>1. /\ Top = calls[1] /\ Len(calls) = Len(t) + 1 /\ Len(t) \in Nat
      /\ \A k \in 1 .. Len(t) : t[k] = calls[k + 1]
  BY RunningCall
<1> HIDE DEF t
<1>2. TAKE b
<1>3. TAKE e \in 1 .. 2
<1>4. ASSUME b = Top.bb PROVE Passed(b, e)
  <2>1. 1 \in 1 .. Len(calls)
    BY <1>1
  <2> QED BY <1>1, <1>4, <2>1 DEF Passed
<1>5. ASSUME NEW k \in 1 .. Len(t), t[k].bb = b, e < t[k].next PROVE Passed(b, e)
  <2>1. k + 1 \in 1 .. Len(calls)
    BY <1>1
  <2> QED BY <1>1, <1>5, <2>1 DEF Passed
<1>6. ASSUME NEW k \in 1 .. Len(calls), calls[k].bb = b, e < calls[k].next, b # Top.bb
      PROVE  \E j \in 1 .. Len(t) : t[j].bb = b /\ e < t[j].next
  <2>1. k # 1
    BY <1>1, <1>6
  <2>2. k - 1 \in 1 .. Len(t) /\ (k - 1) + 1 = k
    BY <1>1, <2>1
  <2> QED BY <1>1, <1>6, <2>2
<1> QED BY <1>4, <1>5, <1>6 DEF Passed, PassedBy, t

\* LatchesSoFar while back edges are collected, from its parts.
LEMMA CallsStillLead ==
  ASSUME m_succs' = m_succs, CallsAreAPath(calls')
  PROVE  CallsLead'
<1>1. Forward' = Forward
  BY DEF Forward
<1> QED BY <1>1 DEF CallsLead, CallsAreAPath, LeadOn

LEMMA LatchesWhileCollecting ==
  ASSUME m_succs' = m_succs, phase' = "collect",
         Structured(m_succs) =>
           /\ CallsAreAPath(calls')
           /\ \A h \in Headers' : HasLatch(h)'
           /\ \A b \in BasicBlock : \A e \in 1 .. 2 :
                PassedBy(Black', calls', b, e) /\ <<b, m_succs[b][e]>> \in BackEdges(m_succs)
                  => m_succs[b][e] \in Headers'
  PROVE  LatchesSoFar'
<1> SUFFICES ASSUME Structured(m_succs) PROVE LatchesSoFar'
  BY DEF LatchesSoFar
<1>1. CallsLead'
  BY CallsStillLead
<1>2. \A b, e : Passed(b, e)' <=> PassedBy(Black', calls', b, e)
  BY DEF Passed, PassedBy
<1> QED BY <1>1, <1>2 DEF LatchesSoFar

\* A header keeps its latch while more edges are passed.
LEMMA OldLatch ==
  ASSUME NEW h, HasLatch(h), loops'[h] = loops[h], m_succs' = m_succs,
         phase = "collect", \A b : \A e \in 1 .. 2 : Passed(b, e) => PassedBy(Black', calls', b, e)
  PROVE  HasLatch(h)'
<1>1. PICK l \in BasicBlock :
        /\ loops[h].latches = <<l>> /\ loops[h].reducible
        /\ <<l, h>> \in BackEdges(m_succs)
        /\ \E e \in 1 .. 2 : Passed(l, e) /\ m_succs[l][e] = h
  BY DEF HasLatch
<1>2. \A b, e : Passed(b, e)' <=> PassedBy(Black', calls', b, e)
  BY DEF Passed, PassedBy
<1>3. \E e \in 1 .. 2 : Passed(l, e)' /\ m_succs[l][e] = h
  BY <1>1, <1>2
<1> QED BY <1>1, <1>3 DEF HasLatch

\* What LatchesSoFar says while back edges are collected.
LEMMA LatchesMean ==
  ASSUME LatchesSoFar, Structured(m_succs), phase = "collect"
  PROVE  /\ CallsLead /\ CallsAreAPath(calls) /\ \A h \in Headers : HasLatch(h)
         /\ \A b \in BasicBlock : \A e \in 1 .. 2 :
              Passed(b, e) /\ <<b, m_succs[b][e]>> \in BackEdges(m_succs) => m_succs[b][e] \in Headers
BY CallsLeadMeans DEF LatchesSoFar

LEMMA InitLatches == Init => LatchesSoFar
BY DEF Init, Start, LatchesSoFar, Headers

LEMMA CallDomKeepsLatches == Core /\ LatchesSoFar /\ CallDom => LatchesSoFar'
<1> SUFFICES ASSUME Core, LatchesSoFar, CallDom PROVE LatchesSoFar'
  OBVIOUS
<1>1. /\ phase = "dom" /\ phase' = "collect" /\ m_succs' = m_succs /\ loops' = loops
      /\ dfs_marked' = dfs_marked \cup {root} /\ grey' = grey \cup {root}
      /\ calls' = <<Call(root)>> \o <<>>
  BY DEF CallDom, Collect
<1>2. Headers = {} /\ Headers' = {} /\ Black' = {}
  BY <1>1 DEF Core, MarkersSoFar, CollectSoFar, Headers, Black
<1>3. Len(calls') = 1 /\ calls'[1].bb = root /\ calls'[1].next = 1
  <2>1. Len(<<Call(root)>> \o <<>>) = 1 /\ (<<Call(root)>> \o <<>>)[1] = Call(root)
    OBVIOUS
  <2> QED BY <1>1, <2>1 DEF Call
<1>4. CallsAreAPath(calls')
  BY <1>3, FirstCallIsAPath
<1>5. ASSUME NEW b, NEW e \in 1 .. 2 PROVE ~ PassedBy(Black', calls', b, e)
  <2>1. \A k \in 1 .. Len(calls') : k = 1
    BY <1>3
  <2> QED BY <1>2, <1>3, <2>1 DEF PassedBy
<1> QED BY <1>1, <1>2, <1>4, <1>5, LatchesWhileCollecting

LEMMA OtherEdgeKeepsLatches == Core /\ LatchesSoFar /\ OtherEdge => LatchesSoFar'
<1> SUFFICES ASSUME Core, LatchesSoFar, OtherEdge PROVE LatchesSoFar'
  OBVIOUS
<1>1. /\ Collecting /\ Top.next <= 2 /\ phase = "collect" /\ phase' = "collect" /\ calls # <<>>
      /\ Successor = nullptr \/ Successor \in Black
      /\ calls' = Advanced /\ m_succs' = m_succs /\ loops' = loops /\ Black' = Black
  BY DEF OtherEdge, Collecting, Black, graphVars
<1>2. TypeOK /\ Headers' = Headers
  BY <1>1 DEF Core, Headers
<1> SUFFICES ASSUME Structured(m_succs)
             PROVE  /\ CallsAreAPath(calls')
                    /\ \A h \in Headers' : HasLatch(h)'
                    /\ \A b \in BasicBlock : \A e \in 1 .. 2 :
                         PassedBy(Black', calls', b, e) /\ <<b, m_succs[b][e]>> \in BackEdges(m_succs)
                           => m_succs[b][e] \in Headers'
  BY <1>1, LatchesWhileCollecting
<1>3. /\ CallsLead /\ CallsAreAPath(calls) /\ \A h \in Headers : HasLatch(h)
      /\ \A b \in BasicBlock : \A e \in 1 .. 2 :
           Passed(b, e) /\ <<b, m_succs[b][e]>> \in BackEdges(m_succs) => m_succs[b][e] \in Headers
  BY <1>1, LatchesMean
<1>4. CallsAreAPath(calls')
  BY <1>1, <1>2, <1>3, AdvancedIsAPath
<1>5. \A b : \A e \in 1 .. 2 : PassedBy(Black', calls', b, e) <=>
        Passed(b, e) \/ (b = Top.bb /\ e = Top.next)
  BY <1>1, <1>2, PassedNext
<1>6. <<Top.bb, Successor>> \notin BackEdges(m_succs)
  <2>1. grey = Running /\ Running \subseteq BasicBlock
    BY <1>1, <1>2, CallsAreForBlocks DEF Core, CollectSoFar, TypeOK, Running, BlocksOf
  <2>2. Successor \notin Running
    BY <1>1, <2>1, NullAssumption DEF Black
  <2> QED BY <1>1, <1>3, <2>2, RetreatingIsBackEdge
<1>7. \A h \in Headers' : HasLatch(h)'
  BY <1>1, <1>2, <1>3, <1>5, OldLatch
<1> QED BY <1>2, <1>3, <1>4, <1>5, <1>6, <1>7 DEF Successor

\* The header of the back edge is new: another back edge to it would have been from
\* the same place.
LEMMA BackEdgeKeepsLatches == Core /\ LatchesSoFar /\ BackEdge => LatchesSoFar'
<1> SUFFICES ASSUME Core, LatchesSoFar, BackEdge PROVE LatchesSoFar'
  OBVIOUS
<1>1. /\ Collecting /\ Top.next <= 2 /\ phase = "collect" /\ phase' = "collect" /\ calls # <<>>
      /\ Successor \in grey
      /\ loops' = WithLoop(Successor, WithLatch(Successor, Top.bb))
      /\ calls' = Advanced /\ m_succs' = m_succs /\ Black' = Black
  BY DEF BackEdge, Collecting, Black, graphVars
<1>2. /\ TypeOK /\ m_succs \in BuiltGraphs /\ Headers = DOMAIN loops /\ nullptr \notin DOMAIN loops
      /\ dom_tree = StrictlyDominated(m_succs)
  BY <1>1, GraphIsBuilt, LoopsOfBlocks DEF Core, TypeOK
<1> SUFFICES ASSUME Structured(m_succs)
             PROVE  /\ CallsAreAPath(calls')
                    /\ \A h \in Headers' : HasLatch(h)'
                    /\ \A b \in BasicBlock : \A e \in 1 .. 2 :
                         PassedBy(Black', calls', b, e) /\ <<b, m_succs[b][e]>> \in BackEdges(m_succs)
                           => m_succs[b][e] \in Headers'
  BY <1>1, LatchesWhileCollecting
<1>3. /\ CallsLead /\ CallsAreAPath(calls) /\ \A h \in Headers : HasLatch(h)
      /\ \A b \in BasicBlock : \A e \in 1 .. 2 :
           Passed(b, e) /\ <<b, m_succs[b][e]>> \in BackEdges(m_succs) => m_succs[b][e] \in Headers
  BY <1>1, LatchesMean
<1>4. CallsAreAPath(calls')
  BY <1>1, <1>2, <1>3, AdvancedIsAPath
<1>5. \A b : \A e \in 1 .. 2 : PassedBy(Black', calls', b, e) <=>
        Passed(b, e) \/ (b = Top.bb /\ e = Top.next)
  BY <1>1, <1>2, PassedNext
<1>6. /\ grey = Running /\ Top = calls[1] /\ Top.bb \in Running /\ Top.bb \in BasicBlock
      /\ Len(calls) \in Nat \ {0} /\ Top.next \in 1 .. 2 /\ m_succs[Top.bb][Top.next] = Successor
      /\ \A j, k \in 1 .. Len(calls) : calls[j].bb = calls[k].bb => j = k
  BY <1>1, <1>2, RunningCall, NextSuccessor DEF Core, CollectSoFar, DistinctCalls
<1>7. <<Top.bb, Successor>> \in BackEdges(m_succs)
  BY <1>1, <1>3, <1>6, RetreatingIsBackEdge
<1>8. Successor \in BasicBlock /\ Top.bb \in dom_tree[Successor]
  BY <1>2, <1>7, StructuredMeans
<1>0. PICK h, l, n : h = Successor /\ l = Top.bb /\ n = Top.next
  OBVIOUS
<1>9. ~ Passed(l, n)
  <2>1. l \notin Black
    BY <1>0, <1>6 DEF Black
  <2>2. 1 \in 1 .. Len(calls) /\ ~ (n < n)
    BY <1>0, <1>6
  <2> QED BY <1>0, <1>6, <2>1, <2>2 DEF Passed
<1>10. h \notin Headers
  <2> SUFFICES ASSUME h \in Headers PROVE FALSE
    OBVIOUS
  <2>1. PICK m \in BasicBlock :
          /\ <<m, h>> \in BackEdges(m_succs)
          /\ \E e \in 1 .. 2 : Passed(m, e) /\ m_succs[m][e] = h
    BY <1>1, <1>3 DEF HasLatch
  <2>2. <<l, h>> \in BackEdges(m_succs) /\ m_succs[l][n] = h /\ n \in 1 .. 2
    BY <1>0, <1>6, <1>7
  <2>3. m = l
    BY <1>2, <2>1, <2>2, StructuredMeans
  <2>4. PICK e \in 1 .. 2 : Passed(l, e) /\ m_succs[l][e] = h
    BY <2>1, <2>3
  <2>5. \A x, y \in 1 .. 2 : m_succs[l][x] = h /\ m_succs[l][y] = h => x = y
    BY ZenonT(60), <1>2, <2>2, StructuredMeans
  <2>6. e = n
    BY <2>2, <2>4, <2>5
  <2> QED BY <1>9, <2>4, <2>6
<1>11. /\ Headers' = Headers \cup {h}
       /\ \A x \in Headers : loops'[x] = loops[x]
       /\ loops'[h] = WithLatch(h, l)
  BY <1>0, <1>1, <1>2, <1>8, <1>10, NullAssumption DEF WithLoop, Headers
<1>12. HasLatch(h)'
  <2>1. WithLatch(h, l) = [EmptyLoop EXCEPT !.latches = Append(@, l),
                                            !.reducible = @ \/ l \in dom_tree[h]]
    BY <1>2, <1>10 DEF WithLatch
  <2>2. l \in dom_tree[h] /\ Append(<<>>, l) = <<l>>
    BY <1>0, <1>8
  <2>3. WithLatch(h, l).latches = <<l>> /\ WithLatch(h, l).reducible
    BY <2>1, <2>2 DEF EmptyLoop
  <2>4. Passed(l, n)'
    <3>1. PassedBy(Black', calls', l, n)
      BY <1>0, <1>5, <1>6
    <3> QED BY <3>1 DEF Passed, PassedBy
  <2>5. /\ l \in BasicBlock /\ <<l, h>> \in BackEdges(m_succs) /\ n \in 1 .. 2
        /\ m_succs[l][n] = h
    BY <1>0, <1>6, <1>7
  <2> QED BY <1>1, <1>11, <2>3, <2>4, <2>5 DEF HasLatch
<1>13. \A x \in Headers : HasLatch(x)'
  BY <1>1, <1>3, <1>5, <1>11, OldLatch
<1>14. \A b \in BasicBlock : \A e \in 1 .. 2 :
         PassedBy(Black', calls', b, e) /\ <<b, m_succs[b][e]>> \in BackEdges(m_succs)
           => m_succs[b][e] \in Headers'
  BY <1>0, <1>3, <1>5, <1>6, <1>11
<1>15. \A x \in Headers' : HasLatch(x)'
  BY <1>11, <1>12, <1>13
<1> QED BY <1>4, <1>14, <1>15

LEMMA TreeEdgeKeepsLatches == Core /\ LatchesSoFar /\ TreeEdge => LatchesSoFar'
<1> SUFFICES ASSUME Core, LatchesSoFar, TreeEdge PROVE LatchesSoFar'
  OBVIOUS
<1>1. /\ Collecting /\ Top.next <= 2 /\ phase = "collect" /\ phase' = "collect" /\ calls # <<>>
      /\ Successor \notin dfs_marked \cup {nullptr}
      /\ dfs_marked' = dfs_marked \cup {Successor} /\ grey' = grey \cup {Successor}
      /\ calls' = <<Call(Successor)>> \o Advanced /\ m_succs' = m_succs /\ loops' = loops
  BY DEF TreeEdge, Collecting, Collect, graphVars
<1>2. TypeOK /\ Headers' = Headers /\ Black' = Black
  BY <1>1 DEF Core, Headers, Black
<1> SUFFICES ASSUME Structured(m_succs)
             PROVE  /\ CallsAreAPath(calls')
                    /\ \A h \in Headers' : HasLatch(h)'
                    /\ \A b \in BasicBlock : \A e \in 1 .. 2 :
                         PassedBy(Black', calls', b, e) /\ <<b, m_succs[b][e]>> \in BackEdges(m_succs)
                           => m_succs[b][e] \in Headers'
  BY <1>1, LatchesWhileCollecting
<1>3. /\ CallsLead /\ CallsAreAPath(calls) /\ \A h \in Headers : HasLatch(h)
      /\ \A b \in BasicBlock : \A e \in 1 .. 2 :
           Passed(b, e) /\ <<b, m_succs[b][e]>> \in BackEdges(m_succs) => m_succs[b][e] \in Headers
  BY <1>1, LatchesMean
<1>4. /\ Successor \in BasicBlock /\ Successor \in Succs(m_succs, Top.bb) /\ Top.bb \in BasicBlock
      /\ Successor = m_succs[Top.bb][Top.next]
  BY <1>1, <1>2, NextSuccessor, RunningCall
<1>5. <<Top.bb, Successor>> \notin BackEdges(m_succs)
  <2>1. Successor \notin Running
    BY <1>1 DEF Core, CollectSoFar
  <2> QED BY <1>1, <1>3, <2>1, RetreatingIsBackEdge
<1>6. /\ Advanced \in Seq(Frame) /\ Advanced # <<>> /\ Advanced[1].bb = Top.bb
      /\ CallsAreAPath(Advanced)
  <2>1. 1 \in 1 .. Len(calls) /\ Top = calls[1]
    BY <1>1, <1>2, RunningCall
  <2> QED BY <1>1, <1>2, <1>3, <2>1, AdvancedProperties, AdvancedIsAPath
<1>7. CallsAreAPath(calls')
  <2>1. Successor \in Succs(Forward, Advanced[1].bb)
    BY <1>2, <1>4, <1>5, <1>6, ForwardSuccs
  <2> QED BY <1>1, <1>4, <1>6, <2>1, PushIsAPath
<1>8. \A b : \A e \in 1 .. 2 : PassedBy(Black', calls', b, e) <=>
        Passed(b, e) \/ (b = Top.bb /\ e = Top.next)
  <2>1. \A b : \A e \in 1 .. 2 :
          PassedBy(Black, calls', b, e) <=> PassedBy(Black, Advanced, b, e)
    BY <1>1, <1>4, <1>6, PassedPush
  <2> QED BY <1>1, <1>2, <2>1, PassedNext
<1>9. \A h \in Headers' : HasLatch(h)'
  BY <1>1, <1>2, <1>3, <1>8, OldLatch
<1> QED BY <1>2, <1>3, <1>4, <1>5, <1>7, <1>8, <1>9

LEMMA CollectReturnKeepsLatches == Core /\ LatchesSoFar /\ CollectReturn => LatchesSoFar'
<1> SUFFICES ASSUME Core, LatchesSoFar, CollectReturn PROVE LatchesSoFar'
  OBVIOUS
<1>1. /\ Top.next = 3 /\ phase = "collect" /\ phase' = "collect" /\ calls # <<>>
      /\ grey' = grey \ {Top.bb} /\ calls' = Tail(calls)
      /\ m_succs' = m_succs /\ loops' = loops /\ dfs_marked' = dfs_marked
  BY DEF CollectReturn, Collecting, graphVars
<1>2. TypeOK /\ Headers' = Headers
  BY <1>1 DEF Core, Headers
<1>3. Black' = Black \cup {Top.bb}
  <2>1. Top.bb \in grey /\ grey \subseteq dfs_marked
    BY <1>1, <1>2, RunningCall DEF Core, CollectSoFar
  <2> QED BY <1>1, <2>1 DEF Black
<1> SUFFICES ASSUME Structured(m_succs)
             PROVE  /\ CallsAreAPath(calls')
                    /\ \A h \in Headers' : HasLatch(h)'
                    /\ \A b \in BasicBlock : \A e \in 1 .. 2 :
                         PassedBy(Black', calls', b, e) /\ <<b, m_succs[b][e]>> \in BackEdges(m_succs)
                           => m_succs[b][e] \in Headers'
  BY <1>1, LatchesWhileCollecting
<1>4. /\ CallsAreAPath(calls) /\ \A h \in Headers : HasLatch(h)
      /\ \A b \in BasicBlock : \A e \in 1 .. 2 :
           Passed(b, e) /\ <<b, m_succs[b][e]>> \in BackEdges(m_succs) => m_succs[b][e] \in Headers
  BY <1>1, LatchesMean
<1>5. CallsAreAPath(calls')
  BY <1>1, <1>2, <1>4, TailIsAPath
<1>6. \A b : \A e \in 1 .. 2 : PassedBy(Black', calls', b, e) <=> Passed(b, e)
  BY <1>1, <1>2, <1>3, PassedReturn
<1>7. \A h \in Headers' : HasLatch(h)'
  BY <1>1, <1>2, <1>4, <1>6, OldLatch
<1> QED BY <1>2, <1>4, <1>5, <1>6, <1>7

\* After all calls have returned each back edge has been passed.
LEMMA AllAreBlack ==
  ASSUME Core, phase = "collect", calls = <<>>
  PROVE  Reachable(m_succs) \subseteq Black
<1>1. /\ grey = Running /\ Headers \subseteq dfs_marked /\ root \in dfs_marked
      /\ \A b \in Black : Succs(m_succs, b) \subseteq Black \cup Headers
  BY DEF Core, CollectSoFar
<1>2. Black = dfs_marked
  BY <1>1 DEF Running, Elements, Black
<1>3. ClosedUnder(m_succs, {}, Black)
  BY <1>1, <1>2 DEF ClosedUnder
<1>4. Black \subseteq BasicBlock
  BY DEF Black, Core, TypeOK
<1> QED BY <1>1, <1>2, <1>3, <1>4, ReachLeast DEF Reachable

\* What LatchesSoFar says after them.
LEMMA LatchesAfter ==
  ASSUME phase' \notin {"dom", "collect"}, m_succs' = m_succs, Headers' = Headers,
         \A h \in Headers : loops'[h].latches = loops[h].latches /\ loops'[h].reducible = loops[h].reducible,
         Structured(m_succs) =>
           /\ \A h \in Headers : HasLatch(h)
           /\ Headers = {e[2] : e \in BackEdges(m_succs)}
  PROVE  LatchesSoFar'
<1>1. ASSUME NEW h \in Headers, HasLatch(h) PROVE HasLatch(h)'
  BY <1>1 DEF HasLatch
<1> QED BY <1>1 DEF LatchesSoFar

LEMMA CallRpoKeepsLatches == Core /\ LatchesSoFar /\ CallRpo => LatchesSoFar'
<1> SUFFICES ASSUME Core, LatchesSoFar, CallRpo PROVE LatchesSoFar'
  OBVIOUS
<1>1. /\ phase = "collect" /\ calls = <<>> /\ phase' = "order" /\ m_succs' = m_succs
      /\ loops' = loops /\ Headers' = Headers
  BY DEF CallRpo, graphVars, Headers
<1> SUFFICES ASSUME Structured(m_succs)
             PROVE  /\ \A h \in Headers : HasLatch(h)
                    /\ Headers = {e[2] : e \in BackEdges(m_succs)}
  BY <1>1, LatchesAfter
<1>2. /\ \A h \in Headers : HasLatch(h)
      /\ \A b \in BasicBlock : \A e \in 1 .. 2 :
           Passed(b, e) /\ <<b, m_succs[b][e]>> \in BackEdges(m_succs) => m_succs[b][e] \in Headers
  BY <1>1, LatchesMean
<1>3. ASSUME NEW h \in Headers PROVE h \in {e[2] : e \in BackEdges(m_succs)}
  <2>1. PICK l : <<l, h>> \in BackEdges(m_succs)
    BY <1>2 DEF HasLatch
  <2>2. <<l, h>>[2] = h
    OBVIOUS
  <2> QED BY <2>1, <2>2
<1>4. ASSUME NEW x \in BackEdges(m_succs) PROVE x[2] \in Headers
  <2>1. PICK l, h : x = <<l, h>>
    BY BackEdgesArePairs
  <2>2. m_succs \in BuiltGraphs /\ <<l, h>> \in BackEdges(m_succs) /\ x[2] = h
    BY <2>1, GraphIsBuilt DEF Core
  <2>3. l \in BasicBlock /\ h \in Succs(m_succs, l) /\ l \in Reachable(m_succs)
    <3>1. l \in Reachable(m_succs) /\ h \in Succs(m_succs, l)
      BY <2>2, BackEdgeMeans, Zenon
    <3> QED BY <3>1 DEF Reachable, Reach
  <2>4. PICK e \in 1 .. 2 : m_succs[l][e] = h
    BY <2>3 DEF Succs
  <2>5. Passed(l, e)
    BY <1>1, <2>3, AllAreBlack DEF Passed
  <2> QED BY <1>2, <2>2, <2>3, <2>4, <2>5
<1> QED BY <1>2, <1>3, <1>4

\* The blocks of one loop change.
LEMMA FillMeans ==
  ASSUME Core, phase # "done", NEW h \in Headers, NEW bbs,
         loops' = [loops EXCEPT ![h].basic_blocks = bbs]
  PROVE  /\ loops'[h].basic_blocks = bbs
         /\ \A o \in Headers \ {h} : loops'[o] = loops[o]
         /\ \A o \in Headers :
              /\ loops'[o].latches = loops[o].latches /\ loops'[o].reducible = loops[o].reducible
              /\ loops'[o].outer_loop = loops[o].outer_loop
              /\ loops'[o].inner_loops = loops[o].inner_loops
<1>1. Headers = DOMAIN loops /\ loops \in [DOMAIN loops -> Loop]
  BY LoopsOfBlocks DEF Core, TypeOK
<1>2. loops'[h] = [loops[h] EXCEPT !.basic_blocks = bbs] /\ loops[h] \in Loop
  BY <1>1
<1>3. /\ loops'[h].basic_blocks = bbs /\ loops'[h].latches = loops[h].latches
      /\ loops'[h].reducible = loops[h].reducible
      /\ loops'[h].outer_loop = loops[h].outer_loop
      /\ loops'[h].inner_loops = loops[h].inner_loops
  BY <1>2 DEF Loop
<1>4. \A o \in Headers \ {h} : loops'[o] = loops[o]
  BY <1>1
<1> QED BY <1>3, <1>4

\* A call of loop_search puts one loop in another at most.
LEMMA ClaimKeeps ==
  ASSUME Core, phase = "search", NEW b \in BasicBlock, Claim(b)
  PROVE  \A h \in Headers :
           /\ loops'[h].latches = loops[h].latches /\ loops'[h].reducible = loops[h].reducible
           /\ loops'[h].basic_blocks = loops[h].basic_blocks
<1> DEFINE inner == bb_to_loop[b]
<1>1. /\ loops \in [DOMAIN loops -> Loop] /\ Headers = DOMAIN loops /\ Header \in Headers
  BY WhileSearching DEF TypeOK
<1>2. CASE UNCHANGED loops
  BY <1>2
<1>3. CASE loops' = [loops EXCEPT ![inner].outer_loop = Header,
                                  ![Header].inner_loops = @ \cup {inner}]
  <2> DEFINE first == [loops EXCEPT ![inner].outer_loop = Header]
             new == first[Header].inner_loops \cup {inner}
  <2>1. Header \in BasicBlock
    BY WhileSearching
  <2>2. first \in [DOMAIN loops -> Loop]
    <3>1. inner \in DOMAIN loops => [loops[inner] EXCEPT !.outer_loop = Header] \in Loop
      BY <1>1, <2>1, LoopTypes
    <3> QED BY <1>1, <3>1
  <2>3. \A h \in Headers : /\ first[h].latches = loops[h].latches /\ first[h].reducible = loops[h].reducible
                           /\ first[h].basic_blocks = loops[h].basic_blocks
    <3> TAKE h \in Headers
    <3>1. first[h] = loops[h] \/ first[h] = [loops[h] EXCEPT !.outer_loop = Header]
      BY <1>1
    <3>2. loops[h] \in Loop
      BY <1>1
    <3> HIDE DEF first
    <3> QED BY <3>1, <3>2 DEF Loop
  <2>4. loops' = [first EXCEPT ![Header].inner_loops = new]
    BY <1>3
  <2> HIDE DEF first, inner, new
  <2>5. \A h \in Headers : /\ loops'[h].latches = first[h].latches /\ loops'[h].reducible = first[h].reducible
                           /\ loops'[h].basic_blocks = first[h].basic_blocks
    <3> TAKE h \in Headers
    <3>1. loops'[h] = first[h] \/ loops'[h] = [first[h] EXCEPT !.inner_loops = new]
      BY <1>1, <2>2, <2>4
    <3>2. first[h] \in Loop
      BY <1>1, <2>2
    <3> QED BY <3>1, <3>2 DEF Loop
  <2> QED BY <2>3, <2>5
<1> QED BY <1>2, <1>3 DEF Claim

\* The steps of populate_loops leave the latches alone.
LEMMA LatchesStay ==
  ASSUME Core, LatchesSoFar, phase \in {"order", "populate", "search"},
         phase' \notin {"dom", "collect"}, m_succs' = m_succs, Headers' = Headers,
         \A h \in Headers : loops'[h].latches = loops[h].latches /\ loops'[h].reducible = loops[h].reducible
  PROVE  LatchesSoFar'
BY LatchesAfter DEF LatchesSoFar

LEMMA PopulateKeepsLatches ==
  Core /\ LatchesSoFar /\ (RpoStep \/ RpoReturn \/ NotAHeader \/ IrreducibleLoop \/ ReducibleLoop
                           \/ SearchLatch \/ SearchPred \/ SkipPred \/ SearchReturn \/ LoopDone)
    => LatchesSoFar'
<1>1. ASSUME Core, LatchesSoFar, RpoStep \/ RpoReturn \/ NotAHeader \/ SkipPred \/ LoopDone
      PROVE  LatchesSoFar'
  <2>1. /\ phase \in {"order", "populate", "search"} /\ phase' \notin {"dom", "collect"}
        /\ m_succs' = m_succs /\ loops' = loops
    BY <1>1, RpoGoesOn DEF RpoStep, RpoReturn, NotAHeader, SkipPred, LoopDone, Populating,
          Searching, graphVars
  <2>2. Headers' = Headers
    BY <2>1 DEF Headers
  <2> QED BY <1>1, <2>1, <2>2, LatchesStay
<1>2. ASSUME Core, LatchesSoFar, IrreducibleLoop \/ ReducibleLoop \/ SearchReturn
      PROVE  LatchesSoFar'
  <2>1. /\ phase \in {"populate", "search"} /\ phase' \in {"populate", "search"}
        /\ m_succs' = m_succs /\ Header \in DOMAIN loops
        /\ \E bbs : loops' = [loops EXCEPT ![Header].basic_blocks = bbs]
    <3>1. phase = "search" => Header \in DOMAIN loops
      BY <1>2, WhileSearching
    <3>2. CASE IrreducibleLoop
      BY <3>2 DEF IrreducibleLoop, Populating, graphVars
    <3>3. CASE ReducibleLoop
      BY <3>3 DEF ReducibleLoop, Populating, graphVars
    <3>4. CASE SearchReturn
      <4>1. /\ phase = "search" /\ phase' = "search" /\ m_succs' = m_succs
            /\ loops' = [loops EXCEPT ![Header].basic_blocks = Append(@, Top.bb)]
        BY <3>4 DEF SearchReturn, Searching, graphVars
      <4>2. loops' = [loops EXCEPT ![Header].basic_blocks = Append(loops[Header].basic_blocks, Top.bb)]
        BY <4>1
      <4> QED BY <3>1, <4>1, <4>2
    <3> QED BY <1>2, <3>2, <3>3, <3>4
  <2>2. PICK bbs : loops' = [loops EXCEPT ![Header].basic_blocks = bbs]
    BY <2>1
  <2>3. PICK h : h = Header
    OBVIOUS
  <2>4. h \in Headers /\ Headers' = Headers
    BY <1>2, <2>1, <2>2, <2>3, LoopsOfBlocks DEF Core, Headers
  <2>5. \A o \in Headers : loops'[o].latches = loops[o].latches /\ loops'[o].reducible = loops[o].reducible
    BY <1>2, <2>1, <2>2, <2>3, <2>4, FillMeans
  <2> QED BY <1>2, <2>1, <2>4, <2>5, LatchesStay
<1>3. ASSUME Core, LatchesSoFar, SearchLatch \/ SearchPred
      PROVE  LatchesSoFar'
  <2>1. /\ phase = "search" /\ phase' = "search" /\ m_succs' = m_succs
        /\ \E b \in BasicBlock : Claim(b)
    <3>1. CASE SearchLatch
      <4>1. /\ phase = "search" /\ phase' = "search" /\ m_succs' = m_succs
            /\ latch <= Len(loops[Header].latches) /\ Claim(loops[Header].latches[latch])
        BY <3>1 DEF SearchLatch, LoopSearch, graphVars
      <4>2. loops[Header].latches[latch] \in BasicBlock
        <5>1. loops[Header].latches \in Seq(BasicBlock) /\ latch \in Nat \ {0}
          BY <1>3, <4>1, WhileSearching, LoopTypes
        <5> QED BY <4>1, <5>1
      <4> QED BY <4>1, <4>2
    <3>2. CASE SearchPred
      <4>1. /\ phase = "search" /\ phase' = "search" /\ m_succs' = m_succs
            /\ Searching /\ HasPred /\ Claim(Pred)
        BY <3>2 DEF SearchPred, Searching, LoopSearch, graphVars
      <4> QED BY <1>3, <4>1, NextPred DEF Core
    <3> QED BY <1>3, <3>1, <3>2
  <2>2. PICK b \in BasicBlock : Claim(b)
    BY <2>1
  <2>3. DOMAIN loops' = DOMAIN loops
    BY <1>3, <2>1, <2>2, WhileSearching, ClaimTypes
  <2>4. Headers' = Headers
    BY <2>3 DEF Headers
  <2> QED BY <1>3, <2>1, <2>2, <2>4, ClaimKeeps, LatchesStay
<1> QED BY <1>1, <1>2, <1>3

LEMMA FinishKeepsLatches == Core /\ LatchesSoFar /\ Finish => LatchesSoFar'
<1> SUFFICES ASSUME Core, LatchesSoFar, Finish PROVE LatchesSoFar'
  OBVIOUS
<1> DEFINE outermost == {h \in Headers : loops[h].outer_loop = noLoop}
<1>1. phase = "populate" /\ phase' = "done" /\ m_succs' = m_succs
  BY DEF Finish, graphVars
<1>2. /\ Headers' = Headers
      /\ \A h \in outermost : loops'[h] = [loops[h] EXCEPT !.outer_loop = nullptr]
      /\ \A h \in Headers \ outermost : loops'[h] = loops[h]
  BY FinishMakes
<1>3. \A h \in Headers : loops[h] \in Loop
  BY <1>1, LoopsOfBlocks DEF Core, TypeOK
<1>4. ASSUME NEW h \in Headers
      PROVE  loops'[h].latches = loops[h].latches /\ loops'[h].reducible = loops[h].reducible
  <2>1. loops'[h] = loops[h] \/ loops'[h] = [loops[h] EXCEPT !.outer_loop = nullptr]
    BY <1>2
  <2>2. loops[h] \in Loop
    BY <1>3
  <2> QED BY <2>1, <2>2 DEF Loop
<1> QED BY <1>1, <1>2, <1>4, LatchesStay

LEMMA StutterKeepsLatches == LatchesSoFar /\ UNCHANGED vars => LatchesSoFar'
<1> SUFFICES ASSUME LatchesSoFar, UNCHANGED vars PROVE LatchesSoFar'
  OBVIOUS
<1>1. /\ m_succs' = m_succs /\ phase' = phase /\ loops' = loops /\ calls' = calls
      /\ Black' = Black
  BY DEF vars, graphVars, searchVars, Black
<1>2. Forward' = Forward /\ Headers' = Headers
  BY <1>1 DEF Forward, Headers
<1>3. \A b, e : Passed(b, e)' <=> Passed(b, e)
  BY <1>1 DEF Passed
<1>4. \A h \in Headers : HasLatch(h) => HasLatch(h)'
  BY <1>1, <1>3 DEF HasLatch
<1>5. CallsLead => CallsLead'
  BY <1>1, <1>2 DEF CallsLead
<1> QED BY <1>1, <1>2, <1>3, <1>4, <1>5 DEF LatchesSoFar

LEMMA NextKeepsLatches == Core /\ LatchesSoFar /\ [Next]_vars => LatchesSoFar'
BY CallDomKeepsLatches, BackEdgeKeepsLatches, OtherEdgeKeepsLatches, TreeEdgeKeepsLatches,
   CollectReturnKeepsLatches, CallRpoKeepsLatches, PopulateKeepsLatches, FinishKeepsLatches,
   StutterKeepsLatches DEF Next

(***************************************************************************)
(* In structured code: the nesting of the loops.                           *)
(***************************************************************************)

\* Smallest, in the graph g.
SmallestIn(g, hs, b, loop) ==
  IF loop = noLoop
  THEN \A o \in hs : b \notin NaturalLoop(g, o)
  ELSE /\ loop \in hs /\ b \in NaturalLoop(g, loop)
       /\ \A o \in hs : b \in NaturalLoop(g, o) => NaturalLoop(g, loop) \subseteq NaturalLoop(g, o)

\* NestedSoFar of any headers hs, of which some are filled, while the walk from the
\* latch of `header` has been to the blocks `walked`.
Nested(g, hs, filled, walked, header, to, ls) ==
  /\ \A b \in BasicBlock :
       IF b \in walked /\ SmallestIn(g, filled, b, noLoop)
       THEN to[b] = header
       ELSE SmallestIn(g, filled, b, to[b])
  /\ \A h \in filled :
       IF SmallestIn(g, filled \ {h}, h, noLoop) /\ \E b \in walked : to[b] = h
       THEN ls[h].outer_loop = header
       ELSE SmallestIn(g, filled \ {h}, h, ls[h].outer_loop)
  /\ \A h \in hs \ filled : ls[h].outer_loop = noLoop
  /\ \A o \in hs : ls[o].inner_loops = {h \in hs : ls[h].outer_loop = o}

\* The loops of ls lie in each other as those of other do.
SameNesting(hs, ls, other) ==
  \A h \in hs : ls[h].outer_loop = other[h].outer_loop /\ ls[h].inner_loops = other[h].inner_loops

LEMMA SameNestingKeeps ==
  ASSUME NEW g, NEW hs, NEW filled \in SUBSET hs, NEW walked, NEW header, NEW to, NEW ls,
         NEW other, Nested(g, hs, filled, walked, header, to, ls), SameNesting(hs, other, ls)
  PROVE  Nested(g, hs, filled, walked, header, to, other)
<1>1. \A o \in hs : {h \in hs : other[h].outer_loop = o} = {h \in hs : ls[h].outer_loop = o}
  BY DEF SameNesting
<1>2. \A h \in hs : other[h].outer_loop = ls[h].outer_loop /\ other[h].inner_loops = ls[h].inner_loops
  BY DEF SameNesting
<1> HIDE DEF SameNesting
<1>3. \A o \in hs : other[o].inner_loops = {h \in hs : other[h].outer_loop = o}
  BY <1>1, <1>2 DEF Nested
<1>4. \A h \in filled : h \in hs
  OBVIOUS
<1> QED BY <1>2, <1>3, <1>4 DEF Nested

\* Where the walk has not been, a block is mapped to a loop that is filled, or none.
LEMMA NotWalked ==
  ASSUME NEW g, NEW hs, NEW filled, NEW walked, NEW header, NEW to, NEW ls,
         Nested(g, hs, filled, walked, header, to, ls), NEW b \in BasicBlock \ walked
  PROVE  SmallestIn(g, filled, b, to[b]) /\ to[b] \in filled \cup {noLoop}
BY DEF Nested, SmallestIn

\* The walk of a loop starts at its header, which is in no loop that is filled.
LEMMA NestedStarts ==
  ASSUME NEW g, NEW hs, NEW filled \in SUBSET hs, NEW header \in hs \ filled,
         hs \subseteq BasicBlock, \A h \in filled : header \notin NaturalLoop(g, h),
         NEW to \in [BasicBlock -> BasicBlock \cup {noLoop}], NEW ls, NEW any,
         Nested(g, hs, filled, {}, any, to, ls)
  PROVE  Nested(g, hs, filled, {header}, header, [to EXCEPT ![header] = header], ls)
<1> DEFINE then == [to EXCEPT ![header] = header]
<1>1. then[header] = header /\ \A b \in BasicBlock \ {header} : then[b] = to[b]
  OBVIOUS
<1>2. SmallestIn(g, filled, header, noLoop)
  BY DEF SmallestIn
<1> HIDE DEF then
<1>3. \A b \in BasicBlock :
        IF b \in {header} /\ SmallestIn(g, filled, b, noLoop)
        THEN then[b] = header
        ELSE SmallestIn(g, filled, b, then[b])
  BY <1>1, <1>2 DEF Nested
<1>4. \A h \in filled : ~ \E b \in {header} : then[b] = h
  BY <1>1
<1> QED BY <1>3, <1>4 DEF Nested, then

\* The walk comes to block b.
LEMMA NestedClaims ==
  ASSUME NEW g, NEW hs, NEW filled \in SUBSET hs, NEW header \in hs \ filled,
         hs \subseteq BasicBlock, NEW walked \in SUBSET BasicBlock, NEW b \in BasicBlock \ walked,
         NEW to \in [BasicBlock -> BasicBlock \cup {noLoop}], NEW ls, NEW then, NEW others,
         Nested(g, hs, filled, walked, header, to, ls),
         \/ /\ to[b] = noLoop /\ then = [to EXCEPT ![b] = header]
            /\ SameNesting(hs, others, ls)
         \/ /\ to[b] # noLoop /\ ls[to[b]].outer_loop = noLoop /\ then = to
            /\ \A h \in hs : /\ others[h].outer_loop = IF h = to[b] THEN header ELSE ls[h].outer_loop
                             /\ others[h].inner_loops =
                                  IF h = header THEN ls[h].inner_loops \cup {to[b]} ELSE ls[h].inner_loops
         \/ /\ to[b] # noLoop /\ ls[to[b]].outer_loop # noLoop /\ then = to
            /\ SameNesting(hs, others, ls)
  PROVE  Nested(g, hs, filled, walked \cup {b}, header, then, others)
<1> DEFINE inner == to[b]
           Alone(h) == SmallestIn(g, filled \ {h}, h, noLoop)
<1>0. SmallestIn(g, filled, b, inner) /\ inner \in filled \cup {noLoop}
  BY NotWalked
<1>1. noLoop \notin BasicBlock /\ header \in BasicBlock /\ header # noLoop
  BY NoLoopAssumption
<1>2. /\ \A c \in BasicBlock :
           IF c \in walked /\ SmallestIn(g, filled, c, noLoop)
           THEN to[c] = header
           ELSE SmallestIn(g, filled, c, to[c])
      /\ \A h \in filled :
           IF Alone(h) /\ \E c \in walked : to[c] = h
           THEN ls[h].outer_loop = header
           ELSE SmallestIn(g, filled \ {h}, h, ls[h].outer_loop)
      /\ \A h \in hs \ filled : ls[h].outer_loop = noLoop
      /\ \A o \in hs : ls[o].inner_loops = {h \in hs : ls[h].outer_loop = o}
  BY DEF Nested
<1>3. CASE inner = noLoop /\ then = [to EXCEPT ![b] = header] /\ SameNesting(hs, others, ls)
  <2>1. then[b] = header /\ \A c \in BasicBlock \ {b} : then[c] = to[c]
    BY <1>3
  <2>2. \A c \in BasicBlock :
          IF c \in walked \cup {b} /\ SmallestIn(g, filled, c, noLoop)
          THEN then[c] = header
          ELSE SmallestIn(g, filled, c, then[c])
    BY <1>0, <1>2, <1>3, <2>1
  <2>3. \A h \in filled : (\E c \in walked \cup {b} : then[c] = h) <=> \E c \in walked : to[c] = h
    BY <2>1
  <2>4. \A h \in filled :
          IF Alone(h) /\ \E c \in walked \cup {b} : then[c] = h
          THEN ls[h].outer_loop = header
          ELSE SmallestIn(g, filled \ {h}, h, ls[h].outer_loop)
    <3> HIDE DEF Alone
    <3> QED BY <1>2, <2>3
  <2>5. Nested(g, hs, filled, walked \cup {b}, header, then, ls)
    BY <1>2, <2>2, <2>4 DEF Nested
  <2> QED BY <1>3, <2>5, SameNestingKeeps
<1>4. ASSUME inner # noLoop, then = to
      PROVE  /\ inner \in filled
             /\ \A c \in BasicBlock :
                  IF c \in walked \cup {b} /\ SmallestIn(g, filled, c, noLoop)
                  THEN then[c] = header
                  ELSE SmallestIn(g, filled, c, then[c])
             /\ \A h \in filled \ {inner} :
                  (\E c \in walked \cup {b} : then[c] = h) <=> \E c \in walked : to[c] = h
             /\ \E c \in walked \cup {b} : then[c] = inner
  <2>1. ~ SmallestIn(g, filled, b, noLoop)
    BY <1>0, <1>4 DEF SmallestIn
  <2> QED BY <1>0, <1>2, <1>4, <2>1
<1>5. CASE /\ inner # noLoop /\ ls[inner].outer_loop = noLoop /\ then = to
           /\ \A h \in hs : /\ others[h].outer_loop = IF h = inner THEN header ELSE ls[h].outer_loop
                            /\ others[h].inner_loops =
                                 IF h = header THEN ls[h].inner_loops \cup {inner} ELSE ls[h].inner_loops
  <2>1. /\ inner \in filled /\ inner \in hs
        /\ \A c \in BasicBlock :
             IF c \in walked \cup {b} /\ SmallestIn(g, filled, c, noLoop)
             THEN then[c] = header
             ELSE SmallestIn(g, filled, c, then[c])
        /\ \A h \in filled \ {inner} :
             (\E c \in walked \cup {b} : then[c] = h) <=> \E c \in walked : to[c] = h
        /\ \E c \in walked \cup {b} : then[c] = inner
    BY <1>4, <1>5
  <2>2. Alone(inner)
    <3> HIDE DEF Alone
    <3>1. ~ (Alone(inner) /\ \E c \in walked : to[c] = inner)
      BY <1>1, <1>2, <1>5, <2>1
    <3>2. SmallestIn(g, filled \ {inner}, inner, ls[inner].outer_loop)
      BY <1>2, <2>1, <3>1
    <3> QED BY <1>5, <3>2 DEF Alone
  <2>3. \A h \in filled :
          IF Alone(h) /\ \E c \in walked \cup {b} : then[c] = h
          THEN others[h].outer_loop = header
          ELSE SmallestIn(g, filled \ {h}, h, others[h].outer_loop)
    <3> TAKE h \in filled
    <3> HIDE DEF Alone, inner
    <3>1. CASE h = inner
      BY <1>5, <2>1, <2>2, <3>1
    <3>2. CASE h # inner
      <4>1. others[h].outer_loop = ls[h].outer_loop
        BY <1>5, <3>2
      <4>2. (\E c \in walked \cup {b} : then[c] = h) <=> \E c \in walked : to[c] = h
        BY <2>1, <3>2
      <4> QED BY <1>2, <4>1, <4>2
    <3> QED BY <3>1, <3>2
  <2>4. \A h \in hs \ filled : others[h].outer_loop = noLoop
    BY ZenonT(60), <1>2, <1>5, <2>1
  <2>5. ASSUME NEW o \in hs
        PROVE  others[o].inner_loops = {h \in hs : others[h].outer_loop = o}
    <3>1. ls[o].inner_loops = {h \in hs : ls[h].outer_loop = o}
      BY <1>2
    <3>2. o # noLoop
      BY <1>1
    <3> HIDE DEF inner
    <3>3. CASE o = header
      <4>1. others[o].inner_loops = ls[o].inner_loops \cup {inner}
        BY <1>5, <3>3
      <4>2. \A h \in hs : others[h].outer_loop = o <=> h = inner \/ ls[h].outer_loop = o
        BY <1>5, <3>3
      <4> QED BY <2>1, <3>1, <4>1, <4>2
    <3>4. CASE o # header
      <4>1. others[o].inner_loops = ls[o].inner_loops
        BY <1>5, <3>4
      <4>2. \A h \in hs : others[h].outer_loop = o <=> ls[h].outer_loop = o
        BY <1>5, <3>2, <3>4
      <4> QED BY <3>1, <4>1, <4>2
    <3> QED BY <3>3, <3>4
  <2> QED BY <2>1, <2>3, <2>4, <2>5 DEF Nested
<1>6. CASE /\ inner # noLoop /\ ls[inner].outer_loop # noLoop /\ then = to
           /\ SameNesting(hs, others, ls)
  <2>1. /\ inner \in filled
        /\ \A c \in BasicBlock :
             IF c \in walked \cup {b} /\ SmallestIn(g, filled, c, noLoop)
             THEN then[c] = header
             ELSE SmallestIn(g, filled, c, then[c])
        /\ \A h \in filled \ {inner} :
             (\E c \in walked \cup {b} : then[c] = h) <=> \E c \in walked : to[c] = h
    BY <1>4, <1>6
  <2>2. Alone(inner) => ls[inner].outer_loop = header
    <3>1. ASSUME Alone(inner), ~ \E c \in walked : to[c] = inner PROVE FALSE
      <4>1. SmallestIn(g, filled \ {inner}, inner, ls[inner].outer_loop)
        BY <1>2, <2>1, <3>1
      <4> QED BY <1>6, <3>1, <4>1 DEF SmallestIn
    <3> HIDE DEF Alone
    <3> QED BY <1>2, <2>1, <3>1
  <2>3. \A h \in filled :
          IF Alone(h) /\ \E c \in walked \cup {b} : then[c] = h
          THEN ls[h].outer_loop = header
          ELSE SmallestIn(g, filled \ {h}, h, ls[h].outer_loop)
    <3> TAKE h \in filled
    <3> HIDE DEF Alone, inner
    <3>1. CASE h = inner
      <4>1. ~ Alone(h) => SmallestIn(g, filled \ {h}, h, ls[h].outer_loop)
        BY <1>2
      <4>2. \E c \in walked \cup {b} : then[c] = h
        BY <1>6, <3>1 DEF inner
      <4> QED BY <2>2, <3>1, <4>1, <4>2
    <3>2. CASE h # inner
      <4>1. (\E c \in walked \cup {b} : then[c] = h) <=> \E c \in walked : to[c] = h
        BY <2>1, <3>2
      <4> QED BY <1>2, <4>1
    <3> QED BY <3>1, <3>2
  <2>4. Nested(g, hs, filled, walked \cup {b}, header, then, ls)
    BY <1>2, <2>1, <2>3 DEF Nested
  <2> QED BY <1>6, <2>4, SameNestingKeeps
<1> QED BY <1>3, <1>5, <1>6

\* When the walk has been to the whole loop, the loop is one of those that are
\* filled: what was in no loop, or met in one that was in no other, is in it.
LEMMA NestedEnds ==
  ASSUME NEW g \in BuiltGraphs, Reachable(g) = BasicBlock,
         NEW hs \in SUBSET BasicBlock, NEW filled \in SUBSET hs, NEW header \in hs \ filled,
         \A h \in filled : header \notin NaturalLoop(g, h),
         NEW to, NEW ls, NEW any,
         Nested(g, hs, filled, NaturalLoop(g, header), header, to, ls)
  PROVE  Nested(g, hs, filled \cup {header}, {}, any, to, ls)
<1> DEFINE N(h) == NaturalLoop(g, h)
           more == filled \cup {header}
<1>0. /\ header \in BasicBlock /\ header # noLoop /\ noLoop \notin filled
      /\ \A h \in filled : h \in BasicBlock
  BY NoLoopAssumption
<1>1. /\ \A b \in BasicBlock :
           IF b \in N(header) /\ SmallestIn(g, filled, b, noLoop)
           THEN to[b] = header
           ELSE SmallestIn(g, filled, b, to[b])
      /\ \A h \in filled :
           IF SmallestIn(g, filled \ {h}, h, noLoop) /\ \E b \in N(header) : to[b] = h
           THEN ls[h].outer_loop = header
           ELSE SmallestIn(g, filled \ {h}, h, ls[h].outer_loop)
      /\ \A h \in hs \ filled : ls[h].outer_loop = noLoop
      /\ \A o \in hs : ls[o].inner_loops = {h \in hs : ls[h].outer_loop = o}
  BY DEF Nested
<1>2. \A h \in BasicBlock : h \in N(h) /\ \A b \in N(h) : b \in BasicBlock
  BY InNaturalLoop
<1>3. ASSUME NEW h \in filled, NEW b \in N(h), b \in N(header)
      PROVE  N(h) \subseteq N(header)
  <2>1. header \notin NaturalLoop(g, h) /\ h \in BasicBlock
    BY <1>0
  <2> QED BY <1>0, <1>3, <2>1, LoopsNest
<1> HIDE DEF N
<1>4. ASSUME NEW hh \in SUBSET filled, NEW b, NEW loop, SmallestIn(g, hh, b, loop),
             b \notin N(header) \/ loop # noLoop
      PROVE  SmallestIn(g, hh \cup {header}, b, loop)
  <2>1. CASE loop = noLoop
    BY <1>4, <2>1 DEF SmallestIn, N
  <2>2. CASE loop # noLoop
    <3>1. /\ loop \in hh /\ b \in N(loop)
          /\ \A o \in hh : b \in N(o) => N(loop) \subseteq N(o)
      BY <1>4, <2>2 DEF SmallestIn, N
    <3>2. b \in N(header) => N(loop) \subseteq N(header)
      BY <1>3, <3>1
    <3> QED BY <2>2, <3>1, <3>2 DEF SmallestIn, N
  <2> QED BY <2>1, <2>2
<1>5. ASSUME NEW hh \in SUBSET filled, NEW b \in N(header), SmallestIn(g, hh, b, noLoop)
      PROVE  SmallestIn(g, hh \cup {header}, b, header)
  BY <1>0, <1>5 DEF SmallestIn, N
<1>6. ASSUME NEW b \in BasicBlock PROVE SmallestIn(g, more, b, to[b])
  <2>1. CASE b \in N(header) /\ SmallestIn(g, filled, b, noLoop)
    BY <1>1, <1>5, <2>1
  <2>2. CASE b \notin N(header)
    BY <1>1, <1>4, <2>2
  <2>3. CASE b \in N(header) /\ ~ SmallestIn(g, filled, b, noLoop)
    <3>1. SmallestIn(g, filled, b, to[b]) /\ to[b] # noLoop
      BY <1>1, <2>3
    <3> QED BY <1>4, <3>1
  <2> QED BY <2>1, <2>2, <2>3
<1>7. ASSUME NEW h \in filled PROVE SmallestIn(g, more \ {h}, h, ls[h].outer_loop)
  <2> DEFINE outer == ls[h].outer_loop
             hh == filled \ {h}
             Visited == \E b \in N(header) : to[b] = h
  <2>0. more \ {h} = hh \cup {header} /\ hh \in SUBSET filled /\ h \in BasicBlock /\ h # noLoop
    BY <1>0
  <2>1. CASE h \notin N(header)
    <3>1. ~ Visited
      <4> SUFFICES ASSUME NEW b \in N(header), to[b] = h PROVE FALSE
        OBVIOUS
      <4>1. b \in BasicBlock /\ h # header
        BY <1>0, <1>2
      <4>2. SmallestIn(g, filled, b, h)
        BY <1>1, <4>1
      <4>3. b \in N(h)
        BY <2>0, <4>2 DEF SmallestIn, N
      <4>4. h \in N(h) /\ N(h) \subseteq N(header)
        BY <1>2, <1>3, <2>0, <4>3
      <4> QED BY <2>1, <4>4
    <3>2. SmallestIn(g, hh, h, outer)
      BY <1>1, <3>1
    <3> QED BY <1>4, <2>0, <2>1, <3>2
  <2>2. CASE h \in N(header) /\ SmallestIn(g, hh, h, noLoop)
    <3>1. ~ SmallestIn(g, filled, h, noLoop)
      BY <1>2, <2>0 DEF SmallestIn, N
    <3>2. SmallestIn(g, filled, h, to[h]) /\ to[h] # noLoop
      BY <1>1, <2>0, <3>1
    <3>3. to[h] \in filled /\ h \in N(to[h])
      BY <3>2 DEF SmallestIn, N
    <3>4. to[h] = h
      BY <2>2, <3>3 DEF SmallestIn, N
    <3>5. outer = header
      BY <1>1, <2>2, <3>4
    <3> QED BY <1>5, <2>0, <2>2, <3>5
  <2>3. CASE h \in N(header) /\ ~ SmallestIn(g, hh, h, noLoop)
    <3>1. SmallestIn(g, hh, h, outer) /\ outer # noLoop
      BY <1>1, <2>3
    <3> QED BY <1>4, <2>0, <3>1
  <2> QED BY <2>1, <2>2, <2>3
<1>8. SmallestIn(g, more \ {header}, header, ls[header].outer_loop)
  <2>1. more \ {header} = filled /\ ls[header].outer_loop = noLoop
    BY <1>1
  <2>2. \A o \in filled : header \notin N(o)
    BY DEF N
  <2> QED BY <2>1, <2>2 DEF SmallestIn, N
<1>9. \A h \in more : SmallestIn(g, more \ {h}, h, ls[h].outer_loop)
  BY <1>7, <1>8
<1>10. \A h \in hs \ more : ls[h].outer_loop = noLoop
  BY <1>1
<1> HIDE DEF more
<1>11. Nested(g, hs, more, {}, any, to, ls)
  BY <1>1, <1>6, <1>9, <1>10 DEF Nested
<1> QED BY <1>11 DEF more

(***************************************************************************)
(* In structured code: the walk from a latch.                              *)
(***************************************************************************)

\* The running calls of s have come past predecessors in `walked`.
PredsPassed(preds, s, walked) ==
  \A k \in 1 .. Len(s) : \A m \in 1 .. Len(preds[s[k].bb]) :
    m < s[k].next => preds[s[k].bb][m] \in walked

\* SearchSoFar of the loop of header h and latch l, whose blocks so far are bbs;
\* place n among the latches is next.
Walk(g, preds, h, l, walked, s, bbs, n) ==
  /\ h \in walked /\ walked \subseteq NaturalLoop(g, h)
  /\ BlocksOf(s) \subseteq walked \ {h}
  /\ Elements(bbs) = walked \ BlocksOf(s)
  /\ Distinct(bbs) /\ bbs[1] = h
  /\ n = 1 => walked = {h} /\ s = <<>>
  /\ n # 1 => /\ n = 2 /\ l \in walked
              /\ (IF s = <<>> THEN bbs[Len(bbs)] ELSE s[Len(s)].bb) = l
  /\ \A b \in walked \ (BlocksOf(s) \cup {h}) : Elements(preds[b]) \subseteq walked
  /\ PredsPassed(preds, s, walked)

LEMMA WalkStarts ==
  ASSUME NEW g, NEW preds, NEW h \in BasicBlock, NEW l
  PROVE  Walk(g, preds, h, l, {h}, <<>>, <<h>>, 1)
<1>1. Elements(<<h>>) = {h} /\ Distinct(<<h>>) /\ BlocksOf(<<>>) = {} /\ Len(<<>>) = 0
  BY DEF Elements, Distinct, BlocksOf
<1>2. h \in NaturalLoop(g, h)
  BY InNaturalLoop
<1> QED BY <1>1, <1>2 DEF Walk, PredsPassed

\* loop_search is called for the latch.
LEMMA WalkToLatch ==
  ASSUME NEW g, NEW preds, NEW h, NEW l \in NaturalLoop(g, h) \ {h}, l \in BasicBlock, NEW bbs,
         NEW walked, Walk(g, preds, h, l, walked, <<>>, bbs, 1)
  PROVE  Walk(g, preds, h, l, walked \cup {l}, <<Call(l)>> \o <<>>, bbs, 2)
<1> DEFINE none == <<>>
           t == <<Call(l)>> \o none
<1>0. none \in Seq(Frame) /\ DistinctCalls(none) /\ BlocksOf(none) = {} /\ Len(none) = 0
  BY NoCalls DEF DistinctCalls
<1> HIDE DEF none
<1>1. /\ t \in Seq(Frame) /\ t # <<>> /\ Len(t) = 1 /\ t[1].bb = l /\ t[1].next = 1
      /\ BlocksOf(t) = {l}
  <2>1. l \in BasicBlock /\ l \notin BlocksOf(none)
    BY <1>0
  <2>2. /\ t \in Seq(Frame) /\ t # <<>> /\ Len(t) = Len(none) + 1 /\ t[1].bb = l /\ t[1].next = 1
        /\ BlocksOf(t) = {l} \cup BlocksOf(none)
    BY <1>0, <2>1, NewCall
  <2> HIDE DEF t
  <2> QED BY <1>0, <2>2
<1>2. walked = {h} /\ BlocksOf(<<>>) = {}
  BY NoCalls DEF Walk
<1> HIDE DEF t
<1>3. PredsPassed(preds, t, walked \cup {l})
  <2>1. \A k \in 1 .. Len(t) : k = 1
    BY <1>1
  <2> QED BY <1>1, <2>1 DEF PredsPassed
<1>4. h # l /\ (walked \cup {l}) \ {l} = {h} /\ (walked \cup {l}) \ ({l} \cup {h}) = {}
  BY <1>2
<1>5. h \in NaturalLoop(g, h) /\ Elements(bbs) = {h} /\ Distinct(bbs) /\ bbs[1] = h
  BY <1>2 DEF Walk
<1>6. t[Len(t)].bb = l
  BY <1>1
<1>7. /\ h \in walked \cup {l} /\ walked \cup {l} \subseteq NaturalLoop(g, h)
      /\ BlocksOf(t) \subseteq (walked \cup {l}) \ {h}
      /\ Elements(bbs) = (walked \cup {l}) \ BlocksOf(t)
  BY <1>1, <1>2, <1>4, <1>5
<1>8. \A b \in (walked \cup {l}) \ (BlocksOf(t) \cup {h}) : Elements(preds[b]) \subseteq walked \cup {l}
  BY <1>1, <1>2, <1>4
<1>9. (IF t = <<>> THEN bbs[Len(bbs)] ELSE t[Len(t)].bb) = l
  BY <1>1, <1>6
<1>10. Walk(g, preds, h, l, walked \cup {l}, t, bbs, 2)
  BY <1>3, <1>5, <1>7, <1>8, <1>9 DEF Walk
<1> QED BY <1>10 DEF t, none

\* t is s when its running call has come past one more predecessor.
AdvancedOf(t, s) ==
  /\ Len(t) = Len(s) /\ BlocksOf(t) = BlocksOf(s)
  /\ \A k \in 1 .. Len(s) : t[k].bb = s[k].bb
  /\ t[1].next = s[1].next + 1
  /\ \A k \in 2 .. Len(s) : t[k] = s[k]

LEMMA PredsPassedNext ==
  ASSUME NEW preds, NEW s \in Seq(Frame), s # <<>>, NEW t, AdvancedOf(t, s),
         NEW walked, NEW more, walked \subseteq more, PredsPassed(preds, s, walked),
         preds[s[1].bb] \in Seq(BasicBlock), preds[s[1].bb][s[1].next] \in more
  PROVE  PredsPassed(preds, t, more)
<1> SUFFICES ASSUME NEW k \in 1 .. Len(t), NEW m \in 1 .. Len(preds[t[k].bb]), m < t[k].next
             PROVE  preds[t[k].bb][m] \in more
  BY DEF PredsPassed
<1>1. k \in 1 .. Len(s) /\ t[k].bb = s[k].bb /\ Len(s) \in Nat \ {0}
  BY DEF AdvancedOf
<1>2. CASE k = 1
  <2>0. s[1] \in Frame
    BY <1>1, <1>2
  <2>1. s[1].next \in Nat /\ t[1].next = s[1].next + 1
    BY <2>0 DEF Frame, AdvancedOf
  <2>2. m < s[1].next \/ m = s[1].next
    BY <1>1, <1>2, <2>1
  <2> QED BY <1>1, <1>2, <2>2 DEF PredsPassed
<1>3. CASE k # 1
  <2>1. k \in 2 .. Len(s) /\ t[k] = s[k]
    BY <1>1, <1>3 DEF AdvancedOf
  <2> QED BY <1>1, <2>1 DEF PredsPassed
<1> QED BY <1>2, <1>3

\* The running call finds that it has been to its next predecessor.
LEMMA WalkSkips ==
  ASSUME NEW g, NEW preds, NEW h, NEW l, NEW walked, NEW s \in Seq(Frame), s # <<>>,
         NEW t \in Seq(Frame), AdvancedOf(t, s), NEW bbs, NEW n,
         Walk(g, preds, h, l, walked, s, bbs, n),
         preds[s[1].bb] \in Seq(BasicBlock), preds[s[1].bb][s[1].next] \in walked
  PROVE  Walk(g, preds, h, l, walked, t, bbs, n)
<1>1. PredsPassed(preds, t, walked)
  BY PredsPassedNext DEF Walk
<1>2. Len(s) \in 1 .. Len(s) /\ t # <<>>
  BY DEF AdvancedOf
<1>3. t[Len(t)].bb = s[Len(s)].bb /\ BlocksOf(t) = BlocksOf(s)
  BY <1>2 DEF AdvancedOf
<1> QED BY <1>1, <1>2, <1>3 DEF Walk

\* Or it calls loop_search for it.
LEMMA WalkGoesOn ==
  ASSUME NEW g, NEW preds, NEW h, NEW l, NEW walked, NEW s \in Seq(Frame), s # <<>>,
         NEW t \in Seq(Frame), AdvancedOf(t, s), NEW bbs, NEW n,
         Walk(g, preds, h, l, walked, s, bbs, n), preds[s[1].bb] \in Seq(BasicBlock),
         NEW b \in NaturalLoop(g, h) \ walked, b \in BasicBlock, preds[s[1].bb][s[1].next] = b
  PROVE  Walk(g, preds, h, l, walked \cup {b}, <<Call(b)>> \o t, bbs, n)
<1> DEFINE u == <<Call(b)>> \o t
<1>1. Call(b) \in Frame /\ Call(b).bb = b /\ Call(b).next = 1
  BY DEF Call, Frame
<1>2. /\ Len(u) = Len(t) + 1 /\ u[1] = Call(b) /\ Len(t) \in Nat
      /\ \A k \in 1 .. Len(t) : u[k + 1] = t[k]
      /\ Elements(u) = {Call(b)} \cup Elements(t)
  BY <1>1, PushProperties
<1> HIDE DEF u
<1>3. BlocksOf(u) = BlocksOf(s) \cup {b}
  <2>1. BlocksOf(t) = BlocksOf(s)
    BY DEF AdvancedOf
  <2>2. BlocksOf(u) = BlocksOf(t) \cup {b}
    BY <1>1, <1>2 DEF BlocksOf
  <2> QED BY <2>1, <2>2
<1>4. PredsPassed(preds, u, walked \cup {b})
  <2>1. PredsPassed(preds, t, walked \cup {b})
    BY PredsPassedNext DEF Walk
  <2> SUFFICES ASSUME NEW k \in 1 .. Len(u), NEW m \in 1 .. Len(preds[u[k].bb]), m < u[k].next
               PROVE  preds[u[k].bb][m] \in walked \cup {b}
    BY DEF PredsPassed
  <2>2. k # 1
    BY <1>1, <1>2
  <2>3. k - 1 \in 1 .. Len(t) /\ u[k] = t[k - 1]
    <3>1. k - 1 \in 1 .. Len(t) /\ (k - 1) + 1 = k
      BY SMTT(30), <1>2, <2>2
    <3> QED BY <1>2, <3>1
  <2> QED BY <2>1, <2>3 DEF PredsPassed
<1>5. u # <<>> /\ u[Len(u)].bb = s[Len(s)].bb
  <2>1. Len(s) \in 1 .. Len(s) /\ Len(t) = Len(s) /\ t[Len(s)].bb = s[Len(s)].bb
    BY DEF AdvancedOf
  <2> QED BY <1>2, <2>1
<1>6. n # 1
  BY DEF Walk
<1>7. (walked \cup {b}) \ BlocksOf(u) = walked \ BlocksOf(s) /\ b # h
  BY <1>3 DEF Walk
<1>8. /\ h \in walked \cup {b} /\ walked \cup {b} \subseteq NaturalLoop(g, h)
      /\ BlocksOf(u) \subseteq (walked \cup {b}) \ {h}
  BY <1>3, <1>7 DEF Walk
<1>9. \A c \in (walked \cup {b}) \ (BlocksOf(u) \cup {h}) : Elements(preds[c]) \subseteq walked \cup {b}
  BY <1>3 DEF Walk
<1>10. Walk(g, preds, h, l, walked \cup {b}, u, bbs, n)
  BY <1>4, <1>5, <1>6, <1>7, <1>8, <1>9 DEF Walk
<1> QED BY <1>10 DEF u

\* When it has been to all of them it returns, and the block is listed.
LEMMA WalkReturns ==
  ASSUME NEW g, NEW preds, NEW h, NEW l, NEW walked, NEW s \in Seq(Frame), s # <<>>,
         DistinctCalls(s), NEW bbs \in Seq(BasicBlock), NEW n,
         Walk(g, preds, h, l, walked, s, bbs, n),
         preds[s[1].bb] \in Seq(BasicBlock), ~ (s[1].next <= Len(preds[s[1].bb]))
  PROVE  Walk(g, preds, h, l, walked, Tail(s), Append(bbs, s[1].bb), n)
<1> DEFINE t == Tail(s)
           b == s[1].bb
           after == Append(bbs, b)
<1>1. /\ t \in Seq(Frame) /\ Len(s) = Len(t) + 1 /\ Len(t) \in Nat /\ Head(s) = s[1] /\ s[1] \in Frame
      /\ \A k \in 1 .. Len(t) : t[k] = s[k + 1]
      /\ Elements(s) = {s[1]} \cup Elements(t)
      /\ \A f \in Elements(t) : f.bb # b
  BY PopProperties, PopKeepsDistinctCalls
<1>2. b \in BasicBlock /\ s[1].next \in Nat
  BY <1>1 DEF Frame
<1>3. BlocksOf(s) = BlocksOf(t) \cup {b} /\ b \notin BlocksOf(t)
  BY <1>1 DEF BlocksOf
<1>4. b \in walked /\ b # h /\ b \notin Elements(bbs)
  BY <1>3 DEF Walk
<1>5. after \in Seq(BasicBlock) /\ Elements(after) = Elements(bbs) \cup {b} /\ Distinct(after)
  BY <1>2, <1>4, PushBackProperties DEF Walk
<1>6. after[1] = h /\ after[Len(after)] = b
  <2>1. PICK k \in 1 .. Len(bbs) : bbs[k] = h
    BY DEF Walk, Elements
  <2>2. 1 \in 1 .. Len(bbs) /\ Len(after) = Len(bbs) + 1 /\ Len(bbs) \in Nat
    BY <2>1
  <2> QED BY <2>2 DEF Walk
<1>7. PredsPassed(preds, t, walked)
  <2> SUFFICES ASSUME NEW k \in 1 .. Len(t), NEW m \in 1 .. Len(preds[t[k].bb]), m < t[k].next
               PROVE  preds[t[k].bb][m] \in walked
    BY DEF PredsPassed
  <2>1. k + 1 \in 1 .. Len(s) /\ t[k] = s[k + 1]
    BY <1>1
  <2> QED BY <2>1 DEF Walk, PredsPassed
<1>8. Elements(preds[b]) \subseteq walked
  <2>1. 1 \in 1 .. Len(s)
    BY <1>1
  <2>2. \A m \in 1 .. Len(preds[b]) : m < s[1].next
    BY <1>2
  <2> QED BY <2>1, <2>2 DEF Walk, PredsPassed, Elements
<1>9. n = 2 /\ l \in walked /\ s[Len(s)].bb = l
  BY DEF Walk
<1>10. (IF t = <<>> THEN after[Len(after)] ELSE t[Len(t)].bb) = l
  <2>1. CASE t = <<>>
    <3>0. Len(<<>>) = 0
      OBVIOUS
    <3> HIDE DEF t
    <3>1. Len(s) = 1
      BY <1>1, <2>1, <3>0
    <3> QED BY <1>6, <1>9, <2>1, <3>1
  <2>2. CASE t # <<>>
    <3>1. Len(t) \in 1 .. Len(t)
      BY <1>1, <2>2
    <3>2. t[Len(t)] = s[Len(s)]
      BY <1>1, <3>1
    <3> QED BY <1>9, <2>2, <3>2
  <2> QED BY <2>1, <2>2
<1> HIDE DEF t, b, after
<1>11. /\ BlocksOf(t) \subseteq walked \ {h} /\ Elements(after) = walked \ BlocksOf(t)
  BY <1>3, <1>4, <1>5 DEF Walk
<1>12. \A c \in walked \ (BlocksOf(t) \cup {h}) : Elements(preds[c]) \subseteq walked
  BY <1>3, <1>8 DEF Walk
<1>13. Walk(g, preds, h, l, walked, t, after, n)
  BY <1>5, <1>6, <1>7, <1>9, <1>10, <1>11, <1>12 DEF Walk
<1> QED BY <1>13 DEF t, b, after

\* IsNatural, of the blocks bbs.
Natural(g, h, bbs) ==
  /\ Elements(bbs) = NaturalLoop(g, h)
  /\ Distinct(bbs)
  /\ bbs[1] = h
  /\ <<bbs[Len(bbs)], h>> \in BackEdges(g)

\* When the call for the latch has returned, the loop is the natural loop: what is
\* not in it cannot lead to the latch around the header.
LEMMA WalkEnds ==
  ASSUME NEW g \in BuiltGraphs, Structured(g), NEW preds,
         \A b \in BasicBlock : Elements(preds[b]) = {a \in BasicBlock : b \in Succs(g, a)},
         NEW h, NEW l, <<l, h>> \in BackEdges(g), NEW walked, NEW bbs, NEW n, n # 1,
         Walk(g, preds, h, l, walked, <<>>, bbs, n)
  PROVE  walked = NaturalLoop(g, h) /\ Natural(g, h, bbs)
<1>0. /\ BlocksOf(<<>>) = {} /\ l \in BasicBlock /\ h \in BasicBlock
      /\ \A m : <<m, h>> \in BackEdges(g) => m = l
  BY NoCalls, StructuredMeans
<1>1. /\ h \in walked /\ walked \subseteq NaturalLoop(g, h) /\ Elements(bbs) = walked
      /\ Distinct(bbs) /\ bbs[1] = h /\ l \in walked /\ bbs[Len(bbs)] = l
      /\ \A b \in walked \ {h} : Elements(preds[b]) \subseteq walked
  BY <1>0 DEF Walk
<1>2. ASSUME NEW b \in NaturalLoop(g, h) PROVE b \in walked
  <2> SUFFICES ASSUME b \notin walked PROVE FALSE
    OBVIOUS
  <2>1. b \in BasicBlock /\ l \in Reach(g, b, {h})
    <3>1. b # h
      BY <1>1
    <3>2. b \in BasicBlock /\ \E m : <<m, h>> \in BackEdges(g) /\ m \in Reach(g, b, {h})
      BY <3>1, InNaturalLoop
    <3> QED BY <1>0, <3>2
  <2> DEFINE S == BasicBlock \ walked
  <2>2. ASSUME NEW x \in S, NEW y \in Succs(g, x) \ {h} PROVE y \in S
    <3>1. y \in BasicBlock
      BY SuccsAreBlocks
    <3>2. ASSUME y \in walked PROVE FALSE
      <4>1. x \in Elements(preds[y])
        BY <3>1
      <4> QED BY <1>1, <3>2, <4>1
    <3> QED BY <3>1, <3>2
  <2>3. S \in SUBSET BasicBlock /\ ClosedUnder(g, {h}, S) /\ b \in S
    BY <2>1, <2>2 DEF ClosedUnder
  <2> HIDE DEF S
  <2>4. l \in S
    BY <2>1, <2>3, ReachLeast
  <2> QED BY <1>1, <2>4 DEF S
<1>3. walked = NaturalLoop(g, h)
  BY <1>1, <1>2
<1> QED BY <1>1, <1>3 DEF Natural

(***************************************************************************)
(* In structured code: populate_loops.                                     *)
(***************************************************************************)

\* LoopsSoFar between two loops, of the headers hs of which some are filled ...
Between(g, hs, filled, to, ls) ==
  /\ \A h \in filled : Natural(g, h, ls[h].basic_blocks)
  /\ \A h \in hs \ filled : ls[h].basic_blocks = <<>>
  /\ Nested(g, hs, filled, {}, noLoop, to, ls)

\* ... and while the loop of `header` is filled.
During(g, preds, hs, filled, header, to, ls, walked, s, n) ==
  /\ header \in hs
  /\ \A h \in filled : Natural(g, h, ls[h].basic_blocks)
  /\ \A h \in hs \ (filled \cup {header}) : ls[h].basic_blocks = <<>>
  /\ Nested(g, hs, filled, walked, header, to, ls)
  /\ Walk(g, preds, header, ls[header].latches[1], walked, s, ls[header].basic_blocks, n)

LEMMA NaturalMeans == \A h : IsNatural(h) <=> Natural(m_succs, h, loops[h].basic_blocks)
BY DEF IsNatural, Natural, Distinct

LEMMA BetweenMeans ==
  ASSUME phase = "populate"
  PROVE  LoopsSoFar <=> (Structured(m_succs) => Between(m_succs, Headers, Filled, bb_to_loop, loops))
<1>1. NestedSoFar <=> Nested(m_succs, Headers, Filled, {}, noLoop, bb_to_loop, loops)
  BY DEF NestedSoFar, Nested, Smallest, SmallestIn, Met
<1>2. (\A h \in Filled : IsNatural(h)) <=> \A h \in Filled : Natural(m_succs, h, loops[h].basic_blocks)
  BY NaturalMeans
<1>3. ToCome = Headers \ Filled
  BY DEF ToCome
<1>4. LoopsAreNatural /\ NestingIsContainment
  BY DEF LoopsAreNatural, NestingIsContainment, Done
<1> QED BY <1>1, <1>2, <1>3, <1>4 DEF LoopsSoFar, Between

LEMMA DuringMeans ==
  ASSUME phase = "search"
  PROVE  LoopsSoFar <=> (Structured(m_succs) =>
           During(m_succs, m_preds, Headers, Filled, Header, bb_to_loop, loops, dfs_marked, calls, latch))
<1>1. NestedSoFar <=> Nested(m_succs, Headers, Filled, dfs_marked, Header, bb_to_loop, loops)
  BY DEF NestedSoFar, Nested, Smallest, SmallestIn, Met
<1>2. (\A h \in Filled : IsNatural(h)) <=> \A h \in Filled : Natural(m_succs, h, loops[h].basic_blocks)
  BY NaturalMeans
<1>3. ToCome = Headers \ (Filled \cup {Header})
  BY DEF ToCome
<1>4. LoopsAreNatural /\ NestingIsContainment
  BY DEF LoopsAreNatural, NestingIsContainment, Done
<1>5. Running = BlocksOf(calls)
  BY DEF Running, BlocksOf
<1>6. SearchSoFar <=>
        /\ Header \in Headers
        /\ Walk(m_succs, m_preds, Header, loops[Header].latches[1], dfs_marked, calls,
                loops[Header].basic_blocks, latch)
  BY <1>5 DEF SearchSoFar, Walk, Distinct, PredsPassed
<1> QED BY <1>1, <1>2, <1>3, <1>4, <1>6 DEF LoopsSoFar, During

\* The same after a step.
LEMMA BetweenNext ==
  ASSUME phase' = "populate", m_succs' = m_succs, Headers' = Headers,
         Structured(m_succs) => Between(m_succs, Headers, Filled', bb_to_loop', loops')
  PROVE  LoopsSoFar'
<1>1. (phase = "populate" =>
         (LoopsSoFar <=> (Structured(m_succs) => Between(m_succs, Headers, Filled, bb_to_loop, loops))))'
  BY BetweenMeans, PTL
<1> QED BY <1>1

LEMMA DuringNext ==
  ASSUME phase' = "search", m_succs' = m_succs, m_preds' = m_preds, Headers' = Headers,
         rpo_vector' = rpo_vector, cursor' = cursor,
         Structured(m_succs) =>
           During(m_succs, m_preds, Headers, Filled, Header, bb_to_loop', loops', dfs_marked', calls', latch')
  PROVE  LoopsSoFar'
<1>1. (phase = "search" =>
         (LoopsSoFar <=> (Structured(m_succs) =>
            During(m_succs, m_preds, Headers, Filled, Header, bb_to_loop, loops, dfs_marked, calls, latch))))'
  BY DuringMeans, PTL
<1>2. Filled' = Filled /\ Header' = Header
  BY DEF Filled, Header
<1> QED BY <1>1, <1>2

\* Which loops are filled: those of the headers behind the cursor, none of which
\* has the header at the cursor in its loop.
LEMMA FilledFacts ==
  ASSUME Core, phase \in {"populate", "search"}
  PROVE  /\ Filled \subseteq Headers /\ Headers \subseteq BasicBlock /\ Headers = DOMAIN loops
         /\ cursor = 0 => Filled = Headers
         /\ cursor > 0 => Header \notin Filled
         /\ Structured(m_succs) /\ cursor > 0 =>
              \A h \in Filled : Header \notin NaturalLoop(m_succs, h)
<1>1. /\ rpo_vector \in Seq(BasicBlock) /\ Len(rpo_vector) \in Nat
      /\ Elements(rpo_vector) = Reachable(m_succs)
      /\ \A j, k \in 1 .. Len(rpo_vector) :
           /\ rpo_vector[j] = rpo_vector[k] => j = k
           /\ <<rpo_vector[j], rpo_vector[k]>> \in Dominance(m_succs) => j <= k
      /\ cursor > 0 => cursor \in 1 .. Len(rpo_vector) /\ Header \in BasicBlock
  BY AfterRpo
<1>2. /\ Headers = DOMAIN loops /\ Headers \subseteq BasicBlock
      /\ Headers \subseteq Reachable(m_succs) /\ cursor \in Nat
  BY LoopsOfBlocks DEF Core, TypeOK
<1>3. ASSUME NEW h \in Filled
      PROVE  \E k \in 1 .. Len(rpo_vector) : k > cursor /\ rpo_vector[k] = h
  BY <1>1, <1>2 DEF Filled
<1>4. ASSUME cursor > 0, Header \in Filled PROVE FALSE
  <2>1. PICK k \in 1 .. Len(rpo_vector) : k > cursor /\ rpo_vector[k] = Header
    BY <1>3, <1>4
  <2>2. cursor \in 1 .. Len(rpo_vector) /\ rpo_vector[k] = rpo_vector[cursor]
    BY <1>1, <1>4, <2>1 DEF Header
  <2>3. k = cursor
    BY <1>1, <2>2
  <2> QED BY <1>2, <2>1, <2>3
<1>5. ASSUME cursor = 0, NEW h \in Headers PROVE h \in Filled
  <2>1. PICK k \in 1 .. Len(rpo_vector) : rpo_vector[k] = h
    BY <1>1, <1>2 DEF Elements
  <2> QED BY <1>5, <2>1 DEF Filled
<1>6. ASSUME Structured(m_succs), cursor > 0, NEW h \in Filled
      PROVE  Header \notin NaturalLoop(m_succs, h)
  <2> SUFFICES ASSUME Header \in NaturalLoop(m_succs, h) PROVE FALSE
    OBVIOUS
  <2>1. PICK k \in 1 .. Len(rpo_vector) : k > cursor /\ rpo_vector[k] = h
    BY <1>3
  <2>2. m_succs \in BuiltGraphs /\ h \in Reachable(m_succs) /\ Header \in Reachable(m_succs)
    <3>1. m_succs \in BuiltGraphs
      BY GraphIsBuilt DEF Core
    <3>2. h \in Reachable(m_succs) /\ Header \in Reachable(m_succs)
      BY <1>1, <1>6, <2>1 DEF Elements, Header
    <3> QED BY <3>1, <3>2
  <2>3. <<h, Header>> \in Dominance(m_succs)
    BY <2>2, HeaderDominatesLoop
  <2>4. cursor \in 1 .. Len(rpo_vector) /\ <<rpo_vector[k], rpo_vector[cursor]>> \in Dominance(m_succs)
    BY <1>1, <1>6, <2>1, <2>3 DEF Header
  <2>5. k <= cursor
    BY <1>1, <2>1, <2>4
  <2> QED BY <1>2, <2>1, <2>5
<1>7. Filled \subseteq Headers
  BY DEF Filled
<1> QED BY <1>2, <1>4, <1>5, <1>6, <1>7

\* The cursor moves to the header before.
LEMMA FilledNext ==
  ASSUME Core, phase \in {"populate", "search"}, cursor > 0,
         rpo_vector' = rpo_vector, Headers' = Headers, cursor' = cursor - 1
  PROVE  Filled' = Filled \cup ({Header} \cap Headers)
<1>1. cursor \in 1 .. Len(rpo_vector) /\ Len(rpo_vector) \in Nat
  BY AfterRpo
<1>2. cursor - 1 + 1 = cursor
  BY <1>1
<1>3. \A x : x \in Filled' <=> x \in Headers /\ \E k \in cursor .. Len(rpo_vector) : rpo_vector[k] = x
  BY <1>2 DEF Filled
<1>4. \A x : x \in Filled <=> x \in Headers /\ \E k \in cursor + 1 .. Len(rpo_vector) : rpo_vector[k] = x
  BY DEF Filled
<1>5. \A k : k \in cursor .. Len(rpo_vector) <=> k = cursor \/ k \in cursor + 1 .. Len(rpo_vector)
  BY <1>1
<1> QED BY <1>3, <1>4, <1>5 DEF Header

\* What a call of loop_search does to the loops, one by one.
LEMMA ClaimMeans ==
  ASSUME Core, phase = "search", NEW b \in BasicBlock, Claim(b),
         bb_to_loop[b] \in (Headers \ {Header}) \cup {noLoop}
  PROVE  \/ /\ bb_to_loop[b] = noLoop /\ bb_to_loop' = [bb_to_loop EXCEPT ![b] = Header]
            /\ SameNesting(Headers, loops', loops)
         \/ /\ bb_to_loop[b] # noLoop /\ loops[bb_to_loop[b]].outer_loop = noLoop
            /\ bb_to_loop' = bb_to_loop
            /\ \A h \in Headers :
                 /\ loops'[h].outer_loop = IF h = bb_to_loop[b] THEN Header ELSE loops[h].outer_loop
                 /\ loops'[h].inner_loops =
                      IF h = Header THEN loops[h].inner_loops \cup {bb_to_loop[b]} ELSE loops[h].inner_loops
         \/ /\ bb_to_loop[b] # noLoop /\ loops[bb_to_loop[b]].outer_loop # noLoop
            /\ bb_to_loop' = bb_to_loop /\ SameNesting(Headers, loops', loops)
<1> DEFINE inner == bb_to_loop[b]
<1>1. /\ loops \in [DOMAIN loops -> Loop] /\ Headers = DOMAIN loops /\ Header \in Headers
      /\ Header \in BasicBlock
  BY WhileSearching DEF TypeOK
<1>2. CASE \/ /\ inner = noLoop /\ UNCHANGED loops
              /\ bb_to_loop' = [bb_to_loop EXCEPT ![b] = Header]
           \/ /\ inner # noLoop /\ loops[inner].outer_loop # noLoop
              /\ UNCHANGED <<loops, bb_to_loop>>
  <2>1. SameNesting(Headers, loops', loops)
    BY <1>2 DEF SameNesting
  <2> QED BY <1>2, <2>1
<1>3. CASE /\ inner # noLoop /\ loops[inner].outer_loop = noLoop /\ UNCHANGED bb_to_loop
           /\ loops' = [loops EXCEPT ![inner].outer_loop = Header,
                                     ![Header].inner_loops = @ \cup {inner}]
  <2> DEFINE first == [loops EXCEPT ![inner].outer_loop = Header]
             new == loops[Header].inner_loops \cup {inner}
  <2>1. inner \in DOMAIN loops /\ inner # Header
    BY <1>1, <1>3
  <2>2. first[Header] = loops[Header]
    BY <1>1, <2>1
  <2>3. loops' = [first EXCEPT ![Header].inner_loops = first[Header].inner_loops \cup {inner}]
    BY <1>3
  <2> HIDE DEF inner
  <2>4. ASSUME NEW h \in Headers
        PROVE  /\ loops'[h].outer_loop = IF h = inner THEN Header ELSE loops[h].outer_loop
               /\ loops'[h].inner_loops =
                    IF h = Header THEN loops[h].inner_loops \cup {inner} ELSE loops[h].inner_loops
    <3>1. loops[h] \in Loop
      BY <1>1
    <3>2. CASE h = inner
      <4>1. loops'[h] = [loops[h] EXCEPT !.outer_loop = Header]
        BY <1>1, <2>1, <2>3, <3>2
      <4> HIDE DEF first, new
      <4> QED BY <2>1, <3>1, <3>2, <4>1 DEF Loop
    <3>3. CASE h = Header
      <4>1. loops'[h] = [loops[h] EXCEPT !.inner_loops = new]
        BY <1>1, <2>2, <2>3, <3>3
      <4>2. h # inner /\ new = loops[h].inner_loops \cup {inner}
        BY <2>1, <3>3
      <4> HIDE DEF first, new
      <4> QED BY <3>1, <3>3, <4>1, <4>2 DEF Loop
    <3>4. CASE h # inner /\ h # Header
      <4>1. loops'[h] = loops[h]
        BY <1>1, <2>3, <3>4
      <4> QED BY <3>4, <4>1
    <3> QED BY <3>2, <3>3, <3>4
  <2> QED BY <1>3, <2>4 DEF inner
<1> QED BY <1>2, <1>3 DEF Claim

\* A call of loop_search for the block b keeps the nesting.
LEMMA ClaimNests ==
  ASSUME Core, phase = "search", NEW b \in BasicBlock \ dfs_marked, Claim(b),
         Nested(m_succs, Headers, Filled, dfs_marked, Header, bb_to_loop, loops)
  PROVE  Nested(m_succs, Headers, Filled, dfs_marked \cup {b}, Header, bb_to_loop', loops')
<1>1. /\ Filled \in SUBSET Headers /\ Header \in Headers \ Filled /\ Headers \subseteq BasicBlock
  BY FilledFacts, WhileSearching
<1>2. bb_to_loop[b] \in Filled \cup {noLoop}
  BY NotWalked
<1>3. /\ dfs_marked \in SUBSET BasicBlock
      /\ bb_to_loop \in [BasicBlock -> BasicBlock \cup {noLoop}]
  BY DEF Core, TypeOK
<1>4. bb_to_loop[b] \in (Headers \ {Header}) \cup {noLoop}
  BY <1>1, <1>2
<1> QED BY <1>1, <1>3, <1>4, ClaimMeans, NestedClaims

\* Nothing is filled before populate_loops.
Early == {"dom", "collect", "order"}
Unfilled(loop) == loop.basic_blocks = <<>> /\ loop.outer_loop = noLoop /\ loop.inner_loops = {}

LEMMA EarlyMeans ==
  ASSUME phase \in Early
  PROVE  LoopsSoFar <=> (Structured(m_succs) =>
           /\ \A h \in Headers : Unfilled(loops[h])
           /\ \A b \in BasicBlock : bb_to_loop[b] = noLoop)
BY DEF Early, LoopsSoFar, LoopsAreNatural, NestingIsContainment, Done, Unfilled

LEMMA EarlyStays ==
  ASSUME phase \in Early, phase' \in Early, LoopsSoFar, m_succs' = m_succs, bb_to_loop' = bb_to_loop,
         \A h \in Headers' : (h \in Headers /\ loops'[h] = loops[h]) \/ Unfilled(loops'[h])
  PROVE  LoopsSoFar'
<1>1. (phase \in Early =>
        (LoopsSoFar <=> (Structured(m_succs) =>
           /\ \A h \in Headers : Unfilled(loops[h])
           /\ \A b \in BasicBlock : bb_to_loop[b] = noLoop)))'
  BY EarlyMeans, PTL
<1>2. Structured(m_succs) =>
        /\ \A h \in Headers : Unfilled(loops[h])
        /\ \A b \in BasicBlock : bb_to_loop[b] = noLoop
  BY EarlyMeans
<1> QED BY <1>1, <1>2 DEF Early, Unfilled

LEMMA InitLoops == Init => LoopsSoFar
<1> SUFFICES ASSUME Init PROVE LoopsSoFar
  OBVIOUS
<1>1. phase \in Early /\ Headers = {} /\ \A b \in BasicBlock : bb_to_loop[b] = noLoop
  BY DEF Init, Start, Early, Headers
<1> QED BY <1>1, EarlyMeans

LEMMA EarlyStepsKeepLoops ==
  LoopsSoFar /\ (CallDom \/ OtherEdge \/ TreeEdge \/ CollectReturn \/ CallRpo \/ RpoStep) => LoopsSoFar'
<1> SUFFICES ASSUME LoopsSoFar,
                    CallDom \/ OtherEdge \/ TreeEdge \/ CollectReturn \/ CallRpo \/ RpoStep
             PROVE  LoopsSoFar'
  OBVIOUS
<1>1. /\ phase \in Early /\ phase' \in Early /\ m_succs' = m_succs /\ bb_to_loop' = bb_to_loop
      /\ loops' = loops
  BY RpoGoesOn DEF CallDom, OtherEdge, TreeEdge, CollectReturn, CallRpo, RpoStep, Collecting,
        graphVars, Early
<1>2. Headers' = Headers
  BY <1>1 DEF Headers
<1> QED BY <1>1, <1>2, EarlyStays

LEMMA BackEdgeKeepsLoops == Core /\ LoopsSoFar /\ BackEdge => LoopsSoFar'
<1> SUFFICES ASSUME Core, LoopsSoFar, BackEdge PROVE LoopsSoFar'
  OBVIOUS
<1>1. PICK h, l : h = Successor /\ l = Top.bb
  OBVIOUS
<1>2. /\ phase \in Early /\ phase' \in Early /\ m_succs' = m_succs /\ bb_to_loop' = bb_to_loop
      /\ phase # "done" /\ loops' = WithLoop(h, WithLatch(h, l))
  BY <1>1 DEF BackEdge, Collecting, graphVars, Early
<1>3. Headers = DOMAIN loops /\ loops \in [DOMAIN loops -> Loop]
  BY <1>2, LoopsOfBlocks DEF Core, TypeOK
<1>4. /\ loops'[h] = WithLatch(h, l) /\ \A o \in Headers' \ {h} : o \in Headers /\ loops'[o] = loops[o]
  BY <1>2, <1>3 DEF WithLoop, Headers
<1> DEFINE loop == IF h \in DOMAIN loops THEN loops[h] ELSE EmptyLoop
<1>5. loop \in Loop
  <2>1. EmptyLoop \in Loop
    BY DEF EmptyLoop, Loop
  <2> QED BY <1>3, <2>1
<1>6. WithLatch(h, l) = [loop EXCEPT !.latches = Append(loop.latches, l),
                                     !.reducible = loop.reducible \/ l \in dom_tree[h]]
  BY DEF WithLatch
<1>7. Unfilled(EmptyLoop)
  BY DEF Unfilled, EmptyLoop
<1> SUFFICES ASSUME Structured(m_succs) PROVE Unfilled(loops'[h])
  <2>1. ASSUME ~ Structured(m_succs) PROVE LoopsSoFar'
    BY <1>2, <2>1 DEF LoopsSoFar
  <2> QED BY <1>2, <1>4, <2>1, EarlyStays
<1>8. Unfilled(loop)
  BY <1>2, <1>3, <1>7, EarlyMeans
<1> HIDE DEF loop
<1>9. Unfilled([loop EXCEPT !.latches = Append(loop.latches, l),
                            !.reducible = loop.reducible \/ l \in dom_tree[h]])
  BY <1>5, <1>8 DEF Unfilled, Loop
<1> QED BY <1>4, <1>6, <1>9

\* populate_loops starts with nothing filled.
LEMMA RpoReturnKeepsLoops == Core /\ LoopsSoFar /\ RpoReturn => LoopsSoFar'
<1> SUFFICES ASSUME Core, LoopsSoFar, RpoReturn PROVE LoopsSoFar'
  OBVIOUS
<1>1. /\ phase \in Early /\ phase # "done" /\ phase' = "populate" /\ m_succs' = m_succs /\ loops' = loops
      /\ bb_to_loop' = bb_to_loop /\ rpo_vector' = rpo_vector /\ cursor' = Len(rpo_vector)
  BY DEF RpoReturn, Early, graphVars, rpoVars
<1>2. Headers' = Headers /\ Headers \subseteq BasicBlock
  BY <1>1, LoopsOfBlocks DEF Core, Headers
<1>3. Filled' = {}
  <2>1. Len(rpo_vector) \in Nat
    <3>1. Rpo!IInv /\ pc = "done" /\ removed = {}
      BY <1>1 DEF Core, MarkersSoFar, RpoReturn
    <3> QED BY <3>1, RpoAnswer
  <2>2. \A k : k \notin Len(rpo_vector) + 1 .. Len(rpo_vector)
    BY <2>1
  <2> QED BY <1>1, <2>2 DEF Filled
<1> SUFFICES ASSUME Structured(m_succs) PROVE Between(m_succs, Headers, {}, bb_to_loop, loops)
  BY <1>1, <1>2, <1>3, BetweenNext
<1>4. (\A h \in Headers : Unfilled(loops[h])) /\ \A b \in BasicBlock : bb_to_loop[b] = noLoop
  BY <1>1, EarlyMeans
<1>5. \A o \in Headers : {h \in Headers : loops[h].outer_loop = o} = {}
  BY <1>2, <1>4, NoLoopAssumption DEF Unfilled
<1>6. Nested(m_succs, Headers, {}, {}, noLoop, bb_to_loop, loops)
  BY <1>4, <1>5 DEF Nested, SmallestIn, Unfilled
<1> QED BY <1>4, <1>6 DEF Between, Unfilled

\* Between two loops, and during the search of one, LoopsSoFar says this.
LEMMA BetweenNow ==
  ASSUME LoopsSoFar, phase = "populate", Structured(m_succs)
  PROVE  Between(m_succs, Headers, Filled, bb_to_loop, loops)
BY BetweenMeans

LEMMA DuringNow ==
  ASSUME LoopsSoFar, phase = "search", Structured(m_succs)
  PROVE  During(m_succs, m_preds, Headers, Filled, Header, bb_to_loop, loops, dfs_marked, calls, latch)
BY DuringMeans

\* A block that is no header is passed over; an irreducible loop is not met.
LEMMA NotAHeaderKeepsLoops ==
  Core /\ LatchesSoFar /\ LoopsSoFar /\ (NotAHeader \/ IrreducibleLoop) => LoopsSoFar'
<1> SUFFICES ASSUME Core, LatchesSoFar, LoopsSoFar, NotAHeader \/ IrreducibleLoop PROVE LoopsSoFar'
  OBVIOUS
<1>1. /\ phase = "populate" /\ phase' = "populate" /\ phase # "done" /\ cursor > 0
      /\ m_succs' = m_succs /\ rpo_vector' = rpo_vector
  BY DEF NotAHeader, IrreducibleLoop, Populating, graphVars, rpoVars
<1> SUFFICES ASSUME Structured(m_succs) PROVE LoopsSoFar'
  <2>1. ASSUME ~ Structured(m_succs) PROVE LoopsSoFar'
    BY <1>1, <2>1 DEF LoopsSoFar
  <2> QED BY <2>1
<1>2. Headers = DOMAIN loops
  BY <1>1, LoopsOfBlocks DEF Core
<1>3. Header \in Headers => loops[Header].reducible
  BY <1>1 DEF LatchesSoFar, HasLatch
<1>4. /\ Header \notin Headers /\ cursor' = cursor - 1 /\ loops' = loops /\ bb_to_loop' = bb_to_loop
  BY <1>2, <1>3 DEF NotAHeader, IrreducibleLoop
<1>5. Headers' = Headers
  BY <1>4 DEF Headers
<1>6. Filled' = Filled
  BY <1>1, <1>4, <1>5, FilledNext
<1> QED BY <1>1, <1>4, <1>5, <1>6, BetweenNow, BetweenNext

\* The search of a loop begins.
LEMMA ReducibleLoopKeepsLoops ==
  Core /\ LatchesSoFar /\ LoopsSoFar /\ ReducibleLoop => LoopsSoFar'
<1> SUFFICES ASSUME Core, LatchesSoFar, LoopsSoFar, ReducibleLoop PROVE LoopsSoFar'
  OBVIOUS
<1>1. /\ phase = "populate" /\ phase' = "search" /\ phase # "done" /\ cursor > 0
      /\ Header \in DOMAIN loops
      /\ loops' = [loops EXCEPT ![Header].basic_blocks = <<Header>>]
      /\ bb_to_loop' = [bb_to_loop EXCEPT ![Header] = Header]
      /\ dfs_marked' = dfs_marked \cup {Header} /\ latch' = 1
      /\ m_succs' = m_succs /\ m_preds' = m_preds /\ rpo_vector' = rpo_vector
      /\ calls' = calls /\ calls = <<>> /\ cursor' = cursor
  BY DEF ReducibleLoop, Populating, graphVars, rpoVars, Core, TypeOK
<1>2. /\ Filled \in SUBSET Headers /\ Headers \subseteq BasicBlock /\ Headers = DOMAIN loops
      /\ Header \in Headers \ Filled
  BY <1>1, FilledFacts
<1>3. Headers' = Headers
  BY <1>1 DEF Headers
<1> SUFFICES ASSUME Structured(m_succs)
             PROVE  During(m_succs, m_preds, Headers, Filled, Header, bb_to_loop', loops', {Header}, <<>>, 1)
  <2>1. Structured(m_succs) => dfs_marked' = {Header}
    <3>1. Structured(m_succs) => Reachable(m_succs) = BasicBlock
      BY StructuredMeans, GraphIsBuilt DEF Core
    <3>2. dfs_marked \subseteq BasicBlock /\ Reachable(m_succs) \cap dfs_marked = {}
      BY <1>1 DEF Core, TypeOK, MarkersSoFar
    <3> QED BY <1>1, <3>1, <3>2
  <2> QED BY <1>1, <1>3, <2>1, DuringNext
<1>4. PICK h : h = Header
  OBVIOUS
<1>5. /\ \A o \in Filled : Natural(m_succs, o, loops[o].basic_blocks)
      /\ \A o \in Headers \ Filled : loops[o].basic_blocks = <<>>
      /\ Nested(m_succs, Headers, Filled, {}, noLoop, bb_to_loop, loops)
  BY <1>1, BetweenNow DEF Between
<1>6. /\ loops'[h].basic_blocks = <<h>>
      /\ \A o \in Headers \ {h} : loops'[o] = loops[o]
      /\ SameNesting(Headers, loops', loops)
  <2>1. h \in Headers /\ loops' = [loops EXCEPT ![h].basic_blocks = <<h>>]
    BY <1>1, <1>2, <1>4
  <2> QED BY ZenonT(60), <1>1, <2>1, FillMeans DEF SameNesting
<1>7. Nested(m_succs, Headers, Filled, {h}, h, bb_to_loop', loops)
  <2>1. \A o \in Filled : h \notin NaturalLoop(m_succs, o)
    BY <1>1, <1>4, FilledFacts
  <2>2. bb_to_loop \in [BasicBlock -> BasicBlock \cup {noLoop}]
    BY DEF Core, TypeOK
  <2>3. Nested(m_succs, Headers, Filled, {h}, h, [bb_to_loop EXCEPT ![h] = h], loops)
    BY <1>2, <1>4, <1>5, <2>1, <2>2, NestedStarts
  <2> QED BY <1>1, <1>4, <2>3
<1>8. Nested(m_succs, Headers, Filled, {h}, h, bb_to_loop', loops')
  BY <1>2, <1>6, <1>7, SameNestingKeeps
<1>9. \A preds, l : Walk(m_succs, preds, h, l, {h}, <<>>, <<h>>, 1)
  BY <1>2, <1>4, WalkStarts
<1>10. \A o \in Filled : o \in Headers \ {h}
  BY <1>2, <1>4
<1> QED BY ZenonT(60), <1>2, <1>4, <1>5, <1>6, <1>8, <1>9, <1>10 DEF During

\* The facts a step of the search uses, and keeps.
LEMMA DuringStays ==
  ASSUME Core, LoopsSoFar, Structured(m_succs), phase = "search", phase' = "search",
         UNCHANGED <<graphVars, rpoVars, cursor>>, DOMAIN loops' = DOMAIN loops,
         \A h \in Headers \ {Header} : loops'[h].basic_blocks = loops[h].basic_blocks,
         Nested(m_succs, Headers, Filled, dfs_marked', Header, bb_to_loop', loops'),
         Walk(m_succs, m_preds, Header, loops'[Header].latches[1], dfs_marked', calls',
              loops'[Header].basic_blocks, latch')
  PROVE  LoopsSoFar'
<1>1. Headers' = Headers
  BY DEF Headers
<1>2. /\ Header \in Headers \ Filled /\ Filled \subseteq Headers
  BY FilledFacts, WhileSearching
<1>3. PICK h : h = Header
  OBVIOUS
<1>4. /\ \A o \in Filled : Natural(m_succs, o, loops'[o].basic_blocks)
      /\ \A o \in Headers \ (Filled \cup {h}) : loops'[o].basic_blocks = <<>>
  BY <1>2, <1>3, DuringNow DEF During
<1>5. During(m_succs, m_preds, Headers, Filled, Header, bb_to_loop', loops', dfs_marked', calls', latch')
  BY <1>2, <1>3, <1>4 DEF During
<1> QED BY <1>1, <1>5, DuringNext DEF graphVars, rpoVars

\* The latch of the loop, from which the walk starts.
LEMMA LatchOfLoop ==
  ASSUME Core, LatchesSoFar, Structured(m_succs), phase = "search"
  PROVE  /\ loops[Header].latches = <<loops[Header].latches[1]>>
         /\ Len(loops[Header].latches) = 1
         /\ <<loops[Header].latches[1], Header>> \in BackEdges(m_succs)
         /\ loops[Header].latches[1] \in NaturalLoop(m_succs, Header) \ {Header}
         /\ loops[Header].latches[1] \in BasicBlock
<1>1. PICK h : h = Header /\ h \in Headers
  BY WhileSearching
<1>2. PICK l \in BasicBlock : loops[h].latches = <<l>> /\ <<l, h>> \in BackEdges(m_succs)
  BY <1>1 DEF LatchesSoFar, HasLatch
<1>3. l # h
  BY <1>2, StructuredMeans, GraphIsBuilt DEF Core
<1>4. l \in Reach(m_succs, l, {h})
  BY <1>3, ReachStart
<1>5. l \in NaturalLoop(m_succs, h)
  BY <1>2, <1>4, InNaturalLoop
<1>6. loops[h].latches[1] = l /\ Len(loops[h].latches) = 1
  BY <1>2
<1> QED BY <1>1, <1>2, <1>3, <1>5, <1>6

\* loop_search is called for the latch.
LEMMA SearchLatchKeepsLoops == Core /\ LatchesSoFar /\ LoopsSoFar /\ SearchLatch => LoopsSoFar'
<1> SUFFICES ASSUME Core, LatchesSoFar, LoopsSoFar, SearchLatch PROVE LoopsSoFar'
  OBVIOUS
<1>1. /\ phase = "search" /\ phase' = "search" /\ calls = <<>>
      /\ latch <= Len(loops[Header].latches) /\ latch' = latch + 1
      /\ dfs_marked' = dfs_marked \cup {loops[Header].latches[latch]}
      /\ Claim(loops[Header].latches[latch])
      /\ calls' = <<Call(loops[Header].latches[latch])>> \o <<>>
      /\ UNCHANGED <<graphVars, rpoVars, cursor>> /\ m_succs' = m_succs
  BY DEF SearchLatch, LoopSearch, graphVars
<1> SUFFICES ASSUME Structured(m_succs) PROVE LoopsSoFar'
  <2>1. ASSUME ~ Structured(m_succs) PROVE LoopsSoFar'
    BY <1>1, <2>1 DEF LoopsSoFar
  <2> QED BY <2>1
<1>2. /\ Len(loops[Header].latches) = 1 /\ loops[Header].latches[1] \in BasicBlock
      /\ loops[Header].latches[1] \in NaturalLoop(m_succs, Header) \ {Header}
  BY <1>1, LatchOfLoop
<1>3. latch = 1 /\ latch' = 2
  BY <1>1, <1>2, WhileSearching
<1>4. PICK h, l : h = Header /\ l = loops[Header].latches[1]
  OBVIOUS
<1>5. /\ Nested(m_succs, Headers, Filled, dfs_marked, Header, bb_to_loop, loops)
      /\ Walk(m_succs, m_preds, h, l, dfs_marked, <<>>, loops[h].basic_blocks, 1)
  BY <1>1, <1>3, <1>4, DuringNow DEF During
<1>6. l \in BasicBlock \ dfs_marked /\ Claim(l)
  <2>1. dfs_marked = {h}
    BY <1>5 DEF Walk
  <2> QED BY <1>1, <1>2, <1>3, <1>4, <2>1
<1>7. Nested(m_succs, Headers, Filled, dfs_marked \cup {l}, Header, bb_to_loop', loops')
  BY <1>1, <1>5, <1>6, ClaimNests
<1>8. Walk(m_succs, m_preds, h, l, dfs_marked \cup {l}, <<Call(l)>> \o <<>>, loops[h].basic_blocks, 2)
  BY <1>2, <1>4, <1>5, WalkToLatch
<1>9. /\ DOMAIN loops' = DOMAIN loops
      /\ \A o \in Headers : /\ loops'[o].latches = loops[o].latches
                            /\ loops'[o].basic_blocks = loops[o].basic_blocks
  BY <1>1, <1>6, WhileSearching, ClaimTypes, ClaimKeeps
<1>10. h \in Headers
  BY <1>1, <1>4, WhileSearching
<1>11. /\ Walk(m_succs, m_preds, Header, loops'[Header].latches[1], dfs_marked', calls',
               loops'[Header].basic_blocks, latch')
       /\ Nested(m_succs, Headers, Filled, dfs_marked', Header, bb_to_loop', loops')
  BY <1>1, <1>3, <1>4, <1>7, <1>8, <1>9, <1>10
<1> QED BY <1>1, <1>9, <1>11, DuringStays

\* The predecessor of a block of the loop that is not the header is in the loop.
LEMMA PredInLoop ==
  ASSUME NEW g \in BuiltGraphs, NEW h, NEW b \in NaturalLoop(g, h) \ {h},
         NEW a \in BasicBlock, b \in Succs(g, a)
  PROVE  a \in NaturalLoop(g, h)
<1>1. CASE a = h
  BY <1>1, InNaturalLoop
<1>2. CASE a # h
  <2>1. b # h
    OBVIOUS
  <2>2. PICK l : <<l, h>> \in BackEdges(g) /\ l \in Reach(g, b, {h})
    BY <2>1, InNaturalLoop
  <2>3. a \in Reach(g, a, {h})
    BY <1>2, ReachStart
  <2>4. b \in Reach(g, a, {h})
    BY <2>1, <2>3, ReachStep
  <2>5. l \in Reach(g, a, {h})
    BY <2>2, <2>4, ReachTransitive
  <2> QED BY <2>2, <2>5, InNaturalLoop
<1> QED BY <1>1, <1>2

\* What the running call of the search looks at, when it is not at its end.
LEMMA RunningSearch ==
  ASSUME Core, Searching
  PROVE  /\ calls \in Seq(Frame) /\ calls # <<>> /\ Top = calls[1] /\ DistinctCalls(calls)
         /\ Advanced \in Seq(Frame) /\ AdvancedOf(Advanced, calls)
         /\ m_preds[calls[1].bb] \in Seq(BasicBlock) /\ calls[1].bb \in BlocksOf(calls)
         /\ HasPred => /\ Pred = m_preds[calls[1].bb][calls[1].next]
                       /\ Pred \in BasicBlock /\ calls[1].bb \in Succs(m_succs, Pred)
<1>1. TypeOK /\ calls # <<>>
  BY DEF Core, Searching
<1>2. /\ Top \in Frame /\ Top = calls[1] /\ Top.bb \in BasicBlock /\ DistinctCalls(calls)
      /\ Running = BlocksOf(calls) /\ Top.bb \in Running
  BY <1>1, RunningCall DEF Running, BlocksOf
<1>3. Advanced \in Seq(Frame) /\ AdvancedOf(Advanced, calls)
  BY <1>1, <1>2, AdvancedProperties DEF AdvancedOf
<1>4. HasPred => Pred = m_preds[Top.bb][Top.next] /\ Pred \in BasicBlock /\ Top.bb \in Succs(m_succs, Pred)
  BY <1>1, NextPred
<1> QED BY <1>1, <1>2, <1>3, <1>4 DEF TypeOK

\* loop_search is called for a predecessor.
LEMMA SearchPredKeepsLoops == Core /\ LoopsSoFar /\ SearchPred => LoopsSoFar'
<1> SUFFICES ASSUME Core, LoopsSoFar, SearchPred PROVE LoopsSoFar'
  OBVIOUS
<1>1. /\ phase = "search" /\ phase' = "search" /\ Searching /\ HasPred /\ Pred \notin dfs_marked
      /\ dfs_marked' = dfs_marked \cup {Pred} /\ Claim(Pred)
      /\ calls' = <<Call(Pred)>> \o Advanced /\ latch' = latch
      /\ UNCHANGED <<graphVars, rpoVars, cursor>> /\ m_succs' = m_succs
  BY DEF SearchPred, Searching, LoopSearch, graphVars, placeVars
<1> SUFFICES ASSUME Structured(m_succs) PROVE LoopsSoFar'
  <2>1. ASSUME ~ Structured(m_succs) PROVE LoopsSoFar'
    BY <1>1, <2>1 DEF LoopsSoFar
  <2> QED BY <2>1
<1>2. PICK h, l, b, t : h = Header /\ l = loops[Header].latches[1] /\ b = Pred /\ t = Advanced
  OBVIOUS
<1>3. /\ calls \in Seq(Frame) /\ calls # <<>> /\ t \in Seq(Frame) /\ AdvancedOf(t, calls)
      /\ m_preds[calls[1].bb] \in Seq(BasicBlock) /\ calls[1].bb \in BlocksOf(calls)
      /\ b = m_preds[calls[1].bb][calls[1].next] /\ b \in BasicBlock
      /\ calls[1].bb \in Succs(m_succs, b)
  BY <1>1, <1>2, RunningSearch
<1>4. /\ Nested(m_succs, Headers, Filled, dfs_marked, Header, bb_to_loop, loops)
      /\ Walk(m_succs, m_preds, h, l, dfs_marked, calls, loops[h].basic_blocks, latch)
  BY <1>1, <1>2, DuringNow DEF During
<1>5. b \in NaturalLoop(m_succs, h) \ dfs_marked
  <2>1. calls[1].bb \in NaturalLoop(m_succs, h) \ {h}
    BY <1>3, <1>4 DEF Walk
  <2>2. b \in NaturalLoop(m_succs, h)
    BY SMTT(30), <1>3, <2>1, PredInLoop, GraphIsBuilt DEF Core
  <2> QED BY <1>1, <1>2, <2>2
<1>6. Nested(m_succs, Headers, Filled, dfs_marked \cup {b}, Header, bb_to_loop', loops')
  BY SMTT(30), <1>1, <1>2, <1>3, <1>4, ClaimNests
<1>7. Walk(m_succs, m_preds, h, l, dfs_marked \cup {b}, <<Call(b)>> \o t, loops[h].basic_blocks, latch)
  BY SMTT(30), <1>3, <1>4, <1>5, WalkGoesOn
<1>8. /\ DOMAIN loops' = DOMAIN loops
      /\ \A o \in Headers : /\ loops'[o].latches = loops[o].latches
                            /\ loops'[o].basic_blocks = loops[o].basic_blocks
  BY <1>1, <1>2, <1>3, WhileSearching, ClaimTypes, ClaimKeeps
<1>9. h \in Headers
  BY <1>1, <1>2, WhileSearching
<1>10. /\ Walk(m_succs, m_preds, Header, loops'[Header].latches[1], dfs_marked', calls',
               loops'[Header].basic_blocks, latch')
       /\ Nested(m_succs, Headers, Filled, dfs_marked', Header, bb_to_loop', loops')
  BY <1>1, <1>2, <1>6, <1>7, <1>8, <1>9
<1> QED BY <1>1, <1>8, <1>10, DuringStays

\* It is not called for one that it has been to.
LEMMA SkipPredKeepsLoops == Core /\ LoopsSoFar /\ SkipPred => LoopsSoFar'
<1> SUFFICES ASSUME Core, LoopsSoFar, SkipPred PROVE LoopsSoFar'
  OBVIOUS
<1>1. /\ phase = "search" /\ phase' = "search" /\ Searching /\ HasPred /\ Pred \in dfs_marked
      /\ dfs_marked' = dfs_marked /\ calls' = Advanced /\ latch' = latch
      /\ loops' = loops /\ bb_to_loop' = bb_to_loop
      /\ UNCHANGED <<graphVars, rpoVars, cursor>> /\ m_succs' = m_succs
  BY DEF SkipPred, Searching, graphVars, placeVars
<1> SUFFICES ASSUME Structured(m_succs) PROVE LoopsSoFar'
  <2>1. ASSUME ~ Structured(m_succs) PROVE LoopsSoFar'
    BY <1>1, <2>1 DEF LoopsSoFar
  <2> QED BY <2>1
<1>2. /\ Nested(m_succs, Headers, Filled, dfs_marked, Header, bb_to_loop, loops)
      /\ Walk(m_succs, m_preds, Header, loops[Header].latches[1], dfs_marked, calls,
              loops[Header].basic_blocks, latch)
  BY <1>1, DuringNow DEF During
<1>3. Walk(m_succs, m_preds, Header, loops[Header].latches[1], dfs_marked, Advanced,
           loops[Header].basic_blocks, latch)
  <2>1. /\ calls \in Seq(Frame) /\ calls # <<>> /\ Advanced \in Seq(Frame)
        /\ AdvancedOf(Advanced, calls) /\ m_preds[calls[1].bb] \in Seq(BasicBlock)
        /\ m_preds[calls[1].bb][calls[1].next] \in dfs_marked
    BY <1>1, RunningSearch
  <2> QED BY <1>2, <2>1, WalkSkips
<1> QED BY <1>1, <1>2, <1>3, DuringStays

\* A call returns and lists its block.
LEMMA SearchReturnKeepsLoops == Core /\ LoopsSoFar /\ SearchReturn => LoopsSoFar'
<1> SUFFICES ASSUME Core, LoopsSoFar, SearchReturn PROVE LoopsSoFar'
  OBVIOUS
<1>1. /\ phase = "search" /\ phase' = "search" /\ phase # "done" /\ Searching /\ ~ HasPred
      /\ dfs_marked' = dfs_marked /\ calls' = Tail(calls) /\ latch' = latch
      /\ loops' = [loops EXCEPT ![Header].basic_blocks = Append(loops[Header].basic_blocks, Top.bb)]
      /\ bb_to_loop' = bb_to_loop
      /\ UNCHANGED <<graphVars, rpoVars, cursor>> /\ m_succs' = m_succs
  BY DEF SearchReturn, Searching, graphVars, placeVars
<1> SUFFICES ASSUME Structured(m_succs) PROVE LoopsSoFar'
  <2>1. ASSUME ~ Structured(m_succs) PROVE LoopsSoFar'
    BY <1>1, <2>1 DEF LoopsSoFar
  <2> QED BY <2>1
<1>2. PICK h, l : h = Header /\ l = loops[Header].latches[1]
  OBVIOUS
<1>3. /\ calls \in Seq(Frame) /\ calls # <<>> /\ Top = calls[1] /\ DistinctCalls(calls)
      /\ m_preds[calls[1].bb] \in Seq(BasicBlock)
      /\ ~ (calls[1].next <= Len(m_preds[calls[1].bb]))
  BY <1>1, RunningSearch DEF HasPred
<1>4. /\ Nested(m_succs, Headers, Filled, dfs_marked, Header, bb_to_loop, loops)
      /\ Walk(m_succs, m_preds, h, l, dfs_marked, calls, loops[h].basic_blocks, latch)
  BY <1>1, <1>2, DuringNow DEF During
<1>5. h \in Headers /\ loops[h].basic_blocks \in Seq(BasicBlock)
  BY <1>1, <1>2, WhileSearching, LoopTypes
<1>6. PICK bbs : bbs = Append(loops[h].basic_blocks, calls[1].bb)
  OBVIOUS
<1>7. Walk(m_succs, m_preds, h, l, dfs_marked, Tail(calls), bbs, latch)
  BY <1>3, <1>4, <1>5, <1>6, WalkReturns
<1>8. /\ loops'[h].basic_blocks = bbs /\ loops'[h].latches = loops[h].latches
      /\ \A o \in Headers \ {h} : loops'[o] = loops[o]
      /\ SameNesting(Headers, loops', loops) /\ DOMAIN loops' = DOMAIN loops
  <2>1. loops' = [loops EXCEPT ![h].basic_blocks = bbs]
    BY <1>1, <1>2, <1>3, <1>6
  <2> QED BY <1>1, <1>5, <2>1, FillMeans DEF SameNesting
<1>9. Nested(m_succs, Headers, Filled, dfs_marked, Header, bb_to_loop, loops')
  <2>1. Filled \in SUBSET Headers
    BY <1>1, FilledFacts
  <2> QED BY <1>4, <1>8, <2>1, SameNestingKeeps
<1>10. Walk(m_succs, m_preds, Header, loops'[Header].latches[1], dfs_marked', calls',
            loops'[Header].basic_blocks, latch')
  BY <1>1, <1>2, <1>7, <1>8
<1> QED BY <1>1, <1>2, <1>8, <1>9, <1>10, DuringStays

\* The search is over and the loop is filled.
LEMMA LoopDoneKeepsLoops == Core /\ LatchesSoFar /\ LoopsSoFar /\ LoopDone => LoopsSoFar'
<1> SUFFICES ASSUME Core, LatchesSoFar, LoopsSoFar, LoopDone PROVE LoopsSoFar'
  OBVIOUS
<1>1. /\ phase = "search" /\ phase' = "populate" /\ calls = <<>>
      /\ latch > Len(loops[Header].latches) /\ cursor' = cursor - 1
      /\ loops' = loops /\ bb_to_loop' = bb_to_loop /\ m_succs' = m_succs
      /\ rpo_vector' = rpo_vector
  BY DEF LoopDone, NextHeader, graphVars, rpoVars
<1>2. /\ Filled \in SUBSET Headers /\ Header \in Headers \ Filled /\ Headers \in SUBSET BasicBlock
      /\ cursor > 0
  BY <1>1, FilledFacts, WhileSearching
<1>3. Headers' = Headers
  BY <1>1 DEF Headers
<1>4. Filled' = Filled \cup {Header}
  BY <1>1, <1>2, <1>3, FilledNext
<1> SUFFICES ASSUME Structured(m_succs)
             PROVE  Between(m_succs, Headers, Filled \cup {Header}, bb_to_loop, loops)
  BY <1>1, <1>3, <1>4, BetweenNext
<1>5. PICK h, l : h = Header /\ l = loops[Header].latches[1]
  OBVIOUS
<1>6. m_succs \in BuiltGraphs /\ Reachable(m_succs) = BasicBlock
  BY StructuredMeans, GraphIsBuilt DEF Core
<1>7. <<l, h>> \in BackEdges(m_succs) /\ latch # 1
  <2>1. Len(loops[Header].latches) = 1
    BY <1>1, LatchOfLoop
  <2> QED BY <1>1, <1>5, <2>1, LatchOfLoop, WhileSearching
<1>8. /\ \A o \in Filled : Natural(m_succs, o, loops[o].basic_blocks)
      /\ \A o \in Headers \ (Filled \cup {h}) : loops[o].basic_blocks = <<>>
      /\ Nested(m_succs, Headers, Filled, dfs_marked, h, bb_to_loop, loops)
      /\ Walk(m_succs, m_preds, h, l, dfs_marked, <<>>, loops[h].basic_blocks, latch)
  BY <1>1, <1>5, DuringNow DEF During
<1>9. dfs_marked = NaturalLoop(m_succs, h) /\ Natural(m_succs, h, loops[h].basic_blocks)
  <2>1. \A b \in BasicBlock : Elements(m_preds[b]) = {a \in BasicBlock : b \in Succs(m_succs, a)}
    BY DEF Core, TypeOK
  <2> QED BY <1>6, <1>7, <1>8, <2>1, WalkEnds
<1>10. \A o \in Filled : h \notin NaturalLoop(m_succs, o)
  BY <1>1, <1>2, <1>5, FilledFacts
<1>11. Nested(m_succs, Headers, Filled \cup {h}, {}, noLoop, bb_to_loop, loops)
  <2>1. Nested(m_succs, Headers, Filled, NaturalLoop(m_succs, h), h, bb_to_loop, loops)
    BY <1>8, <1>9
  <2>2. h \in Headers \ Filled
    BY <1>2, <1>5
  <2> QED BY <1>2, <1>6, <1>10, <2>1, <2>2, NestedEnds
<1> QED BY <1>5, <1>8, <1>9, <1>11 DEF Between

\* When every loop is filled and those in no other are put in the root loop, the
\* loops are the natural loops, and lie in each other as these do.
LEMMA FinishKeepsLoops == Core /\ LatchesSoFar /\ LoopsSoFar /\ Finish => LoopsSoFar'
<1> SUFFICES ASSUME Core, LatchesSoFar, LoopsSoFar, Finish PROVE LoopsSoFar'
  OBVIOUS
<1> DEFINE outermost == {h \in Headers : loops[h].outer_loop = noLoop}
           rest == loops'[nullptr].basic_blocks
           g == m_succs
           N(h) == NaturalLoop(m_succs, h)
<1>1. phase = "populate" /\ cursor = 0 /\ phase' = "done" /\ m_succs' = m_succs
  BY DEF Finish, graphVars
<1> SUFFICES ASSUME Structured(m_succs) PROVE (LoopsAreNatural /\ NestingIsContainment)'
  BY <1>1 DEF LoopsSoFar
<1>2. /\ DOMAIN loops' = Headers \cup {nullptr} /\ Headers' = Headers /\ nullptr \notin Headers
      /\ rest \in Seq(BasicBlock)
      /\ Elements(rest) = {b \in Reachable(m_succs) : bb_to_loop[b] = noLoop}
      /\ loops'[nullptr] = [EmptyLoop EXCEPT !.basic_blocks = rest, !.inner_loops = outermost]
      /\ \A h \in outermost : loops'[h] = [loops[h] EXCEPT !.outer_loop = nullptr]
      /\ \A h \in Headers \ outermost : loops'[h] = loops[h]
  BY FinishMakes
<1>3. /\ Headers = DOMAIN loops /\ Headers \subseteq BasicBlock /\ Filled = Headers
      /\ \A h \in Headers : loops[h] \in Loop
      /\ Reachable(m_succs) = BasicBlock
      /\ Headers = {e[2] : e \in BackEdges(m_succs)}
  <2>1. Headers = DOMAIN loops /\ Headers \subseteq BasicBlock /\ Filled = Headers
    BY <1>1, FilledFacts
  <2>2. \A h \in Headers : loops[h] \in Loop
    BY <2>1 DEF Core, TypeOK
  <2>3. Reachable(m_succs) = BasicBlock
    BY StructuredMeans, GraphIsBuilt DEF Core
  <2>4. Headers = {e[2] : e \in BackEdges(m_succs)}
    BY <1>1 DEF LatchesSoFar
  <2> QED BY <2>1, <2>2, <2>3, <2>4
<1>4. /\ \A h \in Headers : Natural(m_succs, h, loops[h].basic_blocks)
      /\ \A b \in BasicBlock : SmallestIn(m_succs, Headers, b, bb_to_loop[b])
      /\ \A h \in Headers : SmallestIn(m_succs, Headers \ {h}, h, loops[h].outer_loop)
      /\ \A o \in Headers : loops[o].inner_loops = {h \in Headers : loops[h].outer_loop = o}
  <2>1. Between(m_succs, Headers, Headers, bb_to_loop, loops)
    BY <1>1, <1>3, BetweenNow
  <2> QED BY <2>1 DEF Between, Nested
<1>5. ASSUME NEW h \in Headers
      PROVE  /\ loops'[h].basic_blocks = loops[h].basic_blocks
             /\ loops'[h].inner_loops = loops[h].inner_loops
             /\ loops'[h].outer_loop = IF h \in outermost THEN nullptr ELSE loops[h].outer_loop
  <2>1. loops[h] \in Loop
    BY <1>3
  <2>2. CASE h \in outermost
    <3>1. loops'[h] = [loops[h] EXCEPT !.outer_loop = nullptr]
      BY <1>2, <2>2
    <3> HIDE DEF outermost
    <3> QED BY <2>1, <2>2, <3>1 DEF Loop
  <2>3. CASE h \notin outermost
    <3>1. loops'[h] = loops[h]
      BY <1>2, <2>3
    <3> QED BY <2>3, <3>1
  <2> QED BY <2>2, <2>3
<1>6. /\ loops'[nullptr].inner_loops = outermost /\ loops'[nullptr].basic_blocks = rest
      /\ ToSet(rest) = {b \in BasicBlock : bb_to_loop[b] = noLoop}
  <2>1. loops'[nullptr].inner_loops = outermost
    BY <1>2 DEF EmptyLoop
  <2>2. ToSet(rest) = Elements(rest)
    BY <1>2 DEF ToSet, Elements
  <2> QED BY <1>2, <1>3, <2>1, <2>2
<1>7. \A h \in Headers : LET bbs == loops'[h].basic_blocks
                         IN  /\ ToSet(bbs) = N(h) /\ IsInjective(bbs) /\ bbs[1] = h
                             /\ <<bbs[Len(bbs)], h>> \in BackEdges(m_succs)
  <2> TAKE h \in Headers
  <2>1. PICK bbs : bbs = loops[h].basic_blocks
    OBVIOUS
  <2>2. bbs \in Seq(BasicBlock) /\ Natural(m_succs, h, bbs) /\ loops'[h].basic_blocks = bbs
    BY <1>3, <1>4, <1>5, <2>1, LoopTypes
  <2>3. DOMAIN bbs = 1 .. Len(bbs)
    BY <2>2
  <2>4. ToSet(bbs) = Elements(bbs) /\ (IsInjective(bbs) <=> Distinct(bbs))
    BY <2>3 DEF ToSet, Elements, IsInjective, Distinct
  <2> QED BY <2>2, <2>4 DEF Natural
<1>8. LoopsAreNatural'
  BY <1>1, <1>2, <1>3, <1>7 DEF LoopsAreNatural
<1> HIDE DEF outermost, rest, N
<1> DEFINE B(h) == ToSet(loops'[h].basic_blocks)
<1>9. /\ \A h \in Headers : B(h) = N(h) /\ N(h) \subseteq BasicBlock
      /\ B(nullptr) = {b \in BasicBlock : bb_to_loop[b] = noLoop}
  <2>1. \A h \in Headers : N(h) \subseteq BasicBlock
    BY <1>3, InNaturalLoop DEF N
  <2> QED BY <1>6, <1>7, <2>1
<1> HIDE DEF B
<1>10. ASSUME NEW h \in Headers
       PROVE  LET around == {o \in Headers \ {h} : h \in N(o)}
                  outer == loops'[h].outer_loop
              IN  IF around = {}
                  THEN outer = nullptr
                  ELSE outer \in around /\ \A o \in around : N(outer) \subseteq N(o)
  <2>1. SmallestIn(m_succs, Headers \ {h}, h, loops[h].outer_loop)
    BY <1>4
  <2>2. CASE loops[h].outer_loop = noLoop
    <3>1. loops'[h].outer_loop = nullptr
      BY <1>5, <2>2 DEF outermost
    <3> QED BY <2>1, <2>2, <3>1 DEF SmallestIn, N
  <2>3. CASE loops[h].outer_loop # noLoop
    <3>1. loops'[h].outer_loop = loops[h].outer_loop
      BY <1>5, <2>3 DEF outermost
    <3> QED BY <2>1, <2>3, <3>1 DEF SmallestIn, N
  <2> QED BY <2>2, <2>3
<1>11. ASSUME NEW o \in Headers \cup {nullptr}
       PROVE  loops'[o].inner_loops = {h \in Headers : loops'[h].outer_loop = o}
  <2>1. \A h \in Headers : loops[h].outer_loop # noLoop => loops[h].outer_loop \in Headers
    BY <1>4 DEF SmallestIn
  <2>2. CASE o = nullptr
    <3>1. \A h \in Headers : loops'[h].outer_loop = nullptr <=> h \in outermost
      BY <1>2, <1>5, <2>1 DEF outermost
    <3>2. outermost \subseteq Headers
      BY DEF outermost
    <3> QED BY <1>6, <2>2, <3>1, <3>2
  <2>3. CASE o \in Headers
    <3>1. o # nullptr /\ o # noLoop
      BY <1>2, <1>3, <2>3, NoLoopAssumption
    <3>2. \A h \in Headers : loops'[h].outer_loop = o <=> loops[h].outer_loop = o
      BY <1>5, <3>1 DEF outermost
    <3> QED BY <1>4, <1>5, <2>3, <3>2
  <2> QED BY <2>2, <2>3
<1>12. B(nullptr) = BasicBlock \ UNION {N(h) : h \in Headers}
  <2>1. ASSUME NEW b \in BasicBlock
        PROVE  bb_to_loop[b] = noLoop <=> \A h \in Headers : b \notin N(h)
    BY <1>4 DEF SmallestIn, N
  <2> QED BY <1>9, <2>1
<1>13. ASSUME NEW h \in Headers
       PROVE  LET around == {o \in Headers \ {h} : h \in B(o)}
                  outer == loops'[h].outer_loop
              IN  IF around = {}
                  THEN outer = nullptr
                  ELSE outer \in around /\ \A o \in around : B(outer) \subseteq B(o)
  <2> DEFINE around == {o \in Headers \ {h} : h \in N(o)}
             outer == loops'[h].outer_loop
  <2>1. around = {o \in Headers \ {h} : h \in B(o)}
    BY <1>9
  <2>2. \A o \in around : B(o) = N(o)
    BY <1>9
  <2>3. IF around = {} THEN outer = nullptr
        ELSE outer \in around /\ \A o \in around : N(outer) \subseteq N(o)
    BY <1>10
  <2> HIDE DEF around, outer
  <2>4. IF around = {} THEN outer = nullptr
        ELSE outer \in around /\ \A o \in around : B(outer) \subseteq B(o)
    BY <2>2, <2>3
  <2> QED BY <2>1, <2>4 DEF outer
<1>14. B(nullptr) = BasicBlock \ UNION {B(h) : h \in Headers}
  <2>1. UNION {B(h) : h \in Headers} = UNION {N(h) : h \in Headers}
    BY <1>9
  <2> QED BY <1>12, <2>1
<1>15. NestingIsContainment'
  BY <1>2, <1>11, <1>13, <1>14 DEF NestingIsContainment, Blocks, B
<1> QED BY <1>8, <1>15

LEMMA StutterKeepsLoops == LoopsSoFar /\ UNCHANGED vars => LoopsSoFar'
<1> SUFFICES ASSUME LoopsSoFar, UNCHANGED vars PROVE LoopsSoFar'
  OBVIOUS
<1>1. /\ m_succs' = m_succs /\ m_preds' = m_preds /\ phase' = phase /\ loops' = loops
      /\ calls' = calls /\ cursor' = cursor /\ latch' = latch /\ rpo_vector' = rpo_vector
      /\ dfs_marked' = dfs_marked /\ bb_to_loop' = bb_to_loop
  BY DEF vars, graphVars, rpoVars, searchVars, placeVars
<1>2. Headers' = Headers /\ Header' = Header /\ Running' = Running
  BY <1>1 DEF Headers, Header, Running
<1>3. Filled' = Filled /\ ToCome' = ToCome
  BY <1>1, <1>2 DEF Filled, ToCome
<1>4. /\ \A h : IsNatural(h)' <=> IsNatural(h)
      /\ SearchSoFar' <=> SearchSoFar
      /\ NestedSoFar' <=> NestedSoFar
  BY <1>1, <1>2, <1>3 DEF IsNatural, SearchSoFar, NestedSoFar, Smallest, Met
<1>5. LoopsAreNatural' <=> LoopsAreNatural
  BY <1>1, <1>2 DEF LoopsAreNatural, Done
<1>6. NestingIsContainment' <=> NestingIsContainment
  BY <1>1, <1>2 DEF NestingIsContainment, Done, Blocks
<1> QED BY <1>1, <1>2, <1>3, <1>4, <1>5, <1>6 DEF LoopsSoFar

LEMMA NextKeepsLoops == Core /\ LatchesSoFar /\ LoopsSoFar /\ [Next]_vars => LoopsSoFar'
BY EarlyStepsKeepLoops, BackEdgeKeepsLoops, RpoReturnKeepsLoops, NotAHeaderKeepsLoops,
   ReducibleLoopKeepsLoops, SearchLatchKeepsLoops, SearchPredKeepsLoops, SkipPredKeepsLoops,
   SearchReturnKeepsLoops, LoopDoneKeepsLoops, FinishKeepsLoops, StutterKeepsLoops DEF Next

(***************************************************************************)
(* The theorems.                                                           *)
(***************************************************************************)

\* The first three parts of the invariant hold of every state.
THEOREM CoreInvariance == Spec => []Core
BY InitCore, NextKeepsCore, PTL DEF Spec

\* Each cycle of reachable blocks has a loop header, in any graph that the Builder
\* can make, reducible or not.
THEOREM CyclesHaveHeaders == Spec => []EveryCycleHasHeader
BY CoreInvariance, CoreMeans, PTL

\* When loop_tree returns no reachable block keeps a marker of its searches.
THEOREM NoMarkerLeft == Spec => []MarkersClean
BY CoreInvariance, CoreMeans, PTL

\* Each part of the invariant holds of every state: in structured code each header
\* has its one latch, and the walk from it has been where it should have.
THEOREM Invariance == Spec => []IInv
<1>1. Init => IInv
  BY InitCore, InitLatches, InitLoops DEF IInv
<1>2. IInv /\ [Next]_vars => IInv'
  BY NextKeepsCore, NextKeepsLatches, NextKeepsLoops DEF IInv
<1> QED BY <1>1, <1>2, PTL DEF Spec

LEMMA IInvMeans == IInv => LoopsAreNatural /\ NestingIsContainment
BY DEF IInv, LoopsSoFar, LoopsAreNatural, NestingIsContainment

\* In structured code the loops are the natural loops of the back edges, each block
\* listed once, the header first and the latch last, however many loops there are
\* and in whatever order the blocks were made.
THEOREM LoopsNatural == Spec => []LoopsAreNatural
BY Invariance, IInvMeans, PTL

\* In structured code the outer loop of a loop is the smallest around it, the inner
\* loops are the loops it is the outer one of, and the root loop has the rest.
THEOREM NestingContains == Spec => []NestingIsContainment
BY Invariance, IInvMeans, PTL
=============================================================================
