---------------------------- MODULE LifeTimeProofs ----------------------------
(***************************************************************************)
(* In structured code linear_order puts every block in the row once, and   *)
(* the ranges that build_intervals collects cover the places where a value *)
(* is needed.  What LinearScan makes of them is sound: values that are     *)
(* needed at one place are not in one register.                            *)
(***************************************************************************)
EXTENDS Pipeline, LoopTreeProofs

(***************************************************************************)
(* Paths without back edges.                                               *)
(***************************************************************************)

\* The graph without its back edges.
Ahead(g) == Without(g, BackEdges(g))

LEMMA AheadSuccs ==
  ASSUME NEW g \in BuiltGraphs, NEW b \in BasicBlock
  PROVE  /\ Succs(Ahead(g), b) = {c \in Succs(g, b) : <<b, c>> \notin BackEdges(g)}
         /\ Succs(Ahead(g), b) \subseteq BasicBlock
<1>1. Succs(Ahead(g), b) = {c \in Succs(g, b) : <<b, c>> \notin BackEdges(g)}
  BY WithoutSuccs DEF Ahead
<1>2. Succs(g, b) \subseteq BasicBlock
  BY SuccsAreBlocks
<1> QED BY <1>1, <1>2

\* A back edge leads to a block that the paths to its source have come past, so
\* what can be reached can be reached without back edges.
LEMMA AheadReaches ==
  ASSUME NEW g \in BuiltGraphs, Reachable(g) = BasicBlock
  PROVE  Reachable(Ahead(g)) = BasicBlock
<1> DEFINE S == Reach(Ahead(g), root, {})
<1>1. root \in S /\ S \subseteq BasicBlock
  BY ReachStart, RootAssumption DEF Reach
<1>2. ClosedUnder(g, {}, S)
  <2> SUFFICES ASSUME NEW b \in S, NEW c \in Succs(g, b) PROVE c \in S
    BY DEF ClosedUnder
  <2>1. b \in BasicBlock /\ c \in BasicBlock
    BY <1>1, SuccsAreBlocks
  <2>2. CASE <<b, c>> \notin BackEdges(g)
    <3>1. c \in Succs(Ahead(g), b)
      BY <2>1, <2>2, AheadSuccs
    <3> QED BY <2>1, <3>1, ReachEdge
  <2>3. CASE <<b, c>> \in BackEdges(g) /\ b # c
    <3> SUFFICES ASSUME c \notin S PROVE FALSE
      OBVIOUS
    <3> DEFINE Around == Reach(Ahead(g), root, {c})
    <3>1. Around \subseteq S /\ Around \subseteq BasicBlock
      <4>1. {} \subseteq {c}
        OBVIOUS
      <4>2. Around \subseteq S
        BY <4>1, ReachShrinks
      <4> QED BY <1>1, <4>2
    <3>2. root \in Around
      BY <1>1, ReachStart, RootAssumption
    <3>3. ClosedUnder(Ahead(g), {}, Around)
      <4> SUFFICES ASSUME NEW x \in Around, NEW y \in Succs(Ahead(g), x) PROVE y \in Around
        BY DEF ClosedUnder
      <4>1. x \in BasicBlock /\ x \in S /\ y \in BasicBlock
        BY <3>1, AheadSuccs
      <4>2. y \in S
        BY <4>1, ReachEdge
      <4> QED BY <4>1, <4>2, ReachEdge
    <3>4. b \in Around
      <4> HIDE DEF Around
      <4> QED BY <3>1, <3>2, <3>3, ReachLeast
    <3>5. b \in Reach(g, root, {c})
      BY <3>4, WithoutReaches DEF Ahead
    <3> QED BY <2>3, <3>5, BackEdgeMeans
  <2> QED BY <2>2, <2>3
<1>3. Reachable(g) \subseteq S
  <2> HIDE DEF S
  <2> QED BY <1>1, <1>2, ReachLeast DEF Reachable
<1> QED BY <1>1, <1>3 DEF Reachable

\* In structured code no edge other than a back edge leads back.
LEMMA NothingLeadsBack ==
  ASSUME NEW g \in BuiltGraphs, Structured(g), NEW a \in BasicBlock, NEW b \in Succs(Ahead(g), a)
  PROVE  b \in BasicBlock /\ a \notin Reach(Ahead(g), b, {}) /\ a # b /\ b \in Succs(g, a)
<1>1. Reachable(Ahead(g)) = BasicBlock /\ CutsCycles(Ahead(g), {})
  BY StructuredMeans, AheadReaches DEF Ahead
<1>2. b \in Succs(g, a) /\ b \in BasicBlock
  BY AheadSuccs
<1>3. a \notin Reach(Ahead(g), b, {})
  BY <1>1 DEF CutsCycles
<1>4. b \in Reach(Ahead(g), b, {})
  BY <1>2, ReachStart
<1> QED BY <1>2, <1>3, <1>4

(***************************************************************************)
(* The walks against the edges.                                            *)
(***************************************************************************)

\* WalkLeads and InFlow of given blocks.
Leads(g, s, hs) ==
  \A k \in 1 .. Len(s) : \A j \in 1 .. k :
    \/ s[k].bb \in Reach(Ahead(g), s[j].bb, {})
    \/ \E i \in j + 1 .. k : s[i].bb \in hs /\ s[j].bb \in NaturalLoop(g, s[i].bb)

Flow(g, s, n, hs) ==
  \A k \in n .. Len(s) :
    \/ \E h \in hs : s[k] \in NaturalLoop(g, h) /\ \A j \in 1 .. k : s[j] # h
    \/ \A a \in BasicBlock : s[k] \in Succs(Ahead(g), a) => \E j \in 1 .. k - 1 : s[j] = a

LEMMA WalkSoFarMeans ==
  ASSUME WalkSoFar, Structured(m_succs)
  PROVE  /\ phase = "search" => Leads(m_succs, calls, Headers)
         /\ \A h \in Headers : Flow(m_succs, loops[h].basic_blocks, 2, Headers \cap NaturalLoop(m_succs, h))
BY DEF WalkSoFar, WalkLeads, InFlow, Leads, Flow, Forward, Ahead

LEMMA WalkSoFarNext ==
  ASSUME m_succs' = m_succs,
         Structured(m_succs) =>
           /\ phase' = "search" => Leads(m_succs, calls', Headers')
           /\ \A h \in Headers' :
                Flow(m_succs, loops'[h].basic_blocks, 2, Headers' \cap NaturalLoop(m_succs, h))
  PROVE  WalkSoFar'
BY DEF WalkSoFar, WalkLeads, InFlow, Leads, Flow, Forward, Ahead

\* No block is second in these.
LEMMA ShortFlows ==
  ASSUME NEW g, NEW hs, NEW b
  PROVE  Flow(g, <<>>, 2, hs) /\ Flow(g, <<b>>, 2, hs)
<1>1. Len(<<>>) = 0 /\ Len(<<b>>) = 1
  OBVIOUS
<1> QED BY <1>1 DEF Flow

\* The walk calls itself for a block with an edge to the block of the last call.
LEMMA LeadsOn ==
  ASSUME NEW g \in BuiltGraphs, Structured(g), NEW hs, hs = {e[2] : e \in BackEdges(g)},
         NEW s \in Seq(Frame), s # <<>>, DistinctCalls(s), Leads(g, s, hs),
         NEW t, AdvancedOf(t, s), t \in Seq(Frame),
         NEW b \in BasicBlock, s[1].bb \in Succs(g, b)
  PROVE  Leads(g, <<Call(b)>> \o t, hs)
<1> DEFINE u == <<Call(b)>> \o t
           y == s[1].bb
<1>0. /\ Len(s) \in Nat \ {0} /\ Len(u) = Len(s) + 1 /\ u[1].bb = b
      /\ \A k \in 1 .. Len(s) : u[k + 1].bb = s[k].bb /\ s[k].bb \in BasicBlock
  BY CallsAreForBlocks DEF AdvancedOf, Call
<1> HIDE DEF u
<1>1. b \in Reach(Ahead(g), b, {})
  BY ReachStart
<1>2. ASSUME NEW k \in 2 .. Len(s) + 1
      PROVE  \/ u[k].bb \in Reach(Ahead(g), b, {})
             \/ \E i \in 2 .. k : u[i].bb \in hs /\ b \in NaturalLoop(g, u[i].bb)
  <2>0. k - 1 \in 1 .. Len(s) /\ u[k].bb = s[k - 1].bb /\ u[2].bb = y /\ y \in BasicBlock
        /\ 1 \in 1 .. k - 1 /\ 2 \in 2 .. k
    BY <1>0
  <2>1. CASE <<b, y>> \in BackEdges(g)
    <3>1. y \in hs
      BY <2>1
    <3>2. b \in NaturalLoop(g, y)
      <4>1. b \in Reach(g, b, {y})
        <5>1. b # y
          BY <2>1, StructuredMeans
        <5> QED BY <5>1, ReachStart
      <4> QED BY <2>1, <4>1, InNaturalLoop
    <3> QED BY <2>0, <3>1, <3>2
  <2>2. CASE <<b, y>> \notin BackEdges(g)
    <3>1. y \in Succs(Ahead(g), b)
      BY <2>2, AheadSuccs
    <3>2. y \in Reach(Ahead(g), b, {})
      BY <1>1, <2>0, <3>1, ReachEdge
    <3>3. CASE s[k - 1].bb \in Reach(Ahead(g), y, {})
      BY <2>0, <3>2, <3>3, ReachTransitive
    <3>4. CASE \E i \in 2 .. k - 1 : s[i].bb \in hs /\ y \in NaturalLoop(g, s[i].bb)
      <4>1. PICK i \in 2 .. k - 1 : s[i].bb \in hs /\ y \in NaturalLoop(g, s[i].bb)
        BY <3>4
      <4>2. i \in 1 .. Len(s) /\ 1 \in 1 .. Len(s) /\ i # 1 /\ i + 1 \in 2 .. k
        BY <1>0, <2>0
      <4>3. y # s[i].bb
        BY <4>2 DEF DistinctCalls
      <4>4. b \in NaturalLoop(g, s[i].bb)
        BY <4>1, <4>3, PredInLoop
      <4> QED BY <1>0, <4>1, <4>2, <4>4
    <3> QED BY <2>0, <3>3, <3>4 DEF Leads
  <2> QED BY <2>1, <2>2
<1>3. ASSUME NEW k \in 1 .. Len(u), NEW j \in 1 .. k
      PROVE  \/ u[k].bb \in Reach(Ahead(g), u[j].bb, {})
             \/ \E i \in j + 1 .. k : u[i].bb \in hs /\ u[j].bb \in NaturalLoop(g, u[i].bb)
  <2>1. CASE j = 1 /\ k = 1
    BY <1>0, <1>1, <2>1
  <2>2. CASE j = 1 /\ k # 1
    BY <1>0, <1>2, <2>2
  <2>3. CASE j # 1
    <3>1. k - 1 \in 1 .. Len(s) /\ j - 1 \in 1 .. k - 1 /\ j - 1 \in 1 .. Len(s)
      BY <1>0, <2>3
    <3>2. u[k].bb = s[k - 1].bb /\ u[j].bb = s[j - 1].bb
      <4>1. k - 1 \in 1 .. Len(s) /\ j - 1 \in 1 .. Len(s) /\ k = (k - 1) + 1 /\ j = (j - 1) + 1
        BY <1>0, <3>1
      <4> HIDE DEF u
      <4> QED BY <1>0, <4>1
    <3>3. CASE s[k - 1].bb \in Reach(Ahead(g), s[j - 1].bb, {})
      BY <3>2, <3>3
    <3>4. CASE \E i \in (j - 1) + 1 .. k - 1 : s[i].bb \in hs /\ s[j - 1].bb \in NaturalLoop(g, s[i].bb)
      <4>1. PICK i \in (j - 1) + 1 .. k - 1 : s[i].bb \in hs /\ s[j - 1].bb \in NaturalLoop(g, s[i].bb)
        BY <3>4
      <4>2. i + 1 \in j + 1 .. k /\ i \in 1 .. Len(s)
        BY <1>0, <3>1
      <4> QED BY <1>0, <3>2, <4>1, <4>2
    <3> QED BY <3>1, <3>3, <3>4 DEF Leads
  <2> QED BY <2>1, <2>2, <2>3
<1>4. Leads(g, u, hs)
  BY <1>3 DEF Leads
<1> QED BY <1>4 DEF u

\* The calls of another state for the same blocks.
LEMMA LeadsStay ==
  ASSUME NEW g, NEW hs, NEW s, Leads(g, s, hs), NEW t, Len(t) = Len(s), Len(s) \in Nat,
         \A k \in 1 .. Len(s) : t[k].bb = s[k].bb
  PROVE  Leads(g, t, hs)
<1> SUFFICES ASSUME NEW k \in 1 .. Len(t), NEW j \in 1 .. k
             PROVE  \/ t[k].bb \in Reach(Ahead(g), t[j].bb, {})
                    \/ \E i \in j + 1 .. k : t[i].bb \in hs /\ t[j].bb \in NaturalLoop(g, t[i].bb)
  BY DEF Leads
<1>1. k \in 1 .. Len(s) /\ j \in 1 .. Len(s) /\ t[k].bb = s[k].bb /\ t[j].bb = s[j].bb
  OBVIOUS
<1>2. CASE s[k].bb \in Reach(Ahead(g), s[j].bb, {})
  BY <1>1, <1>2
<1>3. CASE \E i \in j + 1 .. k : s[i].bb \in hs /\ s[j].bb \in NaturalLoop(g, s[i].bb)
  <2>1. PICK i \in j + 1 .. k : s[i].bb \in hs /\ s[j].bb \in NaturalLoop(g, s[i].bb)
    BY <1>3
  <2>2. t[i].bb = s[i].bb
    BY <1>1
  <2> QED BY <1>1, <2>1, <2>2
<1> QED BY <1>1, <1>2, <1>3 DEF Leads

LEMMA LeadsReturn ==
  ASSUME NEW g, NEW hs, NEW s \in Seq(Frame), s # <<>>, Leads(g, s, hs)
  PROVE  Leads(g, Tail(s), hs)
<1> DEFINE t == Tail(s)
<1>1. /\ Len(s) = Len(t) + 1 /\ Len(t) \in Nat
      /\ \A k \in 1 .. Len(t) : t[k] = s[k + 1]
  BY PopProperties
<1> HIDE DEF t
<1>2. ASSUME NEW k \in 1 .. Len(t), NEW j \in 1 .. k
      PROVE  \/ t[k].bb \in Reach(Ahead(g), t[j].bb, {})
             \/ \E i \in j + 1 .. k : t[i].bb \in hs /\ t[j].bb \in NaturalLoop(g, t[i].bb)
  <2>1. k + 1 \in 1 .. Len(s) /\ j + 1 \in 1 .. k + 1 /\ t[k] = s[k + 1] /\ t[j] = s[j + 1]
    BY <1>1
  <2>2. CASE s[k + 1].bb \in Reach(Ahead(g), s[j + 1].bb, {})
    BY <2>1, <2>2
  <2>3. CASE \E i \in (j + 1) + 1 .. k + 1 : s[i].bb \in hs /\ s[j + 1].bb \in NaturalLoop(g, s[i].bb)
    <3>1. PICK i \in (j + 1) + 1 .. k + 1 : s[i].bb \in hs /\ s[j + 1].bb \in NaturalLoop(g, s[i].bb)
      BY <2>3
    <3>2. i - 1 \in j + 1 .. k /\ i - 1 \in 1 .. Len(t) /\ i = (i - 1) + 1
      BY <1>1
    <3>3. t[i - 1] = s[i]
      BY <1>1, <3>2
    <3> QED BY <2>1, <3>1, <3>2, <3>3
  <2> QED BY <2>1, <2>2, <2>3 DEF Leads
<1>3. Leads(g, t, hs)
  BY <1>2 DEF Leads
<1> QED BY <1>3 DEF t

\* A call returns when the predecessors of its block were seen: those that are still
\* running are behind a header that is.
LEMMA FlowAppends ==
  ASSUME NEW g \in BuiltGraphs, Structured(g), NEW hs \in SUBSET BasicBlock, NEW n \in Nat \ {0},
         NEW s \in Seq(Frame), s # <<>>, DistinctCalls(s), Leads(g, s, hs),
         NEW bbs \in Seq(BasicBlock), Elements(bbs) \cap BlocksOf(s) = {},
         NEW loop, Flow(g, bbs, n, hs \cap loop), BlocksOf(s) \subseteq loop,
         \A a \in BasicBlock : s[1].bb \in Succs(g, a) => a \in Elements(bbs) \cup BlocksOf(s)
  PROVE  Flow(g, Append(bbs, s[1].bb), n, hs \cap loop)
<1> DEFINE u == Append(bbs, s[1].bb)
           in == hs \cap loop
<1>0. /\ Len(bbs) \in Nat /\ Len(u) = Len(bbs) + 1 /\ u[Len(u)] = s[1].bb
      /\ \A k \in 1 .. Len(bbs) : u[k] = bbs[k] /\ bbs[k] \in Elements(bbs)
      /\ \A a \in Elements(bbs) : \E k \in 1 .. Len(bbs) : bbs[k] = a
      /\ Len(s) \in Nat \ {0}
  BY CallsAreForBlocks DEF Elements
<1>1. \A k \in 1 .. Len(s) : s[k].bb \in BasicBlock /\ s[k].bb \in BlocksOf(s)
  BY CallsAreForBlocks
<1> HIDE DEF u
<1>2. ASSUME NEW k \in n .. Len(u)
      PROVE  \/ \E h \in in : u[k] \in NaturalLoop(g, h) /\ \A j \in 1 .. k : u[j] # h
             \/ \A a \in BasicBlock : u[k] \in Succs(Ahead(g), a) => \E j \in 1 .. k - 1 : u[j] = a
  <2>1. CASE k # Len(u)
    <3>1. k \in n .. Len(bbs) /\ \A j \in 1 .. k : u[j] = bbs[j]
      BY <1>0, <2>1
    <3>2. k \in 1 .. k /\ \A j \in 1 .. k - 1 : u[j] = bbs[j]
      BY <3>1
    <3>3. \/ \E h \in in : bbs[k] \in NaturalLoop(g, h) /\ \A j \in 1 .. k : bbs[j] # h
          \/ \A a \in BasicBlock : bbs[k] \in Succs(Ahead(g), a) => \E j \in 1 .. k - 1 : bbs[j] = a
      BY <3>1 DEF Flow
    <3> QED BY <3>1, <3>2, <3>3
  <2>2. CASE k = Len(u) /\ \E i \in 2 .. Len(s) : s[i].bb \in hs /\ s[1].bb \in NaturalLoop(g, s[i].bb)
    <3>1. PICK i \in 2 .. Len(s) : s[i].bb \in hs /\ s[1].bb \in NaturalLoop(g, s[i].bb)
      BY <2>2
    <3>2. s[i].bb \in in /\ s[i].bb # s[1].bb /\ s[i].bb \notin Elements(bbs)
      BY <1>0, <1>1, <3>1 DEF DistinctCalls
    <3>3. \A j \in 1 .. k : u[j] # s[i].bb
      BY <1>0, <2>2, <3>2
    <3> QED BY <1>0, <2>2, <3>1, <3>2, <3>3
  <2>3. CASE k = Len(u) /\ ~ \E i \in 2 .. Len(s) : s[i].bb \in hs /\ s[1].bb \in NaturalLoop(g, s[i].bb)
    <3> SUFFICES ASSUME NEW a \in BasicBlock, s[1].bb \in Succs(Ahead(g), a)
                 PROVE  a \in Elements(bbs)
      <4>1. \A a \in Elements(bbs) : \E j \in 1 .. k - 1 : u[j] = a
        BY <1>0, <2>3
      <4> QED BY <1>0, <2>3, <4>1
    <3>1. s[1].bb \in Succs(g, a) /\ a \notin Reach(Ahead(g), s[1].bb, {}) /\ a # s[1].bb
      BY NothingLeadsBack
    <3> SUFFICES ASSUME a \in BlocksOf(s) PROVE FALSE
      BY <3>1
    <3>2. PICK m \in 1 .. Len(s) : s[m].bb = a
      BY CallsAreForBlocks
    <3>3. m \in 2 .. Len(s) /\ 1 \in 1 .. m
      BY <1>0, <3>1, <3>2
    <3>4. \E i \in 1 + 1 .. m : s[i].bb \in hs /\ s[1].bb \in NaturalLoop(g, s[i].bb)
      BY <3>1, <3>2, <3>3 DEF Leads
    <3> QED BY <1>0, <2>3, <3>3, <3>4
  <2> QED BY <2>1, <2>2, <2>3
<1>3. Flow(g, u, n, in)
  BY <1>2 DEF Flow
<1> QED BY <1>3 DEF u

\* Headers without blocks.
LEMMA EmptyWalks ==
  ASSUME m_succs' = m_succs, phase' # "search",
         Structured(m_succs) => \A h \in Headers' : loops'[h].basic_blocks = <<>>
  PROVE  WalkSoFar'
BY ShortFlows, WalkSoFarNext

\* The loops have the blocks that they had.
LEMMA WalkStays ==
  ASSUME WalkSoFar, m_succs' = m_succs, Headers' = Headers,
         \A h \in Headers : loops'[h].basic_blocks = loops[h].basic_blocks,
         Structured(m_succs) /\ phase' = "search" => Leads(m_succs, calls', Headers)
  PROVE  WalkSoFar'
BY WalkSoFarMeans, WalkSoFarNext

\* The graph stays as the Builder left it.
LEMMA TreeKeepsGraph == [Next]_vars => m_succs' = m_succs
BY RpoGoesOn DEF Next, vars, graphVars, CallDom, BackEdge, OtherEdge, TreeEdge, CollectReturn, CallRpo,
   RpoStep, RpoReturn, NotAHeader, IrreducibleLoop, ReducibleLoop, SearchLatch, SearchPred,
   SkipPred, SearchReturn, LoopDone, Finish

LEMMA InitWalk == Init => WalkSoFar
BY ShortFlows DEF Init, Start, WalkSoFar, WalkLeads, Headers

\* Until populate_loops is called no loop has blocks.
LEMMA EarlyStepsKeepWalk ==
  ASSUME LoopsSoFar, LoopsSoFar', m_succs' = m_succs,
         phase' \in Early \/ RpoReturn
  PROVE  WalkSoFar'
<1>1. CASE phase' \in Early
  <2>1. Structured(m_succs) => \A h \in Headers' : loops'[h].basic_blocks = <<>>
    BY <1>1 DEF LoopsSoFar, Early
  <2> QED BY <1>1, <2>1, EmptyWalks DEF Early
<1>2. CASE RpoReturn
  <2>1. phase = "order" /\ phase' = "populate" /\ loops' = loops
    BY <1>2 DEF RpoReturn
  <2>2. Headers' = Headers
    BY <2>1 DEF Headers
  <2>3. Structured(m_succs) => \A h \in Headers : loops[h].basic_blocks = <<>>
    BY <2>1 DEF LoopsSoFar
  <2> QED BY <2>1, <2>2, <2>3, EmptyWalks
<1> QED BY <1>1, <1>2

LEMMA BetweenLoopsKeepsWalk ==
  ASSUME Core, LatchesSoFar, WalkSoFar, m_succs' = m_succs,
         NotAHeader \/ IrreducibleLoop \/ LoopDone \/ Finish \/ UNCHANGED vars
  PROVE  WalkSoFar'
<1> SUFFICES ASSUME Structured(m_succs) PROVE WalkSoFar'
  BY WalkSoFarNext
<1>1. CASE IrreducibleLoop
  <2>1. phase = "populate" /\ Header \in DOMAIN loops /\ ~ loops[Header].reducible
    BY <1>1 DEF IrreducibleLoop, Populating
  <2>2. Header \in Headers
    BY <2>1, LoopsOfBlocks DEF Core
  <2>3. loops[Header].reducible
    BY <2>2 DEF LatchesSoFar, HasLatch
  <2> QED BY <2>1, <2>3
<1>2. CASE NotAHeader \/ LoopDone
  <2>1. phase' # "search" /\ loops' = loops
    BY <1>2 DEF NotAHeader, LoopDone, Populating
  <2> QED BY <2>1, WalkStays DEF Headers
<1>3. CASE UNCHANGED vars
  <2>1. phase' = phase /\ loops' = loops /\ calls' = calls
    BY <1>3 DEF vars, searchVars
  <2> QED BY <2>1, WalkStays, WalkSoFarMeans DEF Headers
<1>4. CASE Finish
  <2>1. phase = "populate" /\ phase' = "done"
    BY <1>4 DEF Finish
  <2>2. /\ Headers' = Headers
        /\ \A h \in Headers : loops'[h] = loops[h] \/ loops'[h] = [loops[h] EXCEPT !.outer_loop = nullptr]
    BY <1>4, FinishMakes
  <2>3. \A h \in Headers : loops[h] \in Loop
    BY <2>1, LoopsOfBlocks DEF Core, TypeOK
  <2>4. \A h \in Headers : loops'[h].basic_blocks = loops[h].basic_blocks
    <3> SUFFICES ASSUME NEW h \in Headers PROVE loops'[h].basic_blocks = loops[h].basic_blocks
      OBVIOUS
    <3>1. loops[h] \in Loop
      BY <2>3
    <3> QED BY <2>2, <3>1 DEF Loop
  <2> QED BY <2>1, <2>2, <2>4, WalkStays
<1> QED BY <1>1, <1>2, <1>3, <1>4

\* The search of a loop begins with the header.
LEMMA ReducibleLoopKeepsWalk ==
  ASSUME Core, WalkSoFar, m_succs' = m_succs, ReducibleLoop
  PROVE  WalkSoFar'
<1> SUFFICES ASSUME Structured(m_succs) PROVE WalkSoFar'
  BY WalkSoFarNext
<1>1. /\ phase = "populate" /\ phase # "done" /\ Header \in DOMAIN loops
      /\ loops' = [loops EXCEPT ![Header].basic_blocks = <<Header>>]
      /\ calls' = calls /\ calls = <<>>
  BY DEF ReducibleLoop, Populating, Core, TypeOK
<1>2. PICK h : h = Header
  OBVIOUS
<1>3. h \in Headers /\ Headers' = Headers
  BY <1>1, <1>2, LoopsOfBlocks DEF Core, Headers
<1>4. loops'[h].basic_blocks = <<h>> /\ \A o \in Headers \ {h} : loops'[o] = loops[o]
  <2>1. loops' = [loops EXCEPT ![h].basic_blocks = <<h>>]
    BY <1>1, <1>2
  <2> QED BY <1>1, <1>3, <2>1, FillMeans
<1>5. \A o \in Headers : Flow(m_succs, loops'[o].basic_blocks, 2, Headers \cap NaturalLoop(m_succs, o))
  BY <1>4, WalkSoFarMeans, ShortFlows
<1>6. Leads(m_succs, calls', Headers)
  BY <1>1 DEF Leads
<1> QED BY <1>3, <1>5, <1>6, WalkSoFarNext

\* A call of loop_search leaves the blocks of the loops alone.
LEMMA LoopSearchKeepsWalk ==
  ASSUME Core, WalkSoFar, m_succs' = m_succs, phase = "search", NEW b \in BasicBlock, Claim(b),
         Structured(m_succs) => Leads(m_succs, calls', Headers)
  PROVE  WalkSoFar'
<1>1. /\ Headers' = Headers
      /\ \A h \in Headers : loops'[h].basic_blocks = loops[h].basic_blocks
  BY WhileSearching, ClaimTypes, ClaimKeeps DEF Headers
<1> QED BY <1>1, WalkStays

LEMMA SearchLatchKeepsWalk ==
  ASSUME Core, LatchesSoFar, WalkSoFar, m_succs' = m_succs, SearchLatch
  PROVE  WalkSoFar'
<1> SUFFICES ASSUME Structured(m_succs) PROVE WalkSoFar'
  BY WalkSoFarNext
<1>1. /\ phase = "search" /\ latch <= Len(loops[Header].latches)
      /\ Claim(loops[Header].latches[latch])
      /\ calls' = <<Call(loops[Header].latches[latch])>> \o <<>>
  BY DEF SearchLatch, LoopSearch
<1>2. Len(loops[Header].latches) = 1 /\ loops[Header].latches[1] \in BasicBlock
  BY <1>1, LatchOfLoop
<1>3. latch = 1
  BY <1>1, <1>2, WhileSearching
<1>4. PICK l : l = loops[Header].latches[1]
  OBVIOUS
<1>5. l \in BasicBlock /\ Claim(l) /\ Len(calls') = 1 /\ calls'[1].bb = l
  BY <1>1, <1>2, <1>3, <1>4 DEF Call
<1>6. l \in Reach(Ahead(m_succs), l, {})
  BY <1>5, ReachStart
<1>7. Leads(m_succs, calls', Headers)
  BY <1>5, <1>6 DEF Leads
<1> QED BY <1>1, <1>5, <1>7, LoopSearchKeepsWalk

LEMMA SearchPredKeepsWalk ==
  ASSUME Core, LatchesSoFar, WalkSoFar, m_succs' = m_succs, SearchPred
  PROVE  WalkSoFar'
<1> SUFFICES ASSUME Structured(m_succs) PROVE WalkSoFar'
  BY WalkSoFarNext
<1>1. /\ phase = "search" /\ Searching /\ HasPred /\ Claim(Pred)
      /\ calls' = <<Call(Pred)>> \o Advanced
  BY DEF SearchPred, Searching, LoopSearch
<1>2. PICK b, t : b = Pred /\ t = Advanced
  OBVIOUS
<1>3. /\ calls \in Seq(Frame) /\ calls # <<>> /\ DistinctCalls(calls)
      /\ t \in Seq(Frame) /\ AdvancedOf(t, calls)
      /\ b \in BasicBlock /\ calls[1].bb \in Succs(m_succs, b)
  BY <1>1, <1>2, RunningSearch
<1>4. Leads(m_succs, calls, Headers) /\ Headers = {e[2] : e \in BackEdges(m_succs)}
  BY <1>1, WalkSoFarMeans DEF LatchesSoFar
<1>5. Leads(m_succs, <<Call(b)>> \o t, Headers)
  BY <1>3, <1>4, LeadsOn, GraphIsBuilt DEF Core
<1> QED BY <1>1, <1>2, <1>3, <1>5, LoopSearchKeepsWalk

LEMMA SkipPredKeepsWalk ==
  ASSUME Core, WalkSoFar, m_succs' = m_succs, SkipPred
  PROVE  WalkSoFar'
<1>1. phase = "search" /\ Searching /\ HasPred /\ loops' = loops /\ calls' = Advanced
  BY DEF SkipPred, Searching
<1>2. PICK t : t = Advanced
  OBVIOUS
<1>3. calls \in Seq(Frame) /\ AdvancedOf(t, calls) /\ Len(calls) \in Nat
  BY <1>1, <1>2, RunningSearch
<1>4. Structured(m_succs) => Leads(m_succs, t, Headers)
  BY <1>1, <1>3, LeadsStay, WalkSoFarMeans DEF AdvancedOf
<1> QED BY <1>1, <1>2, <1>4, WalkStays DEF Headers

LEMMA SearchReturnKeepsWalk ==
  ASSUME Core, LatchesSoFar, LoopsSoFar, WalkSoFar, m_succs' = m_succs, SearchReturn
  PROVE  WalkSoFar'
<1> SUFFICES ASSUME Structured(m_succs) PROVE WalkSoFar'
  BY WalkSoFarNext
<1>1. /\ phase = "search" /\ phase # "done" /\ Searching /\ ~ HasPred /\ calls' = Tail(calls)
      /\ loops' = [loops EXCEPT ![Header].basic_blocks = Append(loops[Header].basic_blocks, Top.bb)]
  BY DEF SearchReturn, Searching
<1>2. /\ calls \in Seq(Frame) /\ calls # <<>> /\ Top = calls[1] /\ DistinctCalls(calls)
      /\ m_preds[calls[1].bb] \in Seq(BasicBlock) /\ calls[1].bb \in BlocksOf(calls)
      /\ ~ (calls[1].next <= Len(m_preds[calls[1].bb]))
  BY <1>1, RunningSearch DEF HasPred
<1>3. PICK h : h = Header
  OBVIOUS
<1>4. PICK bbs : bbs = loops[h].basic_blocks
  OBVIOUS
<1>5. h \in Headers /\ Headers \subseteq BasicBlock /\ bbs \in Seq(BasicBlock) /\ DOMAIN loops = Headers
  BY <1>1, <1>3, <1>4, WhileSearching, LoopTypes
<1>6. Walk(m_succs, m_preds, h, loops[h].latches[1], dfs_marked, calls, bbs, latch)
  BY <1>1, <1>3, <1>4, DuringNow DEF During
<1>7. /\ Leads(m_succs, calls, Headers)
      /\ \A o \in Headers : Flow(m_succs, loops[o].basic_blocks, 2, Headers \cap NaturalLoop(m_succs, o))
  BY <1>1, WalkSoFarMeans
<1>8. /\ Elements(bbs) \cap BlocksOf(calls) = {} /\ Elements(bbs) \cup BlocksOf(calls) = dfs_marked
      /\ dfs_marked \subseteq NaturalLoop(m_succs, h)
  BY <1>6 DEF Walk
<1>9. ASSUME NEW a \in BasicBlock, calls[1].bb \in Succs(m_succs, a)
      PROVE  a \in dfs_marked
  <2>1. calls[1].bb \in BasicBlock /\ 1 \in 1 .. Len(calls) /\ calls[1].next \in Nat
    <3>1. calls[1] \in Frame /\ 1 \in 1 .. Len(calls)
      BY <1>2
    <3> QED BY <3>1 DEF Frame
  <2>2. a \in Elements(m_preds[calls[1].bb])
    BY <1>9, <2>1 DEF Core, TypeOK
  <2>3. PICK n \in 1 .. Len(m_preds[calls[1].bb]) : m_preds[calls[1].bb][n] = a
    BY <2>2 DEF Elements
  <2>4. n < calls[1].next
    BY <1>2, <2>1
  <2> QED BY <1>6, <2>1, <2>3, <2>4 DEF Walk, PredsPassed
<1>10. Flow(m_succs, Append(bbs, calls[1].bb), 2, Headers \cap NaturalLoop(m_succs, h))
  <2>1. m_succs \in BuiltGraphs
    BY GraphIsBuilt DEF Core
  <2>2. Flow(m_succs, bbs, 2, Headers \cap NaturalLoop(m_succs, h))
    BY <1>4, <1>5, <1>7
  <2>3. \A a \in BasicBlock : calls[1].bb \in Succs(m_succs, a) => a \in Elements(bbs) \cup BlocksOf(calls)
    BY <1>8, <1>9
  <2>4. BlocksOf(calls) \subseteq NaturalLoop(m_succs, h) /\ Headers \in SUBSET BasicBlock /\ 2 \in Nat \ {0}
    BY <1>5, <1>8
  <2> QED BY ONLY Structured(m_succs), <1>2, <1>5, <1>7, <1>8, <2>1, <2>2, <2>3, <2>4, FlowAppends
<1>11. loops'[h].basic_blocks = Append(bbs, calls[1].bb) /\ \A o \in Headers \ {h} : loops'[o] = loops[o]
  <2>1. PICK more : more = Append(bbs, calls[1].bb)
    OBVIOUS
  <2>2. loops' = [loops EXCEPT ![h].basic_blocks = more]
    BY <1>1, <1>2, <1>3, <1>4, <2>1
  <2>3. loops'[h].basic_blocks = more /\ \A o \in Headers \ {h} : loops'[o] = loops[o]
    <3>1. phase # "done" /\ h \in Headers
      BY <1>1, <1>5
    <3> QED BY ONLY Core, <2>2, <3>1, FillMeans
  <2> QED BY <2>1, <2>3
<1>12. Headers' = Headers
  BY <1>1 DEF Headers
<1>13. Leads(m_succs, calls', Headers)
  BY <1>1, <1>2, <1>7, LeadsReturn
<1>14. \A o \in Headers : Flow(m_succs, loops'[o].basic_blocks, 2, Headers \cap NaturalLoop(m_succs, o))
  BY <1>7, <1>10, <1>11
<1> QED BY <1>12, <1>13, <1>14, WalkSoFarNext

LEMMA NextKeepsWalk == IInv /\ IInv' /\ WalkSoFar /\ [Next]_vars => WalkSoFar'
<1> SUFFICES ASSUME IInv, IInv', WalkSoFar, [Next]_vars PROVE WalkSoFar'
  OBVIOUS
<1>1. Core /\ LatchesSoFar /\ LoopsSoFar /\ LoopsSoFar' /\ m_succs' = m_succs
  BY TreeKeepsGraph DEF IInv
<1>2. ASSUME CallDom \/ BackEdge \/ OtherEdge \/ TreeEdge \/ CollectReturn \/ CallRpo \/ RpoStep
      PROVE  phase' \in Early
  BY <1>2 DEF CallDom, BackEdge, OtherEdge, TreeEdge, CollectReturn, CallRpo, RpoStep, Early, Collecting
<1> QED BY <1>1, <1>2, EarlyStepsKeepWalk, BetweenLoopsKeepsWalk, ReducibleLoopKeepsWalk,
           SearchLatchKeepsWalk, SearchPredKeepsWalk, SkipPredKeepsWalk, SearchReturnKeepsWalk DEF Next

(***************************************************************************)
(* The row of blocks.                                                      *)
(***************************************************************************)

\* What loop_tree has when it is done: the order r, the loops ls of the headers hs.
Tree(g, r, hs, ls) ==
  /\ g \in BuiltGraphs /\ Structured(g)
  /\ r \in Seq(BasicBlock) /\ Elements(r) = BasicBlock
  /\ \A j, k \in 1 .. Len(r) :
       /\ r[j] = r[k] => j = k
       /\ <<r[j], r[k]>> \in Dominance(g) => j <= k
       /\ k >= j /\ r[j] \in Succs(g, r[k]) => <<r[k], r[j]>> \in BackEdges(g)
  /\ hs \subseteq BasicBlock /\ hs = {e[2] : e \in BackEdges(g)}
  /\ \A h \in hs :
       /\ ls[h].reducible /\ ls[h].basic_blocks \in Seq(BasicBlock)
       /\ Natural(g, h, ls[h].basic_blocks)
       /\ Flow(g, ls[h].basic_blocks, 2, hs \cap NaturalLoop(g, h))

LEMMA TreeIsThere ==
  ASSUME IInv, WalkSoFar, Structured(m_succs), phase = "done"
  PROVE  Tree(m_succs, rpo_vector, Headers, loops)
<1>1. /\ Core /\ TypeOK /\ Rpo!IInv /\ pc = "done" /\ removed = {}
      /\ LatchesSoFar /\ LoopsAreNatural
  BY DEF IInv, Core, MarkersSoFar, LoopsSoFar
<1>2. m_succs \in BuiltGraphs /\ Reachable(m_succs) = BasicBlock
  BY <1>1, GraphIsBuilt, StructuredMeans
<1>3. /\ rpo_vector \in Seq(BasicBlock) /\ Elements(rpo_vector) = BasicBlock
      /\ \A j, k \in 1 .. Len(rpo_vector) :
           /\ rpo_vector[j] = rpo_vector[k] => j = k
           /\ <<rpo_vector[j], rpo_vector[k]>> \in Dominance(m_succs) => j <= k
  BY <1>1, <1>2, AfterRpo
<1>4. RisesForward(rpo_vector)
  BY <1>1, RpoAnswerRises
<1>5. Headers = {e[2] : e \in BackEdges(m_succs)} /\ Headers \subseteq BasicBlock
  BY <1>1, <1>2 DEF LatchesSoFar, TypeOK
<1>6. ASSUME NEW h \in Headers
      PROVE  /\ loops[h].reducible /\ loops[h].basic_blocks \in Seq(BasicBlock)
             /\ Natural(m_succs, h, loops[h].basic_blocks)
  <2>1. loops[h].reducible
    BY <1>1 DEF LatchesSoFar, HasLatch
  <2>2. loops[h] \in Loop
    BY <1>1 DEF TypeOK, Headers
  <2>3. loops[h].basic_blocks \in Seq(BasicBlock)
    BY <2>2, LoopTypes
  <2>4. LET bbs == loops[h].basic_blocks
        IN  /\ ToSet(bbs) = NaturalLoop(m_succs, h)
            /\ IsInjective(bbs)
            /\ bbs[1] = h
            /\ <<bbs[Len(bbs)], h>> \in BackEdges(m_succs)
    BY <1>1 DEF LoopsAreNatural, Done
  <2>5. Natural(m_succs, h, loops[h].basic_blocks)
    BY <2>3, <2>4 DEF Natural, Elements, ToSet, IsInjective, Distinct
  <2> QED BY <2>1, <2>3, <2>5
<1>7. \A h \in Headers : Flow(m_succs, loops[h].basic_blocks, 2, Headers \cap NaturalLoop(m_succs, h))
  BY WalkSoFarMeans
<1> QED BY <1>2, <1>3, <1>4, <1>5, <1>6, <1>7 DEF Tree, RisesForward

\* The blocks that are in the row after n blocks of the order r.
PlacedBy(g, r, hs, n) ==
  {r[k] : k \in 1 .. n} \cup UNION {NaturalLoop(g, h) : h \in hs \cap {r[k] : k \in 1 .. n}}

LEMMA PlacedMeans ==
  ASSUME NEW g, NEW r, NEW hs, NEW n, NEW b
  PROVE  b \in PlacedBy(g, r, hs, n) <=>
           \E k \in 1 .. n : b = r[k] \/ (r[k] \in hs /\ b \in NaturalLoop(g, r[k]))
BY DEF PlacedBy

LEMMA PlacedNext ==
  ASSUME NEW g, NEW r, NEW hs, NEW n \in Nat
  PROVE  PlacedBy(g, r, hs, n + 1) =
           PlacedBy(g, r, hs, n) \cup (IF r[n + 1] \in hs THEN NaturalLoop(g, r[n + 1]) ELSE {r[n + 1]})
<1>1. \A k : k \in 1 .. n + 1 <=> k \in 1 .. n \/ k = n + 1
  OBVIOUS
<1>2. r[n + 1] \in NaturalLoop(g, r[n + 1])
  BY InNaturalLoop
<1>3. ASSUME NEW b
      PROVE  b \in PlacedBy(g, r, hs, n + 1) <=>
               \/ b \in PlacedBy(g, r, hs, n)
               \/ b = r[n + 1] \/ (r[n + 1] \in hs /\ b \in NaturalLoop(g, r[n + 1]))
  <2>1. b \in PlacedBy(g, r, hs, n + 1) <=>
          \E k \in 1 .. n + 1 : b = r[k] \/ (r[k] \in hs /\ b \in NaturalLoop(g, r[k]))
    BY PlacedMeans
  <2>2. b \in PlacedBy(g, r, hs, n) <=>
          \E k \in 1 .. n : b = r[k] \/ (r[k] \in hs /\ b \in NaturalLoop(g, r[k]))
    BY PlacedMeans
  <2> QED BY <1>1, <2>1, <2>2
<1> QED BY <1>2, <1>3

\* A header comes before the other blocks of its loop.
LEMMA HeaderIsEarlier ==
  ASSUME NEW g, NEW r, NEW hs, NEW ls, Tree(g, r, hs, ls),
         NEW j \in 1 .. Len(r), NEW k \in 1 .. Len(r), r[k] \in NaturalLoop(g, r[j])
  PROVE  j <= k
<1>1. r[j] \in BasicBlock /\ r[k] \in BasicBlock /\ g \in BuiltGraphs /\ Reachable(g) = BasicBlock
  BY StructuredMeans DEF Tree
<1>2. <<r[j], r[k]>> \in Dominance(g)
  BY <1>1, HeaderDominatesLoop
<1> QED BY <1>2 DEF Tree

LEMMA LoopsInOrder ==
  ASSUME NEW g, NEW r, NEW hs, NEW ls, Tree(g, r, hs, ls),
         NEW j \in 1 .. Len(r), NEW k \in 1 .. Len(r), j < k,
         NEW b \in NaturalLoop(g, r[j]), b \in NaturalLoop(g, r[k])
  PROVE  NaturalLoop(g, r[k]) \subseteq NaturalLoop(g, r[j])
<1>1. r[j] \in BasicBlock /\ r[k] \in BasicBlock /\ g \in BuiltGraphs /\ Reachable(g) = BasicBlock
  BY StructuredMeans DEF Tree
<1>2. Len(r) \in Nat
  BY DEF Tree
<1>3. r[j] \notin NaturalLoop(g, r[k])
  BY <1>2, HeaderIsEarlier
<1> QED BY <1>1, <1>3, LoopsNest

\* A header that is not in the row yet is in no loop that is: its loop is new.
LEMMA LoopIsNew ==
  ASSUME NEW g, NEW r, NEW hs, NEW ls, Tree(g, r, hs, ls), NEW n \in 1 .. Len(r),
         r[n] \notin PlacedBy(g, r, hs, n - 1)
  PROVE  NaturalLoop(g, r[n]) \cap PlacedBy(g, r, hs, n - 1) = {}
<1> SUFFICES ASSUME NEW b \in NaturalLoop(g, r[n]), b \in PlacedBy(g, r, hs, n - 1) PROVE FALSE
  OBVIOUS
<1>1. PICK k \in 1 .. n - 1 : b = r[k] \/ (r[k] \in hs /\ b \in NaturalLoop(g, r[k]))
  BY PlacedMeans
<1>2. k \in 1 .. Len(r) /\ k < n /\ ~ (n <= k)
  BY DEF Tree
<1>3. CASE b = r[k]
  BY <1>2, <1>3, HeaderIsEarlier
<1>4. CASE r[k] \in hs /\ b \in NaturalLoop(g, r[k])
  <2>1. NaturalLoop(g, r[n]) \subseteq NaturalLoop(g, r[k])
    BY <1>2, <1>4, LoopsInOrder
  <2>2. r[n] \in NaturalLoop(g, r[n])
    BY InNaturalLoop
  <2> QED BY <1>4, <2>1, <2>2, PlacedMeans
<1> QED BY <1>1, <1>3, <1>4

\* One that is in the row is in a loop that is, with its own.
LEMMA LoopIsOld ==
  ASSUME NEW g, NEW r, NEW hs, NEW ls, Tree(g, r, hs, ls), NEW n \in 1 .. Len(r),
         r[n] \in PlacedBy(g, r, hs, n - 1)
  PROVE  NaturalLoop(g, r[n]) \subseteq PlacedBy(g, r, hs, n - 1)
<1>1. PICK k \in 1 .. n - 1 : r[n] = r[k] \/ (r[k] \in hs /\ r[n] \in NaturalLoop(g, r[k]))
  BY PlacedMeans
<1>2. k \in 1 .. Len(r) /\ k < n /\ k # n
  BY DEF Tree
<1>3. r[n] # r[k]
  BY <1>2 DEF Tree
<1>4. r[n] \in NaturalLoop(g, r[n])
  BY InNaturalLoop
<1>5. NaturalLoop(g, r[n]) \subseteq NaturalLoop(g, r[k])
  BY <1>1, <1>2, <1>3, <1>4, LoopsInOrder
<1> QED BY <1>1, <1>3, <1>5, PlacedMeans

\* An edge that is no back edge comes from a block that is in the row.
LEMMA PredsArePlaced ==
  ASSUME NEW g, NEW r, NEW hs, NEW ls, Tree(g, r, hs, ls), NEW n \in 1 .. Len(r),
         NEW a \in BasicBlock, r[n] \in Succs(Ahead(g), a)
  PROVE  a \in PlacedBy(g, r, hs, n - 1)
<1>1. r[n] \in Succs(g, a) /\ <<a, r[n]>> \notin BackEdges(g)
  BY AheadSuccs DEF Tree
<1>2. PICK k \in 1 .. Len(r) : r[k] = a
  BY DEF Tree, Elements
<1>3. ~ (k >= n)
  BY <1>1, <1>2 DEF Tree
<1>4. k \in 1 .. n - 1
  BY <1>3 DEF Tree
<1> QED BY <1>2, <1>4, PlacedMeans

LEMMA RootIsFirst ==
  ASSUME NEW g, NEW r, NEW hs, NEW ls, Tree(g, r, hs, ls)
  PROVE  Len(r) \in Nat \ {0} /\ r[1] = root
<1>1. PICK k \in 1 .. Len(r) : r[k] = root
  BY RootAssumption DEF Tree, Elements
<1>2. Len(r) \in Nat \ {0} /\ 1 \in 1 .. Len(r)
  BY <1>1 DEF Tree
<1>3. r[1] \in BasicBlock /\ g \in BuiltGraphs /\ Reachable(g) = BasicBlock
  BY <1>2, StructuredMeans DEF Tree
<1>4. r[1] \notin Reach(g, root, {root})
  BY DEF Reach
<1>5. <<r[k], r[1]>> \in Dominance(g)
  BY <1>1, <1>3, <1>4, RootAssumption, DominanceIsCut
<1>6. k <= 1
  BY <1>2, <1>5 DEF Tree
<1> QED BY <1>1, <1>2, <1>6

\* IsRow of given blocks, and one row after the other.
RowOf(g, s, hs) == s \in Seq(BasicBlock) /\ Distinct(s) /\ Flow(g, s, 1, hs)

LEMMA RowsJoin ==
  ASSUME NEW g, NEW hs, NEW s, RowOf(g, s, hs), NEW t \in Seq(BasicBlock), Distinct(t), t # <<>>,
         Elements(t) \cap Elements(s) = {}, NEW in \in SUBSET hs, in \cap Elements(s) = {},
         Flow(g, t, 2, in),
         \A a \in BasicBlock : t[1] \in Succs(Ahead(g), a) => a \in Elements(s)
  PROVE  /\ RowOf(g, s \o t, hs) /\ Elements(s \o t) = Elements(s) \cup Elements(t)
         /\ (s \o t)[1] = IF s = <<>> THEN t[1] ELSE s[1]
<1> DEFINE u == s \o t
<1>0. /\ s \in Seq(BasicBlock) /\ u \in Seq(BasicBlock) /\ Len(s) \in Nat /\ Len(t) \in Nat \ {0}
      /\ Len(u) = Len(s) + Len(t)
      /\ \A k \in 1 .. Len(s) : u[k] = s[k]
      /\ \A k \in 1 .. Len(t) : u[Len(s) + k] = t[k]
  BY ConcatElements DEF RowOf
<1> HIDE DEF u
<1>1. \A k \in 1 .. Len(u) : k \in 1 .. Len(s) \/ (k - Len(s) \in 1 .. Len(t) /\ u[k] = t[k - Len(s)])
  <2> SUFFICES ASSUME NEW k \in 1 .. Len(u), k \notin 1 .. Len(s)
               PROVE  k - Len(s) \in 1 .. Len(t) /\ u[k] = t[k - Len(s)]
    OBVIOUS
  <2>1. k - Len(s) \in 1 .. Len(t) /\ k = Len(s) + (k - Len(s))
    BY <1>0
  <2> QED BY <1>0, <2>1
<1>2. \A k \in 1 .. Len(t) : Len(s) + k \in 1 .. Len(u)
  BY <1>0
<1>3. \A k \in 1 .. Len(s) : k \in 1 .. Len(u)
  BY <1>0
<1>4. Elements(u) = Elements(s) \cup Elements(t)
  <2>1. Elements(u) \subseteq Elements(s) \cup Elements(t)
    <3> SUFFICES ASSUME NEW k \in 1 .. Len(u) PROVE u[k] \in Elements(s) \cup Elements(t)
      BY DEF Elements
    <3>1. CASE k \in 1 .. Len(s)
      BY <1>0, <3>1 DEF Elements
    <3>2. CASE k \notin 1 .. Len(s)
      BY <1>1, <3>2 DEF Elements
    <3> QED BY <3>1, <3>2
  <2>2. Elements(s) \subseteq Elements(u)
    BY <1>0, <1>3 DEF Elements
  <2>3. Elements(t) \subseteq Elements(u)
    BY <1>0, <1>2 DEF Elements
  <2> QED BY <2>1, <2>2, <2>3
<1>5. Distinct(u)
  <2> SUFFICES ASSUME NEW j \in 1 .. Len(u), NEW k \in 1 .. Len(u), u[j] = u[k] PROVE j = k
    BY DEF Distinct
  <2>1. CASE j \in 1 .. Len(s) /\ k \in 1 .. Len(s)
    BY <1>0, <2>1 DEF RowOf, Distinct
  <2>2. CASE j \notin 1 .. Len(s) /\ k \notin 1 .. Len(s)
    <3>1. j - Len(s) = k - Len(s)
      BY <1>1, <2>2 DEF Distinct
    <3> QED BY <1>0, <3>1
  <2>3. CASE j \in 1 .. Len(s) /\ k \notin 1 .. Len(s)
    <3>1. u[j] \in Elements(s) /\ u[k] \in Elements(t)
      BY <1>0, <1>1, <2>3 DEF Elements
    <3> QED BY <3>1
  <2>4. CASE j \notin 1 .. Len(s) /\ k \in 1 .. Len(s)
    <3>1. u[k] \in Elements(s) /\ u[j] \in Elements(t)
      BY <1>0, <1>1, <2>4 DEF Elements
    <3> QED BY <3>1
  <2> QED BY <2>1, <2>2, <2>3, <2>4
<1>6. \A a \in Elements(s) : \E j \in 1 .. Len(s) : s[j] = a
  BY DEF Elements
<1>7. ASSUME NEW k \in 1 .. Len(u)
      PROVE  \/ \E h \in hs : u[k] \in NaturalLoop(g, h) /\ \A j \in 1 .. k : u[j] # h
             \/ \A a \in BasicBlock : u[k] \in Succs(Ahead(g), a) => \E j \in 1 .. k - 1 : u[j] = a
  <2>1. CASE k \in 1 .. Len(s)
    <3>1. /\ \A j \in 1 .. k : u[j] = s[j]
          /\ \A j \in 1 .. k - 1 : u[j] = s[j]
          /\ u[k] = s[k]
      BY <1>0, <2>1
    <3>2. \/ \E h \in hs : s[k] \in NaturalLoop(g, h) /\ \A j \in 1 .. k : s[j] # h
          \/ \A a \in BasicBlock : s[k] \in Succs(Ahead(g), a) => \E j \in 1 .. k - 1 : s[j] = a
      BY <2>1 DEF RowOf, Flow
    <3> QED BY <3>1, <3>2
  <2>2. CASE k = Len(s) + 1
    <3>1. u[k] = t[1]
      BY <1>0, <2>2
    <3>2. \A j \in 1 .. Len(s) : j \in 1 .. k - 1 /\ u[j] = s[j]
      BY <1>0, <2>2
    <3> QED BY <1>6, <3>1, <3>2
  <2>3. CASE k \notin 1 .. Len(s) /\ k # Len(s) + 1
    <3> DEFINE i == k - Len(s)
    <3>1. i \in 2 .. Len(t) /\ u[k] = t[i]
      BY <1>0, <1>1, <2>3
    <3>2. \A j \in 1 .. k : u[j] \in Elements(s) \/ \E m \in 1 .. i : u[j] = t[m]
      <4> SUFFICES ASSUME NEW j \in 1 .. k, j \notin 1 .. Len(s)
                   PROVE  \E m \in 1 .. i : u[j] = t[m]
        BY <1>0 DEF Elements
      <4>1. j - Len(s) \in 1 .. i /\ j \in 1 .. Len(u)
        BY <1>0, <3>1
      <4> QED BY <1>1, <4>1
    <3>3. \A m \in 1 .. i - 1 : Len(s) + m \in 1 .. k - 1 /\ u[Len(s) + m] = t[m]
      BY <1>0, <3>1
    <3>4. CASE \E h \in in : t[i] \in NaturalLoop(g, h) /\ \A j \in 1 .. i : t[j] # h
      <4>1. PICK h \in in : t[i] \in NaturalLoop(g, h) /\ \A j \in 1 .. i : t[j] # h
        BY <3>4
      <4>2. h \in hs /\ h \notin Elements(s)
        BY <4>1
      <4>3. \A j \in 1 .. k : u[j] # h
        BY <3>2, <4>1, <4>2
      <4> QED BY <3>1, <4>1, <4>2, <4>3
    <3>5. CASE \A a \in BasicBlock : t[i] \in Succs(Ahead(g), a) => \E j \in 1 .. i - 1 : t[j] = a
      <4> SUFFICES ASSUME NEW a \in BasicBlock, u[k] \in Succs(Ahead(g), a)
                   PROVE  \E j \in 1 .. k - 1 : u[j] = a
        OBVIOUS
      <4>1. PICK m \in 1 .. i - 1 : t[m] = a
        BY <3>1, <3>5
      <4> QED BY <3>3, <4>1
    <3> QED BY <3>1, <3>4, <3>5 DEF Flow
  <2> QED BY <1>0, <2>1, <2>2, <2>3
<1>8. RowOf(g, u, hs)
  BY <1>0, <1>5, <1>7 DEF RowOf, Flow
<1>9. u[1] = IF s = <<>> THEN t[1] ELSE s[1]
  <2>1. CASE s = <<>>
    BY <1>0, <2>1
  <2>2. CASE s # <<>>
    <3>1. 1 \in 1 .. Len(s)
      BY <1>0, <2>2
    <3> QED BY <1>0, <2>2, <3>1
  <2> QED BY <2>1, <2>2
<1> QED BY <1>4, <1>8, <1>9 DEF u

(***************************************************************************)
(* The steps, and the shape of the state.                                  *)
(***************************************************************************)

LEMMA LifeStepsAreTreeSteps ==
  /\ LifeNext => [Next]_vars
  /\ LifeNext /\ stage # "loops" => UNCHANGED vars
  /\ UNCHANGED <<vars, lifeVars>> => UNCHANGED vars
BY DEF LifeNext, LoopTreeStep, StartLinear, AlreadyPlaced, PlaceLoop, PlaceBlock, OrderReturn,
   NumberBlock, ReverseOrder, EnterBlock, SkipPhi, Unexpected, VisitInstr, LeaveBlock, LifeReturn,
   InOrder, InBlock

LEMMA ProgramTypes ==
  ASSUME LifeTypeOK
  PROVE  /\ \A b \in BasicBlock :
              /\ Code(b) \in Seq(Instr) /\ Len(Code(b)) \in Nat /\ Length(b) \in Nat
              /\ DOMAIN Code(b) = 1 .. Len(Code(b)) /\ Length(b) = 2 * Len(Code(b))
              /\ \A k \in 1 .. Len(Code(b)) : Code(b)[k] \in Instr
              /\ ToSet(Code(b)) = {Code(b)[k] : k \in 1 .. Len(Code(b))}
         /\ \A i \in Instr : ToSet(program.operands[i]) \subseteq Instr
         /\ \A i \in Instr : program.phi_nodes[i] \subseteq Instr \X BasicBlock
<1>1. /\ \A b \in BasicBlock : program.code[b] \in Seq(Instr)
      /\ \A i \in Instr : program.operands[i] \in Seq(Instr)
      /\ program.phi_nodes \in [Instr -> SUBSET (Instr \X BasicBlock)]
  BY ProgramsAssumption DEF LifeTypeOK
<1>2. ASSUME NEW b \in BasicBlock
      PROVE  /\ Code(b) \in Seq(Instr) /\ Len(Code(b)) \in Nat /\ Length(b) \in Nat
             /\ DOMAIN Code(b) = 1 .. Len(Code(b)) /\ Length(b) = 2 * Len(Code(b))
             /\ \A k \in 1 .. Len(Code(b)) : Code(b)[k] \in Instr
             /\ ToSet(Code(b)) = {Code(b)[k] : k \in 1 .. Len(Code(b))}
  <2>1. Code(b) \in Seq(Instr)
    BY <1>1 DEF Code
  <2>2. PICK s \in Seq(Instr) : s = Code(b)
    BY <2>1
  <2>3. /\ Len(s) \in Nat /\ DOMAIN s = 1 .. Len(s) /\ \A k \in 1 .. Len(s) : s[k] \in Instr
        /\ 2 * Len(s) \in Nat
    BY <2>2
  <2> QED BY <2>2, <2>3 DEF Length, kLifetimeStep, ToSet
<1>3. ASSUME NEW i \in Instr PROVE ToSet(program.operands[i]) \subseteq Instr
  <2>1. PICK s \in Seq(Instr) : s = program.operands[i]
    BY <1>1
  <2> QED BY <2>1 DEF ToSet
<1> QED BY <1>1, <1>2, <1>3

LEMMA InitLifeType == LifeInit => LifeTypeOK /\ Init
<1> SUFFICES ASSUME LifeInit PROVE LifeTypeOK /\ Init
  OBVIOUS
<1>1. Init
  BY ProgramsAssumption DEF LifeInit, Init
<1>2. DOMAIN intervals = {}
  BY DEF LifeInit, NoRanges
<1>3. stage = "loops"
  BY DEF LifeInit
<1> QED BY <1>1, <1>2, <1>3 DEF LifeInit, LifeTypeOK

\* The blocks of a loop.
LEMMA LoopBlocks ==
  ASSUME TypeOK, NEW h \in DOMAIN loops
  PROVE  loops[h].basic_blocks \in Seq(BasicBlock)
BY LoopTypes DEF TypeOK

LEMMA RowStepsKeepType ==
  ASSUME Core, LifeTypeOK,
         StartLinear \/ AlreadyPlaced \/ PlaceLoop \/ PlaceBlock \/ OrderReturn \/ ReverseOrder
  PROVE  LifeTypeOK'
<1>1. /\ program' = program /\ bb_lifetime' = bb_lifetime /\ m_bb_lifetimes' = m_bb_lifetimes
      /\ live' = live /\ bb_live' = bb_live /\ intervals' = intervals
      /\ phase' = phase /\ rpo_vector' = rpo_vector /\ phase = "done"
  BY DEF StartLinear, AlreadyPlaced, PlaceLoop, PlaceBlock, OrderReturn, ReverseOrder, InOrder, Done,
     LifeTypeOK, vars, rpoVars, programVars, resultVars, blockVars
<1>2. place' \in Nat \ {0}
  <2>1. place' = 1 \/ (place' = place + 1 /\ stage # "loops")
    BY DEF StartLinear, AlreadyPlaced, PlaceLoop, PlaceBlock, OrderReturn, ReverseOrder, InOrder
  <2> QED BY <2>1 DEF LifeTypeOK
<1>3. order' \in Seq(BasicBlock)
  <2>1. order \in Seq(BasicBlock)
    BY DEF LifeTypeOK
  <2>2. CASE order' = order
    BY <2>1, <2>2
  <2>3. CASE PlaceLoop
    <3>1. order' = order \o loops[Block].basic_blocks /\ Block \in DOMAIN loops
      BY <2>3 DEF PlaceLoop, IsReducibleHeader
    <3>2. loops[Block].basic_blocks \in Seq(BasicBlock)
      BY <3>1, LoopBlocks DEF Core
    <3> QED BY <2>1, <3>1, <3>2, ConcatElements
  <2>4. CASE PlaceBlock
    <3>1. order' = Append(order, Block) /\ place <= Len(rpo_vector) /\ place \in Nat \ {0}
      BY <2>4 DEF PlaceBlock, InOrder, LifeTypeOK
    <3>2. rpo_vector \in Seq(BasicBlock)
      BY <1>1, AfterRpo
    <3>3. Block \in BasicBlock
      BY <3>1, <3>2 DEF Block
    <3> QED BY <2>1, <3>1, <3>3
  <2>5. CASE ReverseOrder
    <3>1. order' = Reverse(order)
      BY <2>5 DEF ReverseOrder
    <3> QED BY <2>1, <3>1 DEF Reverse
  <2> QED BY <2>2, <2>3, <2>4, <2>5 DEF StartLinear, AlreadyPlaced, OrderReturn
<1>4. stage' \in {"linear", "number"} \/ (stage' = "blocks" /\ place' = 1 /\ Len(order') \in Nat)
  <2>1. stage' \in {"linear", "number"} \/ (stage' = "blocks" /\ place' = 1)
    BY DEF StartLinear, AlreadyPlaced, PlaceLoop, PlaceBlock, OrderReturn, ReverseOrder, InOrder
  <2> QED BY <1>3, <2>1
<1> QED BY <1>1, <1>2, <1>3, <1>4 DEF LifeTypeOK

LEMMA BlockOfRow ==
  ASSUME LifeTypeOK, stage # "loops", place <= Len(order)
  PROVE  place \in 1 .. Len(order) /\ Len(order) \in Nat /\ Current \in BasicBlock /\ Current = order[place]
<1>1. place \in 1 .. Len(order) /\ Len(order) \in Nat /\ order \in Seq(BasicBlock)
  BY DEF LifeTypeOK
<1> QED BY <1>1 DEF Current

LEMMA NumberBlockKeepsType == LifeTypeOK /\ NumberBlock => LifeTypeOK'
<1> SUFFICES ASSUME LifeTypeOK, NumberBlock PROVE LifeTypeOK'
  OBVIOUS
<1>1. /\ stage = "number" /\ stage' = "number" /\ place <= Len(order) /\ place' = place + 1
      /\ m_bb_lifetimes' = [m_bb_lifetimes EXCEPT ![order[place]] = bb_lifetime]
      /\ bb_lifetime' = bb_lifetime + Length(order[place])
      /\ program' = program /\ order' = order /\ live' = live /\ bb_live' = bb_live
      /\ intervals' = intervals /\ phase' = phase
  BY DEF NumberBlock, vars, resultVars, blockVars
<1>2. order[place] \in BasicBlock /\ Length(order[place]) \in Nat /\ place \in Nat
  BY <1>1, BlockOfRow, ProgramTypes
<1> QED BY <1>1, <1>2 DEF LifeTypeOK

LEMMA InsideBlock ==
  ASSUME LifeTypeOK, stage = "instrs"
  PROVE  /\ place \in 1 .. Len(order) /\ Len(order) \in Nat
         /\ Current \in BasicBlock /\ Current = order[place]
         /\ Len(Code(Current)) \in Nat /\ at \in 0 .. Len(Code(Current))
         /\ InBlock => at \in 1 .. Len(Code(Current)) /\ This = Code(Current)[at] /\ This \in Instr
<1>1. place <= Len(order) /\ at \in 0 .. Len(Code(Current))
  BY DEF LifeTypeOK
<1>2. /\ place \in 1 .. Len(order) /\ Len(order) \in Nat
      /\ Current \in BasicBlock /\ Current = order[place]
  BY <1>1, BlockOfRow
<1>3. Len(Code(Current)) \in Nat
  BY <1>2, ProgramTypes
<1>4. InBlock => at \in 1 .. Len(Code(Current))
  BY <1>1, <1>3 DEF InBlock
<1>5. InBlock => This \in Instr
  BY <1>2, <1>4, ProgramTypes DEF This
<1> QED BY <1>1, <1>2, <1>3, <1>4, <1>5 DEF This

\* What the blocks behind a block need is one of the instructions.
LEMMA NeededAreInstrs ==
  ASSUME LifeTypeOK, NEW b, NEW s \in BasicBlock
  PROVE  SuccLiveIn(b, s) \subseteq Instr
<1>1. live[s] \subseteq Instr
  BY DEF LifeTypeOK
<1>2. Phis(s) \subseteq Instr
  BY ProgramTypes DEF Phis
<1>3. \A i \in Phis(s) : program.phi_nodes[i] \subseteq Instr \X BasicBlock
  BY <1>2, ProgramTypes
<1>4. \A n \in UNION {program.phi_nodes[i] : i \in Phis(s)} : n[1] \in Instr
  BY <1>3
<1> QED BY <1>1, <1>4 DEF SuccLiveIn

LEMMA BlockStepsKeepType ==
  ASSUME Core, LifeTypeOK, EnterBlock \/ SkipPhi \/ Unexpected \/ VisitInstr \/ LeaveBlock \/ LifeReturn
  PROVE  LifeTypeOK'
<1>1. /\ program' = program /\ bb_lifetime' = bb_lifetime /\ m_bb_lifetimes' = m_bb_lifetimes
      /\ phase' = phase /\ order' = order /\ stage # "loops" /\ stage' # "loops"
  BY DEF EnterBlock, SkipPhi, Unexpected, VisitInstr, LeaveBlock, LifeReturn, InBlock,
     vars, programVars
<1>2. place' \in Nat \ {0} /\ phase = "done"
  <2>1. place' = place \/ place' = place + 1
    BY DEF EnterBlock, SkipPhi, Unexpected, VisitInstr, LeaveBlock, LifeReturn
  <2> QED BY <1>1, <2>1 DEF LifeTypeOK
<1>0. /\ stage' \in {"blocks", "done"} => place' <= Len(order') + 1
      /\ stage' = "instrs" => place' <= Len(order') /\ at' \in 0 .. Len(Code(Current)')
      /\ stage' = "done" => place' > Len(order')
  <2>1. CASE EnterBlock
    <3>1. /\ stage = "blocks" /\ stage' = "instrs" /\ place <= Len(order) /\ place' = place
          /\ at' = Len(Code(Current)) /\ Current' = Current
      BY <1>1, <2>1 DEF EnterBlock, Current
    <3>2. Code(Current)' = Code(Current)
      BY <1>1, <3>1 DEF Code
    <3>3. Len(Code(Current)) \in Nat
      BY <3>1, BlockOfRow, ProgramTypes
    <3> QED BY <1>1, <3>1, <3>2, <3>3
  <2>2. CASE SkipPhi \/ VisitInstr
    <3>1. /\ stage = "instrs" /\ stage' = "instrs" /\ place' = place /\ at > 0 /\ at' = at - 1
          /\ Current' = Current
      <4>1. stage' = stage /\ place' = place /\ order' = order /\ InBlock /\ at' = at - 1
        BY <1>1, <2>2 DEF SkipPhi, VisitInstr
      <4> QED BY <4>1 DEF InBlock, Current
    <3>2. Code(Current)' = Code(Current)
      BY <1>1, <3>1 DEF Code
    <3>3. place <= Len(order) /\ at \in 0 .. Len(Code(Current))
      BY <3>1 DEF LifeTypeOK
    <3>4. Len(Code(Current)) \in Nat
      BY <3>1, <3>3, BlockOfRow, ProgramTypes
    <3>5. at - 1 \in 0 .. Len(Code(Current))
      BY <3>1, <3>3, <3>4
    <3> QED BY <1>1, <3>1, <3>2, <3>3, <3>5
  <2>3. CASE Unexpected
    BY <2>3 DEF Unexpected
  <2>4. CASE LeaveBlock
    <3>1. stage = "instrs" /\ stage' = "blocks" /\ place' = place + 1 /\ place <= Len(order)
      BY <2>4 DEF LeaveBlock, LifeTypeOK
    <3> QED BY <1>1, <3>1, BlockOfRow
  <2>5. CASE LifeReturn
    <3>1. stage = "blocks" /\ stage' = "done" /\ place' = place /\ place > Len(order)
      BY <2>5 DEF LifeReturn
    <3> QED BY <1>1, <3>1 DEF LifeTypeOK
  <2> QED BY <2>1, <2>2, <2>3, <2>4, <2>5
<1>3. CASE SkipPhi \/ Unexpected \/ LifeReturn
  <2>1. live' = live /\ bb_live' = bb_live /\ intervals' = intervals
    BY <1>3 DEF SkipPhi, Unexpected, LifeReturn, resultVars, blockVars
  <2> QED BY <1>0, <1>1, <1>2, <2>1 DEF LifeTypeOK
<1>4. CASE EnterBlock
  <2>1. /\ live' = live /\ place <= Len(order)
        /\ bb_live' = UNION {SuccLiveIn(Current, s) : s \in Succs(m_succs, Current)}
        /\ intervals' = [i \in bb_live' |-> <<First(Current), End(Current)>>]
    BY <1>4 DEF EnterBlock, resultVars
  <2>2. Succs(m_succs, Current) \subseteq BasicBlock
    BY <1>1, <2>1, BlockOfRow, SuccsAreBlocks, GraphIsBuilt DEF Core
  <2>3. bb_live' \subseteq Instr /\ DOMAIN intervals' = bb_live'
    BY <2>1, <2>2, NeededAreInstrs
  <2> QED BY <1>0, <1>1, <1>2, <2>1, <2>3 DEF LifeTypeOK
<1>5. CASE VisitInstr
  <2> DEFINE new == ToSet(program.operands[This]) \ DOMAIN intervals
  <2>1. /\ live' = live /\ stage = "instrs" /\ at > 0
        /\ DOMAIN intervals' = DOMAIN intervals \cup new
        /\ bb_live' = (bb_live \ {This}) \cup new
    BY <1>5 DEF VisitInstr, InBlock, resultVars
  <2>2. This \in Instr
    BY <2>1, InsideBlock DEF InBlock
  <2>3. new \subseteq Instr
    BY <2>2, ProgramTypes
  <2> QED BY <1>0, <1>1, <1>2, <2>1, <2>3 DEF LifeTypeOK
<1>6. CASE LeaveBlock
  <2>1. /\ live' = [live EXCEPT ![Current] = LiveAtStart]
        /\ bb_live' = bb_live /\ intervals' = intervals
    BY <1>6 DEF LeaveBlock, blockVars
  <2>2. LiveAtStart \subseteq Instr
    BY DEF LiveAtStart, LifeTypeOK
  <2> QED BY <1>0, <1>1, <1>2, <2>1, <2>2 DEF LifeTypeOK
<1> QED BY <1>3, <1>4, <1>5, <1>6

LEMMA NextKeepsLifeType == Core /\ LifeTypeOK /\ [LifeNext]_<<vars, lifeVars>> => LifeTypeOK'
<1> SUFFICES ASSUME Core, LifeTypeOK, [LifeNext]_<<vars, lifeVars>> PROVE LifeTypeOK'
  OBVIOUS
<1>1. CASE LoopTreeStep
  <2>1. stage = "loops" /\ stage' = "loops" /\ UNCHANGED lifeVars
    BY <1>1 DEF LoopTreeStep, lifeVars
  <2> QED BY <2>1 DEF LifeTypeOK, lifeVars, programVars, blockVars, resultVars
<1>2. CASE UNCHANGED <<vars, lifeVars>>
  <2>1. phase' = phase /\ UNCHANGED lifeVars
    BY <1>2 DEF vars
  <2> QED BY <2>1 DEF LifeTypeOK, lifeVars, programVars, blockVars, resultVars, Current, Code
<1> QED BY <1>1, <1>2, RowStepsKeepType, NumberBlockKeepsType, BlockStepsKeepType DEF LifeNext

(***************************************************************************)
(* Every block is in the row, once.                                        *)
(***************************************************************************)

LEMMA RowMeans ==
  /\ \A s : IsRow(s) <=> RowOf(m_succs, s, Headers)
  /\ \A n : Placed(n) = PlacedBy(m_succs, rpo_vector, Headers, n)
BY DEF IsRow, RowOf, InFlow, Flow, Forward, Ahead, Distinct, Placed, PlacedBy

LEMMA EmptyRow ==
  ASSUME NEW g, NEW r, NEW hs
  PROVE  RowOf(g, <<>>, hs) /\ Elements(<<>>) = {} /\ PlacedBy(g, r, hs, 0) = {}
<1>1. Len(<<>>) = 0 /\ <<>> \in Seq(BasicBlock) /\ 1 .. 0 = {}
  OBVIOUS
<1> QED BY <1>1 DEF RowOf, Distinct, Flow, Elements, PlacedBy

LEMMA PlacedUpTo ==
  ASSUME NEW g, NEW r, NEW hs, NEW n \in Nat \ {0}
  PROVE  PlacedBy(g, r, hs, n) =
           PlacedBy(g, r, hs, n - 1) \cup (IF r[n] \in hs THEN NaturalLoop(g, r[n]) ELSE {r[n]})
<1>1. PICK m : m = n - 1
  OBVIOUS
<1>2. m \in Nat /\ m + 1 = n
  BY <1>1
<1>3. PlacedBy(g, r, hs, m + 1) =
        PlacedBy(g, r, hs, m) \cup (IF r[m + 1] \in hs THEN NaturalLoop(g, r[m + 1]) ELSE {r[m + 1]})
  BY <1>2, PlacedNext
<1> QED BY <1>1, <1>2, <1>3

\* The n-th block of the order brings in what is new.
LEMMA RowGrows ==
  ASSUME NEW g, NEW r, NEW hs, NEW ls, Tree(g, r, hs, ls), NEW n \in 1 .. Len(r),
         NEW s, RowOf(g, s, hs), Elements(s) = PlacedBy(g, r, hs, n - 1),
         n > 1 => s # <<>> /\ s[1] = root, r[n] \notin PlacedBy(g, r, hs, n - 1),
         NEW t, t = IF r[n] \in hs THEN ls[r[n]].basic_blocks ELSE <<r[n]>>
  PROVE  /\ RowOf(g, s \o t, hs) /\ Elements(s \o t) = Elements(s) \cup Elements(t)
         /\ Elements(s \o t) = PlacedBy(g, r, hs, n)
         /\ s \o t # <<>> /\ (s \o t)[1] = root
<1>0. Len(r) \in Nat /\ n \in Nat \ {0} /\ r[n] \in BasicBlock
  BY DEF Tree
<1>1. /\ t \in Seq(BasicBlock) /\ Distinct(t) /\ t # <<>> /\ t[1] = r[n]
      /\ Elements(t) = IF r[n] \in hs THEN NaturalLoop(g, r[n]) ELSE {r[n]}
      /\ Flow(g, t, 2, IF r[n] \in hs THEN hs \cap NaturalLoop(g, r[n]) ELSE {})
  <2>1. CASE r[n] \in hs
    <3>1. t \in Seq(BasicBlock) /\ Natural(g, r[n], t) /\ Flow(g, t, 2, hs \cap NaturalLoop(g, r[n]))
      BY <2>1 DEF Tree
    <3>2. r[n] \in NaturalLoop(g, r[n])
      BY InNaturalLoop
    <3>3. t # <<>>
      BY <3>1, <3>2, EmptyRow DEF Natural
    <3> QED BY <2>1, <3>1, <3>3 DEF Natural
  <2>2. CASE r[n] \notin hs
    <3>1. t = <<r[n]>>
      BY <2>2
    <3>2. Len(t) = 1 /\ t[1] = r[n] /\ t \in Seq(BasicBlock) /\ t # <<>>
      <4>1. \A b \in BasicBlock : Len(<<b>>) = 1 /\ <<b>>[1] = b /\ <<b>> \in Seq(BasicBlock) /\ <<b>> # <<>>
        OBVIOUS
      <4> QED BY <1>0, <3>1, <4>1
    <3>3. Distinct(t) /\ Elements(t) = {r[n]}
      BY <3>2 DEF Distinct, Elements
    <3>4. Flow(g, t, 2, {})
      BY <3>1, ShortFlows
    <3> QED BY <2>2, <3>2, <3>3, <3>4
  <2> QED BY <2>1, <2>2
<1> DEFINE in == IF r[n] \in hs THEN hs \cap NaturalLoop(g, r[n]) ELSE {}
<1>2. Elements(t) \cap Elements(s) = {}
  <2>1. CASE r[n] \in hs
    BY <1>1, <2>1, LoopIsNew
  <2>2. CASE r[n] \notin hs
    BY <1>1, <2>2
  <2> QED BY <2>1, <2>2
<1>3. in \in SUBSET hs /\ in \cap Elements(s) = {}
  BY <1>1, <1>2
<1>4. \A a \in BasicBlock : t[1] \in Succs(Ahead(g), a) => a \in Elements(s)
  BY <1>1, PredsArePlaced
<1>5. Flow(g, t, 2, in)
  BY <1>1
<1> HIDE DEF in
<1>6. /\ RowOf(g, s \o t, hs) /\ Elements(s \o t) = Elements(s) \cup Elements(t)
      /\ (s \o t)[1] = IF s = <<>> THEN t[1] ELSE s[1]
  <2>1. t \in Seq(BasicBlock) /\ Distinct(t) /\ t # <<>>
    BY <1>1
  <2>2. in \in SUBSET hs
    BY <1>3
  <2>3. in \cap Elements(s) = {}
    BY <1>3
  <2> QED BY ONLY RowOf(g, s, hs), <2>1, <1>2, <2>2, <2>3, <1>4, <1>5, RowsJoin
<1>7. PlacedBy(g, r, hs, n) = PlacedBy(g, r, hs, n - 1) \cup Elements(t)
  <2>1. PlacedBy(g, r, hs, n) =
          PlacedBy(g, r, hs, n - 1) \cup (IF r[n] \in hs THEN NaturalLoop(g, r[n]) ELSE {r[n]})
    BY ONLY <1>0, PlacedUpTo
  <2> QED BY <1>1, <2>1
<1>8. (s \o t)[1] = root
  <2>1. CASE n = 1
    <3>1. s = <<>>
      <4>1. Elements(s) = {} /\ s \in Seq(BasicBlock)
        BY <2>1, EmptyRow DEF RowOf
      <4>2. Len(s) = 0
        <5> SUFFICES ASSUME Len(s) # 0 PROVE FALSE
          OBVIOUS
        <5>1. 1 \in 1 .. Len(s)
          BY <4>1
        <5> QED BY <4>1, <5>1 DEF Elements
      <4> QED BY <4>1, <4>2
    <3> QED BY <1>1, <1>6, <2>1, <3>1, RootIsFirst
  <2>2. CASE n # 1
    BY <1>0, <1>6, <2>2
  <2> QED BY <2>1, <2>2
<1>9. s \o t # <<>>
  BY <1>0, <1>1, <1>6, EmptyRow
<1> QED BY <1>6, <1>7, <1>8, <1>9

LEMMA RowStays ==
  ASSUME NEW g, NEW r, NEW hs, NEW ls, Tree(g, r, hs, ls), NEW n \in 1 .. Len(r),
         r[n] \in PlacedBy(g, r, hs, n - 1)
  PROVE  PlacedBy(g, r, hs, n) = PlacedBy(g, r, hs, n - 1) /\ n > 1
<1>0. Len(r) \in Nat /\ n \in Nat \ {0}
  BY DEF Tree
<1>1. PlacedBy(g, r, hs, n) =
        PlacedBy(g, r, hs, n - 1) \cup (IF r[n] \in hs THEN NaturalLoop(g, r[n]) ELSE {r[n]})
  BY ONLY <1>0, PlacedUpTo
<1>2. NaturalLoop(g, r[n]) \subseteq PlacedBy(g, r, hs, n - 1)
  BY LoopIsOld
<1>3. n # 1
  BY EmptyRow
<1> QED BY <1>0, <1>1, <1>2, <1>3

LEMMA RowIsWhole ==
  ASSUME NEW g, NEW r, NEW hs, NEW ls, Tree(g, r, hs, ls)
  PROVE  PlacedBy(g, r, hs, Len(r)) = BasicBlock
<1>1. \A h : NaturalLoop(g, h) \subseteq BasicBlock \cup {h}
  BY DEF NaturalLoop
<1>2. PlacedBy(g, r, hs, Len(r)) \subseteq BasicBlock
  BY <1>1 DEF PlacedBy, Tree
<1>3. \A b \in BasicBlock : \E k \in 1 .. Len(r) : r[k] = b
  BY DEF Tree, Elements
<1> QED BY <1>2, <1>3 DEF PlacedBy

LEMMA ReverseProperties ==
  ASSUME NEW S, NEW s \in Seq(S)
  PROVE  /\ Reverse(s) \in Seq(S) /\ Len(Reverse(s)) = Len(s) /\ Reverse(Reverse(s)) = s
         /\ \A k \in 1 .. Len(s) : Reverse(s)[k] = s[(Len(s) - k) + 1]
         /\ Elements(Reverse(s)) = Elements(s)
<1> DEFINE t == Reverse(s)
<1>0. Len(s) \in Nat /\ \A k \in 1 .. Len(s) : (Len(s) - k) + 1 \in 1 .. Len(s) /\ (Len(s) - ((Len(s) - k) + 1)) + 1 = k
  OBVIOUS
<1>1. t = [k \in 1 .. Len(s) |-> s[(Len(s) - k) + 1]]
  BY DEF Reverse
<1>2. t \in Seq(S) /\ Len(t) = Len(s)
  BY <1>0, <1>1
<1>3. \A k \in 1 .. Len(s) : t[k] = s[(Len(s) - k) + 1]
  BY <1>1
<1>4. Reverse(t) = [k \in 1 .. Len(t) |-> t[(Len(t) - k) + 1]]
  BY DEF Reverse
<1> HIDE DEF t
<1>5. \A k \in 1 .. Len(s) : t[(Len(s) - k) + 1] = s[k]
  BY <1>0, <1>3
<1>6. Reverse(t) = s
  <2>1. Reverse(t) = [k \in 1 .. Len(s) |-> s[k]]
    BY <1>2, <1>4, <1>5
  <2>2. s = [k \in 1 .. Len(s) |-> s[k]]
    OBVIOUS
  <2> QED BY <2>1, <2>2
<1>7. Elements(t) = Elements(s)
  <2>1. ASSUME NEW k \in 1 .. Len(t) PROVE t[k] \in Elements(s)
    BY <1>0, <1>2, <1>3 DEF Elements
  <2>2. ASSUME NEW k \in 1 .. Len(s) PROVE s[k] \in Elements(t)
    BY <1>0, <1>2, <1>5 DEF Elements
  <2>3. Elements(t) \subseteq Elements(s)
    BY <2>1 DEF Elements
  <2>4. Elements(s) \subseteq Elements(t)
    BY <2>2 DEF Elements
  <2> QED BY <2>3, <2>4
<1> QED BY <1>2, <1>3, <1>6, <1>7 DEF t

\* RowSoFar of the next state, on the tree that is there.
LEMMA RowSoFarNext ==
  ASSUME UNCHANGED vars, stage' # "loops",
         Structured(m_succs) =>
           /\ stage' = "linear" =>
                /\ place' \in 1 .. Len(rpo_vector) + 1
                /\ RowOf(m_succs, order', Headers) /\ Elements(order') = linear'
                /\ linear' = PlacedBy(m_succs, rpo_vector, Headers, place' - 1)
                /\ place' > 1 => order' # <<>> /\ order'[1] = root
           /\ stage' \notin {"loops", "linear"} =>
                \E row :
                  /\ row = IF stage' = "number" THEN order' ELSE Reverse(order')
                  /\ linear' = {} /\ RowOf(m_succs, row, Headers)
                  /\ Elements(row) = BasicBlock /\ row[1] = root
  PROVE  RowSoFar'
<1>1. m_succs' = m_succs /\ rpo_vector' = rpo_vector /\ Headers' = Headers
  BY DEF vars, graphVars, rpoVars, Headers
<1>2. /\ \A s : RowOf(m_succs, s, Headers) => IsRow(s)'
      /\ \A n : Placed(n)' = PlacedBy(m_succs, rpo_vector, Headers, n)
  BY <1>1 DEF IsRow, RowOf, InFlow, Flow, Forward, Ahead, Distinct, Placed, PlacedBy
<1>3. (stage = "linear")' /\ Structured(m_succs) =>
        /\ IsRow(order)'
        /\ Placed(place - 1)' = PlacedBy(m_succs, rpo_vector, Headers, place' - 1)
  BY <1>1, <1>2 DEF IsRow, RowOf, InFlow, Flow, Forward, Ahead, Distinct, Placed, PlacedBy
<1> QED BY <1>1, <1>2, <1>3 DEF RowSoFar

LEMMA RowSoFarNow ==
  ASSUME RowSoFar, Structured(m_succs)
  PROVE  /\ stage = "loops" => linear = {} /\ order = <<>>
         /\ stage = "linear" =>
              /\ place \in 1 .. Len(rpo_vector) + 1
              /\ RowOf(m_succs, order, Headers) /\ Elements(order) = linear
              /\ linear = PlacedBy(m_succs, rpo_vector, Headers, place - 1)
              /\ place > 1 => order # <<>> /\ order[1] = root
         /\ stage \notin {"loops", "linear"} =>
              \E row :
                /\ row = IF stage = "number" THEN order ELSE Reverse(order)
                /\ linear = {} /\ RowOf(m_succs, row, Headers)
                /\ Elements(row) = BasicBlock /\ row[1] = root
BY RowMeans DEF RowSoFar

\* While the blocks are put in a row, in structured code.
LEMMA WhilePlacing ==
  ASSUME IInv, WalkSoFar, LifeTypeOK, RowSoFar, Structured(m_succs), stage = "linear"
  PROVE  /\ Tree(m_succs, rpo_vector, Headers, loops)
         /\ Len(rpo_vector) \in Nat /\ place \in 1 .. Len(rpo_vector) + 1
         /\ \A b \in BasicBlock : IsReducibleHeader(b) <=> b \in Headers
         /\ place <= Len(rpo_vector) => place \in 1 .. Len(rpo_vector) /\ Block \in BasicBlock /\ Block = rpo_vector[place]
<1>1. phase = "done"
  BY DEF LifeTypeOK
<1>2. Tree(m_succs, rpo_vector, Headers, loops)
  BY <1>1, TreeIsThere
<1>3. /\ rpo_vector \in Seq(BasicBlock) /\ Len(rpo_vector) \in Nat
      /\ \A h \in Headers : loops[h].reducible
  <2>1. rpo_vector \in Seq(BasicBlock)
    BY <1>2 DEF Tree
  <2>2. \A h \in Headers : loops[h].reducible
    BY <1>2 DEF Tree
  <2> QED BY <2>1, <2>2
<1>4. \A b \in BasicBlock : b \in DOMAIN loops <=> b \in Headers
  BY NullAssumption DEF Headers
<1>5. place \in 1 .. Len(rpo_vector) + 1
  BY RowSoFarNow
<1> QED BY <1>2, <1>3, <1>4, <1>5 DEF IsReducibleHeader, Block

LEMMA StartLinearKeepsRow ==
  ASSUME IInv, WalkSoFar, LifeTypeOK, RowSoFar, StartLinear
  PROVE  RowSoFar'
<1>1. /\ stage = "loops" /\ phase = "done" /\ stage' = "linear" /\ place' = 1 /\ UNCHANGED vars
      /\ order' = order /\ linear' = linear
  BY DEF StartLinear, Done
<1>2. Structured(m_succs) => order' = <<>> /\ linear' = {}
  BY <1>1, RowSoFarNow
<1>3. Len(rpo_vector) \in Nat
  BY <1>1, AfterRpo DEF IInv
<1>4. 1 \in 1 .. Len(rpo_vector) + 1 /\ 1 - 1 = 0
  BY <1>3
<1>5. Structured(m_succs) =>
        /\ RowOf(m_succs, order', Headers) /\ Elements(order') = linear'
        /\ linear' = PlacedBy(m_succs, rpo_vector, Headers, place' - 1)
  BY <1>1, <1>2, <1>4, EmptyRow
<1> QED BY <1>1, <1>4, <1>5, RowSoFarNext

LEMMA AlreadyPlacedKeepsRow ==
  ASSUME IInv, WalkSoFar, LifeTypeOK, RowSoFar, AlreadyPlaced
  PROVE  RowSoFar'
<1>1. /\ stage = "linear" /\ stage' = "linear" /\ place' = place + 1 /\ UNCHANGED vars
      /\ order' = order /\ linear' = linear /\ place <= Len(rpo_vector) /\ Block \in linear
  BY DEF AlreadyPlaced, InOrder
<1> SUFFICES ASSUME Structured(m_succs) PROVE RowSoFar'
  BY <1>1, RowSoFarNext
<1>2. /\ Tree(m_succs, rpo_vector, Headers, loops)
      /\ Len(rpo_vector) \in Nat /\ place \in 1 .. Len(rpo_vector) /\ Block = rpo_vector[place]
  BY <1>1, WhilePlacing
<1>3. /\ RowOf(m_succs, order, Headers) /\ Elements(order) = linear
      /\ linear = PlacedBy(m_succs, rpo_vector, Headers, place - 1)
      /\ place > 1 => order # <<>> /\ order[1] = root
  BY <1>1, RowSoFarNow
<1>4. /\ PlacedBy(m_succs, rpo_vector, Headers, place) = PlacedBy(m_succs, rpo_vector, Headers, place - 1)
      /\ place > 1
  <2>1. rpo_vector[place] \in PlacedBy(m_succs, rpo_vector, Headers, place - 1)
    BY <1>1, <1>2, <1>3
  <2> QED BY ONLY <1>2, <2>1, RowStays
<1>5. place' \in 1 .. Len(rpo_vector) + 1 /\ place' - 1 = place
  BY <1>1, <1>2
<1> QED BY <1>1, <1>3, <1>4, <1>5, RowSoFarNext

LEMMA PlaceKeepsRow ==
  ASSUME IInv, WalkSoFar, LifeTypeOK, RowSoFar, PlaceLoop \/ PlaceBlock
  PROVE  RowSoFar'
<1>1. /\ stage = "linear" /\ stage' = "linear" /\ place' = place + 1 /\ UNCHANGED vars
      /\ place <= Len(rpo_vector) /\ Block \notin linear
  BY DEF PlaceLoop, PlaceBlock, InOrder
<1> SUFFICES ASSUME Structured(m_succs) PROVE RowSoFar'
  BY <1>1, RowSoFarNext
<1>2. /\ Tree(m_succs, rpo_vector, Headers, loops)
      /\ Len(rpo_vector) \in Nat /\ place \in 1 .. Len(rpo_vector)
      /\ Block \in BasicBlock /\ Block = rpo_vector[place]
      /\ IsReducibleHeader(Block) <=> Block \in Headers
  BY <1>1, WhilePlacing
<1>3. /\ RowOf(m_succs, order, Headers) /\ Elements(order) = linear
      /\ linear = PlacedBy(m_succs, rpo_vector, Headers, place - 1)
      /\ place > 1 => order # <<>> /\ order[1] = root
  BY <1>1, RowSoFarNow
<1>4. PICK t : t = IF Block \in Headers THEN loops[Block].basic_blocks ELSE <<Block>>
  OBVIOUS
<1>5. t = IF rpo_vector[place] \in Headers THEN loops[rpo_vector[place]].basic_blocks ELSE <<rpo_vector[place]>>
  BY <1>2, <1>4
<1>6. /\ RowOf(m_succs, order \o t, Headers) /\ Elements(order \o t) = Elements(order) \cup Elements(t)
      /\ Elements(order \o t) = PlacedBy(m_succs, rpo_vector, Headers, place)
      /\ order \o t # <<>> /\ (order \o t)[1] = root
  <2>1. rpo_vector[place] \notin PlacedBy(m_succs, rpo_vector, Headers, place - 1)
    BY <1>1, <1>2, <1>3
  <2>2. Elements(order) = PlacedBy(m_succs, rpo_vector, Headers, place - 1)
    BY <1>3
  <2>3. RowOf(m_succs, order, Headers)
    BY <1>3
  <2>4. place > 1 => order # <<>> /\ order[1] = root
    BY <1>3
  <2>5. place \in 1 .. Len(rpo_vector) /\ Tree(m_succs, rpo_vector, Headers, loops)
    BY <1>2
  <2> QED BY ONLY <2>1, <2>2, <2>3, <2>4, <2>5, <1>5, RowGrows
<1>7. order' = order \o t /\ linear' = linear \cup Elements(t)
  <2>1. CASE PlaceLoop
    <3>1. t = loops[Block].basic_blocks /\ Block \in DOMAIN loops
      BY <1>2, <1>4, <2>1 DEF PlaceLoop, IsReducibleHeader
    <3>2. t \in Seq(BasicBlock)
      BY <3>1, LoopBlocks DEF IInv, Core
    <3>3. Elements(t) = Blocks(Block)
      BY <3>1, <3>2 DEF Elements, Blocks, ToSet
    <3> QED BY <2>1, <3>1, <3>3 DEF PlaceLoop
  <2>2. CASE PlaceBlock
    <3>1. t = <<Block>>
      BY <1>2, <1>4, <2>2 DEF PlaceBlock
    <3>2. order \in Seq(BasicBlock)
      BY <1>3 DEF RowOf
    <3>3. \A b \in BasicBlock : Append(order, b) = order \o <<b>>
      BY <3>2
    <3>4. \A b \in BasicBlock : Elements(<<b>>) = {b}
      <4> SUFFICES ASSUME NEW b \in BasicBlock PROVE Elements(<<b>>) = {b}
        OBVIOUS
      <4>1. Len(<<b>>) = 1 /\ <<b>>[1] = b
        OBVIOUS
      <4> QED BY <4>1 DEF Elements
    <3> QED BY <1>2, <2>2, <3>1, <3>3, <3>4 DEF PlaceBlock
  <2> QED BY <2>1, <2>2
<1>8. place' \in 1 .. Len(rpo_vector) + 1 /\ place' - 1 = place
  BY <1>1, <1>2
<1>9. Elements(order') = linear' /\ linear' = PlacedBy(m_succs, rpo_vector, Headers, place' - 1)
  BY <1>3, <1>6, <1>7, <1>8
<1> QED BY <1>1, <1>6, <1>7, <1>8, <1>9, RowSoFarNext

LEMMA OrderReturnKeepsRow ==
  ASSUME IInv, WalkSoFar, LifeTypeOK, RowSoFar, OrderReturn
  PROVE  RowSoFar'
<1>1. /\ stage = "linear" /\ stage' = "number" /\ UNCHANGED vars
      /\ order' = order /\ linear' = linear \ ToSet(order) /\ place > Len(rpo_vector)
  BY DEF OrderReturn
<1> SUFFICES ASSUME Structured(m_succs) PROVE RowSoFar'
  BY <1>1, RowSoFarNext
<1>2. /\ Tree(m_succs, rpo_vector, Headers, loops)
      /\ Len(rpo_vector) \in Nat /\ place \in 1 .. Len(rpo_vector) + 1
  BY <1>1, WhilePlacing
<1>3. /\ RowOf(m_succs, order, Headers) /\ Elements(order) = linear
      /\ linear = PlacedBy(m_succs, rpo_vector, Headers, place - 1)
      /\ place > 1 => order # <<>> /\ order[1] = root
  BY <1>1, RowSoFarNow
<1>4. place - 1 = Len(rpo_vector) /\ place > 1
  BY <1>1, <1>2, RootIsFirst
<1>5. Elements(order) = BasicBlock
  BY <1>2, <1>3, <1>4, RowIsWhole
<1>6. ToSet(order) = Elements(order)
  BY <1>3 DEF RowOf, ToSet, Elements
<1> QED BY <1>1, <1>3, <1>4, <1>5, <1>6, RowSoFarNext

LEMMA ReverseOrderKeepsRow ==
  ASSUME RowSoFar, ReverseOrder
  PROVE  RowSoFar'
<1>1. /\ stage = "number" /\ stage' = "blocks" /\ UNCHANGED vars
      /\ order' = Reverse(order) /\ linear' = linear
  BY DEF ReverseOrder
<1> SUFFICES ASSUME Structured(m_succs) PROVE RowSoFar'
  BY <1>1, RowSoFarNext
<1>2. /\ linear = {} /\ RowOf(m_succs, order, Headers)
      /\ Elements(order) = BasicBlock /\ order[1] = root
  BY <1>1, RowSoFarNow
<1>3. Reverse(order') = order
  BY <1>1, <1>2, ReverseProperties DEF RowOf
<1> QED BY <1>1, <1>2, <1>3, RowSoFarNext

LEMMA LaterStepsKeepRow ==
  ASSUME RowSoFar, NumberBlock \/ EnterBlock \/ SkipPhi \/ Unexpected \/ VisitInstr \/ LeaveBlock \/ LifeReturn
  PROVE  RowSoFar'
<1>1. /\ stage \notin {"loops", "linear"} /\ stage' \notin {"loops", "linear"}
      /\ UNCHANGED vars /\ order' = order /\ linear' = linear
      /\ stage' = "number" <=> stage = "number"
  BY DEF NumberBlock, EnterBlock, SkipPhi, Unexpected, VisitInstr, LeaveBlock, LifeReturn, InBlock
<1> SUFFICES ASSUME Structured(m_succs) PROVE RowSoFar'
  BY <1>1, RowSoFarNext
<1>2. PICK row :
        /\ row = IF stage = "number" THEN order ELSE Reverse(order)
        /\ linear = {} /\ RowOf(m_succs, row, Headers)
        /\ Elements(row) = BasicBlock /\ row[1] = root
  BY <1>1, RowSoFarNow
<1> QED BY <1>1, <1>2, RowSoFarNext

LEMMA NextKeepsRow ==
  ASSUME IInv, WalkSoFar, LifeTypeOK, RowSoFar, [LifeNext]_<<vars, lifeVars>>
  PROVE  RowSoFar'
<1>1. CASE LoopTreeStep
  <2>1. stage = "loops" /\ stage' = "loops" /\ order' = order /\ linear' = linear /\ [Next]_vars
    BY <1>1 DEF LoopTreeStep, lifeVars
  <2> QED BY <2>1, TreeKeepsGraph DEF RowSoFar
<1>2. CASE UNCHANGED <<vars, lifeVars>>
  <2>1. /\ m_succs' = m_succs /\ rpo_vector' = rpo_vector /\ Headers' = Headers
        /\ stage' = stage /\ order' = order /\ linear' = linear /\ place' = place
    BY <1>2 DEF vars, graphVars, rpoVars, Headers, lifeVars
  <2> QED BY <2>1 DEF RowSoFar, IsRow, InFlow, Forward, Placed
<1> QED BY <1>1, <1>2, StartLinearKeepsRow, AlreadyPlacedKeepsRow, PlaceKeepsRow, OrderReturnKeepsRow,
           ReverseOrderKeepsRow, LaterStepsKeepRow DEF LifeNext

\* At the end of the numbering this is what is asked for.
LEMMA RowMeansOrder ==
  ASSUME LifeTypeOK, RowSoFar
  PROVE  LinearOrderComplete
<1> SUFFICES ASSUME Numbered, Structured(m_succs)
             PROVE  /\ ToSet(order) = BasicBlock /\ IsInjective(order)
                    /\ Last(order) = root /\ linear = {}
  BY DEF LinearOrderComplete
<1>1. /\ linear = {} /\ RowOf(m_succs, Reverse(order), Headers)
      /\ Elements(Reverse(order)) = BasicBlock /\ Reverse(order)[1] = root
  BY RowSoFarNow DEF Numbered
<1>2. order \in Seq(BasicBlock)
  BY DEF LifeTypeOK
<1>3. PICK row : row = Reverse(order)
  OBVIOUS
<1>4. /\ row \in Seq(BasicBlock) /\ Len(row) = Len(order) /\ Reverse(row) = order
      /\ Elements(row) = Elements(order)
  BY <1>2, <1>3, ReverseProperties
<1>5. Len(order) \in Nat /\ DOMAIN order = 1 .. Len(order)
  BY <1>2
<1>6. /\ Distinct(row) /\ Elements(row) = BasicBlock /\ row[1] = root
  BY <1>1, <1>3 DEF RowOf
<1>7. \A k \in 1 .. Len(order) : order[k] = row[(Len(order) - k) + 1]
  BY <1>4, ReverseProperties
<1>8. ToSet(order) = BasicBlock
  BY <1>4, <1>5, <1>6 DEF ToSet, Elements
<1>9. IsInjective(order)
  <2> SUFFICES ASSUME NEW j \in 1 .. Len(order), NEW k \in 1 .. Len(order), order[j] = order[k]
               PROVE  j = k
    BY <1>5 DEF IsInjective
  <2>1. (Len(order) - j) + 1 \in 1 .. Len(row) /\ (Len(order) - k) + 1 \in 1 .. Len(row)
    BY <1>4, <1>5
  <2>2. (Len(order) - j) + 1 = (Len(order) - k) + 1
    BY <1>6, <1>7, <2>1 DEF Distinct
  <2> QED BY <1>5, <2>2
<1>10. Last(order) = root
  <2>1. Len(order) # 0
    BY <1>4, <1>6, RootAssumption DEF Elements
  <2>2. Len(order) \in 1 .. Len(order) /\ (Len(order) - Len(order)) + 1 = 1
    BY <1>5, <2>1
  <2> QED BY <1>6, <1>7, <2>2 DEF Last
<1> QED BY <1>1, <1>8, <1>9, <1>10

(***************************************************************************)
(* The numbers go up along the row.                                        *)
(***************************************************************************)

LEMMA OrderReturnKeepsNumbers ==
  ASSUME LifeTypeOK, OrderReturn
  PROVE  NumbersSoFar'
<1>1. stage' = "number" /\ place' = 1 /\ order' = order /\ Len(order) \in Nat
  BY DEF OrderReturn, LifeTypeOK
<1>2. 1 \in 1 .. Len(order) + 1 /\ 1 .. 1 - 1 = {}
  BY <1>1
<1> QED BY <1>1, <1>2 DEF NumbersSoFar

LEMMA NumberBlockKeepsNumbers ==
  ASSUME LifeTypeOK, RowSoFar, NumbersSoFar, NumberBlock
  PROVE  NumbersSoFar'
<1> PICK b : b = order[place]
  OBVIOUS
<1>1. /\ stage = "number" /\ stage' = "number" /\ place <= Len(order) /\ place' = place + 1
      /\ m_bb_lifetimes' = [m_bb_lifetimes EXCEPT ![b] = bb_lifetime]
      /\ bb_lifetime' = bb_lifetime + Length(b)
      /\ order' = order /\ program' = program /\ m_succs' = m_succs
  BY DEF NumberBlock, vars, graphVars
<1> SUFFICES ASSUME Structured(m_succs) PROVE NumbersSoFar'
  BY <1>1 DEF NumbersSoFar
<1>2. /\ place \in 1 .. Len(order) /\ Len(order) \in Nat
      /\ order \in Seq(BasicBlock) /\ Distinct(order)
  BY <1>1, BlockOfRow, RowSoFarNow DEF RowOf
<1>3. /\ bb_lifetime \in Nat /\ m_bb_lifetimes \in [BasicBlock -> Nat]
      /\ \A c \in BasicBlock : Length(c) \in Nat /\ Length(c)' = Length(c)
  BY <1>1, ProgramTypes DEF LifeTypeOK, Length, Code
<1>4. \A k \in 1 .. Len(order) : order[k] \in BasicBlock
  BY <1>2
<1>5. \A k \in 1 .. place - 1 : k \in 1 .. Len(order) /\ order[k] # b
  BY <1>2 DEF Distinct
<1>6. \A k \in 1 .. place - 1 :
        m_bb_lifetimes'[order[k]] = m_bb_lifetimes[order[k]]
  BY <1>1, <1>3, <1>4, <1>5
<1>7. m_bb_lifetimes'[b] = bb_lifetime
  BY <1>1, <1>2, <1>3, <1>4
<1>8. /\ \A k \in 1 .. place - 1 : End(order[k]) <= bb_lifetime
      /\ \A k \in 1 .. place - 1 : \A j \in 1 .. k - 1 : End(order[j]) <= First(order[k])
  BY <1>1 DEF NumbersSoFar
<1>9. /\ \A k \in 1 .. place - 1 :
           /\ First(order[k])' = First(order[k]) /\ End(order[k])' = End(order[k])
           /\ First(order[k]) \in Nat /\ End(order[k]) \in Nat
      /\ First(b)' = bb_lifetime /\ End(b)' = bb_lifetime + Length(b)
      /\ First(b)' \in Nat /\ End(b)' \in Nat /\ Length(b) \in Nat
  <2>1. Length(b) \in Nat /\ Length(b)' = Length(b)
    <3>1. b \in BasicBlock
      BY <1>2, <1>4
    <3> QED BY <1>3, <3>1
  <2>2. First(b)' = bb_lifetime
    BY <1>1, <1>7 DEF First
  <2>3. ASSUME NEW k \in 1 .. place - 1
        PROVE  /\ First(order[k])' = First(order[k]) /\ End(order[k])' = End(order[k])
               /\ First(order[k]) \in Nat /\ End(order[k]) \in Nat
    <3>1. order[k] \in BasicBlock /\ (order[k])' = order[k]
      BY <1>1, <1>4, <1>5
    <3>2. First(order[k])' = First(order[k]) /\ First(order[k]) \in Nat
      BY <1>1, <1>3, <1>6, <3>1 DEF First
    <3>3. Length(order[k])' = Length(order[k]) /\ Length(order[k]) \in Nat
      BY <1>1, <1>3, <3>1 DEF Length, Code
    <3> QED BY <3>2, <3>3 DEF End
  <2>4. End(b)' = bb_lifetime + Length(b)
    BY <2>1, <2>2 DEF End
  <2> QED BY <1>3, <2>1, <2>2, <2>3, <2>4
<1>10. place' - 1 = place /\ place' \in 1 .. Len(order) + 1
  BY <1>1, <1>2
<1>11. ASSUME NEW k \in 1 .. place
       PROVE  /\ End(order[k])' <= bb_lifetime'
              /\ \A j \in 1 .. k - 1 : End(order[j])' <= First(order[k])'
  <2>1. CASE k = place
    <3>1. \A j \in 1 .. k - 1 : End(order[j])' <= bb_lifetime
      BY <1>8, <1>9, <2>1
    <3>2. First(order[k])' = bb_lifetime /\ End(order[k])' = bb_lifetime'
      <4>1. (order[k])' = b
        BY <1>1, <2>1
      <4> QED BY <1>1, <1>9, <4>1 DEF First, End, Length, Code
    <3> QED BY <1>1, <1>3, <1>9, <3>1, <3>2
  <2>2. CASE k # place
    <3>1. k \in 1 .. place - 1 /\ \A j \in 1 .. k - 1 : j \in 1 .. place - 1
      BY <1>2, <2>2
    <3>2. \A j \in 1 .. k - 1 : End(order[j])' <= First(order[k])'
      BY <1>8, <1>9, <3>1
    <3>3. End(order[k])' <= bb_lifetime'
      BY <1>1, <1>3, <1>8, <1>9, <3>1
    <3> QED BY <3>2, <3>3
  <2> QED BY <2>1, <2>2
<1> QED BY <1>1, <1>10, <1>11 DEF NumbersSoFar

LEMMA ReverseOrderKeepsNumbers ==
  ASSUME LifeTypeOK, NumbersSoFar, ReverseOrder
  PROVE  NumbersSoFar'
<1>1. /\ stage = "number" /\ stage' = "blocks" /\ place > Len(order)
      /\ order' = Reverse(order) /\ m_bb_lifetimes' = m_bb_lifetimes /\ program' = program
      /\ m_succs' = m_succs
  BY DEF ReverseOrder, programVars, vars, graphVars
<1> SUFFICES ASSUME Structured(m_succs) PROVE NumbersSoFar'
  BY <1>1 DEF NumbersSoFar
<1>2. /\ order \in Seq(BasicBlock) /\ Len(order) \in Nat /\ Len(order') = Len(order)
      /\ \A k \in 1 .. Len(order) : order'[k] = order[(Len(order) - k) + 1]
  BY <1>1, ReverseProperties DEF LifeTypeOK
<1>3. /\ place - 1 = Len(order)
      /\ \A k \in 1 .. Len(order) : \A j \in 1 .. k - 1 : End(order[j]) <= First(order[k])
  BY <1>1, <1>2 DEF NumbersSoFar
<1>4. ASSUME NEW k \in 1 .. Len(order), NEW j \in 1 .. k - 1
      PROVE  (End(order[k]) <= First(order[j]))'
  <2>1. /\ (Len(order) - j) + 1 \in 1 .. Len(order) /\ j \in 1 .. Len(order)
        /\ (Len(order) - k) + 1 \in 1 .. ((Len(order) - j) + 1) - 1
    BY <1>2
  <2>2. PICK x, y : x = order'[k] /\ y = order'[j]
    OBVIOUS
  <2>3. x = order[(Len(order) - k) + 1] /\ y = order[(Len(order) - j) + 1]
    BY <1>2, <2>1, <2>2
  <2>4. End(x) <= First(y)
    BY <1>3, <2>1, <2>3
  <2>5. End(order[k])' = End(x) /\ First(order[j])' = First(y)
    BY <1>1, <2>2 DEF End, First, Length, Code
  <2> QED BY <2>4, <2>5
<1> QED BY <1>1, <1>2, <1>4 DEF NumbersSoFar

LEMMA NextKeepsNumbers ==
  ASSUME IInv, LifeTypeOK, RowSoFar, NumbersSoFar, [LifeNext]_<<vars, lifeVars>>
  PROVE  NumbersSoFar'
<1>1. m_succs' = m_succs
  BY LifeStepsAreTreeSteps, TreeKeepsGraph
<1>2. CASE LoopTreeStep
  BY <1>2 DEF LoopTreeStep, lifeVars, NumbersSoFar
<1>3. CASE StartLinear \/ AlreadyPlaced \/ PlaceLoop \/ PlaceBlock
  <2>1. stage' = "linear"
    BY <1>3 DEF StartLinear, AlreadyPlaced, PlaceLoop, PlaceBlock, InOrder
  <2> QED BY <2>1 DEF NumbersSoFar
<1>4. CASE \/ EnterBlock \/ SkipPhi \/ Unexpected \/ VisitInstr \/ LeaveBlock \/ LifeReturn
           \/ UNCHANGED <<vars, lifeVars>>
  <2>1. /\ order' = order /\ m_bb_lifetimes' = m_bb_lifetimes /\ program' = program
        /\ \/ stage' = stage /\ place' = place /\ bb_lifetime' = bb_lifetime
           \/ stage \notin {"loops", "linear", "number"} /\ stage' \notin {"loops", "linear", "number"}
    BY <1>4 DEF EnterBlock, SkipPhi, Unexpected, VisitInstr, LeaveBlock, LifeReturn, InBlock,
                lifeVars, programVars
  <2> QED BY <1>1, <2>1 DEF NumbersSoFar, End, First, Length, Code
<1> QED BY <1>2, <1>3, <1>4, OrderReturnKeepsNumbers, NumberBlockKeepsNumbers, ReverseOrderKeepsNumbers
        DEF LifeNext

(***************************************************************************)
(* The ranges of a value.                                                  *)
(***************************************************************************)

Ranges == Seq(Int \X Int)

\* A range that is added is covered, and what was covered still is.
LEMMA ExtendCovers ==
  ASSUME NEW s \in Ranges, NEW r \in Int \X Int
  PROVE  /\ Extend(s, r) \in Ranges
         /\ \A n \in Int : Covers(s, n) \/ (r[1] <= n /\ n < r[2]) => Covers(Extend(s, r), n)
<1> DEFINE I == {i \in 1 .. Len(s) : r[1] = s[i][2] \/ r[2] = s[i][1]}
           k == Touching(s, r)
           t == Extend(s, r)
<1>0. Len(s) \in Nat /\ DOMAIN s = 1 .. Len(s) /\ s \in Seq(Int \X Int)
  BY DEF Ranges
<1>1. k = IF I # {} THEN Min(I) ELSE 0
  BY DEF Touching, SelectInSeq
<1>2. CASE I = {}
  <2>1. t = Append(s, r)
    BY <1>1, <1>2 DEF Extend
  <2> HIDE DEF t
  <2>2. /\ t \in Seq(Int \X Int) /\ Len(t) = Len(s) + 1 /\ t[Len(s) + 1] = r
        /\ \A i \in 1 .. Len(s) : t[i] = s[i]
    BY <1>0, <2>1
  <2>3. DOMAIN t = 1 .. Len(s) + 1 /\ Len(s) + 1 \in DOMAIN t /\ \A i \in 1 .. Len(s) : i \in DOMAIN t
    BY <1>0, <2>2
  <2>4. \A n \in Int : Covers(s, n) \/ (r[1] <= n /\ n < r[2]) => Covers(t, n)
    BY <1>0, <2>2, <2>3 DEF Covers
  <2> QED BY <2>2, <2>4 DEF t, Ranges
<1>3. CASE I # {}
  <2>1. I \subseteq Nat /\ k = Min(I)
    BY <1>0, <1>1, <1>3
  <2>2. \E m \in I : \A i \in I : m <= i
    BY <1>3, <2>1, NatHasLeast
  <2>3. k \in I
    BY <2>1, <2>2 DEF Min
  <2> HIDE DEF k
  <2>4. /\ k \in 1 .. Len(s) /\ k # 0 /\ (r[1] = s[k][2] \/ r[2] = s[k][1])
        /\ s[k] \in Int \X Int
    BY <1>0, <2>3
  <2>5. PICK a \in Int, b \in Int, c \in Int, d \in Int : s[k] = <<a, b>> /\ r = <<c, d>>
    BY <2>4
  <2>6. Min({a, c}) \in Int /\ Min({a, c}) <= a /\ Min({a, c}) <= c
    <3>1. \E m \in {a, c} : \A i \in {a, c} : m <= i
      BY <2>5
    <3>2. Min({a, c}) \in {a, c} /\ \A i \in {a, c} : Min({a, c}) <= i
      BY <3>1 DEF Min
    <3> QED BY <2>5, <3>2
  <2>7. Max({b, d}) \in Int /\ Max({b, d}) >= b /\ Max({b, d}) >= d
    <3>1. \E m \in {b, d} : \A i \in {b, d} : m >= i
      BY <2>5
    <3>2. Max({b, d}) \in {b, d} /\ \A i \in {b, d} : Max({b, d}) >= i
      BY <3>1 DEF Max
    <3> QED BY <2>5, <3>2
  <2>8. PICK x \in Int, y \in Int : x = Min({a, c}) /\ y = Max({b, d})
    BY <2>6, <2>7
  <2>9. t = [s EXCEPT ![k] = <<x, y>>]
    <3>1. t = [s EXCEPT ![k] = <<Min({s[k][1], r[1]}), Max({s[k][2], r[2]})>>]
      BY <2>4 DEF Extend, k
    <3> QED BY <2>5, <2>8, <3>1
  <2> HIDE DEF t
  <2>10. /\ t \in Seq(Int \X Int) /\ DOMAIN t = DOMAIN s /\ t[k] = <<x, y>>
         /\ \A i \in DOMAIN s \ {k} : t[i] = s[i]
    BY <1>0, <2>4, <2>8, <2>9
  <2>11. ASSUME NEW n \in Int, Covers(s, n) \/ (r[1] <= n /\ n < r[2])
         PROVE  Covers(t, n)
    <3>1. CASE \E i \in DOMAIN s \ {k} : s[i][1] <= n /\ n < s[i][2]
      BY <2>10, <3>1 DEF Covers
    <3>2. CASE (a <= n /\ n < b) \/ (c <= n /\ n < d)
      <4>1. x <= n /\ n < y
        BY <2>5, <2>6, <2>7, <2>8, <3>2
      <4>2. k \in DOMAIN t /\ t[k][1] = x /\ t[k][2] = y
        BY <1>0, <2>4, <2>10
      <4> QED BY <4>1, <4>2 DEF Covers
    <3>3. s[k][1] = a /\ s[k][2] = b /\ r[1] = c /\ r[2] = d
      BY <2>5
    <3> QED BY <1>0, <2>11, <3>1, <3>2, <3>3 DEF Covers
  <2> QED BY <2>10, <2>11 DEF t, Ranges
<1> QED BY <1>2, <1>3

(***************************************************************************)
(* The blocks behind a block come first, each loop is in one piece.        *)
(***************************************************************************)

\* Where the piece of a loop is in the row.
LEMMA PieceOfLoop ==
  ASSUME NEW row \in Seq(BasicBlock), LoopsInOnePiece(row),
         NEW h \in Headers, loops[h].reducible, Blocks(h) \subseteq BasicBlock, h \in Blocks(h)
  PROVE  \E j \in 1 .. Len(row), e \in 1 .. Len(row) :
           /\ row[j] = h /\ row[e] = Last(loops[h].basic_blocks)
           /\ \A c \in Blocks(h) : \E i \in j .. e : row[i] = c
<1> DEFINE n == Cardinality(Blocks(h))
<1>1. n \in Nat
  BY BlocksAssumption, FS_Subset, FS_CardinalityType
<1>2. PICK j \in DOMAIN row :
        /\ row[j] = h
        /\ j + n - 1 <= Len(row)
        /\ ToSet(SubSeq(row, j, j + n - 1)) = Blocks(h)
        /\ Last(SubSeq(row, j, j + n - 1)) = Last(loops[h].basic_blocks)
  BY DEF LoopsInOnePiece
<1> HIDE DEF n
<1>3. PICK e \in Int : e = j + n - 1
  BY <1>1
<1>4. Len(row) \in Nat /\ j \in 1 .. Len(row) /\ e <= Len(row) /\ e >= j - 1
  BY <1>1, <1>2, <1>3
<1> DEFINE piece == SubSeq(row, j, e)
<1>5. /\ piece \in Seq(BasicBlock) /\ Len(piece) = (e - j) + 1
      /\ \A i \in 1 .. (e - j) + 1 : piece[i] = row[(j + i) - 1]
  BY <1>3, <1>4
<1>6. ToSet(piece) = Blocks(h) /\ Last(piece) = Last(loops[h].basic_blocks)
  BY <1>2, <1>3
<1> HIDE DEF piece
<1>7. DOMAIN piece = 1 .. (e - j) + 1
  BY <1>3, <1>4, <1>5
<1>8. \A c \in Blocks(h) : \E i \in j .. e : row[i] = c
  <2> SUFFICES ASSUME NEW c \in Blocks(h) PROVE \E i \in j .. e : row[i] = c
    OBVIOUS
  <2>1. PICK i \in 1 .. (e - j) + 1 : piece[i] = c
    BY <1>6, <1>7 DEF ToSet
  <2>2. (j + i) - 1 \in j .. e /\ row[(j + i) - 1] = c
    <3>1. piece[i] = row[(j + i) - 1]
      BY <1>5
    <3> QED BY <1>4, <2>1, <3>1
  <2> QED BY <2>2
<1>9. e \in 1 .. Len(row) /\ row[e] = Last(loops[h].basic_blocks)
  <2>1. e >= j
    <3>1. PICK i \in j .. e : row[i] = h
      BY <1>8
    <3> QED BY <1>3, <1>4, <3>1
  <2>2. PICK l \in 1 .. (e - j) + 1 : l = (e - j) + 1
    BY <1>4, <2>1
  <2>3. piece[Len(piece)] = row[e]
    <3>1. piece[l] = row[(j + l) - 1]
      BY <1>5
    <3>2. (j + l) - 1 = e
      BY <1>4, <2>2
    <3> QED BY <1>5, <2>2, <3>1, <3>2
  <2> QED BY <1>3, <1>4, <1>6, <2>1, <2>3 DEF Last
<1> QED BY <1>2, <1>4, <1>8, <1>9

\* What the walk over the blocks can count on.
Layout ==
  /\ order \in Seq(BasicBlock) /\ Distinct(order) /\ Elements(order) = BasicBlock
  /\ \A b \in BasicBlock : First(b) \in Nat /\ End(b) = First(b) + 2 * Len(Code(b))
  /\ \A k \in 1 .. Len(order) : \A s \in Succs(Forward, order[k]) : \E j \in 1 .. k - 1 : order[j] = s
  /\ \A h \in Headers :
       /\ Last(loops[h].basic_blocks) \in BasicBlock
       /\ \A c \in NaturalLoop(m_succs, h) :
            First(h) <= First(c) /\ End(c) <= End(Last(loops[h].basic_blocks))
  /\ \A b \in BasicBlock : IsReducibleHeader(b) <=> b \in Headers

\* A block with an edge that is no back edge to the k-th block of the row is there
\* before it: if each loop is in one piece no header comes after its loop.
LEMMA RowGoesForward ==
  ASSUME NEW g \in BuiltGraphs, NEW hs \in SUBSET BasicBlock, NEW row, RowOf(g, row, hs),
         \A h \in hs : \E j \in 1 .. Len(row), e \in 1 .. Len(row) :
           row[j] = h /\ \A c \in NaturalLoop(g, h) : \E i \in j .. e : row[i] = c,
         NEW k \in 1 .. Len(row), NEW a \in BasicBlock, row[k] \in Succs(Ahead(g), a)
  PROVE  \E j \in 1 .. k - 1 : row[j] = a
<1>0. row \in Seq(BasicBlock) /\ Len(row) \in Nat /\ Distinct(row)
  BY DEF RowOf
<1>1. ~ \E h \in hs : row[k] \in NaturalLoop(g, h) /\ \A j \in 1 .. k : row[j] # h
  <2> SUFFICES ASSUME NEW h \in hs, row[k] \in NaturalLoop(g, h), \A j \in 1 .. k : row[j] # h
               PROVE  FALSE
    OBVIOUS
  <2>1. PICK j \in 1 .. Len(row), e \in 1 .. Len(row) :
          row[j] = h /\ \A c \in NaturalLoop(g, h) : \E i \in j .. e : row[i] = c
    OBVIOUS
  <2>2. PICK i \in j .. e : row[i] = row[k]
    BY <2>1
  <2>3. i \in 1 .. Len(row)
    BY <1>0
  <2>4. i = k
    BY <1>0, <2>2, <2>3 DEF Distinct
  <2>5. j \in 1 .. k
    BY <1>0, <2>4
  <2> QED BY <2>1, <2>5
<1>2. 1 <= k /\ k \in 1 .. Len(row)
  BY <1>0
<1> QED BY <1>1, <1>2 DEF RowOf, Flow

LEMMA LayOut ==
  ASSUME IInv, WalkSoFar, LifeTypeOK, RowSoFar, NumbersSoFar, Regular,
         stage \notin {"loops", "linear", "number"}
  PROVE  Layout
<1>0. Structured(m_succs) /\ LoopsInOnePiece(Reverse(order)) /\ phase = "done"
  BY DEF Regular, LifeTypeOK
<1>1. Tree(m_succs, rpo_vector, Headers, loops)
  BY <1>0, TreeIsThere
<1>2. /\ m_succs \in BuiltGraphs /\ Headers \in SUBSET BasicBlock
      /\ \A h \in Headers : loops[h].reducible
  BY <1>1 DEF Tree
<1>3. PICK row : row = Reverse(order)
  OBVIOUS
<1>4. order \in Seq(BasicBlock) /\ Len(order) \in Nat
  BY DEF LifeTypeOK
<1>5. /\ row \in Seq(BasicBlock) /\ Len(row) = Len(order) /\ Elements(row) = Elements(order)
      /\ \A k \in 1 .. Len(order) : row[k] = order[(Len(order) - k) + 1]
  BY <1>3, <1>4, ReverseProperties
<1>6. RowOf(m_succs, row, Headers) /\ Elements(row) = BasicBlock /\ Distinct(row)
  BY <1>0, <1>3, RowSoFarNow DEF RowOf
<1>7. ASSUME NEW k \in 1 .. Len(order)
      PROVE  /\ (Len(order) - k) + 1 \in 1 .. Len(row)
             /\ row[(Len(order) - k) + 1] = order[k] /\ order[k] \in BasicBlock
  <2>1. PICK m \in 1 .. Len(order) : m = (Len(order) - k) + 1 /\ (Len(order) - m) + 1 = k
    BY <1>4
  <2>2. row[m] = order[(Len(order) - m) + 1]
    BY <1>5
  <2>3. order[k] \in BasicBlock
    BY <1>4
  <2> QED BY <1>5, <2>1, <2>2, <2>3
<1>8. \A b \in BasicBlock : First(b) \in Nat /\ End(b) = First(b) + 2 * Len(Code(b)) /\ End(b) \in Nat
  <2> SUFFICES ASSUME NEW b \in BasicBlock
               PROVE  First(b) \in Nat /\ End(b) = First(b) + 2 * Len(Code(b)) /\ End(b) \in Nat
    OBVIOUS
  <2>1. First(b) \in Nat
    BY DEF First, LifeTypeOK
  <2>2. Length(b) \in Nat /\ Length(b) = 2 * Len(Code(b))
    BY ProgramTypes
  <2> QED BY <2>1, <2>2 DEF End
<1>9. Distinct(order)
  <2> SUFFICES ASSUME NEW j \in 1 .. Len(order), NEW k \in 1 .. Len(order), order[j] = order[k]
               PROVE  j = k
    BY DEF Distinct
  <2>1. (Len(order) - j) + 1 = (Len(order) - k) + 1
    BY <1>6, <1>7 DEF Distinct
  <2> QED BY <1>4, <2>1
<1>10. ASSUME NEW h \in Headers
       PROVE  /\ Blocks(h) = NaturalLoop(m_succs, h) /\ Blocks(h) \subseteq BasicBlock
              /\ h \in Blocks(h) /\ Last(loops[h].basic_blocks) \in BasicBlock
  <2>1. Natural(m_succs, h, loops[h].basic_blocks) /\ loops[h].basic_blocks \in Seq(BasicBlock)
    BY <1>1 DEF Tree
  <2>2. Blocks(h) = Elements(loops[h].basic_blocks)
    BY <2>1 DEF Blocks, ToSet, Elements
  <2>3. h \in NaturalLoop(m_succs, h) /\ Elements(loops[h].basic_blocks) = NaturalLoop(m_succs, h)
    BY <2>1, InNaturalLoop DEF Natural
  <2>4. Len(loops[h].basic_blocks) \in Nat /\ Len(loops[h].basic_blocks) # 0
    BY <2>1, <2>3 DEF Elements
  <2>5. Last(loops[h].basic_blocks) \in BasicBlock
    BY <2>1, <2>4 DEF Last
  <2>6. \A k \in 1 .. Len(loops[h].basic_blocks) : loops[h].basic_blocks[k] \in BasicBlock
    BY <2>1
  <2> QED BY <2>2, <2>3, <2>5, <2>6 DEF Elements
<1>11. ASSUME NEW h \in Headers
       PROVE  \E j \in 1 .. Len(row), e \in 1 .. Len(row) :
                /\ row[j] = h /\ row[e] = Last(loops[h].basic_blocks)
                /\ \A c \in NaturalLoop(m_succs, h) : \E i \in j .. e : row[i] = c
  <2>1. row \in Seq(BasicBlock) /\ LoopsInOnePiece(row) /\ loops[h].reducible
    BY <1>0, <1>2, <1>3, <1>5
  <2>2. Blocks(h) \subseteq BasicBlock /\ h \in Blocks(h) /\ Blocks(h) = NaturalLoop(m_succs, h)
    BY <1>10
  <2>3. \E j \in 1 .. Len(row), e \in 1 .. Len(row) :
          /\ row[j] = h /\ row[e] = Last(loops[h].basic_blocks)
          /\ \A c \in Blocks(h) : \E i \in j .. e : row[i] = c
    BY ONLY h \in Headers, <2>1, <2>2, PieceOfLoop
  <2> QED BY <2>2, <2>3
<1>12. ASSUME NEW k \in 1 .. Len(order), NEW s \in Succs(Forward, order[k])
       PROVE  \E j \in 1 .. k - 1 : order[j] = s
  <2>1. order[k] \in BasicBlock /\ Forward = Ahead(m_succs)
    BY <1>7 DEF Forward, Ahead
  <2>2. s \in BasicBlock
    BY <1>2, <2>1, AheadSuccs
  <2>3. PICK m \in 1 .. Len(row) : row[m] = s
    BY <1>6, <2>2 DEF Elements
  <2>4. \E j \in 1 .. m - 1 : row[j] = order[k]
    <3>1. row[m] \in Succs(Ahead(m_succs), order[k])
      BY <2>1, <2>3
    <3>2. \A h \in Headers : \E j \in 1 .. Len(row), e \in 1 .. Len(row) :
            row[j] = h /\ \A c \in NaturalLoop(m_succs, h) : \E i \in j .. e : row[i] = c
      BY <1>11
    <3>3. PICK a \in BasicBlock : a = order[k]
      BY <2>1
    <3> QED BY <1>2, <1>6, <3>1, <3>2, <3>3, RowGoesForward
  <2>5. PICK j \in 1 .. m - 1 : row[j] = order[k]
    BY <2>4
  <2>6. j \in 1 .. Len(row) /\ j = (Len(order) - k) + 1
    <3>1. j \in 1 .. Len(row)
      BY <1>4, <1>5
    <3>2. (Len(order) - k) + 1 \in 1 .. Len(row) /\ row[(Len(order) - k) + 1] = order[k]
      BY <1>7
    <3>3. PICK i \in 1 .. Len(row) : i = (Len(order) - k) + 1
      BY <3>2
    <3> QED BY <1>6, <2>5, <3>1, <3>2, <3>3 DEF Distinct
  <2>7. (Len(order) - m) + 1 \in 1 .. k - 1 /\ order[(Len(order) - m) + 1] = s
    <3>1. (Len(order) - m) + 1 \in 1 .. k - 1
      BY <1>4, <1>5, <2>6
    <3>2. row[m] = order[(Len(order) - m) + 1]
      BY <1>5
    <3> QED BY <2>3, <3>1, <3>2
  <2> QED BY <2>7
<1>13. ASSUME NEW i \in 1 .. Len(row), NEW j \in 1 .. Len(row), j < i
       PROVE  End(row[j]) <= First(row[i])
  <2>1. /\ (Len(order) - j) + 1 \in 1 .. Len(order)
        /\ (Len(order) - i) + 1 \in 1 .. ((Len(order) - j) + 1) - 1
    BY <1>4, <1>5, <1>13
  <2>2. \A k \in 1 .. Len(order) : \A m \in 1 .. k - 1 : End(order[k]) <= First(order[m])
    BY <1>0 DEF NumbersSoFar
  <2>3. End(order[(Len(order) - j) + 1]) <= First(order[(Len(order) - i) + 1])
    BY <2>1, <2>2
  <2> QED BY <1>5, <2>3
<1>14. ASSUME NEW h \in Headers, NEW c \in NaturalLoop(m_succs, h)
       PROVE  First(h) <= First(c) /\ End(c) <= End(Last(loops[h].basic_blocks))
  <2>1. PICK j \in 1 .. Len(row), e \in 1 .. Len(row) :
          /\ row[j] = h /\ row[e] = Last(loops[h].basic_blocks)
          /\ \A x \in NaturalLoop(m_succs, h) : \E i \in j .. e : row[i] = x
    BY <1>11
  <2>2. PICK i \in j .. e : row[i] = c
    BY <2>1
  <2>3. i \in 1 .. Len(row) /\ h \in BasicBlock /\ c \in BasicBlock
    BY <1>2, <1>4, <1>5, <1>10
  <2>4. PICK l \in BasicBlock : l = Last(loops[h].basic_blocks)
    BY <1>10
  <2>5. /\ First(h) \in Nat /\ First(c) \in Nat /\ First(l) \in Nat
        /\ End(h) \in Nat /\ End(c) \in Nat /\ End(l) \in Nat
        /\ First(h) <= End(h) /\ First(l) <= End(l)
    <3>1. \A b \in BasicBlock : First(b) <= End(b)
      BY <1>8, ProgramTypes
    <3> QED BY <1>8, <2>3, <2>4, <3>1
  <2>6. j = i \/ End(h) <= First(c)
    BY <1>13, <2>1, <2>2, <2>3
  <2>7. i = e \/ End(c) <= First(l)
    BY <1>13, <2>1, <2>2, <2>3, <2>4
  <2>8. j = i => h = c
    BY <2>1, <2>2
  <2>9. i = e => c = l
    BY <2>1, <2>2, <2>4
  <2> QED BY <2>4, <2>5, <2>6, <2>7, <2>8, <2>9
<1>15. \A b \in BasicBlock : IsReducibleHeader(b) <=> b \in Headers
  <2>1. \A b \in BasicBlock : b \in DOMAIN loops <=> b \in Headers
    BY NullAssumption DEF Headers
  <2> QED BY <1>2, <2>1 DEF IsReducibleHeader
<1> QED BY <1>4, <1>5, <1>6, <1>8, <1>9, <1>10, <1>12, <1>14, <1>15 DEF Layout

(***************************************************************************)
(* The walk over the blocks.                                               *)
(***************************************************************************)

\* The walk changes neither the function nor the row nor the numbers.
LEMMA SameProgram ==
  ASSUME UNCHANGED <<vars, program, m_bb_lifetimes, order>>
  PROVE  /\ \A b : /\ First(b)' = First(b) /\ End(b)' = End(b) /\ Code(b)' = Code(b)
                   /\ Succs(Forward, b)' = Succs(Forward, b)
         /\ \A i : Type(i)' = Type(i)
         /\ \A v : DefBlocks(v)' = DefBlocks(v)
         /\ \A b, k : NumberAt(b, k)' = NumberAt(b, k)
         /\ \A v, b, k : UsedAt(v, b, k)' <=> UsedAt(v, b, k)
         /\ \A v, b, k : Makes(b, k, v)' <=> Makes(b, k, v)
         /\ \A v, b, k : MadeBy(v, b, k)' <=> MadeBy(v, b, k)
         /\ \A v, b : TakenFrom(v, b)' <=> TakenFrom(v, b)
         /\ Headers' = Headers /\ loops' = loops
         /\ Regular' <=> Regular
<1>1. m_succs' = m_succs /\ loops' = loops /\ Headers' = Headers /\ order' = order
  BY DEF vars, graphVars, Headers
<1>2. /\ \A b : First(b)' = First(b) /\ End(b)' = End(b) /\ Code(b)' = Code(b)
      /\ \A i : Type(i)' = Type(i)
      /\ \A b, k : NumberAt(b, k)' = NumberAt(b, k)
  BY DEF First, End, Length, Code, Type, NumberAt
<1>3. \A b : Succs(Forward, b)' = Succs(Forward, b)
  BY <1>1 DEF Forward
<1>4. \A v : DefBlocks(v)' = DefBlocks(v)
  BY DEF DefBlocks, Code
<1>5. /\ \A v, b, k : UsedAt(v, b, k)' <=> UsedAt(v, b, k)
      /\ \A v, b, k : Makes(b, k, v)' <=> Makes(b, k, v)
      /\ \A v, b, k : MadeBy(v, b, k)' <=> MadeBy(v, b, k)
  BY DEF UsedAt, Makes, MadeBy, Type, Code
<1>6. \A v, b : TakenFrom(v, b)' <=> TakenFrom(v, b)
  BY <1>1 DEF TakenFrom, Phis, Type, Code
<1>7. Regular' <=> Regular
  <2>1. PhisFirst' <=> PhisFirst
    BY DEF PhisFirst, Type, Code
  <2>2. LoopsInOnePiece(Reverse(order))' <=> LoopsInOnePiece(Reverse(order))
    BY <1>1 DEF LoopsInOnePiece, Blocks
  <2> QED BY <1>1, <2>1, <2>2 DEF Regular
<1> QED BY <1>1, <1>2, <1>3, <1>4, <1>5, <1>6, <1>7

\* BlockSoFar of given ranges and live values, without the number that comes next.
Walked(b, k, ranges, values) ==
  /\ DOMAIN ranges \subseteq values \cup ToSet(Code(b))
  /\ \A v \in DOMAIN ranges :
       /\ IsRange(ranges[v]) /\ ranges[v][2] >= NumberAt(b, k + 1)
       /\ (\A d \in k + 1 .. Len(Code(b)) : ~ Makes(b, d, v)) => ranges[v][1] = First(b)
       /\ \A d \in k + 1 .. Len(Code(b)) : Makes(b, d, v) => ranges[v][1] <= NumberAt(b, d)
  /\ \A v \in Instr :
       /\ NeededBehind(v, b) => v \in DOMAIN ranges /\ ranges[v][2] = End(b)
       /\ \A j \in k + 1 .. Len(Code(b)) :
            UsedAt(v, b, j) => v \in DOMAIN ranges /\ ranges[v][2] >= NumberAt(b, j)

Counted(b, k, n) == k > 0 /\ Type(Code(b)[k]) # "kPhi" => n = NumberAt(b, k)

LEMMA BlockSoFarNow ==
  ASSUME NEW b, NEW k, BlockSoFar(b, k)
  PROVE  Walked(b, k, intervals, bb_live) /\ Counted(b, k, instr_lifetime)
BY DEF BlockSoFar, Walked, Counted

LEMMA BlockSoFarNext ==
  ASSUME UNCHANGED <<vars, program, m_bb_lifetimes, order, live>>, NEW b, NEW k,
         Walked(b, k, intervals', bb_live'), Counted(b, k, instr_lifetime')
  PROVE  BlockSoFar(b, k)'
<1>1. \A v : NeededBehind(v, b)' <=> NeededBehind(v, b)
  BY SameProgram DEF NeededBehind
<1>2. /\ First(b)' = First(b) /\ End(b)' = End(b) /\ Code(b)' = Code(b)
      /\ \A i : Type(i)' = Type(i)
      /\ \A n : NumberAt(b, n)' = NumberAt(b, n)
      /\ \A v, n : UsedAt(v, b, n)' <=> UsedAt(v, b, n)
      /\ \A v, n : Makes(b, n, v)' <=> Makes(b, n, v)
  BY SameProgram
<1> QED BY <1>1, <1>2 DEF BlockSoFar, Walked, Counted

\* What is known of the blocks that were left.
LEMMA LeftBlocksStay ==
  ASSUME UNCHANGED <<vars, program, m_bb_lifetimes, order, live, m_intervals>>, NEW b
  PROVE  /\ BlockIsLive(b) => BlockIsLive(b)'
         /\ BlockIsCovered(b) => BlockIsCovered(b)'
         /\ LoopIsCovered(b) => LoopIsCovered(b)'
<1>1. \A v : NeededBehind(v, b)' <=> NeededBehind(v, b)
  BY SameProgram DEF NeededBehind
<1>2. BlockIsLive(b) => BlockIsLive(b)'
  BY <1>1, SameProgram DEF BlockIsLive
<1>3. BlockIsCovered(b) => BlockIsCovered(b)'
  BY <1>1, SameProgram DEF BlockIsCovered, Covers
<1>4. LoopIsCovered(b) => LoopIsCovered(b)'
  BY SameProgram DEF LoopIsCovered, Covers
<1> QED BY <1>2, <1>3, <1>4

LEMMA RangesGoOn ==
  ASSUME RangesSoFar, EnterBlock \/ SkipPhi \/ VisitInstr,
         Regular => Walked(Current, at', intervals', bb_live') /\ Counted(Current, at', instr_lifetime')
  PROVE  RangesSoFar'
<1>1. /\ UNCHANGED <<vars, program, m_bb_lifetimes, order, live, m_intervals, place>>
      /\ stage \notin {"loops", "linear", "number"} /\ stage' = "instrs"
  BY DEF EnterBlock, SkipPhi, VisitInstr, InBlock, programVars, resultVars
<1>2. PICK b, k : b = Current /\ k = at'
  OBVIOUS
<1>3. Regular' <=> Regular
  BY <1>1, SameProgram
<1> SUFFICES ASSUME Regular
             PROVE  /\ \A v \in Instr : m_intervals'[v] \in Seq(Int \X Int)
                    /\ BlockSoFar(Current, at)'
                    /\ \A n \in 1 .. place - 1 :
                         BlockIsLive(order[n])' /\ BlockIsCovered(order[n])' /\ LoopIsCovered(order[n])'
  BY <1>1, <1>3 DEF RangesSoFar
<1>4. /\ \A v \in Instr : m_intervals[v] \in Seq(Int \X Int)
      /\ \A n \in 1 .. place - 1 :
           BlockIsLive(order[n]) /\ BlockIsCovered(order[n]) /\ LoopIsCovered(order[n])
  BY <1>1 DEF RangesSoFar
<1>5. BlockSoFar(b, k)'
  BY <1>1, <1>2, BlockSoFarNext
<1>6. BlockSoFar(Current, at)'
  BY <1>1, <1>2, <1>5 DEF Current
<1>7. ASSUME NEW n \in 1 .. place - 1
      PROVE  BlockIsLive(order[n])' /\ BlockIsCovered(order[n])' /\ LoopIsCovered(order[n])'
  <2>1. PICK c : c = order[n]
    OBVIOUS
  <2>2. BlockIsLive(c)' /\ BlockIsCovered(c)' /\ LoopIsCovered(c)'
    BY <1>1, <1>4, <2>1, LeftBlocksStay
  <2> QED BY <1>1, <2>1, <2>2
<1> QED BY <1>1, <1>4, <1>6, <1>7

LEMMA NumbersInBlock ==
  ASSUME LifeTypeOK, Layout, NEW b \in BasicBlock
  PROVE  /\ First(b) \in Nat /\ Len(Code(b)) \in Nat /\ End(b) \in Nat
         /\ \A k \in Int : NumberAt(b, k) \in Int /\ NumberAt(b, k) = First(b) + 2 * (k - 1)
         /\ \A k \in Int : NumberAt(b, k + 1) = NumberAt(b, k) + 2
         /\ \A j, k \in Int : j <= k => NumberAt(b, j) <= NumberAt(b, k)
         /\ \A j, k \in Int : j < k => NumberAt(b, j) < NumberAt(b, k)
         /\ \A k \in Int : k >= 1 => First(b) <= NumberAt(b, k)
         /\ \A k \in Int : k <= Len(Code(b)) => NumberAt(b, k) < End(b)
         /\ NumberAt(b, Len(Code(b)) + 1) = End(b)
<1>1. PICK f \in Nat, n \in Nat : f = First(b) /\ n = Len(Code(b)) /\ End(b) = f + 2 * n
  BY ProgramTypes DEF Layout
<1>2. \A k \in Int : NumberAt(b, k) = f + 2 * (k - 1)
  BY <1>1 DEF NumberAt, kLifetimeStep
<1>3. ASSUME NEW k \in Int
      PROVE  /\ NumberAt(b, k) \in Int /\ NumberAt(b, k + 1) = NumberAt(b, k) + 2
             /\ k >= 1 => f <= NumberAt(b, k)
             /\ k <= n => NumberAt(b, k) < f + 2 * n
  <2>1. NumberAt(b, k) = f + 2 * (k - 1)
    BY <1>2
  <2>2. NumberAt(b, k + 1) = f + 2 * ((k + 1) - 1)
    <3>1. k + 1 \in Int
      OBVIOUS
    <3> QED BY ONLY <1>2, <3>1
  <2> QED BY <2>1, <2>2
<1>4. ASSUME NEW j \in Int, NEW k \in Int
      PROVE  /\ j <= k => NumberAt(b, j) <= NumberAt(b, k)
             /\ j < k => NumberAt(b, j) < NumberAt(b, k)
  <2>1. NumberAt(b, j) = f + 2 * (j - 1) /\ NumberAt(b, k) = f + 2 * (k - 1)
    BY <1>2
  <2> QED BY <2>1
<1>5. NumberAt(b, n + 1) = f + 2 * n
  <2>1. NumberAt(b, n + 1) = f + 2 * ((n + 1) - 1)
    <3>1. n + 1 \in Int
      OBVIOUS
    <3> QED BY ONLY <1>2, <3>1
  <2> QED BY <2>1
<1>6. f + 2 * n \in Nat
  OBVIOUS
<1> QED BY <1>1, <1>2, <1>3, <1>4, <1>5, <1>6

\* What a block behind this one needs is live at its end.
LEMMA NeededIsLive ==
  ASSUME TypeOK, NEW b \in BasicBlock, NEW v, NeededBehind(v, b)
  PROVE  v \in UNION {SuccLiveIn(b, s) : s \in Succs(m_succs, b)}
<1>1. CASE TakenFrom(v, b)
  <2>0. PICK s \in Succs(m_succs, b) : \E i \in Phis(s) : <<v, b>> \in program.phi_nodes[i]
    BY <1>1 DEF TakenFrom
  <2>1. PICK i \in Phis(s) : <<v, b>> \in program.phi_nodes[i]
    BY <2>0
  <2>2. <<v, b>>[1] = v /\ <<v, b>>[2] = b
    OBVIOUS
  <2>3. <<v, b>> \in {n \in UNION {program.phi_nodes[j] : j \in Phis(s)} : n[2] = b}
    BY <2>1, <2>2
  <2>4. v \in SuccLiveIn(b, s)
    BY <2>2, <2>3 DEF SuccLiveIn
  <2> QED BY <2>1, <2>4
<1>2. CASE \E s \in Succs(Forward, b) : v \in live[s]
  <2>1. PICK s \in Succs(Forward, b) : v \in live[s]
    BY <1>2
  <2>2. s \in Succs(m_succs, b)
    BY <2>1, ForwardSuccs
  <2> QED BY <2>1, <2>2 DEF SuccLiveIn
<1> QED BY <1>1, <1>2 DEF NeededBehind

LEMMA EnterBlockKeepsRanges ==
  ASSUME TypeOK, LifeTypeOK, Regular => Layout, RangesSoFar, EnterBlock
  PROVE  RangesSoFar'
<1> SUFFICES ASSUME Regular
             PROVE  Walked(Current, at', intervals', bb_live') /\ Counted(Current, at', instr_lifetime')
  BY RangesGoOn
<1>1. /\ stage = "blocks" /\ place <= Len(order)
      /\ bb_live' = UNION {SuccLiveIn(Current, s) : s \in Succs(m_succs, Current)}
      /\ intervals' = [i \in bb_live' |-> <<First(Current), End(Current)>>]
      /\ at' = Len(Code(Current)) /\ instr_lifetime' = End(Current) - kLifetimeStep
  BY DEF EnterBlock
<1>2. PICK b \in BasicBlock : b = Current
  BY <1>1, BlockOfRow
<1>3. PICK k : k = Len(Code(b))
  OBVIOUS
<1>4. /\ First(b) \in Nat /\ End(b) \in Nat /\ NumberAt(b, k + 1) = End(b) /\ k \in Nat
      /\ NumberAt(b, k) + 2 = End(b) /\ NumberAt(b, k) \in Int
  BY <1>3, NumbersInBlock
<1>5. k + 1 .. Len(Code(b)) = {}
  BY <1>3, <1>4
<1>6. \A v \in DOMAIN intervals' : intervals'[v] = <<First(b), End(b)>>
  BY <1>1, <1>2
<1>7. DOMAIN intervals' = bb_live' /\ \A v : NeededBehind(v, b) => v \in bb_live'
  BY <1>1, <1>2, NeededIsLive
<1>8. Walked(b, k, intervals', bb_live')
  <2>1. IsRange(<<First(b), End(b)>>)
    BY <1>4 DEF IsRange
  <2> QED BY <1>4, <1>5, <1>6, <1>7, <2>1 DEF Walked
<1>9. Counted(b, k, instr_lifetime')
  BY <1>1, <1>2, <1>4 DEF Counted, kLifetimeStep
<1> QED BY <1>1, <1>2, <1>3, <1>8, <1>9

\* In the midst of a block.
LEMMA DuringBlock ==
  ASSUME LifeTypeOK, Layout, RangesSoFar, Regular, InBlock
  PROVE  /\ Current \in BasicBlock /\ at \in 1 .. Len(Code(Current)) /\ Len(Code(Current)) \in Nat
         /\ This = Code(Current)[at] /\ This \in Instr
         /\ Walked(Current, at, intervals, bb_live) /\ Counted(Current, at, instr_lifetime)
<1>1. stage = "instrs" /\ stage \notin {"loops", "linear", "number"}
  BY DEF InBlock
<1>2. BlockSoFar(Current, at)
  BY <1>1 DEF RangesSoFar
<1> QED BY <1>1, <1>2, InsideBlock, BlockSoFarNow

\* The places behind the last one but k.
LEMMA OneBefore ==
  ASSUME NEW k \in Nat \ {0}, NEW n \in Nat
  PROVE  /\ (k - 1) + 1 = k /\ k - 1 \in Int /\ k \in Int
         /\ \A d \in (k - 1) + 1 .. n : d = k \/ d \in k + 1 .. n
         /\ \A d \in k + 1 .. n : d \in (k - 1) + 1 .. n
OBVIOUS

LEMMA SkipPhiKeepsRanges ==
  ASSUME LifeTypeOK, Regular => Layout, RangesSoFar, SkipPhi
  PROVE  RangesSoFar'
<1> SUFFICES ASSUME Regular
             PROVE  Walked(Current, at', intervals', bb_live') /\ Counted(Current, at', instr_lifetime')
  BY RangesGoOn
<1>1. /\ InBlock /\ Type(This) = "kPhi" /\ at' = at - 1
      /\ intervals' = intervals /\ bb_live' = bb_live /\ instr_lifetime' = instr_lifetime
  BY DEF SkipPhi
<1>2. PICK b, k, i : b = Current /\ k = at /\ i = This
  OBVIOUS
<1>3. /\ b \in BasicBlock /\ k \in 1 .. Len(Code(b)) /\ Len(Code(b)) \in Nat /\ i = Code(b)[k]
      /\ Walked(b, k, intervals, bb_live) /\ Type(i) = "kPhi"
  BY <1>1, <1>2, DuringBlock
<1>4. /\ k \in Nat \ {0} /\ (k - 1) + 1 = k
      /\ \A d \in (k - 1) + 1 .. Len(Code(b)) : d = k \/ d \in k + 1 .. Len(Code(b))
      /\ \A d \in k + 1 .. Len(Code(b)) : d \in (k - 1) + 1 .. Len(Code(b))
  BY <1>3, OneBefore
<1>5. /\ \A v : ~ Makes(b, k, v) /\ ~ UsedAt(v, b, k)
  BY <1>3 DEF Makes, UsedAt
<1>6. \A v \in DOMAIN intervals : intervals[v][2] >= NumberAt(b, k)
  <2>1. NumberAt(b, k + 1) = NumberAt(b, k) + 2 /\ NumberAt(b, k) \in Int
    BY <1>3, NumbersInBlock
  <2>2. \A v \in DOMAIN intervals : intervals[v][2] >= NumberAt(b, k + 1) /\ intervals[v][2] \in Int
    BY <1>3 DEF Walked, IsRange
  <2> QED BY <2>1, <2>2
<1>7. Walked(b, k - 1, intervals, bb_live)
  BY <1>3, <1>4, <1>5, <1>6 DEF Walked
<1>8. Counted(b, k - 1, instr_lifetime)
  <2>1. ASSUME k - 1 > 0 PROVE Type(Code(b)[k - 1]) = "kPhi"
    <3>1. k - 1 \in DOMAIN Code(b) /\ k \in DOMAIN Code(b) /\ k - 1 < k
      BY <1>3, <2>1, ProgramTypes
    <3> QED BY <1>3, <3>1 DEF Regular, PhisFirst
  <2> QED BY <2>1 DEF Counted
<1> QED BY <1>1, <1>2, <1>7, <1>8

LEMMA VisitInstrKeepsRanges ==
  ASSUME LifeTypeOK, Regular => Layout, RangesSoFar, VisitInstr
  PROVE  RangesSoFar'
<1> SUFFICES ASSUME Regular
             PROVE  Walked(Current, at', intervals', bb_live') /\ Counted(Current, at', instr_lifetime')
  BY RangesGoOn
<1>1. InBlock /\ Type(This) # "kPhi" /\ at' = at - 1 /\ instr_lifetime' = instr_lifetime - kLifetimeStep
  BY DEF VisitInstr
<1>2. PICK b, k, i : b = Current /\ k = at /\ i = This
  OBVIOUS
<1>3. /\ b \in BasicBlock /\ k \in 1 .. Len(Code(b)) /\ Len(Code(b)) \in Nat /\ i = Code(b)[k]
      /\ Walked(b, k, intervals, bb_live) /\ Type(i) # "kPhi" /\ i \in Instr
      /\ instr_lifetime = NumberAt(b, k)
  BY <1>1, <1>2, DuringBlock DEF Counted
<1>4. /\ k \in Nat \ {0} /\ (k - 1) + 1 = k
      /\ \A d \in (k - 1) + 1 .. Len(Code(b)) : d = k \/ d \in k + 1 .. Len(Code(b))
      /\ \A d \in k + 1 .. Len(Code(b)) : d \in (k - 1) + 1 .. Len(Code(b))
      /\ k \in (k - 1) + 1 .. Len(Code(b))
  BY <1>3, OneBefore
<1>5. PICK used, new, n, f :
        /\ used = ToSet(program.operands[i]) /\ new = used \ DOMAIN intervals
        /\ n = NumberAt(b, k) /\ f = First(b)
  OBVIOUS
<1>6. /\ \A v : Makes(b, k, v) <=> v = i
      /\ \A v : UsedAt(v, b, k) <=> v \in used
  BY <1>3, <1>5 DEF Makes, UsedAt
<1>7. /\ DOMAIN intervals' = DOMAIN intervals \cup new
      /\ \A v \in new : intervals'[v] = <<f, n>>
      /\ \A v \in DOMAIN intervals : v = i => intervals'[v] = <<n, intervals[v][2]>>
      /\ \A v \in DOMAIN intervals : v # i => intervals'[v] = intervals[v]
      /\ bb_live' = (bb_live \ {i}) \cup new
  <2>1. /\ intervals' = [v \in DOMAIN intervals \cup new |->
              IF v \in new THEN <<f, n>>
              ELSE IF v = i THEN <<n, intervals[v][2]>>
              ELSE intervals[v]]
        /\ bb_live' = (bb_live \ {i}) \cup new
    BY <1>2, <1>3, <1>5 DEF VisitInstr
  <2> QED BY <1>5, <2>1
<1>8. /\ f \in Nat /\ n \in Int /\ f <= n /\ NumberAt(b, k + 1) = n + 2
      /\ \A d \in k .. Len(Code(b)) : NumberAt(b, d) \in Int /\ n <= NumberAt(b, d)
  <2>1. \A d \in k .. Len(Code(b)) : d \in Int /\ k <= d
    BY <1>3
  <2>2. k \in Int /\ k >= 1
    BY <1>3
  <2> QED BY <1>3, <1>5, <2>1, <2>2, NumbersInBlock
<1>9. \A v \in DOMAIN intervals :
        /\ intervals[v] \in Int \X Int /\ intervals[v][2] >= n + 2
        /\ (\A d \in k + 1 .. Len(Code(b)) : ~ Makes(b, d, v)) => intervals[v][1] = f
        /\ \A d \in k + 1 .. Len(Code(b)) : Makes(b, d, v) => intervals[v][1] <= NumberAt(b, d)
  BY <1>3, <1>5, <1>8 DEF Walked, IsRange
<1>10. ASSUME NEW v \in DOMAIN intervals'
       PROVE  /\ IsRange(intervals'[v]) /\ intervals'[v][2] >= n
              /\ (\A d \in k .. Len(Code(b)) : ~ Makes(b, d, v)) => intervals'[v][1] = f
              /\ \A d \in k .. Len(Code(b)) : Makes(b, d, v) => intervals'[v][1] <= NumberAt(b, d)
  <2>0. k \in k .. Len(Code(b)) /\ \A d \in k + 1 .. Len(Code(b)) : d \in k .. Len(Code(b))
    BY <1>3
  <2>1. CASE v \in new
    <3>1. intervals'[v] = <<f, n>>
      BY <1>7, <2>1
    <3>2. \A d \in k .. Len(Code(b)) : f <= NumberAt(b, d)
      BY <1>8
    <3>3. <<f, n>>[1] = f /\ <<f, n>>[2] = n /\ <<f, n>> \in Int \X Int /\ n >= n
      BY <1>8
    <3> QED BY <3>1, <3>2, <3>3 DEF IsRange
  <2>2. CASE v \in DOMAIN intervals /\ v = i
    <3>1. PICK e \in Int : e = intervals[v][2]
      BY <1>9, <2>2
    <3>2. intervals'[v] = <<n, e>>
      BY <1>7, <2>2, <3>1
    <3>3. <<n, e>>[1] = n /\ <<n, e>>[2] = e /\ <<n, e>> \in Int \X Int /\ e >= n
      BY <1>8, <1>9, <2>2, <3>1
    <3>4. Makes(b, k, v)
      BY <1>6, <2>2
    <3> QED BY <1>8, <2>0, <3>2, <3>3, <3>4 DEF IsRange
  <2>3. CASE v \in DOMAIN intervals /\ v # i
    <3>1. intervals'[v] = intervals[v] /\ ~ Makes(b, k, v)
      BY <1>6, <1>7, <2>3
    <3>2. \A d \in k .. Len(Code(b)) : d = k \/ d \in k + 1 .. Len(Code(b))
      BY <1>4
    <3>3. intervals[v][2] >= n
      BY <1>8, <1>9, <2>3
    <3> QED BY <1>9, <2>0, <2>3, <3>1, <3>2, <3>3 DEF IsRange
  <2> QED BY <1>7, <2>1, <2>2, <2>3
<1>11. ASSUME NEW v \in Instr, NeededBehind(v, b)
       PROVE  v \in DOMAIN intervals' /\ intervals'[v][2] = End(b)
  <2>1. v \in DOMAIN intervals /\ intervals[v][2] = End(b)
    BY <1>3, <1>11 DEF Walked
  <2> QED BY <1>7, <2>1
<1>12. ASSUME NEW v \in Instr, NEW j \in k .. Len(Code(b)), UsedAt(v, b, j)
       PROVE  v \in DOMAIN intervals' /\ intervals'[v][2] >= NumberAt(b, j)
  <2>1. CASE j = k
    <3>1. v \in used /\ v \in DOMAIN intervals'
      BY <1>5, <1>6, <1>7, <1>12, <2>1
    <3>2. intervals'[v][2] >= n
      BY <1>10, <3>1
    <3> QED BY <1>5, <2>1, <3>1, <3>2
  <2>2. CASE j # k
    <3>1. j \in k + 1 .. Len(Code(b))
      BY <1>4, <2>2
    <3>2. v \in DOMAIN intervals /\ intervals[v][2] >= NumberAt(b, j)
      BY <1>3, <1>12, <3>1 DEF Walked
    <3> QED BY <1>7, <3>2
  <2> QED BY <2>1, <2>2
<1>13. DOMAIN intervals' \subseteq bb_live' \cup ToSet(Code(b))
  <2>1. i \in ToSet(Code(b))
    BY <1>3, ProgramTypes
  <2>2. DOMAIN intervals \subseteq bb_live \cup ToSet(Code(b))
    BY <1>3 DEF Walked
  <2> QED BY <1>7, <2>1, <2>2
<1>14. Walked(b, k - 1, intervals', bb_live')
  <2>1. (k - 1) + 1 = k /\ NumberAt(b, (k - 1) + 1) = n
    BY <1>4, <1>5
  <2> QED BY <1>5, <1>10, <1>11, <1>12, <1>13, <2>1 DEF Walked
<1>15. Counted(b, k - 1, instr_lifetime')
  <2>1. k - 1 \in Int /\ k = (k - 1) + 1
    BY <1>3
  <2>2. NumberAt(b, k) = NumberAt(b, k - 1) + 2 /\ NumberAt(b, k - 1) \in Int
    BY <1>3, <2>1, NumbersInBlock
  <2> QED BY <1>1, <1>3, <2>2 DEF Counted, kLifetimeStep
<1> QED BY <1>1, <1>2, <1>14, <1>15

\* What the walk over a block finds out: what is live where the block starts, and
\* a range that holds each place of the block at which the value is live.
LEMMA WalkedCovers ==
  ASSUME LifeTypeOK, Layout, NEW b \in BasicBlock, Walked(b, 0, intervals, bb_live), NEW v \in Instr
  PROVE  /\ (/\ b \notin DefBlocks(v)
             /\ NeededBehind(v, b) \/ \E j \in DOMAIN Code(b) : UsedAt(v, b, j))
              => v \in bb_live \ Phis(b)
         /\ \A k \in DOMAIN Code(b) :
              (/\ b \in DefBlocks(v) => MadeBy(v, b, k)
               /\ NeededBehind(v, b) \/ \E j \in k + 1 .. Len(Code(b)) : UsedAt(v, b, j))
                => /\ v \in DOMAIN intervals
                   /\ intervals[v][1] <= NumberAt(b, k) /\ NumberAt(b, k) < intervals[v][2]
<1>1. /\ Len(Code(b)) \in Nat /\ DOMAIN Code(b) = 1 .. Len(Code(b)) /\ First(b) \in Nat /\ End(b) \in Nat
      /\ 0 + 1 = 1
  BY ProgramTypes, NumbersInBlock
<1>2. /\ DOMAIN intervals \subseteq bb_live \cup ToSet(Code(b))
      /\ NeededBehind(v, b) => v \in DOMAIN intervals /\ intervals[v][2] = End(b)
      /\ \A j \in 1 .. Len(Code(b)) :
           UsedAt(v, b, j) => v \in DOMAIN intervals /\ intervals[v][2] >= NumberAt(b, j)
  BY <1>1 DEF Walked
<1>3. ASSUME v \in DOMAIN intervals
      PROVE  /\ intervals[v][1] \in Int /\ intervals[v][2] \in Int
             /\ (\A d \in 1 .. Len(Code(b)) : ~ Makes(b, d, v)) => intervals[v][1] = First(b)
             /\ \A d \in 1 .. Len(Code(b)) : Makes(b, d, v) => intervals[v][1] <= NumberAt(b, d)
  BY <1>1, <1>3 DEF Walked, IsRange
<1>4. b \in DefBlocks(v) <=> v \in ToSet(Code(b))
  BY DEF DefBlocks
<1>5. ASSUME b \notin DefBlocks(v), NeededBehind(v, b) \/ \E j \in DOMAIN Code(b) : UsedAt(v, b, j)
      PROVE  v \in bb_live \ Phis(b)
  <2>1. v \in DOMAIN intervals
    BY <1>1, <1>2, <1>5
  <2> QED BY <1>2, <1>4, <1>5, <2>1 DEF Phis
<1>6. ASSUME NEW k \in DOMAIN Code(b), b \in DefBlocks(v) => MadeBy(v, b, k),
             NeededBehind(v, b) \/ \E j \in k + 1 .. Len(Code(b)) : UsedAt(v, b, j)
      PROVE  /\ v \in DOMAIN intervals
             /\ intervals[v][1] <= NumberAt(b, k) /\ NumberAt(b, k) < intervals[v][2]
  <2>0. k \in Int /\ 1 <= k /\ k <= Len(Code(b))
    BY <1>1
  <2>1. NumberAt(b, k) \in Int /\ First(b) <= NumberAt(b, k) /\ NumberAt(b, k) < End(b)
    BY <2>0, NumbersInBlock
  <2>2. v \in DOMAIN intervals /\ NumberAt(b, k) < intervals[v][2]
    <3>1. CASE NeededBehind(v, b)
      BY <1>2, <2>1, <3>1
    <3>2. CASE \E j \in k + 1 .. Len(Code(b)) : UsedAt(v, b, j)
      <4>1. PICK j \in k + 1 .. Len(Code(b)) : UsedAt(v, b, j)
        BY <3>2
      <4>2. j \in 1 .. Len(Code(b)) /\ j \in Int /\ k < j
        BY <1>1, <2>0
      <4>3. NumberAt(b, k) < NumberAt(b, j) /\ NumberAt(b, j) \in Int
        BY <2>0, <4>2, NumbersInBlock
      <4>4. v \in DOMAIN intervals /\ intervals[v][2] >= NumberAt(b, j)
        BY <1>2, <4>1, <4>2
      <4> QED BY <1>3, <2>1, <4>3, <4>4
    <3> QED BY <1>6, <3>1, <3>2
  <2>3. intervals[v][1] <= NumberAt(b, k)
    <3>1. CASE \A d \in 1 .. Len(Code(b)) : ~ Makes(b, d, v)
      BY <1>3, <2>1, <2>2, <3>1
    <3>2. CASE \E d \in 1 .. Len(Code(b)) : Makes(b, d, v)
      <4>1. b \in DefBlocks(v) /\ Type(v) # "kPhi"
        BY <1>1, <1>4, <3>2 DEF Makes, ToSet
      <4>2. PICK d \in 1 .. Len(Code(b)) : Makes(b, d, v) /\ d <= k
        BY <1>1, <1>6, <4>1 DEF MadeBy, Makes
      <4>3. d \in Int /\ NumberAt(b, d) \in Int /\ NumberAt(b, d) <= NumberAt(b, k)
        BY <1>1, <2>0, <4>2, NumbersInBlock
      <4> QED BY <1>3, <2>1, <2>2, <4>2, <4>3
    <3> QED BY <3>1, <3>2
  <2> QED BY <2>2, <2>3
<1> QED BY <1>5, <1>6

\* The ranges that the loop of a header adds to those of the block.
LEMMA LoopRanges ==
  ASSUME TypeOK, LifeTypeOK, Layout, NEW b \in BasicBlock, Walked(b, 0, intervals, bb_live),
         NEW values \in SUBSET Instr, NEW ranges, ranges = InLoop(b, values)
  PROVE  /\ DOMAIN intervals \subseteq DOMAIN ranges /\ DOMAIN ranges \subseteq Instr
         /\ \A v \in DOMAIN ranges : ranges[v] \in Int \X Int
         /\ \A v \in DOMAIN intervals : \A n \in Int :
              (/\ First(b) <= n /\ n < End(b)
               /\ intervals[v][1] <= n /\ n < intervals[v][2])
                => ranges[v][1] <= n /\ n < ranges[v][2]
         /\ b \in Headers => \A v \in values :
              /\ v \in DOMAIN ranges
              /\ ranges[v] = <<First(b), End(Last(loops[b].basic_blocks))>>
<1>1. /\ \A v \in DOMAIN intervals : intervals[v] \in Int \X Int
      /\ DOMAIN intervals \subseteq Instr
  BY DEF Walked, IsRange, LifeTypeOK
<1>2. CASE b \notin Headers
  <2>1. ranges = intervals
    BY <1>2 DEF Layout, InLoop
  <2> QED BY <1>1, <1>2, <2>1
<1>3. CASE b \in Headers
  <2>1. PICK f, e : f = First(b) /\ e = End(Last(loops[b].basic_blocks))
    OBVIOUS
  <2>2. ranges = [v \in DOMAIN intervals \cup values |-> IF v \in values THEN <<f, e>> ELSE intervals[v]]
    BY <1>3, <2>1 DEF Layout, InLoop
  <2>3. f \in Int /\ e \in Int /\ End(b) \in Int /\ End(b) <= e
    <3>1. b \in NaturalLoop(m_succs, b)
      BY InNaturalLoop
    <3>2. Last(loops[b].basic_blocks) \in BasicBlock /\ End(b) <= e
      BY <1>3, <2>1, <3>1 DEF Layout
    <3> QED BY <2>1, <3>2, NumbersInBlock
  <2>4. <<f, e>>[1] = f /\ <<f, e>>[2] = e /\ <<f, e>> \in Int \X Int
    BY <2>3
  <2>5. /\ DOMAIN ranges = DOMAIN intervals \cup values
        /\ \A v \in values : ranges[v] = <<f, e>>
        /\ \A v \in DOMAIN intervals \ values : ranges[v] = intervals[v]
    BY <2>2
  <2>6. ASSUME NEW v \in DOMAIN intervals, NEW n \in Int, f <= n, n < End(b),
               intervals[v][1] <= n, n < intervals[v][2]
        PROVE  ranges[v][1] <= n /\ n < ranges[v][2]
    <3>1. CASE v \in values
      BY <2>3, <2>4, <2>5, <2>6, <3>1
    <3>2. CASE v \notin values
      BY <2>5, <2>6, <3>2
    <3> QED BY <3>1, <3>2
  <2>7. \A v \in DOMAIN ranges : ranges[v] \in Int \X Int
    BY <1>1, <2>4, <2>5
  <2> QED BY <1>1, <2>1, <2>5, <2>6, <2>7
<1> QED BY <1>2, <1>3

LEMMA LeaveBlockKeepsRanges ==
  ASSUME TypeOK, LifeTypeOK, Regular => Layout, RangesSoFar, LeaveBlock
  PROVE  RangesSoFar'
<1>1. /\ stage = "instrs" /\ at = 0 /\ stage' = "blocks" /\ place' = place + 1
      /\ UNCHANGED <<vars, program, m_bb_lifetimes, order>>
      /\ live' = [live EXCEPT ![Current] = LiveAtStart]
  BY DEF LeaveBlock, programVars
<1>2. Regular' <=> Regular
  BY <1>1, SameProgram
<1>3. place \in 1 .. Len(order) /\ Len(order) \in Nat /\ Current \in BasicBlock /\ Current = order[place]
  BY <1>1, InsideBlock
<1>4. place' - 1 = place
  BY <1>1, <1>3
<1> SUFFICES ASSUME Regular
             PROVE  /\ \A v \in Instr : m_intervals'[v] \in Ranges
                    /\ \A k \in 1 .. place :
                         BlockIsLive(order[k])' /\ BlockIsCovered(order[k])' /\ LoopIsCovered(order[k])'
  BY <1>1, <1>2, <1>4 DEF RangesSoFar, Ranges
<1>5. /\ Layout /\ BlockSoFar(Current, 0)
      /\ \A v \in Instr : m_intervals[v] \in Ranges
      /\ \A k \in 1 .. place - 1 :
           BlockIsLive(order[k]) /\ BlockIsCovered(order[k]) /\ LoopIsCovered(order[k])
  BY <1>1 DEF RangesSoFar, Ranges
<1>6. PICK b \in BasicBlock : b = Current /\ b = order[place]
  BY <1>3
<1>7. Walked(b, 0, intervals, bb_live)
  BY <1>5, <1>6, BlockSoFarNow
<1>8. PICK values \in SUBSET Instr : values = bb_live \ Phis(b)
  BY DEF LifeTypeOK
<1>9. /\ live' = [live EXCEPT ![b] = values] /\ live'[b] = values
      /\ \A c \in BasicBlock \ {b} : live'[c] = live[c]
  BY <1>1, <1>6, <1>8 DEF LiveAtStart, LifeTypeOK
<1>10. PICK ranges : ranges = InLoop(b, values)
  OBVIOUS
<1>11. m_intervals' = [v \in Instr |->
         IF v \in DOMAIN ranges THEN Extend(m_intervals[v], ranges[v]) ELSE m_intervals[v]]
  BY <1>6, <1>8, <1>10 DEF LeaveBlock, LiveAtStart
<1>12. /\ DOMAIN intervals \subseteq DOMAIN ranges /\ DOMAIN ranges \subseteq Instr
       /\ \A v \in DOMAIN ranges : ranges[v] \in Int \X Int
       /\ \A v \in DOMAIN intervals : \A n \in Int :
            (/\ First(b) <= n /\ n < End(b)
             /\ intervals[v][1] <= n /\ n < intervals[v][2])
              => ranges[v][1] <= n /\ n < ranges[v][2]
       /\ b \in Headers => \A v \in values :
            /\ v \in DOMAIN ranges
            /\ ranges[v] = <<First(b), End(Last(loops[b].basic_blocks))>>
  BY <1>5, <1>7, <1>10, LoopRanges
<1>13. ASSUME NEW v \in Instr
       PROVE  /\ m_intervals'[v] \in Ranges
              /\ \A n \in Int :
                   \/ Covers(m_intervals[v], n)
                   \/ v \in DOMAIN ranges /\ ranges[v][1] <= n /\ n < ranges[v][2]
                   => Covers(m_intervals[v], n)'
  <2>1. CASE v \notin DOMAIN ranges
    <3>1. m_intervals'[v] = m_intervals[v]
      BY <1>11, <2>1
    <3> QED BY <1>5, <2>1, <3>1 DEF Covers
  <2>2. CASE v \in DOMAIN ranges
    <3>1. PICK s \in Ranges, r \in Int \X Int : s = m_intervals[v] /\ r = ranges[v]
      BY <1>5, <1>12, <2>2
    <3>2. m_intervals'[v] = Extend(s, r)
      BY <1>11, <2>2, <3>1
    <3>3. /\ Extend(s, r) \in Ranges
          /\ \A n \in Int : Covers(s, n) \/ (r[1] <= n /\ n < r[2]) => Covers(Extend(s, r), n)
      BY ExtendCovers
    <3>4. \A n : Covers(m_intervals[v], n)' <=> Covers(Extend(s, r), n)
      BY <3>2 DEF Covers
    <3> QED BY <3>1, <3>2, <3>3, <3>4
  <2> QED BY <2>1, <2>2
<1>14. ASSUME NEW k \in 1 .. place, NEW c, c = order[k], NEW v
       PROVE  NeededBehind(v, c)' <=> NeededBehind(v, c)
  <2>1. \A s \in Succs(Forward, c) : s \in BasicBlock \ {b}
    <3> SUFFICES ASSUME NEW s \in Succs(Forward, c) PROVE s \in BasicBlock \ {b}
      OBVIOUS
    <3>1. k \in 1 .. Len(order)
      BY <1>3
    <3>2. PICK j \in 1 .. k - 1 : order[j] = s
      BY <1>5, <1>14, <3>1 DEF Layout
    <3>3. j \in 1 .. Len(order) /\ j # place
      BY <1>3, <3>1
    <3>4. order[j] \in BasicBlock /\ order[j] # order[place]
      BY <1>3, <1>5, <3>3 DEF Layout, Distinct
    <3> QED BY <1>6, <3>2, <3>4
  <2> QED BY <1>1, <1>9, <2>1, SameProgram DEF NeededBehind
<1>15. ASSUME NEW k \in 1 .. place - 1
       PROVE  BlockIsLive(order[k])' /\ BlockIsCovered(order[k])' /\ LoopIsCovered(order[k])'
  <2>0. PICK c : c = order[k]
    OBVIOUS
  <2>1. k \in 1 .. place /\ k \in 1 .. Len(order) /\ k # place
    BY <1>3
  <2>2. c \in BasicBlock \ {b} /\ order'[k] = c
    BY <1>1, <1>3, <1>5, <1>6, <2>0, <2>1 DEF Layout, Distinct
  <2>3. live'[c] = live[c] /\ \A v : NeededBehind(v, c)' <=> NeededBehind(v, c)
    BY <1>9, <1>14, <2>0, <2>1, <2>2
  <2>4. BlockIsLive(c) /\ BlockIsCovered(c) /\ LoopIsCovered(c)
    BY <1>5, <2>0
  <2>5. BlockIsLive(c)'
    BY <1>1, <2>3, <2>4, SameProgram DEF BlockIsLive
  <2>6. BlockIsCovered(c)'
    <3>1. \A k1 \in DOMAIN Code(c) : NumberAt(c, k1) \in Int
      <4>1. Layout /\ c \in BasicBlock
        BY <1>5, <2>2
      <4>2. \A k1 \in Int : NumberAt(c, k1) \in Int
        BY ONLY LifeTypeOK, <4>1, NumbersInBlock
      <4>3. DOMAIN Code(c) = 1 .. Len(Code(c)) /\ Len(Code(c)) \in Nat
        BY <4>1, ProgramTypes
      <4> QED BY ONLY <4>2, <4>3
    <3> QED BY <1>1, <1>13, <2>3, <2>4, <3>1, SameProgram DEF BlockIsCovered
  <2>7. LoopIsCovered(c)'
    <3>1. c \in Headers => \A n \in First(c) .. End(Last(loops[c].basic_blocks)) - 1 : n \in Int
      OBVIOUS
    <3>2. live[c] \subseteq Instr
      BY <2>2 DEF LifeTypeOK
    <3> QED BY <1>1, <1>13, <2>3, <2>4, <3>1, <3>2, SameProgram DEF LoopIsCovered
  <2> QED BY <1>1, <2>0, <2>5, <2>6, <2>7
<1>16. BlockIsLive(b)' /\ BlockIsCovered(b)' /\ LoopIsCovered(b)'
  <2>1. \A v : NeededBehind(v, b)' <=> NeededBehind(v, b)
    BY <1>3, <1>6, <1>14
  <2>2. BlockIsLive(b)'
    <3>1. ASSUME NEW v \in Instr, b \notin DefBlocks(v),
                 NeededBehind(v, b) \/ \E j \in DOMAIN Code(b) : UsedAt(v, b, j)
          PROVE  v \in values
      BY <1>5, <1>7, <1>8, <3>1, WalkedCovers
    <3> QED BY <1>1, <1>9, <2>1, <3>1, SameProgram DEF BlockIsLive
  <2>3. BlockIsCovered(b)'
    <3>1. ASSUME NEW v \in Instr, NEW k \in DOMAIN Code(b), b \in DefBlocks(v) => MadeBy(v, b, k),
                 NeededBehind(v, b) \/ \E j \in k + 1 .. Len(Code(b)) : UsedAt(v, b, j)
          PROVE  Covers(m_intervals[v], NumberAt(b, k))'
      <4>1. PICK n : n = NumberAt(b, k)
        OBVIOUS
      <4>2. v \in DOMAIN intervals /\ intervals[v][1] <= n /\ n < intervals[v][2]
        BY <1>5, <1>7, <3>1, <4>1, WalkedCovers
      <4>3. n \in Int /\ First(b) <= n /\ n < End(b)
        <5>1. k \in Int /\ 1 <= k /\ k <= Len(Code(b))
          BY ProgramTypes
        <5> QED BY <1>5, <4>1, <5>1, NumbersInBlock
      <4>4. v \in DOMAIN ranges /\ ranges[v][1] <= n /\ n < ranges[v][2]
        BY <1>12, <4>2, <4>3
      <4>5. Covers(m_intervals[v], n)'
        BY <1>13, <4>3, <4>4
      <4>6. NumberAt(b, k)' = n
        BY <1>1, <4>1, SameProgram
      <4> QED BY <4>5, <4>6
    <3> QED BY <1>1, <2>1, <3>1, SameProgram DEF BlockIsCovered
  <2>4. LoopIsCovered(b)'
    <3>1. ASSUME b \in Headers, NEW v \in values,
                 NEW n \in First(b) .. End(Last(loops[b].basic_blocks)) - 1
          PROVE  Covers(m_intervals[v], n)'
      <4>1. PICK f \in Int, e \in Int : f = First(b) /\ e = End(Last(loops[b].basic_blocks))
        <5>1. PICK l \in BasicBlock : l = Last(loops[b].basic_blocks)
          BY <1>5, <3>1 DEF Layout
        <5>2. Layout
          BY <1>5
        <5>3. First(b) \in Nat /\ End(l) \in Nat
          BY ONLY LifeTypeOK, <5>2, b \in BasicBlock, l \in BasicBlock, NumbersInBlock
        <5> QED BY <5>1, <5>3
      <4>2. n \in Int /\ f <= n /\ n < e
        BY <4>1
      <4>3. v \in DOMAIN ranges /\ ranges[v] = <<f, e>>
        BY <1>12, <3>1, <4>1
      <4>4. ranges[v][1] <= n /\ n < ranges[v][2]
        BY <4>2, <4>3
      <4> QED BY <1>13, <4>2, <4>3, <4>4
    <3>2. /\ (b \in Headers)' <=> b \in Headers
          /\ First(b)' = First(b)
          /\ End(Last(loops[b].basic_blocks))' = End(Last(loops[b].basic_blocks))
      BY <1>1, SameProgram
    <3> QED BY <1>9, <3>1, <3>2 DEF LoopIsCovered
  <2> QED BY <2>2, <2>3, <2>4
<1>17. ASSUME NEW k \in 1 .. place
       PROVE  BlockIsLive(order[k])' /\ BlockIsCovered(order[k])' /\ LoopIsCovered(order[k])'
  <2>1. CASE k = place
    <3>1. order'[k] = b
      BY <1>1, <1>6, <2>1
    <3> QED BY <1>1, <1>16, <2>1, <3>1
  <2>2. CASE k # place
    <3>1. k \in 1 .. place - 1
      BY <1>3, <2>2
    <3> QED BY <1>15, <3>1
  <2> QED BY <2>1, <2>2
<1> QED BY <1>13, <1>17

LEMMA OtherStepsKeepRanges ==
  ASSUME LifeTypeOK, RangesSoFar,
         \/ LoopTreeStep \/ StartLinear \/ AlreadyPlaced \/ PlaceLoop \/ PlaceBlock \/ OrderReturn
         \/ NumberBlock \/ ReverseOrder \/ Unexpected \/ LifeReturn \/ UNCHANGED <<vars, lifeVars>>
  PROVE  RangesSoFar'
<1>1. CASE \/ LoopTreeStep \/ StartLinear \/ AlreadyPlaced \/ PlaceLoop \/ PlaceBlock \/ OrderReturn
           \/ NumberBlock
  <2>1. /\ stage \in {"loops", "linear", "number"} /\ stage' \in {"loops", "linear", "number"}
        /\ m_intervals' = m_intervals
    BY <1>1 DEF LoopTreeStep, StartLinear, AlreadyPlaced, PlaceLoop, PlaceBlock, OrderReturn, NumberBlock,
                InOrder, lifeVars, resultVars
  <2> QED BY <2>1 DEF RangesSoFar
<1>2. CASE ReverseOrder
  <2>1. /\ stage = "number" /\ stage' = "blocks" /\ place' = 1 /\ m_intervals' = m_intervals
    BY <1>2 DEF ReverseOrder, resultVars
  <2>2. \A v \in Instr : m_intervals[v] = <<>>
    BY <2>1 DEF RangesSoFar
  <2>3. \A v \in Instr : m_intervals'[v] \in Seq(Int \X Int)
    <3>1. <<>> \in Seq(Int \X Int)
      OBVIOUS
    <3> QED BY <2>1, <2>2, <3>1
  <2>4. 1 .. place' - 1 = {}
    BY <2>1
  <2> QED BY <2>1, <2>3, <2>4 DEF RangesSoFar
<1>3. CASE Unexpected \/ LifeReturn \/ UNCHANGED <<vars, lifeVars>>
  <2>1. /\ UNCHANGED <<vars, program, m_bb_lifetimes, order, live, m_intervals, place, at, intervals,
                       bb_live, instr_lifetime>>
        /\ \/ stage' = stage
           \/ stage \notin {"loops", "linear", "number"} /\ stage' \in {"aborted", "done"}
    BY <1>3 DEF Unexpected, LifeReturn, InBlock, lifeVars, programVars, resultVars, blockVars
  <2>2. CASE stage \in {"loops", "linear", "number"}
    BY <2>1, <2>2 DEF RangesSoFar
  <2>3. CASE stage \notin {"loops", "linear", "number"}
    <3>0. stage' \notin {"loops", "linear", "number"} /\ (Regular' <=> Regular)
      BY <2>1, <2>3, SameProgram
    <3> SUFFICES ASSUME Regular
                 PROVE  /\ \A v \in Instr : m_intervals'[v] \in Seq(Int \X Int)
                        /\ stage' = "instrs" => BlockSoFar(Current, at)'
                        /\ \A k \in 1 .. place - 1 :
                             BlockIsLive(order[k])' /\ BlockIsCovered(order[k])' /\ LoopIsCovered(order[k])'
      BY <2>1, <3>0 DEF RangesSoFar
    <3>1. /\ \A v \in Instr : m_intervals[v] \in Seq(Int \X Int)
          /\ stage = "instrs" => BlockSoFar(Current, at)
          /\ \A k \in 1 .. place - 1 :
               BlockIsLive(order[k]) /\ BlockIsCovered(order[k]) /\ LoopIsCovered(order[k])
      BY <2>3 DEF RangesSoFar
    <3>2. ASSUME stage' = "instrs" PROVE BlockSoFar(Current, at)'
      <4>1. PICK b, k : b = Current /\ k = at
        OBVIOUS
      <4>2. Walked(b, k, intervals, bb_live) /\ Counted(b, k, instr_lifetime)
        BY <2>1, <3>1, <3>2, <4>1, BlockSoFarNow
      <4>3. BlockSoFar(b, k)'
        BY <2>1, <4>2, BlockSoFarNext
      <4> QED BY <2>1, <4>1, <4>3 DEF Current
    <3>3. ASSUME NEW n \in 1 .. place - 1
          PROVE  BlockIsLive(order[n])' /\ BlockIsCovered(order[n])' /\ LoopIsCovered(order[n])'
      <4>1. PICK c : c = order[n]
        OBVIOUS
      <4>2. BlockIsLive(c)' /\ BlockIsCovered(c)' /\ LoopIsCovered(c)'
        BY <2>1, <3>1, <4>1, LeftBlocksStay
      <4> QED BY <2>1, <4>1, <4>2
    <3> QED BY <2>1, <3>1, <3>2, <3>3
  <2> QED BY <2>2, <2>3
<1> QED BY <1>1, <1>2, <1>3

LEMMA NextKeepsRanges ==
  ASSUME IInv, LifeTypeOK, WalkSoFar, RowSoFar, NumbersSoFar, RangesSoFar,
         [LifeNext]_<<vars, lifeVars>>
  PROVE  RangesSoFar'
<1>1. TypeOK
  BY DEF IInv, Core
<1>2. ASSUME stage \in {"blocks", "instrs"} PROVE Regular => Layout
  <2>1. stage \notin {"loops", "linear", "number"}
    BY <1>2
  <2> QED BY <2>1, LayOut
<1>3. CASE EnterBlock
  BY <1>1, <1>2, <1>3, EnterBlockKeepsRanges DEF EnterBlock
<1>4. CASE SkipPhi
  BY <1>2, <1>4, SkipPhiKeepsRanges DEF SkipPhi, InBlock
<1>5. CASE VisitInstr
  BY <1>2, <1>5, VisitInstrKeepsRanges DEF VisitInstr, InBlock
<1>6. CASE LeaveBlock
  BY <1>1, <1>2, <1>6, LeaveBlockKeepsRanges DEF LeaveBlock
<1> QED BY <1>3, <1>4, <1>5, <1>6, OtherStepsKeepRanges DEF LifeNext

(***************************************************************************)
(* What the walk found, at its end.                                        *)
(***************************************************************************)

\* v is live where block b starts, as far as live tells, or where a loop with b
\* in it starts.
InLive(v, b) ==
  v \in live[b] \/ \E h \in Headers : b \in NaturalLoop(m_succs, h) /\ v \in live[h]

AllLeft ==
  /\ m_succs \in BuiltGraphs /\ Headers = {e[2] : e \in BackEdges(m_succs)}
  /\ Headers \subseteq BasicBlock
  /\ \A b \in BasicBlock : BlockIsLive(b) /\ BlockIsCovered(b) /\ LoopIsCovered(b)

LEMMA AllAreLeft ==
  ASSUME IInv, WalkSoFar, LifeTypeOK, RowSoFar, NumbersSoFar, RangesSoFar,
         Regular, stage \notin {"loops", "linear", "number"}, place > Len(order)
  PROVE  Layout /\ AllLeft
<1>1. /\ Structured(m_succs) /\ phase = "done"
      /\ place \in Nat /\ Len(order) \in Nat
  BY DEF Regular, LifeTypeOK
<1>2. Layout
  BY <1>1, LayOut
<1>3. Tree(m_succs, rpo_vector, Headers, loops)
  BY <1>1, TreeIsThere
<1>4. \A k \in 1 .. Len(order) : k \in 1 .. place - 1
  BY <1>1
<1>5. \A k \in 1 .. Len(order) :
        BlockIsLive(order[k]) /\ BlockIsCovered(order[k]) /\ LoopIsCovered(order[k])
  BY <1>1, <1>4 DEF RangesSoFar
<1>6. ASSUME NEW b \in BasicBlock
      PROVE  BlockIsLive(b) /\ BlockIsCovered(b) /\ LoopIsCovered(b)
  <2>1. PICK k \in 1 .. Len(order) : order[k] = b
    BY <1>2 DEF Layout, Elements
  <2> QED BY <1>5, <2>1
<1> QED BY <1>2, <1>3, <1>6 DEF AllLeft, Tree

\* Backwards over an edge: into the block's own live, or into a loop around it.
LEMMA LiveOverEdge ==
  ASSUME TypeOK, AllLeft, NEW v \in Instr, NEW b \in BasicBlock, NEW s \in Succs(m_succs, b),
         InLive(v, s)
  PROVE  NeededBehind(v, b) \/ \E h \in Headers : b \in NaturalLoop(m_succs, h) /\ v \in live[h]
<1>0. s \in BasicBlock
  BY SuccsAreBlocks DEF AllLeft
<1>1. CASE v \in live[s] /\ <<b, s>> \notin BackEdges(m_succs)
  <2>1. s \in Succs(Forward, b)
    BY <1>1, ForwardSuccs
  <2> QED BY <1>1, <2>1 DEF NeededBehind
<1>2. CASE v \in live[s] /\ <<b, s>> \in BackEdges(m_succs)
  <2>1. <<b, s>>[2] = s
    OBVIOUS
  <2>2. s \in Headers
    BY <1>2, <2>1 DEF AllLeft
  <2>3. b \in NaturalLoop(m_succs, s)
    <3>1. CASE b = s
      BY <3>1, InNaturalLoop
    <3>2. CASE b # s
      <4>1. b \notin {s}
        BY <3>2
      <4>2. b \in Reach(m_succs, b, {s})
        BY <4>1, ReachStart
      <4> QED BY <1>2, <4>2, InNaturalLoop
    <3> QED BY <3>1, <3>2
  <2> QED BY <1>2, <2>2, <2>3
<1>3. ASSUME NEW h \in Headers, s \in NaturalLoop(m_succs, h), v \in live[h], s # h
      PROVE  b \in NaturalLoop(m_succs, h)
  <2>1. m_succs \in BuiltGraphs /\ s \in NaturalLoop(m_succs, h) \ {h}
    BY <1>3 DEF AllLeft
  <2> QED BY <2>1, PredInLoop
<1> QED BY <1>1, <1>2, <1>3 DEF InLive

\* A value that is needed where a block starts is in live there or where a loop
\* around the block starts.
LEMMA LiveInIsLive ==
  ASSUME TypeOK, LifeTypeOK, AllLeft, NEW v \in Instr, NEW b \in BasicBlock, LiveIn(v, b)
  PROVE  InLive(v, b)
<1> SUFFICES ASSUME ~ InLive(v, b) PROVE FALSE
  OBVIOUS
<1>0. m_succs \in BuiltGraphs
  BY DEF AllLeft
<1>1. PICK u \in Reach(m_succs, b, DefBlocks(v)) :
        TakenFrom(v, u) \/ \E k \in DOMAIN Code(u) : UsedAt(v, u, k)
  BY DEF LiveIn
<1>2. b \notin DefBlocks(v)
  BY <1>1 DEF Reach
<1> DEFINE S == {x \in BasicBlock : x \notin DefBlocks(v) /\ ~ InLive(v, x)}
<1>3. ASSUME NEW x \in S, NEW y \in Succs(m_succs, x), y \notin DefBlocks(v)
      PROVE  y \in S
  <2>1. y \in BasicBlock /\ x \in BasicBlock
    BY <1>0, SuccsAreBlocks
  <2> SUFFICES ASSUME InLive(v, y) PROVE FALSE
    BY <1>3, <2>1
  <2>2. ~ InLive(v, x) /\ x \notin DefBlocks(v)
    OBVIOUS
  <2>3. NeededBehind(v, x)
    BY <2>1, <2>2, LiveOverEdge DEF InLive
  <2>4. v \in live[x]
    BY <2>1, <2>2, <2>3 DEF AllLeft, BlockIsLive
  <2> QED BY <2>2, <2>4 DEF InLive
<1>4. b \in S
  BY <1>2
<1>5. ClosedUnder(m_succs, DefBlocks(v), S)
  BY <1>3 DEF ClosedUnder
<1>6. S \in SUBSET BasicBlock
  OBVIOUS
<1>7. u \in S
  <2> HIDE DEF S
  <2> QED BY <1>1, <1>4, <1>5, <1>6, ReachLeast
<1>8. u \in BasicBlock /\ u \notin DefBlocks(v) /\ ~ InLive(v, u)
  BY <1>7
<1>9. v \in live[u]
  BY <1>1, <1>8 DEF AllLeft, BlockIsLive, NeededBehind
<1> QED BY <1>8, <1>9 DEF InLive

\* Where a value is needed when the walk is over.
LEMMA NeededIsCovered ==
  ASSUME IInv, WalkSoFar, LifeTypeOK, RowSoFar, NumbersSoFar, RangesSoFar,
         Regular, stage \notin {"loops", "linear", "number"}, place > Len(order),
         NEW v \in Instr, NEW n \in LivePlaces(v)
  PROVE  Number(n) \in Int /\ Covers(m_intervals[v], Number(n))
<1>1. TypeOK
  BY DEF IInv, Core
<1>2. Layout /\ AllLeft
  BY <1>1, AllAreLeft
<1>3. PICK b \in BasicBlock : n \in {<<b, j>> : j \in DOMAIN Code(b)} /\ LiveAfter(v, n[1], n[2])
  BY DEF LivePlaces
<1>3a. PICK k \in DOMAIN Code(b) : n = <<b, k>>
  BY <1>3
<1>4. n[1] = b /\ n[2] = k /\ LiveAfter(v, b, k)
  BY <1>3, <1>3a
<1>5. Number(n) = NumberAt(b, k)
  BY <1>4 DEF Number, NumberAt
<1>6. k \in Int /\ 1 <= k /\ k <= Len(Code(b))
  BY ProgramTypes
<1>6a. Number(n) \in Int
  BY <1>2, <1>5, <1>6, NumbersInBlock
<1>7. b \in DefBlocks(v) => MadeBy(v, b, k)
  BY <1>4 DEF LiveAfter
<1>8. CASE NeededBehind(v, b) \/ \E j \in k + 1 .. Len(Code(b)) : UsedAt(v, b, j)
  BY <1>2, <1>5, <1>6a, <1>7, <1>8 DEF AllLeft, BlockIsCovered
<1>9. CASE \E h \in Headers : b \in NaturalLoop(m_succs, h) /\ v \in live[h]
  <2>1. PICK h \in Headers : b \in NaturalLoop(m_succs, h) /\ v \in live[h]
    BY <1>9
  <2>2. PICK l \in BasicBlock : l = Last(loops[h].basic_blocks)
    BY <1>2 DEF Layout
  <2>3. First(h) <= First(b) /\ End(b) <= End(l)
    BY <1>2, <2>1, <2>2 DEF Layout
  <2>4. /\ First(b) <= NumberAt(b, k) /\ NumberAt(b, k) < End(b)
        /\ NumberAt(b, k) \in Int /\ First(b) \in Int /\ End(b) \in Int
    BY <1>2, <1>6, NumbersInBlock
  <2>5. First(h) \in Int /\ End(l) \in Int
    <3>1. h \in BasicBlock
      BY <1>2 DEF AllLeft
    <3> QED BY <1>2, <3>1, NumbersInBlock
  <2>6. NumberAt(b, k) \in First(h) .. End(l) - 1
    BY <2>3, <2>4, <2>5
  <2> QED BY <1>2, <1>5, <1>6a, <2>1, <2>2, <2>6 DEF AllLeft, LoopIsCovered
<1>10. ASSUME NEW s \in Succs(m_succs, b), LiveIn(v, s)
       PROVE  NeededBehind(v, b) \/ \E h \in Headers : b \in NaturalLoop(m_succs, h) /\ v \in live[h]
  <2>1. s \in BasicBlock
    BY <1>2, SuccsAreBlocks DEF AllLeft
  <2>2. InLive(v, s)
    BY <1>1, <1>2, <1>10, <2>1, LiveInIsLive
  <2> QED BY <1>1, <1>2, <2>2, LiveOverEdge
<1>11. CASE LiveOut(v, b)
  <2>1. CASE TakenFrom(v, b)
    BY <1>8, <2>1 DEF NeededBehind
  <2>2. CASE \E s \in Succs(m_succs, b) : LiveIn(v, s)
    BY <1>8, <1>9, <1>10, <2>2
  <2> QED BY <1>11, <2>1, <2>2 DEF LiveOut
<1> QED BY <1>4, <1>8, <1>11 DEF LiveAfter

LEMMA RangesMeanCover ==
  ASSUME IInv, WalkSoFar, LifeTypeOK, RowSoFar, NumbersSoFar, RangesSoFar
  PROVE  LiveRangesCover
<1>1. stage = "done" => stage \notin {"loops", "linear", "number"} /\ place > Len(order)
  BY DEF LifeTypeOK
<1> QED BY <1>1, NeededIsCovered DEF LiveRangesCover, Regular

(***************************************************************************)
(* The theorems.                                                           *)
(***************************************************************************)

LEMMA InitLife == LifeInit => IInv /\ LifeIInv
<1> SUFFICES ASSUME LifeInit PROVE IInv /\ LifeIInv
  OBVIOUS
<1>1. IInv /\ WalkSoFar /\ LifeTypeOK
  BY InitLifeType, InitWalk, InitCore, InitLatches, InitLoops DEF IInv
<1>2. /\ stage = "loops" /\ linear = {} /\ order = <<>>
      /\ \A v \in Instr : m_intervals[v] = <<>>
  BY DEF LifeInit
<1>3. RowSoFar /\ NumbersSoFar /\ RangesSoFar
  BY <1>2 DEF RowSoFar, NumbersSoFar, RangesSoFar
<1> QED BY <1>1, <1>3 DEF LifeIInv

LEMMA NextKeepsLife == IInv /\ LifeIInv /\ [LifeNext]_<<vars, lifeVars>> => IInv' /\ LifeIInv'
<1> SUFFICES ASSUME IInv, LifeIInv, [LifeNext]_<<vars, lifeVars>> PROVE IInv' /\ LifeIInv'
  OBVIOUS
<1>1. /\ Core /\ LatchesSoFar /\ LoopsSoFar
      /\ LifeTypeOK /\ WalkSoFar /\ RowSoFar /\ NumbersSoFar /\ RangesSoFar
  BY DEF IInv, LifeIInv
<1>2. [Next]_vars
  BY LifeStepsAreTreeSteps
<1>3. IInv'
  BY <1>1, <1>2, NextKeepsCore, NextKeepsLatches, NextKeepsLoops DEF IInv
<1>4. WalkSoFar'
  BY <1>1, <1>2, <1>3, NextKeepsWalk
<1>5. LifeTypeOK' /\ RowSoFar' /\ NumbersSoFar' /\ RangesSoFar'
  BY <1>1, NextKeepsLifeType, NextKeepsRow, NextKeepsNumbers, NextKeepsRanges
<1> QED BY <1>3, <1>4, <1>5 DEF LifeIInv

LEMMA LifeMeans == IInv /\ LifeIInv => LinearOrderComplete /\ LiveRangesCover
BY RowMeansOrder, RangesMeanCover DEF LifeIInv

\* The constructor of LifeTime keeps the invariant of the loop tree and its own, in
\* any function, for any number of blocks and of instructions.
THEOREM LifeInvariance == LifeSpec => [](IInv /\ LifeIInv)
BY InitLife, NextKeepsLife, PTL DEF LifeSpec

\* In structured code linear_order returns each block once, the root first, and
\* leaves no marker.
THEOREM OrderIsComplete == LifeSpec => []LinearOrderComplete
BY LifeInvariance, LifeMeans, PTL

\* In structured code whose loops each end up in one piece of the linear order, with
\* the phis of a block at its start, a value has a range at each place where a
\* path leads to a use of it.
THEOREM RangesCover == LifeSpec => []LiveRangesCover
BY LifeInvariance, LifeMeans, PTL

(***************************************************************************)
(* What is known of the linear scan.                                       *)
(***************************************************************************)

AllocatorP ==
  INSTANCE LinearScanProofs WITH
    Lifetimes <- AnyLifetime, lifetime <- LifetimeOf,
    intervals <- sorted, pc <- allocation

\* What the proofs of LinearScan assume of its constants.
LEMMA AllocatorAssumptions ==
  /\ AllocatorP!IsFiniteSet(Instr)
  /\ Targets \subseteq Nat
  /\ \A L \in AnyLifetime :
       /\ L \subseteq Nat \X Nat
       /\ \E r \in L : \A q \in L : q[2] <= r[2]
BY InstrAssumption, TargetsAssumption DEF AnyLifetime, AllocatorP!IsFiniteSet, IsFiniteSet

\* What they prove, of the allocator in this pipeline.
LEMMA AllocatorStarts == AllocatorP!Init => AllocatorP!IInv
BY AllocatorP!InitIInv, AllocatorAssumptions

LEMMA AllocatorKeeps == AllocatorP!IInv /\ [AllocatorP!Next]_(AllocatorP!vars) => AllocatorP!IInv'
BY AllocatorP!NextKeepsIInv, AllocatorAssumptions

\* The invariant and the steps of the allocator are those its proofs speak of.
LEMMA SameAllocatorInvariant == Allocator!IInv <=> AllocatorP!IInv
BY DEF Allocator!Values, Allocator!Regs, Allocator!Register, Allocator!Spill,
       Allocator!Unallocated, Allocator!Location, Allocator!InRegister, Allocator!InMemory,
       Allocator!Disjoint, Allocator!Compatible, Allocator!DistinctSlots, Allocator!Least,
       Allocator!Greatest, Allocator!Earliest, Allocator!Latest, Allocator!Start, Allocator!End,
       Allocator!ActiveSet, Allocator!Current, Allocator!Handled, Allocator!StartsSorted,
       Allocator!EndsSorted, Allocator!Placed, Allocator!RegistersPartitioned, Allocator!Retired,
       Allocator!RegistersFollow, Allocator!NeverUndefined, Allocator!TypeOK, Allocator!IInv,
       AllocatorP!Values, AllocatorP!Regs, AllocatorP!Register, AllocatorP!Spill,
       AllocatorP!Unallocated, AllocatorP!Location, AllocatorP!InRegister, AllocatorP!InMemory,
       AllocatorP!Disjoint, AllocatorP!Compatible, AllocatorP!DistinctSlots, AllocatorP!Least,
       AllocatorP!Greatest, AllocatorP!Earliest, AllocatorP!Latest, AllocatorP!Start,
       AllocatorP!End, AllocatorP!ActiveSet, AllocatorP!Current, AllocatorP!Handled,
       AllocatorP!StartsSorted, AllocatorP!EndsSorted, AllocatorP!Placed,
       AllocatorP!RegistersPartitioned, AllocatorP!Retired, AllocatorP!RegistersFollow,
       AllocatorP!NeverUndefined, AllocatorP!TypeOK, AllocatorP!IInv,
       Allocator!Cardinality, AllocatorP!Cardinality, Cardinality

LEMMA SameAllocatorSteps == Allocator!Next <=> AllocatorP!Next
BY DEF Allocator!Next, Allocator!PrepareIntervals, Allocator!ExpireOne, Allocator!KeepOne,
       Allocator!TakeFreeRegister, Allocator!SpillActive, Allocator!SpillCurrent,
       Allocator!Undefined, Allocator!Finish, Allocator!StartOrders, Allocator!InLoop,
       Allocator!Current, Allocator!EndedBefore, Allocator!Release, Allocator!Expired,
       Allocator!NextIteration, Allocator!LowerBound, Allocator!InsertByEnd, Allocator!Victim,
       Allocator!Erase, Allocator!Insert, Allocator!Back, Allocator!PopBack, Allocator!Start,
       Allocator!End, Allocator!Earliest, Allocator!Latest, Allocator!Least, Allocator!Greatest,
       Allocator!Values, Allocator!Regs, Allocator!Register, Allocator!Spill,
       Allocator!Unallocated, Allocator!Cardinality,
       AllocatorP!Next, AllocatorP!PrepareIntervals, AllocatorP!ExpireOne, AllocatorP!KeepOne,
       AllocatorP!TakeFreeRegister, AllocatorP!SpillActive, AllocatorP!SpillCurrent,
       AllocatorP!Undefined, AllocatorP!Finish, AllocatorP!StartOrders, AllocatorP!InLoop,
       AllocatorP!Current, AllocatorP!EndedBefore, AllocatorP!Release, AllocatorP!Expired,
       AllocatorP!NextIteration, AllocatorP!LowerBound, AllocatorP!InsertByEnd, AllocatorP!Victim,
       AllocatorP!Erase, AllocatorP!Insert, AllocatorP!Back, AllocatorP!PopBack, AllocatorP!Start,
       AllocatorP!End, AllocatorP!Earliest, AllocatorP!Latest, AllocatorP!Least,
       AllocatorP!Greatest, AllocatorP!Values, AllocatorP!Regs, AllocatorP!Register,
       AllocatorP!Spill, AllocatorP!Unallocated, AllocatorP!Cardinality
       

LEMMA AllocatorMeans == AllocatorP!IInv => AllocatorP!NoClobber
BY AllocatorP!InvariantNoClobber, AllocatorAssumptions

(***************************************************************************)
(* The lifetimes that LifeTime collects.                                   *)
(***************************************************************************)

\* A range that is added leaves one that ends last.
LEMMA ExtendHasEnd ==
  ASSUME NEW s, HasEnd(s), NEW r \in Nat \X Nat
  PROVE  HasEnd(Extend(s, r))
<1> DEFINE I == {i \in 1 .. Len(s) : r[1] = s[i][2] \/ r[2] = s[i][1]}
           k == Touching(s, r)
           t == Extend(s, r)
<1>0. Len(s) \in Nat /\ DOMAIN s = 1 .. Len(s) /\ s \in Seq(Nat \X Nat)
  BY DEF HasEnd
<1>1. k = IF I # {} THEN Min(I) ELSE 0
  BY <1>0 DEF Touching, SelectInSeq
<1>2. CASE I = {}
  <2>1. t = Append(s, r)
    BY <1>1, <1>2 DEF Extend
  <2> HIDE DEF t
  <2>2. /\ t \in Seq(Nat \X Nat) /\ Len(t) = Len(s) + 1 /\ t[Len(s) + 1] = r
        /\ \A i \in 1 .. Len(s) : t[i] = s[i]
    BY <1>0, <2>1
  <2>3. /\ DOMAIN t = 1 .. Len(s) + 1 /\ Len(s) + 1 \in DOMAIN t
        /\ \A i \in DOMAIN t : i \in 1 .. Len(s) \/ i = Len(s) + 1
        /\ \A i \in 1 .. Len(s) : i \in DOMAIN t
    BY <1>0, <2>2
  <2>4. \E j \in DOMAIN t : \A i \in DOMAIN t : t[i][2] <= t[j][2]
    <3>1. r[2] \in Nat /\ \A i \in 1 .. Len(s) : s[i][2] \in Nat
      BY <1>0
    <3>2. CASE s = <<>>
      <4>1. \A i \in DOMAIN t : i = Len(s) + 1
        BY <2>3, <3>2
      <4> QED BY <2>2, <2>3, <3>1, <4>1
    <3>3. CASE s # <<>>
      <4>1. PICK j \in 1 .. Len(s) : \A i \in 1 .. Len(s) : s[i][2] <= s[j][2]
        BY <1>0, <3>3 DEF HasEnd
      <4>2. CASE r[2] <= s[j][2]
        BY <2>2, <2>3, <4>1, <4>2
      <4>3. CASE r[2] > s[j][2]
        <5>1. \A i \in 1 .. Len(s) : s[i][2] <= r[2]
          BY <3>1, <4>1, <4>3
        <5>2. PICK l \in DOMAIN t : l = Len(s) + 1
          BY <2>3
        <5>3. ASSUME NEW i \in DOMAIN t PROVE t[i][2] <= t[l][2]
          <6>1. t[l] = r
            BY <2>2, <5>2
          <6>2. CASE i \in 1 .. Len(s)
            BY <2>2, <5>1, <6>1, <6>2
          <6>3. CASE i = l
            BY <3>1, <6>1, <6>3
          <6> QED BY <2>3, <5>2, <6>2, <6>3
        <5> QED BY <5>3
      <4> QED BY <3>1, <4>2, <4>3
    <3> QED BY <3>2, <3>3
  <2> QED BY <2>2, <2>4 DEF t, HasEnd
<1>3. CASE I # {}
  <2>1. I \subseteq Nat /\ k = Min(I)
    BY <1>0, <1>1, <1>3
  <2>2. \E m \in I : \A i \in I : m <= i
    BY <1>3, <2>1, NatHasLeast
  <2>3. k \in I
    BY <2>1, <2>2 DEF Min
  <2> HIDE DEF k
  <2>4. k \in 1 .. Len(s) /\ k # 0 /\ s[k] \in Nat \X Nat
    BY <1>0, <2>3
  <2>5. PICK a \in Nat, b \in Nat, c \in Nat, d \in Nat : s[k] = <<a, b>> /\ r = <<c, d>>
    BY <2>4
  <2>6. Min({a, c}) \in Nat
    <3>1. \E m \in {a, c} : \A i \in {a, c} : m <= i
      BY <2>5
    <3>2. Min({a, c}) \in {a, c}
      BY <3>1 DEF Min
    <3> QED BY <2>5, <3>2
  <2>7. Max({b, d}) \in Nat /\ Max({b, d}) >= b
    <3>1. \E m \in {b, d} : \A i \in {b, d} : m >= i
      BY <2>5
    <3>2. Max({b, d}) \in {b, d} /\ \A i \in {b, d} : Max({b, d}) >= i
      BY <3>1 DEF Max
    <3> QED BY <2>5, <3>2
  <2>8. PICK x \in Nat, y \in Nat : x = Min({a, c}) /\ y = Max({b, d})
    BY <2>6, <2>7
  <2>9. t = [s EXCEPT ![k] = <<x, y>>]
    <3>1. t = [s EXCEPT ![k] = <<Min({s[k][1], r[1]}), Max({s[k][2], r[2]})>>]
      BY <2>4 DEF Extend, k
    <3> QED BY <2>5, <2>8, <3>1
  <2> HIDE DEF t
  <2>10. /\ t \in Seq(Nat \X Nat) /\ DOMAIN t = 1 .. Len(s) /\ t[k][2] = y
         /\ \A i \in 1 .. Len(s) : i # k => t[i] = s[i]
    BY <1>0, <2>4, <2>8, <2>9
  <2>11. PICK j \in 1 .. Len(s) : \A i \in 1 .. Len(s) : s[i][2] <= s[j][2]
    BY <1>0, <2>4 DEF HasEnd
  <2>12. y \in Nat /\ y >= s[k][2] /\ \A i \in 1 .. Len(s) : s[i][2] \in Nat
    BY <1>0, <2>5, <2>7, <2>8
  <2>13. CASE y >= s[j][2]
    <3>1. ASSUME NEW i \in 1 .. Len(s) PROVE t[i][2] <= y
      <4>1. CASE i = k
        BY <2>10, <2>12, <4>1
      <4>2. CASE i # k
        <5>1. s[i][2] <= s[j][2] /\ t[i][2] = s[i][2]
          BY <2>10, <2>11, <4>2
        <5> QED BY <2>12, <2>13, <5>1
      <4> QED BY <4>1, <4>2
    <3> QED BY <2>4, <2>10, <3>1 DEF t, HasEnd
  <2>14. CASE y < s[j][2]
    <3>1. j # k
      BY <2>12, <2>14
    <3>2. ASSUME NEW i \in 1 .. Len(s) PROVE t[i][2] <= t[j][2]
      <4>0. t[j] = s[j]
        BY <2>10, <3>1
      <4>1. CASE i = k
        <5>1. t[i][2] = y
          BY <2>10, <4>1
        <5> QED BY <2>12, <2>14, <4>0, <5>1
      <4>2. CASE i # k
        BY <2>10, <2>11, <4>0, <4>2
      <4> QED BY <4>1, <4>2
    <3> QED BY <2>10, <2>11, <3>2 DEF t, HasEnd
  <2> QED BY <2>12, <2>13, <2>14
<1> QED BY <1>2, <1>3
\* In a block every range has its numbers.
LEMMA LifetimesGoOn ==
  ASSUME LifetimesSoFar, EnterBlock \/ SkipPhi \/ VisitInstr,
         Regular => \A v \in DOMAIN intervals' : intervals'[v] \in Nat \X Nat
  PROVE  LifetimesSoFar'
<1>1. /\ UNCHANGED <<vars, program, m_bb_lifetimes, order, m_intervals>>
      /\ stage \notin {"loops", "linear", "number"}
  BY DEF EnterBlock, SkipPhi, VisitInstr, InBlock, programVars, resultVars
<1>2. Regular' <=> Regular
  BY <1>1, SameProgram
<1>3. Regular => \A v \in Instr : HasEnd(m_intervals[v])
  BY <1>1 DEF LifetimesSoFar
<1>4. Regular => \A v \in Instr : HasEnd(m_intervals'[v])
  BY <1>1, <1>3
<1> QED BY <1>2, <1>4 DEF LifetimesSoFar

LEMMA EnterBlockKeepsLifetimes ==
  ASSUME LifeTypeOK, Regular => Layout, LifetimesSoFar, EnterBlock
  PROVE  LifetimesSoFar'
<1> SUFFICES ASSUME Regular
             PROVE  \A v \in DOMAIN intervals' : intervals'[v] \in Nat \X Nat
  BY LifetimesGoOn
<1>1. /\ stage = "blocks" /\ place <= Len(order)
      /\ intervals' = [i \in bb_live' |-> <<First(Current), End(Current)>>]
  BY DEF EnterBlock
<1>2. Current \in BasicBlock
  BY <1>1, BlockOfRow
<1>3. First(Current) \in Nat /\ End(Current) \in Nat
  BY <1>2, NumbersInBlock
<1> QED BY <1>1, <1>3

LEMMA SkipPhiKeepsLifetimes ==
  ASSUME LifetimesSoFar, SkipPhi
  PROVE  LifetimesSoFar'
<1> SUFFICES ASSUME Regular
             PROVE  \A v \in DOMAIN intervals' : intervals'[v] \in Nat \X Nat
  BY LifetimesGoOn
<1>1. stage = "instrs" /\ intervals' = intervals
  BY DEF SkipPhi, InBlock
<1>2. \A v \in DOMAIN intervals : intervals[v] \in Nat \X Nat
  BY <1>1 DEF LifetimesSoFar
<1> QED BY <1>1, <1>2

LEMMA VisitInstrKeepsLifetimes ==
  ASSUME LifeTypeOK, Regular => Layout, RangesSoFar, LifetimesSoFar, VisitInstr
  PROVE  LifetimesSoFar'
<1> SUFFICES ASSUME Regular, NEW v \in DOMAIN intervals'
             PROVE  intervals'[v] \in Nat \X Nat
  BY LifetimesGoOn
<1>1. InBlock /\ stage = "instrs" /\ Type(This) # "kPhi"
  BY DEF VisitInstr, InBlock
<1>2. PICK b, k, i : b = Current /\ k = at /\ i = This
  OBVIOUS
<1>3. /\ b \in BasicBlock /\ k \in 1 .. Len(Code(b)) /\ Len(Code(b)) \in Nat
      /\ instr_lifetime = NumberAt(b, k)
  BY <1>1, <1>2, DuringBlock DEF Counted
<1>4. PICK f \in Nat, n \in Nat : f = First(b) /\ n = instr_lifetime
  <2>1. k \in Int /\ k >= 1
    BY <1>3
  <2>2. First(b) \in Nat /\ NumberAt(b, k) \in Int /\ First(b) <= NumberAt(b, k)
    BY <1>3, <2>1, NumbersInBlock
  <2> QED BY <1>3, <2>2
<1>5. PICK new : new = ToSet(program.operands[i]) \ DOMAIN intervals
  OBVIOUS
<1>6. intervals' = [u \in DOMAIN intervals \cup new |->
        IF u \in new THEN <<f, n>> ELSE IF u = i THEN <<n, intervals[u][2]>> ELSE intervals[u]]
  BY <1>2, <1>4, <1>5 DEF VisitInstr
<1>7. \A u \in DOMAIN intervals : intervals[u] \in Nat \X Nat
  BY <1>1 DEF LifetimesSoFar
<1>8. v \in DOMAIN intervals \cup new
  BY <1>6
<1>9. CASE v \in new
  BY <1>6, <1>9
<1>10. CASE v \notin new
  <2>1. v \in DOMAIN intervals /\ intervals[v] \in Nat \X Nat
    BY <1>7, <1>8, <1>10
  <2>2. intervals'[v] = <<n, intervals[v][2]>> \/ intervals'[v] = intervals[v]
    BY <1>6, <1>8, <1>10
  <2> QED BY <2>1, <2>2
<1> QED BY <1>9, <1>10

LEMMA LeaveBlockKeepsLifetimes ==
  ASSUME LifeTypeOK, Regular => Layout, LifetimesSoFar, LeaveBlock
  PROVE  LifetimesSoFar'
<1>1. /\ stage = "instrs" /\ at = 0 /\ stage' = "blocks"
      /\ UNCHANGED <<vars, program, m_bb_lifetimes, order>>
  BY DEF LeaveBlock, programVars
<1>2. Regular' <=> Regular
  BY <1>1, SameProgram
<1> SUFFICES ASSUME Regular, NEW v \in Instr
             PROVE  HasEnd(m_intervals'[v])
  BY <1>1, <1>2 DEF LifetimesSoFar
<1>3. /\ \A u \in Instr : HasEnd(m_intervals[u])
      /\ \A u \in DOMAIN intervals : intervals[u] \in Nat \X Nat
  BY <1>1 DEF LifetimesSoFar
<1>4. PICK b \in BasicBlock : b = Current
  BY <1>1, InsideBlock
<1>5. PICK values, ranges : values = LiveAtStart /\ ranges = InLoop(b, values)
  OBVIOUS
<1>6. m_intervals' = [u \in Instr |->
        IF u \in DOMAIN ranges THEN Extend(m_intervals[u], ranges[u]) ELSE m_intervals[u]]
  BY <1>4, <1>5 DEF LeaveBlock
<1>7. \A u \in DOMAIN ranges : ranges[u] \in Nat \X Nat
  <2>1. CASE b \notin Headers
    <3>1. ranges = intervals
      BY <1>5, <2>1 DEF Layout, InLoop
    <3> QED BY <1>3, <3>1
  <2>2. CASE b \in Headers
    <3>1. PICK f, e : f = First(b) /\ e = End(Last(loops[b].basic_blocks))
      OBVIOUS
    <3>2. ranges = [u \in DOMAIN intervals \cup values |->
                      IF u \in values THEN <<f, e>> ELSE intervals[u]]
      BY <1>5, <2>2, <3>1 DEF Layout, InLoop
    <3>3. f \in Nat /\ e \in Nat
      <4>1. Last(loops[b].basic_blocks) \in BasicBlock
        BY <2>2 DEF Layout
      <4> QED BY <3>1, <4>1, NumbersInBlock
    <3>4. ASSUME NEW u \in DOMAIN ranges PROVE ranges[u] \in Nat \X Nat
      <4>1. CASE u \in values
        BY <3>2, <3>3, <4>1
      <4>2. CASE u \notin values
        <5>1. u \in DOMAIN intervals /\ ranges[u] = intervals[u]
          BY <3>2, <4>2
        <5> QED BY <1>3, <5>1
      <4> QED BY <4>1, <4>2
    <3> QED BY <3>4
  <2> QED BY <2>1, <2>2
<1>8. CASE v \in DOMAIN ranges
  <2>1. m_intervals'[v] = Extend(m_intervals[v], ranges[v])
    BY <1>6, <1>8
  <2> QED BY <1>3, <1>7, <1>8, <2>1, ExtendHasEnd
<1>9. CASE v \notin DOMAIN ranges
  <2>1. m_intervals'[v] = m_intervals[v]
    BY <1>6, <1>9
  <2> QED BY <1>3, <2>1
<1> QED BY <1>8, <1>9

LEMMA OtherStepsKeepLifetimes ==
  ASSUME RangesSoFar, LifetimesSoFar,
         \/ LoopTreeStep \/ StartLinear \/ AlreadyPlaced \/ PlaceLoop \/ PlaceBlock \/ OrderReturn
         \/ NumberBlock \/ ReverseOrder \/ Unexpected \/ LifeReturn \/ UNCHANGED <<vars, lifeVars>>
  PROVE  LifetimesSoFar'
<1>1. CASE \/ LoopTreeStep \/ StartLinear \/ AlreadyPlaced \/ PlaceLoop \/ PlaceBlock \/ OrderReturn
           \/ NumberBlock
  <2>1. stage' \in {"loops", "linear", "number"}
    BY <1>1 DEF LoopTreeStep, StartLinear, AlreadyPlaced, PlaceLoop, PlaceBlock, OrderReturn, NumberBlock,
                InOrder, lifeVars, resultVars
  <2> QED BY <2>1 DEF LifetimesSoFar
<1>2. CASE ReverseOrder
  <2>1. /\ stage = "number" /\ stage' = "blocks" /\ m_intervals' = m_intervals
    BY <1>2 DEF ReverseOrder, resultVars
  <2>2. \A v \in Instr : m_intervals'[v] = <<>>
    BY <2>1 DEF RangesSoFar
  <2>3. HasEnd(<<>>)
    BY DEF HasEnd
  <2> QED BY <2>1, <2>2, <2>3 DEF LifetimesSoFar
<1>3. CASE Unexpected \/ LifeReturn \/ UNCHANGED <<vars, lifeVars>>
  <2>1. /\ UNCHANGED <<vars, program, m_bb_lifetimes, order, m_intervals, intervals>>
        /\ \/ stage' = stage
           \/ stage \notin {"loops", "linear", "number"} /\ stage' \in {"aborted", "done"}
    BY <1>3 DEF Unexpected, LifeReturn, InBlock, lifeVars, programVars, resultVars, blockVars
  <2>2. Regular' <=> Regular
    BY <2>1, SameProgram
  <2> QED BY <2>1, <2>2 DEF LifetimesSoFar
<1> QED BY <1>1, <1>2, <1>3

LEMMA NextKeepsLifetimes ==
  ASSUME IInv, LifeIInv, LifetimesSoFar, [LifeNext]_<<vars, lifeVars>>
  PROVE  LifetimesSoFar'
<1>0. LifeTypeOK /\ WalkSoFar /\ RowSoFar /\ NumbersSoFar /\ RangesSoFar
  BY DEF LifeIInv
<1>1. ASSUME stage \in {"blocks", "instrs"} PROVE Regular => Layout
  <2>1. stage \notin {"loops", "linear", "number"}
    BY <1>1
  <2> QED BY <1>0, <2>1, LayOut
<1>2. CASE EnterBlock
  BY <1>0, <1>1, <1>2, EnterBlockKeepsLifetimes DEF EnterBlock
<1>3. CASE SkipPhi
  BY <1>3, SkipPhiKeepsLifetimes
<1>4. CASE VisitInstr
  BY <1>0, <1>1, <1>4, VisitInstrKeepsLifetimes DEF VisitInstr, InBlock
<1>5. CASE LeaveBlock
  BY <1>0, <1>1, <1>5, LeaveBlockKeepsLifetimes DEF LeaveBlock
<1> QED BY <1>0, <1>2, <1>3, <1>4, <1>5, OtherStepsKeepLifetimes DEF LifeNext
(***************************************************************************)
(* LifeTime is over when LinearScan runs.                                  *)
(***************************************************************************)

LEMMA LifeTimeStays ==
  ASSUME LifeIInv, LifetimesSoFar, stage \in {"done", "allocate"}, stage' = "allocate",
         UNCHANGED <<vars, programVars, linear, place, order, resultVars, blockVars>>
  PROVE  LifeIInv' /\ LifetimesSoFar'
<1>1. /\ LifeTypeOK /\ WalkSoFar /\ RowSoFar /\ NumbersSoFar /\ RangesSoFar
      /\ stage \notin {"loops", "linear", "number"}
  BY DEF LifeIInv
<1>2. /\ UNCHANGED <<vars, program, m_bb_lifetimes, bb_lifetime, order, live, m_intervals, place, bb_live,
                     intervals, linear>>
      /\ m_succs' = m_succs /\ Headers' = Headers /\ loops' = loops /\ phase' = phase
  BY DEF vars, graphVars, programVars, resultVars, blockVars, Headers
<1>3. LifeTypeOK'
  BY <1>1, <1>2 DEF LifeTypeOK
<1>4. WalkSoFar'
  BY <1>1, <1>2, WalkStays DEF LifeTypeOK
<1>5. RowSoFar'
  <2> SUFFICES ASSUME Structured(m_succs) PROVE RowSoFar'
    BY <1>2, RowSoFarNext
  <2>1. PICK row :
          /\ row = IF stage = "number" THEN order ELSE Reverse(order)
          /\ linear = {} /\ RowOf(m_succs, row, Headers)
          /\ Elements(row) = BasicBlock /\ row[1] = root
    BY <1>1, RowSoFarNow
  <2> QED BY <1>1, <1>2, <2>1, RowSoFarNext
<1>6. NumbersSoFar'
  BY <1>1, <1>2 DEF NumbersSoFar, End, First, Length, Code
<1>7. Regular' <=> Regular
  BY <1>2, SameProgram
<1>8. RangesSoFar'
  <2> SUFFICES ASSUME Regular
               PROVE  /\ \A v \in Instr : m_intervals'[v] \in Seq(Int \X Int)
                      /\ \A k \in 1 .. place - 1 :
                           BlockIsLive(order[k])' /\ BlockIsCovered(order[k])' /\ LoopIsCovered(order[k])'
    BY <1>2, <1>7 DEF RangesSoFar
  <2>1. /\ \A v \in Instr : m_intervals[v] \in Seq(Int \X Int)
        /\ \A k \in 1 .. place - 1 :
             BlockIsLive(order[k]) /\ BlockIsCovered(order[k]) /\ LoopIsCovered(order[k])
    BY <1>1 DEF RangesSoFar
  <2>2. ASSUME NEW n \in 1 .. place - 1
        PROVE  BlockIsLive(order[n])' /\ BlockIsCovered(order[n])' /\ LoopIsCovered(order[n])'
    <3>1. PICK c : c = order[n]
      OBVIOUS
    <3>2. BlockIsLive(c)' /\ BlockIsCovered(c)' /\ LoopIsCovered(c)'
      BY <1>2, <2>1, <3>1, LeftBlocksStay
    <3> QED BY <1>2, <3>1, <3>2
  <2> QED BY <1>2, <2>1, <2>2
<1>9. LifetimesSoFar'
  BY <1>1, <1>2, <1>7 DEF LifetimesSoFar
<1> QED BY <1>3, <1>4, <1>5, <1>6, <1>8, <1>9 DEF LifeIInv

(***************************************************************************)
(* The allocator starts on its own and keeps its invariant.                *)
(***************************************************************************)

\* A value in m_intervals has a lifetime that LinearScan takes.
LEMMA LifetimesAreTaken ==
  ASSUME \A v \in Instr : HasEnd(m_intervals[v])
  PROVE  LifetimeOf \in [Values -> AnyLifetime] /\ Values \in SUBSET Instr
<1> SUFFICES ASSUME NEW v \in Values PROVE ToSet(m_intervals[v]) \in AnyLifetime
  BY DEF LifetimeOf, Values
<1>1. PICK s : s = m_intervals[v]
  OBVIOUS
<1>2. HasEnd(s) /\ s # <<>>
  BY <1>1 DEF Values
<1>3. s \in Seq(Nat \X Nat) /\ DOMAIN s = 1 .. Len(s)
  BY <1>2 DEF HasEnd
<1>4. PICK j \in DOMAIN s : \A k \in DOMAIN s : s[k][2] <= s[j][2]
  BY <1>2 DEF HasEnd
<1>5. ToSet(s) = {s[k] : k \in DOMAIN s}
  BY DEF ToSet
<1>6. ToSet(s) \subseteq Nat \X Nat
  BY <1>3, <1>5
<1>7. s[j] \in ToSet(s) /\ \A q \in ToSet(s) : q[2] <= s[j][2]
  BY <1>4, <1>5
<1> QED BY <1>1, <1>6, <1>7 DEF AnyLifetime

LEMMA ConstructStarts ==
  ASSUME ConstructLinearScan, \A v \in Instr : HasEnd(m_intervals[v]),
         sorted = <<>>, active = <<>>, spill_count = 0, next = 1, scan = 1
  PROVE  Allocator!IInv'
<1>1. /\ regs_num' \in Targets /\ free_regs' = 0 .. regs_num' - 1
      /\ m_results' = [i \in Values |-> [kind |-> "Unallocated", index |-> 0]]
      /\ allocation' = "prepare" /\ m_intervals' = m_intervals
      /\ sorted' = <<>> /\ active' = <<>> /\ spill_count' = 0 /\ next' = 1 /\ scan' = 1
  BY DEF ConstructLinearScan, resultVars
<1>2. Values' = Values /\ LifetimeOf' = LifetimeOf
  BY <1>1 DEF Values, LifetimeOf
<1>3. LifetimeOf \in [Values -> AnyLifetime] /\ Values \in SUBSET Instr /\ DOMAIN LifetimeOf = Values
  BY LifetimesAreTaken DEF LifetimeOf
<1>4. AllocatorP!Init'
  BY <1>1, <1>2, <1>3 DEF AllocatorP!Init, AllocatorP!Inputs, AllocatorP!Values, AllocatorP!Regs,
     AllocatorP!Unallocated
<1>5. (AllocatorP!Init => AllocatorP!IInv)'
  BY AllocatorStarts, PTL
<1>6. (Allocator!IInv <=> AllocatorP!IInv)'
  BY SameAllocatorInvariant, PTL
<1> QED BY <1>4, <1>5, <1>6

LEMMA AllocatorStepKeeps ==
  ASSUME Allocator!IInv, Allocator!Next \/ UNCHANGED <<m_intervals, allocVars>>
  PROVE  Allocator!IInv'
<1>1. (Allocator!IInv <=> AllocatorP!IInv)'
  BY SameAllocatorInvariant, PTL
<1>2. UNCHANGED <<m_intervals, allocVars>> => UNCHANGED AllocatorP!vars
  BY DEF allocVars, AllocatorP!vars, LifetimeOf, Values
<1> QED BY <1>1, <1>2, SameAllocatorInvariant, SameAllocatorSteps, AllocatorKeeps

LEMMA AllocatorIsOn == Allocator!Next => allocation # "none" /\ allocation' # "none"
BY SameAllocatorSteps DEF AllocatorP!Next, AllocatorP!PrepareIntervals, AllocatorP!ExpireOne,
   AllocatorP!KeepOne, AllocatorP!TakeFreeRegister, AllocatorP!SpillActive, AllocatorP!SpillCurrent,
   AllocatorP!Undefined, AllocatorP!Finish, AllocatorP!InLoop, AllocatorP!Expired

(***************************************************************************)
(* The three constructors, one after the other.                            *)
(***************************************************************************)

LEMMA InitPipeline == PipelineInit => PipelineIInv
<1> SUFFICES ASSUME PipelineInit PROVE PipelineIInv
  OBVIOUS
<1>1. IInv /\ LifeIInv
  BY InitLife DEF PipelineInit
<1>2. stage = "loops"
  BY DEF PipelineInit, LifeInit
<1>3. LifetimesSoFar /\ AllocationSoFar
  BY <1>2 DEF PipelineInit, LifetimesSoFar, AllocationSoFar
<1> QED BY <1>1, <1>3 DEF PipelineIInv

LEMMA NextKeepsPipeline ==
  PipelineIInv /\ [PipelineNext]_<<vars, lifeVars, allocVars>> => PipelineIInv'
<1> SUFFICES ASSUME PipelineIInv, [PipelineNext]_<<vars, lifeVars, allocVars>> PROVE PipelineIInv'
  OBVIOUS
<1>0. IInv /\ LifeIInv /\ LifetimesSoFar /\ AllocationSoFar
  BY DEF PipelineIInv
<1>1. CASE LifeTimeStep
  <2>1. LifeNext /\ UNCHANGED allocVars
    BY <1>1 DEF LifeTimeStep
  <2>2. IInv' /\ LifeIInv' /\ LifetimesSoFar'
    BY <1>0, <2>1, NextKeepsLife, NextKeepsLifetimes
  <2>3. stage # "allocate" /\ stage' # "allocate"
    BY <2>1 DEF LifeNext, LoopTreeStep, StartLinear, AlreadyPlaced, PlaceLoop, PlaceBlock, OrderReturn,
       NumberBlock, ReverseOrder, EnterBlock, SkipPhi, Unexpected, VisitInstr, LeaveBlock, LifeReturn,
       InOrder, InBlock, lifeVars
  <2>4. AllocationSoFar'
    BY <1>0, <2>1, <2>3 DEF AllocationSoFar, allocVars
  <2> QED BY <2>2, <2>4 DEF PipelineIInv
<1>2. ASSUME stage \in {"done", "allocate"}, stage' = "allocate",
             UNCHANGED <<vars, programVars, linear, place, order, resultVars, blockVars>>
      PROVE  IInv' /\ LifeIInv' /\ LifetimesSoFar' /\ place' = place /\ order' = order /\ (Regular' <=> Regular)
  <2>1. IInv'
    BY <1>0, <1>2, NextKeepsCore, NextKeepsLatches, NextKeepsLoops DEF IInv
  <2>2. Regular' <=> Regular
    BY <1>2, SameProgram DEF programVars
  <2> QED BY <1>0, <1>2, <2>1, <2>2, LifeTimeStays
<1>3. CASE ConstructLinearScan
  <2>1. /\ stage = "done" /\ stage' = "allocate" /\ allocation' = "prepare"
        /\ UNCHANGED <<vars, programVars, linear, place, order, resultVars, blockVars>>
    BY <1>3 DEF ConstructLinearScan
  <2>2. IInv' /\ LifeIInv' /\ LifetimesSoFar' /\ place' = place /\ order' = order /\ (Regular' <=> Regular)
    BY <1>2, <2>1
  <2>3. place > Len(order)
    BY <1>0, <2>1 DEF LifeIInv, LifeTypeOK
  <2>4. sorted = <<>> /\ active = <<>> /\ spill_count = 0 /\ next = 1 /\ scan = 1
    BY <1>0, <2>1 DEF AllocationSoFar
  <2>5. Regular => Allocator!IInv'
    BY <1>0, <1>3, <2>1, <2>4, ConstructStarts DEF LifetimesSoFar
  <2>6. AllocationSoFar'
    BY <2>1, <2>2, <2>3, <2>5 DEF AllocationSoFar
  <2> QED BY <2>2, <2>6 DEF PipelineIInv
<1>4. CASE LinearScanStep
  <2>1. stage = "allocate" /\ UNCHANGED <<vars, lifeVars>> /\ Allocator!Next
    BY <1>4 DEF LinearScanStep
  <2>2. IInv' /\ LifeIInv' /\ LifetimesSoFar' /\ place' = place /\ order' = order /\ (Regular' <=> Regular)
    BY <1>2, <2>1 DEF lifeVars
  <2>3. stage' = "allocate" /\ allocation # "none" /\ allocation' # "none"
    BY <2>1, AllocatorIsOn DEF lifeVars
  <2>4. place > Len(order) /\ (Regular => Allocator!IInv')
    BY <1>0, <2>1, <2>3, AllocatorStepKeeps DEF AllocationSoFar
  <2>5. AllocationSoFar'
    BY <2>2, <2>3, <2>4 DEF AllocationSoFar
  <2> QED BY <2>2, <2>5 DEF PipelineIInv
<1>5. CASE UNCHANGED <<vars, lifeVars, allocVars>>
  <2>1. IInv' /\ LifeIInv' /\ LifetimesSoFar'
    BY <1>0, <1>5, NextKeepsLife, NextKeepsLifetimes
  <2>2. /\ UNCHANGED <<vars, program, m_bb_lifetimes, order, place, stage, m_intervals>>
        /\ UNCHANGED allocVars
    BY <1>5 DEF lifeVars, programVars, resultVars
  <2>3. Regular' <=> Regular
    BY <2>2, SameProgram
  <2>4. Allocator!IInv => Allocator!IInv'
    BY <2>2, AllocatorStepKeeps
  <2>5. UNCHANGED <<sorted, active, spill_count, next, scan, allocation>>
    BY <2>2 DEF allocVars
  <2>6. AllocationSoFar'
    BY <1>0, <2>2, <2>3, <2>4, <2>5 DEF AllocationSoFar
  <2> QED BY <2>1, <2>6 DEF PipelineIInv
<1> QED BY <1>1, <1>3, <1>4, <1>5 DEF PipelineNext

LEMMA PipelineMeansSound == PipelineIInv => AllocationSound
<1> SUFFICES ASSUME PipelineIInv, allocation = "done", Structured(m_succs), PhisFirst,
                    LoopsInOnePiece(Reverse(order))
             PROVE  /\ \A v \in Instr : LivePlaces(v) # {} => v \in DOMAIN m_results
                    /\ \A v, w \in DOMAIN m_results :
                         v # w /\ m_results[v].kind = "Register" /\ m_results[v] = m_results[w] =>
                           v \in Instr /\ w \in Instr /\ LivePlaces(v) \cap LivePlaces(w) = {}
  BY DEF AllocationSound
<1>1. /\ IInv /\ LifeTypeOK /\ WalkSoFar /\ RowSoFar /\ NumbersSoFar /\ RangesSoFar
      /\ LifetimesSoFar /\ AllocationSoFar
  BY DEF PipelineIInv, LifeIInv
<1>2. Regular /\ stage = "allocate" /\ stage \notin {"loops", "linear", "number"}
  BY <1>1 DEF Regular, AllocationSoFar
<1>3. place > Len(order) /\ AllocatorP!IInv /\ AllocatorP!NoClobber
  BY <1>1, <1>2, SameAllocatorInvariant, AllocatorMeans DEF AllocationSoFar
<1>4. \A v \in Instr : \A n \in LivePlaces(v) : Number(n) \in Int /\ Covers(m_intervals[v], Number(n))
  BY <1>1, <1>2, <1>3, NeededIsCovered
<1>5. DOMAIN m_results = Values /\ Values \subseteq Instr /\ AllocatorP!Values = Values
  BY <1>3 DEF AllocatorP!IInv, AllocatorP!TypeOK, AllocatorP!Values, LifetimeOf, Values
<1>6. \A v \in Instr : HasEnd(m_intervals[v])
  BY <1>1, <1>2 DEF LifetimesSoFar
<1>7. ASSUME NEW v \in Instr, NEW n \in LivePlaces(v)
      PROVE  v \in Values /\ \E r \in LifetimeOf[v] : r[1] <= Number(n) /\ Number(n) < r[2] /\ r \in Nat \X Nat
  <2>1. PICK s : s = m_intervals[v]
    OBVIOUS
  <2>2. s \in Seq(Nat \X Nat)
    BY <1>6, <2>1 DEF HasEnd
  <2>3. PICK k \in DOMAIN s : s[k][1] <= Number(n) /\ Number(n) < s[k][2]
    BY <1>4, <2>1 DEF Covers
  <2>4. s # <<>> /\ s[k] \in Nat \X Nat /\ s[k] \in ToSet(s)
    BY <2>2 DEF ToSet
  <2> QED BY <2>1, <2>3, <2>4 DEF Values, LifetimeOf
<1>8. ASSUME NEW v \in Values, NEW w \in Values, v # w, m_results[v].kind = "Register",
             m_results[v] = m_results[w], NEW n \in LivePlaces(v), n \in LivePlaces(w)
      PROVE  FALSE
  <2>1. v \in Instr /\ w \in Instr
    BY <1>5
  <2>2. PICK m \in Int : m = Number(n)
    BY <1>4, <2>1
  <2>3. PICK r \in LifetimeOf[v] : r[1] <= m /\ m < r[2] /\ r \in Nat \X Nat
    BY <1>7, <2>1, <2>2
  <2>4. PICK q \in LifetimeOf[w] : q[1] <= m /\ m < q[2] /\ q \in Nat \X Nat
    BY <1>7, <1>8, <2>1, <2>2
  <2>5. AllocatorP!Disjoint(r, q)
    BY <1>3, <1>5, <1>8 DEF AllocatorP!NoClobber, AllocatorP!InRegister, AllocatorP!Compatible
  <2> QED BY <2>2, <2>3, <2>4, <2>5 DEF AllocatorP!Disjoint
<1> QED BY <1>5, <1>7, <1>8

\* The loop tree, the lifetimes and the linear scan keep their invariants when they
\* run one after the other: LinearScan gets what its own proofs assume of it.
THEOREM PipelineInvariance == PipelineSpec => []PipelineIInv
BY InitPipeline, NextKeepsPipeline, PTL DEF PipelineSpec

\* In structured code whose loops each end up in one piece of the linear order,
\* with the phis of a block at its start, a value that is needed has a location and
\* two values that are needed at one place are not in one register.
THEOREM PipelineSound == PipelineSpec => []AllocationSound
BY PipelineInvariance, PipelineMeansSound, PTL
===============================================================================
