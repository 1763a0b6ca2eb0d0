----------------------------- MODULE RpoProofs -----------------------------
(***************************************************************************)
(* rpo takes the steps of Search, in a function of any number of blocks;   *)
(* it fails exactly if the caller passed another number than that of the   *)
(* reachable blocks; and its order is topological.                         *)
(***************************************************************************)
EXTENDS Rpo, CfgProofs

(***************************************************************************)
(* The calls are a path.                                                   *)
(***************************************************************************)

\* The calls that have not returned are such a sequence.
LEMMA CallsLeadMeans == CallsLead <=> LeadOn(m_succs, removed, stack)
BY DEF CallsLead, CallsFollow, LeadOn

\* Each of them is for a block.
LEMMA FrameHasBlock == \A f \in Frame : f.bb \in BasicBlock
BY DEF Frame

(***************************************************************************)
(* What a step looks at, and what it leaves.                               *)
(***************************************************************************)

\* What the running call looks at.
LEMMA RunningCall ==
  ASSUME TypeOK, InCall
  PROVE  /\ Top \in Frame /\ Top = stack[1] /\ 1 \in 1 .. Len(stack)
         /\ Top.bb \in BasicBlock /\ Top.bb \in Calling /\ Top.succ \in 0 .. 2
         /\ stack \in Seq(Frame) /\ stack # <<>> /\ Tail(stack) \in Seq(Frame)
         /\ marked = Found /\ pc = "search"
         /\ Elements(stack) = {Top} \cup Elements(Tail(stack))
         /\ Top.succ > 0 =>
              /\ Top.succ \in 1 .. 2
              /\ Successor \in BasicBlock \cup {nullptr}
              /\ Successor # nullptr => Successor \in Succs(m_succs, Top.bb)
<1>1. stack \in Seq(Frame) /\ stack # <<>> /\ pc = "search" /\ marked = Found
  BY DEF TypeOK, InCall
<1>2. /\ Top \in Frame /\ Top = stack[1] /\ Tail(stack) \in Seq(Frame)
      /\ Elements(stack) = {Top} \cup Elements(Tail(stack))
  BY <1>1, PopProperties DEF Top
<1>3. Top.bb \in BasicBlock /\ Top.succ \in 0 .. 2 /\ Top.bb \in Calling
  BY <1>2 DEF Frame, Calling
<1>4. ASSUME Top.succ > 0
      PROVE  /\ Top.succ \in 1 .. 2
             /\ Successor \in BasicBlock \cup {nullptr}
             /\ Successor # nullptr => Successor \in Succs(m_succs, Top.bb)
  <2>1. Top.succ \in 1 .. 2
    BY <1>3, <1>4
  <2>2. m_succs[Top.bb] \in BBSuccs
    BY <1>3 DEF TypeOK, BuiltGraphs
  <2>3. \/ Successor = m_succs[Top.bb][1] /\ Top.succ = 1
        \/ Successor = m_succs[Top.bb][2] /\ Top.succ = 2
    BY <2>1 DEF Successor
  <2> QED BY <2>1, <2>2, <2>3 DEF BBSuccs, Succs
<1>5. 1 \in 1 .. Len(stack)
  BY <1>1
<1> QED BY <1>1, <1>2, <1>3, <1>4, <1>5

\* Moving on in the running call leaves the blocks of the calls as they are.
LEMMA AdvancedProperties ==
  ASSUME TypeOK, InCall, Top.succ > 0
  PROVE  LET advanced == [Top EXCEPT !.succ = @ - 1]
         IN  /\ advanced \in Frame /\ advanced.bb = Top.bb
             /\ advanced.succ = Top.succ - 1
             /\ Advanced \in Seq(Frame) /\ Advanced # <<>>
             /\ Len(Advanced) = Len(stack)
             /\ \A k \in 1 .. Len(stack) : Advanced[k].bb = stack[k].bb
             /\ Elements(Advanced) = {advanced} \cup Elements(Tail(stack))
             /\ {f.bb : f \in Elements(Advanced)} = Calling
<1> DEFINE advanced == [Top EXCEPT !.succ = @ - 1]
<1>1. /\ Top \in Frame /\ Top = stack[1] /\ stack \in Seq(Frame) /\ stack # <<>>
      /\ Tail(stack) \in Seq(Frame) /\ Top.succ \in 1 .. 2
      /\ Elements(stack) = {Top} \cup Elements(Tail(stack))
  BY RunningCall
<1>2. advanced \in Frame /\ advanced.bb = Top.bb /\ advanced.succ = Top.succ - 1
  BY <1>1 DEF Frame
<1>3. Advanced = <<advanced>> \o Tail(stack)
  BY DEF Advanced
<1> HIDE DEF advanced
<1>4. /\ Advanced \in Seq(Frame) /\ Len(Advanced) = Len(Tail(stack)) + 1
      /\ Advanced[1] = advanced
      /\ \A k \in 1 .. Len(Tail(stack)) : Advanced[k + 1] = Tail(stack)[k]
      /\ Elements(Advanced) = {advanced} \cup Elements(Tail(stack))
  <2> DEFINE t == Tail(stack)
  <2>1. t \in Seq(Frame)
    BY <1>1
  <2> HIDE DEF t
  <2>2. /\ <<advanced>> \o t \in Seq(Frame)
        /\ Len(<<advanced>> \o t) = Len(t) + 1
        /\ (<<advanced>> \o t)[1] = advanced
        /\ \A k \in 1 .. Len(t) : (<<advanced>> \o t)[k + 1] = t[k]
        /\ Elements(<<advanced>> \o t) = {advanced} \cup Elements(t)
    BY <1>2, <2>1, PushProperties
  <2>3. Advanced = <<advanced>> \o t
    BY <1>3 DEF t
  <2> QED BY ONLY <2>2, <2>3 DEF t
<1>5. /\ Len(stack) = Len(Tail(stack)) + 1
      /\ \A k \in 1 .. Len(Tail(stack)) : Tail(stack)[k] = stack[k + 1]
  BY ONLY <1>1, PopProperties
<1>6. ASSUME NEW k \in 1 .. Len(stack) PROVE Advanced[k].bb = stack[k].bb
  <2>1. CASE k = 1
    BY <1>1, <1>2, <1>4, <2>1
  <2>2. CASE k # 1
    <3>1. k - 1 \in 1 .. Len(Tail(stack)) /\ (k - 1) + 1 = k
      BY <1>1, <1>5, <2>2
    <3> QED BY <1>4, <1>5, <3>1
  <2> QED BY <2>1, <2>2
<1>7. {f.bb : f \in Elements(Advanced)} = Calling
  BY <1>1, <1>2, <1>4 DEF Calling
<1>8. Advanced # <<>>
  BY <1>1, <1>3
<1> QED BY <1>2, <1>4, <1>5, <1>6, <1>7, <1>8 DEF advanced

\* The parts of the invariant that speak of the graph, of the vector and of the
\* blocks found only.
LEMMA VectorUnchanged ==
  ASSUME Core, UNCHANGED <<m_succs, removed, basic_blocks_counter, rpo_vector>>
  PROVE  /\ OrderSoFar' /\ Ordered' = Ordered /\ Expected' = Expected
         /\ \A k \in 1 .. Len(rpo_vector') :
              rpo_vector'[k] = nullptr <=> k <= basic_blocks_counter'
         /\ \A j, k \in 1 .. Len(rpo_vector') :
              rpo_vector'[j] = rpo_vector'[k] /\ rpo_vector'[j] # nullptr => j = k
BY DEF Core, OrderSoFar, Ordered, Expected, FoundOnce

\* The invariant holds before rpo is called.
LEMMA InitCore == Init => Core
<1> SUFFICES ASSUME Init PROVE Core
  OBVIOUS
<1>1. Ordered = {} /\ Calling = {} /\ Found = {} /\ Elements(stack) = {}
  BY DEF Init, Start, Ordered, Calling, Found, Elements
<1>2. basic_blocks_counter \in Nat /\ basic_blocks_counter # 0
  <2>1. Cardinality(BasicBlock) \in Nat
    BY BlocksAssumption, FS_CardinalityType
  <2> QED BY <2>1 DEF Init, Sizes
<1>3. TypeOK
  BY <1>1, <1>2 DEF Init, Start, TypeOK
<1>4. Control /\ FoundOnce /\ CallsSettle /\ Found \subseteq Expected /\ OrderSoFar
  BY <1>1, <1>2 DEF Init, Start, Control, FoundOnce, CallsSettle, OrderSoFar
<1>5. CallsLead
  BY DEF Init, Start, CallsLead, CallsFollow
<1> QED BY <1>3, <1>4, <1>5 DEF Core

\* The invariant is kept when the running call comes past a settled successor.
LEMMA IgnoreKeepsCore == Core /\ IgnoreSuccessor => Core'
<1> SUFFICES ASSUME Core, IgnoreSuccessor PROVE Core'
  OBVIOUS
<1> DEFINE advanced == [Top EXCEPT !.succ = @ - 1]
<1>1. /\ InCall /\ Top.succ > 0 /\ Ignored(Successor) /\ stack' = Advanced
      /\ UNCHANGED <<m_succs, removed, marked, basic_blocks_counter, rpo_vector, pc>>
  BY DEF IgnoreSuccessor
<1>2. /\ Top \in Frame /\ Top.bb \in BasicBlock /\ Top.succ \in 1 .. 2
      /\ stack \in Seq(Frame) /\ stack # <<>> /\ marked = Found /\ pc = "search"
      /\ Elements(stack) = {Top} \cup Elements(Tail(stack))
  BY <1>1, RunningCall DEF Core
<1>3. /\ advanced.bb = Top.bb /\ advanced.succ = Top.succ - 1
      /\ stack' \in Seq(Frame) /\ stack' # <<>> /\ Len(stack') = Len(stack)
      /\ \A k \in 1 .. Len(stack) : stack'[k].bb = stack[k].bb
      /\ Elements(stack') = {advanced} \cup Elements(Tail(stack))
      /\ Calling' = Calling
  BY <1>1, AdvancedProperties DEF Core, Calling
<1> HIDE DEF advanced
<1>4. /\ OrderSoFar' /\ Ordered' = Ordered /\ Expected' = Expected
      /\ \A k \in 1 .. Len(rpo_vector') :
           rpo_vector'[k] = nullptr <=> k <= basic_blocks_counter'
      /\ \A j, k \in 1 .. Len(rpo_vector') :
           rpo_vector'[j] = rpo_vector'[k] /\ rpo_vector'[j] # nullptr => j = k
  BY <1>1, VectorUnchanged
<1>5. Found' = Found
  BY <1>3, <1>4 DEF Found
<1>6. TypeOK'
  BY <1>1, <1>3, <1>5 DEF Core, TypeOK
<1>7. Control'
  BY <1>1, <1>2, <1>3, <1>5 DEF Core, Control
<1>8. FoundOnce'
  BY <1>3, <1>4 DEF Core, FoundOnce
<1>9. CallsSettle'
  <2>1. Settled(Top.bb, Top.succ)
    BY <1>1, <1>2 DEF Ignored, Successor, Settled
  <2>2. \A b, e : Settled(b, e) => Settled(b, e)'
    BY <1>1, <1>5 DEF Settled
  <2>3. ASSUME NEW f \in Elements(stack'), NEW e \in 1 .. 2, e > f.succ
        PROVE  Settled(f.bb, e)'
    <3>1. CASE f = advanced
      <4>1. e > Top.succ \/ e = Top.succ
        BY <1>2, <1>3, <2>3, <3>1
      <4> QED BY <1>2, <1>3, <2>1, <2>2, <3>1, <4>1 DEF Core, CallsSettle
    <3>2. CASE f \in Elements(Tail(stack))
      BY <1>2, <2>2, <2>3, <3>2 DEF Core, CallsSettle
    <3> QED BY <1>3, <3>1, <3>2
  <2> QED BY <1>4, <2>2, <2>3 DEF Core, CallsSettle
<1>10. CallsLead'
  <2>1. Len(stack) \in Nat
    BY <1>2
  <2>2. LeadOn(m_succs, removed, stack')
    BY <1>3, <2>1, SameBlocksLeadOn, CallsLeadMeans DEF Core
  <2> QED BY <1>1, <2>2 DEF CallsLead, CallsFollow, LeadOn
<1>11. Found' \subseteq Expected'
  BY <1>4, <1>5 DEF Core
<1> QED BY <1>4, <1>6, <1>7, <1>8, <1>9, <1>10, <1>11 DEF Core

\* The invariant is kept when the running call calls for a successor, which is
\* found by that call.
LEMMA VisitKeepsCore == Core /\ VisitSuccessor => Core'
<1> SUFFICES ASSUME Core, VisitSuccessor PROVE Core'
  OBVIOUS
<1> DEFINE advanced == [Top EXCEPT !.succ = @ - 1]
           new == [bb |-> Successor, succ |-> 2]
<1>1. /\ InCall /\ Top.succ > 0 /\ ~ Ignored(Successor)
      /\ marked' = marked \cup {Successor} /\ stack' = <<new>> \o Advanced
      /\ UNCHANGED <<m_succs, removed, basic_blocks_counter, rpo_vector, pc>>
  BY DEF VisitSuccessor, Enter
<1>2. /\ Top \in Frame /\ Top = stack[1] /\ 1 \in 1 .. Len(stack)
      /\ Top.bb \in BasicBlock /\ Top.bb \in Calling
      /\ Top.succ \in 1 .. 2
      /\ stack \in Seq(Frame) /\ marked = Found /\ pc = "search"
      /\ Elements(stack) = {Top} \cup Elements(Tail(stack))
  BY <1>1, RunningCall DEF Core
<1>3. /\ Successor \in BasicBlock /\ Successor \in Succs(m_succs, Top.bb)
      /\ Successor \notin Found /\ Successor \notin removed
  BY <1>1, <1>2, RunningCall DEF Ignored, Core
<1>4. /\ advanced.bb = Top.bb /\ advanced.succ = Top.succ - 1
      /\ Advanced \in Seq(Frame) /\ Advanced # <<>> /\ Len(Advanced) = Len(stack)
      /\ \A k \in 1 .. Len(stack) : Advanced[k].bb = stack[k].bb
      /\ Elements(Advanced) = {advanced} \cup Elements(Tail(stack))
      /\ {f.bb : f \in Elements(Advanced)} = Calling
  BY <1>1, AdvancedProperties DEF Core
<1>5. new \in Frame /\ new.bb = Successor /\ new.succ = 2
  BY <1>3 DEF Frame
<1> HIDE DEF advanced, new
<1>6. /\ stack' \in Seq(Frame) /\ stack' # <<>>
      /\ Elements(stack') = {new} \cup Elements(Advanced)
  BY <1>1, <1>4, <1>5, PushProperties
<1>7. Calling' = Calling \cup {Successor}
  <2>1. Calling' = {f.bb : f \in Elements(stack')}
    BY DEF Calling
  <2> QED BY <1>4, <1>5, <1>6, <2>1
<1>8. /\ OrderSoFar' /\ Ordered' = Ordered /\ Expected' = Expected
      /\ \A k \in 1 .. Len(rpo_vector') :
           rpo_vector'[k] = nullptr <=> k <= basic_blocks_counter'
      /\ \A j, k \in 1 .. Len(rpo_vector') :
           rpo_vector'[j] = rpo_vector'[k] /\ rpo_vector'[j] # nullptr => j = k
  BY <1>1, VectorUnchanged
<1>9. Found' = Found \cup {Successor}
  BY <1>7, <1>8 DEF Found
<1>10. TypeOK'
  BY <1>1, <1>2, <1>6, <1>9 DEF Core, TypeOK
<1>11. Control'
  BY <1>1, <1>2, <1>6, <1>9 DEF Core, Control
<1>12. FoundOnce'
  <2>1. DistinctCalls(Advanced)
    BY <1>4 DEF Core, FoundOnce, DistinctCalls
  <2>2. \A g \in Elements(Advanced) : g.bb # new.bb
    BY <1>3, <1>4, <1>5 DEF Found
  <2>3. DistinctCalls(stack')
    BY <1>1, <1>4, <1>5, <2>1, <2>2, PushKeepsDistinctCalls
  <2>4. Ordered' \cap Calling' = {}
    BY <1>3, <1>7, <1>8 DEF Core, FoundOnce, Found
  <2> QED BY <1>8, <2>3, <2>4 DEF FoundOnce, DistinctCalls
<1>13. CallsSettle'
  <2>1. \A b, e : b = Top.bb /\ e = Top.succ => Settled(b, e)'
    BY <1>1, <1>9 DEF Settled, Successor
  <2>2. \A b, e : Settled(b, e) => Settled(b, e)'
    BY <1>1, <1>9 DEF Settled
  <2>3. ASSUME NEW f \in Elements(stack'), NEW e \in 1 .. 2, e > f.succ
        PROVE  Settled(f.bb, e)'
    <3>1. CASE f = advanced
      <4>1. e > Top.succ \/ e = Top.succ
        BY <1>2, <1>4, <2>3, <3>1
      <4>2. e > Top.succ => Settled(Top.bb, e)
        BY <1>2 DEF Core, CallsSettle
      <4>3. f.bb = Top.bb
        BY <1>4, <3>1
      <4> QED BY <2>1, <2>2, <4>1, <4>2, <4>3
    <3>2. CASE f \in Elements(Tail(stack))
      BY <1>2, <2>2, <2>3, <3>2 DEF Core, CallsSettle
    <3>3. CASE f = new
      BY <1>5, <2>3, <3>3
    <3> QED BY <1>4, <1>6, <3>1, <3>2, <3>3
  <2> QED BY <1>8, <2>2, <2>3 DEF Core, CallsSettle
<1>14. CallsLead'
  <2>1. LeadOn(m_succs, removed, Advanced)
    <3>1. Len(stack) \in Nat
      BY <1>2
    <3> QED BY <1>4, <3>1, SameBlocksLeadOn, CallsLeadMeans DEF Core
  <2>2. new.bb \in Succs(m_succs, Advanced[1].bb) /\ new.bb \notin removed
    BY <1>2, <1>3, <1>4, <1>5
  <2>3. m_succs \in BuiltGraphs
    BY DEF Core, TypeOK
  <2>4. LeadOn(m_succs, removed, stack')
    BY <1>1, <1>4, <1>5, <2>1, <2>2, <2>3, FrameHasBlock, PushLeadsOn
  <2> QED BY <1>1, <2>4 DEF CallsLead, CallsFollow, LeadOn
<1>15. Found' \subseteq Expected'
  <2>1. Top.bb \in Expected /\ m_succs \in BuiltGraphs
    BY <1>2 DEF Core, Found, TypeOK
  <2>2. Successor \in Expected
    BY <1>3, <2>1, ReachStep, RootAssumption DEF Expected
  <2> QED BY <1>8, <1>9, <2>2 DEF Core
<1> QED BY <1>8, <1>10, <1>11, <1>12, <1>13, <1>14, <1>15 DEF Core

\* The block of a call that returns gets the place before the filled ones.
LEMMA ReturnFills ==
  ASSUME Core, Return
  PROVE  LET c == basic_blocks_counter
         IN  /\ c \in 1 .. Len(rpo_vector) /\ c' = c - 1
             /\ rpo_vector' \in Seq(BasicBlock \cup {nullptr})
             /\ Len(rpo_vector') = Len(rpo_vector)
             /\ rpo_vector'[c] = Top.bb
             /\ \A k \in 1 .. Len(rpo_vector) : k # c => rpo_vector'[k] = rpo_vector[k]
             /\ Top.bb \notin Ordered
             /\ Ordered' = Ordered \cup {Top.bb}
             /\ Calling' = Calling \ {Top.bb}
             /\ Found' = Found
<1> DEFINE c == basic_blocks_counter
<1>1. /\ InCall /\ c # 0 /\ c' = c - 1 /\ stack' = Tail(stack)
      /\ rpo_vector' = [rpo_vector EXCEPT ![c] = Top.bb]
  BY DEF Return
<1>2. /\ Top = Head(stack) /\ Top.bb \in BasicBlock /\ Top.bb \in Calling /\ pc = "search"
      /\ stack \in Seq(Frame) /\ stack # <<>>
      /\ Elements(stack) = {Top} \cup Elements(Tail(stack))
  BY <1>1, RunningCall DEF Core, Top
<1>3. c \in 1 .. Len(rpo_vector)
  BY <1>1, <1>2 DEF Core, TypeOK, Control
<1>4. /\ rpo_vector' \in Seq(BasicBlock \cup {nullptr})
      /\ Len(rpo_vector') = Len(rpo_vector)
      /\ rpo_vector'[c] = Top.bb
      /\ \A k \in 1 .. Len(rpo_vector) : k # c => rpo_vector'[k] = rpo_vector[k]
  <2>1. rpo_vector \in Seq(BasicBlock \cup {nullptr}) /\ Top.bb \in BasicBlock \cup {nullptr}
    BY <1>2 DEF Core, TypeOK
  <2> QED BY <1>1, <1>3, <2>1
<1>5. Top.bb \notin Ordered
  BY <1>2 DEF Core, FoundOnce
<1>6. Ordered' = Ordered \cup {Top.bb}
  <2>1. rpo_vector[c] = nullptr
    BY <1>3 DEF Core, FoundOnce
  <2>2. Top.bb # nullptr
    BY <1>2, NullAssumption
  <2>3. ASSUME NEW x \in Ordered' PROVE x \in Ordered \cup {Top.bb}
    <3>1. PICK k \in 1 .. Len(rpo_vector) : x = rpo_vector'[k] /\ x # nullptr
      BY <1>4 DEF Ordered, Elements
    <3> QED BY <1>4, <3>1 DEF Ordered, Elements
  <2>4. ASSUME NEW x \in Ordered PROVE x \in Ordered'
    <3>1. PICK k \in 1 .. Len(rpo_vector) : x = rpo_vector[k] /\ x # nullptr
      BY DEF Ordered, Elements
    <3>2. k # c /\ rpo_vector'[k] = x
      BY <1>4, <2>1, <3>1
    <3> QED BY <1>4, <3>1, <3>2 DEF Ordered, Elements
  <2>5. Top.bb \in Ordered'
    BY <1>3, <1>4, <2>2 DEF Ordered, Elements
  <2> QED BY <2>3, <2>4, <2>5
<1>7. Calling' = Calling \ {Top.bb}
  <2>1. DistinctCalls(stack)
    BY DEF Core, FoundOnce, DistinctCalls
  <2>2. \A g \in Elements(Tail(stack)) : g.bb # Head(stack).bb
    BY <1>2, <2>1, PopKeepsDistinctCalls
  <2>3. Calling' = {f.bb : f \in Elements(Tail(stack))}
    BY <1>1 DEF Calling
  <2> QED BY <1>2, <2>2, <2>3 DEF Calling
<1>8. Found' = Found
  BY <1>2, <1>6, <1>7 DEF Found
<1> QED BY <1>1, <1>3, <1>4, <1>5, <1>6, <1>7, <1>8

\* The order stays right: the successors of the block are behind it, or on the
\* way to it; and the way to it is around the blocks behind it.
LEMMA ReturnKeepsOrder == Core /\ Return => OrderSoFar'
<1> SUFFICES ASSUME Core, Return PROVE OrderSoFar'
  OBVIOUS
<1> DEFINE c == basic_blocks_counter
<1>1. /\ InCall /\ Top.succ = 0 /\ UNCHANGED <<m_succs, removed>>
  BY DEF Return
<1>2. /\ Top = stack[1] /\ Top.bb \in BasicBlock /\ 1 \in 1 .. Len(stack)
      /\ stack \in Seq(Frame) /\ m_succs \in BuiltGraphs
  BY <1>1, RunningCall DEF Core, TypeOK
<1>3. /\ c \in 1 .. Len(rpo_vector) /\ Len(rpo_vector') = Len(rpo_vector)
      /\ rpo_vector'[c] = Top.bb
      /\ \A k \in 1 .. Len(rpo_vector) : k # c => rpo_vector'[k] = rpo_vector[k]
  BY ReturnFills
<1>4. \A k \in 1 .. Len(rpo_vector) : rpo_vector[k] = nullptr <=> k <= c
  BY DEF Core, FoundOnce
<1>5. ASSUME NEW a \in Succs(m_succs, Top.bb) \ removed
      PROVE  \/ Top.bb \in Reach(m_succs, a, removed)
             \/ \E k \in c + 1 .. Len(rpo_vector) : rpo_vector'[k] = a
  <2>1. a \in Found
    <3>1. Top \in Elements(stack)
      BY <1>2 DEF Elements
    <3>2. Settled(Top.bb, 1) /\ Settled(Top.bb, 2)
      BY <1>1, <3>1 DEF Core, CallsSettle
    <3> QED BY <3>2 DEF Settled, Succs
  <2>2. CASE a \in Calling
    <3>1. PICK i \in 1 .. Len(stack) : stack[i].bb = a
      BY <2>2 DEF Calling, Elements
    <3>2. 1 \in 1 .. i
      BY <3>1
    <3> QED BY <1>2, <3>1, <3>2 DEF Core, CallsLead, CallsFollow
  <2>3. CASE a \in Ordered
    <3>1. PICK k \in 1 .. Len(rpo_vector) : rpo_vector[k] = a /\ a # nullptr
      BY <2>3 DEF Ordered, Elements
    <3>2. ~ (k <= c)
      BY <1>4, <3>1
    <3>3. k \in c + 1 .. Len(rpo_vector) /\ k # c
      BY <1>3, <3>1, <3>2
    <3> QED BY <1>3, <3>1, <3>3
  <2> QED BY <2>1, <2>2, <2>3 DEF Found
<1>6. ASSUME NEW k \in c + 1 .. Len(rpo_vector)
      PROVE  Top.bb \in Reach(m_succs, root, {rpo_vector'[k]})
  <2> DEFINE x == rpo_vector[k]
  <2>1. k \in 1 .. Len(rpo_vector) /\ k # c /\ ~ (k <= c)
    BY <1>3, <1>6
  <2>2. x \in BasicBlock \cup {nullptr} /\ x # nullptr
    BY <1>4, <2>1 DEF Core, TypeOK
  <2>3. x \in Ordered
    BY <2>1, <2>2 DEF Ordered, Elements
  <2>4. \A j \in 1 .. Len(stack) : stack[j].bb # x
    BY <2>3 DEF Core, FoundOnce, Calling, Elements
  <2> HIDE DEF x
  <2>5. stack[1].bb \in Reach(m_succs, root, {x})
    BY <1>2, <2>2, <2>4 DEF Core, CallsLead, CallsFollow
  <2> QED BY <1>2, <1>3, <2>1, <2>5 DEF x
<1>7. ASSUME NEW j \in 1 .. Len(rpo_vector), rpo_vector'[j] # nullptr, j # c
      PROVE  /\ rpo_vector'[j] = rpo_vector[j] /\ rpo_vector[j] # nullptr
             /\ \A k \in j + 1 .. Len(rpo_vector) : rpo_vector'[k] = rpo_vector[k]
  <2>1. rpo_vector'[j] = rpo_vector[j] /\ rpo_vector[j] # nullptr
    BY <1>3, <1>7
  <2>2. ~ (j <= c)
    BY <1>4, <2>1
  <2>3. \A k \in j + 1 .. Len(rpo_vector) : k \in 1 .. Len(rpo_vector) /\ k # c
    BY <1>3, <2>2
  <2> QED BY <1>3, <2>1, <2>3
<1> SUFFICES ASSUME NEW j \in 1 .. Len(rpo_vector), rpo_vector'[j] # nullptr
    PROVE  /\ \A a \in Succs(m_succs, rpo_vector'[j]) \ removed :
                \/ rpo_vector'[j] \in Reach(m_succs, a, removed)
                \/ \E k \in j + 1 .. Len(rpo_vector) : rpo_vector'[k] = a
           /\ \A k \in j + 1 .. Len(rpo_vector) :
                rpo_vector'[j] \in Reach(m_succs, root, {rpo_vector'[k]})
  BY <1>1, <1>3 DEF OrderSoFar
<1>8. CASE j = c
  BY <1>3, <1>5, <1>6, <1>8
<1>9. CASE j # c
  <2>1. /\ rpo_vector'[j] = rpo_vector[j] /\ rpo_vector[j] # nullptr
        /\ \A k \in j + 1 .. Len(rpo_vector) : rpo_vector'[k] = rpo_vector[k]
    BY <1>7, <1>9
  <2>2. /\ \A a \in Succs(m_succs, rpo_vector[j]) \ removed :
             \/ rpo_vector[j] \in Reach(m_succs, a, removed)
             \/ \E k \in j + 1 .. Len(rpo_vector) : rpo_vector[k] = a
        /\ \A k \in j + 1 .. Len(rpo_vector) :
             rpo_vector[j] \in Reach(m_succs, root, {rpo_vector[k]})
    BY <2>1 DEF Core, OrderSoFar
  <2> QED BY <2>1, <2>2
<1> QED BY <1>8, <1>9

\* The invariant is kept when a call that has settled both successors returns.
LEMMA ReturnKeepsCore == Core /\ Return => Core'
<1> SUFFICES ASSUME Core, Return PROVE Core'
  OBVIOUS
<1> DEFINE c == basic_blocks_counter
<1>1. /\ InCall /\ Top.succ = 0 /\ stack' = Tail(stack)
      /\ UNCHANGED <<m_succs, removed, marked, pc>>
  BY DEF Return
<1>2. /\ Top \in Frame /\ Top = stack[1] /\ Top.bb \in BasicBlock
      /\ stack \in Seq(Frame) /\ stack # <<>> /\ Tail(stack) \in Seq(Frame)
      /\ marked = Found /\ pc = "search" /\ Top \in Elements(stack)
      /\ Elements(stack) = {Top} \cup Elements(Tail(stack))
  BY <1>1, RunningCall DEF Core
<1>3. /\ c \in 1 .. Len(rpo_vector) /\ c' = c - 1
      /\ rpo_vector' \in Seq(BasicBlock \cup {nullptr})
      /\ Len(rpo_vector') = Len(rpo_vector) /\ rpo_vector'[c] = Top.bb
      /\ \A k \in 1 .. Len(rpo_vector) : k # c => rpo_vector'[k] = rpo_vector[k]
      /\ Top.bb \notin Ordered /\ Ordered' = Ordered \cup {Top.bb}
      /\ Calling' = Calling \ {Top.bb} /\ Found' = Found
  BY ReturnFills
<1>4. TypeOK'
  BY <1>1, <1>2, <1>3 DEF Core, TypeOK
<1>5. Control'
  <2>1. rpo_vector' # <<>> /\ rpo_vector # <<>> /\ c' <= Len(rpo_vector')
    BY <1>3
  <2> QED BY <1>1, <1>2, <1>3, <2>1 DEF Core, Control
<1>6. FoundOnce'
  <2>1. \A k \in 1 .. Len(rpo_vector) : rpo_vector[k] = nullptr <=> k <= c
    BY DEF Core, FoundOnce
  <2>2. Top.bb # nullptr
    BY <1>2, NullAssumption
  <2>3. ASSUME NEW k \in 1 .. Len(rpo_vector) PROVE rpo_vector'[k] = nullptr <=> k <= c'
    <3>1. CASE k = c
      BY <1>3, <2>2, <3>1
    <3>2. CASE k # c
      BY <1>3, <2>1, <3>2
    <3> QED BY <3>1, <3>2
  <2>4. ASSUME NEW k \in 1 .. Len(rpo_vector), k # c, rpo_vector[k] # nullptr
        PROVE  rpo_vector[k] # Top.bb
    BY <1>3, <2>4 DEF Ordered, Elements
  <2>5. ASSUME NEW j \in 1 .. Len(rpo_vector), NEW k \in 1 .. Len(rpo_vector),
               rpo_vector'[j] = rpo_vector'[k], rpo_vector'[j] # nullptr
        PROVE  j = k
    <3>1. CASE j = c
      BY <1>3, <2>4, <2>5, <3>1
    <3>2. CASE k = c
      BY <1>3, <2>4, <2>5, <3>2
    <3>3. CASE j # c /\ k # c
      BY <1>3, <2>5, <3>3 DEF Core, FoundOnce
    <3> QED BY <3>1, <3>2, <3>3
  <2>6. DistinctCalls(Tail(stack))
    <3>1. DistinctCalls(stack)
      BY DEF Core, FoundOnce, DistinctCalls
    <3> QED BY <1>2, <3>1, PopKeepsDistinctCalls
  <2>7. Ordered' \cap Calling' = {}
    BY <1>3 DEF Core, FoundOnce
  <2> QED BY <1>1, <1>3, <2>3, <2>5, <2>6, <2>7 DEF FoundOnce, DistinctCalls
<1>7. CallsSettle'
  <2>1. \A b, e : Settled(b, e) <=> Settled(b, e)'
    BY <1>1, <1>3 DEF Settled
  <2>2. \A e \in 1 .. 2 : Settled(Top.bb, e)
    BY <1>1, <1>2 DEF Core, CallsSettle
  <2> QED BY <1>1, <1>2, <1>3, <2>1, <2>2 DEF Core, CallsSettle
<1>8. CallsLead'
  <2>1. LeadOn(m_succs, removed, Tail(stack))
    BY <1>2, PopLeadsOn, CallsLeadMeans DEF Core
  <2> QED BY <1>1, <2>1 DEF CallsLead, CallsFollow, LeadOn
<1>9. Found' \subseteq Expected'
  BY <1>1, <1>3 DEF Core, Expected
<1> QED BY <1>4, <1>5, <1>6, <1>7, <1>8, <1>9, ReturnKeepsOrder DEF Core

\* The invariant holds once the root is found.
LEMMA CallKeepsCore == Core /\ Call => Core'
<1> SUFFICES ASSUME Core, Call PROVE Core'
  OBVIOUS
<1> DEFINE new == [bb |-> root, succ |-> 2]
           c == basic_blocks_counter
<1>1. /\ pc = "call" /\ root \notin removed /\ pc' = "search"
      /\ rpo_vector' = [k \in 1 .. c |-> nullptr]
      /\ marked' = marked \cup {root} /\ stack' = <<new>> \o <<>>
      /\ UNCHANGED <<m_succs, removed, basic_blocks_counter>>
  BY DEF Call, Enter
<1>2. stack = <<>> /\ rpo_vector = <<>> /\ c \in Nat /\ c # 0
  BY <1>1 DEF Core, Control, TypeOK
<1>3. Ordered = {} /\ Calling = {} /\ Found = {} /\ marked = {}
  <2>1. Elements(<<>>) = {}
    BY DEF Elements
  <2>2. Ordered = {} /\ Calling = {}
    BY <1>2, <2>1 DEF Ordered, Calling
  <2> QED BY <1>1, <2>2 DEF Found, Core, TypeOK
<1>4. new \in Frame /\ new.bb = root /\ new.succ = 2
  BY RootAssumption DEF Frame
<1>5. stack' = <<new>>
  BY <1>1
<1> HIDE DEF new
<1>6. /\ stack' \in Seq(Frame) /\ Len(stack') = 1 /\ stack'[1] = new
      /\ stack' # <<>> /\ Elements(stack') = {new}
  BY <1>4, <1>5 DEF Elements
<1>7. /\ rpo_vector' \in Seq(BasicBlock \cup {nullptr}) /\ Len(rpo_vector') = c
      /\ rpo_vector' # <<>> /\ \A k \in 1 .. c : rpo_vector'[k] = nullptr
  BY <1>1, <1>2
<1>8. Ordered' = {} /\ Calling' = {root} /\ Found' = {root}
  <2>1. Ordered' = {}
    BY <1>7 DEF Ordered, Elements
  <2>2. Calling' = {root}
    BY <1>4, <1>6 DEF Calling
  <2> QED BY <2>1, <2>2 DEF Found
<1>9. TypeOK'
  BY <1>1, <1>2, <1>3, <1>6, <1>7, <1>8 DEF Core, TypeOK
<1>10. Control'
  BY <1>1, <1>2, <1>6, <1>7, <1>8 DEF Control
<1>11. FoundOnce'
  BY <1>1, <1>2, <1>6, <1>7, <1>8 DEF FoundOnce
<1>12. CallsSettle'
  BY <1>4, <1>6, <1>8 DEF CallsSettle
<1>13. CallsLead'
  <2>1. LeadOn(m_succs, removed, stack')
    BY <1>1, <1>4, <1>6, FirstLeadsOn DEF Core, TypeOK
  <2> QED BY <1>1, <2>1 DEF CallsLead, CallsFollow, LeadOn
<1>14. OrderSoFar'
  BY <1>7 DEF OrderSoFar
<1>15. Found' \subseteq Expected'
  BY <1>1, <1>8, ReachStart, RootAssumption DEF Expected
<1> QED BY <1>9, <1>10, <1>11, <1>12, <1>13, <1>14, <1>15 DEF Core

\* The steps that neither find a block nor place one.
LEMMA EndKeepsCore ==
  ASSUME Core, CallRemoved \/ Abort \/ Unmark \/ UnmarkNull \/ UNCHANGED vars
  PROVE  Core'
<1>1. UNCHANGED <<m_succs, removed, stack, basic_blocks_counter, rpo_vector>>
  BY DEF CallRemoved, Abort, Unmark, UnmarkNull, vars
<1>2. /\ OrderSoFar' /\ Ordered' = Ordered /\ Expected' = Expected
      /\ Calling' = Calling /\ Found' = Found
  BY <1>1, VectorUnchanged DEF Calling, Found
<1>3. FoundOnce' /\ CallsSettle' /\ CallsLead'
  <2>1. \A b, e : Settled(b, e) <=> Settled(b, e)'
    BY <1>1, <1>2 DEF Settled
  <2> QED BY <1>1, <1>2, <2>1 DEF Core, FoundOnce, CallsSettle, CallsLead, CallsFollow
<1>4. TypeOK' /\ Control'
  <2>1. stack = <<>> => Calling = {}
    BY DEF Calling, Elements
  <2>2. CASE CallRemoved
    <3>1. Ordered = {} /\ stack = <<>> /\ rpo_vector = <<>>
      BY <2>2 DEF CallRemoved, Core, Control, Ordered, Elements
    <3> QED BY <1>1, <1>2, <2>1, <2>2, <3>1 DEF CallRemoved, Core, TypeOK, Control, Found
  <2>3. CASE Abort
    BY <1>1, <1>2, <2>3 DEF Abort, InCall, Core, TypeOK, Control
  <2>4. CASE Unmark
    <3>1. Found = Ordered /\ marked = Found
      BY <2>1, <2>4 DEF Unmark, Core, TypeOK, Found
    <3>2. rpo_vector # <<>> /\ basic_blocks_counter \in Nat /\ rpo_vector \in Seq(BasicBlock \cup {nullptr})
          /\ basic_blocks_counter <= Len(rpo_vector)
      BY <2>4 DEF Unmark, Core, TypeOK, Control
    <3>3. basic_blocks_counter = 0
      <4> SUFFICES ASSUME basic_blocks_counter # 0 PROVE FALSE
        OBVIOUS
      <4>1. 1 \in 1 .. Len(rpo_vector) /\ 1 <= basic_blocks_counter
        BY <3>2
      <4>2. rpo_vector[1] = nullptr
        BY <4>1 DEF Core, FoundOnce
      <4> QED BY <2>4, <4>1, <4>2 DEF Unmark, Full, Elements
    <3> QED BY <1>1, <1>2, <2>4, <3>1, <3>2, <3>3 DEF Unmark, Core, TypeOK, Control
  <2>5. CASE UnmarkNull
    <3>1. basic_blocks_counter # 0
      <4>1. PICK k \in 1 .. Len(rpo_vector) : rpo_vector[k] = nullptr
        BY <2>5 DEF UnmarkNull, Full, Elements
      <4>2. k <= basic_blocks_counter
        BY <4>1 DEF Core, FoundOnce
      <4> QED BY <4>2
    <3> QED BY <1>1, <1>2, <2>5, <3>1 DEF UnmarkNull, Core, TypeOK, Control
  <2>6. CASE UNCHANGED vars
    BY <1>2, <2>6 DEF vars, Core, TypeOK, Control
  <2> QED BY <2>2, <2>3, <2>4, <2>5, <2>6
<1> QED BY <1>2, <1>3, <1>4 DEF Core

\* Every step of rpo keeps the invariant.
LEMMA NextKeepsCore == Core /\ [Next]_vars => Core'
BY CallKeepsCore, IgnoreKeepsCore, VisitKeepsCore, ReturnKeepsCore, EndKeepsCore DEF Next

(***************************************************************************)
(* In structured code: back edges lead back, and no other edges do.        *)
(***************************************************************************)

\* A graph of which every block is there, and without its back edges no cycle.
AllForward == m_succs \in BuiltGraphs /\ Structured(m_succs) /\ removed = {}

\* What an ordered block leads to along other edges is behind it.
ForwardBehind(vector) ==
  \A j \in 1 .. Len(vector) : vector[j] # nullptr =>
    \A a \in Succs(Forward, vector[j]) : \E k \in j + 1 .. Len(vector) : vector[k] = a

\* The calls are a path without back edges, from the root.
ForwardCalls(s) ==
  LeadOn(Forward, {}, s) /\ (s # <<>> => s[Len(s)].bb = root)

LEMMA ForwardMeans ==
  ForwardSoFar <=>
    (Structured(m_succs) /\ removed = {} =>
       ForwardCalls(stack) /\ ForwardBehind(rpo_vector))
BY DEF ForwardSoFar, CallsFollow, LeadOn, ForwardCalls, ForwardBehind

\* It is shown of the next state with the graph of this one.
LEMMA ForwardNext ==
  ASSUME UNCHANGED <<m_succs, removed>>,
         Structured(m_succs) /\ removed = {} =>
           ForwardCalls(stack') /\ ForwardBehind(rpo_vector')
  PROVE  ForwardSoFar'
<1>1. Forward' = Forward
  BY DEF Forward
<1>2. Structured(m_succs') <=> Structured(m_succs)
  OBVIOUS
<1>3. ASSUME Structured(m_succs) /\ removed = {}
      PROVE  /\ CallsFollow(Forward)' /\ ForwardBehind(rpo_vector')
             /\ stack' # <<>> => stack'[Len(stack')].bb = root
  <2>1. ForwardCalls(stack') /\ ForwardBehind(rpo_vector')
    BY <1>3
  <2> QED BY <1>1, <1>3, <2>1 DEF CallsFollow, LeadOn, ForwardCalls
<1> QED BY <1>1, <1>2, <1>3 DEF ForwardSoFar, ForwardBehind

LEMMA ForwardSuccs ==
  ASSUME m_succs \in BuiltGraphs, NEW b \in BasicBlock, NEW c
  PROVE  c \in Succs(Forward, b) <=>
           c \in Succs(m_succs, b) /\ <<b, c>> \notin BackEdges(m_succs)
<1>1. Succs(Forward, b) = {d \in Succs(m_succs, b) : <<b, d>> \notin BackEdges(m_succs)}
  BY WithoutSuccs DEF Forward
<1> QED BY <1>1

\* A call is for a block that the running one does not lead back to: the header of
\* a back edge has a call already.
LEMMA CallsGoForward ==
  ASSUME Core, ForwardSoFar, AllForward, VisitSuccessor
  PROVE  Successor \in Succs(Forward, Top.bb)
<1>1. /\ InCall /\ Top.succ > 0 /\ ~ Ignored(Successor)
  BY DEF VisitSuccessor
<1>2. /\ Top = stack[1] /\ 1 \in 1 .. Len(stack) /\ stack \in Seq(Frame)
      /\ Top.bb \in BasicBlock /\ marked = Found /\ m_succs \in BuiltGraphs
      /\ Successor \in BasicBlock /\ Successor \in Succs(m_succs, Top.bb)
      /\ Successor \notin Found
  BY <1>1, RunningCall DEF Core, TypeOK, Ignored
<1>3. ASSUME <<Top.bb, Successor>> \in BackEdges(m_succs) PROVE FALSE
  <2>1. Top.bb \notin Reach(m_succs, root, {Successor})
    BY <1>2, <1>3, StructuredMeans DEF AllForward
  <2>2. \A j \in 1 .. Len(stack) : stack[j].bb # Successor
    BY <1>2 DEF Found, Calling, Elements
  <2>3. Top.bb \in Reach(m_succs, root, {Successor})
    BY <1>2, <2>2 DEF Core, CallsLead, CallsFollow
  <2> QED BY <2>1, <2>3
<1> QED BY <1>2, <1>3, ForwardSuccs

\* A call that returns has no such edge to the block of another call.
LEMMA ReturnsBeforeForward ==
  ASSUME Core, ForwardSoFar, AllForward, Return, NEW a \in Succs(Forward, Top.bb)
  PROVE  a \in Ordered /\ a # nullptr
<1>1. /\ InCall /\ Top.succ = 0
  BY DEF Return
<1>2. /\ Top = stack[1] /\ 1 \in 1 .. Len(stack) /\ stack \in Seq(Frame)
      /\ Top.bb \in BasicBlock /\ m_succs \in BuiltGraphs
  BY <1>1, RunningCall DEF Core, TypeOK
<1>3. a \in Succs(m_succs, Top.bb)
  BY <1>2, ForwardSuccs
<1>4. a \in Found
  <2>1. Top \in Elements(stack)
    BY <1>2 DEF Elements
  <2>2. Settled(Top.bb, 1) /\ Settled(Top.bb, 2)
    BY <1>1, <2>1 DEF Core, CallsSettle
  <2> QED BY <1>3, <2>2 DEF Settled, Succs, AllForward
<1>5. ASSUME a \in Calling PROVE FALSE
  <2>1. LeadOn(Forward, {}, stack) /\ stack[Len(stack)].bb = root
    BY <1>2, ForwardMeans DEF AllForward, ForwardCalls
  <2>2. PICK i \in 1 .. Len(stack) : stack[i].bb = a
    BY <1>5 DEF Calling, Elements
  <2>3. 1 \in 1 .. i /\ 1 \in 1 .. Len(stack) /\ Len(stack) \in 1 .. Len(stack)
    BY <1>2, <2>2
  <2>4. Top.bb \in Reach(Forward, a, {})
    BY <1>2, <2>1, <2>2, <2>3 DEF LeadOn
  <2>5. Top.bb \in Reachable(Forward)
    BY <1>2, <2>1, <2>3 DEF LeadOn, Reachable
  <2>6. CutsCycles(Forward, {})
    BY <1>2, StructuredMeans DEF Forward, AllForward
  <2> QED BY <2>4, <2>5, <2>6 DEF CutsCycles
<1> QED BY <1>3, <1>4, <1>5 DEF Found, Succs

LEMMA ForwardInit == Init => ForwardSoFar
BY DEF Init, Start, ForwardSoFar, CallsFollow

LEMMA CallKeepsForward == Core /\ ForwardSoFar /\ Call => ForwardSoFar'
<1> SUFFICES ASSUME Core, ForwardSoFar, Call PROVE ForwardSoFar'
  OBVIOUS
<1> DEFINE new == [bb |-> root, succ |-> 2]
           c == basic_blocks_counter
<1>1. /\ rpo_vector' = [k \in 1 .. c |-> nullptr] /\ stack' = <<new>> \o <<>>
      /\ UNCHANGED <<m_succs, removed>> /\ c \in Nat
  BY DEF Call, Enter, Core, TypeOK
<1>2. stack' = <<new>> /\ new.bb = root
  BY <1>1
<1> HIDE DEF new
<1>3. Len(stack') = 1 /\ stack'[1].bb = root
  BY <1>2
<1>4. ForwardCalls(stack')
  <2>1. LeadOn(Forward, {}, stack')
    BY <1>3, FirstLeadsOn
  <2> QED BY <1>3, <2>1 DEF ForwardCalls
<1>5. ForwardBehind(rpo_vector')
  BY <1>1 DEF ForwardBehind
<1> QED BY <1>1, <1>4, <1>5, ForwardNext

LEMMA IgnoreKeepsForward == Core /\ ForwardSoFar /\ IgnoreSuccessor => ForwardSoFar'
<1> SUFFICES ASSUME Core, ForwardSoFar, IgnoreSuccessor, Structured(m_succs), removed = {}
             PROVE  ForwardCalls(stack') /\ ForwardBehind(rpo_vector')
  BY ForwardNext DEF IgnoreSuccessor
<1>1. /\ InCall /\ Top.succ > 0 /\ stack' = Advanced /\ rpo_vector' = rpo_vector
  BY DEF IgnoreSuccessor
<1>2. ForwardCalls(stack) /\ ForwardBehind(rpo_vector)
  BY ForwardMeans
<1>3. /\ stack # <<>> /\ Len(stack) \in Nat /\ Len(stack) # 0 /\ Len(stack') = Len(stack)
      /\ \A k \in 1 .. Len(stack) : stack'[k].bb = stack[k].bb
  BY <1>1, RunningCall, AdvancedProperties DEF Core
<1>4. LeadOn(Forward, {}, stack')
  BY <1>2, <1>3, SameBlocksLeadOn DEF ForwardCalls
<1> QED BY <1>1, <1>2, <1>3, <1>4 DEF ForwardCalls

LEMMA VisitKeepsForward == Core /\ ForwardSoFar /\ VisitSuccessor => ForwardSoFar'
<1> SUFFICES ASSUME Core, ForwardSoFar, VisitSuccessor, Structured(m_succs), removed = {}
             PROVE  ForwardCalls(stack') /\ ForwardBehind(rpo_vector')
  BY ForwardNext DEF VisitSuccessor
<1> DEFINE new == [bb |-> Successor, succ |-> 2]
<1>1. /\ InCall /\ Top.succ > 0 /\ stack' = <<new>> \o Advanced /\ rpo_vector' = rpo_vector
      /\ new.bb = Successor
  BY DEF VisitSuccessor, Enter
<1>2. ForwardCalls(stack) /\ ForwardBehind(rpo_vector)
  BY ForwardMeans
<1>3. /\ stack # <<>> /\ Len(stack) \in Nat /\ Len(stack) # 0 /\ Len(Advanced) = Len(stack)
      /\ Advanced \in Seq(Frame) /\ Advanced # <<>> /\ Top = stack[1]
      /\ \A k \in 1 .. Len(stack) : Advanced[k].bb = stack[k].bb
  BY <1>1, RunningCall, AdvancedProperties DEF Core
<1>4. Successor \in Succs(Forward, Advanced[1].bb) /\ new \in Frame
  <2>1. Successor \in Succs(Forward, Top.bb)
    BY CallsGoForward DEF AllForward, Core, TypeOK
  <2>2. Successor \in BasicBlock
    BY <1>1, RunningCall DEF VisitSuccessor, Ignored, Core
  <2> QED BY <1>3, <2>1, <2>2 DEF Frame
<1> HIDE DEF new
<1>5. LeadOn(Forward, {}, Advanced)
  BY <1>2, <1>3, SameBlocksLeadOn DEF ForwardCalls
<1>6. LeadOn(Forward, {}, stack')
  BY <1>1, <1>3, <1>4, <1>5, FrameHasBlock, PushLeadsOn
<1>7. stack'[Len(stack')].bb = root
  BY <1>1, <1>2, <1>3, <1>4 DEF ForwardCalls
<1> QED BY <1>1, <1>2, <1>6, <1>7 DEF ForwardCalls

LEMMA ReturnKeepsForward == Core /\ ForwardSoFar /\ Return => ForwardSoFar'
<1> SUFFICES ASSUME Core, ForwardSoFar, Return, Structured(m_succs), removed = {}
             PROVE  ForwardCalls(stack') /\ ForwardBehind(rpo_vector')
  BY ForwardNext DEF Return
<1> DEFINE c == basic_blocks_counter
<1>1. InCall /\ stack' = Tail(stack)
  BY DEF Return
<1>2. ForwardCalls(stack) /\ ForwardBehind(rpo_vector)
  BY ForwardMeans
<1>3. /\ stack \in Seq(Frame) /\ stack # <<>>
  BY <1>1, RunningCall DEF Core
<1>4. ForwardCalls(stack')
  <2>1. LeadOn(Forward, {}, stack')
    BY <1>1, <1>2, <1>3, PopLeadsOn DEF ForwardCalls
  <2>2. stack' # <<>> => stack'[Len(stack')].bb = root
    BY <1>1, <1>2, <1>3 DEF ForwardCalls
  <2> QED BY <2>1, <2>2 DEF ForwardCalls
<1>5. /\ c \in 1 .. Len(rpo_vector) /\ Len(rpo_vector') = Len(rpo_vector)
      /\ rpo_vector'[c] = Top.bb
      /\ \A k \in 1 .. Len(rpo_vector) : k # c => rpo_vector'[k] = rpo_vector[k]
  BY ReturnFills
<1>6. \A k \in 1 .. Len(rpo_vector) : rpo_vector[k] = nullptr <=> k <= c
  BY DEF Core, FoundOnce
<1>7. ASSUME NEW j \in 1 .. Len(rpo_vector), rpo_vector'[j] # nullptr,
             NEW a \in Succs(Forward, rpo_vector'[j])
      PROVE  \E k \in j + 1 .. Len(rpo_vector) : rpo_vector'[k] = a
  <2>1. CASE j = c
    <3>1. a \in Ordered /\ a # nullptr
      BY <1>5, <1>7, <2>1, ReturnsBeforeForward DEF AllForward, Core, TypeOK
    <3>2. PICK k \in 1 .. Len(rpo_vector) : rpo_vector[k] = a
      BY <3>1 DEF Ordered, Elements
    <3>3. ~ (k <= c)
      BY <1>6, <3>1, <3>2
    <3>4. k \in j + 1 .. Len(rpo_vector) /\ k # c
      BY <1>5, <2>1, <3>3
    <3> QED BY <1>5, <3>2, <3>4
  <2>2. CASE j # c
    <3>1. rpo_vector'[j] = rpo_vector[j] /\ ~ (j <= c)
      BY <1>5, <1>6, <1>7, <2>2
    <3>2. PICK k \in j + 1 .. Len(rpo_vector) : rpo_vector[k] = a
      BY <1>2, <1>7, <3>1 DEF ForwardBehind
    <3>3. k # c /\ k \in 1 .. Len(rpo_vector)
      BY <1>5, <3>1
    <3> QED BY <1>5, <3>2, <3>3
  <2> QED BY <2>1, <2>2
<1>8. ForwardBehind(rpo_vector')
  BY <1>5, <1>7 DEF ForwardBehind
<1> QED BY <1>4, <1>8

LEMMA EndKeepsForward ==
  ASSUME ForwardSoFar, CallRemoved \/ Abort \/ Unmark \/ UnmarkNull \/ UNCHANGED vars
  PROVE  ForwardSoFar'
<1>1. UNCHANGED <<m_succs, removed, stack, rpo_vector>>
  BY DEF CallRemoved, Abort, Unmark, UnmarkNull, vars
<1> QED BY <1>1, ForwardMeans, ForwardNext

\* Every step of rpo keeps the whole invariant.
LEMMA InitIInv == Init => IInv
BY InitCore, ForwardInit DEF IInv

LEMMA NextKeepsIInv == IInv /\ [Next]_vars => IInv'
BY NextKeepsCore, CallKeepsForward, IgnoreKeepsForward, VisitKeepsForward,
   ReturnKeepsForward, EndKeepsForward DEF Next, IInv

(***************************************************************************)
(* rpo implements Search.                                                  *)
(***************************************************************************)

\* What Search sees as visited are the blocks found.
LEMMA VisitedIsFound ==
  ASSUME Core PROVE (IF pc = "done" THEN Ordered ELSE marked) = Found
<1>1. pc = "done" => Calling = {}
  BY DEF Core, Control, Calling, Elements
<1> QED BY <1>1 DEF Core, TypeOK, Found

\* When no call is left, every successor of a found block has been found.
LEMMA NothingLeft ==
  ASSUME Core, stack = <<>>, rpo_vector # <<>>
  PROVE  /\ Found = Ordered /\ root \in Ordered
         /\ ClosedUnder(m_succs, removed, Ordered)
<1>1. Found = Ordered /\ root \in Ordered
  <2>1. Calling = {}
    BY DEF Calling, Elements
  <2> QED BY <2>1 DEF Found, Core, Control
<1>2. ASSUME NEW b \in Ordered, NEW c \in Succs(m_succs, b) \ removed PROVE c \in Ordered
  <2>1. Settled(b, 1) /\ Settled(b, 2)
    BY DEF Core, CallsSettle
  <2> QED BY <1>1, <1>2, <2>1 DEF Settled, Succs
<1> QED BY <1>1, <1>2 DEF ClosedUnder

\* The traversal starts where Search does.
LEMMA InitRefines == Init => Promise!Init
<1>1. Promise!BuiltGraphs = BuiltGraphs
  BY DEF Promise!BuiltGraphs, Promise!BBSuccs, BuiltGraphs, BBSuccs
<1> QED BY <1>1 DEF Init, Start, Promise!Init

\* A call for a block visits it, the end of the traversal finishes, and no other
\* step, the failures included, changes what Search speaks of.
LEMMA StepRefines == Core /\ [Next]_vars => [Promise!Next]_Promise!vars
<1> SUFFICES ASSUME Core, [Next]_vars PROVE [Promise!Next]_Promise!vars
  OBVIOUS
<1> DEFINE visited == IF pc = "done" THEN Ordered ELSE marked
<1>0. /\ visited = Found /\ visited' = Found'
      /\ Promise!Frontier = ({root} \cup UNION {Succs(m_succs, b) : b \in Found})
                              \ (removed \cup Found)
  <2>1. Core'
    BY NextKeepsCore
  <2>2. visited = Found
    BY VisitedIsFound
  <2>3. visited' = Found'
    <3>1. pc' = "done" => Calling' = {}
      BY <2>1 DEF Core, Control, Calling, Elements
    <3> QED BY <2>1, <3>1 DEF Core, TypeOK, Found
  <2>4. \A b : Promise!Succs(m_succs, b) = Succs(m_succs, b)
    BY DEF Promise!Succs, Succs
  <2>5. Promise!Frontier = ({root} \cup UNION {Succs(m_succs, b) : b \in visited})
                              \ (removed \cup visited)
    BY <2>4 DEF Promise!Frontier
  <2> QED BY <2>1, <2>2, <2>3, <2>5
<1>1. ASSUME CallRemoved PROVE Promise!Next
  <2>1. Found = {} /\ Found' = {}
    BY <1>1 DEF CallRemoved, Core, Control, Found, Ordered, Calling, Elements
  <2> QED BY <1>0, <1>1, <2>1 DEF CallRemoved, Promise!Next, Promise!Finish
<1>2. ASSUME Call PROVE Promise!Next
  <2>1. /\ pc = "call" /\ root \notin removed /\ pc' = "search"
        /\ marked' = marked \cup {root} /\ UNCHANGED <<m_succs, removed>>
    BY <1>2 DEF Call, Enter
  <2>2. Found = {}
    BY <2>1 DEF Core, Control, Found, Ordered, Calling, Elements
  <2>3. Found' = Found \cup {root}
    BY <1>0, <2>1, <2>2
  <2>4. Promise!Visit(root)
    BY <1>0, <2>1, <2>2, <2>3 DEF Promise!Visit
  <2> QED BY <2>4, RootAssumption DEF Promise!Next
<1>3. ASSUME VisitSuccessor PROVE Promise!Next
  <2>1. /\ InCall /\ Top.succ > 0 /\ ~ Ignored(Successor)
        /\ marked' = marked \cup {Successor} /\ UNCHANGED <<m_succs, removed, pc>>
    BY <1>3 DEF VisitSuccessor, Enter
  <2>2. /\ Top.bb \in Found /\ marked = Found /\ pc = "search"
        /\ Successor \in BasicBlock \cup {nullptr}
        /\ Successor # nullptr => Successor \in Succs(m_succs, Top.bb)
    BY <2>1, RunningCall DEF Core, Found
  <2>3. /\ Successor \in BasicBlock /\ Successor \notin Found /\ Successor \notin removed
        /\ Successor \in Succs(m_succs, Top.bb)
    BY <2>1, <2>2 DEF Ignored
  <2>4. Found' = Found \cup {Successor}
    BY <1>0, <2>1, <2>2
  <2>5. Successor \in Promise!Frontier
    BY <1>0, <2>2, <2>3
  <2>6. Promise!Visit(Successor)
    BY <1>0, <2>1, <2>2, <2>4, <2>5 DEF Promise!Visit
  <2> QED BY <2>3, <2>6 DEF Promise!Next
<1>4. ASSUME Unmark PROVE Promise!Next
  <2>1. /\ pc = "search" /\ stack = <<>> /\ pc' = "done"
        /\ UNCHANGED <<m_succs, removed, stack, rpo_vector>>
    BY <1>4 DEF Unmark
  <2>2. /\ Found = Ordered /\ root \in Ordered
        /\ ClosedUnder(m_succs, removed, Ordered)
    BY <2>1, NothingLeft DEF Core, Control
  <2>3. Promise!Frontier = {}
    BY <1>0, <2>2 DEF ClosedUnder
  <2>4. Found' = Found
    BY <2>1 DEF Found, Ordered, Calling
  <2> QED BY <1>0, <2>1, <2>2, <2>3, <2>4 DEF Promise!Next, Promise!Finish
<1>5. ASSUME IgnoreSuccessor \/ Abort \/ UnmarkNull \/ UNCHANGED vars
      PROVE  UNCHANGED Promise!vars
  BY <1>5 DEF IgnoreSuccessor, Abort, UnmarkNull, vars, Promise!vars, Ordered, InCall
<1>6. ASSUME Return PROVE UNCHANGED Promise!vars
  <2>1. Found' = Found
    BY <1>6, ReturnFills
  <2> QED BY <1>0, <1>6, <2>1 DEF Return, Promise!vars
<1> QED BY <1>1, <1>2, <1>3, <1>4, <1>5, <1>6 DEF Next

(***************************************************************************)
(* The size the caller passes.                                             *)
(***************************************************************************)

\* There are as many ordered blocks as filled places.
LEMMA OrderedSize ==
  ASSUME Core, rpo_vector # <<>>
  PROVE  /\ IsFiniteSet(Ordered) /\ Len(rpo_vector) \in Nat
         /\ Cardinality(Ordered) = Len(rpo_vector) - basic_blocks_counter
<1> DEFINE c == basic_blocks_counter
           n == Len(rpo_vector)
           f == [k \in c + 1 .. n |-> rpo_vector[k]]
<1>1. c \in Nat /\ n \in Nat /\ c <= n
  BY DEF Core, TypeOK, Control
<1>2. \A k \in 1 .. n : rpo_vector[k] = nullptr <=> k <= c
  BY DEF Core, FoundOnce
<1>3. \A k \in c + 1 .. n : k \in 1 .. n /\ ~ (k <= c)
  BY <1>1
<1>4. f \in [c + 1 .. n -> Ordered]
  BY <1>2, <1>3 DEF Ordered, Elements
<1>5. \A j, k \in c + 1 .. n : f[j] = f[k] => j = k
  BY <1>2, <1>3 DEF Core, FoundOnce
<1>6. \A x \in Ordered : \E k \in c + 1 .. n : f[k] = x
  <2> TAKE x \in Ordered
  <2>1. PICK k \in 1 .. n : rpo_vector[k] = x /\ x # nullptr
    BY DEF Ordered, Elements
  <2>2. k \in c + 1 .. n
    BY <1>1, <1>2, <2>1
  <2> QED BY <2>1, <2>2
<1> HIDE DEF f
<1>7. f \in Bijection(c + 1 .. n, Ordered)
  BY <1>4, <1>5, <1>6 DEF Bijection, Injection, IsInjective, Surjection
<1>8. IsFiniteSet(c + 1 .. n) /\ Cardinality(c + 1 .. n) = n - c
  <2>1. c + 1 \in Int /\ n \in Int
    BY <1>1
  <2>2. /\ IsFiniteSet(c + 1 .. n)
        /\ Cardinality(c + 1 .. n) = IF c + 1 > n THEN 0 ELSE n - (c + 1) + 1
    BY <2>1, FS_Interval
  <2> QED BY <1>1, <2>2
<1>9. ExistsBijection(c + 1 .. n, Ordered)
  BY <1>7 DEF ExistsBijection
<1> QED BY <1>1, <1>8, <1>9, FS_Bijection

\* The blocks to order are finitely many.
LEMMA ExpectedIsFinite ==
  ASSUME Core
  PROVE  IsFiniteSet(Expected) /\ Cardinality(Expected) \in Nat
<1>1. Expected \subseteq BasicBlock
  BY DEF Expected, Reach
<1> QED BY <1>1, BlocksAssumption, FS_Subset, FS_CardinalityType

\* When no call is left the ordered blocks are those that can be reached.
LEMMA OrderedIsExpected ==
  ASSUME Core, stack = <<>>, rpo_vector # <<>> PROVE Ordered = Expected
<1>1. /\ Found = Ordered /\ root \in Ordered
      /\ ClosedUnder(m_succs, removed, Ordered)
  BY NothingLeft
<1>2. Ordered \subseteq BasicBlock
  BY DEF Core, TypeOK, Ordered, Elements
<1>3. Expected \subseteq Ordered
  BY <1>1, <1>2, ReachLeast DEF Expected
<1> QED BY <1>1, <1>3 DEF Core

\* With too few places one block is in hand that has none, with too many all are
\* placed before the vector is full.
LEMMA CoreSizeMatters == Core => SizeMatters
<1> SUFFICES ASSUME Core PROVE SizeMatters
  OBVIOUS
<1>0. IsFiniteSet(Expected) /\ Cardinality(Expected) \in Nat /\ basic_blocks_counter \in Nat
  BY ExpectedIsFinite DEF Core, TypeOK
<1>1. ASSUME pc = "aborted"
      PROVE  rpo_vector # <<>> /\ Len(rpo_vector) < Cardinality(Expected)
  <2>1. rpo_vector # <<>> /\ stack # <<>> /\ basic_blocks_counter = 0
    BY <1>1 DEF Core, Control
  <2>2. /\ IsFiniteSet(Ordered) /\ Len(rpo_vector) \in Nat
        /\ Cardinality(Ordered) = Len(rpo_vector)
    BY <2>1, OrderedSize
  <2>3. stack[1].bb \in Calling
    <3>1. 1 \in 1 .. Len(stack)
      BY <2>1 DEF Core, TypeOK
    <3> QED BY <3>1 DEF Calling, Elements
  <2> DEFINE b == stack[1].bb
  <2>4. b \notin Ordered /\ Ordered \cup {b} \subseteq Expected
    BY <2>3 DEF Core, FoundOnce, Found
  <2> HIDE DEF b
  <2>5. /\ IsFiniteSet(Ordered \cup {b})
        /\ Cardinality(Ordered \cup {b}) = Cardinality(Ordered) + 1
    BY <2>2, <2>4, FS_AddElement
  <2>6. Cardinality(Ordered \cup {b}) <= Cardinality(Expected)
    BY <1>0, <2>4, FS_Subset
  <2> QED BY <1>0, <2>1, <2>2, <2>5, <2>6
<1>2. ASSUME pc = "crashed"
      PROVE  rpo_vector # <<>> /\ Len(rpo_vector) > Cardinality(Expected)
  <2>1. rpo_vector # <<>> /\ stack = <<>> /\ basic_blocks_counter # 0
    BY <1>2 DEF Core, Control
  <2> QED BY <1>0, <2>1, OrderedSize, OrderedIsExpected
<1>3. ASSUME pc = "done", root \notin removed
      PROVE  rpo_vector # <<>> /\ Len(rpo_vector) = Cardinality(Expected)
  <2>1. rpo_vector # <<>> /\ stack = <<>> /\ basic_blocks_counter = 0
    BY <1>3 DEF Core, Control
  <2> QED BY <1>0, <2>1, OrderedSize, OrderedIsExpected
<1> QED BY <1>1, <1>2, <1>3 DEF SizeMatters

(***************************************************************************)
(* The order.                                                              *)
(***************************************************************************)

\* The order of the end is the one kept so far: a block that comes before another
\* can be reached around it, so it is not dominated by it.
LEMMA IInvTopological == IInv => Topological
<1> SUFFICES ASSUME Core, ForwardSoFar, pc = "done",
                    NEW j \in 1 .. Len(rpo_vector), NEW k \in 1 .. Len(rpo_vector)
             PROVE  LET a == rpo_vector[j]
                        b == rpo_vector[k]
                    IN  /\ removed = {} /\ <<a, b>> \in Dominance(m_succs) => j <= k
                        /\ k >= j /\ a \in Succs(m_succs, b) =>
                             /\ b \in Reach(m_succs, a, removed)
                             /\ removed = {} /\ Structured(m_succs) =>
                                  <<b, a>> \in BackEdges(m_succs)
  BY DEF Topological, IInv
<1> DEFINE a == rpo_vector[j]
           b == rpo_vector[k]
<1>1. rpo_vector # <<>> /\ basic_blocks_counter = 0 /\ stack = <<>> /\ m_succs \in BuiltGraphs
  BY DEF Core, TypeOK, Control
<1>2. a # nullptr /\ b # nullptr
  BY <1>1 DEF Core, FoundOnce
<1>3. ASSUME removed = {}, <<a, b>> \in Dominance(m_succs), ~ (j <= k) PROVE FALSE
  <2>1. j \in k + 1 .. Len(rpo_vector)
    BY <1>3
  <2>2. b \in Reach(m_succs, root, {a})
    BY <1>2, <2>1 DEF Core, OrderSoFar
  <2>3. a # b
    BY <1>2, <1>3 DEF Core, FoundOnce
  <2>4. a \in Reachable(m_succs) /\ b \in Reachable(m_succs)
    BY <1>3 DEF Dominance
  <2> HIDE DEF a, b
  <2> QED BY <1>1, <1>3, <2>2, <2>3, <2>4, DominanceIsCut
<1>4. ASSUME k >= j, a \in Succs(m_succs, b) PROVE b \in Reach(m_succs, a, removed)
  <2>1. a \notin removed
    <3>1. a \in Found
      BY <1>2 DEF Found, Ordered, Elements
    <3>2. a \in Expected
      BY <3>1 DEF Core
    <3>3. root \in BasicBlock
      BY RootAssumption
    <3> QED BY <1>1, <3>2, <3>3, ReachAvoids DEF Expected
  <2>2. \/ b \in Reach(m_succs, a, removed)
        \/ \E m \in k + 1 .. Len(rpo_vector) : rpo_vector[m] = a
    BY <1>2, <1>4, <2>1 DEF Core, OrderSoFar
  <2>3. ASSUME NEW m \in k + 1 .. Len(rpo_vector), rpo_vector[m] = a PROVE FALSE
    <3>1. m \in 1 .. Len(rpo_vector) /\ m # j
      BY <1>4, <2>3
    <3> QED BY <1>2, <2>3, <3>1 DEF Core, FoundOnce
  <2> QED BY <2>2, <2>3
<1>5. ASSUME k >= j, a \in Succs(m_succs, b), removed = {}, Structured(m_succs),
             <<b, a>> \notin BackEdges(m_succs)
      PROVE  FALSE
  <2>1. b \in BasicBlock
    BY <1>2 DEF Core, TypeOK
  <2>2. a \in Succs(Forward, b)
    BY <1>1, <1>5, <2>1, ForwardSuccs
  <2>3. PICK m \in k + 1 .. Len(rpo_vector) : rpo_vector[m] = a
    BY <1>2, <1>5, <2>2, ForwardMeans DEF ForwardBehind
  <2>4. m \in 1 .. Len(rpo_vector) /\ m # j
    BY <1>5, <2>3
  <2> QED BY <1>2, <2>3, <2>4 DEF Core, FoundOnce
<1> QED BY <1>3, <1>4, <1>5

(***************************************************************************)
(* The theorems.                                                           *)
(***************************************************************************)

\* Every reachable state satisfies the inductive invariant.
THEOREM Invariance == Spec => []IInv
BY InitIInv, NextKeepsIInv, PTL DEF Spec

\* The marked blocks are those found, until rpo returns and no marker is left.
THEOREM TypeCorrect == Spec => []TypeOK
BY Invariance, PTL DEF IInv, Core

\* The assertion fails only if the caller counted too few blocks, a null block is
\* dereferenced only if it counted too many, and an answer is given only if it
\* counted the blocks that can be reached, in a function of any number of blocks.
THEOREM SizeDecides == Spec => []SizeMatters
BY Invariance, CoreSizeMatters, PTL DEF IInv

\* The answer is in topological order but for edges that close a cycle, which in
\* structured code are the back edges, and no block comes before one that
\* dominates it.
THEOREM OrderIsTopological == Spec => []Topological
BY Invariance, IInvTopological, PTL

\* Every step of rpo is one that Search allows, or changes nothing it sees.
THEOREM Refinement == Spec => ImplementsSearch
BY InitRefines, StepRefines, Invariance, PTL DEF IInv, Spec, Promise!Spec, ImplementsSearch

=============================================================================
