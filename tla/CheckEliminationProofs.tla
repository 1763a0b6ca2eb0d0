----------------------- MODULE CheckEliminationProofs -----------------------
(***************************************************************************)
(* dfs, dom and the pass that uses them, in a function of any number of    *)
(* blocks.  dfs takes the steps of Search, and so finds the reachable      *)
(* blocks.  What dom returns is dominance: each of its calls of dfs starts *)
(* clean and finds what can be reached without the removed block, and the  *)
(* blocks that cannot are those it dominates.  In CheckElimination, with   *)
(* any checks in the blocks, no pointer in m_seen dangles, no execution    *)
(* misses a check, and nothing superfluous is left.                        *)
(***************************************************************************)
EXTENDS CheckElimination, CfgProofs

(***************************************************************************)
(* The invariant of dfs.                                                   *)
(***************************************************************************)

\* What the running call looks at.
LEMMA RunningCall ==
  ASSUME TypeOK, CallsSettle, InCall
  PROVE  /\ Top \in Frame /\ Top \in Elements(stack)
         /\ Top.bb \in BasicBlock /\ Top.bb \in Found
         /\ Tail(stack) \in Seq(Frame)
         /\ marked = Found /\ pc = "search"
         /\ Elements(stack) = {Top} \cup Elements(Tail(stack))
         /\ Top.succ <= 2 =>
              /\ Top.succ \in 1 .. 2
              /\ Successor \in BasicBlock \cup {nullptr}
              /\ Successor # nullptr => Successor \in Succs(m_succs, Top.bb)
              /\ [Top EXCEPT !.succ = @ + 1] \in Frame
              /\ [Top EXCEPT !.succ = @ + 1].bb = Top.bb
              /\ [Top EXCEPT !.succ = @ + 1].succ = Top.succ + 1
<1>1. stack \in Seq(Frame) /\ stack # <<>> /\ pc = "search" /\ marked = Found
  BY DEF TypeOK, InCall
<1>2. /\ Top \in Frame /\ Tail(stack) \in Seq(Frame)
      /\ Elements(stack) = {Top} \cup Elements(Tail(stack))
  BY <1>1, PopProperties DEF Top
<1>3. Top.bb \in Found
  BY <1>2 DEF CallsSettle
<1>4. Top.bb \in BasicBlock /\ Top.succ \in 1 .. 3
  BY <1>2 DEF Frame
<1>5. ASSUME Top.succ <= 2
      PROVE  /\ Top.succ \in 1 .. 2
             /\ Successor \in BasicBlock \cup {nullptr}
             /\ Successor # nullptr => Successor \in Succs(m_succs, Top.bb)
             /\ [Top EXCEPT !.succ = @ + 1] \in Frame
             /\ [Top EXCEPT !.succ = @ + 1].bb = Top.bb
             /\ [Top EXCEPT !.succ = @ + 1].succ = Top.succ + 1
  <2>1. Top.succ \in 1 .. 2
    BY <1>4, <1>5
  <2>2. m_succs[Top.bb] \in BBSuccs
    BY <1>4 DEF TypeOK, BuiltGraphs
  <2>3. /\ Successor \in BasicBlock \cup {nullptr}
        /\ Successor # nullptr => Successor \in Succs(m_succs, Top.bb)
    <3>1. \/ Successor = m_succs[Top.bb][1] /\ Top.succ = 1
          \/ Successor = m_succs[Top.bb][2] /\ Top.succ = 2
      BY <2>1 DEF Successor
    <3> QED BY <3>1, <2>2 DEF BBSuccs, Succs
  <2>4. /\ [Top EXCEPT !.succ = @ + 1] \in Frame
        /\ [Top EXCEPT !.succ = @ + 1].bb = Top.bb
        /\ [Top EXCEPT !.succ = @ + 1].succ = Top.succ + 1
    BY <1>2, <2>1 DEF Frame
  <2> QED BY <2>1, <2>3, <2>4
<1> QED BY <1>1, <1>2, <1>3, <1>4, <1>5

\* The invariant holds before dfs is called.
LEMMA InitIInv == Init => IInv
<1> SUFFICES ASSUME Init PROVE IInv
  OBVIOUS
<1>1. Found = {} /\ Elements(stack) = {}
  BY DEF Init, Found, Elements
<1>2. TypeOK
  BY <1>1 DEF Init, TypeOK
<1>3. FoundOnce
  BY DEF Init, FoundOnce
<1> QED BY <1>1, <1>2, <1>3 DEF Init, IInv, CallsSettle, RootFirst

\* What a new call for block b in front of the calls in `callers` changes.
LEMMA EnterProperties ==
  ASSUME TypeOK, Distinct(dfs_vector), marked = Found,
         NEW b \in BasicBlock, b \notin Found,
         NEW callers \in Seq(Frame), Enter(b, callers)
  PROVE  LET new == [bb |-> b, succ |-> 1]
         IN  /\ new \in Frame
             /\ stack' = <<new>> \o callers /\ stack' \in Seq(Frame)
             /\ Elements(stack') = {new} \cup Elements(callers)
             /\ dfs_vector' \in Seq(BasicBlock) /\ Distinct(dfs_vector')
             /\ Found' = Found \cup {b} /\ marked' = Found'
<1> DEFINE new == [bb |-> b, succ |-> 1]
<1>1. new \in Frame
  BY DEF Frame
<1>2. stack' = <<new>> \o callers
  BY DEF Enter
<1>3. stack' \in Seq(Frame) /\ Elements(stack') = {new} \cup Elements(callers)
  <2> HIDE DEF new
  <2> QED BY <1>1, <1>2, PushProperties
<1>4. dfs_vector \in Seq(BasicBlock) /\ dfs_vector' = Append(dfs_vector, b)
  BY DEF TypeOK, Enter
<1>5. /\ dfs_vector' \in Seq(BasicBlock) /\ Distinct(dfs_vector')
      /\ Elements(dfs_vector') = Elements(dfs_vector) \cup {b}
  <2>1. b \in BasicBlock /\ b \notin Elements(dfs_vector) /\ Distinct(dfs_vector)
    BY DEF Found
  <2> QED BY ONLY <1>4, <2>1, PushBackProperties
<1>6. marked' = marked \cup {b}
  BY DEF Enter
<1> QED BY <1>1, <1>2, <1>3, <1>5, <1>6 DEF Found

LEMMA FoundOnceMeans == FoundOnce <=> Distinct(dfs_vector) /\ DistinctCalls(stack)
BY DEF FoundOnce, Distinct, DistinctCalls

\* The stack after process_successor moved on in the running call.
LEMMA AdvancedProperties ==
  ASSUME IInv, InCall, Top.succ <= 2
  PROVE  LET advanced == [Top EXCEPT !.succ = @ + 1]
         IN  /\ Advanced \in Seq(Frame) /\ DistinctCalls(Advanced)
             /\ Elements(Advanced) = {advanced} \cup Elements(Tail(stack))
<1> DEFINE advanced == [Top EXCEPT !.succ = @ + 1]
<1>1. /\ Tail(stack) \in Seq(Frame) /\ advanced \in Frame /\ advanced.bb = Top.bb
      /\ stack \in Seq(Frame) /\ stack # <<>>
  BY RunningCall DEF IInv, TypeOK, InCall
<1>2. Advanced = <<advanced>> \o Tail(stack)
  BY DEF Advanced
<1> HIDE DEF advanced
<1>3. Advanced \in Seq(Frame) /\ Elements(Advanced) = {advanced} \cup Elements(Tail(stack))
  BY ONLY <1>1, <1>2, PushProperties, ZenonT(60)
<1>4. /\ DistinctCalls(Tail(stack))
      /\ \A g \in Elements(Tail(stack)) : g.bb # Top.bb
  BY <1>1, PopKeepsDistinctCalls, FoundOnceMeans DEF IInv, Top
<1>5. \A g \in Elements(Tail(stack)) : g.bb # advanced.bb
  BY <1>1, <1>4
<1>6. DistinctCalls(Advanced)
  BY ONLY <1>1, <1>2, <1>4, <1>5, PushKeepsDistinctCalls
<1> QED BY <1>3, <1>6 DEF advanced

\* The invariant is kept when the running call comes past a settled successor.
LEMMA IgnoreKeepsIInv == IInv /\ IgnoreSuccessor => IInv'
<1> SUFFICES ASSUME IInv, IgnoreSuccessor PROVE IInv'
  OBVIOUS
<1> DEFINE advanced == [Top EXCEPT !.succ = @ + 1]
<1>1. /\ InCall /\ Top.succ <= 2 /\ Ignored(Successor) /\ stack' = Advanced
      /\ UNCHANGED <<m_succs, removed, marked, dfs_vector, pc>>
  BY DEF IgnoreSuccessor
<1>2. /\ Top \in Frame /\ Top.bb \in BasicBlock /\ Top.bb \in Found
      /\ marked = Found /\ pc = "search" /\ Top.succ \in 1 .. 2
      /\ Elements(stack) = {Top} \cup Elements(Tail(stack))
      /\ advanced.bb = Top.bb /\ advanced.succ = Top.succ + 1
  BY <1>1, RunningCall DEF IInv
<1> HIDE DEF advanced
<1>3. /\ stack' \in Seq(Frame) /\ DistinctCalls(stack')
      /\ Elements(stack') = {advanced} \cup Elements(Tail(stack))
  BY <1>1, AdvancedProperties DEF advanced
<1>4. Found' = Found
  BY <1>1 DEF Found
<1>5. TypeOK'
  BY <1>1, <1>3, <1>4 DEF IInv, TypeOK
<1>6. FoundOnce'
  <2>1. Distinct(dfs_vector)
    BY FoundOnceMeans DEF IInv
  <2> QED BY <1>1, <1>3, <2>1 DEF FoundOnce, Distinct, DistinctCalls
<1>7. Settled(Top.bb, Top.succ)
  BY <1>1, <1>2 DEF Ignored, Successor, Settled
<1>8. \A b, e : Settled(b, e) => Settled(b, e)'
  BY <1>1, <1>4 DEF Settled
<1>9. CallsSettle'
  <2>1. ASSUME NEW f \in Elements(stack')
        PROVE  f.bb \in Found' /\ \A e \in 1 .. 2 : e < f.succ => Settled(f.bb, e)'
    <3>1. CASE f = advanced
      <4>1. \A e \in 1 .. 2 : e < f.succ => e < Top.succ \/ e = Top.succ
        BY <1>2, <3>1
      <4>2. \A e \in 1 .. 2 : e < Top.succ => Settled(Top.bb, e)
        BY <1>2 DEF IInv, CallsSettle
      <4> QED BY <1>2, <1>4, <1>7, <1>8, <3>1, <4>1, <4>2
    <3>2. CASE f \in Elements(Tail(stack))
      BY <1>2, <1>4, <1>8, <3>2 DEF IInv, CallsSettle
    <3> QED BY <1>3, <2>1, <3>1, <3>2
  <2>2. ASSUME NEW b \in Found'
        PROVE  (\E f \in Elements(stack') : f.bb = b) \/ \A e \in 1 .. 2 : Settled(b, e)'
    BY <1>2, <1>3, <1>4, <1>8 DEF IInv, CallsSettle
  <2> QED BY <2>1, <2>2 DEF CallsSettle
<1>10. RootFirst'
  BY <1>1, <1>2, <1>4 DEF IInv, RootFirst
<1> QED BY <1>5, <1>6, <1>9, <1>10 DEF IInv

\* The invariant is kept when the running call calls for a successor, which is
\* found by that call.
LEMMA VisitKeepsIInv == IInv /\ VisitSuccessor => IInv'
<1> SUFFICES ASSUME IInv, VisitSuccessor PROVE IInv'
  OBVIOUS
<1> DEFINE advanced == [Top EXCEPT !.succ = @ + 1]
<1> DEFINE new == [bb |-> Successor, succ |-> 1]
<1>1. /\ InCall /\ Top.succ <= 2 /\ ~ Ignored(Successor)
      /\ Enter(Successor, Advanced)
      /\ UNCHANGED <<m_succs, removed, pc>>
  BY DEF VisitSuccessor
<1>2. /\ Top \in Frame /\ Top.bb \in BasicBlock /\ Top.bb \in Found
      /\ marked = Found /\ pc = "search" /\ Top.succ \in 1 .. 2
      /\ Elements(stack) = {Top} \cup Elements(Tail(stack))
      /\ advanced.bb = Top.bb /\ advanced.succ = Top.succ + 1
  BY <1>1, RunningCall DEF IInv
<1>3. Successor \in BasicBlock /\ Successor \notin Found
  BY <1>1, <1>2, RunningCall DEF Ignored, IInv
<1>4. /\ Advanced \in Seq(Frame) /\ DistinctCalls(Advanced)
      /\ Elements(Advanced) = {advanced} \cup Elements(Tail(stack))
  BY <1>1, AdvancedProperties
<1>5. /\ new \in Frame
      /\ stack' = <<new>> \o Advanced /\ stack' \in Seq(Frame)
      /\ Elements(stack') = {new} \cup Elements(Advanced)
      /\ dfs_vector' \in Seq(BasicBlock) /\ Distinct(dfs_vector')
      /\ Found' = Found \cup {Successor} /\ marked' = Found'
  BY <1>1, <1>2, <1>3, <1>4, EnterProperties, FoundOnceMeans DEF IInv
<1>6. new.bb = Successor /\ new.succ = 1
  OBVIOUS
<1> HIDE DEF advanced, new
<1>7. TypeOK'
  BY <1>1, <1>2, <1>5 DEF IInv, TypeOK
<1>8. FoundOnce'
  <2>1. \A g \in Elements(Advanced) : g.bb \in Found
    BY <1>2, <1>4 DEF IInv, CallsSettle
  <2>2. \A g \in Elements(Advanced) : g.bb # new.bb
    BY <1>3, <1>6, <2>1
  <2>3. DistinctCalls(stack')
    BY <1>4, <1>5, <2>2, PushKeepsDistinctCalls
  <2> QED BY <1>5, <2>3 DEF FoundOnce, Distinct, DistinctCalls
<1>9. \A b, e : Settled(b, e) => Settled(b, e)'
  BY <1>1, <1>5 DEF Settled
<1>10. \A b, e : b = Top.bb /\ e = Top.succ => Settled(b, e)'
  BY <1>1, <1>5 DEF Settled, Successor
<1>11. CallsSettle'
  <2>1. ASSUME NEW f \in Elements(stack')
        PROVE  f.bb \in Found' /\ \A e \in 1 .. 2 : e < f.succ => Settled(f.bb, e)'
    <3>1. CASE f = advanced
      <4>1. \A e \in 1 .. 2 : e < f.succ => e < Top.succ \/ e = Top.succ
        BY <1>2, <3>1
      <4>2. \A e \in 1 .. 2 : e < Top.succ => Settled(Top.bb, e)
        BY <1>2 DEF IInv, CallsSettle
      <4>3. f.bb \in Found'
        BY <1>2, <1>5, <3>1
      <4> QED BY <1>2, <1>9, <1>10, <3>1, <4>1, <4>2, <4>3
    <3>2. CASE f \in Elements(Tail(stack))
      BY <1>2, <1>5, <1>9, <3>2 DEF IInv, CallsSettle
    <3>3. CASE f = new
      BY <1>5, <1>6, <3>3
    <3> QED BY <1>4, <1>5, <2>1, <3>1, <3>2, <3>3
  <2>2. ASSUME NEW b \in Found'
        PROVE  (\E f \in Elements(stack') : f.bb = b) \/ \A e \in 1 .. 2 : Settled(b, e)'
    <3>1. CASE b = Successor
      BY <1>5, <1>6, <3>1
    <3>2. CASE b \in Found
      BY <1>2, <1>4, <1>5, <1>9, <3>2 DEF IInv, CallsSettle
    <3> QED BY <1>5, <2>2, <3>1, <3>2
  <2> QED BY <2>1, <2>2 DEF CallsSettle
<1>12. RootFirst'
  BY <1>1, <1>2, <1>5 DEF IInv, RootFirst
<1> QED BY <1>7, <1>8, <1>11, <1>12 DEF IInv

\* The invariant is kept when a call that has settled both successors returns.
LEMMA ReturnKeepsIInv == IInv /\ Return => IInv'
<1> SUFFICES ASSUME IInv, Return PROVE IInv'
  OBVIOUS
<1>1. /\ InCall /\ Top.succ = 3 /\ stack' = Tail(stack)
      /\ UNCHANGED <<m_succs, removed, marked, dfs_vector, pc>>
  BY DEF Return
<1>2. /\ Top \in Elements(stack) /\ Tail(stack) \in Seq(Frame)
      /\ marked = Found /\ pc = "search"
      /\ Elements(stack) = {Top} \cup Elements(Tail(stack))
  BY <1>1, RunningCall DEF IInv
<1>3. Found' = Found /\ \A b, e : Settled(b, e) <=> Settled(b, e)'
  BY <1>1 DEF Found, Settled
<1>4. TypeOK'
  BY <1>1, <1>2, <1>3 DEF IInv, TypeOK
<1>5. FoundOnce'
  <2>1. DistinctCalls(Tail(stack))
    BY <1>1, PopKeepsDistinctCalls, FoundOnceMeans DEF IInv, TypeOK, InCall
  <2> QED BY <1>1, <2>1, FoundOnceMeans DEF IInv, FoundOnce, Distinct, DistinctCalls
<1>6. CallsSettle'
  <2>1. \A e \in 1 .. 2 : e < Top.succ
    BY <1>1
  <2>2. \A e \in 1 .. 2 : Settled(Top.bb, e)
    BY <1>2, <2>1 DEF IInv, CallsSettle
  <2>3. ASSUME NEW f \in Elements(stack')
        PROVE  f.bb \in Found' /\ \A e \in 1 .. 2 : e < f.succ => Settled(f.bb, e)'
    BY <1>1, <1>2, <1>3 DEF IInv, CallsSettle
  <2>4. ASSUME NEW b \in Found'
        PROVE  (\E f \in Elements(stack') : f.bb = b) \/ \A e \in 1 .. 2 : Settled(b, e)'
    BY <1>1, <1>2, <1>3, <2>2 DEF IInv, CallsSettle
  <2> QED BY <2>3, <2>4 DEF CallsSettle
<1>7. RootFirst'
  BY <1>1, <1>2, <1>3 DEF IInv, RootFirst
<1> QED BY <1>4, <1>5, <1>6, <1>7 DEF IInv

\* The invariant holds once the root is found.
LEMMA CallKeepsIInv == IInv /\ Call => IInv'
<1> SUFFICES ASSUME IInv, Call PROVE IInv'
  OBVIOUS
<1> DEFINE new == [bb |-> root, succ |-> 1]
<1>1. /\ pc = "call" /\ root \notin removed /\ Enter(root, <<>>) /\ pc' = "search"
      /\ UNCHANGED <<m_succs, removed>>
  BY DEF Call
<1>2. dfs_vector = <<>> /\ stack = <<>>
  BY <1>1 DEF IInv, RootFirst
<1>3. Found = {} /\ Elements(<<>>) = {} /\ <<>> \in Seq(Frame)
  BY <1>2 DEF Found, Elements
<1>4. marked = Found /\ Distinct(dfs_vector)
  BY <1>1, FoundOnceMeans DEF IInv, TypeOK
<1>5. /\ new \in Frame
      /\ stack' = <<new>> \o <<>> /\ stack' \in Seq(Frame)
      /\ Elements(stack') = {new} \cup Elements(<<>>)
      /\ dfs_vector' \in Seq(BasicBlock) /\ Distinct(dfs_vector')
      /\ Found' = Found \cup {root} /\ marked' = Found'
  BY <1>1, <1>3, <1>4, EnterProperties, RootAssumption DEF IInv
<1>6. new.bb = root /\ new.succ = 1
  OBVIOUS
<1>7. DistinctCalls(stack')
  BY <1>5 DEF DistinctCalls
<1> HIDE DEF new
<1>8. TypeOK'
  BY <1>1, <1>5 DEF IInv, TypeOK
<1>9. FoundOnce'
  BY <1>5, <1>7 DEF FoundOnce, Distinct, DistinctCalls
<1>10. CallsSettle'
  BY <1>3, <1>5, <1>6 DEF CallsSettle
<1>11. RootFirst'
  BY <1>1, <1>5 DEF RootFirst
<1> QED BY <1>8, <1>9, <1>10, <1>11 DEF IInv

\* Every step of dfs keeps the invariant.
LEMMA NextKeepsIInv == IInv /\ [Next]_vars => IInv'
<1> SUFFICES ASSUME IInv, [Next]_vars PROVE IInv'
  OBVIOUS
<1>1. CASE CallRemoved
  <2>1. Found = {} /\ stack = <<>>
    BY <1>1 DEF CallRemoved, IInv, RootFirst, Found, Elements
  <2>2. Found' = Found /\ \A b, e : Settled(b, e) <=> Settled(b, e)'
    BY <1>1 DEF CallRemoved, Found, Settled
  <2> QED BY <1>1, <2>1, <2>2
          DEF CallRemoved, IInv, TypeOK, FoundOnce, CallsSettle, RootFirst
<1>2. CASE Call
  BY <1>2, CallKeepsIInv
<1>3. CASE IgnoreSuccessor
  BY <1>3, IgnoreKeepsIInv
<1>4. CASE VisitSuccessor
  BY <1>4, VisitKeepsIInv
<1>5. CASE Return
  BY <1>5, ReturnKeepsIInv
<1>6. CASE Unmark
  <2>1. Found' = Found /\ \A b, e : Settled(b, e) <=> Settled(b, e)'
    BY <1>6 DEF Unmark, Found, Settled
  <2> QED BY <1>6, <2>1
          DEF Unmark, IInv, TypeOK, FoundOnce, CallsSettle, RootFirst
<1>7. CASE UNCHANGED vars
  <2>1. Found' = Found /\ \A b, e : Settled(b, e) <=> Settled(b, e)'
    BY <1>7 DEF vars, Found, Settled
  <2> QED BY <1>7, <2>1
          DEF vars, IInv, TypeOK, FoundOnce, CallsSettle, RootFirst
<1> QED BY <1>1, <1>2, <1>3, <1>4, <1>5, <1>6, <1>7 DEF Next

(***************************************************************************)
(* dfs implements Search.                                                  *)
(***************************************************************************)

\* The traversal starts where Search does.
LEMMA InitRefines == Init => Promise!Init
<1>1. Promise!BuiltGraphs = BuiltGraphs
  BY DEF Promise!BuiltGraphs, Promise!BBSuccs, BuiltGraphs, BBSuccs
<1> QED BY <1>1 DEF Init, Promise!Init, Found, Elements

\* When no call is left, no successor of a found block is left to visit.
LEMMA NothingLeft ==
  ASSUME IInv, pc = "search", stack = <<>>
  PROVE  Found # {} /\ Promise!Frontier = {}
<1>1. root \in Found
  BY DEF IInv, RootFirst
<1>2. ASSUME NEW b \in Found PROVE \A e \in 1 .. 2 : Settled(b, e)
  BY DEF IInv, CallsSettle, Elements
<1>3. ASSUME NEW c \in Promise!Frontier PROVE FALSE
  <2>1. c \notin removed /\ c \notin Found
    BY <1>3 DEF Promise!Frontier
  <2>2. PICK b \in Found : c \in Succs(m_succs, b)
    BY <1>1, <1>3 DEF Promise!Frontier, Promise!Succs, Succs
  <2>3. Settled(b, 1) /\ Settled(b, 2)
    BY <1>2
  <2> QED BY <2>1, <2>2, <2>3 DEF Settled, Succs
<1> QED BY <1>1, <1>3

\* A call for a block visits it, the end of the traversal finishes, and no other
\* step changes what Search speaks of.
LEMMA StepRefines == IInv /\ [Next]_vars => [Promise!Next]_Promise!vars
<1> SUFFICES ASSUME IInv, [Next]_vars PROVE [Promise!Next]_Promise!vars
  OBVIOUS
<1>1. CASE CallRemoved
  <2>1. Found = {} /\ Found' = Found
    BY <1>1 DEF CallRemoved, IInv, RootFirst, Found, Elements
  <2>2. Promise!Finish
    BY <1>1, <2>1 DEF CallRemoved, Promise!Finish
  <2> QED BY <2>2 DEF Promise!Next
<1>2. CASE Call
  <2>1. /\ pc = "call" /\ root \notin removed /\ Enter(root, <<>>) /\ pc' = "search"
        /\ UNCHANGED <<m_succs, removed>>
    BY <1>2 DEF Call
  <2>2. Found = {} /\ <<>> \in Seq(Frame)
    BY <2>1 DEF IInv, RootFirst, Found, Elements
  <2>3. marked = Found /\ Distinct(dfs_vector)
    BY <2>1, FoundOnceMeans DEF IInv, TypeOK
  <2>4. Found' = Found \cup {root}
    BY <2>1, <2>2, <2>3, EnterProperties, RootAssumption DEF IInv
  <2>5. Promise!Visit(root)
    BY <2>1, <2>2, <2>4 DEF Promise!Visit, Promise!Frontier
  <2> QED BY <2>5, RootAssumption DEF Promise!Next
<1>3. CASE IgnoreSuccessor
  BY <1>3 DEF IgnoreSuccessor, Promise!vars, Found
<1>4. CASE VisitSuccessor
  <2>1. /\ InCall /\ Top.succ <= 2 /\ ~ Ignored(Successor)
        /\ Enter(Successor, Advanced) /\ UNCHANGED <<m_succs, removed, pc>>
    BY <1>4 DEF VisitSuccessor
  <2>2. /\ Top.bb \in Found /\ marked = Found /\ pc = "search"
        /\ Successor \in BasicBlock \cup {nullptr}
        /\ Successor # nullptr => Successor \in Succs(m_succs, Top.bb)
    BY <2>1, RunningCall DEF IInv
  <2>3. /\ Successor \in BasicBlock /\ Successor \notin Found /\ Successor \notin removed
        /\ Successor \in Succs(m_succs, Top.bb)
    BY <2>1, <2>2 DEF Ignored
  <2>4. Found' = Found \cup {Successor}
    BY <2>1, <2>2, <2>3, AdvancedProperties, EnterProperties, FoundOnceMeans DEF IInv
  <2>5. Successor \in Promise!Frontier
    BY <2>2, <2>3 DEF Promise!Frontier, Promise!Succs, Succs
  <2>6. Promise!Visit(Successor)
    BY <2>1, <2>2, <2>4, <2>5 DEF Promise!Visit
  <2> QED BY <2>3, <2>6 DEF Promise!Next
<1>5. CASE Return
  BY <1>5 DEF Return, Promise!vars, Found
<1>6. CASE Unmark
  <2>1. Found # {} /\ Promise!Frontier = {} /\ Found' = Found
    BY <1>6, NothingLeft DEF Unmark, Found
  <2>2. Promise!Finish
    BY <1>6, <2>1 DEF Unmark, Promise!Finish
  <2> QED BY <2>2 DEF Promise!Next
<1>7. CASE UNCHANGED vars
  BY <1>7 DEF vars, Promise!vars, Found
<1> QED BY <1>1, <1>2, <1>3, <1>4, <1>5, <1>6, <1>7 DEF Next

(***************************************************************************)
(* dfs returns: no step is idle.                                           *)
(***************************************************************************)

\* A call finds a block, as the marked blocks are those found; a return makes the
\* stack shorter; and the only other steps go past a successor or end dfs.
LEMMA StepProgresses ==
  IInv /\ [Next]_vars =>
    [\/ Found \subseteq Found' /\ Found # Found'
     \/ /\ Found' = Found
        /\ \/ pc # "done" /\ pc' = "done"
           \/ Len(stack') < Len(stack)
           \/ /\ Len(stack') = Len(stack) /\ stack # <<>>
              /\ Head(stack').succ > Head(stack).succ]_vars
<1> DEFINE finds == Found \subseteq Found' /\ Found # Found'
           ends == Found' = Found /\ pc # "done" /\ pc' = "done"
           returns == Found' = Found /\ Len(stack') < Len(stack)
           passes == /\ Found' = Found
                     /\ Len(stack') = Len(stack) /\ stack # <<>>
                     /\ Head(stack').succ > Head(stack).succ
<1> SUFFICES ASSUME IInv, Next PROVE finds \/ ends \/ returns \/ passes
  OBVIOUS
<1>1. CASE CallRemoved
  BY <1>1 DEF CallRemoved, Found
<1>2. CASE Call
  <2>1. /\ pc = "call" /\ root \notin removed /\ Enter(root, <<>>) /\ pc' = "search"
    BY <1>2 DEF Call
  <2>2. Found = {} /\ <<>> \in Seq(Frame)
    BY <2>1 DEF IInv, RootFirst, Found, Elements
  <2>3. marked = Found /\ Distinct(dfs_vector)
    BY <2>1, FoundOnceMeans DEF IInv, TypeOK
  <2>4. Found' = Found \cup {root}
    BY <2>1, <2>2, <2>3, EnterProperties, RootAssumption DEF IInv
  <2> QED BY <2>2, <2>4
<1>3. CASE IgnoreSuccessor
  <2>1. /\ InCall /\ Top.succ <= 2 /\ Found' = Found
        /\ stack' = <<[Top EXCEPT !.succ = @ + 1]>> \o Tail(stack)
    BY <1>3 DEF IgnoreSuccessor, Found, Advanced
  <2>2. /\ Top \in Frame /\ [Top EXCEPT !.succ = @ + 1] \in Frame
        /\ [Top EXCEPT !.succ = @ + 1].succ = Top.succ + 1
        /\ stack \in Seq(Frame) /\ stack # <<>> /\ Tail(stack) \in Seq(Frame)
    BY <2>1, RunningCall DEF IInv, TypeOK, InCall
  <2>3. Len(Tail(stack)) = Len(stack) - 1 /\ Len(stack) \in Nat
    BY <2>2
  <2>4. Len(stack') = Len(stack) /\ Head(stack') = [Top EXCEPT !.succ = @ + 1]
    BY <2>1, <2>2, <2>3
  <2>5. Top.succ \in Int /\ Head(stack').succ = Head(stack).succ + 1
    BY <2>2, <2>4 DEF Frame, Top
  <2>6. Head(stack').succ > Head(stack).succ
    BY <2>5 DEF Top
  <2> QED BY <2>1, <2>2, <2>4, <2>6
<1>4. CASE VisitSuccessor
  <2>1. /\ InCall /\ Top.succ <= 2 /\ ~ Ignored(Successor)
        /\ Enter(Successor, Advanced)
    BY <1>4 DEF VisitSuccessor
  <2>2. marked = Found /\ Successor \in BasicBlock \cup {nullptr}
    BY <2>1, RunningCall DEF IInv
  <2>3. Successor \in BasicBlock /\ Successor \notin Found
    BY <2>1, <2>2 DEF Ignored
  <2>4. Found' = Found \cup {Successor}
    BY <2>1, <2>2, <2>3, AdvancedProperties, EnterProperties, FoundOnceMeans DEF IInv
  <2> QED BY <2>3, <2>4
<1>5. CASE Return
  <2>1. /\ stack \in Seq(Frame) /\ stack # <<>> /\ stack' = Tail(stack)
        /\ Found' = Found
    BY <1>5 DEF Return, InCall, IInv, TypeOK, Found
  <2>2. Len(stack') = Len(stack) - 1 /\ Len(stack) \in Nat
    BY <2>1
  <2>3. Len(stack') < Len(stack)
    BY <2>2
  <2> QED BY <2>1, <2>3
<1>6. CASE Unmark
  BY <1>6 DEF Unmark, Found
<1> QED BY <1>1, <1>2, <1>3, <1>4, <1>5, <1>6 DEF Next

(***************************************************************************)
(* The theorems of dfs.                                                    *)
(***************************************************************************)

\* Every reachable state satisfies the inductive invariant.
THEOREM Invariance == Spec => []IInv
BY InitIInv, NextKeepsIInv, PTL DEF Spec

\* The marked blocks are those found, until dfs returns and no marker is left.
THEOREM TypeCorrect == Spec => []TypeOK
BY Invariance, PTL DEF IInv

\* No block is found twice, and the recursion has no two calls for one block.
THEOREM NoBlockTwice == Spec => []FoundOnce
BY Invariance, PTL DEF IInv

\* No step of the recursion is idle, in a function of any number of blocks: what
\* makes progress is bounded by the blocks not found (NoBlockTwice), the calls and
\* the two successors of each, so dfs returns.
THEOREM DfsProgresses == Spec => Progresses
BY StepProgresses, Invariance, PTL DEF Spec, Progresses

\* Every step of dfs is one that Search allows, or changes nothing it sees.
THEOREM Refinement == Spec => ImplementsSearch
BY InitRefines, StepRefines, Invariance, PTL DEF Spec, Promise!Spec, ImplementsSearch

(***************************************************************************)
(* Why a traversal that takes the steps of Search finds the reachable      *)
(* blocks: whatever is visited is reachable, and when no successor is left *)
(* the visited blocks are a closed set that contains the root, while the   *)
(* reachable ones are in every such set.                                   *)
(***************************************************************************)

SearchSoFar ==
  /\ m_succs \in BuiltGraphs
  /\ Found \subseteq Reach(m_succs, root, removed)
  /\ Found # {} => root \in Found
  /\ pc = "done" => IF Found = {} THEN root \in removed ELSE Promise!Frontier = {}

\* Search is about the same graphs.
LEMMA SameGraphs ==
  /\ Promise!BuiltGraphs = BuiltGraphs
  /\ \A g, b : Promise!Succs(g, b) = Succs(g, b)
  /\ \A g, from, avoid : Promise!Reach(g, from, avoid) = Reach(g, from, avoid)
BY DEF Promise!BuiltGraphs, Promise!BBSuccs, BuiltGraphs, BBSuccs, Promise!Succs, Succs,
       Promise!Reach, Reach, Promise!ClosedUnder, ClosedUnder

LEMMA SearchStarts == Promise!Init => SearchSoFar
BY SameGraphs DEF Promise!Init, SearchSoFar

LEMMA SearchGoesOn == SearchSoFar /\ [Promise!Next]_Promise!vars => SearchSoFar'
<1> SUFFICES ASSUME SearchSoFar, [Promise!Next]_Promise!vars PROVE SearchSoFar'
  OBVIOUS
<1>1. Promise!Frontier =
        ({root} \cup UNION {Succs(m_succs, b) : b \in Found}) \ (removed \cup Found)
  BY SameGraphs DEF Promise!Frontier
<1>2. ASSUME NEW b \in BasicBlock, Promise!Visit(b) PROVE SearchSoFar'
  <2>1. /\ pc # "done" /\ b \in Promise!Frontier /\ (Found = {} => b = root)
        /\ Found' = Found \cup {b} /\ m_succs' = m_succs /\ removed' = removed
        /\ (pc = "done")' = (pc = "done")
    BY <1>2 DEF Promise!Visit
  <2>2. b \in Reach(m_succs, root, removed)
    <3>1. CASE b = root
      BY <1>1, <2>1, <3>1, ReachStart, RootAssumption
    <3>2. CASE b # root
      <4>1. PICK a \in Found : b \in Succs(m_succs, a)
        BY <1>1, <2>1, <3>2
      <4> QED BY <1>1, <2>1, <4>1, ReachStep, RootAssumption DEF SearchSoFar
    <3> QED BY <3>1, <3>2
  <2> QED BY <2>1, <2>2 DEF SearchSoFar
<1>3. CASE Promise!Finish
  <2>1. /\ Found' = Found /\ m_succs' = m_succs /\ removed' = removed
        /\ IF Found = {} THEN root \in removed ELSE Promise!Frontier = {}
    BY <1>3 DEF Promise!Finish
  <2> QED BY <2>1 DEF SearchSoFar, Promise!Frontier
<1>4. CASE UNCHANGED Promise!vars
  <2>1. /\ Found' = Found /\ m_succs' = m_succs /\ removed' = removed
        /\ (pc = "done")' = (pc = "done")
    BY <1>4 DEF Promise!vars
  <2> QED BY <2>1 DEF SearchSoFar, Promise!Frontier
<1> QED BY <1>2, <1>3, <1>4 DEF Promise!Next

LEMMA SearchFinds == SearchSoFar => FindsReachable
<1> SUFFICES ASSUME SearchSoFar, pc = "done"
             PROVE  Found = Reach(m_succs, root, removed)
  BY SameGraphs DEF FindsReachable, Promise!FindsReachable
<1>1. CASE Found = {}
  BY <1>1 DEF SearchSoFar, Reach
<1>2. CASE Found # {}
  <2>1. Found \in SUBSET BasicBlock /\ root \in Found
    BY <1>2 DEF SearchSoFar, Reach
  <2>2. ClosedUnder(m_succs, removed, Found)
    BY <1>2, SameGraphs DEF SearchSoFar, Promise!Frontier, ClosedUnder
  <2> QED BY <2>1, <2>2, ReachLeast DEF SearchSoFar
<1> QED BY <1>1, <1>2

\* Whatever takes the steps of Search finds the reachable blocks that are not
\* removed, all of them and nothing else, in a function of any number of blocks.
THEOREM SearchFindsReachable == ImplementsSearch => []FindsReachable
BY SearchStarts, SearchGoesOn, SearchFinds, PTL DEF ImplementsSearch, Promise!Spec

\* What dfs returns is the set of blocks reachable from the root through blocks
\* that are not removed, in a function of any number of blocks.
THEOREM Completeness == Spec => []FindsReachable
BY Refinement, SearchFindsReachable, PTL

(***************************************************************************)
(* The calls of dfs.                                                       *)
(***************************************************************************)

\* dfs is ready when it is called with no marker set but those of its caller.
LEMMA ReadyKeepsIInv == Init' => IInv'
BY InitIInv, PTL

\* A step of dfs finds no block but such as can be reached.
LEMMA StepFindsReachable ==
  ASSUME IInv, Next, Found \subseteq Reach(m_succs, root, removed)
  PROVE  /\ UNCHANGED <<m_succs, removed>> /\ IInv'
         /\ Found' \subseteq Reach(m_succs', root, removed')
<1>1. IInv' /\ [Promise!Next]_Promise!vars
  BY NextKeepsIInv, StepRefines
<1>2. UNCHANGED <<m_succs, removed>>
  BY <1>1 DEF Promise!Next, Promise!Visit, Promise!Finish, Promise!vars
<1>3. \/ Found' = Found
      \/ \E b \in BasicBlock : Found' = Found \cup {b} /\ b \in Promise!Frontier
  BY <1>1 DEF Promise!Next, Promise!Visit, Promise!Finish, Promise!vars
<1>4. ASSUME NEW b \in BasicBlock, b \in Promise!Frontier
      PROVE  b \in Reach(m_succs, root, removed)
  <2>1. b \notin removed /\ (b = root \/ \E a \in Found : b \in Succs(m_succs, a))
    BY <1>4 DEF Promise!Frontier, Promise!Succs, Succs
  <2>2. m_succs \in BuiltGraphs
    BY DEF IInv, TypeOK
  <2>3. CASE b = root
    BY <2>1, <2>3, ReachStart, RootAssumption
  <2>4. CASE \E a \in Found : b \in Succs(m_succs, a)
    <3>1. PICK a \in Found : b \in Succs(m_succs, a)
      BY <2>4
    <3> QED BY <2>1, <2>2, <3>1, ReachStep, RootAssumption
  <2> QED BY <2>1, <2>3, <2>4
<1>5. Found' \subseteq Reach(m_succs, root, removed)
  BY <1>3, <1>4
<1> QED BY <1>1, <1>2, <1>5

\* A call of dfs that is over has found all that can be reached.
LEMMA DoneFindsAll ==
  ASSUME IInv, pc = "done", Found \subseteq Reach(m_succs, root, removed)
  PROVE  Found = Reach(m_succs, root, removed) /\ stack = <<>> /\ marked = {}
<1>1. stack = <<>> /\ marked = {} /\ Elements(stack) = {}
  BY DEF IInv, TypeOK, RootFirst, Elements
<1>2. CASE Found = {}
  <2>1. root \in removed
    BY <1>2 DEF IInv, RootFirst
  <2> QED BY <1>1, <1>2, <2>1 DEF Reach
<1>3. CASE Found # {}
  <2>1. root \in Found
    BY <1>3 DEF IInv, RootFirst
  <2>2. ASSUME NEW b \in Found, NEW c \in Succs(m_succs, b) \ removed PROVE c \in Found
    <3>1. Settled(b, 1) /\ Settled(b, 2)
      BY <1>1 DEF IInv, CallsSettle
    <3> QED BY <3>1 DEF Settled, Succs
  <2>3. Found \in SUBSET BasicBlock /\ ClosedUnder(m_succs, removed, Found)
    BY <2>2 DEF ClosedUnder, IInv, TypeOK, Found, Elements
  <2> QED BY <1>1, <2>1, <2>3, ReachLeast
<1> QED BY <1>2, <1>3

(***************************************************************************)
(* The invariant of dom.                                                   *)
(***************************************************************************)

\* The invariant holds when dom is called.
LEMMA DomInitIInv == DomInit => DomIInv
<1> SUFFICES ASSUME DomInit PROVE DomIInv
  OBVIOUS
<1>1. Init
  BY DEF DomInit, Init
<1>2. IInv /\ Found = {}
  BY <1>1, InitIInv DEF Init, Found, Elements
<1>3. CallsClean
  BY <1>2 DEF DomInit, CallsClean
<1>4. BlocksListed
  BY DEF DomInit, BlocksListed
<1>5. TreeSoFar
  BY DEF DomInit, TreeSoFar
<1> QED BY <1>3, <1>4, <1>5 DEF DomIInv

\* dfs runs only when dom has called it, and keeps the invariant.
LEMMA DfsStepKeeps == DomIInv /\ DfsStep => DomIInv'
<1> SUFFICES ASSUME DomIInv, DfsStep PROVE DomIInv'
  OBVIOUS
<1>1. Next /\ UNCHANGED <<blocks, cursor, other, dom_tree, phase>>
  BY DEF DfsStep, domVars
<1>2. pc # "done"
  BY <1>1 DEF Next, CallRemoved, Call, IgnoreSuccessor, VisitSuccessor, Return, Unmark, InCall
<1>3. phase \in {"list", "search"} /\ IInv /\ Found \subseteq Reach(m_succs, root, removed)
  BY <1>2 DEF DomIInv, CallsClean
<1>4. /\ UNCHANGED <<m_succs, removed>> /\ IInv'
      /\ Found' \subseteq Reach(m_succs', root, removed')
  BY <1>1, <1>3, StepFindsReachable
<1>5. CallsClean'
  BY <1>1, <1>3, <1>4 DEF DomIInv, CallsClean, Dominator
<1>6. BlocksListed'
  BY <1>1, <1>4 DEF DomIInv, BlocksListed, Reachable
<1>7. TreeSoFar'
  BY <1>1, <1>3, <1>4 DEF DomIInv, TreeSoFar, CutOff, Reachable, Dominator
<1> QED BY <1>5, <1>6, <1>7 DEF DomIInv

\* The first call returns the reachable blocks.
LEMMA ListedKeeps == DomIInv /\ Listed => DomIInv'
<1> SUFFICES ASSUME DomIInv, Listed PROVE DomIInv'
  OBVIOUS
<1>1. /\ phase = "list" /\ pc = "done" /\ blocks' = dfs_vector /\ phase' = "remove"
      /\ UNCHANGED <<m_succs, removed, marked, stack, dfs_vector, pc, cursor, other, dom_tree>>
  BY DEF Listed, vars
<1>2. /\ IInv /\ removed = {} /\ m_succs \in BuiltGraphs
      /\ Found \subseteq Reach(m_succs, root, removed)
  BY <1>1 DEF DomIInv, CallsClean
<1>3. Found = Reachable(m_succs) /\ stack = <<>> /\ marked = {}
  BY <1>1, <1>2, DoneFindsAll DEF Reachable
<1>4. CallsClean'
  BY <1>1, <1>2, <1>3 DEF CallsClean
<1>5. /\ dfs_vector \in Seq(BasicBlock) /\ Len(dfs_vector) \in Nat
      /\ \A j, k \in 1 .. Len(dfs_vector) : dfs_vector[j] = dfs_vector[k] => j = k
  BY <1>2 DEF IInv, TypeOK, FoundOnce
<1>6. cursor = 1 /\ DOMAIN dom_tree = {}
  BY <1>1 DEF DomIInv, BlocksListed
<1>7. BlocksListed'
  BY <1>1, <1>3, <1>5, <1>6 DEF BlocksListed, Found
<1>8. TreeSoFar'
  BY <1>1, <1>6 DEF TreeSoFar
<1> QED BY <1>4, <1>7, <1>8 DEF DomIInv

\* dom calls dfs again, with one block removed.
LEMMA RemoveKeeps == DomIInv /\ Remove => DomIInv'
<1> SUFFICES ASSUME DomIInv, Remove PROVE DomIInv'
  OBVIOUS
<1>1. /\ phase = "remove" /\ cursor <= Len(blocks)
      /\ dom_tree' = [b \in DOMAIN dom_tree \cup {Dominator} |->
                        IF b = Dominator THEN <<>> ELSE dom_tree[b]]
      /\ removed' = removed \cup {Dominator}
      /\ pc' = "call" /\ dfs_vector' = <<>> /\ phase' = "search"
      /\ UNCHANGED <<m_succs, marked, stack, blocks, cursor, other>>
  BY DEF Remove
<1>2. /\ m_succs \in BuiltGraphs /\ removed = {} /\ stack = <<>> /\ marked = {}
      /\ blocks \in Seq(BasicBlock) /\ cursor \in 1 .. Len(blocks)
      /\ Elements(blocks) = Reachable(m_succs)
      /\ \A j, k \in 1 .. Len(blocks) : blocks[j] = blocks[k] => j = k
  BY <1>1 DEF DomIInv, CallsClean, BlocksListed
<1>3. Dominator \in BasicBlock /\ Dominator' = Dominator /\ Dominator = blocks[cursor]
  BY <1>1, <1>2 DEF Dominator
<1>4. CallsClean'
  <2>1. Init'
    BY <1>1, <1>2, <1>3 DEF Init
  <2>2. IInv'
    BY <2>1, ReadyKeepsIInv
  <2>3. Found' = {}
    BY <1>1 DEF Found, Elements
  <2> QED BY <1>1, <1>2, <1>3, <2>2, <2>3 DEF CallsClean
<1>5. BlocksListed'
  BY <1>1, <1>2 DEF BlocksListed
<1>6. TreeSoFar'
  <2>1. /\ DOMAIN dom_tree = {blocks[k] : k \in 1 .. cursor - 1}
        /\ \A a \in DOMAIN dom_tree : dom_tree[a] \in Seq(BasicBlock)
        /\ \A k \in 1 .. cursor - 1 : Elements(dom_tree[blocks[k]]) = CutOff(blocks[k])
    BY <1>1 DEF DomIInv, TreeSoFar
  <2>2. 1 .. cursor = 1 .. cursor - 1 \cup {cursor}
    BY <1>2
  <2>3. DOMAIN dom_tree' = {blocks[k] : k \in 1 .. cursor}
    BY <1>1, <1>3, <2>1, <2>2
  <2>4. \A a \in DOMAIN dom_tree' : dom_tree'[a] \in Seq(BasicBlock)
    BY <1>1, <2>1
  <2>5. ASSUME NEW k \in 1 .. cursor - 1
        PROVE  dom_tree'[blocks[k]] = dom_tree[blocks[k]] /\ CutOff(blocks[k])' = CutOff(blocks[k])
    <3>1. blocks[k] # Dominator /\ blocks[k] \in DOMAIN dom_tree
      BY <1>2, <1>3, <2>1
    <3> QED BY <1>1, <3>1 DEF CutOff
  <2>6. dom_tree'[Dominator] = <<>>
    BY <1>1
  <2>7. \A k \in 1 .. cursor - 1 : Elements(dom_tree'[blocks[k]]) = CutOff(blocks[k])'
    BY <2>1, <2>5
  <2> QED BY <1>1, <1>3, <2>3, <2>4, <2>6, <2>7 DEF TreeSoFar
<1> QED BY <1>4, <1>5, <1>6 DEF DomIInv

\* The call has found what can be reached without the block.
LEMMA RestoreKeeps == DomIInv /\ Restore => DomIInv'
<1> SUFFICES ASSUME DomIInv, Restore PROVE DomIInv'
  OBVIOUS
<1>1. /\ phase = "search" /\ pc = "done" /\ removed' = removed \ {Dominator}
      /\ other' = 1 /\ phase' = "collect"
      /\ UNCHANGED <<m_succs, marked, stack, dfs_vector, pc, blocks, cursor, dom_tree>>
  BY DEF Restore
<1>2. /\ IInv /\ removed = {Dominator} /\ m_succs \in BuiltGraphs
      /\ Found \subseteq Reach(m_succs, root, removed)
  BY <1>1 DEF DomIInv, CallsClean
<1>3. Found = Reach(m_succs, root, {Dominator}) /\ stack = <<>> /\ marked = {}
  BY <1>1, <1>2, DoneFindsAll
<1>4. Found' = Found /\ Dominator' = Dominator
  BY <1>1 DEF Found, Dominator
<1>5. CallsClean'
  BY <1>1, <1>2, <1>3, <1>4 DEF CallsClean
<1>6. BlocksListed'
  BY <1>1 DEF DomIInv, BlocksListed
<1>7. TreeSoFar'
  <2>1. dom_tree[Dominator] = <<>> /\ Len(blocks) \in Nat
    BY <1>1 DEF DomIInv, TreeSoFar, BlocksListed
  <2>2. Elements(<<>>) = {} /\ 1 \in 1 .. Len(blocks) + 1 /\ 1 .. other' - 1 = {}
    BY <1>1, <2>1 DEF Elements
  <2> QED BY <1>1, <1>4, <2>1, <2>2 DEF DomIInv, TreeSoFar, CutOff
<1> QED BY <1>5, <1>6, <1>7 DEF DomIInv

\* The block at the inner loop's position joins the list if it was not found.
LEMMA CollectKeeps == DomIInv /\ (Collect \/ PassOver) => DomIInv'
<1> SUFFICES ASSUME DomIInv, Collect \/ PassOver PROVE DomIInv'
  OBVIOUS
<1> DEFINE b == blocks[other]
<1>1. /\ phase = "collect" /\ other <= Len(blocks) /\ other' = other + 1
      /\ IF NotFound(b)
         THEN dom_tree' = [dom_tree EXCEPT ![Dominator] = Append(@, b)]
         ELSE dom_tree' = dom_tree
      /\ UNCHANGED <<m_succs, removed, marked, stack, dfs_vector, pc, blocks, cursor, phase>>
  BY DEF Collect, PassOver, Collecting, vars
<1>2. /\ blocks \in Seq(BasicBlock) /\ cursor \in 1 .. Len(blocks)
      /\ \A j, k \in 1 .. Len(blocks) : blocks[j] = blocks[k] => j = k
  BY <1>1 DEF DomIInv, BlocksListed
<1>3. /\ Found' = Found /\ Dominator' = Dominator /\ Dominator = blocks[cursor]
      /\ \A x : NotFound(x)' <=> NotFound(x)
      /\ \A x : CutOff(x)' = CutOff(x)
  BY <1>1 DEF Found, Dominator, NotFound, CutOff
<1>4. CallsClean' /\ BlocksListed'
  BY <1>1, <1>3 DEF DomIInv, CallsClean, BlocksListed
<1>5. /\ DOMAIN dom_tree = {blocks[k] : k \in 1 .. cursor}
      /\ \A a \in DOMAIN dom_tree : dom_tree[a] \in Seq(BasicBlock)
      /\ \A k \in 1 .. cursor - 1 : Elements(dom_tree[blocks[k]]) = CutOff(blocks[k])
      /\ other \in 1 .. Len(blocks) + 1
      /\ Elements(dom_tree[Dominator]) =
           {blocks[k] : k \in {k \in 1 .. other - 1 : NotFound(blocks[k])}}
  BY <1>1 DEF DomIInv, TreeSoFar
<1>6. /\ other \in 1 .. Len(blocks) /\ b \in BasicBlock /\ other' \in 1 .. Len(blocks) + 1
      /\ Dominator \in DOMAIN dom_tree
      /\ 1 .. other' - 1 = 1 .. other - 1 \cup {other}
  BY <1>1, <1>2, <1>3, <1>5
<1> DEFINE collected(n) == {blocks[k] : k \in {k \in 1 .. n : NotFound(blocks[k])}}
<1>7. collected(other' - 1) = collected(other - 1) \cup (IF NotFound(b) THEN {b} ELSE {})
  BY <1>6
<1>8. /\ DOMAIN dom_tree' = DOMAIN dom_tree
      /\ \A a \in DOMAIN dom_tree : a # Dominator => dom_tree'[a] = dom_tree[a]
      /\ dom_tree'[Dominator] \in Seq(BasicBlock)
      /\ Elements(dom_tree'[Dominator]) = collected(other' - 1)
  <2>1. CASE NotFound(b)
    <3> DEFINE list == dom_tree[Dominator]
    <3>1. list \in Seq(BasicBlock)
      BY <1>5, <1>6
    <3>2. dom_tree'[Dominator] = Append(list, b)
      BY <1>1, <1>6, <2>1
    <3> HIDE DEF list, b
    <3>3. Append(list, b) \in Seq(BasicBlock) /\ Elements(Append(list, b)) = Elements(list) \cup {b}
      BY <1>6, <3>1, PushBackProperties
    <3>4. /\ DOMAIN dom_tree' = DOMAIN dom_tree
          /\ \A a \in DOMAIN dom_tree : a # Dominator => dom_tree'[a] = dom_tree[a]
      BY <1>1, <2>1
    <3>5. Elements(list) = collected(other - 1)
      BY <1>5 DEF list
    <3> HIDE DEF collected
    <3> QED BY <1>7, <2>1, <3>2, <3>3, <3>4, <3>5
  <2>2. CASE ~ NotFound(b)
    <3>1. dom_tree' = dom_tree
      BY <1>1, <2>2
    <3>2. Elements(dom_tree[Dominator]) = collected(other - 1)
      BY <1>5
    <3> HIDE DEF collected
    <3> QED BY <1>5, <1>6, <1>7, <2>2, <3>1, <3>2
  <2> QED BY <2>1, <2>2
<1>9. ASSUME NEW k \in 1 .. cursor - 1 PROVE dom_tree'[blocks[k]] = dom_tree[blocks[k]]
  <2>1. blocks[k] # Dominator /\ blocks[k] \in DOMAIN dom_tree
    BY <1>2, <1>3, <1>5
  <2> QED BY <1>8, <2>1
<1>10. TreeSoFar'
  <2>1. DOMAIN dom_tree' = {blocks[k] : k \in 1 .. cursor}
    BY <1>5, <1>8
  <2>2. \A a \in DOMAIN dom_tree' : dom_tree'[a] \in Seq(BasicBlock)
    BY <1>5, <1>8
  <2>3. \A k \in 1 .. cursor - 1 : Elements(dom_tree'[blocks[k]]) = CutOff(blocks[k])
    BY <1>5, <1>9
  <2>4. Elements(dom_tree'[Dominator]) =
          {blocks[k] : k \in {k \in 1 .. other' - 1 : NotFound(blocks[k])}}
    BY <1>8
  <2>5. phase' = "collect" /\ blocks' = blocks /\ cursor' = cursor
    BY <1>1
  <2> HIDE DEF collected, b
  <2> QED BY <1>3, <1>6, <2>1, <2>2, <2>3, <2>4, <2>5 DEF TreeSoFar
<1> QED BY <1>4, <1>10 DEF DomIInv

\* The list of the block is complete: the reachable blocks that are cut off.
LEMMA NextDominatorKeeps == DomIInv /\ NextDominator => DomIInv'
<1> SUFFICES ASSUME DomIInv, NextDominator PROVE DomIInv'
  OBVIOUS
<1>1. /\ phase = "collect" /\ other > Len(blocks) /\ cursor' = cursor + 1 /\ phase' = "remove"
      /\ UNCHANGED <<m_succs, removed, marked, stack, dfs_vector, pc, blocks, other, dom_tree>>
  BY DEF NextDominator, vars
<1>2. /\ blocks \in Seq(BasicBlock) /\ cursor \in 1 .. Len(blocks)
      /\ Elements(blocks) = Reachable(m_succs)
      /\ Found = Reach(m_succs, root, {Dominator}) /\ Dominator = blocks[cursor]
      /\ removed = {} /\ m_succs \in BuiltGraphs
  BY <1>1 DEF DomIInv, BlocksListed, CallsClean, Dominator
<1>3. CallsClean' /\ BlocksListed'
  BY <1>1, <1>2 DEF DomIInv, CallsClean, BlocksListed
<1>4. /\ DOMAIN dom_tree = {blocks[k] : k \in 1 .. cursor}
      /\ \A a \in DOMAIN dom_tree : dom_tree[a] \in Seq(BasicBlock)
      /\ \A k \in 1 .. cursor - 1 : Elements(dom_tree[blocks[k]]) = CutOff(blocks[k])
      /\ other \in 1 .. Len(blocks) + 1
      /\ Elements(dom_tree[Dominator]) =
           {blocks[k] : k \in {k \in 1 .. other - 1 : NotFound(blocks[k])}}
  BY <1>1 DEF DomIInv, TreeSoFar
<1>5. Elements(dom_tree[Dominator]) = CutOff(Dominator)
  <2>1. 1 .. other - 1 = 1 .. Len(blocks)
    <3>1. Len(blocks) \in Nat /\ other = Len(blocks) + 1
      BY <1>1, <1>2, <1>4
    <3> QED BY <3>1
  <2>2. Elements(dom_tree[Dominator]) = {x \in Elements(blocks) : NotFound(x)}
    BY <1>4, <2>1 DEF Elements
  <2> QED BY <1>2, <2>2 DEF CutOff, NotFound
<1>6. \A k \in 1 .. cursor : k = cursor \/ k \in 1 .. cursor - 1
  BY <1>2
<1>7. \A k \in 1 .. cursor : Elements(dom_tree[blocks[k]]) = CutOff(blocks[k])
  BY <1>2, <1>4, <1>5, <1>6
<1>8. cursor' - 1 = cursor /\ \A x : CutOff(x)' = CutOff(x)
  BY <1>1, <1>2 DEF CutOff
<1>9. TreeSoFar'
  BY <1>1, <1>4, <1>7, <1>8 DEF TreeSoFar
<1> QED BY <1>3, <1>9 DEF DomIInv

\* dom returns when there is no block left.
LEMMA ReturnKeeps ==
  ASSUME DomIInv, DomReturn \/ UNCHANGED <<vars, domVars>> PROVE DomIInv'
<1>1. UNCHANGED <<m_succs, removed, marked, stack, dfs_vector, pc,
                  blocks, cursor, other, dom_tree>>
  BY DEF DomReturn, vars, domVars
<1>2. /\ Found' = Found /\ Dominator' = Dominator /\ \A x : CutOff(x)' = CutOff(x)
      /\ \A x : NotFound(x)' <=> NotFound(x)
  BY <1>1 DEF Found, Dominator, CutOff, NotFound
<1>3. CASE DomReturn
  <2>1. phase = "remove" /\ cursor > Len(blocks) /\ phase' = "return"
    BY <1>3 DEF DomReturn
  <2> QED BY <1>1, <1>2, <2>1 DEF DomIInv, CallsClean, BlocksListed, TreeSoFar
<1>4. CASE UNCHANGED <<vars, domVars>>
  <2>1. phase' = phase
    BY <1>4 DEF domVars
  <2>2. IInv => IInv'
    BY <1>4, NextKeepsIInv
  <2> QED BY <1>1, <1>2, <2>1, <2>2, ZenonT(60) DEF DomIInv, CallsClean, BlocksListed, TreeSoFar
<1> QED BY <1>3, <1>4

\* Every step of dom keeps the invariant.
LEMMA DomNextKeeps == DomIInv /\ [DomNext]_<<vars, domVars>> => DomIInv'
BY DfsStepKeeps, ListedKeeps, RemoveKeeps, RestoreKeeps, CollectKeeps,
   NextDominatorKeeps, ReturnKeeps DEF DomNext

(***************************************************************************)
(* The theorems of dom.                                                    *)
(***************************************************************************)

\* When no block is left the tree has all lists, and a list is dominance.
LEMMA DomIInvIsDominance == DomIInv => DomTreeIsDominance
<1> SUFFICES ASSUME DomIInv, phase = "return" PROVE DomTreeIsDominance
  BY DEF DomTreeIsDominance
<1>1. /\ m_succs \in BuiltGraphs /\ marked = {} /\ removed = {}
      /\ blocks \in Seq(BasicBlock) /\ Elements(blocks) = Reachable(m_succs)
      /\ cursor \in 1 .. Len(blocks) + 1 /\ cursor > Len(blocks)
  BY DEF DomIInv, CallsClean, BlocksListed
<1>2. 1 .. cursor - 1 = 1 .. Len(blocks)
  BY <1>1
<1>3. DOMAIN dom_tree = Reachable(m_succs)
  BY <1>1, <1>2 DEF DomIInv, TreeSoFar, Elements
<1>4. \A a \in Reachable(m_succs) : Elements(dom_tree[a]) = CutOff(a)
  <2> SUFFICES ASSUME NEW a \in Elements(blocks) PROVE Elements(dom_tree[a]) = CutOff(a)
    BY <1>1
  <2>1. PICK k \in 1 .. Len(blocks) : blocks[k] = a
    BY DEF Elements
  <2> QED BY <1>2, <2>1 DEF DomIInv, TreeSoFar
<1>5. ASSUME NEW a \in Reachable(m_succs)
      PROVE  CutOff(a) = {b \in Reachable(m_succs) \ {a} : <<a, b>> \in Dominance(m_succs)}
  BY <1>1, DominanceIsCut DEF CutOff
<1>6. StrictlyDominated(m_succs) = [a \in Reachable(m_succs) |-> CutOff(a)]
  BY <1>5 DEF StrictlyDominated
<1>7. [a \in DOMAIN dom_tree |-> Elements(dom_tree[a])] = StrictlyDominated(m_succs)
  BY <1>3, <1>4, <1>6
<1> QED BY <1>1, <1>7 DEF DomTreeIsDominance

\* Every reachable state satisfies the invariant of dom.
THEOREM DomInvariance == DomSpec => []DomIInv
BY DomInitIInv, DomNextKeeps, PTL DEF DomSpec

\* dom returns dominance, in a function of any number of blocks, and leaves no
\* marker.
THEOREM DomIsDominance == DomSpec => []DomTreeIsDominance
BY DomInvariance, DomIInvIsDominance, PTL


(***************************************************************************)
(* Strict dominance and the tree.                                          *)
(***************************************************************************)

\* What the walk knows of the dominator tree: it lists, for each block, those
\* that the block strictly dominates.
TreeIsKnown ==
  /\ m_succs \in BuiltGraphs
  /\ DOMAIN dom_tree = BasicBlock
  /\ \A a \in BasicBlock :
       /\ dom_tree[a] \in Seq(BasicBlock)
       /\ Elements(dom_tree[a]) = {b \in BasicBlock : StrictlyDominates(a, b)}

\* dom has returned when the walk begins.
LEMMA WalkKnowsTree == DomIInv /\ Eliminating /\ CodeKept => TreeIsKnown
<1> SUFFICES ASSUME DomIInv, Eliminating, CodeKept PROVE TreeIsKnown
  OBVIOUS
<1>1. /\ m_succs \in BuiltGraphs /\ Reachable(m_succs) = BasicBlock
      /\ blocks \in Seq(BasicBlock) /\ Elements(blocks) = BasicBlock
      /\ cursor \in 1 .. Len(blocks) + 1 /\ cursor > Len(blocks)
  BY DEF DomIInv, CallsClean, BlocksListed, Eliminating, CodeKept
<1>2. 1 .. cursor - 1 = 1 .. Len(blocks)
  BY <1>1
<1>3. DOMAIN dom_tree = BasicBlock /\ \A a \in BasicBlock : dom_tree[a] \in Seq(BasicBlock)
  BY <1>1, <1>2 DEF DomIInv, TreeSoFar, Eliminating, Elements
<1>4. ASSUME NEW a \in BasicBlock
      PROVE  Elements(dom_tree[a]) = {b \in BasicBlock : StrictlyDominates(a, b)}
  <2>1. PICK k \in 1 .. Len(blocks) : blocks[k] = a
    BY <1>1 DEF Elements
  <2>2. Elements(dom_tree[a]) = CutOff(a)
    BY <1>2, <2>1 DEF DomIInv, TreeSoFar
  <2> QED BY <1>1, <2>2 DEF CutOff, StrictlyDominates
<1> QED BY <1>1, <1>3, <1>4 DEF TreeIsKnown

\* The children of a block are the blocks it strictly dominates.
LEMMA ChildIsDominated ==
  ASSUME TreeIsKnown, NEW a \in BasicBlock
  PROVE  /\ Len(dom_tree[a]) \in Nat
         /\ \A x \in 1 .. Len(dom_tree[a]) :
              dom_tree[a][x] \in BasicBlock /\ StrictlyDominates(a, dom_tree[a][x])
         /\ \A b \in BasicBlock : StrictlyDominates(a, b) =>
              \E x \in 1 .. Len(dom_tree[a]) : dom_tree[a][x] = b
<1>1. /\ dom_tree[a] \in Seq(BasicBlock)
      /\ Elements(dom_tree[a]) = {b \in BasicBlock : StrictlyDominates(a, b)}
  BY DEF TreeIsKnown
<1>2. \A x \in 1 .. Len(dom_tree[a]) : dom_tree[a][x] \in Elements(dom_tree[a])
  BY DEF Elements
<1>3. \A b \in Elements(dom_tree[a]) : \E x \in 1 .. Len(dom_tree[a]) : dom_tree[a][x] = b
  BY DEF Elements
<1> QED BY <1>1, <1>2, <1>3

\* Strict dominance is a strict order of the blocks that can be reached.
LEMMA StrictOrder ==
  ASSUME m_succs \in BuiltGraphs, Reachable(m_succs) = BasicBlock
  PROVE  /\ \A a, b \in BasicBlock : StrictlyDominates(a, b) => ~ StrictlyDominates(b, a)
         /\ \A a, b, c \in BasicBlock :
              StrictlyDominates(a, b) /\ StrictlyDominates(b, c) => StrictlyDominates(a, c)
<1>1. ASSUME NEW a \in BasicBlock, NEW b \in BasicBlock,
             StrictlyDominates(a, b), StrictlyDominates(b, a)
      PROVE  FALSE
  BY <1>1, CutOneWay DEF StrictlyDominates
<1>2. ASSUME NEW a \in BasicBlock, NEW b \in BasicBlock, NEW c \in BasicBlock,
             StrictlyDominates(a, b), StrictlyDominates(b, c)
      PROVE  StrictlyDominates(a, c)
  <2>1. c \notin Reach(m_succs, root, {a})
    BY <1>2, CutTransitive DEF StrictlyDominates
  <2>2. a # c
    BY <1>1, <1>2
  <2> QED BY <2>1, <2>2 DEF StrictlyDominates
<1> QED BY <1>1, <1>2

\* The root strictly dominates every other block.
LEMMA RootFirstOfAll ==
  ASSUME NEW b \in BasicBlock, b # root
  PROVE  StrictlyDominates(root, b)
BY DEF StrictlyDominates, Reach

(***************************************************************************)
(* Checks that cover each other.                                           *)
(***************************************************************************)

\* The places of the instructions.
Place == {i \in BasicBlock \X Nat : i[2] \in 1 .. Len(code[i[1]])}

\* The instruction at a place has a kind.
LEMMA PlaceHasKind ==
  ASSUME CodeKept, NEW i \in Place
  PROVE  code[i[1]][i[2]] \in DOMAIN KindOf
<1>1. i[1] \in BasicBlock /\ i[2] \in 1 .. Len(code[i[1]])
  BY DEF Place
<1>2. code[i[1]] \in Seq(DOMAIN KindOf)
  BY <1>1 DEF CodeKept
<1> QED BY <1>1, <1>2

\* What makes a check superfluous that makes another one superfluous does so
\* for that one, too.
LEMMA DominatesTransitive ==
  ASSUME CodeKept, NEW s \in Place, NEW t \in Place, NEW c \in Place,
         Dominates(s, t), Dominates(t, c)
  PROVE  Dominates(s, c)
<1>1. /\ Check(s).type = "kBoundCheck" => Check(s).lower \in Int /\ Check(s).upper \in Int
      /\ Check(t).type = "kBoundCheck" => Check(t).lower \in Int /\ Check(t).upper \in Int
      /\ Check(c).type = "kBoundCheck" => Check(c).lower \in Int /\ Check(c).upper \in Int
  BY PlaceHasKind, KindAssumption DEF Check
<1>2. /\ Check(s).type = Check(t).type /\ Check(t).type = Check(c).type
      /\ Check(s).check = Check(t).check /\ Check(t).check = Check(c).check
  BY DEF Dominates
<1>3. Check(s).type = "kBoundCheck" =>
        /\ Check(s).lower <= Check(t).lower /\ Check(t).lower <= Check(c).lower
        /\ Check(t).upper <= Check(s).upper /\ Check(c).upper <= Check(t).upper
  BY <1>2 DEF Dominates
<1> HIDE DEF Check
<1> QED BY <1>1, <1>2, <1>3 DEF Dominates

\* So what covers a check that covers another one covers that one.
LEMMA CoversTransitive ==
  ASSUME CodeKept, m_succs \in BuiltGraphs,
         NEW s \in Place, NEW t \in Place, NEW c \in Place,
         Covers(s, t), Covers(t, c)
  PROVE  Covers(s, c)
<1>1. Dominates(s, c)
  BY DominatesTransitive DEF Covers
<1>2. /\ s[1] \in BasicBlock /\ t[1] \in BasicBlock /\ c[1] \in BasicBlock
      /\ s[2] \in Nat /\ t[2] \in Nat /\ c[2] \in Nat
  BY DEF Place
<1>3. Precedes(s, t) /\ Precedes(t, c) /\ Reachable(m_succs) = BasicBlock
  BY DEF Covers, CodeKept
<1>4. Precedes(s, c)
  <2>1. \A a \in BasicBlock : ~ StrictlyDominates(a, a)
    BY DEF StrictlyDominates
  <2>2. CASE s[1] = t[1] /\ t[1] = c[1]
    BY <1>2, <1>3, <2>2 DEF Precedes
  <2>3. CASE s[1] = t[1] /\ t[1] # c[1]
    BY <1>2, <1>3, <2>3 DEF Precedes
  <2>4. CASE s[1] # t[1] /\ t[1] = c[1]
    BY <1>2, <1>3, <2>4 DEF Precedes
  <2>5. CASE s[1] # t[1] /\ t[1] # c[1]
    <3>1. StrictlyDominates(s[1], t[1]) /\ StrictlyDominates(t[1], c[1])
      BY <1>3, <2>5 DEF Precedes
    <3>2. StrictlyDominates(s[1], c[1])
      BY <1>2, <1>3, <3>1, StrictOrder
    <3> QED BY <1>2, <2>1, <3>2 DEF Precedes
  <2> QED BY <2>2, <2>3, <2>4, <2>5
<1> QED BY <1>1, <1>4 DEF Covers

\* What is left, what is looked at and what is erased lies at places of the code.
LEMMA LeftArePlaces ==
  ASSUME CodeKept, NEW b \in BasicBlock
  PROVE  /\ Left(b) = {<<b, m_instrs[b][i]>> : i \in 1 .. Len(m_instrs[b])}
         /\ Left(b) \subseteq Place
         /\ InstrsOf(b) \subseteq Place /\ Left(b) \subseteq InstrsOf(b)
         /\ ErasedFrom(b) \subseteq Place
<1>1. /\ code[b] \in Seq(DOMAIN KindOf) /\ m_instrs[b] \in Seq(Nat)
      /\ \A i \in 1 .. Len(m_instrs[b]) : m_instrs[b][i] \in 1 .. Len(code[b])
  BY DEF CodeKept
<1>2. DOMAIN code[b] = 1 .. Len(code[b]) /\ Len(code[b]) \in Nat
  BY <1>1
<1>3. Left(b) = {<<b, m_instrs[b][i]>> : i \in 1 .. Len(m_instrs[b])}
  BY DEF Left, Elements
<1>4. InstrsOf(b) = {<<b, k>> : k \in 1 .. Len(code[b])}
  BY <1>2 DEF InstrsOf
<1>5. ASSUME NEW k \in 1 .. Len(code[b]) PROVE <<b, k>> \in Place
  BY <1>2 DEF Place
<1>6. Left(b) \subseteq InstrsOf(b)
  BY <1>1, <1>3, <1>4
<1> QED BY <1>3, <1>4, <1>5, <1>6 DEF ErasedFrom

(***************************************************************************)
(* The calls.                                                              *)
(***************************************************************************)

\* The invariant while the walk goes on.
WalkIInv ==
  /\ DomIInv /\ TreeIsKnown
  /\ CodeKept /\ CallsDescend /\ SeenIsScanned /\ ErasedHaveCover /\ CleanSoFar

\* A call is for a block, whose instructions and children it counts.
LEMMA CallType ==
  ASSUME TreeIsKnown, CodeKept, CallsDescend, NEW k \in 1 .. Len(calls)
  PROVE  /\ calls[k] \in CheckFrame
         /\ calls[k].bb \in BasicBlock
         /\ calls[k].instr_it \in Nat \ {0} /\ calls[k].child \in Nat \ {0}
         /\ calls[k].seen_before \in Nat
         /\ m_instrs[calls[k].bb] \in Seq(Nat)
         /\ Len(m_instrs[calls[k].bb]) \in Nat
         /\ calls[k].instr_it \in 1 .. Len(m_instrs[calls[k].bb]) + 1
         /\ calls[k].child \in 1 .. Len(dom_tree[calls[k].bb]) + 1
         /\ calls[k].seen_before \in 0 .. Len(m_seen)
<1>1. calls[k] \in CheckFrame /\ m_seen \in Seq(BasicBlock \X Nat)
  BY DEF CallsDescend
<1>2. /\ calls[k].bb \in BasicBlock
      /\ calls[k].instr_it \in Nat \ {0} /\ calls[k].child \in Nat \ {0}
      /\ calls[k].seen_before \in Nat
  BY <1>1 DEF CheckFrame
<1>3. m_instrs[calls[k].bb] \in Seq(Nat) /\ dom_tree[calls[k].bb] \in Seq(BasicBlock)
  BY <1>2 DEF CodeKept, TreeIsKnown
<1>4. /\ calls[k].instr_it <= Len(m_instrs[calls[k].bb]) + 1
      /\ calls[k].child <= Len(dom_tree[calls[k].bb]) + 1
      /\ calls[k].seen_before <= Len(m_seen)
  BY DEF CallsDescend, InBounds
<1>5. /\ Len(m_instrs[calls[k].bb]) \in Nat /\ Len(dom_tree[calls[k].bb]) \in Nat
      /\ Len(m_seen) \in Nat
  BY <1>1, <1>3
<1> QED BY <1>1, <1>2, <1>3, <1>4, <1>5

\* What a call has looked at is left.  A call below the running one has looked
\* at all that is.
LEMMA ScannedIsLeft ==
  ASSUME TreeIsKnown, CodeKept, CallsDescend, NEW k \in 1 .. Len(calls)
  PROVE  /\ Scanned(calls[k]) \subseteq Left(calls[k].bb)
         /\ Scanned(calls[k]) \subseteq Place
         /\ \A s \in Scanned(calls[k]) : s[1] = calls[k].bb
         /\ calls[k].instr_it > Len(m_instrs[calls[k].bb]) =>
              Scanned(calls[k]) = Left(calls[k].bb)
         /\ k # 1 => calls[k].instr_it > Len(m_instrs[calls[k].bb])
<1> DEFINE b == calls[k].bb
           n == calls[k].instr_it
<1>1. b \in BasicBlock /\ n \in 1 .. Len(m_instrs[b]) + 1 /\ Len(m_instrs[b]) \in Nat
  BY CallType
<1>2. Left(b) = {<<b, m_instrs[b][i]>> : i \in 1 .. Len(m_instrs[b])} /\ Left(b) \subseteq Place
  BY <1>1, LeftArePlaces
<1>3. Scanned(calls[k]) = {<<b, m_instrs[b][i]>> : i \in 1 .. n - 1}
  BY DEF Scanned
<1>4. n > Len(m_instrs[b]) => n - 1 = Len(m_instrs[b])
  BY <1>1, SMTT(30)
<1>5. k # 1 => n > Len(m_instrs[b])
  <2> SUFFICES ASSUME k # 1 PROVE n > Len(m_instrs[b])
    OBVIOUS
  <2>1. 1 \in 1 .. Len(calls) /\ k \in 1 + 1 .. Len(calls)
    BY DEF CallsDescend
  <2> QED BY <2>1 DEF CallsDescend, Below
<1>6. \A i \in 1 .. n - 1 : i \in 1 .. Len(m_instrs[b])
  BY <1>1
<1> HIDE DEF b, n
<1>7. Scanned(calls[k]) \subseteq Left(b) /\ \A s \in Scanned(calls[k]) : s[1] = b
  BY <1>2, <1>3, <1>6
<1>8. n > Len(m_instrs[b]) => Scanned(calls[k]) = Left(b)
  BY <1>2, <1>3, <1>4
<1> QED BY <1>2, <1>5, <1>7, <1>8 DEF b, n

\* The running call, and those below it.
LEMMA CurrentCall ==
  ASSUME TreeIsKnown, CodeKept, CallsDescend, calls # <<>>
  PROVE  /\ Len(calls) \in Nat \ {0} /\ 1 \in 1 .. Len(calls) /\ This = calls[1]
         /\ This \in CheckFrame
         /\ \A k \in 2 .. Len(calls) : StrictlyDominates(calls[k].bb, This.bb)
<1>1. calls \in Seq(CheckFrame)
  BY DEF CallsDescend
<1>2. /\ Len(calls) \in Nat \ {0} /\ 1 \in 1 .. Len(calls) /\ This = calls[1]
      /\ This \in CheckFrame
  BY <1>1 DEF This
<1>3. \A k \in 2 .. Len(calls) : StrictlyDominates(calls[k].bb, This.bb)
  BY <1>2 DEF CallsDescend, Below
<1> QED BY <1>2, <1>3

\* The running call takes a step, the others do not.
LEMMA OnlyTopChanges ==
  ASSUME calls \in Seq(CheckFrame), calls # <<>>, NEW f \in CheckFrame
  PROVE  /\ With(f) \in Seq(CheckFrame) /\ Len(With(f)) = Len(calls)
         /\ With(f)[1] = f
         /\ \A k \in 2 .. Len(calls) : With(f)[k] = calls[k]
<1>1. /\ Tail(calls) \in Seq(CheckFrame) /\ Len(calls) = Len(Tail(calls)) + 1
      /\ \A k \in 1 .. Len(Tail(calls)) : Tail(calls)[k] = calls[k + 1]
  BY PopProperties
<1>2. /\ With(f) \in Seq(CheckFrame) /\ Len(With(f)) = Len(Tail(calls)) + 1
      /\ With(f)[1] = f
      /\ \A k \in 1 .. Len(Tail(calls)) : With(f)[k + 1] = Tail(calls)[k]
  BY <1>1, PushProperties DEF With
<1>3. \A k \in 2 .. Len(calls) : k - 1 \in 1 .. Len(Tail(calls)) /\ (k - 1) + 1 = k
  BY <1>1
<1> QED BY <1>1, <1>2, <1>3

\* The instruction the running call looks at.
LEMMA CurrentInstr ==
  ASSUME TreeIsKnown, CodeKept, CallsDescend, AtInstr
  PROVE  /\ This.instr_it \in 1 .. Len(m_instrs[This.bb])
         /\ This.bb \in BasicBlock
         /\ Instr \in Left(This.bb) /\ Instr \in Place /\ Instr[1] = This.bb
         /\ \A s \in Scanned(This) : s[1] = This.bb /\ s[2] < Instr[2]
<1>1. This = calls[1] /\ 1 \in 1 .. Len(calls)
  BY CurrentCall DEF AtInstr, Walking
<1>2. /\ This.bb \in BasicBlock /\ This.instr_it \in Nat \ {0}
      /\ m_instrs[This.bb] \in Seq(Nat) /\ Len(m_instrs[This.bb]) \in Nat
  BY <1>1, CallType
<1>3. This.instr_it \in 1 .. Len(m_instrs[This.bb])
  BY <1>2 DEF AtInstr
<1>4. Instr \in Left(This.bb) /\ Instr \in Place /\ Instr[1] = This.bb
  BY <1>2, <1>3, LeftArePlaces DEF Instr
<1>5. ASSUME NEW s \in Scanned(This) PROVE s[1] = This.bb /\ s[2] < Instr[2]
  <2>1. PICK i \in 1 .. This.instr_it - 1 : s = <<This.bb, m_instrs[This.bb][i]>>
    BY DEF Scanned
  <2>2. i \in 1 .. Len(m_instrs[This.bb]) /\ i < This.instr_it
    BY <1>2, <1>3
  <2>3. m_instrs[This.bb][i] < m_instrs[This.bb][This.instr_it]
    BY <1>2, <1>3, <2>2 DEF CodeKept
  <2> QED BY <2>1, <2>3 DEF Instr
<1> QED BY <1>2, <1>3, <1>4, <1>5

\* As long as the graph and the code stay, so does what covers what.
LEMMA CoversStays ==
  ASSUME m_succs' = m_succs, code' = code
  PROVE  /\ \A i : IsCheck(i)' <=> IsCheck(i)
         /\ \A s, c : Covers(s, c)' <=> Covers(s, c)
         /\ \A a, b : StrictlyDominates(a, b)' <=> StrictlyDominates(a, b)
         /\ \A b : InstrsOf(b)' = InstrsOf(b)
<1>1. \A i : Check(i)' = Check(i)
  BY DEF Check
<1>2. \A a, b : StrictlyDominates(a, b)' <=> StrictlyDominates(a, b)
  BY DEF StrictlyDominates
<1>3. \A i : IsCheck(i)' <=> IsCheck(i)
  BY <1>1 DEF IsCheck
<1>4. \A s, c : Dominates(s, c)' <=> Dominates(s, c)
  BY <1>1 DEF Dominates
<1>5. \A s, c : Precedes(s, c)' <=> Precedes(s, c)
  BY <1>2 DEF Precedes
<1>6. \A s, c : Covers(s, c)' <=> Covers(s, c)
  BY <1>3, <1>4, <1>5 DEF Covers
<1>7. \A b : InstrsOf(b)' = InstrsOf(b)
  BY DEF InstrsOf
<1> QED BY <1>2, <1>3, <1>6, <1>7

\* The less is left, the less is left behind.
LEMMA CleanStays ==
  ASSUME m_succs' = m_succs, code' = code,
         \A b \in BasicBlock : Left(b)' \subseteq Left(b)
  PROVE  /\ \A a, b \in BasicBlock : Clean(a, b) => Clean(a, b)'
         /\ \A a \in BasicBlock : Finished(a) => Finished(a)'
<1>1. \A s, c : Covers(s, c)' <=> Covers(s, c)
  BY CoversStays
<1>2. \A a, b \in BasicBlock : Clean(a, b) => Clean(a, b)'
  BY <1>1 DEF Clean
<1>3. \A a \in BasicBlock : Finished(a) => Finished(a)'
  BY <1>2 DEF Finished
<1> QED BY <1>2, <1>3

(***************************************************************************)
(* The running call looks at an instruction that stays.                    *)
(***************************************************************************)

\* The step of SkipInstr and of KeepCheck.
LooksOn ==
  /\ AtInstr /\ calls' = StepOver
  /\ UNCHANGED <<m_succs, dom_tree, code, m_instrs>>
  /\ \/ ~ IsCheck(Instr) /\ m_seen' = m_seen
     \/ IsCheck(Instr) /\ ~ AlreadySeen /\ m_seen' = Append(m_seen, Instr)

\* What the step changes.
LEMMA LooksOnChanges ==
  ASSUME TreeIsKnown, CodeKept, CallsDescend, LooksOn
  PROVE  /\ calls' \in Seq(CheckFrame) /\ Len(calls') = Len(calls)
         /\ Len(calls) \in Nat \ {0} /\ This = calls[1]
         /\ calls'[1].instr_it = calls[1].instr_it + 1
         /\ \A k \in 2 .. Len(calls) : calls'[k] = calls[k]
         /\ \A k \in 1 .. Len(calls) :
              /\ calls'[k].bb = calls[k].bb /\ calls'[k].child = calls[k].child
              /\ calls'[k].seen_before = calls[k].seen_before
         /\ Scanned(calls[1])' = Scanned(calls[1]) \cup {Instr}
         /\ \A k \in 2 .. Len(calls) : Scanned(calls[k])' = Scanned(calls[k])
<1>1. /\ calls \in Seq(CheckFrame) /\ calls # <<>> /\ Len(calls) \in Nat \ {0}
      /\ This = calls[1] /\ This \in CheckFrame /\ m_instrs' = m_instrs
  BY CurrentCall DEF LooksOn, AtInstr, Walking, CallsDescend
<1> DEFINE f == [This EXCEPT !.instr_it = @ + 1]
<1>2. /\ f \in CheckFrame /\ f.bb = This.bb /\ f.child = This.child
      /\ f.seen_before = This.seen_before /\ f.instr_it = This.instr_it + 1
  BY <1>1, SMTT(30) DEF CheckFrame
<1>3. calls' = With(f)
  BY DEF LooksOn, StepOver
<1> HIDE DEF f
<1>4. /\ calls' \in Seq(CheckFrame) /\ Len(calls') = Len(calls) /\ calls'[1] = f
      /\ \A k \in 2 .. Len(calls) : calls'[k] = calls[k]
  BY <1>1, <1>2, <1>3, OnlyTopChanges
<1>5. \A k \in 1 .. Len(calls) : k = 1 \/ k \in 2 .. Len(calls)
  BY <1>1
<1>6. \A k \in 1 .. Len(calls) :
        /\ calls'[k].bb = calls[k].bb /\ calls'[k].child = calls[k].child
        /\ calls'[k].seen_before = calls[k].seen_before
  BY <1>1, <1>2, <1>4, <1>5
<1>7. \A k \in 2 .. Len(calls) : Scanned(calls[k])' = Scanned(calls[k])
  BY <1>1, <1>4 DEF Scanned
<1>8. Scanned(calls[1])' = Scanned(calls[1]) \cup {Instr}
  <2>1. This.instr_it \in Nat \ {0}
    BY <1>1 DEF CheckFrame
  <2>2. 1 .. (This.instr_it + 1) - 1 = 1 .. This.instr_it - 1 \cup {This.instr_it}
    BY <2>1
  <2>3. Scanned(calls[1])' = {<<f.bb, m_instrs[f.bb][i]>> : i \in 1 .. f.instr_it - 1}
    BY <1>1, <1>4 DEF Scanned
  <2>4. Scanned(calls[1]) = {<<This.bb, m_instrs[This.bb][i]>> : i \in 1 .. This.instr_it - 1}
    BY <1>1 DEF Scanned
  <2> QED BY <1>2, <2>2, <2>3, <2>4 DEF Instr
<1> QED BY <1>1, <1>2, <1>4, <1>6, <1>7, <1>8

\* A check that stays becomes the last of m_seen.
LEMMA SeenGrows ==
  ASSUME TreeIsKnown, CodeKept, CallsDescend, LooksOn
  PROVE  /\ m_seen' \in Seq(BasicBlock \X Nat)
         /\ Len(m_seen) \in Nat /\ Len(m_seen') \in Nat /\ Len(m_seen) <= Len(m_seen')
         /\ \A k \in 1 .. Len(m_seen) : k \in 1 .. Len(m_seen') /\ m_seen'[k] = m_seen[k]
         /\ \A k \in 1 .. Len(m_seen') :
              \/ k \in 1 .. Len(m_seen)
              \/ k = Len(m_seen) + 1 /\ m_seen'[k] = Instr /\ IsCheck(Instr)
         /\ IsCheck(Instr) =>
              Len(m_seen) + 1 \in 1 .. Len(m_seen') /\ m_seen'[Len(m_seen) + 1] = Instr
<1>1. m_seen \in Seq(BasicBlock \X Nat) /\ Len(m_seen) \in Nat
  BY DEF CallsDescend
<1>2. Instr \in BasicBlock \X Nat
  BY CurrentInstr DEF LooksOn, Place
<1>3. CASE ~ IsCheck(Instr) /\ m_seen' = m_seen
  BY <1>1, <1>3
<1>4. CASE IsCheck(Instr) /\ m_seen' = Append(m_seen, Instr)
  <2>1. /\ m_seen' \in Seq(BasicBlock \X Nat) /\ Len(m_seen') = Len(m_seen) + 1
        /\ m_seen'[Len(m_seen) + 1] = Instr
        /\ \A k \in 1 .. Len(m_seen) : m_seen'[k] = m_seen[k]
    BY <1>1, <1>2, <1>4
  <2>2. \A k \in 1 .. Len(m_seen) + 1 : k \in 1 .. Len(m_seen) \/ k = Len(m_seen) + 1
    BY <1>1
  <2> QED BY <1>1, <1>4, <2>1, <2>2
<1> QED BY <1>3, <1>4 DEF LooksOn

\* The chain of calls is the same.
LEMMA LooksOnDescends == WalkIInv /\ LooksOn => CodeKept' /\ CallsDescend'
<1> SUFFICES ASSUME WalkIInv, LooksOn PROVE CodeKept' /\ CallsDescend'
  OBVIOUS
<1>1. TreeIsKnown /\ CodeKept /\ CallsDescend
  BY DEF WalkIInv
<1>2. /\ UNCHANGED <<m_succs, dom_tree, code, m_instrs>>
      /\ \A a, b : StrictlyDominates(a, b)' <=> StrictlyDominates(a, b)
  BY CoversStays DEF LooksOn
<1>3. CodeKept'
  BY <1>1, <1>2 DEF CodeKept, Reachable
<1>4. /\ calls' \in Seq(CheckFrame) /\ Len(calls') = Len(calls)
      /\ Len(calls) \in Nat \ {0} /\ This = calls[1]
      /\ calls'[1].instr_it = calls[1].instr_it + 1
      /\ \A k \in 2 .. Len(calls) : calls'[k] = calls[k]
      /\ \A k \in 1 .. Len(calls) :
           /\ calls'[k].bb = calls[k].bb /\ calls'[k].child = calls[k].child
           /\ calls'[k].seen_before = calls[k].seen_before
  BY <1>1, LooksOnChanges
<1>5. /\ m_seen' \in Seq(BasicBlock \X Nat)
      /\ Len(m_seen) \in Nat /\ Len(m_seen') \in Nat /\ Len(m_seen) <= Len(m_seen')
  BY <1>1, SeenGrows
<1>6. ASSUME NEW j \in 1 .. Len(calls) PROVE InBounds(j)'
  <2>1. calls[j].seen_before \in 0 .. Len(m_seen) /\ InBounds(j)
    BY <1>1, CallType DEF CallsDescend
  <2>2. calls'[j].instr_it <= Len(m_instrs[calls[j].bb]) + 1
    <3>1. CASE j = 1
      <4>1. calls[j].instr_it \in 1 .. Len(m_instrs[calls[j].bb])
        BY <1>1, <1>4, <3>1, CurrentInstr DEF LooksOn
      <4>2. Len(m_instrs[calls[j].bb]) \in Nat
        BY <1>1, CallType
      <4> QED BY <1>4, <3>1, <4>1, <4>2
    <3>2. CASE j # 1
      BY <1>4, <2>1, <3>2 DEF InBounds
    <3> QED BY <3>1, <3>2
  <2>3. calls'[j].seen_before <= Len(m_seen')
    BY <1>4, <1>5, <2>1
  <2> QED BY <1>2, <1>4, <2>1, <2>2, <2>3 DEF InBounds
<1>7. ASSUME NEW j \in 1 .. Len(calls), NEW k \in j + 1 .. Len(calls) PROVE Below(k, j)'
  <2>1. k \in 2 .. Len(calls) /\ k \in 1 .. Len(calls)
    BY <1>4
  <2>2. Below(k, j)
    BY <1>1 DEF CallsDescend
  <2> QED BY <1>2, <1>4, <2>1, <2>2 DEF Below
<1>8. CallsDescend'
  BY <1>4, <1>5, <1>6, <1>7 DEF CallsDescend
<1> QED BY <1>3, <1>8

\* m_seen has the checks that the calls have looked at.
LEMMA LooksOnSees == WalkIInv /\ LooksOn => SeenIsScanned'
<1> SUFFICES ASSUME WalkIInv, LooksOn PROVE SeenIsScanned'
  OBVIOUS
<1>1. TreeIsKnown /\ CodeKept /\ CallsDescend /\ SeenIsScanned
  BY DEF WalkIInv
<1>2. \A i : IsCheck(i)' <=> IsCheck(i)
  BY CoversStays DEF LooksOn
<1>3. /\ Len(calls') = Len(calls) /\ Len(calls) \in Nat \ {0}
      /\ \A k \in 1 .. Len(calls) : calls'[k].seen_before = calls[k].seen_before
      /\ Scanned(calls[1])' = Scanned(calls[1]) \cup {Instr}
      /\ \A k \in 2 .. Len(calls) : Scanned(calls[k])' = Scanned(calls[k])
  BY <1>1, LooksOnChanges
<1>4. /\ Len(m_seen) \in Nat
      /\ \A k \in 1 .. Len(m_seen) : k \in 1 .. Len(m_seen') /\ m_seen'[k] = m_seen[k]
      /\ \A k \in 1 .. Len(m_seen') :
           \/ k \in 1 .. Len(m_seen)
           \/ k = Len(m_seen) + 1 /\ m_seen'[k] = Instr /\ IsCheck(Instr)
      /\ IsCheck(Instr) =>
           Len(m_seen) + 1 \in 1 .. Len(m_seen') /\ m_seen'[Len(m_seen) + 1] = Instr
  BY <1>1, SeenGrows
<1>5. \A j \in 1 .. Len(calls) : Scanned(calls[j]) \subseteq Scanned(calls[j])'
  BY <1>3
<1>6. ASSUME NEW k \in 1 .. Len(m_seen')
      PROVE  \E j \in 1 .. Len(calls) :
               /\ calls[j].seen_before < k
               /\ \E s \in Scanned(calls[j])' : m_seen'[k] = s /\ IsCheck(s)
  <2>1. CASE k \in 1 .. Len(m_seen)
    BY <1>1, <1>4, <1>5, <2>1 DEF SeenIsScanned
  <2>2. CASE k = Len(m_seen) + 1 /\ m_seen'[k] = Instr /\ IsCheck(Instr)
    <3>1. 1 \in 1 .. Len(calls)
      BY <1>3
    <3>2. calls[1].seen_before \in 0 .. Len(m_seen)
      BY <1>1, <3>1, CallType
    <3>3. calls[1].seen_before < k
      BY <1>4, <2>2, <3>2
    <3> QED BY <1>3, <2>2, <3>1, <3>3
  <2> QED BY <1>4, <2>1, <2>2
<1>7. ASSUME NEW j \in 1 .. Len(calls), NEW s \in Scanned(calls[j])', IsCheck(s)
      PROVE  \E k \in 1 .. Len(m_seen') :
               m_seen'[k] = s /\ \A i \in 1 .. j - 1 : k <= calls[i].seen_before
  <2>1. CASE s \in Scanned(calls[j])
    <3>1. PICK k \in 1 .. Len(m_seen) :
            m_seen[k] = s /\ \A i \in 1 .. j - 1 : k <= calls[i].seen_before
      BY <1>1, <1>7, <2>1 DEF SeenIsScanned
    <3> QED BY <1>4, <3>1
  <2>2. CASE s \notin Scanned(calls[j])
    <3>1. j = 1 /\ s = Instr
      BY <1>3, <2>2
    <3>2. 1 .. j - 1 = {}
      BY <3>1
    <3> QED BY <1>4, <1>7, <3>1, <3>2
  <2> QED BY <2>1, <2>2
<1>8. \A j \in 1 .. Len(calls) : \A i \in 1 .. j - 1 : i \in 1 .. Len(calls)
  BY <1>3
<1>9. \A k \in 1 .. Len(m_seen') : \E j \in 1 .. Len(calls') :
        /\ calls'[j].seen_before < k
        /\ \E s \in Scanned(calls[j])' : m_seen'[k] = s /\ IsCheck(s)'
  BY <1>2, <1>3, <1>6
<1>10. \A j \in 1 .. Len(calls') : \A s \in Scanned(calls[j])' :
         IsCheck(s)' => \E k \in 1 .. Len(m_seen') :
           m_seen'[k] = s /\ \A i \in 1 .. j - 1 : k <= calls'[i].seen_before
  BY <1>2, <1>3, <1>7, <1>8
<1> QED BY <1>9, <1>10 DEF SeenIsScanned

\* What is erased stays covered while nothing is erased.
LEMMA NothingErasedKeepsCover ==
  ASSUME CodeKept, ErasedHaveCover, UNCHANGED <<m_succs, code, m_instrs>>
  PROVE  ErasedHaveCover'
<1>1. /\ \A s, c : Covers(s, c)' <=> Covers(s, c)
      /\ \A b : InstrsOf(b)' = InstrsOf(b)
  BY CoversStays
<1>2. \A b : Left(b)' = Left(b)
  BY DEF Left
<1> QED BY <1>1, <1>2 DEF ErasedHaveCover, ErasedFrom

\* An instruction that no check seen covers is not covered by what the calls
\* have looked at, and covers nothing of it.
LEMMA LooksOnClean == WalkIInv /\ LooksOn => CleanSoFar'
<1> SUFFICES ASSUME WalkIInv, LooksOn PROVE CleanSoFar'
  OBVIOUS
<1>1. TreeIsKnown /\ CodeKept /\ CallsDescend /\ SeenIsScanned /\ CleanSoFar
  BY DEF WalkIInv
<1>2. UNCHANGED <<m_succs, dom_tree, code, m_instrs>> /\ AtInstr
  BY DEF LooksOn
<1>3. \A s, c : Covers(s, c)' <=> Covers(s, c)
  BY <1>2, CoversStays
<1>4. /\ calls' \in Seq(CheckFrame) /\ Len(calls') = Len(calls)
      /\ Len(calls) \in Nat \ {0} /\ This = calls[1]
      /\ \A k \in 1 .. Len(calls) :
           calls'[k].bb = calls[k].bb /\ calls'[k].child = calls[k].child
      /\ Scanned(calls[1])' = Scanned(calls[1]) \cup {Instr}
      /\ \A k \in 2 .. Len(calls) : Scanned(calls[k])' = Scanned(calls[k])
  BY <1>1, LooksOnChanges
<1>5. /\ Instr[1] = This.bb /\ Instr \in Place
      /\ \A s \in Scanned(This) : s[1] = This.bb /\ s[2] < Instr[2]
  BY <1>1, <1>2, CurrentInstr
<1>6. ASSUME NEW k \in 1 .. Len(calls), NEW s \in Scanned(calls[k]) PROVE ~ Covers(s, Instr)
  <2> SUFFICES ASSUME IsCheck(s), Dominates(s, Instr), IsCheck(Instr) PROVE FALSE
    BY DEF Covers
  <2>1. PICK x \in 1 .. Len(m_seen) : m_seen[x] = s
    BY <1>1 DEF SeenIsScanned
  <2>2. x \in DOMAIN m_seen
    BY <1>1 DEF CallsDescend
  <2> QED BY <2>1, <2>2 DEF LooksOn, AlreadySeen
<1>7. ASSUME NEW c \in Scanned(calls[1]) \cup {Instr} PROVE ~ Covers(Instr, c)
  <2>1. c[1] = This.bb /\ (c = Instr \/ c[2] < Instr[2])
    BY <1>4, <1>5
  <2>2. Instr[2] \in Nat /\ (c = Instr \/ c \in Place) /\ 1 \in 1 .. Len(calls)
    BY <1>1, <1>4, <1>5, ScannedIsLeft DEF Place
  <2>3. c[2] \in Nat
    BY <2>2 DEF Place
  <2> QED BY <1>5, <2>1, <2>2, <2>3 DEF Covers, Precedes
<1>8. ASSUME NEW k \in 1 .. Len(calls), NEW j \in 1 .. k,
             NEW s \in Scanned(calls[k])', NEW c \in Scanned(calls[j])'
      PROVE  ~ Covers(s, c)
  <2>1. j \in 1 .. Len(calls) /\ (k = 1 => j = 1)
    BY <1>4
  <2>2. CASE s \in Scanned(calls[k]) /\ c \in Scanned(calls[j])
    BY <1>1, <2>2 DEF CleanSoFar
  <2>3. CASE s \in Scanned(calls[k]) /\ c \notin Scanned(calls[j])
    BY <1>4, <1>6, <2>1, <2>3, SMTT(30)
  <2>4. CASE s \notin Scanned(calls[k])
    <3>1. k = 1 /\ j = 1 /\ s = Instr
      BY <1>4, <2>1, <2>4
    <3> QED BY <1>4, <1>7, <3>1
  <2> QED BY <2>2, <2>3, <2>4
<1>9. /\ \A a, b \in BasicBlock : Clean(a, b) => Clean(a, b)'
      /\ \A a \in BasicBlock : Finished(a) => Finished(a)'
  <2>1. \A b \in BasicBlock : Left(b)' \subseteq Left(b)
    BY <1>2 DEF Left
  <2> QED BY <1>2, <2>1, CleanStays
<1>10. \A a, b : PassedThrough(a, b)' => PassedThrough(a, b)
  BY <1>2, <1>4 DEF PassedThrough
<1>11. calls' # <<>>
  BY <1>4
<1> QED BY <1>2, <1>3, <1>4, <1>1, <1>8, <1>9, <1>10, <1>11 DEF CleanSoFar

(***************************************************************************)
(* The running call erases a check.                                        *)
(***************************************************************************)

\* What the step changes: nothing is left of the check, and what the calls have
\* looked at stays.
LEMMA EraseChanges ==
  ASSUME TreeIsKnown, CodeKept, CallsDescend, EraseCheck
  PROVE  /\ UNCHANGED <<m_succs, dom_tree, code, calls, m_seen>>
         /\ m_instrs' \in [BasicBlock -> Seq(Nat)]
         /\ \A b \in BasicBlock : b # This.bb => m_instrs'[b] = m_instrs[b]
         /\ m_instrs'[This.bb] = Erase(m_instrs[This.bb], This.instr_it)
         /\ \A b \in BasicBlock : Left(b) \ {Instr} \subseteq Left(b)'
         /\ \A b \in BasicBlock : Left(b)' \subseteq Left(b)
         /\ \A k \in 1 .. Len(calls) : Scanned(calls[k])' = Scanned(calls[k])
<1>0. PICK b \in BasicBlock : b = This.bb
  BY CurrentInstr DEF EraseCheck
<1> DEFINE n == This.instr_it
           old == m_instrs[b]
           new == Erase(m_instrs[b], n)
<1>1. /\ UNCHANGED <<m_succs, dom_tree, code, calls, m_seen>>
      /\ m_instrs' = [m_instrs EXCEPT ![b] = new] /\ AtInstr
  BY <1>0 DEF EraseCheck, AfterErase, vars, domVars
<1>2. /\ n \in 1 .. Len(old) /\ m_instrs \in [BasicBlock -> Seq(Nat)]
      /\ old \in Seq(Nat) /\ Len(old) \in Nat
  BY <1>0, <1>1, CurrentInstr DEF CodeKept
<1>3. /\ This = calls[1] /\ Len(calls) \in Nat
      /\ \A k \in 2 .. Len(calls) : StrictlyDominates(calls[k].bb, b)
  BY <1>0, <1>1, CurrentCall DEF AtInstr, Walking
<1>4. Instr = <<b, old[n]>>
  BY <1>0 DEF Instr
<1> HIDE DEF n
<1>5. /\ new \in Seq(Nat) /\ Len(new) = Len(old) - 1
      /\ \A i \in 1 .. n - 1 : new[i] = old[i]
      /\ \A i \in n .. Len(old) - 1 : new[i] = old[i + 1]
  BY <1>2, EraseProperties
<1> HIDE DEF old, new
<1>6. /\ m_instrs' \in [BasicBlock -> Seq(Nat)]
      /\ \A a \in BasicBlock : a # b => m_instrs'[a] = m_instrs[a]
      /\ m_instrs'[b] = new
  BY <1>1, <1>2, <1>5
<1>7. \A a \in BasicBlock : a # b => Left(a)' = Left(a)
  BY <1>6 DEF Left
<1>8. /\ Left(b) = {<<b, old[i]>> : i \in 1 .. Len(old)}
      /\ Left(b)' = {<<b, new[i]>> : i \in 1 .. Len(new)}
  BY <1>6 DEF Left, Elements, old
<1>9. Left(b)' \subseteq Left(b)
  <2> SUFFICES ASSUME NEW i \in 1 .. Len(new) PROVE \E j \in 1 .. Len(old) : old[j] = new[i]
    BY <1>8
  <2>1. CASE i < n
    BY <1>2, <1>5, <2>1, SMTT(30)
  <2>2. CASE ~ (i < n)
    <3>1. i \in n .. Len(old) - 1 /\ i + 1 \in 1 .. Len(old)
      BY <1>2, <1>5, <2>2
    <3> QED BY <1>5, <3>1
  <2> QED BY <2>1, <2>2
<1>10. Left(b) \ {Instr} \subseteq Left(b)'
  <2> SUFFICES ASSUME NEW j \in 1 .. Len(old), j # n
               PROVE  \E i \in 1 .. Len(new) : new[i] = old[j]
    BY <1>4, <1>8
  <2>1. CASE j < n
    BY <1>2, <1>5, <2>1
  <2>2. CASE ~ (j < n)
    <3>1. j - 1 \in n .. Len(old) - 1 /\ j - 1 \in 1 .. Len(new) /\ (j - 1) + 1 = j
      BY <1>2, <1>5, <2>2
    <3> QED BY <1>5, <3>1
  <2> QED BY <2>1, <2>2
<1>11. ASSUME NEW k \in 1 .. Len(calls) PROVE Scanned(calls[k])' = Scanned(calls[k])
  <2>1. calls'[k] = calls[k] /\ calls[k].bb \in BasicBlock
    BY <1>1, CallType
  <2>2. CASE k = 1
    <3>1. /\ Scanned(calls[k])' = {<<b, new[i]>> : i \in 1 .. n - 1}
          /\ Scanned(calls[k]) = {<<b, old[i]>> : i \in 1 .. n - 1}
      BY <1>0, <1>3, <1>6, <2>1, <2>2 DEF Scanned, n, old
    <3> QED BY <1>5, <3>1, ZenonT(60)
  <2>3. CASE k # 1
    <3>1. k \in 2 .. Len(calls)
      BY <1>3, <2>3
    <3>2. calls[k].bb # b
      BY <1>3, <3>1 DEF StrictlyDominates
    <3> QED BY <1>6, <2>1, <3>2 DEF Scanned
  <2> QED BY <2>2, <2>3
<1>12. \A a \in BasicBlock : Left(a) \ {Instr} \subseteq Left(a)' /\ Left(a)' \subseteq Left(a)
  BY <1>7, <1>9, <1>10
<1> QED BY <1>0, <1>1, <1>6, <1>11, <1>12 DEF n, new

\* What stays of a block is in its order.
LEMMA EraseKeepsCode ==
  ASSUME TreeIsKnown, CodeKept, CallsDescend, EraseCheck
  PROVE  CodeKept'
<1> DEFINE old == m_instrs[This.bb]
           new == m_instrs'[This.bb]
           n == This.instr_it
<1>1. /\ UNCHANGED <<m_succs, code>>
      /\ m_instrs' \in [BasicBlock -> Seq(Nat)]
      /\ \A b \in BasicBlock : b # This.bb => m_instrs'[b] = m_instrs[b]
      /\ new = Erase(old, n)
  BY EraseChanges
<1>2. /\ This.bb \in BasicBlock /\ n \in 1 .. Len(old) /\ old \in Seq(Nat) /\ Len(old) \in Nat
      /\ \A i \in 1 .. Len(old) : old[i] \in 1 .. Len(code[This.bb])
      /\ \A i, j \in 1 .. Len(old) : i < j => old[i] < old[j]
  BY CurrentInstr, SMTT(30) DEF CodeKept, EraseCheck
<1> HIDE DEF old, new, n
<1>3. /\ new \in Seq(Nat) /\ Len(new) = Len(old) - 1
      /\ \A i \in 1 .. n - 1 : new[i] = old[i]
      /\ \A i \in n .. Len(old) - 1 : new[i] = old[i + 1]
  BY <1>1, <1>2, EraseProperties
<1>4. \A i \in 1 .. Len(new) :
        \/ i < n /\ new[i] = old[i] /\ i \in 1 .. Len(old)
        \/ i >= n /\ new[i] = old[i + 1] /\ i + 1 \in 1 .. Len(old)
  <2>1. SUFFICES ASSUME NEW i \in 1 .. Len(new)
        PROVE  \/ i < n /\ new[i] = old[i] /\ i \in 1 .. Len(old)
               \/ i >= n /\ new[i] = old[i + 1] /\ i + 1 \in 1 .. Len(old)
    OBVIOUS
  <2>2. n \in Nat /\ i \in Nat /\ i + 1 \in 1 .. Len(old) /\ i \in 1 .. Len(old)
    BY <1>2, <1>3
  <2>3. CASE i < n
    <3>1. i \in 1 .. n - 1
      BY <1>2, <2>2, <2>3
    <3> QED BY <1>3, <2>2, <2>3, <3>1
  <2>4. CASE i >= n
    <3>1. i \in n .. Len(old) - 1
      BY <1>2, <2>2, <2>4
    <3> QED BY <1>3, <2>2, <2>4, <3>1
  <2> QED BY <2>2, <2>3, <2>4
<1>5. \A i \in 1 .. Len(new) : new[i] \in 1 .. Len(code[This.bb])
  BY <1>2, <1>4
<1>6. ASSUME NEW i \in 1 .. Len(new), NEW j \in 1 .. Len(new), i < j
      PROVE  new[i] < new[j]
  <2>1. n \in Nat /\ i \in Nat /\ j \in Nat
    BY <1>2, <1>3
  <2>2. CASE j < n
    BY <1>2, <1>4, <1>6, <2>1, <2>2
  <2>3. CASE i < n /\ ~ (j < n)
    <3>1. i < j + 1
      BY <1>6, <2>1
    <3> QED BY <1>2, <1>4, <2>1, <2>3, <3>1
  <2>4. CASE ~ (i < n) /\ ~ (j < n)
    <3>1. i + 1 < j + 1
      BY <1>6, <2>1
    <3> QED BY <1>2, <1>4, <2>1, <2>4, <3>1
  <2>5. j < n \/ ~ (j < n)
    OBVIOUS
  <2> QED BY <1>6, <2>1, <2>2, <2>3, <2>4
<1>7. ASSUME NEW b \in BasicBlock
      PROVE  /\ \A i \in 1 .. Len(m_instrs'[b]) : m_instrs'[b][i] \in 1 .. Len(code[b])
             /\ \A i, j \in 1 .. Len(m_instrs'[b]) : i < j => m_instrs'[b][i] < m_instrs'[b][j]
  <2>1. CASE b = This.bb
    BY <1>5, <1>6, <2>1 DEF new
  <2>2. CASE b # This.bb
    BY <1>1, <2>2 DEF CodeKept
  <2> QED BY <2>1, <2>2
<1> QED BY <1>1, <1>7 DEF CodeKept, Reachable

\* The check seen before the erased one covers it and is left.  Where the erased
\* check was the cover of another one, that check takes its place.
LEMMA EraseKeepsCover ==
  ASSUME WalkIInv, EraseCheck
  PROVE  ErasedHaveCover'
<1>1. /\ TreeIsKnown /\ CodeKept /\ CallsDescend /\ SeenIsScanned /\ ErasedHaveCover
      /\ m_succs \in BuiltGraphs
  BY DEF WalkIInv, TreeIsKnown
<1>2. /\ UNCHANGED <<m_succs, dom_tree, code, calls, m_seen>>
      /\ \A b \in BasicBlock : Left(b) \ {Instr} \subseteq Left(b)'
      /\ \A k \in 1 .. Len(calls) : Scanned(calls[k])' = Scanned(calls[k])
  BY <1>1, EraseChanges
<1>3. /\ \A s, c : Covers(s, c)' <=> Covers(s, c)
      /\ \A b : InstrsOf(b)' = InstrsOf(b)
  BY <1>2, CoversStays
<1>4. AtInstr /\ IsCheck(Instr) /\ AlreadySeen
  BY DEF EraseCheck
<1>5. /\ Instr \in Left(This.bb) /\ Instr \in Place /\ Instr[1] = This.bb
      /\ This.bb \in BasicBlock
      /\ \A s \in Scanned(This) : s[1] = This.bb /\ s[2] < Instr[2]
  BY <1>1, <1>4, CurrentInstr
<1>6. /\ Len(calls) \in Nat /\ This = calls[1]
      /\ \A k \in 2 .. Len(calls) : StrictlyDominates(calls[k].bb, This.bb)
  BY <1>1, <1>4, CurrentCall DEF AtInstr, Walking
<1>7. PICK x \in 1 .. Len(m_seen) : Dominates(m_seen[x], Instr)
  BY <1>1, <1>4 DEF AlreadySeen, CallsDescend
<1>8. PICK j \in 1 .. Len(calls) : \E s \in Scanned(calls[j]) : m_seen[x] = s /\ IsCheck(s)
  BY <1>1 DEF SeenIsScanned
<1>9. PICK s \in Scanned(calls[j]) : m_seen[x] = s /\ IsCheck(s)
  BY <1>8
<1>10. PICK home \in BasicBlock : s \in Place /\ s \in Left(home) /\ s[1] = home /\ home = calls[j].bb
  BY <1>1, ScannedIsLeft, CallType
<1>11. Covers(s, Instr) /\ s # Instr
  <2>1. CASE j = 1
    <3>1. s[1] = Instr[1] /\ s[2] < Instr[2] /\ s[2] \in Nat
      BY <1>5, <1>6, <1>10, <2>1 DEF Place
    <3> QED BY <1>4, <1>7, <1>9, <3>1 DEF Covers, Precedes
  <2>2. CASE j # 1
    <3>1. StrictlyDominates(s[1], Instr[1])
      BY <1>5, <1>6, <1>10, <2>2
    <3>2. s[1] # Instr[1]
      BY <3>1 DEF StrictlyDominates
    <3> QED BY <1>4, <1>7, <1>9, <3>1, <3>2 DEF Covers, Precedes
  <2> QED BY <2>1, <2>2
<1>12. s \in Left(home)'
  BY <1>2, <1>10, <1>11
<1>13. ASSUME NEW b \in BasicBlock, NEW c \in ErasedFrom(b)'
       PROVE  \E a \in BasicBlock : \E t \in Left(a)' : Covers(t, c)
  <2>1. c \in InstrsOf(b) /\ c \notin Left(b)'
    BY <1>3, <1>13 DEF ErasedFrom
  <2>2. CASE c = Instr
    BY <1>10, <1>11, <1>12, <2>2
  <2>3. CASE c # Instr
    <3>1. c \in ErasedFrom(b) /\ c \in Place
      BY <1>1, <1>2, <2>1, <2>3, LeftArePlaces DEF ErasedFrom
    <3>2. PICK a \in BasicBlock : \E t \in Left(a) : Covers(t, c)
      BY <1>1, <3>1 DEF ErasedHaveCover
    <3>3. PICK t \in Left(a) : Covers(t, c)
      BY <3>2
    <3>4. CASE t # Instr
      BY <1>2, <3>3, <3>4
    <3>5. CASE t = Instr
      <4>1. Covers(s, c)
        BY <1>1, <1>5, <1>10, <1>11, <3>1, <3>3, <3>5, CoversTransitive
      <4> QED BY <1>10, <1>12, <4>1
    <3> QED BY <3>4, <3>5
  <2> QED BY <2>2, <2>3
<1> QED BY <1>3, <1>13 DEF ErasedHaveCover

\* The rest of the invariant is about what stays.
LEMMA EraseKeepsCalls ==
  ASSUME WalkIInv, EraseCheck
  PROVE  CallsDescend' /\ SeenIsScanned' /\ CleanSoFar'
<1>1. TreeIsKnown /\ CodeKept /\ CallsDescend /\ SeenIsScanned /\ CleanSoFar
  BY DEF WalkIInv
<1>2. /\ UNCHANGED <<m_succs, dom_tree, code, calls, m_seen>>
      /\ \A b \in BasicBlock : b # This.bb => m_instrs'[b] = m_instrs[b]
      /\ m_instrs'[This.bb] = Erase(m_instrs[This.bb], This.instr_it)
      /\ \A b \in BasicBlock : Left(b)' \subseteq Left(b)
      /\ \A k \in 1 .. Len(calls) : Scanned(calls[k])' = Scanned(calls[k])
  BY <1>1, EraseChanges
<1>3. /\ \A i : IsCheck(i)' <=> IsCheck(i)
      /\ \A s, c : Covers(s, c)' <=> Covers(s, c)
      /\ \A a, b : StrictlyDominates(a, b)' <=> StrictlyDominates(a, b)
  BY <1>2, CoversStays
<1>4. /\ Len(calls) \in Nat /\ This = calls[1] /\ AtInstr
      /\ \A k \in 2 .. Len(calls) : StrictlyDominates(calls[k].bb, This.bb)
  BY <1>1, CurrentCall DEF AtInstr, Walking, EraseCheck
<1>5. ASSUME NEW k \in 2 .. Len(calls)
      PROVE  m_instrs'[calls[k].bb] = m_instrs[calls[k].bb]
  <2>1. k \in 1 .. Len(calls) /\ StrictlyDominates(calls[k].bb, This.bb)
    BY <1>4
  <2>2. calls[k].bb \in BasicBlock /\ calls[k].bb # This.bb
    BY <1>1, <2>1, CallType DEF StrictlyDominates
  <2> QED BY <1>2, <2>2
<1>6. ASSUME NEW j \in 1 .. Len(calls) PROVE InBounds(j)'
  <2>1. InBounds(j)
    BY <1>1 DEF CallsDescend
  <2>2. CASE j = 1
    <3>1. /\ This.instr_it \in 1 .. Len(m_instrs[This.bb])
          /\ m_instrs[This.bb] \in Seq(Nat) /\ Len(m_instrs[This.bb]) \in Nat
      BY <1>1, <1>4, CurrentInstr, SMTT(30) DEF CodeKept
    <3>2. Len(m_instrs'[This.bb]) = Len(m_instrs[This.bb]) - 1
      BY <1>2, <3>1, EraseProperties
    <3>3. This.instr_it <= Len(m_instrs'[This.bb]) + 1
      BY <3>1, <3>2
    <3> QED BY <1>2, <1>4, <2>1, <2>2, <3>3 DEF InBounds
  <2>3. CASE j # 1
    BY <1>2, <1>4, <1>5, <2>1, <2>3, SMTT(30) DEF InBounds
  <2> QED BY <2>2, <2>3
<1>7. ASSUME NEW j \in 1 .. Len(calls), NEW k \in j + 1 .. Len(calls) PROVE Below(k, j)'
  <2>1. k \in 2 .. Len(calls) /\ Below(k, j)
    BY <1>1, <1>4 DEF CallsDescend
  <2> QED BY <1>2, <1>3, <1>5, <2>1 DEF Below
<1>8. CallsDescend'
  BY <1>1, <1>2, <1>6, <1>7 DEF CallsDescend
<1>9. SeenIsScanned'
  BY SMTT(30), <1>1, <1>2, <1>3 DEF SeenIsScanned
<1>10. /\ \A a, b \in BasicBlock : Clean(a, b) => Clean(a, b)'
       /\ \A a \in BasicBlock : Finished(a) => Finished(a)'
  BY <1>2, CleanStays
<1>11. \A a, b : PassedThrough(a, b)' => PassedThrough(a, b)
  BY <1>2 DEF PassedThrough
<1>12. \A k \in 1 .. Len(calls) : \A j \in 1 .. k :
         \A s \in Scanned(calls[k])', c \in Scanned(calls[j])' : ~ Covers(s, c)
  BY <1>1, <1>2, <1>4, SMTT(30) DEF CleanSoFar
<1>13. CleanSoFar'
  BY SMTT(30), <1>1, <1>2, <1>3, <1>10, <1>11, <1>12 DEF CleanSoFar
<1> QED BY <1>8, <1>9, <1>13

(***************************************************************************)
(* The running call visits a child.                                        *)
(***************************************************************************)

\* What the step changes: a call for the child is on top of the others.
LEMMA VisitChanges ==
  ASSUME TreeIsKnown, CodeKept, CallsDescend, VisitChild
  PROVE  /\ UNCHANGED <<m_succs, dom_tree, code, m_instrs, m_seen>>
         /\ Len(calls) \in Nat \ {0} /\ This = calls[1]
         /\ This.child \in 1 .. Len(dom_tree[This.bb])
         /\ dom_tree[This.bb][This.child] \in BasicBlock
         /\ StrictlyDominates(This.bb, dom_tree[This.bb][This.child])
         /\ This.instr_it > Len(m_instrs[This.bb])
         /\ calls' \in Seq(CheckFrame) /\ Len(calls') = Len(calls) + 1
         /\ calls'[1] = [bb |-> dom_tree[This.bb][This.child], instr_it |-> 1,
                         child |-> 1, seen_before |-> Len(m_seen)]
         /\ calls'[2].child = This.child + 1
         /\ \A k \in 1 .. Len(calls) :
              /\ calls'[k + 1].bb = calls[k].bb
              /\ calls'[k + 1].instr_it = calls[k].instr_it
              /\ calls'[k + 1].seen_before = calls[k].seen_before
              /\ k # 1 => calls'[k + 1].child = calls[k].child
<1> DEFINE b == dom_tree[This.bb][This.child]
           f == [This EXCEPT !.child = @ + 1]
           g == [bb |-> b, instr_it |-> 1, child |-> 1, seen_before |-> Len(m_seen)]
<1>1. /\ UNCHANGED <<m_succs, dom_tree, code, m_instrs, m_seen>>
      /\ This.child <= Len(Children) /\ This.instr_it > Len(m_instrs[This.bb])
      /\ calls' = <<[bb |-> Children[This.child], instr_it |-> 1, child |-> 1,
                     seen_before |-> Len(m_seen)]>> \o With(f)
      /\ calls # <<>>
  BY DEF VisitChild, vars, domVars, CallFor, AtChildren, Walking
<1>2. /\ Len(calls) \in Nat \ {0} /\ 1 \in 1 .. Len(calls) /\ This = calls[1]
      /\ This \in CheckFrame
  BY <1>1, CurrentCall
<1>3. /\ This.bb \in BasicBlock /\ This.child \in Nat \ {0}
      /\ Children = dom_tree[This.bb]
  BY <1>2, CallType DEF Children, TreeIsKnown
<1>4. Len(dom_tree[This.bb]) \in Nat /\ This.child \in 1 .. Len(dom_tree[This.bb])
  BY <1>1, <1>3, ChildIsDominated
<1>5. b \in BasicBlock /\ StrictlyDominates(This.bb, b)
  BY <1>3, <1>4, ChildIsDominated
<1>6. /\ f \in CheckFrame /\ f.bb = This.bb /\ f.child = This.child + 1
      /\ f.instr_it = This.instr_it /\ f.seen_before = This.seen_before
  BY <1>2 DEF CheckFrame
<1>7. Len(m_seen) \in Nat
  BY DEF CallsDescend
<1>8. g \in CheckFrame
  BY <1>5, <1>7 DEF CheckFrame
<1>9. calls' = <<g>> \o With(f)
  BY <1>1, <1>3
<1> HIDE DEF b, f, g
<1>10. /\ With(f) \in Seq(CheckFrame) /\ Len(With(f)) = Len(calls) /\ With(f)[1] = f
       /\ \A k \in 2 .. Len(calls) : With(f)[k] = calls[k]
  BY <1>1, <1>6, OnlyTopChanges DEF CallsDescend
<1>11. /\ calls' \in Seq(CheckFrame) /\ Len(calls') = Len(calls) + 1 /\ calls'[1] = g
       /\ \A k \in 1 .. Len(calls) : calls'[k + 1] = With(f)[k]
  BY <1>8, <1>9, <1>10, PushProperties
<1>12. calls'[2] = f
  <2>1. 1 + 1 = 2
    OBVIOUS
  <2> QED BY <1>2, <1>10, <1>11, <2>1
<1>13. \A k \in 1 .. Len(calls) :
         /\ calls'[k + 1].bb = calls[k].bb
         /\ calls'[k + 1].instr_it = calls[k].instr_it
         /\ calls'[k + 1].seen_before = calls[k].seen_before
         /\ k # 1 => calls'[k + 1].child = calls[k].child
  <2> TAKE k \in 1 .. Len(calls)
  <2>1. CASE k = 1
    BY <1>2, <1>6, <1>10, <1>11, <2>1
  <2>2. CASE k # 1
    <3>1. k \in 2 .. Len(calls)
      BY <1>2, <2>2
    <3> QED BY <1>10, <1>11, <3>1
  <2> QED BY <2>1, <2>2
<1> QED BY <1>1, <1>2, <1>4, <1>5, <1>6, <1>11, <1>12, <1>13 DEF b, g

\* The chain of dominators grows by the child.
LEMMA VisitDescends ==
  ASSUME WalkIInv, VisitChild
  PROVE  CodeKept' /\ CallsDescend'
<1>1. TreeIsKnown /\ CodeKept /\ CallsDescend /\ m_succs \in BuiltGraphs
  BY DEF WalkIInv, TreeIsKnown
<1> DEFINE b == dom_tree[This.bb][This.child]
<1>2. /\ UNCHANGED <<m_succs, dom_tree, code, m_instrs, m_seen>>
      /\ Len(calls) \in Nat \ {0} /\ This = calls[1]
      /\ This.child \in 1 .. Len(dom_tree[This.bb])
      /\ b \in BasicBlock
      /\ StrictlyDominates(This.bb, b)
      /\ This.instr_it > Len(m_instrs[This.bb])
      /\ calls' \in Seq(CheckFrame) /\ Len(calls') = Len(calls) + 1
      /\ calls'[1] = [bb |-> b, instr_it |-> 1, child |-> 1, seen_before |-> Len(m_seen)]
      /\ calls'[2].child = This.child + 1
      /\ \A k \in 1 .. Len(calls) :
           /\ calls'[k + 1].bb = calls[k].bb
           /\ calls'[k + 1].instr_it = calls[k].instr_it
           /\ calls'[k + 1].seen_before = calls[k].seen_before
           /\ k # 1 => calls'[k + 1].child = calls[k].child
  BY <1>1, VisitChanges
<1> HIDE DEF b
<1>3. \A x, y : StrictlyDominates(x, y)' <=> StrictlyDominates(x, y)
  BY <1>2, CoversStays
<1>4. CodeKept'
  BY <1>1, <1>2 DEF CodeKept, Reachable
<1>5. 1 \in 1 .. Len(calls) /\ Len(m_seen) \in Nat
  BY <1>1, <1>2 DEF CallsDescend
<1>6. InBounds(1)'
  <2>1. Len(m_instrs[b]) \in Nat /\ Len(dom_tree[b]) \in Nat
    <3>1. m_instrs[b] \in Seq(Nat)
      BY <1>1, <1>2 DEF CodeKept
    <3> QED BY <1>1, <1>2, <3>1, ChildIsDominated
  <2>2. /\ calls'[1].bb = b /\ calls'[1].instr_it = 1 /\ calls'[1].child = 1
        /\ calls'[1].seen_before = Len(m_seen)
    BY <1>2
  <2>3. 1 # Len(calls')
    BY <1>2
  <2> QED BY <1>2, <1>5, <2>1, <2>2, <2>3, SMTT(30) DEF InBounds
<1>7. ASSUME NEW j \in 1 .. Len(calls) PROVE InBounds(j + 1)'
  <2>1. InBounds(j) /\ (j + 1 = Len(calls') => j = Len(calls))
    BY <1>1, <1>2 DEF CallsDescend
  <2>2. calls'[j + 1].child <= Len(dom_tree[calls[j].bb]) + 1
    <3>1. CASE j = 1
      <4>1. Len(dom_tree[This.bb]) \in Nat
        BY <1>1, <1>2, <1>5, CallType, ChildIsDominated
      <4>2. This.child + 1 <= Len(dom_tree[This.bb]) + 1
        BY <1>2, <4>1, SMTT(30)
      <4>3. j + 1 = 2
        BY <3>1
      <4> QED BY <1>2, <3>1, <4>2, <4>3
    <3>2. CASE j # 1
      BY <1>2, <2>1, <3>2 DEF InBounds
    <3> QED BY <3>1, <3>2
  <2> QED BY <1>2, <2>1, <2>2 DEF InBounds
<1>8. ASSUME NEW k \in 1 .. Len(calls) PROVE Below(k + 1, 1)'
  <2>1. calls[k].bb \in BasicBlock /\ This.bb \in BasicBlock /\ calls[k].seen_before <= Len(m_seen)
    BY <1>1, <1>2, <1>5, CallType, SMTT(30)
  <2>2. /\ StrictlyDominates(calls[k].bb, b)
        /\ calls[k].instr_it > Len(m_instrs[calls[k].bb])
    <3>1. CASE k = 1
      BY <1>2, <3>1
    <3>2. CASE k # 1
      <4>1. k \in 1 + 1 .. Len(calls)
        BY <1>2, <3>2
      <4>2. Below(k, 1)
        BY <1>1, <1>5, <4>1 DEF CallsDescend
      <4>3. StrictlyDominates(calls[k].bb, b)
        BY <1>1, <1>2, <2>1, <4>2, StrictOrder DEF Below, CodeKept
      <4> QED BY <4>2, <4>3 DEF Below
    <3> QED BY <3>1, <3>2
  <2>3. k + 1 = 1 + 1 =>
          calls'[k + 1].child > 1 /\ dom_tree[calls[k].bb][calls'[k + 1].child - 1] = b
    <3> SUFFICES ASSUME k = 1
                 PROVE  calls'[2].child > 1 /\ dom_tree[This.bb][calls'[2].child - 1] = b
      BY <1>2
    <3>1. This.child \in Nat \ {0}
      BY <1>1, <1>2, <1>5, CallType
    <3>2. (This.child + 1) - 1 = This.child /\ This.child + 1 > 1
      BY <3>1
    <3> QED BY <1>2, <3>2 DEF b
  <2>4. calls'[1].bb = b /\ calls'[1].seen_before = Len(m_seen)
    BY <1>2
  <2> QED BY <1>2, <1>3, <2>1, <2>2, <2>3, <2>4 DEF Below
<1>9. ASSUME NEW j \in 1 .. Len(calls), NEW k \in j + 1 .. Len(calls)
      PROVE  Below(k + 1, j + 1)'
  <2>1. Below(k, j) /\ k \in 1 .. Len(calls) /\ k # 1 /\ (k + 1 = (j + 1) + 1 => k = j + 1)
    BY <1>1, <1>2 DEF CallsDescend
  <2> QED BY <1>2, <1>3, <2>1 DEF Below
<1>10. ASSUME NEW j \in 1 .. Len(calls')
       PROVE  InBounds(j)' /\ \A k \in j + 1 .. Len(calls') : Below(k, j)'
  <2>1. CASE j = 1
    <3>1. \A k \in j + 1 .. Len(calls') : k - 1 \in 1 .. Len(calls) /\ (k - 1) + 1 = k
      BY <1>2, <2>1
    <3>2. ASSUME NEW k \in j + 1 .. Len(calls') PROVE Below(k, j)'
      <4>1. Below((k - 1) + 1, 1)'
        BY <1>8, <3>1
      <4> QED BY <2>1, <3>1, <4>1
    <3> QED BY <1>6, <2>1, <3>2
  <2>2. CASE j # 1
    <3>1. j - 1 \in 1 .. Len(calls) /\ (j - 1) + 1 = j
      BY <1>2, <2>2
    <3>2. InBounds((j - 1) + 1)'
      BY <1>7, <3>1
    <3>3. ASSUME NEW k \in j + 1 .. Len(calls') PROVE Below(k, j)'
      <4>1. k - 1 \in (j - 1) + 1 .. Len(calls) /\ (k - 1) + 1 = k
        BY <1>2
      <4>2. Below((k - 1) + 1, (j - 1) + 1)'
        BY <1>9, <3>1, <4>1
      <4> QED BY <3>1, <4>1, <4>2
    <3> QED BY <3>1, <3>2, <3>3
  <2> QED BY <2>1, <2>2
<1>11. m_seen' \in Seq(BasicBlock \X Nat)
  BY <1>1, <1>2 DEF CallsDescend
<1> QED BY <1>2, <1>4, <1>10, <1>11 DEF CallsDescend

\* The new call has looked at nothing, the others have been through the children
\* they had been through.
LEMMA VisitSeesNothing ==
  ASSUME WalkIInv, VisitChild
  PROVE  SeenIsScanned' /\ CleanSoFar'
<1>1. TreeIsKnown /\ CodeKept /\ CallsDescend /\ SeenIsScanned /\ CleanSoFar
  BY DEF WalkIInv
<1>2. /\ UNCHANGED <<m_succs, dom_tree, code, m_instrs, m_seen>>
      /\ Len(calls) \in Nat \ {0} /\ This = calls[1]
      /\ calls' \in Seq(CheckFrame) /\ Len(calls') = Len(calls) + 1
      /\ calls'[1].instr_it = 1 /\ calls'[1].child = 1
      /\ calls'[1].seen_before = Len(m_seen)
      /\ calls'[2].child = This.child + 1
      /\ \A k \in 1 .. Len(calls) :
           /\ calls'[k + 1].bb = calls[k].bb
           /\ calls'[k + 1].instr_it = calls[k].instr_it
           /\ calls'[k + 1].seen_before = calls[k].seen_before
           /\ k # 1 => calls'[k + 1].child = calls[k].child
  BY <1>1, VisitChanges
<1>3. /\ \A i : IsCheck(i)' <=> IsCheck(i)
      /\ \A s, c : Covers(s, c)' <=> Covers(s, c)
  BY <1>2, CoversStays
<1>4. /\ \A k \in 1 .. Len(calls') : k = 1 \/ (k - 1 \in 1 .. Len(calls) /\ (k - 1) + 1 = k)
      /\ \A k \in 1 .. Len(calls) : k + 1 \in 1 .. Len(calls')
  BY <1>2
<1>5. \A k \in 1 .. Len(calls') : k = 1 => Scanned(calls[k])' = {}
  BY <1>2 DEF Scanned
<1>6. \A k \in 1 .. Len(calls') : k # 1 => Scanned(calls[k])' = Scanned(calls[k - 1])
  <2> TAKE k \in 1 .. Len(calls')
  <2> HAVE k # 1
  <2>1. calls'[k].bb = calls[k - 1].bb /\ calls'[k].instr_it = calls[k - 1].instr_it
    BY <1>2, <1>4
  <2> QED BY <1>2, <2>1 DEF Scanned
<1>7. ASSUME NEW k \in 1 .. Len(m_seen)
      PROVE  \E j \in 1 .. Len(calls') :
               /\ calls'[j].seen_before < k
               /\ \E s \in Scanned(calls[j])' : m_seen[k] = s /\ IsCheck(s)
  <2>1. PICK j \in 1 .. Len(calls) :
          /\ calls[j].seen_before < k
          /\ \E s \in Scanned(calls[j]) : m_seen[k] = s /\ IsCheck(s)
    BY <1>1 DEF SeenIsScanned
  <2>2. j + 1 \in 1 .. Len(calls') /\ j + 1 # 1 /\ (j + 1) - 1 = j
    BY <1>4
  <2>3. Scanned(calls[j + 1])' = Scanned(calls[j])
    BY <1>6, <2>2
  <2> QED BY <1>2, <2>1, <2>2, <2>3
<1>8. ASSUME NEW j \in 1 .. Len(calls'), NEW s \in Scanned(calls[j])', IsCheck(s)
      PROVE  \E k \in 1 .. Len(m_seen) :
               m_seen[k] = s /\ \A i \in 1 .. j - 1 : k <= calls'[i].seen_before
  <2>1. j # 1 /\ j - 1 \in 1 .. Len(calls) /\ s \in Scanned(calls[j - 1])
    BY <1>4, <1>5, <1>6
  <2>2. PICK k \in 1 .. Len(m_seen) :
          m_seen[k] = s /\ \A i \in 1 .. (j - 1) - 1 : k <= calls[i].seen_before
    BY <1>1, <1>8, <2>1 DEF SeenIsScanned
  <2>3. ASSUME NEW i \in 1 .. j - 1 PROVE k <= calls'[i].seen_before
    <3>1. CASE i = 1
      BY <1>2, <3>1
    <3>2. CASE i # 1
      <4>1. i - 1 \in 1 .. (j - 1) - 1 /\ i - 1 \in 1 .. Len(calls) /\ (i - 1) + 1 = i
        BY <2>1, <3>2
      <4> QED BY <1>2, <2>2, <4>1, ZenonT(60)
    <3> QED BY <3>1, <3>2
  <2> QED BY <2>2, <2>3
<1>9. SeenIsScanned'
  <2>1. \A k \in 1 .. Len(m_seen') : \E j \in 1 .. Len(calls') :
          /\ calls'[j].seen_before < k
          /\ \E s \in Scanned(calls[j])' : m_seen'[k] = s /\ IsCheck(s)'
    BY <1>2, <1>3, <1>7
  <2>2. \A j \in 1 .. Len(calls') : \A s \in Scanned(calls[j])' :
          IsCheck(s)' => \E k \in 1 .. Len(m_seen') :
            m_seen'[k] = s /\ \A i \in 1 .. j - 1 : k <= calls'[i].seen_before
    BY <1>2, <1>3, <1>8
  <2> QED BY <2>1, <2>2 DEF SeenIsScanned
<1>10. ASSUME NEW k \in 1 .. Len(calls'), NEW j \in 1 .. k,
              NEW s \in Scanned(calls[k])', NEW c \in Scanned(calls[j])'
       PROVE  ~ Covers(s, c)
  <2>1. j \in 1 .. Len(calls') /\ j # 1 /\ k # 1
    BY <1>5
  <2>2. k - 1 \in 1 .. Len(calls) /\ j - 1 \in 1 .. k - 1
    BY <1>4, <2>1
  <2>3. s \in Scanned(calls[k - 1]) /\ c \in Scanned(calls[j - 1])
    BY <1>6, <2>1
  <2> QED BY <1>1, <2>2, <2>3 DEF CleanSoFar
<1>11. ASSUME NEW a, NEW b, PassedThrough(a, b)' PROVE PassedThrough(a, b)
  <2>1. PICK j \in 1 .. Len(calls') :
          /\ calls'[j].bb = a
          /\ \E x \in 1 .. (calls'[j].child - 1) - (IF j = 1 THEN 0 ELSE 1) : dom_tree[a][x] = b
    BY <1>2, <1>11 DEF PassedThrough
  <2>2. PICK x \in 1 .. (calls'[j].child - 1) - (IF j = 1 THEN 0 ELSE 1) : dom_tree[a][x] = b
    BY <2>1
  <2>3. j # 1 /\ j - 1 \in 1 .. Len(calls) /\ (j - 1) + 1 = j
    BY <1>2, <1>4, <2>2
  <2>4. x \in 1 .. (calls[j - 1].child - 1) - (IF j - 1 = 1 THEN 0 ELSE 1)
    <3>1. CASE j - 1 = 1
      <4>1. j = 2 /\ calls[j - 1].child = This.child /\ This.child \in Nat
        BY <1>1, <1>2, <2>3, <3>1, CallType
      <4> QED BY <1>2, <2>2, <3>1, <4>1
    <3>2. CASE j - 1 # 1
      <4>1. calls'[j].child = calls[j - 1].child
        BY <1>2, <2>3, <3>2
      <4> QED BY <2>2, <2>3, <3>2, <4>1
    <3> QED BY <3>1, <3>2
  <2>5. calls[j - 1].bb = a
    BY <1>2, <2>1, <2>3
  <2> QED BY <2>2, <2>3, <2>4, <2>5 DEF PassedThrough
<1>12. /\ \A a, b \in BasicBlock : Clean(a, b) => Clean(a, b)'
       /\ \A a \in BasicBlock : Finished(a) => Finished(a)'
  <2>1. \A b \in BasicBlock : Left(b)' \subseteq Left(b)
    BY <1>2 DEF Left
  <2> QED BY <1>2, <2>1, CleanStays
<1>13. calls' # <<>>
  BY <1>2
<1>14. CleanSoFar'
  BY <1>1, <1>3, <1>10, <1>11, <1>12, <1>13 DEF CleanSoFar
<1> QED BY <1>9, <1>14

(***************************************************************************)
(* The running call returns.                                               *)
(***************************************************************************)

\* What the step changes: the call is gone, and so is what it found.
LEMMA ReturnChanges ==
  ASSUME TreeIsKnown, CodeKept, CallsDescend, ReturnFromBlock
  PROVE  /\ UNCHANGED <<m_succs, dom_tree, code, m_instrs>>
         /\ Len(calls) \in Nat \ {0} /\ This = calls[1]
         /\ This.bb \in BasicBlock
         /\ Scanned(This) = Left(This.bb)
         /\ This.child = Len(dom_tree[This.bb]) + 1
         /\ calls' \in Seq(CheckFrame) /\ Len(calls') \in Nat /\ Len(calls) = Len(calls') + 1
         /\ \A k \in 1 .. Len(calls') : calls'[k] = calls[k + 1]
         /\ m_seen' \in Seq(BasicBlock \X Nat)
         /\ This.seen_before \in 0 .. Len(m_seen) /\ Len(m_seen) \in Nat
         /\ Len(m_seen') = This.seen_before
         /\ \A k \in 1 .. This.seen_before : m_seen'[k] = m_seen[k]
<1>1. /\ UNCHANGED <<m_succs, dom_tree, code, m_instrs>>
      /\ This.child > Len(Children) /\ This.instr_it > Len(m_instrs[This.bb])
      /\ calls' = Tail(calls) /\ calls # <<>> /\ calls \in Seq(CheckFrame)
      /\ m_seen' = SubSeq(m_seen, 1, This.seen_before) /\ m_seen \in Seq(BasicBlock \X Nat)
  BY DEF ReturnFromBlock, vars, domVars, AtChildren, Walking, Resized, CallsDescend
<1>2. Len(calls) \in Nat \ {0} /\ 1 \in 1 .. Len(calls) /\ This = calls[1]
  BY <1>1, CurrentCall
<1>3. /\ This.bb \in BasicBlock /\ Children = dom_tree[This.bb]
      /\ This.child \in 1 .. Len(dom_tree[This.bb]) + 1
      /\ This.seen_before \in 0 .. Len(m_seen)
  BY <1>2, CallType DEF Children, TreeIsKnown
<1>4. This.child = Len(dom_tree[This.bb]) + 1
  <2>1. Len(dom_tree[This.bb]) \in Nat
    BY <1>3, ChildIsDominated
  <2>2. This.child > Len(dom_tree[This.bb])
    BY <1>1, <1>3
  <2> QED BY <1>3, <2>1, <2>2
<1>5. Scanned(This) = Left(This.bb)
  BY <1>1, <1>2, ScannedIsLeft
<1>6. /\ calls' \in Seq(CheckFrame) /\ Len(calls') \in Nat /\ Len(calls) = Len(calls') + 1
      /\ \A k \in 1 .. Len(calls') : calls'[k] = calls[k + 1]
  BY <1>1, PopProperties
<1>7. /\ m_seen' \in Seq(BasicBlock \X Nat) /\ Len(m_seen) \in Nat
      /\ Len(m_seen') = This.seen_before
      /\ \A k \in 1 .. This.seen_before : m_seen'[k] = m_seen[k]
  BY <1>1, <1>3, PrefixProperties, SMTT(30)
<1> QED BY <1>1, <1>2, <1>3, <1>4, <1>5, <1>6, <1>7

\* The chain of dominators without its last block, and what is seen in it.
LEMMA ReturnDescends ==
  ASSUME WalkIInv, ReturnFromBlock
  PROVE  CodeKept' /\ CallsDescend' /\ SeenIsScanned'
<1>1. TreeIsKnown /\ CodeKept /\ CallsDescend /\ SeenIsScanned
  BY DEF WalkIInv
<1>2. /\ UNCHANGED <<m_succs, dom_tree, code, m_instrs>>
      /\ Len(calls) \in Nat \ {0} /\ This = calls[1]
      /\ calls' \in Seq(CheckFrame) /\ Len(calls') \in Nat /\ Len(calls) = Len(calls') + 1
      /\ \A k \in 1 .. Len(calls') : calls'[k] = calls[k + 1]
      /\ m_seen' \in Seq(BasicBlock \X Nat)
      /\ This.seen_before \in 0 .. Len(m_seen) /\ Len(m_seen) \in Nat
      /\ Len(m_seen') = This.seen_before
      /\ \A k \in 1 .. This.seen_before : m_seen'[k] = m_seen[k]
  BY <1>1, ReturnChanges
<1>3. /\ \A i : IsCheck(i)' <=> IsCheck(i)
      /\ \A x, y : StrictlyDominates(x, y)' <=> StrictlyDominates(x, y)
  BY <1>2, CoversStays
<1>4. CodeKept'
  BY <1>1, <1>2 DEF CodeKept, Reachable
<1>5. /\ \A k \in 1 .. Len(calls') : k + 1 \in 1 .. Len(calls) /\ k + 1 \in 1 + 1 .. Len(calls)
      /\ \A k \in 1 .. Len(calls) :
           k = 1 \/ (k - 1 \in 1 .. Len(calls') /\ (k - 1) + 1 = k)
      /\ 1 \in 1 .. Len(calls)
  BY <1>2
<1>6. ASSUME NEW j \in 1 .. Len(calls') PROVE InBounds(j)'
  <2>1. InBounds(j + 1) /\ Below(j + 1, 1)
    BY <1>1, <1>5 DEF CallsDescend
  <2>2. j = Len(calls') => j + 1 = Len(calls)
    BY <1>2
  <2>3. calls'[j].seen_before <= Len(m_seen')
    BY <1>2, <2>1 DEF Below
  <2> QED BY <1>2, <2>1, <2>2, <2>3 DEF InBounds
<1>7. ASSUME NEW j \in 1 .. Len(calls'), NEW k \in j + 1 .. Len(calls') PROVE Below(k, j)'
  <2>1. k \in 1 .. Len(calls') /\ k + 1 \in (j + 1) + 1 .. Len(calls)
    BY <1>2
  <2>2. Below(k + 1, j + 1) /\ (k = j + 1 => k + 1 = (j + 1) + 1)
    BY <1>1, <1>5, <2>1 DEF CallsDescend
  <2> QED BY <1>2, <1>3, <2>1, <2>2 DEF Below
<1>8. CallsDescend'
  BY <1>2, <1>6, <1>7 DEF CallsDescend
<1>9. \A k \in 1 .. Len(calls') : Scanned(calls[k])' = Scanned(calls[k + 1])
  BY SMTT(30), <1>2 DEF Scanned
<1>10. \A k \in 1 .. Len(m_seen') : k \in 1 .. Len(m_seen) /\ m_seen'[k] = m_seen[k]
  BY SMTT(30), <1>2
<1>11. ASSUME NEW k \in 1 .. Len(m_seen')
       PROVE  \E j \in 1 .. Len(calls') :
                /\ calls'[j].seen_before < k
                /\ \E s \in Scanned(calls[j])' : m_seen'[k] = s /\ IsCheck(s)
  <2>1. PICK j \in 1 .. Len(calls) :
          /\ calls[j].seen_before < k
          /\ \E s \in Scanned(calls[j]) : m_seen[k] = s /\ IsCheck(s)
    BY <1>1, <1>10 DEF SeenIsScanned
  <2>2. j # 1
    BY <1>2, <2>1
  <2>3. j - 1 \in 1 .. Len(calls') /\ (j - 1) + 1 = j
    BY <1>5, <2>2
  <2>4. Scanned(calls[j - 1])' = Scanned(calls[j]) /\ calls'[j - 1] = calls[j]
    BY <1>2, <1>9, <2>3
  <2> QED BY <1>10, <2>1, <2>3, <2>4
<1>12. ASSUME NEW j \in 1 .. Len(calls'), NEW s \in Scanned(calls[j])', IsCheck(s)
       PROVE  \E k \in 1 .. Len(m_seen') :
                m_seen'[k] = s /\ \A i \in 1 .. j - 1 : k <= calls'[i].seen_before
  <2>1. PICK k \in 1 .. Len(m_seen) :
          m_seen[k] = s /\ \A i \in 1 .. (j + 1) - 1 : k <= calls[i].seen_before
    BY <1>1, <1>5, <1>9, <1>12 DEF SeenIsScanned
  <2>2. 1 \in 1 .. (j + 1) - 1 /\ \A i \in 1 .. j - 1 : i + 1 \in 1 .. (j + 1) - 1 /\ i \in 1 .. Len(calls')
    BY <1>2
  <2>3. k \in 1 .. This.seen_before
    BY <1>2, <2>1, <2>2
  <2> QED BY <1>2, <2>1, <2>2, <2>3
<1>13. SeenIsScanned'
  <2>1. \A k \in 1 .. Len(m_seen') : \E j \in 1 .. Len(calls') :
          /\ calls'[j].seen_before < k
          /\ \E s \in Scanned(calls[j])' : m_seen'[k] = s /\ IsCheck(s)'
    BY <1>3, <1>11
  <2>2. \A j \in 1 .. Len(calls') : \A s \in Scanned(calls[j])' :
          IsCheck(s)' => \E k \in 1 .. Len(m_seen') :
            m_seen'[k] = s /\ \A i \in 1 .. j - 1 : k <= calls'[i].seen_before
    BY <1>3, <1>12
  <2> QED BY <2>1, <2>2 DEF SeenIsScanned
<1> QED BY <1>4, <1>8, <1>13

\* Nothing is left behind the checks of a block from which the running call
\* returns: neither in the block, nor in those it dominates.
LEMMA ReturnFinishes ==
  ASSUME WalkIInv, ReturnFromBlock
  PROVE  Finished(This.bb)
<1>1. TreeIsKnown /\ CodeKept /\ CallsDescend /\ CleanSoFar
  BY DEF WalkIInv
<1>2. /\ Len(calls) \in Nat \ {0} /\ This = calls[1] /\ This.bb \in BasicBlock
      /\ Scanned(This) = Left(This.bb)
      /\ This.child = Len(dom_tree[This.bb]) + 1
  BY <1>1, ReturnChanges
<1>3. 1 \in 1 .. Len(calls) /\ 1 \in 1 .. 1
  BY <1>2
<1>4. Clean(This.bb, This.bb)
  BY <1>1, <1>2, <1>3 DEF CleanSoFar, Clean
<1>5. ASSUME NEW b \in BasicBlock, StrictlyDominates(This.bb, b) PROVE Clean(This.bb, b)
  <2>1. PICK x \in 1 .. Len(dom_tree[This.bb]) : dom_tree[This.bb][x] = b
    BY <1>1, <1>2, <1>5, ChildIsDominated
  <2>2. Len(dom_tree[This.bb]) \in Nat
    BY <1>1, <1>2, ChildIsDominated
  <2>3. x \in 1 .. (calls[1].child - 1) - (IF 1 = 1 THEN 0 ELSE 1)
    BY <1>2, <2>2
  <2>4. PassedThrough(This.bb, b)
    BY <1>2, <1>3, <2>1, <2>3 DEF PassedThrough
  <2> QED BY <1>1, <1>2, <2>4 DEF CleanSoFar
<1>6. ASSUME NEW b \in BasicBlock, b # This.bb, ~ StrictlyDominates(This.bb, b)
      PROVE  Clean(This.bb, b)
  <2> SUFFICES ASSUME NEW s \in Left(This.bb), NEW c \in Left(b) PROVE ~ Covers(s, c)
    BY DEF Clean
  <2>1. s[1] = This.bb /\ c[1] = b
    BY DEF Left
  <2> QED BY <1>6, <2>1 DEF Covers, Precedes
<1> QED BY <1>4, <1>5, <1>6 DEF Finished

\* So the caller has been through this child, and in the end nothing is left
\* behind any check.
LEMMA ReturnCleans ==
  ASSUME WalkIInv, ReturnFromBlock
  PROVE  CleanSoFar'
<1>1. TreeIsKnown /\ CodeKept /\ CallsDescend /\ CleanSoFar
  BY DEF WalkIInv
<1>2. /\ UNCHANGED <<m_succs, dom_tree, code, m_instrs>>
      /\ Len(calls) \in Nat \ {0} /\ This = calls[1] /\ This.bb \in BasicBlock
      /\ Scanned(This) = Left(This.bb)
      /\ This.child = Len(dom_tree[This.bb]) + 1
      /\ calls' \in Seq(CheckFrame) /\ Len(calls') \in Nat /\ Len(calls) = Len(calls') + 1
      /\ \A k \in 1 .. Len(calls') : calls'[k] = calls[k + 1]
  BY <1>1, ReturnChanges
<1>3. Finished(This.bb)
  BY ReturnFinishes
<1>4. \A s, c : Covers(s, c)' <=> Covers(s, c)
  BY <1>2, CoversStays
<1>5. /\ \A k \in 1 .. Len(calls') : k + 1 \in 1 .. Len(calls)
      /\ 1 \in 1 .. Len(calls)
  BY <1>2
<1>6. \A k \in 1 .. Len(calls') : Scanned(calls[k])' = Scanned(calls[k + 1])
  <2> TAKE k \in 1 .. Len(calls')
  <2>1. calls'[k] = calls[k + 1] /\ m_instrs' = m_instrs
    BY <1>2
  <2> QED BY <2>1 DEF Scanned
<1>7. ASSUME NEW k \in 1 .. Len(calls'), NEW j \in 1 .. k,
             NEW s \in Scanned(calls[k])', NEW c \in Scanned(calls[j])'
      PROVE  ~ Covers(s, c)
  <2>1. /\ k + 1 \in 1 .. Len(calls) /\ j + 1 \in 1 .. k + 1
        /\ s \in Scanned(calls[k + 1]) /\ c \in Scanned(calls[j + 1])
    BY <1>5, <1>6, SMTT(30)
  <2> QED BY <1>1, <2>1 DEF CleanSoFar
<1>8. ASSUME NEW a \in BasicBlock, NEW b \in BasicBlock, PassedThrough(a, b)'
      PROVE  Clean(a, b) /\ Finished(b)
  <2>1. PICK j \in 1 .. Len(calls') :
          /\ calls'[j].bb = a
          /\ \E x \in 1 .. (calls'[j].child - 1) - (IF j = 1 THEN 0 ELSE 1) : dom_tree[a][x] = b
    BY <1>2, <1>8 DEF PassedThrough
  <2>2. PICK x \in 1 .. (calls'[j].child - 1) - (IF j = 1 THEN 0 ELSE 1) : dom_tree[a][x] = b
    BY <2>1
  <2>3. j + 1 \in 1 .. Len(calls) /\ calls'[j] = calls[j + 1] /\ j + 1 # 1
    BY <1>2, <1>5
  <2>4. calls[j + 1].child \in Nat
    BY <1>1, <2>3, CallType
  <2>5. CASE x \in 1 .. (calls[j + 1].child - 1) - 1
    <3>1. PassedThrough(a, b)
      BY <2>1, <2>2, <2>3, <2>5 DEF PassedThrough
    <3> QED BY <1>1, <3>1 DEF CleanSoFar
  <2>6. CASE x \notin 1 .. (calls[j + 1].child - 1) - 1
    <3>1. j = 1 /\ x = calls[j + 1].child - 1
      BY <2>2, <2>3, <2>4, <2>6, SMTT(30)
    <3>2. 2 \in 1 .. Len(calls) /\ 2 \in 1 + 1 .. Len(calls) /\ 1 \in 1 .. 2 /\ x = calls[2].child - 1
          /\ a = calls[2].bb
      BY <2>1, <2>3, <3>1
    <3>3. Below(2, 1)
      BY <1>1, <1>5, <3>2 DEF CallsDescend
    <3>4. b = This.bb
      BY <1>2, <2>2, <3>2, <3>3 DEF Below
    <3>5. Scanned(calls[2]) = Left(calls[2].bb)
      BY <1>1, <3>2, <3>3, ScannedIsLeft DEF Below
    <3>6. Clean(a, b)
      BY <1>1, <1>2, <3>2, <3>4, <3>5 DEF CleanSoFar, Clean
    <3> QED BY <1>3, <3>4, <3>6
  <2> QED BY <2>5, <2>6
<1>9. ASSUME calls' = <<>>, NEW a \in BasicBlock PROVE Finished(a)
  <2>1. Len(calls) = 1
    BY <1>2, <1>9
  <2>2. This.bb = root
    BY <1>1, <1>2, <1>5, <2>1 DEF CallsDescend, InBounds
  <2>3. CASE a = root
    BY <1>3, <2>2, <2>3
  <2>4. CASE a # root
    <3>1. PICK x \in 1 .. Len(dom_tree[root]) : dom_tree[root][x] = a
      BY <1>1, <2>4, RootFirstOfAll, ChildIsDominated, RootAssumption
    <3>2. Len(dom_tree[root]) \in Nat
      BY <1>1, ChildIsDominated, RootAssumption
    <3>3. x \in 1 .. (calls[1].child - 1) - (IF 1 = 1 THEN 0 ELSE 1)
      BY <1>2, <2>2, <3>2
    <3>4. PassedThrough(root, a)
      BY <1>2, <1>5, <2>2, <3>1, <3>3 DEF PassedThrough
    <3> QED BY <1>1, <3>4, RootAssumption DEF CleanSoFar
  <2> QED BY <2>3, <2>4
<1>10. /\ \A a, b \in BasicBlock : Clean(a, b) => Clean(a, b)'
       /\ \A a \in BasicBlock : Finished(a) => Finished(a)'
  <2>1. \A b \in BasicBlock : Left(b)' \subseteq Left(b)
    BY <1>2 DEF Left
  <2> QED BY <1>2, <2>1, CleanStays
<1> QED BY <1>4, <1>7, <1>8, <1>9, <1>10 DEF CleanSoFar

(***************************************************************************)
(* The invariant.                                                          *)
(***************************************************************************)

\* The walk does not touch what dom computed.
LEMMA WalkLeavesTree ==
  ASSUME DomIInv, phase \in {"return", "walk", "done"}, phase' \in {"return", "walk", "done"},
         UNCHANGED <<vars, blocks, cursor, other, dom_tree>>
  PROVE  DomIInv'
<1>1. UNCHANGED <<m_succs, removed, marked, stack, dfs_vector, pc,
                  blocks, cursor, other, dom_tree>>
  BY DEF vars
<1>2. \A x : CutOff(x)' = CutOff(x)
  BY <1>1 DEF CutOff
<1>3. CallsClean'
  BY <1>1 DEF DomIInv, CallsClean
<1>4. BlocksListed'
  BY <1>1 DEF DomIInv, BlocksListed
<1>5. TreeSoFar'
  BY <1>1, <1>2 DEF DomIInv, TreeSoFar
<1> QED BY <1>3, <1>4, <1>5 DEF DomIInv

\* The invariant holds when apply is called.
LEMMA CheckInitIInv == CheckInit => CheckIInv
<1> SUFFICES ASSUME CheckInit PROVE CheckIInv
  OBVIOUS
<1>1. DomIInv /\ ~ Eliminating
  BY DomInitIInv DEF CheckInit, DomInit, Eliminating
<1> QED BY <1>1 DEF CheckInit, CheckIInv

\* dom runs before the walk.
LEMMA DomStepKeeps == CheckIInv /\ DomStep => CheckIInv'
<1> SUFFICES ASSUME CheckIInv, DomStep PROVE CheckIInv'
  OBVIOUS
<1>1. DomIInv' /\ calls' = calls /\ m_seen' = m_seen
  BY DomNextKeeps DEF CheckIInv, DomStep, checkVars
<1>2. ~ Eliminating /\ ~ Eliminating'
  <2>1. CASE DfsStep
    <3>1. pc # "done" /\ phase' = phase
      BY <2>1 DEF DfsStep, domVars, Next, CallRemoved, Call, IgnoreSuccessor, VisitSuccessor,
                  Return, Unmark, InCall
    <3> QED BY <3>1 DEF CheckIInv, DomIInv, CallsClean, Eliminating
  <2> QED BY <2>1 DEF DomStep, DomNext, Listed, Remove, Restore, Collect, PassOver, Collecting,
                      NextDominator, DomReturn, Eliminating
<1> QED BY <1>1, <1>2 DEF CheckIInv

\* Instructions are a vector of kinds in each block.
LEMMA CodesType == Codes \subseteq [BasicBlock -> Seq(DOMAIN KindOf)]
<1> SUFFICES ASSUME NEW c \in Codes PROVE c \in [BasicBlock -> Seq(DOMAIN KindOf)]
  OBVIOUS
<1>1. PICK len \in {n \in [BasicBlock -> 0 .. MaxInstrs] : Cardinality(Places(n)) = MaxInstrs} :
        c \in {[b \in BasicBlock |-> [k \in 1 .. len[b] |-> kind[<<b, k>>]]] :
                 kind \in [Places(len) -> DOMAIN KindOf]}
  BY DEF Codes
<1>2. PICK kind \in [Places(len) -> DOMAIN KindOf] :
        c = [b \in BasicBlock |-> [k \in 1 .. len[b] |-> kind[<<b, k>>]]]
  BY <1>1
<1>3. ASSUME NEW b \in BasicBlock
      PROVE  [k \in 1 .. len[b] |-> kind[<<b, k>>]] \in Seq(DOMAIN KindOf)
  <2> DEFINE n == len[b]
             code_b == [k \in 1 .. n |-> kind[<<b, k>>]]
  <2>1. n \in 0 .. MaxInstrs /\ n \in Nat
    BY BoundAssumption
  <2>2. ASSUME NEW k \in 1 .. n PROVE kind[<<b, k>>] \in DOMAIN KindOf
    <3>1. <<b, k>> \in Places(len)
      BY <2>1, BoundAssumption DEF Places
    <3> QED BY <3>1
  <2>3. code_b \in [1 .. n -> DOMAIN KindOf]
    BY <2>2
  <2> HIDE DEF n, code_b
  <2>4. code_b \in Seq(DOMAIN KindOf)
    BY <2>1, <2>3
  <2> QED BY <2>4 DEF n, code_b
<1> QED BY <1>2, <1>3

\* The walk begins with all instructions and the call for the root.
LEMMA EliminateKeeps == CheckIInv /\ Eliminate => CheckIInv'
<1> SUFFICES ASSUME CheckIInv, Eliminate PROVE CheckIInv'
  OBVIOUS
<1>1. /\ phase = "return" /\ phase' = "walk"
      /\ Reachable(m_succs) = BasicBlock /\ m_succs' = m_succs
      /\ code' \in Codes
      /\ m_instrs' = [b \in BasicBlock |-> [k \in DOMAIN code'[b] |-> k]]
      /\ calls' = CallFor(root, <<>>) /\ m_seen' = m_seen
      /\ UNCHANGED <<vars, blocks, cursor, other, dom_tree>>
  BY DEF Eliminate, vars
<1>2. DomIInv' /\ Eliminating' /\ m_seen = <<>>
  BY <1>1, WalkLeavesTree DEF CheckIInv, Eliminating
<1>3. code' \in [BasicBlock -> Seq(DOMAIN KindOf)]
  BY <1>1, CodesType
<1>4. ASSUME NEW b \in BasicBlock
      PROVE  /\ m_instrs'[b] \in Seq(Nat) /\ Len(m_instrs'[b]) = Len(code'[b])
             /\ DOMAIN code'[b] = 1 .. Len(code'[b])
             /\ \A k \in 1 .. Len(code'[b]) : m_instrs'[b][k] = k
  <2>1. code'[b] \in Seq(DOMAIN KindOf)
    BY <1>3
  <2>2. DOMAIN code'[b] = 1 .. Len(code'[b]) /\ Len(code'[b]) \in Nat
    BY <2>1
  <2>3. m_instrs'[b] = [k \in 1 .. Len(code'[b]) |-> k]
    BY <1>1, <2>2
  <2> QED BY <2>2, <2>3
<1>5. m_instrs' \in [BasicBlock -> Seq(Nat)]
  BY <1>1, <1>4
<1>6. CodeKept'
  <2>1. \A b \in BasicBlock :
          /\ \A i \in 1 .. Len(m_instrs'[b]) : m_instrs'[b][i] \in 1 .. Len(code'[b])
          /\ \A i, j \in 1 .. Len(m_instrs'[b]) : i < j => m_instrs'[b][i] < m_instrs'[b][j]
    BY <1>4
  <2> QED BY <1>1, <1>3, <1>5, <2>1 DEF CodeKept, Reachable
<1>7. /\ calls' \in Seq(CheckFrame) /\ Len(calls') = 1
      /\ calls'[1].bb = root /\ calls'[1].instr_it = 1 /\ calls'[1].child = 1
      /\ calls'[1].seen_before = 0
  <2> DEFINE f == [bb |-> root, instr_it |-> 1, child |-> 1, seen_before |-> 0]
  <2>1. f \in CheckFrame
    BY RootAssumption DEF CheckFrame
  <2>2. Len(m_seen) = 0
    BY <1>2
  <2>3. calls' = <<f>> \o <<>>
    BY <1>1, <2>2 DEF CallFor
  <2>4. calls' \in Seq(CheckFrame) /\ Len(calls') = 1 /\ calls'[1] = f
    BY <2>1, <2>3
  <2> QED BY <2>4
<1>8. TreeIsKnown'
  BY <1>2, <1>6, WalkKnowsTree, PTL
<1>9. CallsDescend'
  <2>1. InBounds(1)'
    <3>1. Len(m_instrs'[root]) \in Nat /\ Len(m_seen') = 0
      BY <1>1, <1>2, <1>4, RootAssumption
    <3>2. Len(dom_tree'[root]) \in Nat
      BY <1>8, RootAssumption DEF TreeIsKnown
    <3> QED BY <1>7, <3>1, <3>2 DEF InBounds
  <2>2. \A j \in 1 .. Len(calls') : j = 1 /\ j + 1 .. Len(calls') = {}
    BY <1>7
  <2>3. m_seen' \in Seq(BasicBlock \X Nat)
    BY <1>1, <1>2
  <2>4. ASSUME NEW j \in 1 .. Len(calls') PROVE InBounds(j)' /\ j + 1 .. Len(calls') = {}
    BY <2>1, <2>2
  <2> QED BY <1>7, <2>3, <2>4 DEF CallsDescend
<1>10. \A k \in 1 .. Len(calls') : k = 1 /\ Scanned(calls[k])' = {}
  BY <1>7 DEF Scanned
<1>11. SeenIsScanned'
  <2>1. Len(m_seen') = 0
    BY <1>1, <1>2
  <2> QED BY <1>10, <2>1 DEF SeenIsScanned
<1>12. ErasedHaveCover'
  <2>1. ASSUME NEW b \in BasicBlock PROVE ErasedFrom(b)' = {}
    <3>1. \A k \in DOMAIN code'[b] : k \in 1 .. Len(m_instrs'[b]) /\ m_instrs'[b][k] = k
      BY <1>4
    <3>2. InstrsOf(b)' \subseteq Left(b)'
      BY <3>1 DEF InstrsOf, Left, Elements
    <3> QED BY <3>2 DEF ErasedFrom
  <2> QED BY <2>1 DEF ErasedHaveCover
<1>13. CleanSoFar'
  <2>1. \A a, b : ~ PassedThrough(a, b)'
    BY <1>7 DEF PassedThrough
  <2>2. calls' # <<>>
    <3>1. Len(calls') = 1
      BY <1>7
    <3> QED BY <3>1
  <2> QED BY <1>10, <2>1, <2>2 DEF CleanSoFar
<1> QED BY <1>1, <1>2, <1>6, <1>9, <1>11, <1>12, <1>13 DEF CheckIInv

\* Every step of the walk keeps the invariant.
LEMMA WalkKeeps ==
  CheckIInv /\ (SkipInstr \/ KeepCheck \/ EraseCheck \/ VisitChild \/ ReturnFromBlock)
    => CheckIInv'
<1> SUFFICES ASSUME CheckIInv,
                    SkipInstr \/ KeepCheck \/ EraseCheck \/ VisitChild \/ ReturnFromBlock
             PROVE  CheckIInv'
  OBVIOUS
<1>1. /\ phase = "walk" /\ phase' = "walk" /\ UNCHANGED <<vars, blocks, cursor, other, dom_tree>>
      /\ m_succs' = m_succs
  BY DEF SkipInstr, KeepCheck, EraseCheck, VisitChild, ReturnFromBlock, AtInstr, AtChildren,
         Walking, domVars, vars
<1>2. DomIInv' /\ Eliminating /\ Eliminating'
  BY <1>1, WalkLeavesTree DEF CheckIInv, Eliminating
<1>3. WalkIInv
  BY <1>2, WalkKnowsTree DEF WalkIInv, CheckIInv
<1>4. TreeIsKnown /\ CodeKept /\ CallsDescend /\ ErasedHaveCover
  BY <1>3 DEF WalkIInv
<1>5. CASE SkipInstr \/ KeepCheck
  <2>1. LooksOn
    BY <1>5 DEF SkipInstr, KeepCheck, LooksOn, vars, domVars
  <2>2. CodeKept' /\ CallsDescend' /\ SeenIsScanned' /\ CleanSoFar'
    BY <1>3, <2>1, LooksOnDescends, LooksOnSees, LooksOnClean
  <2>3. ErasedHaveCover'
    BY <1>4, <2>1, NothingErasedKeepsCover DEF LooksOn
  <2> QED BY <1>1, <1>2, <2>2, <2>3 DEF CheckIInv
<1>6. CASE EraseCheck
  <2>1. CodeKept' /\ ErasedHaveCover' /\ CallsDescend' /\ SeenIsScanned' /\ CleanSoFar'
    BY <1>3, <1>4, <1>6, EraseKeepsCode, EraseKeepsCover, EraseKeepsCalls
  <2> QED BY <1>1, <1>2, <2>1 DEF CheckIInv
<1>7. CASE VisitChild
  <2>1. CodeKept' /\ CallsDescend' /\ SeenIsScanned' /\ CleanSoFar'
    BY <1>3, <1>7, VisitDescends, VisitSeesNothing
  <2>2. ErasedHaveCover'
    BY <1>1, <1>4, <1>7, NothingErasedKeepsCover DEF VisitChild
  <2> QED BY <1>1, <1>2, <2>1, <2>2 DEF CheckIInv
<1>8. CASE ReturnFromBlock
  <2>1. CodeKept' /\ CallsDescend' /\ SeenIsScanned' /\ CleanSoFar'
    BY <1>3, <1>8, ReturnDescends, ReturnCleans
  <2>2. ErasedHaveCover'
    BY <1>1, <1>4, <1>8, NothingErasedKeepsCover DEF ReturnFromBlock
  <2> QED BY <1>1, <1>2, <2>1, <2>2 DEF CheckIInv
<1> QED BY <1>5, <1>6, <1>7, <1>8

\* So do the end of the walk and a step that changes nothing.
LEMMA FinishKeeps ==
  CheckIInv /\ (Finish \/ UNCHANGED <<vars, domVars, checkVars>>) => CheckIInv'
<1> SUFFICES ASSUME CheckIInv, Finish \/ UNCHANGED <<vars, domVars, checkVars>>
             PROVE  CheckIInv'
  OBVIOUS
<1>1. UNCHANGED <<m_succs, dom_tree, code, m_instrs, calls, m_seen>>
  BY DEF Finish, vars, domVars, checkVars
<1>2. DomIInv'
  <2>1. CASE Finish
    BY <2>1, WalkLeavesTree DEF Finish, CheckIInv
  <2>2. CASE UNCHANGED <<vars, domVars, checkVars>>
    BY <2>2, DomNextKeeps DEF CheckIInv
  <2> QED BY <2>1, <2>2
<1>3. /\ Eliminating' <=> Eliminating
      /\ phase' = "done" => phase = "done" \/ calls = <<>>
  BY DEF Finish, domVars, Eliminating
<1>4. CASE ~ Eliminating
  BY <1>1, <1>2, <1>3, <1>4 DEF CheckIInv
<1>5. CASE Eliminating
  <2>1. /\ CodeKept /\ CallsDescend /\ SeenIsScanned /\ ErasedHaveCover /\ CleanSoFar
        /\ phase' = "done" => calls' = <<>>
    BY <1>1, <1>3, <1>5 DEF CheckIInv
  <2>2. /\ \A i : IsCheck(i)' <=> IsCheck(i)
        /\ \A s, c : Covers(s, c)' <=> Covers(s, c)
        /\ \A a, b : StrictlyDominates(a, b)' <=> StrictlyDominates(a, b)
    BY <1>1, CoversStays
  <2>3. CodeKept'
    BY <1>1, <2>1 DEF CodeKept, Reachable
  <2>4. CallsDescend'
    BY <1>1, <2>1, <2>2 DEF CallsDescend, InBounds, Below
  <2>5. \A k : Scanned(calls[k])' = Scanned(calls[k])
    BY <1>1 DEF Scanned
  <2>6. SeenIsScanned'
    <3>1. \A k \in 1 .. Len(m_seen') : \E j \in 1 .. Len(calls') :
            /\ calls'[j].seen_before < k
            /\ \E s \in Scanned(calls[j])' : m_seen'[k] = s /\ IsCheck(s)'
      BY <1>1, <2>1, <2>2, <2>5 DEF SeenIsScanned
    <3>2. \A j \in 1 .. Len(calls') : \A s \in Scanned(calls[j])' :
            IsCheck(s)' => \E k \in 1 .. Len(m_seen') :
              m_seen'[k] = s /\ \A i \in 1 .. j - 1 : k <= calls'[i].seen_before
      BY <1>1, <2>1, <2>2, <2>5 DEF SeenIsScanned
    <3> QED BY <3>1, <3>2 DEF SeenIsScanned
  <2>7. ErasedHaveCover'
    BY <1>1, <2>1, NothingErasedKeepsCover
  <2>8. /\ \A a, b \in BasicBlock : Clean(a, b) => Clean(a, b)'
        /\ \A a \in BasicBlock : Finished(a) => Finished(a)'
    <3>1. \A b \in BasicBlock : Left(b)' \subseteq Left(b)
      BY <1>1 DEF Left
    <3> QED BY <1>1, <3>1, CleanStays
  <2>9. \A a, b : PassedThrough(a, b)' => PassedThrough(a, b)
    BY <1>1 DEF PassedThrough
  <2>10. CleanSoFar'
    BY <1>1, <2>1, <2>2, <2>5, <2>8, <2>9 DEF CleanSoFar
  <2> QED BY <1>2, <1>3, <1>5, <2>1, <2>3, <2>4, <2>6, <2>7, <2>10 DEF CheckIInv
<1> QED BY <1>4, <1>5

\* Every step of the pass keeps the invariant.
LEMMA CheckNextKeeps ==
  CheckIInv /\ [CheckNext]_<<vars, domVars, checkVars>> => CheckIInv'
BY DomStepKeeps, EliminateKeeps, WalkKeeps, FinishKeeps DEF CheckNext

(***************************************************************************)
(* The theorems.                                                           *)
(***************************************************************************)

\* What m_seen holds is left.
LEMMA CheckIInvKeepsSeenAlive == CheckIInv => SeenStaysAlive
<1> SUFFICES ASSUME CheckIInv PROVE SeenStaysAlive
  OBVIOUS
<1>1. CASE ~ Eliminating
  BY <1>1 DEF CheckIInv, SeenStaysAlive, Eliminating
<1>2. CASE Eliminating
  <2>1. /\ TreeIsKnown /\ CodeKept /\ CallsDescend /\ SeenIsScanned
        /\ phase = "done" => calls = <<>>
    BY <1>2, WalkKnowsTree DEF CheckIInv
  <2>2. ASSUME NEW k \in DOMAIN m_seen PROVE m_seen[k] \in Left(m_seen[k][1])
    <3>1. k \in 1 .. Len(m_seen)
      BY <2>1 DEF CallsDescend
    <3>2. PICK j \in 1 .. Len(calls) : m_seen[k] \in Scanned(calls[j])
      BY <2>1, <3>1, ZenonT(60) DEF SeenIsScanned
    <3>3. m_seen[k] \in Left(calls[j].bb) /\ m_seen[k][1] = calls[j].bb
      BY <2>1, <3>2, ScannedIsLeft
    <3> QED BY <3>3
  <2>3. calls = <<>> => m_seen = <<>>
    <3>1. calls = <<>> => 1 .. Len(calls) = {}
      OBVIOUS
    <3>2. calls = <<>> => 1 .. Len(m_seen) = {}
      BY <2>1, <3>1 DEF SeenIsScanned
    <3> QED BY <2>1, <3>2 DEF CallsDescend
  <2> QED BY <2>1, <2>2, <2>3 DEF SeenStaysAlive
<1> QED BY <1>1, <1>2

\* No way leads from where a value is defined to a block around a block between
\* them.
LEMMA NoWayAround ==
  ASSUME m_succs \in BuiltGraphs, Reachable(m_succs) = BasicBlock,
         NEW a \in BasicBlock, NEW d \in BasicBlock, NEW b \in BasicBlock,
         StrictlyDominates(d, b), a = d \/ StrictlyDominates(a, d)
  PROVE  b \notin Reach(m_succs, a, {d})
<1>1. CASE a = d
  BY <1>1 DEF Reach
<1>2. CASE StrictlyDominates(a, d)
  <2>1. a \in Reach(m_succs, root, {d})
    BY <1>2, CutOneWay DEF StrictlyDominates
  <2> QED BY <2>1, ReachTransitive DEF StrictlyDominates
<1> QED BY <1>1, <1>2

\* A check that is left and covers an erased one is on every way to it.
LEMMA CheckIInvCoversErased == CheckIInv => ErasedCovered
<1> SUFFICES ASSUME CheckIInv, phase = "done", NEW b \in BasicBlock, NEW c \in ErasedFrom(b)
             PROVE  \/ \E s \in Left(b) : s[2] < c[2] /\ IsCheck(s) /\ Dominates(s, c)
                    \/ \A a \in Definitions(c) : b \notin Reach(m_succs, a, Guards(c) \ {b})
  BY DEF ErasedCovered
<1>1. TreeIsKnown /\ CodeKept /\ ErasedHaveCover /\ m_succs \in BuiltGraphs
  BY WalkKnowsTree DEF CheckIInv, Eliminating, TreeIsKnown
<1>2. PICK d \in BasicBlock : \E s \in Left(d) : Covers(s, c)
  BY <1>1 DEF ErasedHaveCover
<1>3. PICK s \in Left(d) : Covers(s, c)
  BY <1>2
<1>4. s[1] = d /\ c[1] = b /\ c \in InstrsOf(b) /\ s \in InstrsOf(d)
  BY <1>1, LeftArePlaces DEF Left, ErasedFrom, InstrsOf
<1>5. IsCheck(s) /\ IsCheck(c) /\ Dominates(s, c) /\ Precedes(s, c)
  BY <1>3 DEF Covers
<1>6. CASE d = b
  BY <1>3, <1>4, <1>5, <1>6 DEF Precedes
<1>7. CASE d # b
  <2>1. StrictlyDominates(d, b)
    BY <1>4, <1>5, <1>7 DEF Precedes
  <2>2. d \in Guards(c) \ {b} /\ d \in Uses(c)
    BY <1>3, <1>4, <1>5, <1>7 DEF Guards, Uses, Dominates
  <2>3. ASSUME NEW a \in Definitions(c) PROVE b \notin Reach(m_succs, a, Guards(c) \ {b})
    <3>1. a \in BasicBlock /\ (a = d \/ StrictlyDominates(a, d))
      BY <2>2 DEF Definitions
    <3>2. b \notin Reach(m_succs, a, {d})
      BY <1>1, <2>1, <3>1, NoWayAround DEF CodeKept
    <3> QED BY <2>2, <3>2, ReachShrinks
  <2> QED BY <2>3
<1> QED BY <1>6, <1>7

\* When the walk is over it has been through all blocks.
LEMMA CheckIInvLeavesNone == CheckIInv => NoneLeft
<1> SUFFICES ASSUME CheckIInv, phase = "done", NEW a \in BasicBlock, NEW b \in BasicBlock,
                    NEW s \in Left(a), NEW c \in Left(b),
                    IsCheck(s), IsCheck(c), Dominates(s, c)
             PROVE  IF a = b THEN c[2] <= s[2] ELSE ~ StrictlyDominates(a, b)
  BY DEF NoneLeft
<1>1. CodeKept /\ CleanSoFar /\ calls = <<>>
  BY DEF CheckIInv, Eliminating
<1>2. ~ Precedes(s, c)
  BY <1>1 DEF CleanSoFar, Finished, Clean, Covers
<1>3. s \in Place /\ c \in Place
  BY <1>1, LeftArePlaces
<1>4. s[1] = a /\ c[1] = b /\ s[2] \in Nat /\ c[2] \in Nat
  BY <1>3 DEF Left, Place
<1> QED BY <1>2, <1>4 DEF Precedes

\* Every reachable state of the pass satisfies the invariant.
THEOREM CheckInvariance == CheckSpec => []CheckIInv
BY CheckInitIInv, CheckNextKeeps, PTL DEF CheckSpec

\* No pointer in m_seen is to a check that was destroyed, however often a block
\* is visited and loses checks, and m_seen is empty in the end.
THEOREM SeenIsAlive == CheckSpec => []SeenStaysAlive
BY CheckInvariance, CheckIInvKeepsSeenAlive, PTL

\* No execution misses a check: each way from the definition of the value to the
\* place of an erased check passes one that is left and makes it superfluous.
THEOREM NoCheckMissed == CheckSpec => []ErasedCovered
BY CheckInvariance, CheckIInvCoversErased, PTL

\* The pass leaves no check that another one makes superfluous.
THEOREM NothingSuperfluous == CheckSpec => []NoneLeft
BY CheckInvariance, CheckIInvLeavesNone, PTL

=============================================================================
