----------------------------- MODULE CfgProofs -----------------------------
(***************************************************************************)
(* Facts about control flow graphs: what can be reached, and dominance.    *)
(***************************************************************************)
EXTENDS Cfg, VectorsProofs, FiniteSetTheorems

\* Successors are blocks.
LEMMA SuccsAreBlocks ==
  ASSUME NEW g \in BuiltGraphs, NEW b \in BasicBlock
  PROVE  Succs(g, b) \subseteq BasicBlock
BY DEF BuiltGraphs, BBSuccs, Succs

\* A block that can be reached leads to its successors, unless they are avoided.
LEMMA ReachStep ==
  ASSUME NEW g \in BuiltGraphs, NEW avoid, NEW from \in BasicBlock,
         NEW b \in Reach(g, from, avoid), NEW c \in Succs(g, b), c \notin avoid
  PROVE  c \in Reach(g, from, avoid)
<1>1. from \notin avoid /\ b \in BasicBlock
  BY DEF Reach
<1>2. c \in BasicBlock
  BY <1>1, SuccsAreBlocks
<1>3. ASSUME NEW S \in SUBSET BasicBlock, from \in S, ClosedUnder(g, avoid, S)
      PROVE  c \in S
  BY <1>1, <1>3 DEF Reach, ClosedUnder
<1> QED BY <1>1, <1>2, <1>3 DEF Reach

\* In a graph that was not built, too, if the successor is a block.
LEMMA ReachEdge ==
  ASSUME NEW g, NEW avoid, NEW from, NEW b \in Reach(g, from, avoid),
         NEW c \in Succs(g, b) \cap BasicBlock, c \notin avoid
  PROVE  c \in Reach(g, from, avoid)
<1>1. from \notin avoid /\ b \in BasicBlock
  BY DEF Reach
<1>2. ASSUME NEW S \in SUBSET BasicBlock, from \in S, ClosedUnder(g, avoid, S)
      PROVE  c \in S
  BY <1>1, <1>2 DEF Reach, ClosedUnder
<1> QED BY <1>1, <1>2 DEF Reach

\* A set that contains the start and is closed contains all that can be reached.
LEMMA ReachLeast ==
  ASSUME NEW g, NEW avoid, NEW from, NEW S \in SUBSET BasicBlock,
         from \in S, ClosedUnder(g, avoid, S)
  PROVE  Reach(g, from, avoid) \subseteq S
BY DEF Reach

\* The start can be reached, unless it is avoided.
LEMMA ReachStart ==
  ASSUME NEW g, NEW avoid, NEW from \in BasicBlock, from \notin avoid
  PROVE  from \in Reach(g, from, avoid)
BY DEF Reach

\* What can be reached from a block that can be reached can be reached.
LEMMA ReachTransitive ==
  ASSUME NEW g, NEW avoid, NEW a, NEW b \in Reach(g, a, avoid), NEW c \in Reach(g, b, avoid)
  PROVE  c \in Reach(g, a, avoid)
BY DEF Reach

\* The more is avoided, the less can be reached.
LEMMA ReachShrinks ==
  ASSUME NEW g, NEW from, NEW less, NEW more, less \subseteq more
  PROVE  Reach(g, from, more) \subseteq Reach(g, from, less)
<1> SUFFICES ASSUME NEW b \in Reach(g, from, more) PROVE b \in Reach(g, from, less)
  OBVIOUS
<1>1. \A S \in SUBSET BasicBlock : ClosedUnder(g, less, S) => ClosedUnder(g, more, S)
  BY DEF ClosedUnder
<1> QED BY <1>1 DEF Reach

\* Only blocks that are not avoided can be reached.
LEMMA ReachAvoids ==
  ASSUME NEW g \in BuiltGraphs, NEW from \in BasicBlock, NEW avoid
  PROVE  Reach(g, from, avoid) \subseteq BasicBlock \ avoid
<1> DEFINE S == BasicBlock \ avoid
<1>1. S \in SUBSET BasicBlock /\ ClosedUnder(g, avoid, S)
  BY SuccsAreBlocks DEF ClosedUnder
<1>2. ASSUME NEW b \in Reach(g, from, avoid) PROVE b \in S
  BY <1>1 DEF Reach
<1> QED BY <1>2

(***************************************************************************)
(* Dominance, which is about paths, said with what can be reached.         *)
(***************************************************************************)

\* A path is a non-empty vector of blocks.
LEMMA PathType ==
  ASSUME NEW g, NEW p \in SimplePaths(g)
  PROVE  /\ p \in Seq(BasicBlock) /\ Len(p) \in Nat \ {0} /\ DOMAIN p = 1 .. Len(p)
         /\ \A j \in 1 .. Len(p) : p[j] \in BasicBlock
         /\ p[1] = root
         /\ \A j \in 1 .. Len(p) - 1 : p[j + 1] \in Succs(g, p[j])
         /\ \A j, k \in 1 .. Len(p) : p[j] = p[k] => j = k
<1>1. Cardinality(BasicBlock) \in Nat
  BY BlocksAssumption, FS_CardinalityType
<1>2. PICK n \in 1 .. Cardinality(BasicBlock) : p \in [1 .. n -> BasicBlock]
  BY DEF SimplePaths
<1>3. n \in Nat \ {0} /\ p \in Seq(BasicBlock) /\ Len(p) = n /\ DOMAIN p = 1 .. n
  BY <1>1, <1>2
<1>4. /\ p[1] = root
      /\ \A j \in 1 .. Len(p) - 1 : p[j + 1] \in Succs(g, p[j])
      /\ \A j, k \in DOMAIN p : p[j] = p[k] => j = k
  BY DEF SimplePaths
<1> QED BY <1>2, <1>3, <1>4

\* What lies on a path that does not pass a is reached without a.
LEMMA PathReaches ==
  ASSUME NEW g \in BuiltGraphs, NEW p \in SimplePaths(g), NEW a,
         \A j \in 1 .. Len(p) : p[j] # a
  PROVE  \A j \in 1 .. Len(p) : p[j] \in Reach(g, root, {a})
<1> DEFINE T == {j \in 1 .. Len(p) : p[j] \notin Reach(g, root, {a})}
<1> SUFFICES ASSUME T # {} PROVE FALSE
  OBVIOUS
<1>1. PICK m \in T : \A k \in T : m <= k
  <2>1. T \subseteq Nat
    BY PathType
  <2> HIDE DEF T
  <2> QED BY <2>1, NatHasLeast
<1>2. m \in 1 .. Len(p) /\ Len(p) \in Nat /\ p[1] = root
  BY PathType
<1>3. m # 1
  BY <1>2, ReachStart, RootAssumption
<1>4. m - 1 \in 1 .. Len(p) - 1 /\ m - 1 \in 1 .. Len(p) /\ (m - 1) + 1 = m /\ ~ (m <= m - 1)
  BY <1>2, <1>3
<1>5. p[m - 1] \in Reach(g, root, {a})
  BY <1>1, <1>4
<1>6. p[m] \in Succs(g, p[m - 1])
  BY <1>4, PathType
<1>7. p[m] \in Reach(g, root, {a})
  BY <1>2, <1>5, <1>6, ReachStep, RootAssumption
<1> QED BY <1>7

\* A path that has not met the block c may be continued with it.
LEMMA PathExtends ==
  ASSUME NEW g \in BuiltGraphs, NEW p \in SimplePaths(g),
         NEW c \in Succs(g, p[Len(p)]), \A j \in 1 .. Len(p) : p[j] # c
  PROVE  /\ Append(p, c) \in SimplePaths(g)
         /\ Len(Append(p, c)) = Len(p) + 1
         /\ Append(p, c)[Len(p) + 1] = c
         /\ \A j \in 1 .. Len(p) : Append(p, c)[j] = p[j]
<1> DEFINE q == Append(p, c)
           n == Len(p) + 1
<1>1. /\ p \in Seq(BasicBlock) /\ Len(p) \in Nat \ {0}
      /\ p[Len(p)] \in BasicBlock
  BY PathType
<1>2. c \in BasicBlock
  BY <1>1, SuccsAreBlocks
<1>3. /\ q \in Seq(BasicBlock) /\ Len(q) = n /\ q[n] = c
      /\ \A j \in 1 .. Len(p) : q[j] = p[j]
  BY <1>1, <1>2
<1> HIDE DEF q
<1>4. q \in [1 .. n -> BasicBlock] /\ DOMAIN q = 1 .. n
  BY <1>3
<1>5. \A j \in 1 .. n : j = n \/ j \in 1 .. Len(p)
  BY <1>1
<1>6. \A j, k \in 1 .. n : q[j] = q[k] => j = k
  BY <1>3, <1>5, PathType
<1>7. \A j \in 1 .. n - 1 : q[j + 1] \in Succs(g, q[j])
  <2> TAKE j \in 1 .. n - 1
  <2>1. CASE j = Len(p)
    BY <1>1, <1>3, <2>1
  <2>2. CASE j # Len(p)
    <3>1. j \in 1 .. Len(p) - 1 /\ j \in 1 .. Len(p) /\ j + 1 \in 1 .. Len(p)
      BY <1>1, <2>2
    <3> QED BY <1>3, <3>1, PathType
  <2> QED BY <2>1, <2>2
<1>8. q[1] = root
  <2>1. 1 \in 1 .. Len(p)
    BY <1>1
  <2> QED BY <1>3, <2>1, PathType
<1>9. n \in 1 .. Cardinality(BasicBlock)
  <2>1. q \in Injection(1 .. n, BasicBlock)
    BY <1>4, <1>6 DEF Injection, IsInjective
  <2>2. IsFiniteSet(1 .. n) /\ Cardinality(1 .. n) = n
    BY <1>1, FS_Interval
  <2>3. n <= Cardinality(BasicBlock) /\ Cardinality(BasicBlock) \in Nat
    BY <2>1, <2>2, FS_Injection, FS_CardinalityType, BlocksAssumption
  <2> QED BY <1>1, <2>3
<1>10. q \in SimplePaths(g)
  BY <1>3, <1>4, <1>6, <1>7, <1>8, <1>9 DEF SimplePaths
<1> QED BY <1>3, <1>10 DEF q

\* The beginning of a path is a path.
LEMMA PathPrefix ==
  ASSUME NEW g \in BuiltGraphs, NEW p \in SimplePaths(g), NEW k \in 1 .. Len(p)
  PROVE  /\ SubSeq(p, 1, k) \in SimplePaths(g)
         /\ Len(SubSeq(p, 1, k)) = k
         /\ \A j \in 1 .. k : SubSeq(p, 1, k)[j] = p[j]
<1> DEFINE q == SubSeq(p, 1, k)
<1>1. p \in Seq(BasicBlock) /\ Len(p) \in Nat \ {0}
  BY PathType
<1>2. q \in Seq(BasicBlock) /\ Len(q) = k /\ \A j \in 1 .. k : q[j] = p[j]
  BY <1>1, PrefixProperties
<1> HIDE DEF q
<1>3. q \in [1 .. k -> BasicBlock] /\ DOMAIN q = 1 .. k
  BY <1>2
<1>4. k \in 1 .. Cardinality(BasicBlock)
  <2>1. PICK n \in 1 .. Cardinality(BasicBlock) : p \in [1 .. n -> BasicBlock]
    BY DEF SimplePaths
  <2>2. Cardinality(BasicBlock) \in Nat
    BY BlocksAssumption, FS_CardinalityType
  <2>3. Len(p) = n
    BY <2>1, <2>2
  <2> QED BY <2>1, <2>2, <2>3
<1>5. \A j \in 1 .. k : j \in 1 .. Len(p)
  BY <1>1
<1>6. \A j \in 1 .. k - 1 : q[j + 1] \in Succs(g, q[j])
  <2> TAKE j \in 1 .. k - 1
  <2>1. j \in 1 .. k /\ j + 1 \in 1 .. k /\ j \in 1 .. Len(p) - 1
    BY <1>1
  <2> QED BY <1>2, <2>1, PathType
<1>7. \A j, m \in 1 .. k : q[j] = q[m] => j = m
  BY <1>2, <1>5, PathType
<1>8. q[1] = root
  <2>1. 1 \in 1 .. k
    BY <1>1
  <2> QED BY <1>2, <2>1, PathType
<1>9. q \in SimplePaths(g)
  BY <1>2, <1>3, <1>4, <1>6, <1>7, <1>8 DEF SimplePaths
<1> QED BY <1>2, <1>9 DEF q

\* The path p leads to c and does not pass a.
LeadsAround(p, a, c) == p[Len(p)] = c /\ \A j \in 1 .. Len(p) : p[j] # a

\* What is reached without a lies at the end of a path that does not pass a.
LEMMA ReachHasPath ==
  ASSUME NEW g \in BuiltGraphs, NEW a, NEW b \in Reach(g, root, {a})
  PROVE  \E p \in SimplePaths(g) : LeadsAround(p, a, b)
<1> DEFINE S == {c \in BasicBlock : \E p \in SimplePaths(g) : LeadsAround(p, a, c)}
<1>1. root # a
  BY DEF Reach
<1>2. root \in S
  <2> DEFINE p == <<root>>
  <2>1. /\ p \in [1 .. 1 -> BasicBlock] /\ Len(p) = 1 /\ p[1] = root /\ DOMAIN p = 1 .. 1
    BY RootAssumption
  <2>2. 1 \in 1 .. Cardinality(BasicBlock)
    <3>1. Cardinality(BasicBlock) \in Nat /\ Cardinality(BasicBlock) # 0
      BY BlocksAssumption, RootAssumption, FS_CardinalityType, FS_EmptySet
    <3> QED BY <3>1
  <2> HIDE DEF p
  <2>3. p \in UNION {[1 .. n -> BasicBlock] : n \in 1 .. Cardinality(BasicBlock)}
    BY <2>1, <2>2
  <2>4. /\ \A j \in 1 .. Len(p) - 1 : p[j + 1] \in Succs(g, p[j])
        /\ \A j, k \in DOMAIN p : p[j] = p[k] => j = k
    BY <2>1
  <2>5. p \in SimplePaths(g)
    BY <2>1, <2>3, <2>4 DEF SimplePaths
  <2>6. LeadsAround(p, a, root)
    BY <1>1, <2>1 DEF LeadsAround
  <2> QED BY <2>5, <2>6, RootAssumption
<1>3. ASSUME NEW x \in S, NEW c \in Succs(g, x) \ {a} PROVE c \in S
  <2>1. PICK p \in SimplePaths(g) : LeadsAround(p, a, x)
    OBVIOUS
  <2>2. x \in BasicBlock /\ c \in BasicBlock
    BY SuccsAreBlocks
  <2>3. CASE \E k \in 1 .. Len(p) : p[k] = c
    <3>1. PICK k \in 1 .. Len(p) : p[k] = c
      BY <2>3
    <3> DEFINE q == SubSeq(p, 1, k)
    <3>2. q \in SimplePaths(g) /\ Len(q) = k /\ \A j \in 1 .. k : q[j] = p[j]
      BY PathPrefix
    <3>3. k \in 1 .. k /\ \A j \in 1 .. k : j \in 1 .. Len(p)
      BY PathType
    <3> HIDE DEF q
    <3>4. LeadsAround(q, a, c)
      BY <2>1, <3>1, <3>2, <3>3 DEF LeadsAround
    <3> QED BY <2>2, <3>2, <3>4
  <2>4. CASE \A k \in 1 .. Len(p) : p[k] # c
    <3> DEFINE q == Append(p, c)
    <3>1. /\ q \in SimplePaths(g) /\ Len(q) = Len(p) + 1 /\ q[Len(p) + 1] = c
          /\ \A j \in 1 .. Len(p) : q[j] = p[j]
      <4>1. c \in Succs(g, p[Len(p)])
        BY <2>1 DEF LeadsAround
      <4> QED BY <2>4, <4>1, PathExtends
    <3>2. \A j \in 1 .. Len(p) + 1 : j = Len(p) + 1 \/ j \in 1 .. Len(p)
      BY PathType
    <3> HIDE DEF q
    <3>3. LeadsAround(q, a, c)
      BY <2>1, <3>1, <3>2 DEF LeadsAround
    <3> QED BY <2>2, <3>1, <3>3
  <2> QED BY <2>3, <2>4
<1>4. S \in SUBSET BasicBlock /\ ClosedUnder(g, {a}, S)
  BY <1>3 DEF ClosedUnder
<1> HIDE DEF S
<1>5. b \in S
  BY <1>2, <1>4, ReachLeast
<1> QED BY <1>5 DEF S

\* A block dominates itself and the reachable blocks that cannot be reached
\* without it.
LEMMA DominanceIsCut ==
  ASSUME NEW g \in BuiltGraphs, NEW a \in Reachable(g), NEW b \in Reachable(g)
  PROVE  <<a, b>> \in Dominance(g) <=> a = b \/ b \notin Reach(g, root, {a})
<1>0. <<a, b>> \in Dominance(g) <=>
        \A p \in SimplePaths(g) : p[Len(p)] = b => \E j \in DOMAIN p : p[j] = a
  BY DEF Dominance
<1>1. ASSUME a = b \/ b \notin Reach(g, root, {a}), NEW p \in SimplePaths(g), p[Len(p)] = b
      PROVE  \E j \in DOMAIN p : p[j] = a
  <2>1. DOMAIN p = 1 .. Len(p) /\ Len(p) \in 1 .. Len(p)
    BY PathType
  <2>2. CASE a = b
    BY <1>1, <2>1, <2>2
  <2>3. CASE b \notin Reach(g, root, {a})
    BY <1>1, <2>1, <2>3, PathReaches
  <2> QED BY <1>1, <2>2, <2>3
<1>2. ASSUME a # b, b \in Reach(g, root, {a})
      PROVE  \E p \in SimplePaths(g) : p[Len(p)] = b /\ ~ \E j \in DOMAIN p : p[j] = a
  <2>1. PICK p \in SimplePaths(g) : LeadsAround(p, a, b)
    BY <1>2, ReachHasPath
  <2>2. DOMAIN p = 1 .. Len(p)
    BY PathType
  <2> QED BY <2>1, <2>2 DEF LeadsAround
<1> QED BY <1>0, <1>1, <1>2

\* What is cut off by a block that is cut off is cut off.
LEMMA CutTransitive ==
  ASSUME NEW g \in BuiltGraphs, NEW a, NEW b \in BasicBlock, NEW c,
         b \notin Reach(g, root, {a}), c \notin Reach(g, root, {b})
  PROVE  c \notin Reach(g, root, {a})
<1> SUFFICES ASSUME c \in Reach(g, root, {a}) PROVE FALSE
  OBVIOUS
<1> DEFINE S == Reach(g, root, {a}) \cap Reach(g, root, {b})
<1>1. root # a
  BY DEF Reach
<1>2. root \in Reach(g, root, {a})
  BY <1>1, ReachStart, RootAssumption
<1>3. root \in S
  BY <1>2, ReachStart, RootAssumption
<1>4. S \in SUBSET BasicBlock
  BY ReachAvoids, RootAssumption
<1>5. ASSUME NEW x \in S, NEW y \in Succs(g, x) \ {a} PROVE y \in S
  <2>1. y \in Reach(g, root, {a})
    BY ReachStep, RootAssumption
  <2> QED BY <2>1, ReachStep, RootAssumption
<1>6. ClosedUnder(g, {a}, S)
  BY <1>5 DEF ClosedUnder
<1> HIDE DEF S
<1>7. c \in S
  BY <1>3, <1>4, <1>6, ReachLeast
<1> QED BY <1>7 DEF S

\* Two blocks that can be reached do not cut off each other.
LEMMA CutOneWay ==
  ASSUME NEW g \in BuiltGraphs, NEW a \in Reachable(g), NEW b, a # b,
         b \notin Reach(g, root, {a}), b \in BasicBlock
  PROVE  a \in Reach(g, root, {b})
<1> SUFFICES ASSUME a \notin Reach(g, root, {b}) PROVE FALSE
  OBVIOUS
<1> DEFINE S == Reach(g, root, {a, b})
<1>1. S \subseteq Reach(g, root, {a}) /\ S \subseteq Reach(g, root, {b})
  BY ReachShrinks
<1>2. a \in BasicBlock
  BY DEF Reachable, Reach
<1>3. root # a /\ root # b
  BY <1>2, ReachStart, RootAssumption
<1>4. root \in S
  BY <1>3, ReachStart, RootAssumption
<1>5. ASSUME NEW x \in S, NEW y \in Succs(g, x) PROVE y \in S
  <2>1. CASE y = a
    BY <1>1, <2>1, ReachStep, RootAssumption
  <2>2. CASE y = b
    BY <1>1, <2>2, ReachStep, RootAssumption
  <2>3. CASE y \notin {a, b}
    BY <2>3, ReachStep, RootAssumption
  <2> QED BY <2>1, <2>2, <2>3
<1>6. S \in SUBSET BasicBlock /\ S \subseteq BasicBlock \ {a, b}
  BY ReachAvoids, RootAssumption
<1>7. ClosedUnder(g, {}, S)
  BY <1>5 DEF ClosedUnder
<1> HIDE DEF S
<1>8. Reachable(g) \subseteq S
  BY <1>4, <1>6, <1>7, ReachLeast DEF Reachable
<1> QED BY <1>6, <1>8

(***************************************************************************)
(* Calls that are a path.                                                  *)
(***************************************************************************)

\* Each call in s leads to those before it, and from the root around every block
\* that has no call in s.
LeadOn(g, avoid, s) ==
  /\ \A k \in 1 .. Len(s) : \A j \in 1 .. k : s[j].bb \in Reach(g, s[k].bb, avoid)
  /\ \A k \in 1 .. Len(s) : \A a \in BasicBlock :
       (\A j \in k .. Len(s) : s[j].bb # a) => s[k].bb \in Reach(g, root, {a})

\* The call for the root is a path.
LEMMA FirstLeadsOn ==
  ASSUME NEW g, NEW avoid, root \notin avoid,
         NEW s, Len(s) = 1, s[1].bb = root
  PROVE  LeadOn(g, avoid, s)
<1>1. \A k \in 1 .. Len(s) : k = 1
  OBVIOUS
<1>2. root \in Reach(g, root, avoid)
  BY ReachStart, RootAssumption
<1>3. \A a \in BasicBlock : a # root => root \in Reach(g, root, {a})
  BY ReachStart, RootAssumption
<1>4. \A k \in 1 .. Len(s) : \A j \in 1 .. k : s[j].bb \in Reach(g, s[k].bb, avoid)
  BY <1>1, <1>2
<1>5. ASSUME NEW k \in 1 .. Len(s), NEW a \in BasicBlock,
             \A j \in k .. Len(s) : s[j].bb # a
      PROVE  s[k].bb \in Reach(g, root, {a})
  <2>1. 1 \in k .. Len(s)
    BY <1>1
  <2> QED BY <1>1, <1>3, <1>5, <2>1
<1> QED BY <1>4, <1>5 DEF LeadOn

\* A call for a successor of the running call's block makes the path longer.
LEMMA PushLeadsOn ==
  ASSUME NEW g, NEW avoid, NEW T, \A x \in T : x.bb \in BasicBlock,
         NEW s \in Seq(T), s # <<>>, LeadOn(g, avoid, s), NEW f \in T,
         f.bb \in Succs(g, s[1].bb), f.bb \notin avoid
  PROVE  LeadOn(g, avoid, <<f>> \o s)
<1> DEFINE t == <<f>> \o s
<1>1. /\ Len(t) = Len(s) + 1 /\ t[1] = f /\ Len(s) \in Nat \ {0}
      /\ \A k \in 1 .. Len(t) : k = 1 \/ (k - 1 \in 1 .. Len(s) /\ t[k] = s[k - 1])
  OBVIOUS
<1>2. ASSUME NEW k \in 1 .. Len(s) PROVE s[k].bb \in BasicBlock
  <2>1. s[k] \in T
    OBVIOUS
  <2> QED BY <2>1
<1> HIDE DEF t
<1>3. f.bb \in BasicBlock /\ 1 \in 1 .. Len(s)
  BY <1>1
<1>4. ASSUME NEW k \in 1 .. Len(t), NEW j \in 1 .. k
      PROVE  t[j].bb \in Reach(g, t[k].bb, avoid)
  <2>1. CASE k = 1
    BY <1>1, <1>3, <2>1, ReachStart
  <2>2. CASE k # 1 /\ j = 1
    <3>1. k - 1 \in 1 .. Len(s) /\ t[k] = s[k - 1] /\ 1 \in 1 .. k - 1
      BY <1>1, <2>2
    <3>2. s[1].bb \in Reach(g, s[k - 1].bb, avoid)
      BY <3>1 DEF LeadOn
    <3>3. f.bb \in Reach(g, s[k - 1].bb, avoid)
      BY <1>2, <3>1, <3>2, ReachEdge
    <3> QED BY <1>1, <2>2, <3>1, <3>3
  <2>3. CASE k # 1 /\ j # 1
    <3>1. /\ k - 1 \in 1 .. Len(s) /\ t[k] = s[k - 1]
          /\ j - 1 \in 1 .. k - 1 /\ t[j] = s[j - 1]
      BY <1>1, <2>3
    <3> QED BY <3>1 DEF LeadOn
  <2> QED BY <2>1, <2>2, <2>3
<1>5. ASSUME NEW k \in 1 .. Len(t), NEW a \in BasicBlock,
             \A j \in k .. Len(t) : t[j].bb # a
      PROVE  t[k].bb \in Reach(g, root, {a})
  <2>1. CASE k = 1
    <3>1. \A j \in 1 .. Len(s) : j + 1 \in k .. Len(t) /\ t[j + 1] = s[j]
      BY <1>1, <2>1
    <3>2. s[1].bb \in Reach(g, root, {a})
      BY <1>3, <1>5, <3>1, SMTT(30) DEF LeadOn
    <3>3. f.bb # a
      BY <1>1, <1>5, <2>1
    <3> QED BY <1>1, <2>1, <3>2, <3>3, ReachEdge
  <2>2. CASE k # 1
    <3>1. k - 1 \in 1 .. Len(s) /\ t[k] = s[k - 1]
      BY <1>1, <2>2
    <3>2. \A j \in k - 1 .. Len(s) : j + 1 \in k .. Len(t) /\ t[j + 1] = s[j]
      BY <1>1, <3>1
    <3> QED BY <1>5, <3>1, <3>2 DEF LeadOn
  <2> QED BY <2>1, <2>2
<1> QED BY <1>4, <1>5 DEF LeadOn, t

\* The calls behind the running one are a path.
LEMMA PopLeadsOn ==
  ASSUME NEW g, NEW avoid, NEW T, NEW s \in Seq(T), s # <<>>, LeadOn(g, avoid, s)
  PROVE  LeadOn(g, avoid, Tail(s))
<1> DEFINE t == Tail(s)
<1>1. /\ Len(s) = Len(t) + 1 /\ Len(t) \in Nat
      /\ \A k \in 1 .. Len(t) : t[k] = s[k + 1]
  BY PopProperties
<1> HIDE DEF t
<1>2. ASSUME NEW k \in 1 .. Len(t), NEW j \in 1 .. k
      PROVE  t[j].bb \in Reach(g, t[k].bb, avoid)
  <2>1. k + 1 \in 1 .. Len(s) /\ j + 1 \in 1 .. k + 1 /\ j \in 1 .. Len(t)
    BY <1>1
  <2> QED BY <1>1, <2>1 DEF LeadOn
<1>3. ASSUME NEW k \in 1 .. Len(t), NEW a \in BasicBlock,
             \A j \in k .. Len(t) : t[j].bb # a
      PROVE  t[k].bb \in Reach(g, root, {a})
  <2>1. k + 1 \in 1 .. Len(s)
    BY <1>1
  <2>2. ASSUME NEW j \in k + 1 .. Len(s) PROVE s[j].bb # a
    <3>1. j - 1 \in k .. Len(t) /\ j - 1 \in 1 .. Len(t) /\ (j - 1) + 1 = j
      BY <1>1
    <3> QED BY <1>1, <1>3, <3>1
  <2> QED BY <1>1, <2>1, <2>2 DEF LeadOn
<1> QED BY <1>2, <1>3 DEF LeadOn, t

\* Which successor a call processes next is of no concern.
LEMMA SameBlocksLeadOn ==
  ASSUME NEW g, NEW avoid, NEW s, NEW t, LeadOn(g, avoid, s),
         Len(t) = Len(s), Len(s) \in Nat, \A k \in 1 .. Len(s) : t[k].bb = s[k].bb
  PROVE  LeadOn(g, avoid, t)
<1>1. ASSUME NEW k \in 1 .. Len(t), NEW j \in 1 .. k
      PROVE  t[j].bb \in Reach(g, t[k].bb, avoid)
  <2>1. j \in 1 .. Len(s)
    OBVIOUS
  <2> QED BY <2>1 DEF LeadOn
<1>2. ASSUME NEW k \in 1 .. Len(t), NEW a \in BasicBlock,
             \A j \in k .. Len(t) : t[j].bb # a
      PROVE  t[k].bb \in Reach(g, root, {a})
  <2>1. \A j \in k .. Len(s) : j \in 1 .. Len(s)
    OBVIOUS
  <2> QED BY <1>2, <2>1 DEF LeadOn
<1> QED BY <1>1, <1>2 DEF LeadOn

(***************************************************************************)
(* Back edges and natural loops.                                           *)
(***************************************************************************)

\* What a back edge is.
LEMMA BackEdgeMeans ==
  ASSUME NEW g \in BuiltGraphs, NEW l, NEW h
  PROVE  <<l, h>> \in BackEdges(g) <=>
           /\ l \in Reachable(g) /\ h \in Reachable(g) /\ h \in Succs(g, l)
           /\ h = l \/ l \notin Reach(g, root, {h})
<1>1. <<l, h>> \in BackEdges(g) <=>
        /\ l \in Reachable(g) /\ h \in Reachable(g) /\ h \in Succs(g, l)
        /\ <<h, l>> \in Dominance(g)
  <2>1. ASSUME <<h, l>> \in Dominance(g)
        PROVE  <<l, h>> \in {<<d[2], d[1]>> : d \in Dominance(g)}
    BY <2>1
  <2>2. ASSUME <<l, h>> \in {<<d[2], d[1]>> : d \in Dominance(g)}
        PROVE  <<h, l>> \in Dominance(g)
    <3>1. PICK d \in Dominance(g) : <<l, h>> = <<d[2], d[1]>>
      BY <2>2
    <3>2. d = <<d[1], d[2]>>
      BY DEF Dominance
    <3>3. d[1] = h /\ d[2] = l
      BY <3>1
    <3> QED BY <3>2, <3>3
  <2>3. <<l, h>> \in {e \in Reachable(g) \X Reachable(g) : e[2] \in Succs(g, e[1])} <=>
          l \in Reachable(g) /\ h \in Reachable(g) /\ h \in Succs(g, l)
    OBVIOUS
  <2> QED BY <2>1, <2>2, <2>3 DEF BackEdges
<1> QED BY <1>1, DominanceIsCut

\* A back edge is the pair of its ends.
LEMMA BackEdgesArePairs ==
  ASSUME NEW g, NEW e \in BackEdges(g)
  PROVE  e = <<e[1], e[2]>> /\ e[1] \in BasicBlock /\ e[2] \in BasicBlock
<1>1. e \in Reachable(g) \X Reachable(g)
  BY DEF BackEdges
<1>2. Reachable(g) \subseteq BasicBlock
  BY DEF Reachable, Reach
<1> QED BY <1>1, <1>2

\* A block of a natural loop is the header or leads to a latch around it.
LEMMA InNaturalLoop ==
  ASSUME NEW g, NEW h, NEW b
  PROVE  b \in NaturalLoop(g, h) <=>
           \/ b = h
           \/ b \in BasicBlock /\ \E l : <<l, h>> \in BackEdges(g) /\ l \in Reach(g, b, {h})
<1> DEFINE latches == {e[1] : e \in {e \in BackEdges(g) : e[2] = h}}
<1>1. ASSUME NEW l PROVE l \in latches <=> <<l, h>> \in BackEdges(g)
  <2>1. ASSUME l \in latches PROVE <<l, h>> \in BackEdges(g)
    <3>1. PICK e \in BackEdges(g) : e[2] = h /\ e[1] = l
      BY <2>1
    <3> QED BY <3>1, BackEdgesArePairs
  <2>2. ASSUME <<l, h>> \in BackEdges(g) PROVE l \in latches
    <3>1. <<l, h>>[1] = l /\ <<l, h>>[2] = h
      OBVIOUS
    <3> QED BY <2>2, <3>1
  <2> QED BY <2>1, <2>2
<1> HIDE DEF latches
<1>2. NaturalLoop(g, h) = {h} \cup {c \in BasicBlock : Reach(g, c, {h}) \cap latches # {}}
  BY DEF NaturalLoop, latches
<1> QED BY <1>1, <1>2

\* A header dominates the blocks of its loop.
LEMMA HeaderDominatesLoop ==
  ASSUME NEW g \in BuiltGraphs, NEW h \in Reachable(g), NEW b \in Reachable(g),
         b \in NaturalLoop(g, h)
  PROVE  <<h, b>> \in Dominance(g)
<1>1. CASE b = h
  BY <1>1, DominanceIsCut
<1>2. CASE b # h
  <2>1. PICK l : <<l, h>> \in BackEdges(g) /\ l \in Reach(g, b, {h})
    BY <1>2, InNaturalLoop
  <2>2. l # h
    <3>1. b \in BasicBlock
      BY DEF Reachable, Reach
    <3> QED BY <2>1, <3>1, ReachAvoids
  <2>3. l \notin Reach(g, root, {h})
    BY <2>1, <2>2, BackEdgeMeans
  <2>4. b \notin Reach(g, root, {h})
    BY <2>1, <2>3, ReachTransitive
  <2> QED BY <2>4, DominanceIsCut
<1> QED BY <1>1, <1>2

\* Two natural loops that share a block are one in the other, if one does not have
\* the header of the other: a way within the loop of h does not meet o, and one
\* from the root that comes to a shared block around h through o would.
LEMMA LoopsNest ==
  ASSUME NEW g \in BuiltGraphs, Reachable(g) = BasicBlock,
         NEW h \in BasicBlock, NEW o \in BasicBlock, o \notin NaturalLoop(g, h),
         NEW b \in NaturalLoop(g, h), b \in NaturalLoop(g, o)
  PROVE  NaturalLoop(g, h) \subseteq NaturalLoop(g, o)
<1>0. h # o /\ b # o /\ b \in BasicBlock
  BY InNaturalLoop
<1>1. PICK m : <<m, o>> \in BackEdges(g) /\ m \in Reach(g, b, {o})
  BY <1>0, InNaturalLoop
<1>2. ASSUME NEW l, <<l, h>> \in BackEdges(g) PROVE l \notin Reach(g, o, {h})
  BY <1>0, <1>2, InNaturalLoop
<1>3. b \in Reach(g, h, {o})
  <2>1. CASE b = h
    BY <1>0, <2>1, ReachStart
  <2>2. CASE b # h
    <3> DEFINE S == Reach(g, root, {h}) \cup Reach(g, h, {o}) \cup Reach(g, o, {h})
    <3>1. h \in Reach(g, h, {o}) /\ o \in Reach(g, o, {h})
      BY <1>0, ReachStart
    <3>2. root \in S
      <4>1. root # h => root \in Reach(g, root, {h})
        BY ReachStart, RootAssumption
      <4> QED BY <3>1, <4>1
    <3>3. ASSUME NEW x \in S, NEW y \in Succs(g, x) PROVE y \in S
      <4>1. y = h \/ y = o \/ y \notin {h, o}
        OBVIOUS
      <4>2. CASE y = h
        BY <3>1, <4>2
      <4>3. CASE y = o
        BY <3>1, <4>3
      <4>4. CASE y \notin {h, o}
        BY <4>4, ReachStep, RootAssumption
      <4> QED BY <4>1, <4>2, <4>3, <4>4
    <3>4. S \in SUBSET BasicBlock /\ ClosedUnder(g, {}, S)
      BY <3>3, ReachAvoids, RootAssumption DEF ClosedUnder
    <3> HIDE DEF S
    <3>5. b \in S
      BY <1>0, <3>2, <3>4, ReachLeast DEF Reachable
    <3>6. PICK l : <<l, h>> \in BackEdges(g) /\ l \in Reach(g, b, {h})
      BY <2>2, InNaturalLoop
    <3>7. b \notin Reach(g, root, {h})
      <4>1. l # h
        BY <1>0, <3>6, ReachAvoids
      <4>2. l \notin Reach(g, root, {h})
        BY <3>6, <4>1, BackEdgeMeans
      <4> QED BY <3>6, <4>2, ReachTransitive
    <3>8. b \notin Reach(g, o, {h})
      BY <1>2, <3>6, ReachTransitive
    <3> QED BY <3>5, <3>7, <3>8 DEF S
  <2> QED BY <2>1, <2>2
<1>4. m \in Reach(g, h, {o})
  BY <1>1, <1>3, ReachTransitive
<1>5. ASSUME NEW x \in NaturalLoop(g, h), x # h PROVE h \in Reach(g, x, {o})
  <2>1. PICK l : <<l, h>> \in BackEdges(g) /\ l \in Reach(g, x, {h})
    BY <1>5, InNaturalLoop
  <2>2. x \in BasicBlock /\ x # o
    BY <1>5, InNaturalLoop
  <2> DEFINE S == Reach(g, x, {o}) \cup Reach(g, o, {h})
  <2>3. x \in S /\ o \in S
    BY <1>0, <2>2, ReachStart
  <2>4. ASSUME NEW y \in S, NEW z \in Succs(g, y) \ {h} PROVE z \in S
    <3>1. CASE z = o
      BY <2>3, <3>1
    <3>2. CASE z # o
      BY <2>2, <2>4, <3>2, ReachStep
    <3> QED BY <3>1, <3>2
  <2>5. S \in SUBSET BasicBlock /\ ClosedUnder(g, {h}, S)
    BY <2>2, <2>4, ReachAvoids DEF ClosedUnder
  <2> HIDE DEF S
  <2>6. l \in S
    BY <2>1, <2>3, <2>5, ReachLeast
  <2>7. l \in Reach(g, x, {o})
    BY <1>2, <2>1, <2>6 DEF S
  <2>8. h \in Succs(g, l)
    BY <2>1, BackEdgeMeans
  <2> QED BY <1>0, <2>2, <2>7, <2>8, ReachStep
<1>6. ASSUME NEW x \in NaturalLoop(g, h) PROVE x \in NaturalLoop(g, o)
  <2>1. x \in BasicBlock
    BY InNaturalLoop
  <2>2. m \in Reach(g, x, {o})
    BY <1>4, <1>5, ReachTransitive
  <2> QED BY <1>1, <2>1, <2>2, InNaturalLoop
<1> QED BY <1>6

\* What structured code is, edge by edge.
LEMMA StructuredMeans ==
  ASSUME NEW g \in BuiltGraphs, Structured(g)
  PROVE  /\ Reachable(g) = BasicBlock
         /\ CutsCycles(Without(g, BackEdges(g)), {})
         /\ \A l, h : <<l, h>> \in BackEdges(g) =>
              /\ l \in BasicBlock /\ h \in BasicBlock /\ l # h /\ h \in Succs(g, l)
              /\ l \notin Reach(g, root, {h}) /\ l \in StrictlyDominated(g)[h]
              /\ \A m : <<m, h>> \in BackEdges(g) => m = l
              /\ \A e, f \in 1 .. 2 : g[l][e] = h /\ g[l][f] = h => e = f
<1>1. /\ Reachable(g) = BasicBlock
      /\ CutsCycles(Without(g, BackEdges(g)), {})
      /\ \A e \in BackEdges(g) : e[1] # e[2] /\ Cardinality(Edges(g, e[1], e[2])) = 1
      /\ \A e, f \in BackEdges(g) : e[2] = f[2] => e = f
  BY DEF Structured
<1>2. ASSUME NEW l, NEW h, <<l, h>> \in BackEdges(g)
      PROVE  /\ l \in BasicBlock /\ h \in BasicBlock /\ l # h /\ h \in Succs(g, l)
             /\ l \notin Reach(g, root, {h}) /\ l \in StrictlyDominated(g)[h]
             /\ \A m : <<m, h>> \in BackEdges(g) => m = l
             /\ \A e, f \in 1 .. 2 : g[l][e] = h /\ g[l][f] = h => e = f
  <2>1. \A x, y : <<x, y>>[1] = x /\ <<x, y>>[2] = y
    OBVIOUS
  <2>2. l # h /\ Cardinality(Edges(g, l, h)) = 1
    BY <1>1, <1>2, <2>1
  <2>3. \A m : <<m, h>> \in BackEdges(g) => m = l
    <3> SUFFICES ASSUME NEW m, <<m, h>> \in BackEdges(g) PROVE m = l
      OBVIOUS
    <3>1. <<m, h>> = <<l, h>>
      BY <1>1, <1>2, <2>1
    <3> QED BY <3>1
  <2>4. l \in BasicBlock /\ h \in BasicBlock /\ h \in Succs(g, l) /\ l \notin Reach(g, root, {h})
    BY <1>1, <1>2, <2>2, BackEdgeMeans
  <2>5. <<h, l>> \in Dominance(g)
    BY <1>1, <2>4, DominanceIsCut
  <2>6. l \in StrictlyDominated(g)[h]
    BY <1>1, <2>2, <2>4, <2>5 DEF StrictlyDominated
  <2>7. \A e, f \in 1 .. 2 : g[l][e] = h /\ g[l][f] = h => e = f
    <3>1. IsFiniteSet(Edges(g, l, h))
      <4>1. IsFiniteSet(1 .. 2)
        <5>1. 1 \in Int /\ 2 \in Int
          OBVIOUS
        <5> QED BY <5>1, FS_Interval, Zenon
      <4> QED BY <4>1, FS_Subset DEF Edges
    <3>2. PICK x : Edges(g, l, h) = {x}
      BY <2>2, <3>1, FS_Singleton
    <3> QED BY <3>2 DEF Edges
  <2> QED BY <2>2, <2>3, <2>4, <2>6, <2>7
<1> QED BY <1>1, <1>2

(***************************************************************************)
(* The graph without some edges.                                           *)
(***************************************************************************)

\* Its edges are the others.
LEMMA WithoutSuccs ==
  ASSUME NEW g \in BuiltGraphs, NEW edges, NEW b \in BasicBlock
  PROVE  Succs(Without(g, edges), b) = {c \in Succs(g, b) : <<b, c>> \notin edges}
<1>1. \A e \in 1 .. 2 :
        Without(g, edges)[b][e] = IF <<b, g[b][e]>> \in edges THEN nullptr ELSE g[b][e]
  BY DEF Without
<1> QED BY <1>1 DEF Succs

\* What can be reached with them can be reached in the whole graph.
LEMMA WithoutReaches ==
  ASSUME NEW g \in BuiltGraphs, NEW edges, NEW from, NEW avoid
  PROVE  Reach(Without(g, edges), from, avoid) \subseteq Reach(g, from, avoid)
<1>1. ASSUME NEW S \in SUBSET BasicBlock, ClosedUnder(g, avoid, S)
      PROVE  ClosedUnder(Without(g, edges), avoid, S)
  <2>1. ASSUME NEW b \in S PROVE Succs(Without(g, edges), b) \ avoid \subseteq S
    <3>1. b \in BasicBlock /\ Succs(g, b) \ avoid \subseteq S
      BY <1>1 DEF ClosedUnder
    <3>2. Succs(Without(g, edges), b) = {c \in Succs(g, b) : <<b, c>> \notin edges}
      BY ZenonT(60), <3>1, WithoutSuccs
    <3> QED BY <3>1, <3>2
  <2> QED BY <2>1 DEF ClosedUnder
<1> SUFFICES ASSUME NEW b \in Reach(Without(g, edges), from, avoid)
             PROVE  b \in Reach(g, from, avoid)
  OBVIOUS
<1>2. from \notin avoid /\ b \in BasicBlock
  BY DEF Reach
<1>3. ASSUME NEW S \in SUBSET BasicBlock, from \in S, ClosedUnder(g, avoid, S) PROVE b \in S
  <2>1. ClosedUnder(Without(g, edges), avoid, S)
    BY <1>1, <1>3
  <2> QED BY <1>3, <2>1, ReachLeast
<1> QED BY <1>2, <1>3 DEF Reach

=============================================================================
