--------------------------- MODULE VectorsProofs ---------------------------
(***************************************************************************)
(* Facts about natural numbers and vectors that the proofs of the other    *)
(* modules cite.                                                           *)
(***************************************************************************)
EXTENDS Vectors, SequenceTheorems, FiniteSetTheorems, WellFoundedInduction, TLAPS

\* Every non-empty set of natural numbers has a least element.
LEMMA NatHasLeast ==
  ASSUME NEW T, T \subseteq Nat, T # {}
  PROVE  \E m \in T : \A k \in T : m <= k
<1> DEFINE R == {p \in Nat \X Nat : p[1] < p[2]}
<1>1. OpToRel(<, Nat) = R
  BY DEF OpToRel
<1>2. IsWellFoundedOn(R, Nat)
  BY <1>1, NatLessThanWellFounded
<1>3. PICK m \in T : \A k \in T : ~ (<<k, m>> \in R)
  BY <1>2, WFMin
<1>4. \A k \in T : m <= k
  <2>1. TAKE k \in T
  <2>2. ~ (<<k, m>> \in R) /\ k \in Nat /\ m \in Nat
    BY <1>3
  <2>3. <<k, m>> \in Nat \X Nat
    BY <2>2
  <2>4. ~ (k < m)
    BY <2>2, <2>3
  <2> QED BY <2>2, <2>4
<1> QED BY <1>4

\* The elements of a prefix are those of the sequence.
LEMMA PrefixProperties ==
  ASSUME NEW S, NEW s \in Seq(S), NEW n \in 0 .. Len(s)
  PROVE  /\ SubSeq(s, 1, n) \in Seq(S)
         /\ Len(SubSeq(s, 1, n)) = n
         /\ \A j \in 1 .. n : SubSeq(s, 1, n)[j] = s[j]
OBVIOUS

\* The elements of a suffix that starts at position k.
LEMMA SuffixProperties ==
  ASSUME NEW S, NEW s \in Seq(S), NEW k \in 1 .. Len(s) + 1
  PROVE  /\ SubSeq(s, k, Len(s)) \in Seq(S)
         /\ Len(SubSeq(s, k, Len(s))) = (Len(s) + 1) - k
         /\ \A j \in k .. Len(s) : SubSeq(s, k, Len(s))[(j - k) + 1] = s[j]
OBVIOUS

\* The elements of a concatenation, by their position in the parts.
LEMMA ConcatElements ==
  ASSUME NEW S, NEW u \in Seq(S), NEW v \in Seq(S)
  PROVE  /\ u \o v \in Seq(S)
         /\ Len(u \o v) = Len(u) + Len(v)
         /\ \A j \in 1 .. Len(u) : (u \o v)[j] = u[j]
         /\ \A j \in 1 .. Len(v) : (u \o v)[Len(u) + j] = v[j]
OBVIOUS

\* pop_back leaves all elements but the last, in their places.
LEMMA PopBackProperties ==
  ASSUME NEW S, NEW s \in Seq(S), s # <<>>
  PROVE  /\ PopBack(s) \in Seq(S)
         /\ Len(PopBack(s)) = Len(s) - 1
         /\ \A j \in 1 .. Len(s) - 1 : PopBack(s)[j] = s[j]
<1>1. Len(s) - 1 \in 0 .. Len(s)
  OBVIOUS
<1> QED BY <1>1, PrefixProperties DEF PopBack

\* erase leaves all elements but the one at its position.
LEMMA EraseProperties ==
  ASSUME NEW S, NEW s \in Seq(S), NEW k \in 1 .. Len(s)
  PROVE  /\ Erase(s, k) \in Seq(S)
         /\ Len(Erase(s, k)) = Len(s) - 1
         /\ \A j \in 1 .. k - 1 : Erase(s, k)[j] = s[j]
         /\ \A j \in k .. Len(s) - 1 : Erase(s, k)[j] = s[j + 1]
<1> DEFINE u == SubSeq(s, 1, k - 1)
           v == SubSeq(s, k + 1, Len(s))
<1>0. k - 1 \in 0 .. Len(s) /\ k + 1 \in 1 .. Len(s) + 1 /\ Len(s) \in Nat
  OBVIOUS
<1>1. /\ u \in Seq(S) /\ Len(u) = k - 1
      /\ \A j \in 1 .. k - 1 : u[j] = s[j]
  BY <1>0, PrefixProperties
<1>2. /\ v \in Seq(S) /\ Len(v) = (Len(s) + 1) - (k + 1)
      /\ \A j \in k + 1 .. Len(s) : v[(j - (k + 1)) + 1] = s[j]
  BY <1>0, SuffixProperties
<1>3. Erase(s, k) = u \o v
  BY DEF Erase
<1> HIDE DEF u, v
<1>4. /\ Erase(s, k) \in Seq(S)
      /\ Len(Erase(s, k)) = Len(u) + Len(v)
      /\ \A j \in 1 .. Len(u) : Erase(s, k)[j] = u[j]
      /\ \A j \in 1 .. Len(v) : Erase(s, k)[Len(u) + j] = v[j]
  <2>1. u \in Seq(S) /\ v \in Seq(S)
    BY <1>1, <1>2
  <2> QED BY <1>3, <2>1, ConcatElements
<1>5. ASSUME NEW j \in k .. Len(s) - 1
      PROVE  Erase(s, k)[j] = s[j + 1]
  <2>1. /\ (j + 1) - (k + 1) + 1 \in 1 .. Len(v)
        /\ j + 1 \in k + 1 .. Len(s)
        /\ Len(u) + ((j + 1) - (k + 1) + 1) = j
    BY <1>0, <1>1, <1>2
  <2> QED BY <1>2, <1>4, <2>1
<1> QED BY <1>0, <1>1, <1>2, <1>4, <1>5

\* insert adds one element at its position and moves those behind it up.
LEMMA InsertProperties ==
  ASSUME NEW S, NEW s \in Seq(S), NEW k \in 1 .. Len(s) + 1, NEW e \in S
  PROVE  /\ Insert(s, k, e) \in Seq(S)
         /\ Len(Insert(s, k, e)) = Len(s) + 1
         /\ \A j \in 1 .. k - 1 : Insert(s, k, e)[j] = s[j]
         /\ Insert(s, k, e)[k] = e
         /\ \A j \in k .. Len(s) : Insert(s, k, e)[j + 1] = s[j]
<1> DEFINE u == SubSeq(s, 1, k - 1)
           w == u \o <<e>>
           v == SubSeq(s, k, Len(s))
<1>0. k - 1 \in 0 .. Len(s) /\ k \in Nat /\ Len(s) \in Nat
  OBVIOUS
<1>1. /\ u \in Seq(S) /\ Len(u) = k - 1
      /\ \A j \in 1 .. k - 1 : u[j] = s[j]
  BY <1>0, PrefixProperties
<1>2. /\ v \in Seq(S) /\ Len(v) = (Len(s) + 1) - k
      /\ \A j \in k .. Len(s) : v[(j - k) + 1] = s[j]
  BY <1>0, SuffixProperties
<1>3. Insert(s, k, e) = w \o v
  BY DEF Insert
<1> HIDE DEF u, v
<1>4. <<e>> \in Seq(S) /\ Len(<<e>>) = 1 /\ <<e>>[1] = e
  OBVIOUS
<1>5. /\ w \in Seq(S) /\ Len(w) = k
      /\ \A j \in 1 .. k - 1 : w[j] = s[j]
      /\ w[k] = e
  <2>1. /\ w \in Seq(S) /\ Len(w) = Len(u) + 1
        /\ \A j \in 1 .. Len(u) : w[j] = u[j]
        /\ w[Len(u) + 1] = e
    BY <1>1, <1>4, ConcatElements
  <2> QED BY <1>0, <1>1, <2>1
<1> HIDE DEF w
<1>6. /\ Insert(s, k, e) \in Seq(S)
      /\ Len(Insert(s, k, e)) = Len(w) + Len(v)
      /\ \A j \in 1 .. Len(w) : Insert(s, k, e)[j] = w[j]
      /\ \A j \in 1 .. Len(v) : Insert(s, k, e)[Len(w) + j] = v[j]
  BY <1>2, <1>3, <1>5, ConcatElements, SMTT(30)
<1>7. ASSUME NEW j \in k .. Len(s)
      PROVE  Insert(s, k, e)[j + 1] = s[j]
  <2>1. (j - k) + 1 \in 1 .. Len(v) /\ Len(w) + ((j - k) + 1) = j + 1
    BY <1>0, <1>2, <1>5
  <2> QED BY <1>2, <1>6, <2>1
<1>8. 1 .. k - 1 \subseteq 1 .. Len(w) /\ k \in 1 .. Len(w)
  BY <1>0, <1>5
<1> QED BY <1>0, <1>2, <1>5, <1>6, <1>7, <1>8

\* No two places of the sequence hold the same.
Distinct(s) == \A j, k \in 1 .. Len(s) : s[j] = s[k] => j = k

(***************************************************************************)
(* The stack and the vector as sets.                                       *)
(***************************************************************************)

\* A call is pushed in front of the others.
LEMMA PushProperties ==
  ASSUME NEW T, NEW f \in T, NEW s \in Seq(T)
  PROVE  /\ <<f>> \o s \in Seq(T)
         /\ Len(<<f>> \o s) = Len(s) + 1
         /\ (<<f>> \o s)[1] = f
         /\ \A k \in 1 .. Len(s) : (<<f>> \o s)[k + 1] = s[k]
         /\ Elements(<<f>> \o s) = {f} \cup Elements(s)
<1> DEFINE t == <<f>> \o s
<1>1. t \in Seq(T) /\ Len(t) = Len(s) + 1 /\ t[1] = f
  OBVIOUS
<1>2. \A k \in 1 .. Len(s) : t[k + 1] = s[k]
  OBVIOUS
<1>3. \A k \in 1 .. Len(t) : k = 1 \/ (k - 1 \in 1 .. Len(s) /\ t[k] = s[k - 1])
  OBVIOUS
<1> HIDE DEF t
<1>4. 1 \in 1 .. Len(t) /\ \A k \in 1 .. Len(s) : k + 1 \in 1 .. Len(t)
  BY <1>1
<1>5. ASSUME NEW x \in Elements(t) PROVE x \in {f} \cup Elements(s)
  <2>1. PICK k \in 1 .. Len(t) : x = t[k]
    BY DEF Elements
  <2>2. k = 1 \/ (k - 1 \in 1 .. Len(s) /\ x = s[k - 1])
    BY <1>3, <2>1
  <2> QED BY <1>1, <2>1, <2>2 DEF Elements
<1>6. f \in Elements(t)
  BY <1>1, <1>4 DEF Elements
<1>7. ASSUME NEW k \in 1 .. Len(s) PROVE s[k] \in Elements(t)
  BY <1>2, <1>4 DEF Elements
<1>8. Elements(s) \subseteq Elements(t)
  BY <1>7 DEF Elements
<1>9. Elements(t) = {f} \cup Elements(s)
  BY <1>5, <1>6, <1>8
<1> QED BY <1>1, <1>2, <1>9 DEF t

\* The running call is one of the calls, the others are behind it.
LEMMA PopProperties ==
  ASSUME NEW T, NEW s \in Seq(T), s # <<>>
  PROVE  /\ Head(s) \in T /\ Tail(s) \in Seq(T)
         /\ Len(s) = Len(Tail(s)) + 1
         /\ Head(s) = s[1]
         /\ \A k \in 1 .. Len(Tail(s)) : Tail(s)[k] = s[k + 1]
         /\ Elements(s) = {Head(s)} \cup Elements(Tail(s))
<1>1. /\ Head(s) \in T /\ Tail(s) \in Seq(T) /\ Head(s) = s[1]
      /\ Len(s) = Len(Tail(s)) + 1
  OBVIOUS
<1>2. \A k \in 1 .. Len(Tail(s)) : Tail(s)[k] = s[k + 1]
  OBVIOUS
<1>3. s = <<Head(s)>> \o Tail(s)
  OBVIOUS
<1>4. Elements(s) = {Head(s)} \cup Elements(Tail(s))
  BY <1>1, <1>3, PushProperties, ZenonT(60)
<1> QED BY <1>1, <1>2, <1>4

\* push_back adds a block that was not there.
LEMMA PushBackProperties ==
  ASSUME NEW T, NEW s \in Seq(T), NEW b \in T
  PROVE  /\ Append(s, b) \in Seq(T)
         /\ Elements(Append(s, b)) = Elements(s) \cup {b}
         /\ b \notin Elements(s) /\ Distinct(s) => Distinct(Append(s, b))
<1> DEFINE t == Append(s, b)
<1>1. /\ t \in Seq(T) /\ Len(t) = Len(s) + 1 /\ t[Len(s) + 1] = b
      /\ \A k \in 1 .. Len(s) : t[k] = s[k]
  OBVIOUS
<1> HIDE DEF t
<1>2. 1 .. Len(t) = 1 .. Len(s) \cup {Len(s) + 1}
  BY <1>1
<1>3. Elements(t) = Elements(s) \cup {b}
  BY ONLY <1>1, <1>2 DEF Elements
<1>4. b \notin Elements(s) /\ Distinct(s) => Distinct(t)
  BY ONLY <1>1, <1>2 DEF Elements, Distinct
<1> QED BY <1>1, <1>3, <1>4 DEF t

\* The calls on the stack are for different blocks.
DistinctCalls(s) == \A j, k \in 1 .. Len(s) : s[j].bb = s[k].bb => j = k

\* A call for a block that no other call is for may be pushed.
LEMMA PushKeepsDistinctCalls ==
  ASSUME NEW T, NEW f \in T, NEW s \in Seq(T), DistinctCalls(s),
         \A g \in Elements(s) : g.bb # f.bb
  PROVE  DistinctCalls(<<f>> \o s)
<1> DEFINE t == <<f>> \o s
<1>1. /\ Len(t) = Len(s) + 1 /\ t[1] = f /\ Len(s) \in Nat
      /\ \A k \in 1 .. Len(t) : k = 1 \/ (k - 1 \in 1 .. Len(s) /\ t[k] = s[k - 1])
  OBVIOUS
<1> HIDE DEF t
<1>2. \A k \in 1 .. Len(s) : s[k] \in Elements(s)
  BY DEF Elements
<1>3. \A j, k \in 1 .. Len(t) : t[j].bb = t[k].bb => j = k
  <2> TAKE j, k \in 1 .. Len(t)
  <2> HAVE t[j].bb = t[k].bb
  <2>1. CASE j = 1
    BY <1>1, <1>2, <2>1
  <2>2. CASE k = 1
    BY <1>1, <1>2, <2>2
  <2>3. CASE j # 1 /\ k # 1
    <3>1. j - 1 \in 1 .. Len(s) /\ k - 1 \in 1 .. Len(s) /\ s[j - 1].bb = s[k - 1].bb
      BY <1>1, <2>3
    <3>2. j - 1 = k - 1
      BY <3>1 DEF DistinctCalls
    <3> QED BY <3>2
  <2> QED BY <2>1, <2>2, <2>3
<1> QED BY <1>3 DEF DistinctCalls, t

\* So may the running call be popped.
LEMMA PopKeepsDistinctCalls ==
  ASSUME NEW T, NEW s \in Seq(T), s # <<>>, DistinctCalls(s)
  PROVE  /\ DistinctCalls(Tail(s))
         /\ \A g \in Elements(Tail(s)) : g.bb # Head(s).bb
<1>1. /\ Len(s) = Len(Tail(s)) + 1 /\ Head(s) = s[1] /\ Tail(s) \in Seq(T)
      /\ \A k \in 1 .. Len(Tail(s)) : Tail(s)[k] = s[k + 1]
  BY PopProperties
<1>2. Len(Tail(s)) \in Nat
  BY <1>1
<1>3. \A k \in 1 .. Len(Tail(s)) : k + 1 \in 1 .. Len(s) /\ k + 1 # 1
  BY <1>1, <1>2
<1>4. DistinctCalls(Tail(s))
  <2> SUFFICES ASSUME NEW j \in 1 .. Len(Tail(s)), NEW k \in 1 .. Len(Tail(s)),
                      Tail(s)[j].bb = Tail(s)[k].bb
               PROVE  j = k
    BY DEF DistinctCalls
  <2>1. j + 1 = k + 1
    BY <1>1, <1>3 DEF DistinctCalls
  <2> QED BY <2>1
<1>5. \A g \in Elements(Tail(s)) : g.bb # Head(s).bb
  <2> SUFFICES ASSUME NEW k \in 1 .. Len(Tail(s)) PROVE Tail(s)[k].bb # Head(s).bb
    BY DEF Elements
  <2>1. 1 \in 1 .. Len(s)
    BY <1>1, <1>2
  <2> QED BY <1>1, <1>3, <2>1 DEF DistinctCalls
<1> QED BY <1>4, <1>5

\* How many of the places that are kept come before place k.
Rank(kept, k) == Cardinality({j \in kept : j < k})

\* A place that is kept is told by its rank, and there are no gaps.
LEMMA RankIsUnique ==
  ASSUME NEW n \in Nat, NEW kept \in SUBSET (1 .. n)
  PROVE  /\ Cardinality(kept) \in Nat
         /\ \A k \in kept : Rank(kept, k) \in 0 .. Cardinality(kept) - 1
         /\ \A k, m \in kept : Rank(kept, k) = Rank(kept, m) => k = m
         /\ \A r \in 0 .. Cardinality(kept) - 1 : \E k \in kept : Rank(kept, k) = r
<1> DEFINE Before(k) == {j \in kept : j < k}
           c == Cardinality(kept)
           rank == [k \in kept |-> Rank(kept, k)]
<1>0. \A k : Rank(kept, k) = Cardinality(Before(k))
  BY DEF Rank
<1>1. IsFiniteSet(kept) /\ c \in Nat
  <2>1. IsFiniteSet(1 .. n)
    BY FS_Interval
  <2> QED BY <2>1, FS_Subset, FS_CardinalityType
<1>2. ASSUME NEW k \in kept
      PROVE  IsFiniteSet(Before(k)) /\ Cardinality(Before(k)) \in 0 .. c - 1
  <2>1. IsFiniteSet(kept \ {k}) /\ Cardinality(kept \ {k}) = c - 1
    BY <1>1, FS_RemoveElement
  <2>2. Before(k) \subseteq kept \ {k}
    BY SMT
  <2>3. IsFiniteSet(Before(k)) /\ Cardinality(Before(k)) <= c - 1
    BY <2>1, <2>2, FS_Subset
  <2>4. Cardinality(Before(k)) \in Nat
    BY <2>3, FS_CardinalityType
  <2> QED BY <1>1, <2>3, <2>4
<1>3. ASSUME NEW k \in kept, NEW m \in kept, k < m
      PROVE  Cardinality(Before(k)) < Cardinality(Before(m))
  <2>0. k \in Nat /\ m \in Nat /\ kept \subseteq Nat
    OBVIOUS
  <2>1. Before(k) \cup {k} \subseteq Before(m) /\ k \notin Before(k)
    <3>1. ~ (k < k)
      BY <2>0
    <3>2. ASSUME NEW j \in kept, j < k PROVE j < m
      BY <1>3, <2>0, <3>2
    <3> QED BY <1>3, <3>1, <3>2
  <2>2. /\ IsFiniteSet(Before(k) \cup {k})
        /\ Cardinality(Before(k) \cup {k}) = Cardinality(Before(k)) + 1
    BY <1>2, <2>1, FS_AddElement
  <2>3. Cardinality(Before(k) \cup {k}) <= Cardinality(Before(m))
    BY <1>2, <2>1, FS_Subset
  <2> HIDE DEF Before
  <2> QED BY <1>2, <2>2, <2>3
<1> HIDE DEF Before
<1>4. \A k, m \in kept : Rank(kept, k) = Rank(kept, m) => k = m
  <2> SUFFICES ASSUME NEW k \in kept, NEW m \in kept, Rank(kept, k) = Rank(kept, m)
               PROVE  k = m
    OBVIOUS
  <2>1. k \in Int /\ m \in Int
    OBVIOUS
  <2>2. ~ (k < m) /\ ~ (m < k)
    BY <1>0, <1>2, <1>3
  <2> QED BY <2>1, <2>2
<1>5. rank \in [kept -> 0 .. c - 1]
  BY <1>0, <1>2
<1>6. rank \in Injection(kept, 0 .. c - 1)
  BY <1>4, <1>5 DEF Injection, IsInjective
<1>7. IsFiniteSet(0 .. c - 1) /\ Cardinality(0 .. c - 1) = c
  BY SMTT(30), <1>1, FS_Interval
<1>8. rank \in Surjection(kept, 0 .. c - 1)
  <2> HIDE DEF rank
  <2> QED BY <1>6, <1>7, FS_Injection
<1>9. \A r \in 0 .. c - 1 : \E k \in kept : rank[k] = r
  <2> HIDE DEF rank
  <2> QED BY <1>8 DEF Surjection
<1> QED BY <1>0, <1>1, <1>2, <1>4, <1>9

\* The loop appends what it finds at the places it keeps, and nothing else.
LEMMA KeptElements ==
  ASSUME NEW T, NEW s \in Seq(T), NEW kept \in SUBSET (1 .. Len(s))
  PROVE  Kept(s, kept) \in Seq(T) /\ Elements(Kept(s, kept)) = {s[k] : k \in kept}
<1> DEFINE c == Cardinality(kept)
           At(n) == CHOOSE k \in kept : Rank(kept, k) = n - 1
           t == Kept(s, kept)
<1>1. /\ c \in Nat
      /\ \A k \in kept : Rank(kept, k) \in 0 .. c - 1
      /\ \A k, m \in kept : Rank(kept, k) = Rank(kept, m) => k = m
      /\ \A r \in 0 .. c - 1 : \E k \in kept : Rank(kept, k) = r
  <2>1. Len(s) \in Nat
    OBVIOUS
  <2> QED BY <2>1, RankIsUnique
<1>2. t = [n \in 1 .. c |-> s[At(n)]]
  BY DEF Kept, Rank
<1>3. ASSUME NEW n \in 1 .. c PROVE At(n) \in kept /\ Rank(kept, At(n)) = n - 1
  <2>1. n - 1 \in 0 .. c - 1
    BY <1>1
  <2>2. \E k \in kept : Rank(kept, k) = n - 1
    BY <1>1, <2>1
  <2> QED BY <2>2
<1>4. ASSUME NEW k \in kept
      PROVE  \E n \in 1 .. c : At(n) = k
  <2>1. Rank(kept, k) + 1 \in 1 .. c /\ (Rank(kept, k) + 1) - 1 = Rank(kept, k)
    BY <1>1
  <2>2. At(Rank(kept, k) + 1) = k
    <3> HIDE DEF At
    <3> QED BY <1>1, <1>3, <2>1
  <2> QED BY <2>1, <2>2
<1> HIDE DEF At, t
<1>5. t \in Seq(T) /\ Len(t) = c
  <2>1. ASSUME NEW n \in 1 .. c PROVE s[At(n)] \in T
    <3>1. At(n) \in 1 .. Len(s)
      BY <1>3
    <3> QED BY <3>1
  <2>2. t \in [1 .. c -> T]
    BY <1>2, <2>1
  <2> QED BY <1>1, <2>2
<1>6. Elements(t) = {s[k] : k \in kept}
  BY <1>2, <1>3, <1>4, <1>5 DEF Elements
<1> QED BY <1>5, <1>6 DEF t
=============================================================================
