---------------------------- MODULE PassesProofs ----------------------------
(***************************************************************************)
(* Why the passes keep what a function returns: what they put in the place *)
(* of an instruction computes the same, users lists tell them where it was *)
(* used, and the values of the other instructions follow in the order in   *)
(* which they were made.                                                   *)
(***************************************************************************)
EXTENDS Passes, VectorsProofs

----------------------------------------------------------------------------
\* Arithmetic.

\* The powers of two are natural numbers.
LEMMA Powers ==
  /\ PowerOf2[0] = 1
  /\ \A n \in 0 .. Width : PowerOf2[n] \in Nat \ {0}
<1> DEFINE Upto(n, f) == f = [i \in 0 .. n |-> IF i = 0 THEN 1 ELSE 2 * f[i - 1]]
           Missing == {n \in Nat : ~ \E f : Upto(n, f)}
<1>1. Missing = {}
  <2> SUFFICES ASSUME Missing # {} PROVE FALSE
    OBVIOUS
  <2> HIDE DEF Missing
  <2>1. PICK n \in Missing : \A k \in Missing : n <= k
    <3>1. Missing \subseteq Nat
      BY DEF Missing
    <3> QED BY <3>1, NatHasLeast
  <2>2. n \in Nat
    BY DEF Missing
  <2>3. CASE n = 0
    <3> DEFINE f == [i \in 0 .. 0 |-> 1]
    <3>1. Upto(0, f)
      OBVIOUS
    <3> QED BY <2>3, <3>1 DEF Missing
  <2>4. CASE n # 0
    <3>1. n - 1 \in Nat /\ n - 1 \notin Missing
      BY <2>1, <2>2, <2>4
    <3>2. PICK g : Upto(n - 1, g)
      BY <3>1 DEF Missing
    <3> DEFINE f == [i \in 0 .. n |-> IF i = n THEN 2 * g[n - 1] ELSE g[i]]
    <3>3. ASSUME NEW i \in 0 .. n PROVE f[i] = IF i = 0 THEN 1 ELSE 2 * f[i - 1]
      BY <2>2, <2>4, <3>2
    <3>4. Upto(n, f)
      BY <3>3
    <3> HIDE DEF f
    <3> QED BY <2>2, <3>4 DEF Missing
  <2> QED BY <2>3, <2>4
<1>2. Upto(Width, PowerOf2)
  <2>1. PICK f : Upto(Width, f)
    BY <1>1, WidthAssumption
  <2> QED BY <2>1 DEF PowerOf2
<1>3. {n \in 0 .. Width : PowerOf2[n] \notin Nat \ {0}} = {}
  <2> DEFINE Bad == {n \in 0 .. Width : PowerOf2[n] \notin Nat \ {0}}
  <2> SUFFICES ASSUME Bad # {} PROVE FALSE
    OBVIOUS
  <2>1. PICK n \in Bad : \A k \in Bad : n <= k
    <3>1. Bad \subseteq Nat
      BY WidthAssumption
    <3> HIDE DEF Bad
    <3> QED BY <3>1, NatHasLeast
  <2>2. CASE n = 0
    BY <1>2, <2>2, WidthAssumption
  <2>3. CASE n # 0
    <3>1. n - 1 \in 0 .. Width /\ n - 1 \notin Bad /\ n \in 0 .. Width
      BY <2>1, <2>3, WidthAssumption
    <3>2. PowerOf2[n] = 2 * PowerOf2[n - 1] /\ PowerOf2[n - 1] \in Nat \ {0}
      BY <1>2, <2>3, <3>1
    <3> HIDE DEF Upto
    <3> QED BY <3>1, <3>2
  <2> QED BY <2>2, <2>3
<1>4. PowerOf2[0] = 1
  <2>1. 0 \in 0 .. Width
    BY WidthAssumption
  <2> QED BY <1>2, <2>1
<1> HIDE DEF Upto
<1> QED BY <1>3, <1>4

\* What an instruction may have for a value.
Value == Word \cup {Undefined}

\* Undefined is no value of Width bits, and all the values are natural numbers.
LEMMA ValueProperties ==
  /\ Undefined \in Nat \ {0} /\ Undefined \notin Word /\ 0 \in Word
  /\ Word \subseteq Nat /\ Value \subseteq Nat
  /\ \A n \in Nat : Wrap(n) \in Word
  /\ \A n \in Word : Wrap(n) = n
<1>1. Undefined \in Nat \ {0}
  BY Powers, WidthAssumption DEF Undefined
<1>2. Word = 0 .. Undefined - 1
  BY DEF Word, Undefined
<1>3. \A n : Wrap(n) = n % Undefined
  BY DEF Wrap, Undefined
<1> QED BY <1>1, <1>2, <1>3 DEF Value

\* A binary operation has a value, and none if an operand has none.
LEMMA ComputeProperties ==
  ASSUME NEW type \in Binary, NEW x \in Value, NEW y \in Value
  PROVE  /\ Compute(type, x, y) \in Value
         /\ Undefined \in {x, y} => Compute(type, x, y) = Undefined
<1> USE ValueProperties
<1>1. CASE Undefined \in {x, y}
  BY <1>1 DEF Compute, Value
<1>2. CASE Undefined \notin {x, y}
  <2>1. x \in Word /\ y \in Word /\ x \in Nat /\ y \in Nat
    BY <1>2 DEF Value
  <2>2. x + y \in Nat /\ x * y \in Nat
    BY <2>1
  <2>3. CASE type = "kShl" /\ y < Width
    <3>1. PowerOf2[y] \in Nat
      BY <2>1, <2>3, Powers, WidthAssumption
    <3>2. x * PowerOf2[y] \in Nat
      BY <2>1, <3>1
    <3> QED BY <1>2, <2>1, <2>3, <3>2, WidthAssumption DEF Compute, Value
  <2>4. CASE type = "kShl" /\ ~ (y < Width)
    BY <1>2, <2>1, <2>4, WidthAssumption DEF Compute, Value
  <2>5. CASE type = "kOr"
    BY <1>2, <2>1, <2>5, BitOrAssumption DEF Compute, Value
  <2>6. CASE type \in {"kAdd", "kMul"}
    BY <1>2, <2>2, <2>6 DEF Compute, Value
  <2> QED BY <2>3, <2>4, <2>5, <2>6 DEF Binary
<1> QED BY <1>1, <1>2

\* The laws that the peepholes use.
LEMMA ComputeLaws ==
  ASSUME NEW x \in Word
  PROVE  /\ Compute("kMul", 1, x) \in {Undefined, x} /\ Compute("kMul", x, 1) \in {Undefined, x}
         /\ Compute("kMul", 0, x) \in {Undefined, 0} /\ Compute("kMul", x, 0) \in {Undefined, 0}
         /\ Compute("kOr", x, x) \in {Undefined, x} /\ Compute("kOr", 0, x) \in {Undefined, x}
         /\ Compute("kOr", x, 0) \in {Undefined, x} /\ Compute("kShl", x, 0) \in {Undefined, x}
         /\ Compute("kShl", 0, x) \in {Undefined, 0}
<1> USE ValueProperties
<1>1. x \in Nat
  OBVIOUS
<1>2. 1 * x = x /\ x * 1 = x /\ 0 * x = 0 /\ x * 0 = 0
  BY <1>1
<1>3. x * PowerOf2[0] = x
  BY <1>2, Powers
<1>4. x < Width => 0 * PowerOf2[x] = 0
  <2>1. x < Width => PowerOf2[x] \in Nat
    BY <1>1, Powers, WidthAssumption
  <2> QED BY <2>1
<1>5. BitOr(x, x) = x /\ BitOr(x, 0) = x /\ BitOr(0, x) = x
  BY BitOrAssumption
<1> QED BY <1>1, <1>2, <1>3, <1>4, <1>5, WidthAssumption DEF Compute

----------------------------------------------------------------------------
\* Heaps, users and operands.

\* What is in a heap of n instructions.
Instruction(n) ==
  [type : InstrType, operands : UNION {[1 .. m -> 1 .. n] : m \in 0 .. 2},
   value : Word, users : Seq(1 .. n)]

Heap(h) ==
  /\ h \in Seq(Instruction(Len(h)))
  /\ \A i \in 1 .. Len(h) : DOMAIN h[i].operands = 1 .. Arity(h[i].type)

\* n instructions, whatever the number of their operands.
Cells(h, n) == DOMAIN h = 1 .. n /\ \A i \in 1 .. n : h[i] \in Instruction(n)

\* The parts of an instruction.
LEMMA HeapParts ==
  ASSUME NEW h, Heap(h), NEW i \in DOMAIN h
  PROVE  /\ DOMAIN h = 1 .. Len(h) /\ Len(h) \in Nat /\ h[i] \in Instruction(Len(h))
         /\ h[i].type \in InstrType /\ h[i].value \in Word /\ h[i].users \in Seq(DOMAIN h)
         /\ h[i].operands \in [1 .. Arity(h[i].type) -> DOMAIN h]
         /\ ToSet(h[i].operands) \subseteq DOMAIN h /\ ToSet(h[i].users) \subseteq DOMAIN h
         /\ h[i].type \in {"kConst", "kArg"} => ToSet(h[i].operands) = {}
         /\ h[i].type \in {"kReturn", "kCall"} =>
              /\ h[i].operands[1] \in DOMAIN h /\ ToSet(h[i].operands) = {h[i].operands[1]}
              /\ DOMAIN h[i].operands = {1}
         /\ h[i].type \in Binary =>
              /\ DOMAIN h[i].operands = {1, 2}
              /\ h[i].operands[1] \in DOMAIN h /\ h[i].operands[2] \in DOMAIN h
              /\ ToSet(h[i].operands) = {h[i].operands[1], h[i].operands[2]}
<1>1. DOMAIN h = 1 .. Len(h) /\ Len(h) \in Nat /\ h[i] \in Instruction(Len(h))
  BY DEF Heap
<1>2. /\ h[i].type \in InstrType /\ h[i].value \in Word /\ h[i].users \in Seq(DOMAIN h)
      /\ h[i].operands \in UNION {[1 .. m -> DOMAIN h] : m \in 0 .. 2}
  BY <1>1 DEF Instruction
<1>3. h[i].operands \in [1 .. Arity(h[i].type) -> DOMAIN h]
  BY <1>1, <1>2 DEF Heap
<1>4. ToSet(h[i].operands) \subseteq DOMAIN h /\ ToSet(h[i].users) \subseteq DOMAIN h
  BY <1>2, <1>3 DEF ToSet
<1>5. h[i].type \in {"kConst", "kArg"} => ToSet(h[i].operands) = {}
  BY <1>3 DEF ToSet, Arity, Binary
<1>6. h[i].type \in {"kReturn", "kCall"} =>
        /\ h[i].operands[1] \in DOMAIN h /\ ToSet(h[i].operands) = {h[i].operands[1]}
        /\ DOMAIN h[i].operands = {1}
  BY <1>3 DEF ToSet, Arity, Binary
<1>7. h[i].type \in Binary =>
        /\ DOMAIN h[i].operands = {1, 2}
        /\ h[i].operands[1] \in DOMAIN h /\ h[i].operands[2] \in DOMAIN h
        /\ ToSet(h[i].operands) = {h[i].operands[1], h[i].operands[2]}
  BY <1>3 DEF ToSet, Arity
<1> QED BY <1>1, <1>2, <1>3, <1>4, <1>5, <1>6, <1>7

\* A function that gives an instruction for 1 .. n is a sequence of them.
LEMMA HeapFromParts ==
  ASSUME NEW n \in Nat, NEW h, h = [i \in 1 .. n |-> h[i]],
         \A i \in 1 .. n : h[i] \in Instruction(n) /\ DOMAIN h[i].operands = 1 .. Arity(h[i].type)
  PROVE  Heap(h) /\ Len(h) = n /\ DOMAIN h = 1 .. n
<1>1. h \in [1 .. n -> Instruction(n)]
  BY Zenon
<1>2. h \in Seq(Instruction(n)) /\ Len(h) = n
  BY <1>1
<1> QED BY <1>1, <1>2 DEF Heap

\* The elements of two sequences put together.
LEMMA ConcatSet ==
  ASSUME NEW S, NEW u \in Seq(S), NEW v \in Seq(S)
  PROVE  u \o v \in Seq(S) /\ ToSet(u \o v) = ToSet(u) \cup ToSet(v)
<1>1. u \o v \in Seq(S) /\ Len(u \o v) = Len(u) + Len(v)
  OBVIOUS
<1>2. /\ \A j \in 1 .. Len(u) : (u \o v)[j] = u[j]
      /\ \A j \in 1 .. Len(v) : (u \o v)[Len(u) + j] = v[j]
  BY ConcatElements
<1>3. Len(u) \in Nat /\ Len(v) \in Nat /\ DOMAIN (u \o v) = 1 .. Len(u) + Len(v)
      /\ DOMAIN u = 1 .. Len(u) /\ DOMAIN v = 1 .. Len(v)
  BY <1>1
<1> DEFINE w == u \o v
<1>4. ASSUME NEW x \in ToSet(w) PROVE x \in ToSet(u) \cup ToSet(v)
  <2>1. PICK j \in 1 .. Len(u) + Len(v) : w[j] = x
    BY <1>3, <1>4 DEF ToSet
  <2>2. CASE j \in 1 .. Len(u)
    BY <1>2, <1>3, <2>1, <2>2 DEF ToSet
  <2>3. CASE j \notin 1 .. Len(u)
    <3>1. j - Len(u) \in 1 .. Len(v) /\ j = Len(u) + (j - Len(u))
      BY <1>3, <2>3
    <3>2. w[j] = v[j - Len(u)]
      BY <1>2, <3>1
    <3> QED BY <1>3, <2>1, <3>1, <3>2 DEF ToSet
  <2> QED BY <2>2, <2>3
<1>5. ASSUME NEW x \in ToSet(u) \cup ToSet(v) PROVE x \in ToSet(w)
  <2>1. CASE x \in ToSet(u)
    <3>1. PICK j \in 1 .. Len(u) : u[j] = x
      BY <1>3, <2>1 DEF ToSet
    <3>2. j \in DOMAIN w /\ w[j] = x
      BY <1>2, <1>3, <3>1
    <3> QED BY <3>2 DEF ToSet
  <2>2. CASE x \in ToSet(v)
    <3>1. PICK j \in 1 .. Len(v) : v[j] = x
      BY <1>3, <2>2 DEF ToSet
    <3>2. Len(u) + j \in DOMAIN w /\ w[Len(u) + j] = x
      BY <1>2, <1>3, <3>1
    <3> QED BY <3>2 DEF ToSet
  <2> QED BY <1>5, <2>1, <2>2
<1> QED BY <1>1, <1>4, <1>5

\* Instruction i after i->add_user(user) for each i of s, in g, and before it, in h.
UserAdded(g, h, user, s, i) ==
  /\ g[i].type = h[i].type /\ g[i].value = h[i].value /\ g[i].operands = h[i].operands
  /\ ToSet(g[i].users) = ToSet(h[i].users) \cup IF i \in ToSet(s) THEN {user} ELSE {}

\* Who is registered as a user of what after that.
LEMMA AddUserEffect ==
  ASSUME NEW h, NEW n \in Nat, Cells(h, n),
         NEW user \in 1 .. n, NEW s \in Seq(1 .. n),
         NEW g, g = AddUser(h, user, s), NEW i \in 1 .. n
  PROVE  /\ g = [j \in 1 .. n |-> g[j]]
         /\ g[i] \in Instruction(n)
         /\ UserAdded(g, h, user, s, i)
<1> DEFINE uses == {k \in DOMAIN s : s[k] = i}
           more == [k \in 1 .. Cardinality(uses) |-> user]
<1>1. g = [j \in 1 .. n |-> g[j]] /\ g[i] = [h[i] EXCEPT !.users = @ \o more]
  BY DEF AddUser, Cells
<1>2. h[i] \in Instruction(n) /\ h[i].users \in Seq(1 .. n)
  BY DEF Instruction, Cells
<1>3. Cardinality(uses) \in Nat /\ (Cardinality(uses) = 0 <=> uses = {})
  <2>1. IsFiniteSet(DOMAIN s)
    BY FS_Interval
  <2>2. IsFiniteSet(uses)
    BY <2>1, FS_Subset
  <2> QED BY <2>2, FS_CardinalityType, FS_EmptySet
<1>4. more \in Seq(1 .. n) /\ Len(more) = Cardinality(uses)
  BY <1>3
<1>5. ToSet(more) = IF i \in ToSet(s) THEN {user} ELSE {}
  <2>1. i \in ToSet(s) <=> uses # {}
    BY DEF ToSet
  <2>2. uses # {} => 1 \in DOMAIN more
    BY <1>3, <1>4
  <2> HIDE DEF uses
  <2> QED BY <1>3, <1>4, <2>1, <2>2 DEF ToSet
<1> HIDE DEF more
<1>6. /\ h[i].users \o more \in Seq(1 .. n)
      /\ ToSet(h[i].users \o more) = ToSet(h[i].users) \cup ToSet(more)
  BY <1>2, <1>4, ConcatSet
<1>7. g[i] \in Instruction(n) /\ g[i].users = h[i].users \o more
  BY <1>1, <1>2, <1>6 DEF Instruction
<1> QED BY <1>1, <1>2, <1>5, <1>6, <1>7 DEF Instruction, UserAdded

\* Instruction i after replace_instr_uses, in g, and before it, in h.
UsesReplaced(g, h, from, to, i) ==
  /\ g[i].type = h[i].type /\ g[i].value = h[i].value
  /\ g[i].operands =
       IF i \in ToSet(h[from].users) THEN Replaced(h[i].operands, from, to) ELSE h[i].operands
  /\ ToSet(g[i].users) = ToSet(h[i].users) \cup IF i = to THEN ToSet(h[from].users) ELSE {}

\* What replace_instr_uses does to operands and users.
LEMMA ReplaceUsesEffect ==
  ASSUME NEW h, NEW n \in Nat, Cells(h, n), NEW from \in 1 .. n, NEW to \in 1 .. n,
         NEW g, g = ReplaceUses(h, from, to), NEW i \in 1 .. n
  PROVE  /\ g = [j \in 1 .. n |-> g[j]]
         /\ g[i] \in Instruction(n)
         /\ UsesReplaced(g, h, from, to, i)
<1>1. /\ g = [j \in 1 .. n |-> g[j]]
      /\ g[i] = [h[i] EXCEPT
           !.operands = IF i \in ToSet(h[from].users) THEN Replaced(@, from, to) ELSE @,
           !.users = IF i = to THEN @ \o h[from].users ELSE @]
  BY DEF ReplaceUses, Cells
<1>2. /\ h[i] \in Instruction(n) /\ h[i].users \in Seq(1 .. n) /\ h[from].users \in Seq(1 .. n)
      /\ h[i].operands \in UNION {[1 .. m -> 1 .. n] : m \in 0 .. 2}
  BY DEF Instruction, Cells
<1>3. Replaced(h[i].operands, from, to) \in UNION {[1 .. m -> 1 .. n] : m \in 0 .. 2}
  <2>1. PICK m \in 0 .. 2 : h[i].operands \in [1 .. m -> 1 .. n]
    BY <1>2
  <2>2. Replaced(h[i].operands, from, to) \in [1 .. m -> 1 .. n]
    BY <2>1 DEF Replaced
  <2> QED BY <2>1, <2>2
<1>4. /\ h[i].users \o h[from].users \in Seq(1 .. n)
      /\ ToSet(h[i].users \o h[from].users) = ToSet(h[i].users) \cup ToSet(h[from].users)
  BY <1>2, ConcatSet
<1> QED BY <1>1, <1>2, <1>3, <1>4 DEF Instruction, UsesReplaced

----------------------------------------------------------------------------
\* The values of the instructions.

Older(h) ==
  \A i \in DOMAIN h : \A op \in ToSet(h[i].operands) : h[op].type = "kConst" \/ op < i

ArgsOf(h) == {i \in DOMAIN h : h[i].type = "kArg"}

\* The value of instruction i, if f gives those of its operands.
Eval(h, args, f, i) ==
  CASE h[i].type = "kConst" -> h[i].value
    [] h[i].type = "kArg" -> args[i]
    [] h[i].type \in Binary ->
         Compute(h[i].type, f[h[i].operands[1]], f[h[i].operands[2]])
    [] OTHER -> f[h[i].operands[1]]

Solves(h, args, f) == f = [i \in DOMAIN h |-> Eval(h, args, f, i)]

ValuesIn(h, args) == CHOOSE f : Solves(h, args, f)

\* Values is a solution, if there is one.
LEMMA ValuesAreIn == ASSUME NEW args PROVE Values(args) = ValuesIn(heap, args)
BY DEF Values, ValuesIn, Solves, Eval, Lhs, Rhs

\* A value is one of Width bits or undefined, and depends on those of the operands.
LEMMA EvalProperties ==
  ASSUME NEW h, Heap(h), NEW args \in [ArgsOf(h) -> Word], NEW f, NEW i \in DOMAIN h
  PROVE  /\ (\A op \in ToSet(h[i].operands) : f[op] \in Value) => Eval(h, args, f, i) \in Value
         /\ \A g : (\A op \in ToSet(h[i].operands) : g[op] = f[op]) =>
              Eval(h, args, g, i) = Eval(h, args, f, i)
<1>1. CASE h[i].type = "kConst"
  BY <1>1, HeapParts DEF Eval, Value, Binary
<1>2. CASE h[i].type = "kArg"
  <2>1. \A g : Eval(h, args, g, i) = args[i]
    BY <1>2 DEF Eval, Binary
  <2>2. args[i] \in Value
    BY <1>2 DEF ArgsOf, Value
  <2> QED BY <2>1, <2>2
<1>3. CASE h[i].type \in Binary
  <2>1. h[i].type \notin {"kConst", "kArg"}
    BY <1>3 DEF Binary
  <2>2. ToSet(h[i].operands) = {h[i].operands[1], h[i].operands[2]}
    BY <1>3, HeapParts
  <2>3. \A g : Eval(h, args, g, i) =
                 Compute(h[i].type, g[h[i].operands[1]], g[h[i].operands[2]])
    BY <1>3, <2>1 DEF Eval
  <2> QED BY <1>3, <2>2, <2>3, ComputeProperties
<1>4. CASE h[i].type \in {"kReturn", "kCall"}
  <2>1. h[i].type \notin {"kConst", "kArg"} \cup Binary
    BY <1>4 DEF Binary
  <2>2. ToSet(h[i].operands) = {h[i].operands[1]}
    BY <1>4, HeapParts
  <2>3. \A g : Eval(h, args, g, i) = g[h[i].operands[1]]
    BY <2>1 DEF Eval
  <2> QED BY <2>2, <2>3
<1> QED BY <1>1, <1>2, <1>3, <1>4, HeapParts DEF InstrType

\* Every instruction has a value: constants first, the others in the order in which
\* they were made.
LEMMA ValuesExist ==
  ASSUME NEW h, Heap(h), Older(h), NEW args \in [ArgsOf(h) -> Word]
  PROVE  \E f : Solves(h, args, f)
<1> DEFINE N == Len(h)
           Early(i, n) == h[i].type = "kConst" \/ i <= n
           Upto(n, f) ==
             /\ f \in [1 .. N -> Value]
             /\ \A i \in 1 .. N : Early(i, n) => f[i] = Eval(h, args, f, i)
           Missing == {n \in Nat : ~ \E f : Upto(n, f)}
<1>0. N \in Nat /\ DOMAIN h = 1 .. N
  BY DEF Heap
<1>1. Missing = {}
  <2> SUFFICES ASSUME Missing # {} PROVE FALSE
    OBVIOUS
  <2>1. PICK n \in Missing : \A k \in Missing : n <= k
    <3>1. Missing \subseteq Nat
      OBVIOUS
    <3> HIDE DEF Missing
    <3> QED BY <3>1, NatHasLeast
  <2>2. CASE n = 0
    <3> DEFINE f == [i \in 1 .. N |-> h[i].value]
    <3>1. f \in [1 .. N -> Value]
      BY <1>0, HeapParts DEF Value
    <3>2. ASSUME NEW i \in 1 .. N, Early(i, 0) PROVE f[i] = Eval(h, args, f, i)
      <4>1. h[i].type = "kConst"
        BY <3>2
      <4>2. Eval(h, args, f, i) = h[i].value
        BY <4>1 DEF Eval, Binary
      <4> QED BY <4>2
    <3>3. Upto(0, f)
      BY <3>1, <3>2
    <3> QED BY <2>2, <3>3
  <2>3. CASE n # 0
    <3>1. n \in Nat /\ n - 1 \in Nat /\ n - 1 \notin Missing
      <4>1. Missing \subseteq Nat
        OBVIOUS
      <4> HIDE DEF Missing
      <4>2. n \in Nat /\ n - 1 \in Nat /\ ~ (n <= n - 1)
        BY <2>3, <4>1
      <4> QED BY <2>1, <4>2
    <3>2. PICK g : Upto(n - 1, g)
      BY <3>1
    <3>3. CASE n \notin 1 .. N \/ h[n].type = "kConst"
      <4>1. \A i \in 1 .. N : Early(i, n) => Early(i, n - 1)
        BY <1>0, <3>1, <3>3
      <4>2. Upto(n, g)
        BY <3>2, <4>1
      <4> QED BY <4>2
    <3>4. CASE n \in 1 .. N /\ h[n].type # "kConst"
      <4> DEFINE f == [i \in 1 .. N |-> IF i = n THEN Eval(h, args, g, n) ELSE g[i]]
      <4>1. \A op \in ToSet(h[n].operands) : op \in 1 .. N /\ g[op] \in Value
        BY <1>0, <3>2, <3>4, HeapParts
      <4>2. Eval(h, args, g, n) \in Value
        BY <1>0, <3>4, <4>1, EvalProperties
      <4>3. f \in [1 .. N -> Value]
        BY <3>2, <4>2
      <4>4. ASSUME NEW i \in 1 .. N, Early(i, n) PROVE f[i] = Eval(h, args, f, i)
        <5>1. \A op \in ToSet(h[i].operands) : op \in 1 .. N /\ op # n
          <6>1. \A op \in ToSet(h[i].operands) :
                  op \in 1 .. N /\ (h[op].type = "kConst" \/ op < i)
            BY <1>0, HeapParts DEF Older
          <6>2. CASE h[i].type = "kConst"
            BY <1>0, <6>2, HeapParts
          <6>3. CASE i <= n
            BY <1>0, <3>1, <3>4, <6>1, <6>3
          <6> QED BY <4>4, <6>2, <6>3
        <5>2. \A op \in ToSet(h[i].operands) : f[op] = g[op]
          BY <5>1
        <5>3. Eval(h, args, f, i) = Eval(h, args, g, i)
          <6> HIDE DEF f
          <6> QED BY <1>0, <5>2, EvalProperties
        <5>4. CASE i = n
          BY <5>3, <5>4
        <5>5. CASE i # n
          <6>1. Early(i, n - 1)
            BY <1>0, <3>1, <4>4, <5>5
          <6> QED BY <3>2, <5>3, <5>5, <6>1
        <5> QED BY <5>4, <5>5
      <4>5. Upto(n, f)
        <5> HIDE DEF f
        <5> QED BY <4>3, <4>4
      <4> QED BY <4>5
    <3> QED BY <3>3, <3>4
  <2> QED BY <2>2, <2>3
<1>2. PICK f : Upto(N, f)
  BY <1>0, <1>1
<1>3. Solves(h, args, f)
  <2>1. \A i \in 1 .. N : f[i] = Eval(h, args, f, i)
    BY <1>0, <1>2
  <2> QED BY <1>0, <1>2, <2>1 DEF Solves
<1> QED BY <1>3

\* So ValuesIn gives each instruction its value.
LEMMA ValuesInSolves ==
  ASSUME NEW h, Heap(h), Older(h), NEW args \in [ArgsOf(h) -> Word]
  PROVE  /\ \A i \in DOMAIN h : ValuesIn(h, args)[i] = Eval(h, args, ValuesIn(h, args), i)
         /\ ValuesIn(h, args) \in [DOMAIN h -> Value]
<1> DEFINE f == ValuesIn(h, args)
           Bad == {i \in DOMAIN h : f[i] \notin Value}
<1>1. Solves(h, args, f)
  BY ValuesExist DEF ValuesIn
<1>2. f = [i \in DOMAIN h |-> Eval(h, args, f, i)]
  BY <1>1 DEF Solves
<1>3. \A i \in DOMAIN h : f[i] = Eval(h, args, f, i)
  BY <1>2
<1> HIDE DEF f
<1>4. Bad = {}
  <2> SUFFICES ASSUME Bad # {} PROVE FALSE
    OBVIOUS
  <2>1. PICK n \in Bad : \A k \in Bad : n <= k
    <3>1. Bad \subseteq Nat
      BY DEF Heap
    <3> HIDE DEF Bad
    <3> QED BY <3>1, NatHasLeast
  <2>2. n \in DOMAIN h /\ DOMAIN h \subseteq Nat
    BY DEF Heap
  <2>3. ASSUME NEW op \in ToSet(h[n].operands) PROVE f[op] \in Value
    <3>1. op \in DOMAIN h /\ (h[op].type = "kConst" \/ op < n)
      BY <2>2, HeapParts DEF Older
    <3>2. CASE h[op].type = "kConst"
      BY <1>3, <3>1, <3>2, HeapParts DEF Eval, Value, Binary
    <3>3. CASE op < n
      BY <2>1, <2>2, <3>1, <3>3
    <3> QED BY <3>1, <3>2, <3>3
  <2>4. f[n] \in Value
    BY <1>3, <2>2, <2>3, EvalProperties
  <2> QED BY <2>4
<1> QED BY <1>2, <1>3, <1>4 DEF f

\* g has the instructions of h, and y at places where they use x.
Rewritten(g, h, x, y) ==
  \A i \in DOMAIN h :
    /\ g[i].type = h[i].type /\ g[i].value = h[i].value
    /\ g[i].operands \in {h[i].operands, Replaced(h[i].operands, x, y)}

\* Where instruction i had a value it has it still, in g.
Keeps(g, h, args, i) ==
  ValuesIn(h, args)[i] = Undefined \/ ValuesIn(g, args)[i] = ValuesIn(h, args)[i]

\* y is in g what x was in h.
StandsFor(g, h, args, x, y) ==
  (y \in DOMAIN h => Keeps(g, h, args, y))
    => ValuesIn(h, args)[x] = Undefined \/ ValuesIn(g, args)[y] = ValuesIn(h, args)[x]

\* If y stands for x wherever x was used, or at some of these places, then no
\* instruction that had a value has another one.
LEMMA RewriteKeepsValues ==
  ASSUME NEW h, Heap(h), Older(h), NEW g, Heap(g), Older(g), DOMAIN h \subseteq DOMAIN g,
         NEW x \in DOMAIN h, h[x].type # "kConst", NEW y \in DOMAIN g,
         g[y].type = "kConst" \/ y < x, Rewritten(g, h, x, y),
         NEW args \in [ArgsOf(h) -> Word], ArgsOf(g) = ArgsOf(h), StandsFor(g, h, args, x, y)
  PROVE  \A i \in DOMAIN h : Keeps(g, h, args, i)
<1> DEFINE F == ValuesIn(h, args)
           G == ValuesIn(g, args)
           Same(i) == F[i] = Undefined \/ G[i] = F[i]
           Bad == {i \in DOMAIN h : ~ Same(i)}
<1> USE DEF Rewritten
<1>1. /\ \A i \in DOMAIN h : F[i] = Eval(h, args, F, i) /\ F[i] \in Value
      /\ \A i \in DOMAIN g : G[i] = Eval(g, args, G, i) /\ G[i] \in Value
  <2>1. args \in [ArgsOf(g) -> Word]
    OBVIOUS
  <2> QED BY <2>1, ValuesInSolves
<1> HIDE DEF F, G
<1>2. ASSUME NEW i \in DOMAIN h, h[i].type \in {"kConst", "kArg"} PROVE Same(i)
  BY <1>1, <1>2 DEF Eval, Binary
<1>3. Bad = {}
  <2> SUFFICES ASSUME Bad # {} PROVE FALSE
    OBVIOUS
  <2>1. PICK n \in Bad : \A k \in Bad : n <= k
    <3>1. Bad \subseteq Nat
      BY DEF Heap
    <3> HIDE DEF Bad
    <3> QED BY <3>1, NatHasLeast
  <2>2. n \in DOMAIN h /\ DOMAIN h \subseteq Nat /\ DOMAIN g \subseteq Nat /\ ~ Same(n)
    BY DEF Heap
  <2>3. ASSUME NEW i \in DOMAIN h, h[i].type = "kConst" \/ i < n PROVE Same(i)
    BY <1>2, <2>1, <2>2, <2>3
  <2>4. ASSUME NEW k \in DOMAIN h[n].operands
        PROVE  LET op == h[n].operands[k]
               IN  F[op] = Undefined \/ G[g[n].operands[k]] = F[op]
    <3> DEFINE op == h[n].operands[k]
    <3>1. op \in DOMAIN h /\ (h[op].type = "kConst" \/ op < n)
      <4>1. op \in ToSet(h[n].operands)
        BY DEF ToSet
      <4> QED BY <2>2, <4>1, HeapParts DEF Older
    <3>2. CASE g[n].operands[k] = op
      BY <2>3, <3>1, <3>2
    <3>3. CASE g[n].operands[k] # op
      <4>1. op = x /\ g[n].operands[k] = y
        BY <2>2, <3>3 DEF Replaced
      <4>2. x < n
        BY <3>1, <4>1
      <4>3. y \in DOMAIN h => Same(y)
        BY <2>2, <2>3, <4>2
      <4> QED BY <4>1, <4>3 DEF StandsFor, Keeps, F, G
    <3> QED BY <3>2, <3>3
  <2>5. h[n].type \notin {"kConst", "kArg"}
    BY <1>2, <2>2
  <2>6. CASE h[n].type \in Binary
    <3>1. DOMAIN h[n].operands = {1, 2}
      BY <2>2, <2>6, HeapParts
    <3> DEFINE a == F[h[n].operands[1]]
               b == F[h[n].operands[2]]
    <3>2. /\ F[n] = Compute(h[n].type, a, b)
          /\ G[n] = Compute(h[n].type, G[g[n].operands[1]], G[g[n].operands[2]])
      BY <1>1, <2>2, <2>5, <2>6 DEF Eval, Binary
    <3>3. a \in Value /\ b \in Value
      BY <1>1, <2>2, <2>6, HeapParts
    <3>4. /\ a = Undefined \/ G[g[n].operands[1]] = a
          /\ b = Undefined \/ G[g[n].operands[2]] = b
      BY <2>4, <3>1
    <3>5. Undefined \in {a, b} => F[n] = Undefined
      BY <2>6, <3>2, <3>3, ComputeProperties
    <3> HIDE DEF a, b
    <3> QED BY <2>2, <3>2, <3>4, <3>5
  <2>7. CASE h[n].type \notin Binary
    <3>1. h[n].type \in {"kReturn", "kCall"}
      BY <2>2, <2>5, <2>7, HeapParts DEF InstrType
    <3>2. DOMAIN h[n].operands = {1}
      BY <2>2, <3>1, HeapParts
    <3>3. F[n] = F[h[n].operands[1]] /\ G[n] = G[g[n].operands[1]]
      BY <1>1, <2>2, <2>5, <2>7 DEF Eval
    <3> QED BY <2>2, <2>4, <3>2, <3>3
  <2> QED BY <2>6, <2>7
<1> QED BY <1>3 DEF Keeps, F, G

\* replace_instr_uses leaves a heap in which every instruction is in order.
LEMMA ReplaceUsesShape ==
  ASSUME NEW h, Heap(h), Older(h), NEW x \in DOMAIN h, h[x].type # "kConst",
         NEW y \in DOMAIN h, h[y].type = "kConst" \/ y < x,
         NEW g, g = ReplaceUses(h, x, y)
  PROVE  /\ Heap(g) /\ Older(g) /\ DOMAIN g = DOMAIN h /\ Len(g) = Len(h)
         /\ ArgsOf(g) = ArgsOf(h)
         /\ \A i \in DOMAIN h : UsesReplaced(g, h, x, y, i)
<1> DEFINE n == Len(h)
<1>1. n \in Nat /\ DOMAIN h = 1 .. n /\ \A i \in 1 .. n : h[i] \in Instruction(n)
  BY HeapParts
<1> HIDE DEF n
<1>2. \A i \in 1 .. n : /\ g = [j \in 1 .. n |-> g[j]]
                       /\ g[i] \in Instruction(n)
                       /\ UsesReplaced(g, h, x, y, i)
  <2>1. x \in 1 .. n /\ y \in 1 .. n /\ Cells(h, n)
    BY <1>1 DEF Cells
  <2> QED BY <1>1, <2>1, ReplaceUsesEffect
<1>3. g = [j \in 1 .. n |-> g[j]]
  BY <1>1, <1>2
<1>4. \A i \in 1 .. n : DOMAIN g[i].operands = 1 .. Arity(g[i].type)
  <2>1. \A i \in 1 .. n : DOMAIN h[i].operands = 1 .. Arity(h[i].type)
    BY <1>1, HeapParts
  <2> QED BY <1>2, <2>1 DEF Replaced, UsesReplaced
<1>5. Heap(g) /\ Len(g) = n /\ DOMAIN g = 1 .. n
  BY <1>1, <1>2, <1>3, <1>4, HeapFromParts
<1>6. Older(g)
  <2> SUFFICES ASSUME NEW i \in 1 .. n, NEW op \in ToSet(g[i].operands)
               PROVE  g[op].type = "kConst" \/ op < i
    BY <1>5 DEF Older
  <2>1. \A o \in ToSet(h[i].operands) : o \in 1 .. n /\ (h[o].type = "kConst" \/ o < i)
    BY <1>1, HeapParts DEF Older
  <2>2. op \in ToSet(h[i].operands) \/ (op = y /\ x \in ToSet(h[i].operands))
    <3>1. PICK k \in DOMAIN g[i].operands : op = g[i].operands[k]
      BY DEF ToSet
    <3>2. CASE g[i].operands = h[i].operands
      BY <3>1, <3>2 DEF ToSet
    <3>3. CASE g[i].operands = Replaced(h[i].operands, x, y)
      <4>1. /\ k \in DOMAIN h[i].operands
            /\ op = IF h[i].operands[k] = x THEN y ELSE h[i].operands[k]
        BY <3>1, <3>3 DEF Replaced
      <4> QED BY <4>1 DEF ToSet
    <3> QED BY <1>2, <3>2, <3>3 DEF UsesReplaced
  <2>3. CASE op \in ToSet(h[i].operands)
    BY <1>2, <2>1, <2>3 DEF UsesReplaced
  <2>4. CASE op = y /\ x \in ToSet(h[i].operands)
    <3>1. x < i
      BY <2>1, <2>4
    <3> QED BY <1>1, <1>2, <2>4, <3>1 DEF UsesReplaced
  <2> QED BY <2>2, <2>3, <2>4
<1>7. ArgsOf(g) = ArgsOf(h)
  BY <1>1, <1>2, <1>5 DEF ArgsOf, UsesReplaced
<1> QED BY <1>1, <1>2, <1>5, <1>6, <1>7 DEF n

\* A sequence is a function.
LEMMA SeqIsFunction ==
  ASSUME NEW S, NEW s \in Seq(S)
  PROVE  s = [i \in 1 .. Len(s) |-> s[i]]
OBVIOUS

\* g is h and an instruction more.
Extends(g, h, instr) ==
  /\ DOMAIN g = DOMAIN h \cup {Len(h) + 1}
  /\ \A i \in DOMAIN h : g[i] = h[i] /\ i # Len(h) + 1
  /\ g[Len(h) + 1] = instr

\* A new instruction whose operands are there.
LEMMA AppendShape ==
  ASSUME NEW h, Heap(h), Older(h), NEW type \in InstrType,
         NEW operands \in [1 .. Arity(type) -> DOMAIN h], NEW value \in Word,
         NEW instr, instr = Instr(type, operands, value),
         NEW g, g = Append(h, instr)
  PROVE  Heap(g) /\ Older(g) /\ Extends(g, h, instr)
<1> DEFINE n == Len(h)
<1>1. n \in Nat /\ DOMAIN h = 1 .. n /\ \A i \in 1 .. n : h[i] \in Instruction(n)
  BY HeapParts
<1>2. /\ Len(g) = n + 1 /\ g = [i \in 1 .. n + 1 |-> g[i]] /\ g[n + 1] = instr
      /\ \A i \in 1 .. n : g[i] = h[i]
  <2>1. h \in Seq(Instruction(n))
    BY DEF Heap
  <2> HIDE DEF n
  <2>2. h \in Seq(Instruction(n) \cup {instr}) /\ g = Append(h, instr)
    BY <2>1
  <2>3. g \in Seq(Instruction(n) \cup {instr}) /\ Len(g) = Len(h) + 1
    BY <2>2
  <2>4. g = [i \in 1 .. Len(g) |-> g[i]]
    BY ONLY <2>3, SeqIsFunction
  <2>5. g[Len(h) + 1] = instr /\ \A i \in 1 .. Len(h) : g[i] = h[i]
    BY <2>2
  <2> QED BY <2>3, <2>4, <2>5 DEF n
<1>3. Arity(type) \in 0 .. 2
  BY DEF Arity
<1>4. instr \in Instruction(n + 1) /\ DOMAIN instr.operands = 1 .. Arity(instr.type)
  <2>1. operands \in UNION {[1 .. m -> 1 .. n + 1] : m \in 0 .. 2}
    <3>1. operands \in [1 .. Arity(type) -> 1 .. n + 1]
      BY <1>1
    <3> QED BY <1>3, <3>1
  <2>2. <<>> \in Seq(1 .. n + 1)
    OBVIOUS
  <2> QED BY <2>1, <2>2 DEF Instruction, Instr
<1>5. ASSUME NEW i \in 1 .. n PROVE h[i] \in Instruction(n + 1)
  <2>1. h[i] \in Instruction(n)
    BY <1>1
  <2>2. /\ h[i].operands \in UNION {[1 .. m -> 1 .. n + 1] : m \in 0 .. 2}
        /\ h[i].users \in Seq(1 .. n + 1)
    <3>1. PICK m \in 0 .. 2 : h[i].operands \in [1 .. m -> 1 .. n]
      BY <2>1 DEF Instruction
    <3>2. h[i].operands \in [1 .. m -> 1 .. n + 1]
      BY <1>1, <3>1
    <3>3. h[i].users \in [1 .. Len(h[i].users) -> 1 .. n] /\ Len(h[i].users) \in Nat
      BY <2>1 DEF Instruction
    <3>4. h[i].users \in [1 .. Len(h[i].users) -> 1 .. n + 1]
      BY <1>1, <3>3
    <3>5. h[i].operands \in UNION {[1 .. k -> 1 .. n + 1] : k \in 0 .. 2}
      BY <3>2
    <3>6. h[i].users \in Seq(1 .. n + 1)
      BY <3>3, <3>4
    <3> QED BY <3>5, <3>6
  <2> QED BY <2>1, <2>2 DEF Instruction
<1> HIDE DEF n
<1>6. \A i \in 1 .. n + 1 : g[i] \in Instruction(n + 1) /\ DOMAIN g[i].operands = 1 .. Arity(g[i].type)
  <2>1. \A i \in 1 .. n : DOMAIN h[i].operands = 1 .. Arity(h[i].type)
    BY <1>1, HeapParts
  <2>2. \A i \in 1 .. n + 1 : i \in 1 .. n \/ i = n + 1
    BY <1>1
  <2> QED BY <1>2, <1>4, <1>5, <2>1, <2>2
<1>7. Heap(g) /\ DOMAIN g = 1 .. n + 1
  <2> DEFINE m == n + 1
  <2>1. m \in Nat /\ g = [i \in 1 .. m |-> g[i]]
    BY <1>1, <1>2
  <2>2. \A i \in 1 .. m : g[i] \in Instruction(m) /\ DOMAIN g[i].operands = 1 .. Arity(g[i].type)
    BY <1>6
  <2> HIDE DEF m
  <2>3. Heap(g) /\ DOMAIN g = 1 .. m
    BY <2>1, <2>2, HeapFromParts
  <2> QED BY <2>3 DEF m
<1>8. DOMAIN g = DOMAIN h \cup {n + 1} /\ \A i \in DOMAIN h : i # n + 1
  BY <1>1, <1>7
<1>9. Older(g)
  <2> SUFFICES ASSUME NEW i \in DOMAIN g, NEW op \in ToSet(g[i].operands)
               PROVE  g[op].type = "kConst" \/ op < i
    BY DEF Older
  <2>1. CASE i \in DOMAIN h
    <3>1. op \in DOMAIN h /\ (h[op].type = "kConst" \/ op < i)
      BY <1>1, <1>2, <2>1, HeapParts DEF Older
    <3> QED BY <1>1, <1>2, <3>1
  <2>2. CASE i = n + 1
    <3>1. op \in DOMAIN h
      BY <1>2, <2>2 DEF Instr, ToSet
    <3> QED BY <1>1, <2>2, <3>1
  <2> QED BY <1>8, <2>1, <2>2
<1> QED BY <1>1, <1>2, <1>7, <1>8, <1>9 DEF n, Extends

\* The registration of users changes nothing else.
LEMMA AddUserShape ==
  ASSUME NEW h, Heap(h), Older(h), NEW user \in DOMAIN h, NEW s \in Seq(DOMAIN h),
         NEW g, g = AddUser(h, user, s)
  PROVE  /\ Heap(g) /\ Older(g) /\ DOMAIN g = DOMAIN h /\ Len(g) = Len(h)
         /\ \A i \in DOMAIN h : UserAdded(g, h, user, s, i)
<1> DEFINE n == Len(h)
<1>1. n \in Nat /\ DOMAIN h = 1 .. n /\ \A i \in 1 .. n : h[i] \in Instruction(n)
  BY HeapParts
<1> HIDE DEF n
<1>2. \A i \in 1 .. n :
        /\ g = [j \in 1 .. n |-> g[j]]
        /\ g[i] \in Instruction(n)
        /\ UserAdded(g, h, user, s, i)
  <2>1. Cells(h, n) /\ user \in 1 .. n /\ s \in Seq(1 .. n)
    BY <1>1 DEF Cells
  <2> QED BY <1>1, <2>1, AddUserEffect
<1>3. g = [j \in 1 .. n |-> g[j]]
  BY <1>1, <1>2
<1>4. \A i \in 1 .. n : DOMAIN g[i].operands = 1 .. Arity(g[i].type)
  BY <1>1, <1>2, HeapParts DEF UserAdded
<1>5. Heap(g) /\ Len(g) = n /\ DOMAIN g = 1 .. n
  BY <1>1, <1>2, <1>3, <1>4, HeapFromParts
<1>6. Older(g)
  <2> SUFFICES ASSUME NEW i \in 1 .. n, NEW op \in ToSet(g[i].operands)
               PROVE  g[op].type = "kConst" \/ op < i
    BY <1>5 DEF Older
  <2>1. op \in 1 .. n /\ (h[op].type = "kConst" \/ op < i)
    BY <1>1, <1>2, HeapParts DEF Older, UserAdded
  <2> QED BY <1>2, <2>1 DEF UserAdded
<1> QED BY <1>1, <1>2, <1>5, <1>6 DEF n

----------------------------------------------------------------------------
\* The block.

BlockInv == TypeOK /\ OperandsOlder /\ OperandsInOrder /\ UsersComplete

\* What TypeOK says of heap and block.
LEMMA StateParts ==
  ASSUME TypeOK
  PROVE  /\ Heap(heap) /\ Len(heap) \in Nat /\ DOMAIN heap = 1 .. Len(heap)
         /\ m_instrs \in Seq(DOMAIN heap) /\ Len(m_instrs) \in Nat
         /\ DOMAIN m_instrs = 1 .. Len(m_instrs)
         /\ InBlock \subseteq DOMAIN heap /\ InBlock \cap erased = {}
         /\ \A k \in 1 .. Len(m_instrs) : m_instrs[k] \in InBlock
         /\ \A i \in InBlock : \E k \in 1 .. Len(m_instrs) : m_instrs[k] = i
<1>1. Len(heap) \in Nat /\ DOMAIN heap = 1 .. Len(heap)
  BY DEF TypeOK
<1>2. heap \in Seq(Instruction(Len(heap)))
  BY <1>1 DEF TypeOK, Instruction
<1>3. Heap(heap)
  BY <1>1, <1>2 DEF Heap, TypeOK
<1>4. m_instrs \in Seq(DOMAIN heap \ erased)
  BY DEF TypeOK
<1>5. /\ Len(m_instrs) \in Nat /\ DOMAIN m_instrs = 1 .. Len(m_instrs)
      /\ \A k \in 1 .. Len(m_instrs) : m_instrs[k] \in DOMAIN heap \ erased
      /\ m_instrs \in [1 .. Len(m_instrs) -> DOMAIN heap]
  BY <1>4
<1>6. m_instrs \in Seq(DOMAIN heap)
  BY <1>5
<1> QED BY <1>1, <1>3, <1>5, <1>6 DEF InBlock, ToSet

\* A heap that is in order has the shape that TypeOK asks for.
LEMMA HeapHasType ==
  ASSUME NEW h, Heap(h)
  PROVE  h \in Seq([type : InstrType, operands : UNION {[1 .. n -> DOMAIN h] : n \in 0 .. 2},
                    value : Word, users : Seq(DOMAIN h)])
<1>1. h \in Seq(Instruction(Len(h))) /\ DOMAIN h = 1 .. Len(h)
  BY DEF Heap
<1> QED BY <1>1 DEF Instruction

\* The Builder keeps the block in order.
LEMMA EmplaceKeeps ==
  ASSUME BlockInv, phase = "build", NEW type \in InstrType,
         NEW operands \in [1 .. Arity(type) -> DOMAIN heap], NEW value \in Word,
         NEW s \in Seq(DOMAIN heap), type = "kCall" \/ ToSet(operands) \subseteq ToSet(s),
         Emplace(Instr(type, operands, value), s),
         UNCHANGED <<passes, instr_it, changed, phase, built>>
  PROVE  BlockInv'
<1> DEFINE n == Len(heap)
           instr == Instr(type, operands, value)
           g == Append(heap, instr)
<1> USE DEF BlockInv
<1>1. /\ Heap(heap) /\ Older(heap) /\ n \in Nat /\ DOMAIN heap = 1 .. n /\ Here = n + 1
      /\ InBlock = DOMAIN heap
  BY StateParts DEF OperandsOlder, Older, Operands, IsConst, Here, TypeOK
<1>2. /\ Heap(g) /\ Older(g) /\ DOMAIN g = DOMAIN heap \cup {Here}
      /\ \A i \in DOMAIN heap : g[i] = heap[i] /\ i # Here
      /\ g[Here] = Instr(type, operands, value)
  <2>1. g = Append(heap, instr) /\ instr = Instr(type, operands, value)
    OBVIOUS
  <2> HIDE DEF g, instr
  <2>2. Heap(g) /\ Older(g) /\ Extends(g, heap, instr)
    BY <1>1, <2>1, AppendShape
  <2> QED BY <1>1, <2>1, <2>2 DEF Extends
<1> HIDE DEF g
<1>3. heap' = AddUser(g, Here, s) /\ m_instrs' = Append(m_instrs, Here) /\ erased' = erased
  BY DEF Emplace, g
<1>4. Here \in DOMAIN g /\ s \in Seq(DOMAIN g)
  <2>1. s \in [1 .. Len(s) -> DOMAIN heap] /\ Len(s) \in Nat
    OBVIOUS
  <2>2. s \in [1 .. Len(s) -> DOMAIN g]
    BY <1>2, <2>1
  <2> QED BY <1>2, <2>1, <2>2
<1>5. /\ Heap(heap') /\ Older(heap') /\ DOMAIN heap' = DOMAIN g
      /\ \A i \in DOMAIN g : UserAdded(heap', g, Here, s, i)
  BY ONLY <1>2, <1>3, <1>4, AddUserShape
<1>6. /\ Len(m_instrs') = Len(m_instrs) + 1
      /\ \A k \in 1 .. Len(m_instrs) : m_instrs'[k] = m_instrs[k]
      /\ m_instrs'[Len(m_instrs) + 1] = Here
      /\ m_instrs \in Seq(DOMAIN heap \ erased) /\ erased \subseteq DOMAIN heap
  BY <1>3 DEF TypeOK
<1>7. /\ Len(m_instrs) \in Nat /\ DOMAIN m_instrs = 1 .. Len(m_instrs)
      /\ \A k \in 1 .. Len(m_instrs) : m_instrs[k] \in DOMAIN heap
      /\ \A i \in DOMAIN heap : \E k \in 1 .. Len(m_instrs) : m_instrs[k] = i
      /\ DOMAIN m_instrs' = 1 .. Len(m_instrs) + 1
      /\ \A k \in DOMAIN m_instrs' : k \in 1 .. Len(m_instrs) \/ k = Len(m_instrs) + 1
  <2>1. DOMAIN m_instrs' = 1 .. Len(m_instrs')
    BY <1>3 DEF TypeOK
  <2>2. TypeOK
    OBVIOUS
  <2>3. /\ Len(m_instrs) \in Nat /\ DOMAIN m_instrs = 1 .. Len(m_instrs)
        /\ \A k \in 1 .. Len(m_instrs) : m_instrs[k] \in DOMAIN heap
        /\ \A i \in DOMAIN heap : \E k \in 1 .. Len(m_instrs) : m_instrs[k] = i
    BY ONLY <1>1, <2>2, StateParts
  <2> QED BY ONLY <1>6, <2>1, <2>3
<1>8. InBlock' = DOMAIN heap'
  <2>1. \A k \in DOMAIN m_instrs' : m_instrs'[k] \in DOMAIN heap'
    BY <1>2, <1>5, <1>6, <1>7
  <2>2. ASSUME NEW i \in DOMAIN heap' PROVE \E k \in DOMAIN m_instrs' : m_instrs'[k] = i
    <3>1. CASE i \in DOMAIN heap
      BY <1>6, <1>7, <3>1
    <3>2. CASE i = Here
      BY <1>6, <1>7, <3>2
    <3> QED BY <1>2, <1>5, <3>1, <3>2
  <2> QED BY <2>1, <2>2 DEF InBlock, ToSet
<1>9. TypeOK'
  <2>1. m_instrs' \in Seq(DOMAIN heap' \ erased')
    <3>1. DOMAIN heap \ erased \subseteq DOMAIN heap' \ erased' /\ Here \in DOMAIN heap' \ erased'
      BY <1>2, <1>3, <1>5, <1>6
    <3>2. m_instrs \in Seq(DOMAIN heap' \ erased')
      <4>1. m_instrs \in [1 .. Len(m_instrs) -> DOMAIN heap' \ erased']
        BY <1>6, <3>1
      <4> QED BY <1>7, <4>1
    <3> QED BY ONLY <1>3, <3>1, <3>2
  <2>2. \A j, k \in 1 .. Len(m_instrs') : m_instrs'[j] = m_instrs'[k] => j = k
    <3>1. \A j, k \in 1 .. Len(m_instrs) : m_instrs[j] = m_instrs[k] => j = k
      BY DEF TypeOK
    <3> QED BY ONLY <1>2, <1>6, <1>7, <3>1
  <2>3. \A i \in DOMAIN heap' : DOMAIN heap'[i].operands = 1 .. Arity(heap'[i].type)
    BY <1>5 DEF Heap
  <2>4. instr_it' \in 1 .. Len(m_instrs') + 1
    BY <1>6, <1>7 DEF TypeOK
  <2>5. erased' \subseteq DOMAIN heap'
    BY <1>2, <1>3, <1>5, <1>6
  <2>6. /\ passes' \in Seq({"Peephole", "ConstantFolding"}) /\ changed' \in BOOLEAN
        /\ phase' = "build"
    BY DEF TypeOK
  <2>7. heap' \in Seq([type : InstrType, operands : UNION {[1 .. m -> DOMAIN heap'] : m \in 0 .. 2},
                       value : Word, users : Seq(DOMAIN heap')])
    BY <1>5, HeapHasType
  <2> QED BY <1>8, <2>1, <2>2, <2>3, <2>4, <2>5, <2>6, <2>7 DEF TypeOK
<1>10. OperandsOlder'
  BY <1>5 DEF OperandsOlder, Older, Operands, IsConst
<1>11. ASSUME NEW i \in DOMAIN heap
       PROVE  /\ heap'[i].type = heap[i].type /\ heap'[i].operands = heap[i].operands
              /\ ToSet(heap[i].users) \subseteq ToSet(heap'[i].users)
              /\ i \in ToSet(s) => Here \in ToSet(heap'[i].users)
  BY <1>2, <1>5 DEF UserAdded
<1>12. heap'[Here].type = type /\ heap'[Here].operands = operands
  BY <1>2, <1>5 DEF UserAdded, Instr
<1>13. ToSet(operands) \subseteq DOMAIN heap
  BY DEF ToSet
<1>14. OperandsInOrder'
  <2> SUFFICES ASSUME NEW k \in DOMAIN m_instrs', heap'[m_instrs'[k]].type # "kCall",
                      NEW op \in ToSet(heap'[m_instrs'[k]].operands)
               PROVE  \E j \in 1 .. k - 1 : m_instrs'[j] = op
    BY DEF OperandsInOrder, Operands
  <2>1. CASE k \in 1 .. Len(m_instrs)
    <3>1. /\ m_instrs'[k] = m_instrs[k] /\ heap[m_instrs[k]].type # "kCall"
          /\ op \in ToSet(heap[m_instrs[k]].operands)
      BY <1>6, <1>7, <1>11, <2>1
    <3>2. PICK j \in 1 .. k - 1 : m_instrs[j] = op
      <4>1. Operands(m_instrs[k]) \subseteq {m_instrs[j] : j \in 1 .. k - 1}
        BY <1>7, <2>1, <3>1 DEF OperandsInOrder
      <4> QED BY <3>1, <4>1 DEF Operands
    <3> QED BY <1>6, <1>7, <2>1, <3>2
  <2>2. CASE k = Len(m_instrs) + 1
    <3>1. op \in DOMAIN heap
      BY <1>6, <1>12, <1>13, <2>2
    <3>2. PICK j \in 1 .. Len(m_instrs) : m_instrs[j] = op
      BY <1>7, <3>1
    <3>3. j \in 1 .. k - 1
      BY <1>7, <2>2
    <3> QED BY <1>6, <3>2, <3>3
  <2> QED BY <1>7, <2>1, <2>2
<1>15. UsersComplete'
  <2> SUFFICES ASSUME NEW i \in DOMAIN heap', heap'[i].type # "kCall",
                      NEW op \in ToSet(heap'[i].operands)
               PROVE  i \in ToSet(heap'[op].users)
    BY <1>8 DEF UsersComplete, Operands
  <2>1. CASE i \in DOMAIN heap
    <3>1. op \in ToSet(heap[i].operands) /\ heap[i].type # "kCall"
      BY <1>11, <2>1
    <3>2. i \in ToSet(heap[op].users) /\ op \in DOMAIN heap
      BY <1>1, <2>1, <3>1, HeapParts DEF UsersComplete, Operands
    <3> QED BY <1>11, <3>2
  <2>2. CASE i = Here
    BY <1>11, <1>12, <1>13, <2>2
  <2> QED BY <1>2, <1>5, <2>1, <2>2
<1> QED BY <1>9, <1>10, <1>14, <1>15

\* replace_instr_uses finds all the uses in the block.
LEMMA RewriteReaches ==
  ASSUME BlockInv, NEW x \in DOMAIN heap, heap[x].type # "kConst",
         NEW g, Heap(g), Older(g), DOMAIN heap \subseteq DOMAIN g,
         \A i \in DOMAIN heap : g[i] = heap[i],
         NEW to \in DOMAIN g, g[to].type = "kConst" \/ to < x,
         heap' = ReplaceUses(g, x, to)
  PROVE  /\ Heap(heap') /\ Older(heap') /\ DOMAIN heap' = DOMAIN g /\ ArgsOf(heap') = ArgsOf(g)
         /\ \A i \in DOMAIN g : heap'[i].type = g[i].type /\ heap'[i].value = g[i].value
         /\ \A i \in DOMAIN heap :
              heap'[i].operands \in {heap[i].operands, Replaced(heap[i].operands, x, to)}
         /\ \A i \in InBlock : heap[i].type # "kCall" =>
              /\ heap'[i].operands = Replaced(heap[i].operands, x, to)
              /\ \A op \in ToSet(heap'[i].operands) :
                   /\ i \in ToSet(heap'[op].users)
                   /\ \/ op \in Operands(i) /\ op # x
                      \/ op = to /\ x \in Operands(i)
<1>1. x \in DOMAIN g /\ g[x] = heap[x] /\ g[x].type # "kConst"
  OBVIOUS
<1>2. /\ Heap(heap') /\ Older(heap') /\ DOMAIN heap' = DOMAIN g /\ ArgsOf(heap') = ArgsOf(g)
      /\ \A i \in DOMAIN g : UsesReplaced(heap', g, x, to, i)
  BY <1>1, ReplaceUsesShape
<1>3. \A i \in DOMAIN g : heap'[i].type = g[i].type /\ heap'[i].value = g[i].value
  BY <1>2 DEF UsesReplaced
<1>4. \A i \in DOMAIN heap :
        /\ heap'[i].operands = IF i \in ToSet(heap[x].users)
                               THEN Replaced(heap[i].operands, x, to) ELSE heap[i].operands
        /\ ToSet(heap[i].users) \subseteq ToSet(heap'[i].users)
  BY <1>1, <1>2 DEF UsesReplaced
<1>5. ToSet(heap[x].users) \subseteq ToSet(heap'[to].users)
  BY <1>1, <1>2 DEF UsesReplaced
<1>6. ASSUME NEW i \in InBlock, heap[i].type # "kCall"
      PROVE  /\ heap'[i].operands = Replaced(heap[i].operands, x, to)
             /\ \A op \in ToSet(heap'[i].operands) :
                  /\ i \in ToSet(heap'[op].users)
                  /\ \/ op \in Operands(i) /\ op # x
                     \/ op = to /\ x \in Operands(i)
  <2> DEFINE ops == heap[i].operands
  <2>1. i \in DOMAIN heap /\ Operands(i) \subseteq DOMAIN heap
    BY StateParts, HeapParts DEF BlockInv, Operands
  <2>2. \A op \in Operands(i) : i \in ToSet(heap[op].users)
    BY <1>6 DEF BlockInv, UsersComplete
  <2>3. heap'[i].operands = Replaced(ops, x, to)
    <3>1. CASE i \in ToSet(heap[x].users)
      BY <1>4, <2>1, <3>1
    <3>2. CASE i \notin ToSet(heap[x].users)
      <4>1. x \notin Operands(i)
        BY <2>2, <3>2
      <4>2. \A k \in DOMAIN ops : ops[k] # x
        BY <4>1 DEF Operands, ToSet
      <4>3. ops \in [DOMAIN ops -> DOMAIN heap]
        BY <2>1, StateParts, HeapParts DEF BlockInv
      <4>4. Replaced(ops, x, to) = ops
        BY <4>2, <4>3 DEF Replaced
      <4> QED BY <1>4, <2>1, <3>2, <4>4
    <3> QED BY <3>1, <3>2
  <2>4. ASSUME NEW op \in ToSet(heap'[i].operands)
        PROVE  \/ op \in Operands(i) /\ op # x
               \/ op = to /\ x \in Operands(i)
    <3>1. PICK k \in DOMAIN heap'[i].operands : op = heap'[i].operands[k]
      BY DEF ToSet
    <3>2. k \in DOMAIN ops /\ op = IF ops[k] = x THEN to ELSE ops[k]
      BY <2>3, <3>1 DEF Replaced
    <3> QED BY <3>2 DEF Operands, ToSet
  <2>5. ASSUME NEW op \in ToSet(heap'[i].operands) PROVE i \in ToSet(heap'[op].users)
    <3>1. CASE op \in Operands(i)
      BY <1>4, <2>1, <2>2, <3>1
    <3>2. CASE op = to /\ x \in Operands(i)
      BY <1>5, <2>2, <3>2
    <3> QED BY <2>4, <3>1, <3>2
  <2> QED BY <2>3, <2>4, <2>5
<1>7. \A i \in DOMAIN heap :
        heap'[i].operands \in {heap[i].operands, Replaced(heap[i].operands, x, to)}
  BY <1>4
<1> QED BY <1>2, <1>3, <1>6, <1>7

\* What the two ways to replace the instruction at the iterator have in common.
LEMMA RewriteFollows ==
  ASSUME BlockInv, phase = "run", instr_it \in 1 .. Len(m_instrs), heap[This].type # "kConst",
         NEW g, Heap(g), Older(g), DOMAIN heap \subseteq DOMAIN g,
         \A i \in DOMAIN heap : g[i] = heap[i], ArgsOf(g) = ArgsOf(heap),
         NEW to \in DOMAIN g, g[to].type = "kConst" \/ to < This,
         heap' = ReplaceUses(g, This, to),
         erased' = erased \cup {This},
         m_instrs' \in Seq(DOMAIN heap' \ erased'),
         \A j, k \in 1 .. Len(m_instrs') : m_instrs'[j] = m_instrs'[k] => j = k,
         instr_it' \in 1 .. Len(m_instrs') + 1, changed' = TRUE,
         UNCHANGED <<passes, phase, built>>
  PROVE  TypeOK' /\ OperandsOlder' /\ ArgsOf(heap') = ArgsOf(heap) /\ DOMAIN heap' = DOMAIN g
<1> USE DEF BlockInv
<1>1. This \in DOMAIN heap
  BY StateParts DEF This
<1>2. Heap(heap') /\ Older(heap') /\ DOMAIN heap' = DOMAIN g /\ ArgsOf(heap') = ArgsOf(g)
  BY <1>1, RewriteReaches
<1>3. OperandsOlder'
  BY <1>2 DEF OperandsOlder, Older, Operands, IsConst
<1>4. \A i \in DOMAIN heap' : DOMAIN heap'[i].operands = 1 .. Arity(heap'[i].type)
  BY ONLY <1>2, HeapParts DEF Heap
<1>5. heap' \in Seq([type : InstrType, operands : UNION {[1 .. m -> DOMAIN heap'] : m \in 0 .. 2},
                     value : Word, users : Seq(DOMAIN heap')])
  BY <1>2, HeapHasType
<1>6. erased' \subseteq DOMAIN heap'
  BY <1>1, <1>2 DEF TypeOK
<1>7. /\ passes' \in Seq({"Peephole", "ConstantFolding"}) /\ changed' \in BOOLEAN
      /\ phase' = "run" /\ passes' # <<>> /\ DOMAIN built'.returned = [Args' -> Word]
  <2>1. Args' = Args
    BY <1>2 DEF Args, ArgsOf
  <2> QED BY <2>1 DEF TypeOK
<1>8. TypeOK'
  BY <1>4, <1>5, <1>6, <1>7 DEF TypeOK
<1> QED BY <1>2, <1>3, <1>8

\* The erased instruction leaves a block in order.
LEMMA EraseKeeps ==
  ASSUME BlockInv, phase = "run", instr_it \in 1 .. Len(m_instrs), heap[This].type \in Binary,
         NEW to \in Operands(This), EraseFor(to)
  PROVE  BlockInv' /\ ArgsOf(heap') = ArgsOf(heap) /\ InBlock' = InBlock \ {This}
<1> DEFINE p == instr_it
           n == Len(m_instrs)
           at(k) == IF k < p THEN k ELSE k + 1
<1> USE DEF BlockInv
<1>1. /\ Heap(heap) /\ Older(heap) /\ n \in Nat /\ m_instrs \in Seq(DOMAIN heap)
      /\ This = m_instrs[p] /\ This \in DOMAIN heap /\ This \in InBlock
      /\ DOMAIN m_instrs = 1 .. n /\ p \in 1 .. n
  BY StateParts DEF OperandsOlder, Older, Operands, IsConst, This
<1>2. /\ to \in DOMAIN heap /\ to \in {m_instrs[j] : j \in 1 .. p - 1}
      /\ heap[to].type = "kConst" \/ to < This
  <2>1. heap[This].type # "kCall"
    BY DEF Binary
  <2>2. Operands(This) \subseteq {m_instrs[j] : j \in 1 .. p - 1}
    BY <1>1, <2>1 DEF OperandsInOrder
  <2> QED BY <1>1, <2>2, HeapParts DEF Operands, Older
<1>3. heap[This].type # "kConst"
  BY DEF Binary
<1>4. /\ heap' = ReplaceUses(heap, This, to) /\ erased' = erased \cup {This} /\ changed' = TRUE
      /\ m_instrs' = Erase(m_instrs, p) /\ UNCHANGED <<passes, phase, built>>
      /\ instr_it' = IF p > Len(m_instrs') THEN 1 ELSE p + 1
  BY DEF EraseFor, Report, Advance, RemoveAt, Erase
<1>5. /\ m_instrs' \in Seq(DOMAIN heap) /\ Len(m_instrs') = n - 1
      /\ \A k \in 1 .. n - 1 : m_instrs'[k] = m_instrs[at(k)] /\ at(k) \in (1 .. n) \ {p}
  <2> HIDE DEF p
  <2>1. /\ m_instrs' \in Seq(DOMAIN heap) /\ Len(m_instrs') = n - 1
        /\ \A j \in 1 .. p - 1 : m_instrs'[j] = m_instrs[j]
        /\ \A j \in p .. n - 1 : m_instrs'[j] = m_instrs[j + 1]
    BY <1>1, <1>4, EraseProperties
  <2>2. \A k \in 1 .. n - 1 : (k \in 1 .. p - 1 \/ k \in p .. n - 1) /\ at(k) \in (1 .. n) \ {p}
    BY <1>1
  <2> QED BY <1>1, <2>1, <2>2
<1>6. \A q \in (1 .. n) \ {p} : \E k \in 1 .. n - 1 : at(k) = q
  <2> SUFFICES ASSUME NEW q \in (1 .. n) \ {p} PROVE \E k \in 1 .. n - 1 : at(k) = q
    OBVIOUS
  <2>1. CASE q < p
    BY <1>1, <2>1
  <2>2. CASE q > p
    <3>1. q - 1 \in 1 .. n - 1 /\ at(q - 1) = q
      BY <1>1, <2>2
    <3> QED BY <3>1
  <2> QED BY <1>1, <2>1, <2>2
<1>7. \A j, k \in 1 .. n - 1 : at(j) < at(k) => j < k
  BY <1>1
<1>8. \A j, k \in 1 .. n - 1 : at(j) = at(k) => j = k
  BY <1>1
<1>9. \A j, k \in 1 .. n : m_instrs[j] = m_instrs[k] => j = k
  BY DEF TypeOK
<1> HIDE DEF at
<1>10. InBlock' = InBlock \ {This}
  <2>1. DOMAIN m_instrs' = 1 .. n - 1
    BY <1>5
  <2>2. \A k \in 1 .. n - 1 : m_instrs'[k] \in InBlock \ {This}
    BY <1>1, <1>5, <1>9 DEF InBlock, ToSet
  <2>3. ASSUME NEW i \in InBlock \ {This} PROVE \E k \in 1 .. n - 1 : m_instrs'[k] = i
    <3>1. PICK q \in 1 .. n : m_instrs[q] = i
      BY StateParts
    <3> QED BY <1>1, <1>5, <1>6, <3>1
  <2> QED BY <2>1, <2>2, <2>3 DEF InBlock, ToSet
<1>11. TypeOK' /\ OperandsOlder' /\ ArgsOf(heap') = ArgsOf(heap) /\ DOMAIN heap' = DOMAIN heap
  <2>1. DOMAIN heap' = DOMAIN heap
    BY <1>1, <1>2, <1>3, <1>4, ReplaceUsesShape
  <2>2. m_instrs' \in Seq(DOMAIN heap' \ erased')
    <3>1. \A k \in 1 .. Len(m_instrs') : m_instrs'[k] \in InBlock'
      BY <1>5 DEF InBlock, ToSet
    <3>2. InBlock' \subseteq DOMAIN heap' \ erased'
      BY <1>4, <1>10, <2>1, StateParts
    <3>3. m_instrs' = [k \in 1 .. Len(m_instrs') |-> m_instrs'[k]] /\ Len(m_instrs') \in Nat
      BY ONLY <1>5, SeqIsFunction
    <3>4. m_instrs' \in [1 .. Len(m_instrs') -> DOMAIN heap' \ erased']
      BY <3>1, <3>2, <3>3
    <3> QED BY <3>3, <3>4
  <2>3. \A j, k \in 1 .. Len(m_instrs') : m_instrs'[j] = m_instrs'[k] => j = k
    BY <1>5, <1>8, <1>9
  <2>4. instr_it' \in 1 .. Len(m_instrs') + 1
    BY <1>1, <1>4, <1>5
  <2> QED BY <1>1, <1>2, <1>3, <1>4, <2>1, <2>2, <2>3, <2>4, RewriteFollows
<1>12. ASSUME NEW i \in InBlock, heap[i].type # "kCall"
       PROVE  \A op \in ToSet(heap'[i].operands) :
                /\ i \in ToSet(heap'[op].users)
                /\ \/ op \in Operands(i) /\ op # This
                   \/ op = to /\ This \in Operands(i)
  BY <1>1, <1>2, <1>3, <1>4, <1>12, RewriteReaches
<1>13. \A i \in DOMAIN heap : heap'[i].type = heap[i].type
  BY <1>1, <1>2, <1>3, <1>4, RewriteReaches
<1>14. UsersComplete'
  <2>1. \A i \in InBlock' : i \in InBlock /\ heap'[i].type = heap[i].type
    BY <1>10, <1>13, StateParts
  <2> QED BY <1>12, <2>1 DEF UsersComplete, Operands
<1>15. OperandsInOrder'
  <2> SUFFICES ASSUME NEW k \in 1 .. n - 1, heap'[m_instrs'[k]].type # "kCall",
                      NEW op \in ToSet(heap'[m_instrs'[k]].operands)
               PROVE  \E j \in 1 .. k - 1 : m_instrs'[j] = op
    <3>1. DOMAIN m_instrs' = 1 .. n - 1
      BY <1>5
    <3>2. ASSUME NEW k \in DOMAIN m_instrs', heap'[m_instrs'[k]].type # "kCall"
          PROVE  ToSet(heap'[m_instrs'[k]].operands) \subseteq {m_instrs'[j] : j \in 1 .. k - 1}
      BY <3>1, <3>2
    <3> QED BY <3>2 DEF OperandsInOrder, Operands
  <2> DEFINE i == m_instrs'[k]
             q == at(k)
  <2>1. i = m_instrs[q] /\ q \in 1 .. n /\ q # p
    BY <1>5
  <2>2. i \in InBlock /\ heap[i].type # "kCall"
    BY <1>13, <2>1, StateParts
  <2>3. Operands(i) \subseteq {m_instrs[j] : j \in 1 .. q - 1}
    BY <1>1, <2>1, <2>2 DEF OperandsInOrder
  <2>4. \E r \in 1 .. q - 1 : r # p /\ m_instrs[r] = op
    <3>1. CASE op \in Operands(i) /\ op # This
      BY <1>1, <2>3, <3>1
    <3>2. CASE op = to /\ This \in Operands(i)
      <4>1. PICK r \in 1 .. q - 1 : m_instrs[r] = This
        BY <2>3, <3>2
      <4>2. r = p
        BY <1>1, <1>9, <2>1, <4>1
      <4>3. PICK j \in 1 .. p - 1 : m_instrs[j] = to
        BY <1>2
      <4> QED BY <1>1, <2>1, <3>2, <4>1, <4>2, <4>3
    <3> QED BY <1>12, <2>2, <3>1, <3>2
  <2>5. PICK r \in 1 .. q - 1 : r # p /\ m_instrs[r] = op
    BY <2>4
  <2>6. r \in (1 .. n) \ {p} /\ r < q
    BY <1>1, <2>1, <2>5
  <2>7. PICK j \in 1 .. n - 1 : at(j) = r
    BY <1>6, <2>6
  <2>8. j < k
    BY <1>7, <2>6, <2>7
  <2> QED BY <1>5, <2>5, <2>7, <2>8
<1> QED BY <1>10, <1>11, <1>14, <1>15

\* The heap with the constant that a pass puts in.
LEMMA ConstantAdded ==
  ASSUME Heap(heap), Older(heap), NEW value \in Word,
         NEW g, g = Append(heap, Instr("kConst", <<>>, value))
  PROVE  /\ Heap(g) /\ Older(g) /\ ArgsOf(g) = ArgsOf(heap)
         /\ DOMAIN g = DOMAIN heap \cup {Here} /\ Here \notin DOMAIN heap
         /\ \A i \in DOMAIN heap : g[i] = heap[i]
         /\ g[Here].type = "kConst" /\ g[Here].value = value /\ ToSet(g[Here].operands) = {}
<1> DEFINE instr == Instr("kConst", <<>>, value)
<1>1. "kConst" \in InstrType /\ <<>> \in [1 .. Arity("kConst") -> DOMAIN heap]
  BY DEF InstrType, Arity, Binary
<1>2. instr = Instr("kConst", <<>>, value) /\ g = Append(heap, instr)
  OBVIOUS
<1> HIDE DEF instr
<1>3. Heap(g) /\ Older(g) /\ Extends(g, heap, instr)
  BY <1>1, <1>2, AppendShape
<1>4. /\ DOMAIN g = DOMAIN heap \cup {Here} /\ Here \notin DOMAIN heap
      /\ \A i \in DOMAIN heap : g[i] = heap[i]
      /\ g[Here] = instr
  BY <1>3 DEF Extends, Here
<1>5. g[Here].type = "kConst" /\ g[Here].value = value /\ ToSet(g[Here].operands) = {}
  BY <1>2, <1>4 DEF Instr, ToSet
<1>6. ArgsOf(g) = ArgsOf(heap)
  BY <1>4, <1>5 DEF ArgsOf
<1> QED BY <1>3, <1>4, <1>5, <1>6

\* The constant that takes the place of an instruction leaves a block in order.
LEMMA FoldKeeps ==
  ASSUME BlockInv, phase = "run", instr_it \in 1 .. Len(m_instrs), heap[This].type \in Binary,
         NEW value \in Word, FoldTo(value)
  PROVE  /\ BlockInv' /\ ArgsOf(heap') = ArgsOf(heap)
         /\ InBlock' = (InBlock \ {This}) \cup {Here} /\ Here \notin DOMAIN heap
         /\ heap'[Here].type = "kConst" /\ heap'[Here].value = value
         /\ \A k \in (1 .. Len(m_instrs)) \ {instr_it} : m_instrs'[k] = m_instrs[k]
         /\ m_instrs'[instr_it] = Here /\ instr_it' = instr_it + 1
         /\ Len(m_instrs') = Len(m_instrs)
<1> DEFINE p == instr_it
           n == Len(m_instrs)
           g == Append(heap, Instr("kConst", <<>>, value))
<1> USE DEF BlockInv
<1>1. /\ Heap(heap) /\ Older(heap) /\ n \in Nat /\ m_instrs \in Seq(DOMAIN heap)
      /\ This = m_instrs[p] /\ This \in DOMAIN heap /\ This \in InBlock
      /\ DOMAIN m_instrs = 1 .. n /\ p \in 1 .. n
      /\ \A k \in 1 .. n : m_instrs[k] \in InBlock
  BY StateParts DEF OperandsOlder, Older, Operands, IsConst, This
<1>2. /\ Heap(g) /\ Older(g) /\ ArgsOf(g) = ArgsOf(heap)
      /\ DOMAIN g = DOMAIN heap \cup {Here} /\ Here \notin DOMAIN heap
      /\ \A i \in DOMAIN heap : g[i] = heap[i]
      /\ g[Here].type = "kConst" /\ g[Here].value = value /\ ToSet(g[Here].operands) = {}
  BY <1>1, ConstantAdded
<1> HIDE DEF g
<1>3. heap[This].type # "kConst"
  BY DEF Binary
<1>4. /\ heap' = ReplaceUses(g, This, Here) /\ erased' = erased \cup {This} /\ changed' = TRUE
      /\ m_instrs' = [m_instrs EXCEPT ![p] = Here] /\ UNCHANGED <<passes, phase, built>>
      /\ instr_it' = p + 1
  <2>1. ~ (p > Len(m_instrs))
    BY <1>1
  <2> QED BY <2>1 DEF FoldTo, Report, Advance, Inserted, g
<1>5. /\ m_instrs' \in [1 .. n -> DOMAIN g] /\ Len(m_instrs') = n /\ DOMAIN m_instrs' = 1 .. n
      /\ \A k \in (1 .. n) \ {p} : m_instrs'[k] = m_instrs[k]
      /\ m_instrs'[p] = Here
  <2>1. m_instrs \in [1 .. n -> DOMAIN heap]
    BY <1>1
  <2>2. m_instrs' \in [1 .. n -> DOMAIN g]
    BY <1>2, <1>4, <2>1
  <2> QED BY <1>1, <1>4, <2>1, <2>2
<1>6. \A j, k \in 1 .. n : m_instrs[j] = m_instrs[k] => j = k
  BY DEF TypeOK
<1>7. InBlock' = (InBlock \ {This}) \cup {Here}
  <2>1. \A k \in 1 .. n : m_instrs'[k] \in (InBlock \ {This}) \cup {Here}
    BY <1>1, <1>5, <1>6
  <2>2. ASSUME NEW i \in InBlock \ {This} PROVE \E k \in 1 .. n : m_instrs'[k] = i
    <3>1. PICK q \in 1 .. n : m_instrs[q] = i
      BY StateParts
    <3> QED BY <1>1, <1>5, <3>1
  <2> QED BY <1>1, <1>5, <2>1, <2>2 DEF InBlock, ToSet
<1>8. TypeOK' /\ OperandsOlder' /\ ArgsOf(heap') = ArgsOf(heap) /\ DOMAIN heap' = DOMAIN g
  <2>1. DOMAIN heap' = DOMAIN g
    BY <1>1, <1>2, <1>3, <1>4, RewriteReaches
  <2>2. m_instrs' \in Seq(DOMAIN heap' \ erased')
    <3>1. Here \notin erased'
      BY <1>1, <1>2, <1>4 DEF TypeOK
    <3>2. \A k \in 1 .. n : m_instrs'[k] \in DOMAIN heap' \ erased'
      BY <1>1, <1>2, <1>4, <1>5, <1>6, <2>1, <3>1, StateParts
    <3>3. m_instrs' \in [1 .. n -> DOMAIN heap' \ erased']
      BY <1>5, <3>2
    <3> QED BY <1>1, <3>3
  <2>3. \A j, k \in 1 .. Len(m_instrs') : m_instrs'[j] = m_instrs'[k] => j = k
    BY <1>1, <1>2, <1>5, <1>6, StateParts
  <2>4. instr_it' \in 1 .. Len(m_instrs') + 1
    BY <1>1, <1>4, <1>5
  <2> QED BY <1>1, <1>2, <1>3, <1>4, <2>1, <2>2, <2>3, <2>4, RewriteFollows
<1>9. ASSUME NEW i \in InBlock, heap[i].type # "kCall"
      PROVE  \A op \in ToSet(heap'[i].operands) :
               /\ i \in ToSet(heap'[op].users)
               /\ \/ op \in Operands(i) /\ op # This
                  \/ op = Here /\ This \in Operands(i)
  BY <1>1, <1>2, <1>3, <1>4, <1>9, RewriteReaches
<1>10. \A i \in DOMAIN g : heap'[i].type = g[i].type /\ heap'[i].value = g[i].value
  BY <1>1, <1>2, <1>3, <1>4, RewriteReaches
<1>11. ToSet(heap'[Here].operands) = {}
  <2>1. Heap(heap') /\ Here \in DOMAIN heap' /\ heap'[Here].type = "kConst"
    BY <1>1, <1>2, <1>3, <1>4, <1>10, RewriteReaches
  <2> QED BY <2>1, HeapParts
<1>12. UsersComplete'
  <2>1. \A i \in InBlock' : i = Here \/ (i \in InBlock /\ heap'[i].type = heap[i].type)
    BY <1>2, <1>7, <1>10, StateParts
  <2> QED BY <1>9, <1>11, <2>1 DEF UsersComplete, Operands
<1>13. OperandsInOrder'
  <2> SUFFICES ASSUME NEW k \in 1 .. n, heap'[m_instrs'[k]].type # "kCall",
                      NEW op \in ToSet(heap'[m_instrs'[k]].operands)
               PROVE  \E j \in 1 .. k - 1 : m_instrs'[j] = op
    <3>1. ASSUME NEW k \in DOMAIN m_instrs', heap'[m_instrs'[k]].type # "kCall"
          PROVE  ToSet(heap'[m_instrs'[k]].operands) \subseteq {m_instrs'[j] : j \in 1 .. k - 1}
      <4>1. k \in 1 .. n
        BY <1>5
      <4>2. \A op \in ToSet(heap'[m_instrs'[k]].operands) : \E j \in 1 .. k - 1 : m_instrs'[j] = op
        BY <3>1, <4>1
      <4> QED BY ONLY <4>2
    <3> QED BY <3>1 DEF OperandsInOrder, Operands
  <2>1. k # p /\ m_instrs'[k] = m_instrs[k]
    BY <1>5, <1>11
  <2>2. m_instrs[k] \in InBlock /\ heap[m_instrs[k]].type # "kCall"
    BY <1>1, <1>2, <1>10, <2>1, StateParts
  <2>3. Operands(m_instrs[k]) \subseteq {m_instrs[j] : j \in 1 .. k - 1}
    BY <1>1, <2>2 DEF OperandsInOrder
  <2>4. CASE op \in Operands(m_instrs[k]) /\ op # This
    <3>1. PICK j \in 1 .. k - 1 : m_instrs[j] = op
      BY <2>3, <2>4
    <3> QED BY <1>1, <1>5, <2>4, <3>1
  <2>5. CASE op = Here /\ This \in Operands(m_instrs[k])
    <3>1. PICK j \in 1 .. k - 1 : m_instrs[j] = This
      BY <2>3, <2>5
    <3>2. j = p
      BY <1>1, <1>6, <3>1
    <3> QED BY <1>5, <2>5, <3>1, <3>2
  <2> QED BY <1>9, <2>1, <2>2, <2>4, <2>5
<1>14. heap'[Here].type = "kConst" /\ heap'[Here].value = value
  BY <1>2, <1>10
<1> QED BY <1>2, <1>4, <1>5, <1>7, <1>8, <1>12, <1>13, <1>14

----------------------------------------------------------------------------
\* What the function returns.

Returns == {i \in InBlock : heap[i].type = "kReturn"}

\* It returns the values of the returns in the block.
LEMMA ReturnedValues ==
  /\ Returned = [args \in [ArgsOf(heap) -> Word] |-> {ValuesIn(heap, args)[i] : i \in Returns}]
  /\ Returned' = [args \in [ArgsOf(heap') -> Word] |-> {ValuesIn(heap', args)[i] : i \in Returns'}]
<1>1. ASSUME NEW args PROVE Values(args) = ValuesIn(heap, args) /\ Values(args)' = ValuesIn(heap', args)
  BY DEF Values, ValuesIn, Solves, Eval, Lhs, Rhs
<1>2. Returned = [args \in [ArgsOf(heap) -> Word] |-> {ValuesIn(heap, args)[i] : i \in Returns}]
  BY <1>1 DEF Returned, Args, ArgsOf, Returns, InBlock
<1>3. Returned' = [args \in [ArgsOf(heap') -> Word] |-> {ValuesIn(heap', args)[i] : i \in Returns'}]
  BY <1>1 DEF Returned, Args, ArgsOf, Returns, InBlock
<1> QED BY <1>2, <1>3

\* If the returns stay, and keep their values where they have one, so does the meaning.
LEMMA MeaningKeptBySteps ==
  ASSUME MeaningPreserved, phase # "build", UNCHANGED <<phase, built>>,
         ArgsOf(heap') = ArgsOf(heap), Returns' = Returns,
         \A args \in [ArgsOf(heap) -> Word] : \A i \in Returns : Keeps(heap', heap, args, i)
  PROVE  MeaningPreserved'
<1> SUFFICES ASSUME NEW args \in [ArgsOf(heap) -> Word], Undefined \notin built.returned[args]
             PROVE  built.returned[args] = Returned'[args]
  BY ReturnedValues DEF MeaningPreserved
<1> DEFINE F == ValuesIn(heap, args)
           G == ValuesIn(heap', args)
<1>1. Returned[args] = {F[i] : i \in Returns} /\ Returned'[args] = {G[i] : i \in Returns}
  BY ReturnedValues
<1>2. built.returned[args] = Returned[args]
  BY ReturnedValues DEF MeaningPreserved
<1>3. \A i \in Returns : G[i] = F[i]
  BY <1>1, <1>2 DEF Keeps
<1> HIDE DEF F, G
<1> QED BY <1>1, <1>2, <1>3

\* An instruction that gives place to one which computes what it does, for all users in
\* the block.
LEMMA RewriteKeepsMeaning ==
  ASSUME BlockInv, MeaningPreserved, phase = "run", NEW x \in DOMAIN heap, heap[x].type \in Binary,
         NEW g, Heap(g), Older(g), DOMAIN heap \subseteq DOMAIN g,
         \A i \in DOMAIN heap : g[i] = heap[i], ArgsOf(g) = ArgsOf(heap),
         NEW to \in DOMAIN g, g[to].type = "kConst" \/ to < x,
         heap' = ReplaceUses(g, x, to), UNCHANGED <<phase, built>>,
         InBlock' = InBlock \ {x} \/ (InBlock' = (InBlock \ {x}) \cup {to} /\ g[to].type = "kConst"),
         \A args \in [ArgsOf(heap) -> Word] : StandsFor(heap', heap, args, x, to)
  PROVE  MeaningPreserved'
<1> USE DEF BlockInv
<1>1. heap[x].type \notin {"kConst", "kReturn"} /\ Heap(heap) /\ Older(heap)
  BY StateParts DEF Binary, OperandsOlder, Older, Operands, IsConst
<1>2. /\ Heap(heap') /\ Older(heap') /\ DOMAIN heap' = DOMAIN g /\ ArgsOf(heap') = ArgsOf(g)
      /\ \A i \in DOMAIN g : heap'[i].type = g[i].type /\ heap'[i].value = g[i].value
      /\ \A i \in DOMAIN heap :
           heap'[i].operands \in {heap[i].operands, Replaced(heap[i].operands, x, to)}
  BY <1>1, RewriteReaches
<1>3. Returns' = Returns
  <2>1. \A i \in InBlock : i \in DOMAIN heap /\ heap'[i].type = heap[i].type
    BY <1>2, StateParts
  <2>2. g[to].type = "kConst" => heap'[to].type # "kReturn"
    BY <1>2
  <2>3. Returns' = {i \in InBlock' : heap'[i].type = "kReturn"}
    BY DEF Returns
  <2> QED BY <1>1, <2>1, <2>2, <2>3 DEF Returns
<1>4. ASSUME NEW args \in [ArgsOf(heap) -> Word], NEW i \in Returns
      PROVE  Keeps(heap', heap, args, i)
  <2>1. i \in DOMAIN heap
    BY StateParts DEF Returns
  <2>2. to \in DOMAIN heap' /\ DOMAIN heap \subseteq DOMAIN heap' /\ ArgsOf(heap') = ArgsOf(heap)
    BY <1>2
  <2>3. heap'[to].type = "kConst" \/ to < x
    BY <1>2
  <2>4. Rewritten(heap', heap, x, to)
    BY <1>2 DEF Rewritten
  <2> QED BY <1>1, <1>2, <2>1, <2>2, <2>3, <2>4, RewriteKeepsValues
<1> QED BY <1>2, <1>3, <1>4, MeaningKeptBySteps

----------------------------------------------------------------------------
\* What the passes put in the place of an instruction.

\* The value of a binary operation, and of a constant operand.
LEMMA BinaryValue ==
  ASSUME Heap(heap), Older(heap), NEW i \in DOMAIN heap, heap[i].type \in Binary,
         NEW args \in [ArgsOf(heap) -> Word], NEW F, F = ValuesIn(heap, args)
  PROVE  /\ Lhs(i) \in DOMAIN heap /\ Rhs(i) \in DOMAIN heap /\ Operands(i) = {Lhs(i), Rhs(i)}
         /\ F[i] = Compute(heap[i].type, F[Lhs(i)], F[Rhs(i)])
         /\ F[Lhs(i)] \in Value /\ F[Rhs(i)] \in Value
         /\ \A j \in DOMAIN heap : IsConst(j) => F[j] = heap[j].value /\ F[j] \in Word
<1>1. Lhs(i) \in DOMAIN heap /\ Rhs(i) \in DOMAIN heap /\ Operands(i) = {Lhs(i), Rhs(i)}
  BY HeapParts DEF Lhs, Rhs, Operands
<1>2. /\ \A j \in DOMAIN heap : F[j] = Eval(heap, args, F, j)
      /\ \A j \in DOMAIN heap : F[j] \in Value
  BY ValuesInSolves
<1>3. F[i] = Compute(heap[i].type, F[Lhs(i)], F[Rhs(i)])
  BY <1>2 DEF Eval, Lhs, Rhs, Binary
<1>4. \A j \in DOMAIN heap : IsConst(j) => F[j] = heap[j].value /\ F[j] \in Word
  BY <1>2, HeapParts DEF Eval, IsConst, Binary
<1> QED BY <1>1, <1>2, <1>3, <1>4

\* The operand that a peephole takes for an instruction computes what that does.
LEMMA SubstituteComputes ==
  ASSUME Heap(heap), Older(heap), NEW i \in DOMAIN heap, NEW to \in Substitute(i)
  PROVE  /\ heap[i].type \in Binary /\ to \in Operands(i)
         /\ \A args \in [ArgsOf(heap) -> Word] :
              \/ ValuesIn(heap, args)[i] = Undefined
              \/ ValuesIn(heap, args)[i] = ValuesIn(heap, args)[to]
<1>1. heap[i].type \in {"kMul", "kOr", "kShl"}
  BY DEF Substitute
<1>2. heap[i].type \in Binary
  BY <1>1 DEF Binary
<1>3. to \in {Lhs(i), Rhs(i)}
  BY <1>1 DEF Substitute, MulOperand, OrOperand, ShlOperand
<1>4. to \in Operands(i)
  BY <1>2, <1>3, HeapParts DEF Lhs, Rhs, Operands
<1>5. ASSUME NEW args \in [ArgsOf(heap) -> Word], NEW F, F = ValuesIn(heap, args)
      PROVE  F[i] = Undefined \/ F[i] = F[to]
  <2> DEFINE x == F[Lhs(i)]
             y == F[Rhs(i)]
  <2>1. /\ F[i] = Compute(heap[i].type, x, y) /\ x \in Value /\ y \in Value
        /\ Lhs(i) \in DOMAIN heap /\ Rhs(i) \in DOMAIN heap
        /\ \A c : IsConstOf(Lhs(i), c) => x = c
        /\ \A c : IsConstOf(Rhs(i), c) => y = c
    BY <1>2, <1>5, BinaryValue DEF IsConstOf, IsConst
  <2>2. CASE Undefined \in {x, y}
    BY <1>2, <2>1, <2>2, ComputeProperties
  <2>3. CASE Undefined \notin {x, y}
    <3>1. x \in Word /\ y \in Word
      BY <2>1, <2>3 DEF Value
    <3>2. CASE heap[i].type = "kMul"
      <4>1. \/ IsConstOf(Lhs(i), 1) /\ to = Rhs(i)
            \/ IsConstOf(Rhs(i), 1) /\ to = Lhs(i)
        BY <3>2 DEF Substitute, MulOperand
      <4> QED BY <2>1, <3>1, <3>2, <4>1, ComputeLaws
    <3>3. CASE heap[i].type = "kOr"
      <4>1. \/ Lhs(i) = Rhs(i) /\ to = Rhs(i)
            \/ IsConstOf(Lhs(i), 0) /\ to = Rhs(i)
            \/ IsConstOf(Rhs(i), 0) /\ to = Lhs(i)
        BY <3>3 DEF Substitute, OrOperand
      <4> QED BY <2>1, <3>1, <3>3, <4>1, ComputeLaws
    <3>4. CASE heap[i].type = "kShl"
      <4>1. IsConstOf(Rhs(i), 0) \/ IsConstOf(Lhs(i), 0)
        BY <3>4 DEF Substitute, ShlOperand
      <4>2. to = Lhs(i)
        BY <3>4 DEF Substitute, ShlOperand
      <4> QED BY <2>1, <3>1, <3>4, <4>1, <4>2, ComputeLaws
    <3> QED BY <1>1, <3>2, <3>3, <3>4
  <2> QED BY <2>2, <2>3
<1> QED BY <1>2, <1>4, <1>5

\* The product that a peephole takes for zero is zero.
LEMMA ZeroComputes ==
  ASSUME Heap(heap), Older(heap), NEW i \in DOMAIN heap, IsZero(i),
         NEW args \in [ArgsOf(heap) -> Word]
  PROVE  ValuesIn(heap, args)[i] \in {Undefined, 0}
<1> DEFINE F == ValuesIn(heap, args)
           x == F[Lhs(i)]
           y == F[Rhs(i)]
<1>1. heap[i].type = "kMul" /\ heap[i].type \in Binary
  BY DEF IsZero, Binary
<1>2. /\ F[i] = Compute("kMul", x, y) /\ x \in Value /\ y \in Value
      /\ Lhs(i) \in DOMAIN heap /\ Rhs(i) \in DOMAIN heap
      /\ \A c : IsConstOf(Lhs(i), c) => x = c
      /\ \A c : IsConstOf(Rhs(i), c) => y = c
  BY <1>1, BinaryValue DEF IsConstOf, IsConst
<1>3. x = 0 \/ y = 0
  BY <1>2 DEF IsZero
<1>4. CASE Undefined \in {x, y}
  BY <1>1, <1>2, <1>4, ComputeProperties
<1>5. CASE Undefined \notin {x, y}
  <2>1. x \in Word /\ y \in Word
    BY <1>2, <1>5 DEF Value
  <2> QED BY <1>2, <1>3, <2>1, ComputeLaws
<1> QED BY <1>4, <1>5

\* What ConstantFolding computes is what the instruction computes, where that is
\* defined.
LEMMA FoldedComputes ==
  ASSUME Heap(heap), Older(heap), NEW i \in DOMAIN heap, Foldable(i), NEW value \in Folded(i),
         NEW args \in [ArgsOf(heap) -> Word]
  PROVE  value \in Word /\ ValuesIn(heap, args)[i] \in {Undefined, value}
<1> DEFINE F == ValuesIn(heap, args)
           c == Compute(heap[i].type, heap[Lhs(i)].value, heap[Rhs(i)].value)
<1>1. F[i] = c
  BY BinaryValue DEF Foldable
<1>2. c \in Value
  <2>1. Lhs(i) \in DOMAIN heap /\ Rhs(i) \in DOMAIN heap /\ heap[i].type \in Binary
    BY BinaryValue DEF Foldable
  <2>2. heap[Lhs(i)].value \in Value /\ heap[Rhs(i)].value \in Value
    BY <2>1, HeapParts DEF Value
  <2> QED BY <2>1, <2>2, ComputeProperties
<1>3. CASE c = Undefined
  BY <1>1, <1>3 DEF Folded
<1>4. CASE c # Undefined
  BY <1>1, <1>2, <1>4 DEF Folded, Value
<1> QED BY <1>3, <1>4

----------------------------------------------------------------------------
\* The steps.

\* A peephole that erases an instruction.
LEMMA EraseStep ==
  ASSUME IInv, PeepholeErase
  PROVE  IInv'
<1> USE DEF IInv
<1>1. BlockInv /\ Heap(heap) /\ Older(heap)
  BY StateParts DEF BlockInv, OperandsOlder, Older, Operands, IsConst
<1>2. /\ phase = "run" /\ instr_it \in 1 .. Len(m_instrs) /\ Head(passes) = "Peephole"
      /\ This \in DOMAIN heap
  BY StateParts DEF PeepholeErase, Running, TypeOK, This
<1>3. PICK to \in Substitute(This) : EraseFor(to)
  BY DEF PeepholeErase
<1>4. /\ heap[This].type \in Binary /\ to \in Operands(This)
      /\ \A args \in [ArgsOf(heap) -> Word] :
           \/ ValuesIn(heap, args)[This] = Undefined
           \/ ValuesIn(heap, args)[This] = ValuesIn(heap, args)[to]
  BY <1>1, <1>2, SubstituteComputes
<1>5. BlockInv' /\ ArgsOf(heap') = ArgsOf(heap) /\ InBlock' = InBlock \ {This}
  BY <1>1, <1>2, <1>3, <1>4, EraseKeeps
<1>6. heap' = ReplaceUses(heap, This, to) /\ UNCHANGED <<passes, phase, built>>
  BY <1>3 DEF EraseFor
<1>7. FoldedSoFar'
  BY <1>2, <1>6 DEF FoldedSoFar
<1>8. MeaningPreserved'
  <2>1. to \in DOMAIN heap
    BY <1>1, <1>2, <1>4, HeapParts DEF Operands
  <2>2. heap[to].type = "kConst" \/ to < This
    BY <1>1, <1>2, <1>4 DEF Older, Operands
  <2>3. \A args \in [ArgsOf(heap) -> Word] : StandsFor(heap', heap, args, This, to)
    BY <1>4, <2>1 DEF StandsFor, Keeps
  <2> QED BY <1>1, <1>2, <1>4, <1>5, <1>6, <2>1, <2>2, <2>3, RewriteKeepsMeaning
<1> QED BY <1>5, <1>7, <1>8 DEF BlockInv

\* A constant takes the place of an instruction that has its value.
LEMMA FoldStep ==
  ASSUME IInv, phase = "run", instr_it \in 1 .. Len(m_instrs), heap[This].type \in Binary,
         NEW value \in Word, FoldTo(value),
         \A args \in [ArgsOf(heap) -> Word] : ValuesIn(heap, args)[This] \in {Undefined, value}
  PROVE  IInv'
<1> USE DEF IInv
<1>1. /\ BlockInv /\ Heap(heap) /\ Older(heap) /\ This \in DOMAIN heap
      /\ This = m_instrs[instr_it]
  BY StateParts DEF BlockInv, OperandsOlder, Older, Operands, IsConst, This
<1>2. /\ BlockInv' /\ ArgsOf(heap') = ArgsOf(heap)
      /\ InBlock' = (InBlock \ {This}) \cup {Here} /\ Here \notin DOMAIN heap
      /\ heap'[Here].type = "kConst" /\ heap'[Here].value = value
      /\ \A k \in (1 .. Len(m_instrs)) \ {instr_it} : m_instrs'[k] = m_instrs[k]
      /\ m_instrs'[instr_it] = Here /\ instr_it' = instr_it + 1
      /\ Len(m_instrs') = Len(m_instrs)
  BY <1>1, FoldKeeps
<1> DEFINE g == Append(heap, Instr("kConst", <<>>, value))
<1>3. /\ Heap(g) /\ Older(g) /\ ArgsOf(g) = ArgsOf(heap)
      /\ DOMAIN g = DOMAIN heap \cup {Here}
      /\ \A i \in DOMAIN heap : g[i] = heap[i]
      /\ g[Here].type = "kConst"
  BY <1>1, ConstantAdded
<1>4. heap' = ReplaceUses(g, This, Here) /\ UNCHANGED <<passes, phase, built>>
  BY DEF FoldTo
<1> HIDE DEF g
<1>5. MeaningPreserved'
  <2>1. Here \in DOMAIN heap' /\ Heap(heap') /\ Older(heap')
    BY <1>1, <1>3, <1>4, RewriteReaches DEF Binary
  <2>2. ASSUME NEW args \in [ArgsOf(heap) -> Word] PROVE StandsFor(heap', heap, args, This, Here)
    <3>1. args \in [ArgsOf(heap') -> Word]
      BY <1>2
    <3>2. ValuesIn(heap', args)[Here] = Eval(heap', args, ValuesIn(heap', args), Here)
      BY <2>1, <3>1, ValuesInSolves
    <3>3. ValuesIn(heap', args)[Here] = value
      BY <1>2, <3>2 DEF Eval, Binary
    <3>4. ValuesIn(heap, args)[This] \in {Undefined, value}
      OBVIOUS
    <3> QED BY <3>3, <3>4 DEF StandsFor
  <2>3. Here \in DOMAIN g /\ DOMAIN heap \subseteq DOMAIN g
    BY <1>3
  <2> QED BY <1>1, <1>2, <1>3, <1>4, <2>2, <2>3, RewriteKeepsMeaning
<1>6. FoldedSoFar'
  <2> SUFFICES ASSUME phase = "run", Head(passes) = "ConstantFolding",
                      NEW k \in 1 .. Len(m_instrs), k < instr_it + 1
               PROVE  ~ Foldable(m_instrs[k])'
    BY <1>2, <1>4 DEF FoldedSoFar
  <2>1. CASE k = instr_it
    BY <1>2, <2>1 DEF Foldable, Binary
  <2>2. CASE k # instr_it
    <3> DEFINE i == m_instrs[k]
    <3>1. k < instr_it /\ k \in DOMAIN m_instrs /\ i \in InBlock /\ i \in DOMAIN heap
      BY <2>2, StateParts
    <3>2. ~ Foldable(i) /\ m_instrs'[k] = i
      BY <1>2, <2>2, <3>1 DEF FoldedSoFar
    <3>3. /\ \A j \in DOMAIN heap : heap'[j].type = heap[j].type
          /\ heap[i].type # "kCall" => heap'[i].operands = Replaced(heap[i].operands, This, Here)
      BY <1>1, <1>3, <1>4, <3>1, RewriteReaches DEF Binary
    <3>4. CASE heap[i].type \notin Binary
      BY <3>1, <3>2, <3>3, <3>4 DEF Foldable
    <3>5. CASE heap[i].type \in Binary
      <4>1. heap[i].type # "kCall"
        BY <3>5 DEF Binary
      <4>2. Operands(i) \subseteq {m_instrs[j] : j \in 1 .. k - 1}
        BY <3>1, <4>1 DEF OperandsInOrder
      <4>3. This \notin Operands(i)
        <5>1. \A j \in 1 .. k - 1 : j \in 1 .. Len(m_instrs) /\ j # instr_it
          BY <3>1, StateParts
        <5>2. \A j \in 1 .. Len(m_instrs) : m_instrs[j] = m_instrs[instr_it] => j = instr_it
          BY DEF TypeOK
        <5> QED BY <1>1, <4>2, <5>1, <5>2
      <4>4. /\ DOMAIN heap[i].operands = {1, 2} /\ Lhs(i) \in DOMAIN heap /\ Rhs(i) \in DOMAIN heap
            /\ Operands(i) = {Lhs(i), Rhs(i)}
        BY <1>1, <3>1, <3>5, HeapParts DEF Lhs, Rhs, Operands
      <4>5. heap'[i].operands[1] = Lhs(i) /\ heap'[i].operands[2] = Rhs(i)
        BY <3>3, <4>1, <4>3, <4>4 DEF Replaced, Lhs, Rhs
      <4>6. Foldable(m_instrs[k])' => Foldable(i)
        BY <3>2, <3>1, <3>3, <4>4, <4>5 DEF Foldable, IsConst, Lhs, Rhs
      <4> QED BY <3>2, <4>6
    <3> QED BY <3>4, <3>5
  <2> QED BY <2>1, <2>2
<1> QED BY <1>2, <1>5, <1>6 DEF BlockInv

\* The steps that leave the block as it is.
LEMMA StaysTyped ==
  ASSUME TypeOK, UNCHANGED <<heap, m_instrs, erased>>,
         passes' \in Seq({"Peephole", "ConstantFolding"}), instr_it' \in 1 .. Len(m_instrs) + 1,
         changed' \in BOOLEAN, phase' \in {"build", "run", "done", "crashed"},
         phase' = "build" => phase = "build",
         phase' # "build" => passes' # <<>> /\ DOMAIN built'.returned = [Args -> Word]
  PROVE  TypeOK' /\ Returned' = Returned
<1>1. Heap(heap')
  BY StateParts
<1>2. heap' \in Seq([type : InstrType, operands : UNION {[1 .. n -> DOMAIN heap'] : n \in 0 .. 2},
                     value : Word, users : Seq(DOMAIN heap')])
  BY <1>1, HeapHasType
<1>3. \A i \in DOMAIN heap' : DOMAIN heap'[i].operands = 1 .. Arity(heap'[i].type)
  BY <1>1, HeapParts
<1>4. /\ erased' \subseteq DOMAIN heap'
      /\ m_instrs' \in Seq(DOMAIN heap' \ erased')
      /\ \A j, k \in 1 .. Len(m_instrs') : m_instrs'[j] = m_instrs'[k] => j = k
      /\ instr_it' \in 1 .. Len(m_instrs') + 1
  BY DEF TypeOK
<1>5. phase' = "build" => InBlock' = DOMAIN heap'
  BY DEF TypeOK, InBlock
<1>6. Args' = Args /\ Returned' = Returned
  BY DEF Returned, Args, Values, Lhs, Rhs
<1> QED BY <1>2, <1>3, <1>4, <1>5, <1>6 DEF TypeOK

\* The instruction stays.
LEMMA LeaveStep ==
  ASSUME IInv, PeepholeLeave \/ FoldLeave
  PROVE  IInv'
<1> USE DEF IInv
<1>1. /\ UNCHANGED <<heap, m_instrs, erased, passes, changed, phase, built>>
      /\ instr_it \in 1 .. Len(m_instrs) /\ instr_it' = instr_it + 1 /\ Len(m_instrs) \in Nat
  <2>1. instr_it \in 1 .. Len(m_instrs) /\ Len(m_instrs) \in Nat
    BY StateParts DEF PeepholeLeave, FoldLeave, Running, TypeOK
  <2>2. ~ (instr_it > Len(m_instrs))
    BY <2>1
  <2> QED BY <2>1, <2>2 DEF PeepholeLeave, FoldLeave, Leave, Advance
<1>2. TypeOK' /\ Returned' = Returned
  <2>1. instr_it' \in 1 .. Len(m_instrs) + 1
    BY <1>1
  <2>2. /\ passes \in Seq({"Peephole", "ConstantFolding"}) /\ changed \in BOOLEAN
        /\ phase \in {"build", "run", "done", "crashed"}
        /\ phase # "build" => passes # <<>> /\ DOMAIN built.returned = [Args -> Word]
    BY DEF TypeOK
  <2> QED BY <1>1, <2>1, <2>2, StaysTyped
<1>3. OperandsOlder' /\ OperandsInOrder' /\ UsersComplete'
  BY <1>1 DEF OperandsOlder, OperandsInOrder, UsersComplete, InBlock, Operands, IsConst
<1>4. FoldedSoFar'
  <2> SUFFICES ASSUME phase = "run", Head(passes) = "ConstantFolding",
                      NEW k \in 1 .. Len(m_instrs), k < instr_it + 1
               PROVE  ~ Foldable(m_instrs[k])
    BY <1>1 DEF FoldedSoFar, Foldable, IsConst, Lhs, Rhs
  <2>1. CASE k < instr_it
    BY <2>1 DEF FoldedSoFar
  <2>2. CASE k = instr_it
    <3>1. ~ PeepholeLeave
      BY DEF PeepholeLeave, Running
    <3> QED BY <2>2, <3>1 DEF FoldLeave, This
  <2> QED BY <1>1, <2>1, <2>2
<1>5. MeaningPreserved'
  BY <1>1, <1>2 DEF MeaningPreserved
<1> QED BY <1>2, <1>3, <1>4, <1>5

\* A pass begins: what the function returns is noted.
LEMMA ApplyStep ==
  ASSUME TypeOK, OperandsOlder, OperandsInOrder, UsersComplete, phase' = "run",
         NEW list \in Seq({"Peephole", "ConstantFolding"}), list # <<>>, Apply(list)
  PROVE  IInv'
<1>1. /\ UNCHANGED <<heap, m_instrs, erased>> /\ passes' = list /\ instr_it' = 1
      /\ changed' = FALSE /\ built'.returned = Returned
  BY DEF Apply, irVars, Snapshot
<1>2. Len(m_instrs) \in Nat
  BY StateParts
<1>3. DOMAIN Returned = [Args -> Word]
  BY DEF Returned
<1>4. TypeOK' /\ Returned' = Returned
  <2>1. instr_it' \in 1 .. Len(m_instrs) + 1
    BY <1>1, <1>2
  <2> QED BY <1>1, <1>3, <2>1, StaysTyped
<1>5. OperandsOlder' /\ OperandsInOrder' /\ UsersComplete'
  BY <1>1 DEF OperandsOlder, OperandsInOrder, UsersComplete, InBlock, Operands, IsConst
<1>6. FoldedSoFar'
  BY <1>1 DEF FoldedSoFar
<1>7. MeaningPreserved'
  BY <1>1, <1>4 DEF MeaningPreserved
<1> QED BY <1>4, <1>5, <1>6, <1>7 DEF IInv

\* The Builder.
LEMMA BuildStep ==
  ASSUME IInv, Build
  PROVE  IInv'
<1> USE DEF IInv
<1>1. /\ BlockInv /\ Heap(heap) /\ phase = "build"
      /\ UNCHANGED <<passes, instr_it, changed, phase, built>>
  BY StateParts DEF BlockInv, Build
<1>2. "kConst" \in InstrType /\ "kArg" \in InstrType /\ "kReturn" \in InstrType
      /\ "kCall" \in InstrType /\ Binary \subseteq InstrType
  BY DEF InstrType
<1>3. /\ <<>> \in [1 .. Arity("kConst") -> DOMAIN heap]
      /\ <<>> \in [1 .. Arity("kArg") -> DOMAIN heap]
      /\ <<>> \in Seq(DOMAIN heap) /\ ToSet(<<>>) = {}
  BY DEF Arity, Binary, ToSet
<1>4. BlockInv'
  <2>1. CASE CreateInt
    <3>1. PICK data \in ConstValues : Emplace(Instr("kConst", <<>>, data), <<>>)
      BY <2>1 DEF CreateInt
    <3>2. data \in Word
      BY ValuesAssumption
    <3> QED BY <1>1, <1>2, <1>3, <3>1, <3>2, EmplaceKeeps
  <2>2. CASE CreateArg
    <3>1. Emplace(Instr("kArg", <<>>, 0), <<>>) /\ 0 \in Word
      BY <2>2, ValueProperties DEF CreateArg
    <3> QED BY <1>1, <1>2, <1>3, <3>1, EmplaceKeeps
  <2>3. CASE CreateBinInstr
    <3>1. PICK type \in Binary, lhs, rhs \in DOMAIN heap :
            Emplace(Instr(type, <<lhs, rhs>>, 0), <<lhs, rhs>>)
      BY <2>3 DEF CreateBinInstr
    <3>2. /\ <<lhs, rhs>> \in [1 .. Arity(type) -> DOMAIN heap] /\ 0 \in Word
          /\ <<lhs, rhs>> \in Seq(DOMAIN heap)
      BY ValueProperties DEF Arity
    <3> QED BY <1>1, <1>2, <3>1, <3>2, EmplaceKeeps
  <2>4. CASE CreateRet
    <3>1. PICK ret \in DOMAIN heap : Emplace(Instr("kReturn", <<ret>>, 0), <<ret>>)
      BY <2>4 DEF CreateRet
    <3>2. /\ <<ret>> \in [1 .. Arity("kReturn") -> DOMAIN heap] /\ 0 \in Word
          /\ <<ret>> \in Seq(DOMAIN heap)
      BY ValueProperties DEF Arity, Binary
    <3> QED BY <1>1, <1>2, <3>1, <3>2, EmplaceKeeps
  <2>5. CASE CreateCall
    <3>1. PICK arg \in DOMAIN heap : Emplace(Instr("kCall", <<arg>>, 0), <<>>)
      BY <2>5 DEF CreateCall
    <3>2. <<arg>> \in [1 .. Arity("kCall") -> DOMAIN heap] /\ 0 \in Word
      BY ValueProperties DEF Arity, Binary
    <3> QED BY <1>1, <1>2, <1>3, <3>1, <3>2, EmplaceKeeps
  <2> QED BY <2>1, <2>2, <2>3, <2>4, <2>5 DEF Build
<1>5. FoldedSoFar' /\ MeaningPreserved'
  BY <1>1 DEF FoldedSoFar, MeaningPreserved
<1> QED BY <1>4, <1>5 DEF BlockInv

----------------------------------------------------------------------------
\* The theorems.

\* The invariant is inductive.
LEMMA Inductive == IInv /\ [Next]_vars => IInv'
<1> SUFFICES ASSUME IInv, [Next]_vars PROVE IInv'
  OBVIOUS
<1> USE DEF IInv
<1>1. CASE Build
  BY <1>1, BuildStep
<1>2. CASE Run
  <2>1. PICK list \in PassLists : Apply(list)
    BY <1>2 DEF Run
  <2>2. list \in Seq({"Peephole", "ConstantFolding"}) /\ list # <<>> /\ phase' = "run"
    BY <1>2, PassListsAssumption DEF Run
  <2> QED BY <2>1, <2>2, ApplyStep
<1>3. CASE PeepholeErase
  BY <1>3, EraseStep
<1>4. CASE PeepholeZero
  <2>1. /\ phase = "run" /\ instr_it \in 1 .. Len(m_instrs) /\ IsZero(This) /\ FoldTo(0)
        /\ This \in DOMAIN heap /\ Heap(heap) /\ Older(heap) /\ 0 \in Word
    BY <1>4, StateParts, ValueProperties
       DEF PeepholeZero, Running, TypeOK, This, OperandsOlder, Older, Operands, IsConst
  <2>2. heap[This].type \in Binary
    BY <2>1 DEF IsZero, Binary
  <2>3. \A args \in [ArgsOf(heap) -> Word] : ValuesIn(heap, args)[This] \in {Undefined, 0}
    BY <2>1, ZeroComputes
  <2> QED BY <2>1, <2>2, <2>3, FoldStep
<1>5. CASE Fold
  <2>1. PICK value \in Folded(This) : FoldTo(value)
    BY <1>5 DEF Fold
  <2>2. /\ phase = "run" /\ instr_it \in 1 .. Len(m_instrs) /\ Foldable(This)
        /\ This \in DOMAIN heap /\ Heap(heap) /\ Older(heap)
    BY <1>5, StateParts DEF Fold, Running, TypeOK, This, OperandsOlder, Older, Operands, IsConst
  <2>3. heap[This].type \in Binary
    BY <2>2 DEF Foldable
  <2>4. \A args \in [ArgsOf(heap) -> Word] :
          value \in Word /\ ValuesIn(heap, args)[This] \in {Undefined, value}
    BY <2>1, <2>2, FoldedComputes
  <2>5. value \in Word
    <3>1. [a \in ArgsOf(heap) |-> 0] \in [ArgsOf(heap) -> Word]
      BY ValueProperties
    <3> QED BY <2>4, <3>1
  <2> QED BY <2>1, <2>2, <2>3, <2>4, <2>5, FoldStep
<1>6. CASE PeepholeLeave \/ FoldLeave
  BY <1>6, LeaveStep
<1>7. CASE NextPass
  <2>1. Apply(Tail(passes)) /\ phase' = "run"
    BY <1>7 DEF NextPass, EndOfPass
  <2>2. passes \in Seq({"Peephole", "ConstantFolding"}) /\ Len(passes) > 1
    BY <1>7 DEF NextPass, TypeOK
  <2>3. /\ Tail(passes) \in Seq({"Peephole", "ConstantFolding"})
        /\ Len(passes) = Len(Tail(passes)) + 1
    BY <2>2, PopProperties
  <2>4. Tail(passes) # <<>>
    <3> DEFINE rest == Tail(passes)
    <3>1. Len(passes) \in Nat /\ Len(passes) = Len(rest) + 1 /\ Len(passes) > 1
      BY <2>2, <2>3
    <3> HIDE DEF rest
    <3>2. rest # <<>>
      BY <3>1
    <3> QED BY <3>2 DEF rest
  <2> QED BY <2>1, <2>3, <2>4, ApplyStep
<1>8. ASSUME UNCHANGED <<heap, m_instrs, erased, passes, instr_it, changed, built>>,
             phase' = phase \/ (phase = "run" /\ phase' \in {"done", "crashed"})
      PROVE  IInv'
  <2>1. TypeOK' /\ Returned' = Returned
    <3>1. /\ passes \in Seq({"Peephole", "ConstantFolding"}) /\ changed \in BOOLEAN
          /\ phase \in {"build", "run", "done", "crashed"} /\ instr_it \in 1 .. Len(m_instrs) + 1
          /\ phase # "build" => passes # <<>> /\ DOMAIN built.returned = [Args -> Word]
      BY DEF TypeOK
    <3> QED BY <1>8, <3>1, StaysTyped
  <2>2. OperandsOlder' /\ OperandsInOrder' /\ UsersComplete'
    BY <1>8 DEF OperandsOlder, OperandsInOrder, UsersComplete, InBlock, Operands, IsConst
  <2>3. FoldedSoFar'
    BY <1>8 DEF FoldedSoFar, Foldable, IsConst, Lhs, Rhs
  <2>4. MeaningPreserved'
    BY <1>8, <2>1 DEF MeaningPreserved
  <2> QED BY <2>1, <2>2, <2>3, <2>4
<1>9. CASE PeepholeCrash \/ FoldCrash
  BY <1>8, <1>9 DEF PeepholeCrash, FoldCrash, Running, UseAfterFree
<1>10. CASE Finish
  BY <1>8, <1>10 DEF Finish, EndOfPass
<1>11. CASE UNCHANGED vars
  BY <1>8, <1>11 DEF vars
<1> QED BY <1>1, <1>2, <1>3, <1>4, <1>5, <1>6, <1>7, <1>9, <1>10, <1>11 DEF Next

\* The state keeps its shape, and the invariant holds: at every step of the passes an
\* instruction's operands are in order, its users known, and the meaning kept.
THEOREM Invariance == Spec => []IInv
<1>1. Init => IInv
  <2> SUFFICES ASSUME Init PROVE IInv
    OBVIOUS
  <2>1. /\ heap = <<>> /\ m_instrs = <<>> /\ erased = {} /\ passes = <<>> /\ instr_it = 1
        /\ changed = FALSE /\ phase = "build" /\ Len(m_instrs) = 0
    BY DEF Init, IrInit
  <2>2. TypeOK
    <3>1. Heap(heap) /\ DOMAIN heap = {} /\ DOMAIN m_instrs = {}
      BY <2>1 DEF Heap
    <3>2. heap \in Seq([type : InstrType, operands : UNION {[1 .. n -> DOMAIN heap] : n \in 0 .. 2},
                        value : Word, users : Seq(DOMAIN heap)])
      BY <3>1, HeapHasType
    <3>3. InBlock = {}
      BY <3>1 DEF InBlock, ToSet
    <3>4. m_instrs \in Seq(DOMAIN heap \ erased) /\ passes \in Seq({"Peephole", "ConstantFolding"})
      BY <2>1
    <3>5. /\ \A i \in DOMAIN heap : DOMAIN heap[i].operands = 1 .. Arity(heap[i].type)
          /\ erased \subseteq DOMAIN heap
          /\ phase = "build" => InBlock = DOMAIN heap
      BY <2>1, <3>1, <3>3
    <3>6. /\ \A j, k \in 1 .. Len(m_instrs) : m_instrs[j] = m_instrs[k] => j = k
          /\ instr_it \in 1 .. Len(m_instrs) + 1
      <4>1. 1 .. Len(m_instrs) = {} /\ 1 \in 1 .. Len(m_instrs) + 1
        BY <2>1
      <4> QED BY <2>1, <4>1
    <3>7. /\ changed \in BOOLEAN
          /\ phase \in {"build", "run", "done", "crashed"} /\ phase = "build"
      BY <2>1
    <3> QED BY ONLY <3>2, <3>4, <3>5, <3>6, <3>7 DEF TypeOK
  <2>3. OperandsOlder /\ OperandsInOrder /\ UsersComplete /\ FoldedSoFar /\ MeaningPreserved
    BY <2>1 DEF OperandsOlder, OperandsInOrder, UsersComplete, FoldedSoFar, MeaningPreserved,
                InBlock, ToSet
  <2> QED BY <2>2, <2>3 DEF IInv
<1> QED BY <1>1, Inductive, PTL DEF Spec

\* Peephole::run and ConstantFolding::run keep what the function returns, for all arguments
\* for which that was defined, at every iteration of their loops.
THEOREM MeaningKept == Spec => []MeaningPreserved
<1>1. IInv => MeaningPreserved
  BY DEF IInv
<1> QED BY <1>1, Invariance, PTL

\* No instruction that was registered as a user is left with an operand that was erased or
\* that comes after it.
THEOREM OrderKept == Spec => []OperandsInOrder
<1>1. IInv => OperandsInOrder
  BY DEF IInv
<1> QED BY <1>1, Invariance, PTL

\* The users that replace_instr_uses relies on stay complete under it.
THEOREM UsersKept == Spec => []UsersComplete
<1>1. IInv => UsersComplete
  BY DEF IInv
<1> QED BY <1>1, Invariance, PTL

\* One run of ConstantFolding leaves nothing to fold, whatever order its own constants
\* appear in.
THEOREM FoldsAll == Spec => []FoldingComplete
<1>1. IInv => FoldingComplete
  <2> SUFFICES ASSUME IInv, EndOfPass, Head(passes) = "ConstantFolding", NEW i \in InBlock
               PROVE  ~ Foldable(i)
    BY DEF FoldingComplete
  <2>1. PICK k \in 1 .. Len(m_instrs) : m_instrs[k] = i
    BY StateParts DEF IInv
  <2>2. k < instr_it /\ phase = "run"
    BY StateParts DEF IInv, EndOfPass
  <2> QED BY <2>1, <2>2 DEF IInv, FoldedSoFar
<1> QED BY <1>1, Invariance, PTL

=============================================================================
