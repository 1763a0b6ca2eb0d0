------------------------------- MODULE Inline -------------------------------
(***************************************************************************)
(* The pass Inline, lib/pass/inline.hpp, on a function func and those that *)
(* it calls: their lists of blocks (lib/ir/function.hpp), the blocks'      *)
(* instructions, successors and predecessors (lib/ir/basic_block.hpp), and *)
(* instructions with their users.  inline_call takes the steps Split,      *)
(* PassArguments, TakeReturns and Connect.                                 *)
(***************************************************************************)
EXTENDS Instrs, FiniteSets

CONSTANTS
  Programs,       \* the programs a Builder made
  func,           \* the function the pass is applied to
  nullptr,        \* no block
  NewBlock(_),    \* the address of the block made when a call is inlined ...
  NewPhi(_)       \* ... and of the phi

VARIABLES
  program,        \* history: the program when the pass begins
  heap,           \* address -> instruction
  m_bbs,          \* function -> its blocks
  m_instrs,       \* block -> its instructions
  m_succs,        \* block -> true and false successor
  m_preds,        \* block -> the set of its predecessors: their order is never used
  original_bbs,   \* the blocks still to be looked at; the head is the current one
  calls,          \* the calls collected from that block and not inlined yet
  step            \* "collect", "next", the step of inline_call, or how it ended

vars == <<program, heap, m_bbs, m_instrs, m_succs, m_preds, original_bbs, calls, step>>

OfType(h, type, s) == SelectSeq(s, LAMBDA i : h[i].type = type)

----------------------------------------------------------------------------
\* The program as the Builder leaves it.

Successors(succs, b) == {succs[b][1], succs[b][2]} \ {nullptr}

\* create_call registers the call with none of its arguments.
BuiltHeap(p) ==
  FoldSet(LAMBDA i, h : AddUser(h, i, IF h[i].type = "kCall" THEN <<>> ELSE h[i].operands),
          p.instrs, DOMAIN p.instrs)

Init ==
  /\ program \in Programs
  /\ heap = BuiltHeap(program)
  /\ m_bbs = program.bbs
  /\ m_instrs = program.code
  /\ m_succs = program.succs
  /\ m_preds = [b \in DOMAIN m_succs |-> {a \in DOMAIN m_succs : b \in Successors(m_succs, a)}]
  /\ original_bbs = program.bbs[func]
  /\ calls = <<>>
  /\ step = "collect"

----------------------------------------------------------------------------
\* apply

bb == Head(original_bbs)
call == Head(calls)
callee == heap[call].value
cont == NewBlock(call)

CollectCalls ==
  /\ step = "collect" /\ original_bbs # <<>>
  /\ calls' = OfType(heap, "kCall", m_instrs[bb])
  /\ step' = "next"
  /\ UNCHANGED <<program, heap, m_bbs, m_instrs, m_succs, m_preds, original_bbs>>

NextBlock ==
  /\ step = "next" /\ calls = <<>>
  /\ original_bbs' = Tail(original_bbs)
  /\ step' = "collect"
  /\ UNCHANGED <<program, heap, m_bbs, m_instrs, m_succs, m_preds, calls>>

Finish ==
  /\ step = "collect" /\ original_bbs = <<>>
  /\ step' = "done"
  /\ UNCHANGED <<program, heap, m_bbs, m_instrs, m_succs, m_preds, original_bbs, calls>>

----------------------------------------------------------------------------
\* inline_call

Inlining == step = "next" /\ calls # <<>>
Found == \E k \in DOMAIN m_instrs[bb] : m_instrs[bb][k] = call
Behind == {k \in DOMAIN m_instrs[bb] : k > 1 /\ m_instrs[bb][k - 1] = call}

Stop(how) ==
  /\ step' = how
  /\ UNCHANGED <<program, heap, m_bbs, m_instrs, m_succs, m_preds, original_bbs, calls>>

\* The assertions: the function calls itself; the call is not in the block it was
\* collected from.
CannotInline == Inlining /\ (callee = func \/ ~ Found) /\ Stop("aborted")

\* end() is taken for an instruction that can be moved.
NothingBehind == Inlining /\ callee # func /\ Found /\ Behind = {} /\ Stop("undefined")

InsertedBehind(list, b, new) ==
  LET k == CHOOSE k \in DOMAIN list : list[k] = b
  IN  SubSeq(list, 1, k) \o new \o SubSeq(list, k + 1, Len(list))

\* The successors that the new block takes over.
TakenOver_True == <<m_succs[bb][1], nullptr>>  \* mutant
TakenOver == m_succs[bb]

\* BasicBlock::splice with one iterator moves one instruction.  The edge from the
\* block goes to a local variable until Connect sets it again.
Split ==
  /\ Inlining /\ callee # func
  /\ \E k \in Behind :
       m_instrs' = (cont :> <<m_instrs[bb][k]>>) @@ [m_instrs EXCEPT ![bb] = RemoveAt(@, k)]
  /\ m_succs' = (cont :> TakenOver) @@ [m_succs EXCEPT ![bb] = <<cont, nullptr>>]
  /\ m_preds' = (cont :> {}) @@ m_preds
  /\ m_bbs' = [m_bbs EXCEPT ![func] = InsertedBehind(@, bb, <<cont>>)]
  /\ step' = "arguments"
  /\ UNCHANGED <<program, heap, original_bbs, calls>>

\* The first block of a function that another call has emptied.
NoCallee == step = "arguments" /\ m_bbs[callee] = <<>> /\ Stop("undefined")

CalleeArgs == OfType(heap, "kArg", m_instrs[Head(m_bbs[callee])])
CallerArgs_Reversed == Reverse(heap[call].operands)  \* mutant
CallerArgs == heap[call].operands

ArgumentCount ==
  /\ step = "arguments" /\ m_bbs[callee] # <<>>
  /\ Len(CalleeArgs) # Len(CallerArgs)
  /\ Stop("aborted")

\* The uses of `from` become uses of `to`, and `from` forgets its users.
ReplaceAndClear(h, from, to) == [ReplaceUses(h, from, to) EXCEPT ![from].users = <<>>]

PassArguments ==
  /\ step = "arguments" /\ m_bbs[callee] # <<>>
  /\ Len(CalleeArgs) = Len(CallerArgs)
  /\ heap' = FoldLeft(LAMBDA h, pair : ReplaceAndClear(h, pair[1], pair[2]),
                      heap, Zip(CalleeArgs, CallerArgs))
  /\ step' = "returns"
  /\ UNCHANGED <<program, m_bbs, m_instrs, m_succs, m_preds, original_bbs, calls>>

\* The returns of the function that is called, and their blocks.
CalleeInstrs == FlattenSeq([k \in DOMAIN m_bbs[callee] |-> m_instrs[m_bbs[callee][k]]])
Returns_FirstBlock == OfType(heap, "kReturn", m_instrs[Head(m_bbs[callee])])  \* mutant
Returns == OfType(heap, "kReturn", CalleeInstrs)
BlockOf(i) ==
  CHOOSE b \in ToSet(m_bbs[callee]) : i \in ToSet(m_instrs[b])
ReturnBlocks == [k \in DOMAIN Returns |-> BlockOf(Returns[k])]
Returned(k) == heap[Returns[k]].operands[1]

NoReturn == step = "returns" /\ Returns = <<>> /\ Stop("aborted")

TakeReturn ==
  /\ step = "returns" /\ Len(Returns) = 1
  /\ heap' = ReplaceAndClear(heap, call, Returned(1))
  /\ step' = "connect"
  /\ UNCHANGED <<program, m_bbs, m_instrs, m_succs, m_preds, original_bbs, calls>>

WithPhi_AtEnd(s) == Append(s, NewPhi(call))  \* mutant
WithPhi(s) == <<NewPhi(call)>> \o s

TakeReturns ==
  /\ step = "returns" /\ Len(Returns) > 1
  /\ LET values == [k \in DOMAIN Returns |-> Returned(k)]
         phi == Instr("kPhi", values, ReturnBlocks)
         grown == AddUser((NewPhi(call) :> phi) @@ heap, NewPhi(call), values)
     IN  heap' = ReplaceAndClear(grown, call, NewPhi(call))
  /\ m_instrs' = [m_instrs EXCEPT ![cont] = WithPhi(@)]
  /\ step' = "connect"
  /\ UNCHANGED <<program, m_bbs, m_succs, m_preds, original_bbs, calls>>

\* The predecessors that the new block gets.
Joined_First == {Head(ReturnBlocks)}  \* mutant
Joined == ToSet(ReturnBlocks)

\* The blocks of the callee go in front of the new block, between the two parts
\* of the old one.
Connect ==
  /\ step = "connect"
  /\ LET first == Head(m_bbs[callee])
     IN  /\ m_bbs' = [m_bbs EXCEPT ![func] = InsertedBehind(@, bb, m_bbs[callee]),
                                   ![callee] = <<>>]
         /\ m_succs' = [b \in DOMAIN m_succs |->
                          IF b \in ToSet(ReturnBlocks) THEN <<cont, nullptr>>
                          ELSE IF b = bb THEN <<first, nullptr>>
                          ELSE m_succs[b]]
         /\ m_preds' = [m_preds EXCEPT ![first] = @ \cup {bb}, ![cont] = @ \cup Joined]
  /\ calls' = Tail(calls)
  /\ step' = "next"
  /\ UNCHANGED <<program, heap, m_instrs, original_bbs>>

Next ==
  \/ CollectCalls \/ NextBlock \/ Finish \/ CannotInline \/ NothingBehind \/ Split
  \/ NoCallee \/ ArgumentCount \/ PassArguments
  \/ NoReturn \/ TakeReturn \/ TakeReturns \/ Connect

Spec == Init /\ [][Next]_vars

----------------------------------------------------------------------------
\* Properties.

Blocks == ToSet(m_bbs[func])
Body(g) == UNION {ToSet(program.code[b]) : b \in ToSet(program.bbs[g])}
Calls(g) == {i \in Body(g) : program.instrs[i].type = "kCall"}
AllCalls == UNION {Calls(g) : g \in DOMAIN program.bbs}

\* What each instruction may compute in a program of the heap h, the functions bbs
\* and the blocks code, as terms over constants, whatever way is taken.  An argument
\* is what the calls of its function pass for it, and a call what its function
\* returns; those of a function without blocks have no meaning any more.
Terms(h, bbs, code) ==
  LET fns == {g \in DOMAIN bbs : bbs[g] # <<>>}
      body == [g \in fns |-> UNION {ToSet(code[b]) : b \in ToSet(bbs[g])}]
      args == [g \in fns |-> OfType(h, "kArg", code[Head(bbs[g])])]
      called == {c \in UNION {body[g] : g \in fns} : h[c].type = "kCall" /\ h[c].value \in fns}
      Passed(i) ==
        {h[c].operands[k] : <<c, k>> \in
           {s \in called \X (1 .. 2) :
              s[2] \in DOMAIN args[h[s[1]].value] /\ args[h[s[1]].value][s[2]] = i}}
      terms[i \in DOMAIN h] ==
        CASE h[i].type = "kConst" -> {<<i>>}
          [] h[i].type = "kArg" ->
               IF \E g \in fns : i \in ToSet(args[g])
               THEN UNION {terms[v] : v \in Passed(i)} ELSE {<<"lost">>}
          [] h[i].type = "kCall" ->
               IF h[i].value \in fns
               THEN UNION {terms[h[r].operands[1]] :
                             r \in {r \in body[h[i].value] : h[r].type = "kReturn"}}
               ELSE {<<"lost">>}
          [] h[i].type = "kAdd" ->
               {<<"+", x, y>> : x \in terms[h[i].operands[1]], y \in terms[h[i].operands[2]]}
          [] OTHER -> UNION {terms[v] : v \in ToSet(h[i].operands)}
  IN  terms

\* The calls and arguments whose function has been moved into another.
Inlined ==
  {i \in DOMAIN program.instrs :
     \E g \in DOMAIN m_bbs : m_bbs[g] = <<>> /\
       \/ i \in AllCalls /\ program.instrs[i].value = g
       \/ i \in Body(g) /\ program.instrs[i].type = "kArg"}

\* Every instruction of the program computes what it did, in the functions as they
\* are now: inlining has put the right values in the place of the calls and the
\* arguments of the functions that it has moved, which have no value of their own
\* any more.  The code's steps 2 and 3 promise it ("Update data flow for
\* parameters", "Update DataFlow for return(s)"); it fails where a call takes the
\* result of another, as create_call registers no users.
DataflowKept ==
  step = "done" =>
    LET before == Terms(BuiltHeap(program), program.bbs, program.code)
        after == Terms(heap, m_bbs, m_instrs)
    IN  \A i \in DOMAIN program.instrs \ Inlined : after[i] = before[i]

\* It is so unless a call takes the result of a call or an argument.
DataflowPreserved ==
  (\A c \in AllCalls : \A v \in ToSet(program.instrs[c].operands) :
     program.instrs[v].type \notin {"kCall", "kArg"})
  => DataflowKept

\* What has been inlined is used no more: neither a call nor an argument of its
\* function, but by a call, which is not registered as a user, and where such a
\* call has passed it on.
CallsReplaced ==
  step = "done" =>
    \A c \in Calls(func) : \A i \in DOMAIN heap :
      \A v \in ToSet(heap[i].operands) \cap
               ({c} \cup {a \in Body(heap[c].value) : heap[a].type = "kArg"}) :
        \/ heap[i].type = "kCall"
        \/ \E d \in AllCalls :
             /\ v \in ToSet(heap[d].operands)
             /\ i \in Body(heap[d].value) \cup {NewPhi(d)}

\* Each call has one instruction behind it, the only one that Split moves.
OneBehind ==
  \A b \in ToSet(program.bbs[func]) : \A k \in DOMAIN program.code[b] :
    program.code[b][k] \in Calls(func) => k + 1 = Len(program.code[b])

\* What apply can inline: no call of func itself, no function called twice, and
\* callees that return and have as many arguments as the calls pass.
Inlinable ==
  /\ OneBehind
  /\ \A c \in Calls(func) :
       LET g == program.instrs[c].value
           args == OfType(program.instrs, "kArg", program.code[Head(program.bbs[g])])
       IN  /\ g # func
           /\ \A d \in Calls(func) \ {c} : program.instrs[d].value # g
           /\ \E r \in Body(g) : program.instrs[r].type = "kReturn"
           /\ Len(args) = Len(program.instrs[c].operands)

\* No assertion of inline_call fails and no end() or block that is gone is used in
\* a program that keeps to these limits: inlining one call leaves what the later
\* ones need.
StopsOnlyBeyondLimits == step \in {"aborted", "undefined"} => ~ Inlinable

\* Where the edges of a block of func start once its call has been inlined.
LastPart(b) ==
  LET here == IF b \in ToSet(program.bbs[func])
              THEN Calls(func) \cap ToSet(program.code[b]) ELSE {}
  IN  IF here = {} THEN b ELSE NewBlock(CHOOSE c \in here : TRUE)

\* The blocks on the ways from the block `from` that keep out of `avoid`.
Within(from, avoid) ==
  LET within[n \in 0 .. Cardinality(Blocks)] ==
        IF n = 0 THEN {from} \ avoid
        ELSE within[n - 1] \cup
             (UNION {Successors(m_succs, b) : b \in within[n - 1]} \ avoid)
  IN  within[Cardinality(Blocks)]

StrictlyDominates(a, b) == a # b /\ b \notin Within(Head(m_bbs[func]), {a})

DefinedIn(i) == CHOOSE b \in Blocks : i \in ToSet(m_instrs[b])

\* The function is in SSA form still: every operand is computed on all ways to its
\* use, and an operand of a phi on all ways to the end of the block it is for.
DefsDominateUses ==
  step = "done" /\ OneBehind =>
    \A b \in Blocks : \A k \in DOMAIN m_instrs[b] :
      LET i == m_instrs[b][k]
      IN  \A j \in DOMAIN heap[i].operands :
            LET v == heap[i].operands[j]
            IN  IF heap[i].type = "kPhi"
                THEN \/ DefinedIn(v) = LastPart(heap[i].value[j])
                     \/ StrictlyDominates(DefinedIn(v), LastPart(heap[i].value[j]))
                ELSE \/ StrictlyDominates(DefinedIn(v), b)
                     \/ \E n \in 1 .. k - 1 : m_instrs[b][n] = v

\* The block of func that a block is a part of, or was inlined into.
Original(b) ==
  CHOOSE o \in ToSet(program.bbs[func]) :
    b = o \/ \E c \in Calls(func) \cap ToSet(program.code[o]) :
               b = NewBlock(c) \/ b \in ToSet(program.bbs[heap[c].value])

\* The inlined function fills the place of its call and nothing else: with the
\* blocks that came of one block taken together, the edges are the old ones, and
\* the function starts where it did.
SameSkeleton ==
  step = "done" /\ OneBehind =>
    LET Edges(succs, bs) == {e \in bs \X bs : e[2] \in Successors(succs, e[1])}
        Folded == {<<Original(e[1]), Original(e[2])>> : e \in Edges(m_succs, Blocks)}
        Proper(es) == {e \in es : e[1] # e[2]}
    IN  /\ Proper(Folded) = Proper(Edges(program.succs, ToSet(program.bbs[func])))
        /\ Head(m_bbs[func]) = Head(program.bbs[func])
        /\ \A b \in Blocks : \A a \in Successors(m_succs, b) : a \in Blocks

\* Predecessor lists and phis know where control comes from.  For the successors
\* of a block with a call the name of the block stands for its last part: the lists and
\* phis keep the old name, which this property does not object to.
PredecessorsKnown ==
  step = "done" /\ OneBehind =>
    \A b \in Blocks :
      LET coming == {LastPart(a) : a \in {a \in Blocks : b \in Successors(m_succs, a)}}
      IN  /\ {LastPart(p) : p \in m_preds[b]} = coming
          /\ \A i \in ToSet(m_instrs[b]) : heap[i].type = "kPhi" =>
               {LastPart(p) : p \in ToSet(heap[i].value)} = coming

=============================================================================
