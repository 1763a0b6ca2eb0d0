-------------------------- MODULE CheckElimination --------------------------
(***************************************************************************)
(* The pass CheckElimination, lib/pass/check_elimination.hpp: it computes  *)
(* the dominator tree, walks down it and erases every check that one in    *)
(* m_seen makes superfluous.  The calls of eliminate_checks are frames, as *)
(* those of dfs are in module Dfs.  The tree lists for a block all that it *)
(* dominates, so a block is visited once for every chain of dominators     *)
(* that leads to it.                                                       *)
(***************************************************************************)
EXTENDS Dom

CONSTANTS
  KindOf,      \* names of instructions -> what the pass looks at in each
  MaxInstrs,   \* bound: the instructions of a function
  MaxEdges     \* bound: the edges of a function on which the walk is followed

ASSUME KindAssumption ==
  \A n \in DOMAIN KindOf :
    KindOf[n].type = "kBoundCheck" => KindOf[n].lower \in Int /\ KindOf[n].upper \in Int
ASSUME BoundAssumption == MaxInstrs \in Nat

VARIABLES
  code,       \* the instructions of each block when the pass begins
  m_instrs,   \* those still there, as positions in code
  calls,      \* the calls of eliminate_checks that have not returned
  m_seen,     \* the checks met on the way down: pairs of block and position
  m_changed   \* what apply will return

checkVars == <<code, m_instrs, calls, m_seen, m_changed>>

\* `phase` goes on from "return" to "walk" and "done".
Check(i) == KindOf[code[i[1]][i[2]]]
IsCheck(i) == Check(i).type \in {"kNullCheck", "kBoundCheck"}

\* The check s makes the check c superfluous.
Dominates(s, c) ==
  /\ Check(s).type = Check(c).type
  /\ Check(s).check = Check(c).check
  /\ Check(s).type = "kBoundCheck" =>
       Check(s).lower <= Check(c).lower /\ Check(c).upper <= Check(s).upper

----------------------------------------------------------------------------

\* Bound: MaxInstrs instructions, spread over the blocks in all ways.
Places(len) == {i \in BasicBlock \X (1 .. MaxInstrs) : i[2] <= len[i[1]]}
Codes ==
  UNION {
    {[b \in BasicBlock |-> [k \in 1 .. len[b] |-> kind[<<b, k>>]]] :
       kind \in [Places(len) -> DOMAIN KindOf]} :
    len \in {n \in [BasicBlock -> 0 .. MaxInstrs] : Cardinality(Places(n)) = MaxInstrs}}

EdgesOf(g) == {e \in BasicBlock \X (1 .. 2) : g[e[1]][e[2]] # nullptr}

CheckInit ==
  /\ DomInit
  /\ code = [b \in BasicBlock |-> <<>>] /\ m_instrs = code
  /\ calls = <<>> /\ m_seen = <<>> /\ m_changed = FALSE

DomStep == DomNext /\ UNCHANGED checkVars

\* A call of eliminate_checks for block b by the calls in `callers`.
CallFor(b, callers) ==
  <<[bb |-> b, instr_it |-> 1, child |-> 1, seen_before |-> Len(m_seen)]>> \o callers

\* apply has the tree.  dom does not look at instructions, so they can be chosen
\* here.  The walk never enters a block that is not reachable: those are left out.
Eliminate ==
  /\ phase = "return"
  /\ Reachable(m_succs) = BasicBlock
  /\ Cardinality(EdgesOf(m_succs)) <= MaxEdges
  /\ code' \in Codes
  /\ m_instrs' = [b \in BasicBlock |-> [k \in DOMAIN code'[b] |-> k]]
  /\ calls' = CallFor(root, <<>>)
  /\ phase' = "walk"
  /\ UNCHANGED <<vars, blocks, cursor, other, dom_tree, m_seen, m_changed>>

Walking == phase = "walk" /\ calls # <<>>
This == Head(calls)
With(frame) == <<frame>> \o Tail(calls)
AtInstr == Walking /\ This.instr_it <= Len(m_instrs[This.bb])
Instr == <<This.bb, m_instrs[This.bb][This.instr_it]>>
AlreadySeen == \E k \in DOMAIN m_seen : Dominates(m_seen[k], Instr)
StepOver == With([This EXCEPT !.instr_it = @ + 1])

SkipInstr ==
  /\ AtInstr /\ ~ IsCheck(Instr)
  /\ calls' = StepOver
  /\ UNCHANGED <<vars, domVars, code, m_instrs, m_seen, m_changed>>

KeepCheck ==
  /\ AtInstr /\ IsCheck(Instr) /\ ~ AlreadySeen
  /\ m_seen' = Append(m_seen, Instr)
  /\ calls' = StepOver
  /\ UNCHANGED <<vars, domVars, code, m_instrs, m_changed>>

\* erase returns the iterator of the next instruction.
AfterErase_StepsOver ==  \* mutant
  calls' = StepOver /\ m_seen' = m_seen
AfterErase_Remembers ==  \* mutant
  calls' = calls /\ m_seen' = Append(m_seen, Instr)
AfterErase == calls' = calls /\ m_seen' = m_seen

EraseCheck ==
  /\ AtInstr /\ IsCheck(Instr) /\ AlreadySeen
  /\ m_instrs' = [m_instrs EXCEPT ![This.bb] = Erase(@, This.instr_it)]
  /\ AfterErase
  /\ m_changed' = TRUE
  /\ UNCHANGED <<vars, domVars, code>>

AtChildren == Walking /\ This.instr_it > Len(m_instrs[This.bb])
Children == IF This.bb \in DOMAIN dom_tree THEN dom_tree[This.bb] ELSE <<>>

VisitChild ==
  /\ AtChildren /\ This.child <= Len(Children)
  /\ calls' = CallFor(Children[This.child], With([This EXCEPT !.child = @ + 1]))
  /\ UNCHANGED <<vars, domVars, code, m_instrs, m_seen, m_changed>>

\* m_seen.resize(seen_before)
Resized_Not == m_seen  \* mutant
Resized == SubSeq(m_seen, 1, This.seen_before)

ReturnFromBlock ==
  /\ AtChildren /\ This.child > Len(Children)
  /\ m_seen' = Resized
  /\ calls' = Tail(calls)
  /\ UNCHANGED <<vars, domVars, code, m_instrs, m_changed>>

Finish ==
  /\ phase = "walk" /\ calls = <<>>
  /\ phase' = "done"
  /\ UNCHANGED <<vars, blocks, cursor, other, dom_tree, code, m_instrs, calls, m_seen, m_changed>>

CheckNext ==
  \/ DomStep \/ Eliminate \/ SkipInstr \/ KeepCheck \/ EraseCheck
  \/ VisitChild \/ ReturnFromBlock \/ Finish

CheckSpec == CheckInit /\ [][CheckNext]_<<vars, domVars, checkVars>>

----------------------------------------------------------------------------
\* Properties.

InstrsOf(b) == {<<b, k>> : k \in DOMAIN code[b]}
Left(b) == {<<b, k>> : k \in Elements(m_instrs[b])}
ErasedFrom(b) == InstrsOf(b) \ Left(b)

\* The blocks in which a check is left that makes the check c superfluous.
Guards(c) == {b \in BasicBlock : \E s \in Left(b) : IsCheck(s) /\ Dominates(s, c)}

\* Without the block a there is no way to b.
StrictlyDominates(a, b) == a # b /\ b \notin Reach(m_succs, root, {a})

\* The blocks where the value of the check c may be defined: a definition
\* dominates its uses.
Uses(c) ==
  {b \in BasicBlock : \E i \in InstrsOf(b) : IsCheck(i) /\ Check(i).check = Check(c).check}
Definitions(c) ==
  {a \in BasicBlock : \A b \in Uses(c) : a = b \/ StrictlyDominates(a, b)}

\* No execution misses a check: whatever way is taken from the definition of the
\* value to the place of an erased check, through loops or not, it passes a check
\* that is left and that makes the erased one superfluous.
ErasedCovered ==
  phase = "done" =>
    \A b \in BasicBlock : \A c \in ErasedFrom(b) :
      \/ \E s \in Left(b) : s[2] < c[2] /\ IsCheck(s) /\ Dominates(s, c)
      \/ \A a \in Definitions(c) : b \notin Reach(m_succs, a, Guards(c) \ {b})

\* Nothing superfluous is left: not behind a check in its block, nor in a block
\* that the block of the check dominates.
NoneLeft ==
  phase = "done" =>
    \A a, b \in BasicBlock : \A s \in Left(a), c \in Left(b) :
      IsCheck(s) /\ IsCheck(c) /\ Dominates(s, c) =>
        IF a = b THEN c[2] <= s[2] ELSE ~ StrictlyDominates(a, b)

\* m_seen never holds a pointer to a check that was destroyed, although a block
\* is visited, and may lose checks, more than once; and it is empty in the end.
SeenStaysAlive ==
  /\ \A k \in DOMAIN m_seen : m_seen[k] \in Left(m_seen[k][1])
  /\ phase = "done" => m_seen = <<>>

----------------------------------------------------------------------------
\* Why the properties hold: the inductive invariant, on top of that of dom.

CheckFrame ==
  [bb : BasicBlock, instr_it : Nat \ {0}, child : Nat \ {0}, seen_before : Nat]

Eliminating == phase \in {"walk", "done"}

\* What a call has looked at and not erased.
Scanned(f) == {<<f.bb, m_instrs[f.bb][i]>> : i \in 1 .. f.instr_it - 1}

\* Each block keeps a part of its instructions, in their order.
CodeKept ==
  /\ Reachable(m_succs) = BasicBlock
  /\ code \in [BasicBlock -> Seq(DOMAIN KindOf)]
  /\ m_instrs \in [BasicBlock -> Seq(Nat)]
  /\ \A b \in BasicBlock :
       /\ \A i \in 1 .. Len(m_instrs[b]) : m_instrs[b][i] \in 1 .. Len(code[b])
       /\ \A i, j \in 1 .. Len(m_instrs[b]) : i < j => m_instrs[b][i] < m_instrs[b][j]

\* A call counts the instructions and the children of its block, and knows how
\* many checks its callers found.
InBounds(j) ==
  /\ calls[j].instr_it <= Len(m_instrs[calls[j].bb]) + 1
  /\ calls[j].child <= Len(dom_tree[calls[j].bb]) + 1
  /\ calls[j].seen_before <= Len(m_seen)
  /\ j = Len(calls) => calls[j].bb = root /\ calls[j].seen_before = 0

\* The call k, below the call j, has looked at its block and is at one of the
\* children.
Below(k, j) ==
  /\ StrictlyDominates(calls[k].bb, calls[j].bb)
  /\ calls[k].seen_before <= calls[j].seen_before
  /\ calls[k].instr_it > Len(m_instrs[calls[k].bb])
  /\ k = j + 1 =>
       /\ calls[k].child > 1
       /\ dom_tree[calls[k].bb][calls[k].child - 1] = calls[j].bb

\* The calls are for a chain of dominators, from the root up to the running one.
CallsDescend ==
  /\ calls \in Seq(CheckFrame) /\ m_seen \in Seq(BasicBlock \X Nat)
  /\ \A j \in 1 .. Len(calls) :
       InBounds(j) /\ \A k \in j + 1 .. Len(calls) : Below(k, j)

\* m_seen holds the checks the calls have looked at, those of each call behind
\* what the call found there and before what the next call did.
SeenIsScanned ==
  /\ \A k \in 1 .. Len(m_seen) : \E j \in 1 .. Len(calls) :
       /\ calls[j].seen_before < k
       /\ \E s \in Scanned(calls[j]) : m_seen[k] = s /\ IsCheck(s)
  /\ \A j \in 1 .. Len(calls) : \A s \in Scanned(calls[j]) :
       IsCheck(s) => \E k \in 1 .. Len(m_seen) :
         m_seen[k] = s /\ \A i \in 1 .. j - 1 : k <= calls[i].seen_before

\* The check s comes before the check c on every way to it, and makes it
\* superfluous.
Precedes(s, c) ==
  IF s[1] = c[1] THEN s[2] < c[2] ELSE StrictlyDominates(s[1], c[1])
Covers(s, c) == IsCheck(s) /\ IsCheck(c) /\ Dominates(s, c) /\ Precedes(s, c)

\* Whatever is erased has a check that is left and covers it.
ErasedHaveCover ==
  \A b \in BasicBlock : \A c \in ErasedFrom(b) :
    \E a \in BasicBlock : \E s \in Left(a) : Covers(s, c)

\* No check left in the block b is covered by one left in the block a.
Clean(a, b) == \A s \in Left(a), c \in Left(b) : ~ Covers(s, c)
Finished(a) == \A b \in BasicBlock : Clean(a, b)

\* A call for the block a has been through its child b: the running call has
\* through all before the next one, the others not through the last of them.
PassedThrough(a, b) ==
  \E j \in 1 .. Len(calls) :
    /\ calls[j].bb = a
    /\ \E x \in 1 .. (calls[j].child - 1) - (IF j = 1 THEN 0 ELSE 1) : dom_tree[a][x] = b

\* Nothing is left behind: not among what the calls have looked at, nor in the
\* children a call has been through.
CleanSoFar ==
  /\ \A k \in 1 .. Len(calls) : \A j \in 1 .. k :
       \A s \in Scanned(calls[k]), c \in Scanned(calls[j]) : ~ Covers(s, c)
  /\ \A a, b \in BasicBlock : PassedThrough(a, b) => Clean(a, b) /\ Finished(b)
  /\ calls = <<>> => \A a \in BasicBlock : Finished(a)

\* The invariant every step keeps.
CheckIInv ==
  /\ DomIInv
  /\ IF Eliminating
     THEN /\ CodeKept /\ CallsDescend /\ SeenIsScanned /\ ErasedHaveCover /\ CleanSoFar
          /\ phase = "done" => calls = <<>>
     ELSE calls = <<>> /\ m_seen = <<>>

=============================================================================
