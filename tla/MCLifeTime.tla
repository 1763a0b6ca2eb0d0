----------------------------- MODULE MCLifeTime -----------------------------
(***************************************************************************)
(* LifeTime on functions that follow one value around small graphs: the    *)
(* root makes the constant c, which every branch tests; block d makes the  *)
(* constant v; block u, which d dominates, adds v to itself or adds up a   *)
(* phi that takes v where it can and c elsewhere.                          *)
(***************************************************************************)
EXTENDS LifeTime, TLC

CONSTANTS B, C, D   \* the blocks other than the root

\* A, B and C have distinct edges to each other; where there is none, D follows.
GraphsWithExit ==
  LET inner == BasicBlock \ {D}
      ends == {<<D, nullptr>>, <<nullptr, nullptr>>}
  IN  {g \in [BasicBlock -> ends \cup (inner \X (inner \cup {nullptr}))] :
         /\ g[D] = <<nullptr, nullptr>>
         /\ \A b \in inner :
              nullptr # g[b][1] /\ g[b][1] # g[b][2] /\ b \notin Succs(g, b)}

\* A loop from B to C that is left from either, alone or in a loop from A to D.
NestedGraphs ==
  {g \in [BasicBlock -> BBSuccs] :
     /\ g[root] = <<B, nullptr>>
     /\ g[B] \in {<<C, D>>, <<D, C>>, <<C, nullptr>>}
     /\ g[C] \in {<<B, nullptr>>, <<B, D>>, <<D, B>>}
     /\ g[D] \in {<<root, nullptr>>, <<nullptr, nullptr>>}}

SmallGraphs == {g \in GraphsWithExit \cup NestedGraphs : Structured(g)}

c == <<"const", root>>
v == <<"value", root>>
p == <<"phi", root>>
w == <<"add", root>>
Terminator(b) == <<"terminator", b>>

Instrs == {c, v, p, w} \cup {Terminator(b) : b \in BasicBlock}

\* phi is the block of the phi, nullptr if there is none; from are the blocks
\* that d dominates.
ProgramOf(g, d, u, phi, from) ==
  LET If(cond, i) == IF cond THEN <<i>> ELSE <<>>
      jumps == {b \in BasicBlock : g[b][1] # nullptr /\ g[b][2] = nullptr}
      branches == {b \in BasicBlock : g[b][2] # nullptr}
      operand == IF phi = nullptr THEN v ELSE p
  IN  [succs |-> g,
       code |-> [b \in BasicBlock |->
         If(b = phi, p) \o If(b = root, c) \o If(b = d, v) \o If(b = u, w)
         \o <<Terminator(b)>>],
       type |-> [i \in Instrs |->
         CASE i = p -> "kPhi"
           [] i = w -> "kBinary"
           [] i \in {Terminator(b) : b \in branches} -> "kBranch"
           [] i \in {Terminator(b) : b \in jumps} -> "kJump"
           [] i \in {c, v} -> "kConst"
           [] OTHER -> "kReturn"],
       operands |-> [i \in Instrs |->
         IF i = w THEN <<operand, operand>>
         ELSE IF i \in {c, v, p} \cup {Terminator(b) : b \in jumps} THEN <<>>
         ELSE <<c>>],
       phi_nodes |-> [i \in Instrs |->
         IF i # p \/ phi = nullptr THEN {}
         ELSE {<<IF b \in from THEN v ELSE c, b>> :
                 b \in {b \in BasicBlock : phi \in Succs(g, b)}}]]

ProgramsOf(g) ==
  LET dominance == Dominance(g)
      Under(d) == {e[2] : e \in {e \in dominance : e[1] = d}}
      joins == {b \in BasicBlock :
                  Cardinality({a \in BasicBlock : b \in Succs(g, a)}) > 1}
  IN  {ProgramOf(g, e[1], e[2], nullptr, {}) : e \in dominance}
      \cup {ProgramOf(g, d, e[2], e[1], Under(d)) :
              d \in BasicBlock, e \in {e \in dominance : e[1] \in joins}}

AllPrograms == UNION {ProgramsOf(g) : g \in CfgGraphs}

\* Functions that also call another one.
WithCall(prog) ==
  [prog EXCEPT !.type[w] = "kOther"]

CallPrograms == AllPrograms \cup {WithCall(prog) : prog \in AllPrograms}

=============================================================================
