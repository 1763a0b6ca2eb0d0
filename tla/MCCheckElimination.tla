------------------------ MODULE MCCheckElimination ------------------------
(* Dom and CheckElimination on functions of a few blocks. *)
EXTENDS CheckElimination, TLC

\* Checks of two values, bounds that hold each other, and what is not a check.
MCKindOf ==
  [null_v |-> [type |-> "kNullCheck", check |-> "v"],
   bound_v |-> [type |-> "kBoundCheck", check |-> "v", lower |-> 0, upper |-> 2],
   inner_v |-> [type |-> "kBoundCheck", check |-> "v", lower |-> 1, upper |-> 2],
   bound_w |-> [type |-> "kBoundCheck", check |-> "w", lower |-> 0, upper |-> 1],
   const |-> [type |-> "kConst"]]

\* Nothing tells two blocks apart but their place in the graph, except the root.
Symmetry == Permutations(BasicBlock \ {root})

=============================================================================
