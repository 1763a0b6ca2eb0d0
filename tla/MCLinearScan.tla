---------------------------- MODULE MCLinearScan ----------------------------
(***************************************************************************)
(* Small instances of LinearScan for TLC.                                  *)
(***************************************************************************)
EXTENDS LinearScan, TLC

CONSTANTS i1, i2, i3, i4,   \* instructions
          MaxTime           \* the last time of a lifetime

Ranges == {r \in (0 .. MaxTime) \X (0 .. MaxTime) : r[1] < r[2]}

\* One range; two with a hole between them; two of which the last is empty, as
\* that of a value whose last use is at the start of a block.
MixedLifetimes ==
  {{r} : r \in Ranges}
  \cup {{<<0, 1>>, <<MaxTime - 1, MaxTime>>}, {<<0, 1>>, <<MaxTime - 1, MaxTime - 1>>}}

Instr4 == {i1, i2, i3, i4}

=============================================================================
