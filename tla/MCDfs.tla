------------------------------- MODULE MCDfs -------------------------------
(* Dfs on functions of a few blocks. *)
EXTENDS Dfs, TLC
=============================================================================
