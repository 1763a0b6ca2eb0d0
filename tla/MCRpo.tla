------------------------------- MODULE MCRpo -------------------------------
(* Rpo on functions of a few blocks. *)
EXTENDS Rpo, TLC
=============================================================================
