------------------------------ MODULE Vectors ------------------------------
(***************************************************************************)
(* The operations of std::vector the code uses, on sequences.  Positions   *)
(* count from 1.                                                           *)
(***************************************************************************)
EXTENDS Integers, Sequences, FiniteSets

\* What the vector holds.
Elements(s) == {s[k] : k \in 1 .. Len(s)}

\* vector::erase of the element at position k.
Erase(s, k) == SubSeq(s, 1, k - 1) \o SubSeq(s, k + 1, Len(s))

\* vector::insert of e before the element at position k, or at the end.
Insert(s, k, e) == SubSeq(s, 1, k - 1) \o <<e>> \o SubSeq(s, k, Len(s))

\* vector::back and vector::pop_back of a non-empty vector.
Back(s) == s[Len(s)]
PopBack(s) == SubSeq(s, 1, Len(s) - 1)

\* What a loop over s appends to an empty vector that takes the elements at the
\* positions `kept` and no others.
Kept(s, kept) ==
  [n \in 1 .. Cardinality(kept) |->
     s[CHOOSE k \in kept : Cardinality({j \in kept : j < k}) = n - 1]]
=============================================================================
