----------------------------- MODULE Selections -----------------------------
(***************************************************************************)
(* The elements of a sequence that a comprehension with a condition keeps, *)
(* given by the set of their positions.                                    *)
(***************************************************************************)
EXTENDS Integers, Sequences, FiniteSets

\* The members of a finite set of numbers in increasing order.
Listed(I) ==
  [n \in 1..Cardinality(I) |-> CHOOSE i \in I : Cardinality({j \in I : j < i}) = n - 1]

\* The elements of s at the positions in I, in the order of s.
Selected(s, I) == [n \in 1..Cardinality(I) |-> s[Listed(I)[n]]]
=============================================================================
