---------------------------- MODULE Subsequences ----------------------------
(***************************************************************************)
(* What is left of a sequence when some of its elements are kept, in their *)
(* order: JavaScript's filter.  In closed form, so that its properties can *)
(* be proved: SelectSeq is recursive.                                      *)
(***************************************************************************)
EXTENDS Integers, Sequences, FiniteSets

Rank(S, i) == Cardinality({j \in S : j <= i})
Nth(S, k) == CHOOSE i \in S : Rank(S, i) = k

\* The elements of s at the given indexes.
ElementsAt(s, indexes) ==
  [k \in 1 .. Cardinality(indexes) |-> s[Nth(indexes, k)]]
=============================================================================
