----------------------------- MODULE Subsequences -----------------------------
(***************************************************************************)
(* The part of a sequence that a loop keeps, in its order: SelectSeq, told *)
(* by the places that are kept instead of by recursion, so that one can    *)
(* reason about it.                                                        *)
(***************************************************************************)
EXTENDS Naturals, Sequences, FiniteSets

\* The k-th smallest of a set of places.
Nth(at, k) == CHOOSE i \in at : Cardinality({j \in at : j <= i}) = k

\* What s holds at these places.
Picked(s, at) == [k \in 1..Cardinality(at) |-> s[Nth(at, k)]]
=============================================================================
