------------------------------ MODULE Selection -------------------------------
(***************************************************************************)
(* SELECT ... WHERE ... ORDER BY, of a table that is kept as a sequence in *)
(* the order of the query.                                                 *)
(*                                                                         *)
(* SelectSeq says the same, but the prover has no definition of it.  Here  *)
(* the rows that are wanted are a set of positions.                        *)
(***************************************************************************)
EXTENDS Naturals, Sequences, FiniteSets

Rank(at, i) == Cardinality({j \in at : j <= i})
Nth(at, n) == CHOOSE i \in at : Rank(at, i) = n

\* The members of s at the positions at, in their order.
Picked(s, at) == [n \in 1..Cardinality(at) |-> s[Nth(at, n)]]
=============================================================================
