------------------------------ MODULE Ordering ------------------------------
(***************************************************************************)
(* ORDER BY: the rows of a finite set, least first.                        *)
(***************************************************************************)
EXTENDS Integers, Sequences, FiniteSets

\* A relation is the set of pairs it holds of; the k-th row has k - 1 rows below it.
Below(S, R, x) == {y \in S : <<y, x>> \in R}
OrderedBy(S, R) ==
    [k \in 1 .. Cardinality(S) |-> CHOOSE x \in S : Cardinality(Below(S, R, x)) = k - 1]

\* Numbers, ascending.
Ascending(S) == OrderedBy(S, {p \in S \X S : p[1] < p[2]})
==============================================================================
