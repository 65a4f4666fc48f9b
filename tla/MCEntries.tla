------------------------------ MODULE MCEntries ------------------------------
(***************************************************************************)
(* Instances of Entries for TLC: every wallet has the same funder.         *)
(***************************************************************************)
EXTENDS Entries, TLC

CONSTANT f
MCFunderOf == [t \in Traders |-> f]
Interchangeable == Permutations(Traders) \cup Permutations(Requests)
==============================================================================
