------------------------------- MODULE MCDuels -------------------------------
(***************************************************************************)
(* Instances of Duels for TLC.                                             *)
(***************************************************************************)
EXTENDS Duels

Worth(c, o) == [challenger |-> c, opponent |-> o]
MCWorths == {Worth(2, 2), Worth(3, 2)}
==============================================================================
