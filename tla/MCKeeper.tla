------------------------------ MODULE MCKeeper ------------------------------
(***************************************************************************)
(* Two traders, a few trades, batches of two.  Everything that can go      *)
(* wrong (a crash, a lost answer, an expired transaction, a failed read)   *)
(* draws on FaultBound.                                                    *)
(***************************************************************************)
EXTENDS Keeper
==============================================================================
