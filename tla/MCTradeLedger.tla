---------------------------- MODULE MCTradeLedger ----------------------------
(***************************************************************************)
(* Instances of TradeLedger for TLC: two states of a curve, one of them    *)
(* with three tokens left, of which the larger buys get a part, and a pool *)
(* that changes its offset.  Ten lamports buy three tokens on either state *)
(* of the curve, at different costs, and a purchase of two makes up for    *)
(* selling on one and buying back on the other.                            *)
(***************************************************************************)
EXTENDS TradeLedger

FullCurve == [solReserve |-> 100, tokenReserve |-> 45, deliverableTokens |-> 40, feeBps |-> 125]
SpentCurve == [solReserve |-> 175, tokenReserve |-> 120, deliverableTokens |-> 3, feeBps |-> 125]
MCCurves == {FullCurve, SpentCurve}
NewPool == [base |-> 45, quote |-> 80, offset |-> 20]
MCAmms == {NewPool, [NewPool EXCEPT !.offset = 40]}

\* Mints, orders and confirmations differ in nothing but their names.
Interchangeable == Permutations(Mints) \cup Permutations(Orders) \cup Permutations(Confirms)
==============================================================================
