--------------------------- MODULE MCSeasonPayout ---------------------------
(***************************************************************************)
(* Three entrants of whom two are paid, then one alone in a season too     *)
(* small for the house.  The marks differ by less than a basis point, or   *)
(* only in who entered first, or in nothing but the key.                   *)
(***************************************************************************)
EXTENDS SeasonPayout

MCEntrants == <<{1, 2, 3}, {3}>>
MCEnteredAt == <<7, 7, 5>>
MCMarks == {<<29999, 30001, 30000>>, <<30000, 30000, 30000>>}
MCBands == <<[minPot |-> 0, shares |-> <<10000>>], [minPot |-> 15, shares |-> <<7000, 3000>>]>>
==============================================================================
