----------------------------- MODULE PrizeSplit -----------------------------
(***************************************************************************)
(* Who is placed where and what each place is paid: rankSeason             *)
(* (packages/scoring/src/rank.ts) and distribute                           *)
(* (packages/seasons/src/payout.ts) under one ruleset.                     *)
(***************************************************************************)
EXTENDS Ordering, FiniteSetsExt, Functions

CONSTANTS
    Bands,           \* payout bands: the least pot and the shares of its places
    HouseBps,
    HouseThreshold

Bps == 10000

\* validateRuleset
ASSUME RulesetAssumption ==
    /\ Bands \in Seq([minPot : Nat, shares : Seq(Nat \ {0})])
    /\ Bands # <<>> /\ Bands[1].minPot = 0
    /\ \A i, j \in DOMAIN Bands : i < j => Bands[i].minPot < Bands[j].minPot
    /\ \A i \in DOMAIN Bands : SumFunction(Bands[i].shares) = Bps
    /\ HouseBps \in 0..Bps /\ HouseThreshold \in Nat
\* Of the bands there are (spec.ts, PAYOUT_BANDS), none pays a later place more.
ASSUME BandsAssumption ==
    \A i \in DOMAIN Bands : \A p, q \in DOMAIN Bands[i].shares :
        p < q => Bands[i].shares[p] >= Bands[i].shares[q]

BandFor(pot) == Bands[Max({i \in DOMAIN Bands : pot >= Bands[i].minPot})]

\* The cut is of the fees alone: what a sponsor put up is paid out whole.
HouseCut(pot, fees) == IF pot <= HouseThreshold THEN 0 ELSE (fees * HouseBps) \div Bps

\* distribute: the lamports of each paid place.  Shares are renormalized over the places
\* there are entrants for, and what flooring leaves goes to the first.
Distribute(pot, fees, entrants) ==
    IF entrants = 0 \/ pot = 0 THEN <<>>
    ELSE LET band == BandFor(pot).shares
             shares == SubSeq(band, 1, Min({Len(band), entrants}))
             prizes == pot - HouseCut(pot, fees)
             floored == [p \in DOMAIN shares |-> (prizes * shares[p]) \div SumFunction(shares)]
         IN  [floored EXCEPT ![1] = @ + prizes - SumFunction(floored)]

TruncatedDiv(n, d) == IF n < 0 THEN -((-n) \div d) ELSE n \div d
Gain(standing) == standing.finalEquity - standing.startingBalance
ReturnBps(standing) == TruncatedDiv(Gain(standing) * Bps, standing.startingBalance)

\* compareStandings: by return, then gain, then who entered first, then the key.
Ahead(left, right) ==
    \/ ReturnBps(left) > ReturnBps(right)
    \/ /\ ReturnBps(left) = ReturnBps(right)
       /\ \/ Gain(left) > Gain(right)
          \/ Gain(left) = Gain(right) /\ left.enteredAt < right.enteredAt
          \/ /\ Gain(left) = Gain(right) /\ left.enteredAt = right.enteredAt
             /\ left.trader < right.trader

RankSeason(standings) ==
    OrderedBy(standings, {pair \in standings \X standings : Ahead(pair[1], pair[2])})
==============================================================================
