--------------------------- MODULE MCSeasonProgram ---------------------------
(***************************************************************************)
(* SeasonProgram for TLC: three traders (two of whom may be named by the   *)
(* results), a keeper that can be replaced, a paid, a free and an          *)
(* ill-scheduled season, results roots that are honest, that award too     *)
(* much and that name one trader twice.                                    *)
(***************************************************************************)
EXTENDS SeasonProgram, TLC

CONSTANTS t1, t2, t3, admin1, keeper1

MCTraders == {t1, t2, t3}
MCKeys == {admin1, keeper1}

MCParam(ordinal, entryCloses, ends, cost) ==
    [ordinal |-> ordinal, keeper |-> keeper1, startsAt |-> 0,
     entryClosesAt |-> entryCloses, endsAt |-> ends, entryCost |-> cost,
     houseBps |-> 1000, slippageBps |-> 100]

MCSeasonParams ==
    { MCParam(1, 1, 2, 2),      \* a ranked season that costs two
      MCParam(1, 1, 2, 0),      \* one that is free to enter
      MCParam(-1, 1, 2, 2),     \* free play takes no entries
      MCParam(1, 2, 1, 2),      \* entries would close after the end
      [MCParam(1, 1, 2, 2) EXCEPT !.houseBps = 10001] }

MCBatches == {[root |-> "a", leaves |-> 5, engineVersion |-> 1],
              [root |-> "b", leaves |-> 0, engineVersion |-> 1]}

MCClaim(t, rank, payout) == [trader |-> t, rank |-> rank, payout |-> payout]
MCHonest == {MCClaim(t1, 1, 4), MCClaim(t2, 2, 2), MCClaim(t3, 3, 0)}
MCGreedy == {MCClaim(t1, 1, 4), MCClaim(t2, 2, 4), MCClaim(t2, 3, 1)}
MCBadLeaf == {MCClaim(t1, 0, 1), MCClaim(t2, 1, 0), MCClaim(t3, 1, 99)}
MCClaims == MCHonest \cup MCGreedy \cup MCBadLeaf
MCRoots == {"honest", "greedy", "bad"}
MCLeavesOf == [honest |-> MCHonest, greedy |-> MCGreedy, bad |-> MCBadLeaf]
MCDeposits == {1, 3}
==============================================================================
