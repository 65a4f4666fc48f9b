------------------------------ MODULE SealedLog ------------------------------
(***************************************************************************)
(* What the keeper promises: every trade is sealed into its trader's chain *)
(* at most once, in the order it was recorded and with no gap, a batch     *)
(* holds trades of one engine version, and nothing is sealed whose leaf    *)
(* does not rebuild.  How and when batches are cut is the keeper's         *)
(* business.                                                               *)
(***************************************************************************)
EXTENDS Integers, Sequences, SequencesExt, Ordering

CONSTANTS
    Records,    \* a record is one trader in one season
    Versions    \* engine versions

VARIABLES
    trades,     \* every trade in id order, as [record, version, sound]
    chain       \* chain[r]: the batches sealed for r, as [ids, version]

vars == <<trades, chain>>

Trade == [record : Records, version : Versions, sound : BOOLEAN]

Init ==
    /\ trades = <<>>
    /\ chain = [r \in Records |-> <<>>]

RecordTrade(t) ==
    /\ trades' = Append(trades, t)
    /\ UNCHANGED chain

SealedIds(r) == UNION {ToSet(chain[r][i].ids) : i \in DOMAIN chain[r]}
Unsealed(r) == Ascending({i \in DOMAIN trades : trades[i].record = r} \ SealedIds(r))

\* The next batch of r: its first n unsealed trades.
Seal(r, n) ==
    LET ids == SubSeq(Unsealed(r), 1, n)
        version == trades[Head(ids)].version IN
    /\ n \in 1 .. Len(Unsealed(r))
    /\ \A i \in ToSet(ids) : trades[i].version = version /\ trades[i].sound
    /\ chain' = [chain EXCEPT ![r] = Append(@, [ids |-> ids, version |-> version])]
    /\ UNCHANGED trades

Next ==
    \/ \E t \in Trade : RecordTrade(t)
    \/ \E r \in Records : \E n \in 1 .. Len(Unsealed(r)) : Seal(r, n)

Spec == Init /\ [][Next]_vars
==============================================================================
