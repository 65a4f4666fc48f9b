---------------------------- MODULE SeasonPayout ----------------------------
(***************************************************************************)
(* Paying a season's winners (app/lib/season-payout.ts, prize.ts) while    *)
(* the next season is opened (season-rollover.ts).  A timer starts a tick  *)
(* of the payout worker every minute whether or not the last one is done;  *)
(* each tick walks the places in order, sends a transfer out of the prize  *)
(* wallet, waits for it and records its signature in the entry's row.      *)
(*                                                                         *)
(* Season n trades during [2n-1, 2n) of the model's clock and the next     *)
(* one opens at 2n+1: between the two lies the gap in which season n is to *)
(* be paid.  Each tick marks the entrants' accounts to the market again;   *)
(* PrizeSplit ranks them and divides the pot.  Traders are their keys.     *)
(***************************************************************************)
EXTENDS PrizeSplit, Bags

CONSTANTS
    Entrants,         \* Entrants[n]: who entered season n
    EnteredAt,        \* EnteredAt[t]: when, in each season
    EntryCost,
    Sponsor,          \* lamports a sponsor adds to each season's pot
    StartingBalance,
    Marks,            \* what the accounts may be worth at an end, trader by trader
    MaxTicks,         \* ticks of the worker that may be in flight at once
    FaultBound,       \* bound of the model: failed, expired and lost transfers, crashes
    RemarkBound       \* bound of the model: ticks that find other marks than the last

SeasonBound == Len(Entrants)       \* bound of the model: seasons opened
Contestants == UNION {Entrants[n] : n \in 1 .. SeasonBound}

ASSUME EntrantsAssumption ==
    /\ Entrants \in Seq(SUBSET Nat) /\ Entrants # <<>>
    /\ \A n \in 1 .. SeasonBound : IsFiniteSet(Entrants[n])
    /\ EnteredAt \in [Contestants -> Nat] /\ Marks \subseteq [Contestants -> Nat]
ASSUME PayoutAssumption ==
    /\ {EntryCost, Sponsor} \subseteq Nat /\ StartingBalance \in Nat \ {0}
    /\ MaxTicks \in Nat \ {0} /\ {FaultBound, RemarkBound} \subseteq Nat

VARIABLES
    clock,      \* the time
    status,     \* status[n]: seasons.status of ranked season n
    marks,      \* marks[n]: the marks the last tick to look at season n found
    recorded,   \* recorded[n]: traders with a payout_tx_signature
    ticks,      \* the worker's invocations in flight
    inflight,   \* transfers sent and neither landed nor expired
    landed,     \* the bag of transfers out of the prize wallet
    faults,     \* faults so far
    lost,       \* how many of them lost a transfer's outcome
    remarked    \* history: of each season, how often a tick found other marks

payoutVars == <<clock, status, marks, recorded, ticks, inflight, landed, faults, lost, remarked>>
bounds == <<faults, lost>>
board == <<marks, remarked>>

Workers == 1 .. MaxTicks
\* seasonTotals: free entries pay nothing, a season is free or not for everybody.
Fees(n) == EntryCost * Cardinality(Entrants[n])
Pot(n) == Fees(n) + Sponsor
MarksOf(n) == {[t \in Entrants[n] |-> equity[t]] : equity \in Marks}

StartsAt(n) == 2 * n - 1
EndsAt(n) == 2 * n
Clock == 0 .. EndsAt(SeasonBound)

Idle == [pc |-> "idle", season |-> 0, todo |-> <<>>]

PayoutInit ==
    /\ clock = 0
    /\ status = <<"pending">> /\ recorded = <<{}>>
    /\ marks \in {<<equity>> : equity \in MarksOf(1)} /\ remarked = <<0>>
    /\ ticks = [w \in Workers |-> Idle]
    /\ inflight = {} /\ landed = EmptyBag /\ faults = 0 /\ lost = 0

------------------------------------------------------------------------------
(***************************************************************************)
(* Seasons                                                                 *)
(***************************************************************************)

Seasons == DOMAIN status
Running == {n \in Seasons : StartsAt(n) <= clock /\ clock < EndsAt(n)}
Upcoming == {n \in Seasons : clock < StartsAt(n)}

\* currentRankedSeason: the one that is on, else the next one due, else the last.
CurrentSeason ==
    IF Running # {} THEN Max(Running)
    ELSE IF Upcoming # {} THEN Min(Upcoming)
    ELSE Len(status)

PassTime ==
    /\ clock + 1 \in Clock /\ clock' = clock + 1
    /\ UNCHANGED <<status, recorded, ticks, inflight, landed, bounds, board>>

\* rollOnce: open the season after one that has ended.
Rollover ==
    /\ Len(status) < SeasonBound
    /\ clock >= EndsAt(Len(status))
    /\ status' = Append(status, "pending")
    /\ recorded' = Append(recorded, {}) /\ remarked' = Append(remarked, 0)
    /\ \E equity \in MarksOf(Len(status) + 1) : marks' = Append(marks, equity)
    /\ UNCHANGED <<clock, ticks, inflight, landed, bounds>>

------------------------------------------------------------------------------
(***************************************************************************)
(* One tick of the payout worker                                           *)
(***************************************************************************)

At(w, pc) == ticks[w].pc = pc
Head1(w) == Head(ticks[w].todo)
Moves(w, tick) == ticks' = [ticks EXCEPT ![w] = tick]

\* A tick that finds no season to pay returns at once.
StartTick(w) ==
    /\ At(w, "idle")
    /\ clock >= EndsAt(CurrentSeason) /\ status[CurrentSeason] # "finalized"
    /\ Moves(w, [pc |-> "board", season |-> CurrentSeason, todo |-> <<>>])
    /\ UNCHANGED <<clock, status, recorded, inflight, landed, bounds, board>>

\* The board of the entrants' equities, and what each of its places is to be paid; a
\* place the split leaves nothing for is passed over.
Standings(n, equity) ==
    RankSeason({[trader |-> t, enteredAt |-> EnteredAt[t], startingBalance |-> StartingBalance,
                 finalEquity |-> equity[t]] : t \in Entrants[n]})
Prizes(n, equity) ==
    LET split == Distribute(Pot(n), Fees(n), Cardinality(Entrants[n]))
        ranked == Standings(n, equity)
    IN  {[place |-> p, trader |-> ranked[p].trader, lamports |-> split[p]] :
            p \in {q \in DOMAIN split : split[q] > 0}}
ByPlace(prizes) == OrderedBy(prizes, {pair \in prizes \X prizes : pair[1].place < pair[2].place})
Payouts == [n \in 1 .. SeasonBound |-> [equity \in MarksOf(n) |-> ByPlace(Prizes(n, equity))]]

\* Marked to the market as it is now: prices move on after the end, and a position whose
\* pool cannot be read counts at what it cost.
ReadBoard(w) ==
    /\ At(w, "board")
    /\ LET n == ticks[w].season
       IN  \E equity \in IF SumFunction(remarked) < RemarkBound THEN MarksOf(n) ELSE {marks[n]} :
              /\ Moves(w, [ticks[w] EXCEPT !.pc = "pay", !.todo = Payouts[n][equity]])
              /\ marks' = [marks EXCEPT ![n] = equity]
              /\ remarked' = [remarked EXCEPT ![n] = IF equity = marks[n] THEN @ ELSE @ + 1]
    /\ UNCHANGED <<clock, status, recorded, inflight, landed, bounds>>

NeverSkip(w) == FALSE
AlreadyPaid(w) == Head1(w).trader \in recorded[ticks[w].season]

SkipTick(w) ==
    /\ At(w, "pay") /\ ticks[w].todo # <<>>
    /\ AlreadyPaid(w)
    /\ Moves(w, Idle)
    /\ UNCHANGED <<clock, status, recorded, inflight, landed, bounds, board>>

SkipPaid(w) ==
    /\ At(w, "pay") /\ ticks[w].todo # <<>>
    /\ AlreadyPaid(w)
    /\ Moves(w, [ticks[w] EXCEPT !.todo = Tail(@)])
    /\ UNCHANGED <<clock, status, recorded, inflight, landed, bounds, board>>

\* Two transfers differ even when they say the same: each has its blockhash.
Transfer(w) ==
    [season |-> ticks[w].season, payout |-> Head1(w), by |-> w, blockhash |-> <<w, faults>>]

\* sendPayout: signed and accepted by the cluster.
Send(w) ==
    /\ At(w, "pay") /\ ticks[w].todo # <<>>
    /\ ~AlreadyPaid(w)
    /\ inflight' = inflight \cup {Transfer(w)}
    /\ Moves(w, [ticks[w] EXCEPT !.pc = "confirm"])
    /\ UNCHANGED <<clock, status, recorded, landed, bounds, board>>

\* The worker that waits for a transfer hears what became of it.
Heard(tx, pc) ==
    ticks' = [w \in Workers |->
                IF tx.by = w /\ At(w, "confirm") THEN [ticks[w] EXCEPT !.pc = pc] ELSE ticks[w]]

Land(tx) ==
    /\ inflight' = inflight \ {tx}
    /\ landed' = landed (+) SetToBag({[season |-> tx.season, payout |-> tx.payout]})
    /\ Heard(tx, "record")
    /\ UNCHANGED <<clock, status, recorded, bounds, board>>

Fault == faults < FaultBound /\ faults' = faults + 1

Expire(tx) ==
    /\ Fault /\ UNCHANGED lost
    /\ inflight' = inflight \ {tx}
    /\ Heard(tx, "failed")
    /\ UNCHANGED <<clock, status, recorded, landed, board>>

RecordOne(w) == {Head1(w).trader}

\* UPDATE entries ... WHERE payout_tx_signature IS NULL.
Record(w) ==
    /\ At(w, "record")
    /\ recorded' = [recorded EXCEPT ![ticks[w].season] = @ \cup RecordOne(w)]
    /\ Moves(w, [ticks[w] EXCEPT !.pc = "pay", !.todo = Tail(@)])
    /\ UNCHANGED <<clock, status, inflight, landed, bounds, board>>

\* The catch clause: the season stays unfinalized and the next tick retries.
CarryOn(w) == IF At(w, "board") THEN Idle ELSE [ticks[w] EXCEPT !.pc = "pay", !.todo = Tail(@)]
GiveUp(w) == Idle

Orphaned(w) == {[tx EXCEPT !.by = IF @ = w THEN 0 ELSE @] : tx \in inflight}

\* The transfer has expired, the board cannot be read, the cluster refuses it.
PayoutFailed(w) ==
    /\ \/ At(w, "failed") /\ UNCHANGED faults
       \/ At(w, "board") /\ Fault
       \/ At(w, "pay") /\ ticks[w].todo # <<>> /\ ~AlreadyPaid(w) /\ Fault
    /\ Moves(w, GiveUp(w))
    /\ UNCHANGED <<clock, status, recorded, inflight, landed, lost, board>>

\* Sixty seconds pass, the status poll fails, or the signature is not written.
PayoutUnknown(w) ==
    /\ Fault
    /\ lost' = lost + 1
    /\ At(w, "confirm") \/ At(w, "record")
    /\ inflight' = Orphaned(w)
    /\ Moves(w, GiveUp(w))
    /\ UNCHANGED <<clock, status, recorded, landed, board>>

FinishTick(w) ==
    /\ At(w, "pay") /\ ticks[w].todo = <<>>
    /\ status' = [status EXCEPT ![ticks[w].season] = "finalized"]
    /\ Moves(w, Idle)
    /\ UNCHANGED <<clock, recorded, inflight, landed, bounds, board>>

\* The server restarts: every tick is gone, its transfers are not.
Crash ==
    /\ Fault
    /\ \E w \in Workers : ~At(w, "idle")
    /\ lost' = lost + Cardinality({w \in Workers : At(w, "confirm") \/ At(w, "record")})
    /\ ticks' = [w \in Workers |-> Idle]
    /\ inflight' = {[tx EXCEPT !.by = 0] : tx \in inflight}
    /\ UNCHANGED <<clock, status, recorded, landed, board>>

PayoutTick(w) ==
    \/ StartTick(w) \/ ReadBoard(w) \/ SkipPaid(w) \/ Send(w) \/ Record(w)
    \/ PayoutFailed(w) \/ FinishTick(w)

PayoutNext ==
    \/ PassTime \/ Rollover
    \/ \E w \in Workers :
        \/ StartTick(w) \/ ReadBoard(w) \/ SkipPaid(w) \/ Send(w) \/ Record(w)
        \/ PayoutFailed(w) \/ PayoutUnknown(w) \/ FinishTick(w)
    \/ \E tx \in inflight : Land(tx) \/ Expire(tx)
    \/ Crash

PayoutSpec == PayoutInit /\ [][PayoutNext]_payoutVars

\* Both timers keep firing, time passes, and a transfer lands if nothing fails.
Fairness ==
    /\ WF_payoutVars(PassTime) /\ WF_payoutVars(Rollover)
    /\ \A w \in Workers : WF_payoutVars(PayoutTick(w))
    /\ WF_payoutVars(\E tx \in inflight : Land(tx))
FairSpec == PayoutSpec /\ Fairness

------------------------------------------------------------------------------
(***************************************************************************)
(* Correctness                                                             *)
(***************************************************************************)

Of(n) == {l \in BagToSet(landed) : l.season = n}
TimesPaid(n, t) == SumFunctionOnSet(landed, {l \in Of(n) : l.payout.trader = t})

\* The rows, the ticks and the wallet's history keep the shapes the worker gives
\* them: a tick pays places of one existing season, in order and without a gap.
PayoutTypeOK ==
    /\ clock \in Clock
    /\ Len(status) \in 1 .. SeasonBound
    /\ {Len(status)} = {Len(recorded), Len(marks), Len(remarked)}
    /\ \A n \in Seasons : status[n] \in {"pending", "finalized"} /\ recorded[n] \subseteq Contestants
    /\ \A w \in Workers :
        /\ ticks[w].pc \in {"idle", "board", "pay", "confirm", "record", "failed"}
        /\ ticks[w].season \in Seasons \cup {0}
        /\ \A i, j \in DOMAIN ticks[w].todo :
              /\ ticks[w].todo[i].trader \in Entrants[ticks[w].season] /\ ticks[w].todo[i].lamports > 0
              /\ i < j => ticks[w].todo[i].place < ticks[w].todo[j].place
        /\ ticks[w].pc \in {"confirm", "record", "failed"} => ticks[w].todo # <<>>
    /\ \A tx \in inflight : tx.season \in Seasons /\ tx.by \in Workers \cup {0}
    /\ faults \in 0 .. FaultBound

\* A trader whose row says he was paid was paid (payout.ts:66-82): no order of ticks,
\* failures and restarts records a signature for money that did not move.
RecordedIsPaid == \A n \in Seasons : \A t \in recorded[n] : TimesPaid(n, t) > 0

\* What the payments of a season come to as a whole: the pot without the house's tenth of
\* the fees, to the lamport (seasons/src/payout.ts:7-10), or nothing if nobody entered
\* (:69-73), and nobody who ended with more is paid less or left out.
PaidInFull(n) ==
    LET paid == {l.payout : l \in Of(n)}
        winners == {p.trader : p \in paid}
        house == HouseCut(Pot(n), Fees(n))
    IN  /\ SumFunction([p \in paid |-> p.lamports]) = IF Entrants[n] = {} THEN 0 ELSE Pot(n) - house
        /\ Cardinality(winners) = Cardinality(paid)
        /\ \A p \in paid : /\ \A t \in Entrants[n] \ winners : marks[n][p.trader] >= marks[n][t]
                           /\ \A q \in paid : p.lamports > q.lamports => marks[n][p.trader] >= marks[n][q.trader]

\* Whatever ticks overlapped and failed on the way, a finalized season has paid every
\* place, unless the marks moved between two ticks that paid it.
PaysTheSplit ==
    /\ PayoutTypeOK /\ RecordedIsPaid
    /\ \A n \in Seasons : status[n] = "finalized" /\ remarked[n] = 0 => PaidInFull(n)

\* Paying a winner again takes an outcome that was lost, or a tick that overlaps
\* another (season-payout.ts:71): refused and expired transfers, and payments
\* that were recorded, are never followed by a second one.
DuplicateNeedsLoss ==
    \A n \in Seasons, t \in Contestants : TimesPaid(n, t) <= MaxTicks + lost

\* An ended season is paid and finalized for as long as currentRankedSeason still
\* returns it, in spite of failures, restarts and overlapping ticks.
PaidWhileCurrent ==
    \A n \in 1 .. SeasonBound :
        n \in Seasons /\ clock >= EndsAt(n) ~>
            n \in Seasons /\ (status[n] = "finalized" \/ CurrentSeason # n)
==============================================================================
