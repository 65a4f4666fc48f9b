----------------------------- MODULE TradeLedger -----------------------------
(***************************************************************************)
(* One practice account under concurrent orders and purchases              *)
(* (app/lib/execute-trade.ts, packages/db/src/trading.ts, payments.ts).    *)
(* An order reads the balance, waits out the latency, reads the market and *)
(* the position, is quoted, takes a place in the process's queue of write  *)
(* transactions (packages/db/src/client.ts) and is written on condition    *)
(* that what it was quoted against still holds.  A purchase of practice    *)
(* balance goes through the same queue.                                    *)
(*                                                                         *)
(* A mint trades on its bonding curve until it graduates, and then on a    *)
(* pool (packages/pools/src/reader.ts).  A curve is one account, read in   *)
(* one call.  A pool is read in several: its account, then its two vaults, *)
(* whose slot names the reading, then the fee.  FillEngine says what a     *)
(* reading gives for an order.                                             *)
(***************************************************************************)
EXTENDS FillEngine, Sequences, FiniteSets, SequencesExt, FiniteSetsExt

CONSTANTS
    Mints, Sizes, StartingBalance, Signatures, Credit,
    Curves,       \* what the account of a bonding curve may say
    Amms,         \* what a graduated mint's pool and its vaults may say
    PublishedFee, \* basis points, as PumpSwap's config account gives them
    DefaultFee,   \* what is assumed when that account cannot be read
    Orders,       \* calls of executeTrade that may be in flight at once
    Confirms,     \* calls of settlePayment that may be in flight at once
    SlotBound,    \* bound of the model: slots the market moves through
    TradeBound,   \* bound of the model: trades and events after which nobody clicks
    EventBound    \* bound of the model: failed transactions, failed reads, other accounts' fills

ASSUME EngineAssumption ==
    /\ Sizes \subseteq Nat \ {0} /\ PublishedFee \in Nat /\ DefaultFee \in Nat
    /\ Curves \subseteq PoolStates
    /\ Amms \subseteq [base : Nat \ {0}, quote : Nat \ {0}, offset : Nat]
ASSUME BalanceAssumption == StartingBalance \in Nat /\ Credit \in Nat
ASSUME ActorsAssumption == Orders \cap Confirms = {}
ASSUME BoundAssumption == SlotBound \in Nat

VARIABLES
    market,     \* the slot, and where every mint trades in it, with what reserves
    balance,    \* accounts.sol_balance
    open,       \* open[m]: the open row of positions, or NoPosition
    trades,     \* the table trades
    snapshots,  \* the table pool_snapshots
    payments,   \* the table payments: signatures
    orders,     \* the orders in flight
    confirms,   \* the confirmations in flight
    queue,      \* serializeWrites: who holds the write turn and who waits for it
    events

vars == <<market, balance, open, trades, snapshots, payments, orders, confirms, queue, events>>
account == <<balance, open, trades, snapshots>>

NoPosition == [tokens |-> 0, cost |-> 0, realized |-> 0]
Idle == [pc |-> "idle"]
Venues == Curves \cup Amms

Init ==
    /\ market \in {[slot |-> 0, venue |-> venue] : venue \in [Mints -> Venues]}
    /\ balance = StartingBalance
    /\ open = [m \in Mints |-> NoPosition]
    /\ trades = <<>> /\ snapshots = {} /\ payments = {}
    /\ orders = [o \in Orders |-> Idle]
    /\ confirms = [c \in Confirms |-> Idle]
    /\ queue = <<>> /\ events = 0

------------------------------------------------------------------------------
(***************************************************************************)
(* The market and the write queue                                          *)
(***************************************************************************)

\* Reserves change, or the mint graduates, for good.
MarketMoves ==
    /\ market.slot < SlotBound
    /\ \E m \in Mints : \E v \in Venues \ {market.venue[m]} :
          /\ market.venue[m] \in Amms => v \in Amms
          /\ market' = [slot |-> market.slot + 1, venue |-> [market.venue EXCEPT ![m] = v]]
    /\ UNCHANGED <<account, payments, orders, confirms, queue, events>>

HasTurn(a) == queue # <<>> /\ Head(queue) = a
JumpsAhead(a) == queue' = <<a>> \o queue
Queues(a) == queue' = Append(queue, a)
Held(a) == queue
Released(a) == Tail(queue)
Becomes(o, order) == orders' = [orders EXCEPT ![o] = order]
Settles(c, confirm) == confirms' = [confirms EXCEPT ![c] = confirm]

\* The transaction cannot be opened, or a statement fails and it is rolled back:
\* the turn is given back and the caller gets the error.
OpenFails ==
    /\ queue # <<>> /\ events < EventBound
    /\ events' = events + 1
    /\ queue' = Released(Head(queue))
    /\ orders' = [o \in Orders |-> IF HasTurn(o) THEN Idle ELSE orders[o]]
    /\ confirms' = [c \in Confirms |-> IF HasTurn(c) THEN Idle ELSE confirms[c]]
    /\ UNCHANGED <<market, account, payments>>

------------------------------------------------------------------------------
(***************************************************************************)
(* One order: executeTrade, PoolReader and recordTrade                     *)
(***************************************************************************)

\* What a reading of a pool says: the vaults as they are, the part of the quote
\* reserve that only the pool's account counts, and the fee, each as it was found.
Offsets == {0} \cup {amm.offset : amm \in Amms}
Combined(amm, offset, fee) ==
    [solReserve |-> amm.quote + offset, tokenReserve |-> amm.base,
     deliverableTokens |-> amm.base, feeBps |-> fee]
Fees == {PublishedFee, DefaultFee}
Readings == Curves \cup {Combined(amm, offset, fee) : amm \in Amms, offset \in Offsets, fee \in Fees}
Unread == [solReserve |-> 0, tokenReserve |-> 0, deliverableTokens |-> 0, feeBps |-> 0]

\* The account is read, and the market for the price shown to the trader.  That reading
\* decides whether the order is refused, and nothing else.
Click(o, m, side, size) ==
    /\ orders[o].pc = "idle" /\ Len(trades) + events < TradeBound
    /\ Becomes(o, [pc |-> "waiting", mint |-> m, side |-> side, size |-> size, balance |-> balance,
                   slot |-> 0, source |-> "unread", offset |-> 0, pool |-> Unread,
                   fill |-> NoQuote, position |-> NoPosition])
    /\ UNCHANGED <<market, account, payments, confirms, queue, events>>

\* After the wait the market is read again, for the price it fills at.  The account of
\* a curve holds all there is to know, and its fee is a constant.
ReadCurve(o) ==
    /\ orders[o].pc = "waiting" /\ market.venue[orders[o].mint] \in Curves
    /\ Becomes(o, [orders[o] EXCEPT !.pc = "read", !.slot = market.slot,
                                    !.source = "curve", !.pool = market.venue[orders[o].mint]])
    /\ UNCHANGED <<market, account, payments, confirms, queue, events>>

\* The account of the pool gives the offset.
ReadPoolAccount(o) ==
    /\ orders[o].pc = "waiting" /\ market.venue[orders[o].mint] \in Amms
    /\ Becomes(o, [orders[o] EXCEPT !.pc = "reading",
                                    !.offset = market.venue[orders[o].mint].offset])
    /\ UNCHANGED <<market, account, payments, confirms, queue, events>>

\* The vaults are read in a later call, whose slot stands for the whole reading.  The
\* fee is the published one, kept since it was first read, or the default.
ReadVaults(o) ==
    /\ orders[o].pc = "reading"
    /\ \E fee \in Fees :
          /\ \/ fee = PublishedFee /\ UNCHANGED events
             \/ fee = DefaultFee /\ events < EventBound /\ events' = events + 1
          /\ Becomes(o, [orders[o] EXCEPT !.pc = "read", !.slot = market.slot, !.source = "pool",
                          !.pool = Combined(market.venue[orders[o].mint], orders[o].offset, fee)])
    /\ UNCHANGED <<market, account, payments, confirms, queue>>

Affordable(o) ==
    IF orders[o].side = "buy" THEN orders[o].size <= orders[o].balance
                              ELSE orders[o].size <= open[orders[o].mint].tokens

\* simulateFill.  What the click was shown decides only whether the order is refused.
Quote(o) ==
    IF orders[o].side = "buy" THEN QuoteBuy(orders[o].pool, orders[o].size)
                              ELSE QuoteSell(orders[o].pool, orders[o].size)

\* The position is read, the order quoted, and a place in the queue taken.
Price(o) ==
    /\ orders[o].pc = "read"
    /\ Affordable(o)
    /\ Quote(o) # NoQuote
    /\ Becomes(o, [orders[o] EXCEPT !.pc = "queued", !.fill = Quote(o),
                                    !.position = open[orders[o].mint]])
    /\ Queues(o)
    /\ UNCHANGED <<market, account, payments, confirms, events>>

\* The market cannot be read, moved too far, or the order cannot be paid for.
Refuse(o) ==
    /\ orders[o].pc \in {"waiting", "reading", "read"}
    /\ Becomes(o, Idle)
    /\ UNCHANGED <<market, account, payments, confirms, queue, events>>

CostOfSold(position, n) ==
    IF n = position.tokens THEN position.cost ELSE (position.cost * n) \div position.tokens

\* applyFill, on the balance and the position the order read.
Applied(o) ==
    LET position == orders[o].position
        fill == orders[o].fill
        cost == CostOfSold(position, fill.tokens)
    IN  IF orders[o].side = "buy"
        THEN [balance |-> orders[o].balance - fill.sol,
              position |-> [tokens |-> position.tokens + fill.tokens,
                            cost |-> position.cost + fill.sol,
                            realized |-> position.realized]]
        ELSE [balance |-> orders[o].balance + fill.sol,
              position |-> IF fill.tokens = position.tokens THEN NoPosition
                           ELSE [tokens |-> position.tokens - fill.tokens,
                                 cost |-> position.cost - cost,
                                 realized |-> position.realized + fill.sol - cost]]

\* Every update is conditional on what the order was quoted against.
SameTokens(o) == open[orders[o].mint].tokens = orders[o].position.tokens
SameBalance(o) == balance = orders[o].balance
StillHolds(o) == SameBalance(o) /\ SameTokens(o)

\* The reserves of a mint at a slot, as the first fill there saw them.
LatestSlot(o) == market.slot
SnapshotSlot(o) == orders[o].slot
Snapshot(o) == [mint |-> orders[o].mint, slot |-> SnapshotSlot(o),
                source |-> orders[o].source, pool |-> orders[o].pool]
Stored(mint, slot) == {s \in snapshots : s.mint = mint /\ s.slot = slot}
Kept(snapshot) ==
    IF Stored(snapshot.mint, snapshot.slot) = {} THEN snapshots \cup {snapshot} ELSE snapshots

\* Snapshots are shared by all accounts: another one's fill stores what it was quoted.
AnotherFills(m) ==
    /\ events < EventBound
    /\ events' = events + 1
    /\ \/ /\ market.venue[m] \in Curves
          /\ snapshots' = Kept([mint |-> m, slot |-> market.slot, source |-> "curve",
                                pool |-> market.venue[m]])
       \/ /\ market.venue[m] \in Amms
          /\ \E fee \in Fees :
                snapshots' = Kept([mint |-> m, slot |-> market.slot, source |-> "pool",
                                   pool |-> Combined(market.venue[m], market.venue[m].offset, fee)])
    /\ UNCHANGED <<market, balance, open, trades, payments, orders, confirms, queue>>

\* hashed: what the leaf hash covers beyond the row's own columns.
Trade(o) ==
    [mint |-> orders[o].mint, side |-> orders[o].side, fill |-> orders[o].fill,
     slot |-> SnapshotSlot(o), source |-> orders[o].source, hashed |-> orders[o].pool]

Record(o) ==
    /\ orders[o].pc = "queued" /\ HasTurn(o)
    /\ StillHolds(o)
    /\ trades' = Append(trades, Trade(o))
    /\ snapshots' = Kept(Snapshot(o))
    /\ balance' = Applied(o).balance
    /\ open' = [open EXCEPT ![orders[o].mint] = Applied(o).position]
    /\ Becomes(o, Idle) /\ queue' = Released(o)
    /\ UNCHANGED <<market, payments, confirms, events>>

\* ConcurrentTradeError: rolled back, and the trader is told to ask again.
Raced(o) ==
    /\ orders[o].pc = "queued" /\ HasTurn(o)
    /\ ~StillHolds(o)
    /\ Becomes(o, Idle) /\ queue' = Released(o)
    /\ UNCHANGED <<market, account, payments, confirms, events>>

------------------------------------------------------------------------------
(***************************************************************************)
(* One purchase of practice balance: settlePayment                         *)
(***************************************************************************)

\* A finalized transfer is confirmed, perhaps again, and not found settled.
Confirm(c, s) ==
    /\ confirms[c].pc = "idle" /\ s \notin payments
    /\ Settles(c, [pc |-> "queued", signature |-> s])
    /\ Queues(c)
    /\ UNCHANGED <<market, account, payments, orders, events>>

\* The unique index on tx_signature.
AlwaysFresh(c) == TRUE
Unique(c) == confirms[c].signature \notin payments

Settle(c) ==
    /\ confirms[c].pc = "queued" /\ HasTurn(c)
    /\ Unique(c)
    /\ payments' = payments \cup {confirms[c].signature}
    /\ balance' = balance + Credit
    /\ Settles(c, Idle) /\ queue' = Released(c)
    /\ UNCHANGED <<market, open, trades, snapshots, orders, events>>

\* Another confirmation was first: rolled back, and theirs is read back.
AlreadySettled(c) ==
    /\ confirms[c].pc = "queued" /\ HasTurn(c)
    /\ ~Unique(c)
    /\ Settles(c, Idle) /\ queue' = Released(c)
    /\ UNCHANGED <<market, account, payments, orders, events>>

Next ==
    \/ MarketMoves \/ OpenFails
    \/ \E m \in Mints : AnotherFills(m)
    \/ \E o \in Orders :
        \/ \E m \in Mints, side \in {"buy", "sell"}, size \in Sizes : Click(o, m, side, size)
        \/ ReadCurve(o) \/ ReadPoolAccount(o) \/ ReadVaults(o)
        \/ Price(o) \/ Refuse(o) \/ Record(o) \/ Raced(o)
    \/ \E c \in Confirms :
        \/ \E s \in Signatures : Confirm(c, s)
        \/ Settle(c) \/ AlreadySettled(c)

Spec == Init /\ [][Next]_vars

------------------------------------------------------------------------------
(***************************************************************************)
(* Correctness                                                             *)
(***************************************************************************)

\* The rows and the calls in flight keep their shapes, and exactly the calls that
\* wait for a write turn are in the queue, once each.
TypeOK ==
    /\ market.slot \in 0 .. SlotBound /\ market.venue \in [Mints -> Venues]
    /\ balance \in Nat
    /\ \A m \in Mints : open[m].tokens \in Nat /\ open[m].cost \in Nat /\ open[m].realized \in Int
    /\ \A i \in DOMAIN trades : trades[i].mint \in Mints /\ trades[i].hashed \in Readings
    /\ payments \subseteq Signatures
    /\ \A o \in Orders : orders[o].pc \in {"idle", "waiting", "reading", "read", "queued"}
    /\ \A c \in Confirms : confirms[c].pc \in {"idle", "queued"}
    /\ ToSet(queue) = {o \in Orders : orders[o].pc = "queued"}
                        \cup {c \in Confirms : confirms[c].pc = "queued"}
    /\ IsInjective(queue)

Of(side) == {i \in DOMAIN trades : trades[i].side = side}
Sol(i) == trades[i].fill.sol
Tokens(i) == trades[i].fill.tokens

\* "A balance that moved without a trade to explain it cannot be audited"
\* (trading.ts:269-270): the rows of trades and payments add up to the balance and
\* to the tokens held, whatever was in flight when they were written.
TradesExplainAccount ==
    /\ balance = StartingBalance + Credit * Cardinality(payments)
                   + MapThenSumSet(Sol, Of("sell")) - MapThenSumSet(Sol, Of("buy"))
    /\ \A m \in Mints :
          open[m].tokens = MapThenSumSet(Tokens, {i \in Of("buy") : trades[i].mint = m})
                             - MapThenSumSet(Tokens, {i \in Of("sell") : trades[i].mint = m})

\* A fill is kept with the reserves it was quoted against, "so any trade can be
\* recomputed from the same inputs the engine saw" (001_init.sql:175-177): every trade
\* has one snapshot, and on a curve, whoever stored it, it is what the trade's leaf
\* hashed, so the keeper can rebuild the leaf (keeper/src/leaves.ts:144-159).  Of a
\* pool this cannot be said: two readings may bear one slot and differ.
CurveLeavesRebuild ==
    \A i \in DOMAIN trades :
        \E s \in snapshots :
            /\ Stored(trades[i].mint, trades[i].slot) = {s}
            /\ trades[i].source = "curve" => s.source = "curve" /\ s.pool = trades[i].hashed

\* Orders and purchases that overlap take effect one at a time, each priced and
\* checked against the account as it is when it is written.
Account == INSTANCE SerialAccount
    WITH held <- [m \in Mints |-> open[m].tokens], Pools <- Readings
ImplementsSerialAccount == Account!Spec

\* "The state this fill was quoted against ... The write is conditional on it
\* still holding." (execute-trade.ts:310-311): though only the balance and the
\* token amount are compared, no order writes over a cost basis or a realized
\* profit other than the one it read, because the queue is first come first served.
WrittenAgainstQuoted ==
    [][\A o \in Orders : Record(o) =>
          balance = orders[o].balance /\ open[orders[o].mint] = orders[o].position]_vars

\* "Rounding always favours the pool" (engine.ts:15-18): no fill, of whatever size,
\* whole or partial, adds to what the account is worth at the reserves it filled at,
\* so a leaderboard cannot be climbed a lamport at a time.
Worth(lamports, tokens, pool) == lamports * pool.tokenReserve + tokens * pool.solReserve
NoFillEnriches ==
    [][\A o \in Orders : Record(o) =>
          LET m == orders[o].mint
              pool == orders[o].pool
          IN  Worth(balance', open'[m].tokens, pool) <= Worth(balance, open[m].tokens, pool)]_vars
==============================================================================
