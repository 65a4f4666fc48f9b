# Probatio in TLA+

Probatio is a practice-trading competition on Solana. Traders pay an entry fee
into a season, trade virtual balance against prices read from real pools, and
are ranked when the season ends; the operator takes a house cut and pays the
winners. What makes the result trustworthy is meant to be that the rules cannot
be bent afterwards: trades are sealed into hash chains on a Solana program,
results are published as a merkle root, and money moves once.

This directory models the parts of the code on which that promise rests, and
the services around them that run beside each other; checks them with TLC on
small instances; and proves what matters most with TLAPS for every instance.
`PROJECT.json` lists the components, the runs, the source lines each definition
stands for, a mutation that each property catches, the hazards and the theorems.
To run one model: `tlc -config MCKeeper.cfg MCKeeper`; to check the proofs of one
module: `tlapm SeasonProofs.tla`.

Contents: 1 inventory, 2 modules and how they correspond to the code, 3 runs,
4 where the code and its comments disagree, 5 fairness, 6 proofs, 7 what is only
model-checked, 8 what is not modelled, 9 plan.

---------------------------------------------------------------------------
## 1. Inventory

Everything but the Solana program is TypeScript in one Node process, with a
libSQL database. JavaScript runs to the next `await` without interruption, so the
atomic steps of the models are the stretches between awaits, and every database
statement, RPC call and timer is a place where another request, a background
worker, another machine, the chain or a restart comes in between.

### The parts with core logic

**On-chain season program** (`program/programs/probatio`).
State: `Config`, `Season`, one `Entry` and one `TraderRecord` a trader, the vault.
Operations: the eleven instructions, from `init_config` to `refund_entry`.
Hard: anybody may send a transaction at any time and in any order; the vault
may be given lamports by strangers; saturating 64-bit counters; claims and
refunds arrive in any order. Correct when the vault always covers what is owed,
nobody is paid twice, the counters mean what they say, records only grow, and
nothing moves after the end.

**Keeper** (`packages/keeper`, `packages/db/src/commits.ts`, `app/lib/keeper.ts`).
State: the tables `trades` and `commits`, and the program's records. Operations:
a pass a minute, which reconciles intents, plans batches, writes an intent,
sends, confirms, reads back. Hard: database and chain cannot be written
together; a crash, a lost answer or an expired blockhash at every await; another
writer with the same key; seasons that close while trades wait. Correct when
each trade is sealed once, in order and without a gap, everything sound is
sealed in the end, and a foreign write is noticed.

**Trade ledger** (`app/lib/execute-trade.ts`, `packages/db/src/trading.ts`,
`packages/trading/src/apply.ts`). State: `accounts.sol_balance`, `positions`,
`trades`, `pool_snapshots`. Operations: `executeTrade` (click, wait out the
latency, read the market, quote, check, write conditionally). Hard: state read
before several awaits and used after them; two orders, or an order and a
purchase, at once; the market of a graduated mint, put together from several calls
(`packages/pools/src/reader.ts`). Correct when overlapping calls are equivalent to some
sequence of them and the rows explain the balance.

**Fill engine** (`packages/sim/src/engine.ts`). No state; quotes of a buy and a
sale over one reading of the reserves. Hard: roundings, the fee taken off the
input, a curve that can deliver only part of what is asked. Correct when no
fill is worth more than was paid for it.

**Database client** (`packages/db/src/client.ts`). State: the queue of write
transactions. Hard: transactions that cannot be opened, a turn that must be
given back on every path.

**Season payout worker** (`app/lib/season-payout.ts`, `prize.ts`,
`packages/db/src/payout.ts`, `packages/seasons/src/payout.ts`,
`packages/scoring/src/rank.ts`). State: `payout_signature` of each entry, season
status, the wallet. Operations: a tick a minute that marks and ranks, divides
the pot, pays each place, records, finalizes. Hard: ticks overlap (the timer does
not wait), a transfer's outcome is lost, prices move between ticks. Correct when
each winner is paid once, what is paid is the pot, and every season is paid.

**Season rollover** (`app/lib/season-rollover.ts`, `packages/db/src/seasons.ts`).
State: table `seasons`. Operation: open the next season once the last has ended.
Hard: its choice of the current season is shared with the payout worker.

**Season entries, free-play accounts and the payments ledger** (`app/api/pay`,
`api/season/enter`, `api/store`, `packages/db/src/payments.ts`, `packages/sybil`).
State: `payment_intents`, `payments`, `entries`, `accounts`. Operations: ask for an
intent, look the wallet's funder up, confirm a payment found on chain, settle it,
enter a free season. Hard: the evidence is gathered over the network between
statements; confirmations repeat and overlap; a limit is counted before the
write. Correct when each payment buys exactly what it should, once, and an entry
carries the evidence that was checked.

**Duels** (`packages/db/src/duels.ts`, `app/app/api/duel/route.ts`,
`app/lib/duel-settle.ts`, `duel-equity.ts`). State: table `duels`. Operations:
offer, accept, decline, withdraw, and the settler's tick: lapse, select, measure,
settle. Hard: each request checks in one statement and writes in another; offers
expire while they are being accepted. Correct when each offer gets one answer,
what was agreed stands, the score is right and every duel ends.

**Strategy runner** (`app/lib/strategy-runner.ts`, `packages/db/src/strategies.ts`,
`app/api/strategy`, `app/api/v1/orders`). State: table `strategies`, the runner's
pass. Operations: save, start, stop, orders placed with a key, the sweep of ended
seasons, the pass of exits and entries. Hard: budget and holdings read once and
used after many awaits, while the owner and his program act. Correct when the
limits hold up to what was read too early, and an ended season stops.

**Pushed prices** (`app/lib/price-stream.ts`, `packages/feed/src/accounts.ts`).
State: what is viewed, watched and subscribed, the last reserves and prices, the
socket. Operations: passes of `reconcile` that may overlap, (un)subscriptions,
updates, reconnects. Hard: a pool's two vaults arrive as separate updates; a
pass awaits the chain with a mint claimed; a reconnect forgets everything.
Correct when a price is of one swap, and what is viewed is subscribed.

**RPC budget** (`packages/pools/src/rpc.ts`, `governor.ts`). State: calls in flight
and their queue, the next slot, the gap and the cooldown. Operations: admission,
pacing, retries, refusals, recovery. Hard: callers that sleep side by side; a slot
that changes hands; a refusal while others sleep. Correct when the ceiling is
exact, workers keep to the plan and no call waits for ever.

**Telegram bot** (`app/api/telegram/webhook`, `app/lib/telegram`,
`packages/db/src/telegram.ts`, `telegram-watch.ts`). State: claimed updates, watches
with their cursors. Operations: claim and run a command, and the notifier's pass.
Hard: updates are redelivered; passes overlap; a send fails or its answer is lost.
Correct when an update fills at most once and no cursor skips a fill.

The parts that only read, display or decode (candles, profiles, social features,
coach, analytics, SDK, CLI, MCP server, web interface, retention sweeps), and
those nothing runs, are in `PROJECT.json` with the reason each is left out
(section 8).

### How they interact

    trader -- HTTP --> executeTrade --> trade ledger --(rows of trades)--> keeper
       |  \--> pay, enter, store --> payments ledger                         |
       |  \--> duel routes --> duels <-- settler tick                        | commit_root
       |  \--> strategy routes --> strategies <-- runner --> executeTrade    v
       |  \--> Telegram --> webhook --> executeTrade               on-chain program
       |                    notifier <--(rows of trades)             ^ claim, refund
       |--- views --> price stream --> node (socket)                 entrants
    rollover tick --> seasons <-- payout tick --> transfers
    every read of the chain --> RPC budget --> node

- The ledger and the keeper meet in the table `trades`: a trade gets an id when it
  is written, a batch is a range of ids, and its leaf must be rebuilt from the row
  and a stored snapshot. `CurveLeavesRebuild` in the ledger says that a trade on a
  curve is what the keeper's model calls a *sound* one; of a graduated mint a trade
  may be unsound (section 4), and the keeper's model has trades that are.
- The keeper and the program meet in `commit_root`: a finalized or voided season
  rejects commits (`CommitRoot` in `SeasonProgram`, `closed` in `Keeper`).
- The payout worker and the rollover meet in `currentRankedSeason`; they are
  modelled together.
- Orders, purchases and every other write transaction meet in the client's queue;
  the ledger's quotes are the fill engine's.
- Orders of people, of the strategy runner, of keys and of the bot all go through
  `executeTrade`. To the bot and the runner an order is one that fills or does
  not; what it may do to the account is the ledger's.
- The notifier and the ledger meet in `trades` again: a cursor is a trade's id.

---------------------------------------------------------------------------
## 2. Modules and the code

| module | models | extends / instances |
|---|---|---|
| `BasicLemmas` | facts several proofs rest on: induction, sorting, division, sums | `Ordering` |
| `Ordering` | `ORDER BY` of a query, over a set of rows | |
| `SeasonProgram` | the Solana program, one season | |
| `SealedLog` | abstract: what the keeper promises | |
| `Keeper` | the keeper, its tables and the chain's records | `Ordering`; `SealedLog` by refinement |
| `KeeperProofs` | theorems about it | `Keeper`, `BasicLemmas` |
| `PrizeSplit` | ranking, bands, house cut, division of a pot | `Ordering` |
| `SeasonPayout` | payout worker, prize transfers, rollover | `PrizeSplit` |
| `SeasonProofs` | theorems about the program and the payout | `SeasonProgram`, `SeasonPayout`, `BasicLemmas` |
| `FillEngine` | quotes of the fill engine | |
| `SerialAccount` | abstract: an account that trades one order at a time | `FillEngine` |
| `TradeLedger` | orders, purchases, the write queue | `FillEngine`; `SerialAccount` by refinement |
| `TradeLedgerProofs` | theorems about it and the fill engine | `TradeLedger`, `BasicLemmas` |
| `Duels` | duel requests and the settler | `Ordering` |
| `DuelsProofs` | theorems about it | `Duels`, `BasicLemmas` |
| `Entries` | intents, evidence, confirmation, entries, purchases | |
| `Strategies` | a trader's strategies, his key and the runner | |
| `TraderProofs` | theorems about both | `Entries`, `Strategies`, `BasicLemmas` |
| `PriceStream` | pushed prices over one socket | |
| `RpcBudget` | calls to one RPC endpoint | |
| `NodeProofs` | theorems about both | `PriceStream`, `RpcBudget`, `BasicLemmas` |
| `TelegramBot` | webhook, watches, notifier | |
| `TelegramBotProofs` | theorems about it | `TelegramBot`, `BasicLemmas` |
| `MC...` | constants for TLC | the module named |

### SeasonProgram

Variables are the accounts (`admin` = Config.admin, `season`, `entries`,
`records`), the vault's lamports, the clock and two history variables (`payouts`,
`prizesPaid`). One action an instruction: its account constraints and `require!`
lines are the guard. A transaction that fails one changes nothing, so there is no
action for it. `Tick` and gifts to the vault are the environment.

Abstractions: a key is a model value; sha256 is collision free, so an
accumulator *is* the sequence of batches folded into it, and a results root is
determined by the claims some merkle path proves against it (`LeavesOf`), which
may be honest, award more than the pot, or name a trader twice. Saturating
arithmetic is kept, at `MaxU64` and `MaxCount`. Fields no handler reads back are
left out.

### Keeper and SealedLog

`pc` walks through one pass: `reconcile`, `settle` (each intent), `commit`, `send`,
`confirm`, `verify`. Each action is the code between two awaits. `todo`, `batches`,
`blocked`, `seen` are the pass's locals, forgotten by `Crash`. `inflight` holds
signed transactions that may yet land, fail or expire; `awaiting` says whether the
process still listens. `RecordTrade`, `CloseRecord` and `CommitForeign` are the
ledger, the program and somebody else with the keeper's key.

A merkle root is the list of trade ids under it. `sound` is whether a trade's
leaf rebuilds. A commit row's id keeps only its order among rows that exist.
`LateLanding` says whether a transaction may still land when the next pass has
begun: the code assumes not (see 4), so the promises are checked with FALSE and
the assumption is refuted with TRUE.

`SealedLog` is the promise in two actions: a trade is recorded; the next `n`
unsealed trades of a record, all sound and of one engine version, are sealed. The
refinement maps `chain` to the keeper's own batches on the chain (foreign batches
removed); everything else the keeper does is a stutter.

### PrizeSplit and SeasonPayout

`PrizeSplit` is arithmetic: `BandFor`, `HouseCut`, `Distribute` (shares renormalized
over the places there are entrants for, floored, dust to the first) and the order
of a board with its tie breaks (return, final equity, the earlier entry, the key).
A ruleset the code's `validateRuleset` accepts is the assumption on its constants
(`RulesetAssumption`); that no band pays a later place more (`BandsAssumption`) is not
validated, but is so of the bands there are (`PAYOUT_BANDS` in `spec.ts`).

In `SeasonPayout`, `status` and `recorded` are the rows of `seasons` and the entries'
payout signatures; `ticks` are invocations of the worker: which season each took,
the payments still to make, where it stands. `inflight` and `landed` are the
wallet's transfers (`landed` is a bag: the same place may be paid twice).
`PassTime` and `Rollover` are the calendar on a coarse clock: season *n* trades in
`[2n-1, 2n)`, and its successor opens in the gap after it. Each tick marks the
accounts anew: `marks[n]` is what the last one found, any member of `Marks`, and
`remarked[n]` counts how often a tick found other marks than the last did.

### FillEngine, TradeLedger and SerialAccount

`FillEngine` is `quoteBuy` and `quoteSell`: the fee and a lamport off the input, the
constant product, each result rounded the pool's way, and the inversion that
prices what a curve can still deliver when it cannot deliver what is asked.
Limits that only refuse (slippage, impact) are orders that may be refused.

`orders[o]` is one call of `executeTrade` with everything it has read so far:
the balance at the click, then slot, pool, fill and position. Its steps: `Click`; the
reading, which is one call for a curve (`ReadCurve`) and two for a graduated mint,
the pool's account for the offset (`ReadPoolAccount`) and later the vaults, whose
slot and the fee complete it (`ReadVaults`); `Price` (quote, sanity check, join the
queue), `Record` (the conditional write), `Raced` (the condition failed) and
`Refuse`. The fee is the published one or, when the config account cannot be read,
the default. `AnotherFills` is a fill of another account: all that is shared with it
is the table of snapshots, where it may be first. `confirms[c]` is one
call of `settlePayment`. `queue` is `serializeWrites`: its head holds the turn, the
rest wait in order. `OpenFails` is a transaction that cannot be opened: an
error for its caller, and the turn passes on. `MarketMoves` is a new slot, in which
a mint has other reserves or another offset, or has graduated, for good. The cost of the share sold is `CostOfSold`, with its floor.

`SerialAccount` is the promise: `Buy`, `Sell` and `TopUp`, each on the account as it
is, each at a quote of the same engine.

### Duels

`requests[r]` is one request between its statements. An offer runs
`live`, `pair`, `count`, `insert`; an accept reads the row, measures both accounts,
checks that neither is duelling, then writes conditionally; a decline or a
withdrawal writes conditionally. `settler` is one tick: `select`, then for each due
duel `score` and `write`. `TickFails` is a duel that cannot be scored or written,
`TickStops` a tick that throws before it scores, or is cut off by a restart; one in
which lapsing fails has changed nothing. The guard `busy` makes ticks exclusive, but the duel
route can overlap with all of it. A pair's worth is any member of `Worths`, for
balance, positions and prices are read at different moments.

### Entries

`intents`, `payments`, `entries`, `accounts` are the tables; `chain` the intents whose
transaction is final; `requests[r]` a request between statements. `Ask`, `Gather`,
`CountSettled`, `CountPending`, `InsertIntent`, `RecordEvidence` are `pay/intent`;
`Buy`, `InsertQuote` the store; `Confirm`, `CheckPayment`, `Settle` both confirmations;
`FreeInsert` the entry of a free season; `Pay` the wallet. `RequestDies` ends any of
them at any await. `raced` records that something happened which the counts of
siblings cannot see; `OverTheLimitTakesARace` is about nothing else.

A transaction is identified with the intent whose reference it carries, since the
message that is signed is the one the server built. A funder that could not be
read is `Unread`, and is what the code takes for a shared one. The age flags an
entry carries decide nothing and are left out.

### Strategies

One trader: `strategies` (the table), `calls` (his requests of save, start, stop and
of orders with a key), `runner` (the tick in progress, with what it has read),
`trades` and `positions` of each season's account. `Timeline` is what
`currentRankedSeason` names and whether it is open, stage by stage: a season, the
wait, the next. What the rules want to buy or sell is any choice of mints. A fill
is void when the account has moved since it was read, as in the ledger.
`overlap` counts the key's orders filled while a pass was spending its budget, and
`entered` which positions the runner took: history, for the properties.

### PriceStream

`viewed`, `watching`, `accounts`, `reserves`, `latest` and `passes` are the maps of
`price-stream.ts`; `wanted`, `pending`, `live`, `open` those of `AccountSubscription`;
`toNode`, `toClient`, `node` the wire and the node's subscriptions. A pass drops what
nobody views, claims a viewed mint (`StartPass`), reads the curve, then the pool
(`ReadsCurve`, `ReadsPool`), applies (`Applies`) or fails (`ReadFails`). A reserve is
the number of the swap that left it, which is also its slot. A mint is on its
curve until it graduates. `dropped` is history: mints a pass lost while it was
resolving them.

### RpcBudget

`floor`, `slotIn`, `coolIn`, `refusals`, `successes` are the governor's; `inFlight`,
`waiting`, `gapIn` the shared client's; `callers[c]` the call each caller is in. Times
are what is left of a wait, in gaps of a credit; time passes when no timer is due
(`Tick`). `Paced`, `Cooled`, `Sends`, `Served`, `Retry`, `Refused`, `Unreached` are the
branches of `RpcClient.call` and of the governor. `refusing` is the endpoint, and
`debt` what has gone out and is not yet paid for at the rate of the plan (history).

### TelegramBot

`claimed`, `watches`, `trades` are tables; `handlers` the webhook requests past their
claim; `passes` the notifier's; `gone` the client's set of chats that have thrown it
out. `Delivers` hands an update over (again); `Claims` is the insert that makes it
at most once; orders, watches and unwatches run a statement at a time. `StartsPass`
reads what is owed, `FillsNow` and `SendAccepted`/`SendGivesNull`/`SendForbidden`/
`SendFails` are one chat's message, `Advances` the cursors at the end; `Crash` loses
handlers and passes. `told` is history: which fills a watch's chat was shown.

---------------------------------------------------------------------------
## 3. Runs

Twelve runs: eleven that pass, one that refutes something the code's own comments
say.

| run | instance | distinct states | shows |
|---|---|---|---|
| `season_program` | 3 traders, 1 season of five parameter sets, 3 roots | 193,950 | money and records of the program |
| `keeper` | 2 records, 3 trades of 2 versions, 2 faults, 1 foreign write, closing | 1,382,308 | safety and refinement of `SealedLog` |
| `keeper_live` | 2 records, 3 trades, 2 faults, closing | 51,561 | everything sound is sealed |
| `keeper_late` | 2 records, 2 trades, late landing | (violation) | a discarded intent may land |
| `payout` | 3 traders, 2 seasons, 2 ticks, 1 fault, marks that move once | 403,238 | the pot is divided and paid |
| `ledger` | 1 mint, 2 states of its curve and 2 of its pool, 2 orders, 2 confirmations, 3 trades, 1 event | 1,153,181 | serializability, nothing gained by a fill, leaves of curves rebuild |
| `duels` | 2 traders, 2 requests, 2 duels, 1 fault or restart | 1,034,942 | frozen terms, fair score, every duel ends |
| `entries` | 2 traders of one funder, 2 requests, 2 intents | 2,694,981 | each payment buys once; the funder limit |
| `strategies` | 1 request, 2 mints, 2 strategies, 2 seasons, 1 fault | 388,622 | limits and caps; ended seasons stop |
| `price_stream` | 1 mint, 2 passes, 3 swaps, 2 faults | 159,367 | prices of one swap; what is viewed is subscribed |
| `telegram` | 2 chats, 2 traders, 2 passes, 2 updates, 2 fills, 1 fault | about 669,000 | fills once, cursors skip nothing |
| `rpc` | 2 workers, 2 people, a ceiling of one | 281,138 | ceiling, budget, every call ends |

What each property says, in that order:

- `Solvent`, `CountersMatchEntries`, `PrizesWithinPot`, `PaidAtMostOnce`: the vault
  covers rent and everything owed; the counters equal what the entries add up
  to; prizes come out of a fixed pot whatever root was published; no entry is
  paid twice or both ways. `NobodyCrowdedOut`: in a voided season every paying
  entrant's refund is *enabled*, and under a root that awards no more than the
  pot every untaken prize is, whoever came first. `RecordOnlyExtends`,
  `TerminalIsFrozen`: chains only grow, and the end is the end.
- `ChainAccounted`: a record is what the last confirmed row predicted, or what one
  open intent started from or predicted. `RangeIsBatch`: every trade of the
  trader inside a batch's id range is in the batch. `HaltsForForeignOnly`: a
  foreign write stops the keeper and nothing else does, restarts included.
  `ImplementsSealedLog`. `SealsEverything`: a bad record or a closed season never
  stops another's trades. `NothingSealedTwice` is refuted (section 4).
- `PaysTheSplit`: what is recorded is money that moved, and a finalized season paid
  the pot without the house's part to the lamport, to the right traders, unless
  the marks moved between two ticks. `DuplicateNeedsLoss`: paying twice takes an
  overlapping tick or a lost outcome. `PaidWhileCurrent`: a season is finalized
  for as long as the worker still looks at it.
- `TradesExplainAccount`, `WrittenAgainstQuoted`,
  `ImplementsSerialAccount`: the write compares the balance and the token amount
  only, yet no order overwrites a cost basis or a realized profit it has not
  read. That is not by the comparison but by the queue, which is first come first
  served: when a sale is written while an order waits, a purchase that restores
  the token count is quoted after the sale and queues behind that order, which has
  its turn, and is refused, before the count matches again (section 6).
  `NoFillEnriches`: no fill, whole or partial, adds to what the account is worth at
  the reserves it was filled at. `CurveLeavesRebuild`: every trade has one snapshot,
  and for a trade on a curve it is what the leaf hashed, whoever stored it, though
  the mint may graduate between the reading and the write. It says no more, for of
  a pool more is not so (section 4).
- `FrozenOnceAgreed`: an offer is answered once, and what was agreed and scored
  stands. `SettledFairly`: the winner is the one with the greater return, in spite
  of truncation. `EveryDuelEnds`.
- `PaidForAndGiven`: every recorded payment entered its wallet or was credited,
  exactly once, and nothing was given that is not on chain. `FunderFollowsTheEntry`:
  an entry carries the funder found before its wallet was asked for money.
  `OverTheLimitTakesARace`: more entries of one funder than the limit takes an
  overlap or an unread funder.
- `RunnerWithinItsRules`: never more positions taken by the runner than the rules
  allow, and nothing bought back in the pass that sold it. `CapGivesWayToOverlap`:
  the cap is passed by no more orders than the key filled while a pass was
  spending. `EndedSeasonStops`: nothing of an ended season is marked running for
  ever, also when it was started as the season closed.
- `PriceIsOfOneSwap`, `NothingWatchedUnowned`, `ViewedIsWatched`: section 1.
  `SocketServesTheWanted`: on an open socket each wanted address is asked for or
  confirmed, once, and no id of an earlier connection names one of this.
- `FilledOnce`: an update, however often delivered, fills once.
  `CursorIsWhatWasTold`: no fill up to a cursor was skipped, and without faults
  none past it was shown, once all passes have ended. `EverythingTold`.
- `CeilingHeld`: calls that hold a slot are as many as are counted, at most the
  ceiling, and nobody queues below it. `BudgetKept`: what a worker first sends goes
  out when all before it is paid for, and outside any cooldown it could know of.
  `EveryCallEnds`.

Type invariants are conjuncts of the first invariant of each run.

### Bounds, and why they are enough

- *season_program*: `Rent` 2, `MaxU64` 9, `MaxCount` 3, time to 2, two batches a
  record. Three entrants paying 2 reach a vault of 8, and with gifts of 1 or 3 the
  9 that makes the lamport additions fail or saturate; three is also `MaxCount`,
  so the entry counter meets its limit. Three traders are one more than a
  pairwise argument needs: claims of two compete for the pot while a third has
  an entry and no prize. The clock's 0, 1, 2 are before the entry deadline, at it,
  and at the end.
- *keeper*: batches of two and three trades give a full batch, a partial one and a
  remainder; two versions break a batch early; two faults are a crash and a
  second failure while recovering from it, the shape every recovery bug needs;
  two records are needed to see one block, and not block, the other.
- *payout*: two shares and three entrants, so that one is not paid; a second season
  with one, so that its shares are renormalized, and too small a pot for the
  house. Accounts of 30,000 make marks differ by less than a basis point or only
  in who entered first. Two overlapping ticks, one fault, marks that move once.
- *ledger*: two orders are what one conditional write races with; three trades let
  an account sell out and buy in again. Ten lamports buy three tokens on either
  state of the curve at different costs, and a purchase of practice balance of two makes up for
  selling on one and buying back on the other: the same balance and tokens recur
  with another cost, the one case in which the comparison alone would not do. Three
  tokens left in the second make the larger buys partial. Two states of the pool
  differ in the offset, so that an order may put the offset of one slot to the vaults
  of the next. One event is a failed transaction, a fee that is not found or another
  account's fill; each takes the place of a trade (`TradeBound`). The proofs
  (section 6) lift all six of its properties to every instance.
- *duels*: two requests give every race of two statements; two duels; a window and
  an offer's life of one tick put expiry, the accept and the settlement at each
  side of each boundary; worths 2:2 and 3:2 on a scale of three make floored
  returns differ from exact ones.
- *entries*: a limit of one with two wallets of one funder is the smallest that can
  be passed; two intents, so that the siblings race or one wallet asks twice; an
  intent lives one tick of the clock, and a signed message no longer than it.
- *strategies*: a cap of two and two mints, so that a budget runs out in a pass that
  has more to buy; one position allowed, so that an exit makes room; the key trades
  in the first season only; two strategies, so that one runs while the start of
  the other is refused, and the other is started once it has stopped.
- *price_stream*: three swaps (the first, one on the pool and one in between) and
  four comings and goings of a viewer; two passes overlap; two faults lose the
  socket again while it recovers. One mint is within `MaxSubscriptions`; several
  would share nothing but that limit and the socket.
- *telegram*: one line a message and two fills a pass, so that what is owed fits in
  neither; two traders and two chats, so that one chat's failure meets another's
  fills; two passes overlap; one crash, failure, lost answer or block anywhere.
- *rpc*: a worker of one credit and one of two; gaps of one or two, a cooldown of
  one and a header that asks for two, so that the cap on it shows; one retry.
  `MinInterval` is 0 because the 20 ms of the shared client round to nothing of a
  432 ms gap.
- Symmetry is used only in *ledger* and *entries* (invariants and action
  properties), never with liveness.

`CHECK_DEADLOCK FALSE` stands where the bounded system really stops: the keeper
has no more trades to seal, the season is over and the wallet has paid, the
program's season is settled, the bounds on trades, intents, strategies, swaps or
fills are reached. *duels* and *rpc* never stop and are checked for deadlock.

---------------------------------------------------------------------------
## 4. Where the code and its comments disagree

One is a run that finds the property violated; the quoted line is in
`PROJECT.json`, "findings".

- `keeper_late` / `NothingSealedTwice`. Reconcile discards an intent when it
  reads the old accumulator, as one that "never landed". A transaction sent
  before the read may land after it, and its trades are batched again.
  The program's own chaining does not reject the second batch: `commit_root`
  folds whatever it is given.

The others were met while modelling. They have no run; the properties above are
stated so that they hold beside them, and say how far the damage goes.

*Trade ledger.*
- A snapshot is "kept so any trade can be recomputed from the same inputs the engine
  saw" (`001_init.sql:175-177`), one for a mint and a slot, since "two rows would be
  two different snapshots of one moment" (`trading.ts:320-323`). On a pool two
  readings of one slot may differ. The pool's account, with the offset, is read in
  an earlier call than the vaults, whose slot alone names the reading
  (`reader.ts:289-295`, `316-322`, `510`), against `pools/src/rpc.ts:449-456`: "Batching
  them makes the reading internally consistent". And the fee is the published one
  or, where a reader has not yet read the config account, the default
  (`reader.ts:174-203`). The row keeps the first reading (`trading.ts:336`), so the
  leaf of a second fill cannot be rebuilt from it, and the keeper refuses that trade.
  `CurveLeavesRebuild` without its condition on the source is refuted in the
  instance of `ledger`: one order reads the offset, the market moves, it reads the
  vaults and is written; the next reads both in the new slot.

*Keeper.*
- `uncommittedTrades` (`commits.ts:38`) has a LIMIT and no memory of trades that
  cannot be sealed; enough of them hide every trader that sorts later, against
  `runner.ts:116-118`. `SealsEverything` is checked with a LIMIT no smaller than
  the trades there are.
- `extendChain` throws on a batch without leaves, which the program accepts.

*Payout.*
- The signature is recorded after the transfer is confirmed (`season-payout.ts:71`),
  so a restart, a timeout or the next tick in between pays again, against
  `season-payout.ts:25-27`. `DuplicateNeedsLoss` bounds how often.
- The board is marked to the market at each tick (`season-payout.ts:56`); a tick
  that failed half way followed by one with another order pays two first prizes,
  against `seasons/src/payout.ts:7-8`. `PaysTheSplit` excludes just that case.
- The worker asks for the current season (`season-payout.ts:50`), and an upcoming
  one is preferred to an ended one: once the rollover (`season-rollover.ts:21-22`)
  has run, the ended season is never looked at again. Hence `PaidWhileCurrent`.

*Duels.*
- Two accepts at once, the same trader challenger in one and opponent in the
  other: both checks (`duels.ts:223`) find nobody duelling, and the two unique
  indexes of `migrations/045_duels.sql:113` are one a side, so one trader has two
  live duels, against lines 118-119 there.
- The cap on open offers (`duels.ts:154`) is read before the insert. Balance and
  positions (`duel-equity.ts`) are read at two moments. That the window fits in the
  season (`duel/route.ts:364`) is checked before the pricing, so a duel may end
  after its season.

*Entries.*
- A payer who closes the page before he confirms is asked to pay again
  (`pay/intent/route.ts:59`): `openPaymentIntents`, which `intent.ts:20-23` relies on,
  has no caller.
- Settling an entry writes `verified` while `allTimeRows` (`db/src/seasons.ts`) filters
  on `settled`.

*Pushed prices.*
- A token that graduates while watched stays on its curve: the pass skips what is
  already watched (`price-stream.ts:348`), against lines 254-255. `ViewedIsWatched`
  says so with `OnItsOldCurve`.
- An unwatch before the node's answer leaves the node a subscription the client has
  forgotten; a mint dropped while a pass resolves it may stay subscribed.

*RPC budget.* Retries are neither admitted nor counted by the governor, so
`BudgetKept` is about first attempts.

*Telegram.*
- `notify.ts:15-17`, `telegram-watch.ts:9-10` and `migrations/040` (11-13) say a fill
  cannot be announced twice. Passes overlap (`notify.ts:157-163` has no busy guard)
  and two of them announce the same fill; so does a send whose answer is lost.
  `CursorIsWhatWasTold` is about what is skipped, not about what is repeated.
- A chat whose sends keep failing without its being gone stays at the head of
  `PASS_LIMIT` and may starve later ones.
- `#gone` is set by a webhook reply as well, and a later temporary failure in a pass
  then drops the chat's watches. The count of `MAX_WATCHES_PER_CHAT` is read before
  the insert. Two link codes redeemed at once overwrite a link. `claimUpdate` makes
  a command at most once: a crash after the claim loses it.

*Elsewhere.* The lifecycle and finalize workers are started by nothing in the app;
started as they are they would meet `season-lifecycle.ts:82` (the chain moves, the
process dies before the status is stored), `season-finalize.ts:74` (the results root
is on chain and the winners' proofs are not stored) and `:28` (results that carry an
accumulator a batch is only predicted to reach). No instruction ever sets `Closed`.
The eviction comparator of `feed/registry.ts:255` can be NaN. With a remote
database URL there is no write queue, and `WrittenAgainstQuoted` then rests on
nothing.

---------------------------------------------------------------------------
## 5. Fairness

Only what the runtime gives: timers keep firing and a request whose await has
been answered goes on. Faults are never fair and are bounded (`FaultBound`): for
ever failing is not a system that must make progress.

- *keeper* (`FairSpec`): weak fairness of the keeper's own next step and of the
  chain deciding a transaction. A pass is started by a timer each minute; an RPC
  call is answered or times out; a transaction lands or its blockhash expires.
- *payout* (`FairSpec`): weak fairness of time, of the rollover timer, of each tick
  and of some transfer being decided. Nothing makes a tick come *before* the
  rollover; that is why only `PaidWhileCurrent` holds.
- *duels*: weak fairness of the clock, of the settler (every 30 seconds) and of each
  request once begun; no request must begin. The clock does not move twice over
  a request that has not been answered, since its calls time out.
- *strategies*: weak fairness of the runner's steps (a timer and answered awaits), of
  the clock (a scheduled season opens) and of each request's end.
- *price_stream*: weak fairness of the reconnect timer, of the socket delivering, of
  the node answering, and of passes starting and going on.
- *rpc*: strong fairness of time, for it passes however many calls come and go and
  interrupt a wait; weak fairness of a sleep's end, of each send, and of each request
  being answered or given up (the client times out the headers, `fetch` the body).
- *telegram*: weak fairness of each pass's next step. A chat that refuses for ever
  without being gone is outside this assumption (section 4).

*season_program*, *keeper*, *ledger* and *entries* assume none. Where a run with
fairness also checks invariants, fairness changes nothing for them.

---------------------------------------------------------------------------
## 6. Proofs

All theorems hold for every value of the constants under the assumptions named
next to their declarations: finite sets of traders and requests, natural
amounts, times and bounds; roots only name claims; pools with positive reserves
and any fee; worths that are positive; orders and confirmations different calls,
workers and people different callers; bands that add up to the whole pot; and a funder is a wallet, never one of the
two marks for "not known". TLC evaluates those assumptions in each run. The
theorems about the keeper have one hypothesis more, `~LateLanding`.

The runs' properties proved here are all that the modules named below have, but
for liveness and `NobodyCrowdedOut`.

### BasicLemmas

What the other proofs cite. The library's induction theorems take an operator as
a parameter, which the provers cannot instantiate; `Induction` is about a *set* of
numbers instead (it has 0 and is closed under successor) and is proved by its
least counterexample. Everything the models compute recursively is a recursive
function, and a proof about one has three parts: by `Induction` a function with
that recursion exists on every initial segment, two of them agree where both are
defined, and so the definition is one of them.

- `OrderedBySorts`: what `ORDER BY` returns is the set, once each, in order;
  `AscendingBegins`: two ascending readings begin alike where the sets do.
- `FloorFacts`, `FloorOrder`: truncated division keeps the order of quotients.
- `SumExists`, `SumsAgree`, `SumOfRest`, `TotalIs`, `TotalOfNext`: a sum over a finite
  set exists, depends on its summands only, not on the order they are taken in,
  is what the community modules' fold finds, and grows by one summand.
- `ImageNoLarger`, `ImageSameSize`: an image is finite and no larger, and as large
  when no two elements share theirs.

### SeasonProofs: the program

`TypeCorrect`: `TypeOK` is inductive by itself; one step an instruction.

`SolvencyHolds`, `CountersHold`, `PrizesHold`, `PaidOnceHolds` come from one
inductive invariant, `TypeOK /\ Ledger`. None of the four is inductive alone: that
a refund leaves enough for the next needs the pot to be exactly the fees not yet
given back; that a prize does, needs prizes counted against the pot; that an
entry is not paid twice needs its flag to agree with the history; and all
need that nobody enters a season that does not exist. There is a lemma for
each instruction that moves money (`LedgerRecordEntry`, `LedgerClaimPrize`,
`LedgerRefundEntry`, ...) and one, `LedgerQuiet`, for all that do not. Multiplication
appears once, in `OneMoreFee`. The bound `Cardinality(Traders) <= MaxCount` (fewer
than 2^32 traders) is why the entry counter never saturates.

`RecordsOnlyExtend` and `TerminalHolds` are action properties: a step of `TypeOK`
implies them, the first with the auxiliary invariant that a record that
has not been started is empty.

### SeasonProofs: the payout

*Arithmetic.* `DividesThePot`: floored shares add up to no more than what is divided,
so the remainder is not negative and goes to the first place, which already had
most; the sum over all places is then the pot without the house's part.
`HouseCutFacts` bounds that part by the fees, `TotalOfPrizes` carries the sum over
places to one over the set of prizes. `RankingIsStrict`: return, gain, time of entry
and key together order any rows strictly, ties and losses included, and no
row comes before one that ended with more, though the return is truncated to
basis points (`FloorOrder`). With `OrderedBySorts` and these, `PrizesFacts` says of any
board what `PaidInFull` says of the payments: whole pot, a prize a trader, nobody
passed over by one who ended with less.

*The worker.* `PayoutHolds` proves `PayoutInvariant`:

- `PayoutTyped`, `BoardsHold`: shapes; a mark is of its season.
- `TicksWalk`: what a tick still has to pay is the end of one board of its season,
  and everybody before it is on record.
- `TransfersHold`, `LandingsHold`: what is in flight or landed is a prize of a board
  of its season; a transfer somebody waits for is for the head of what he has
  left, and he waits for that one only.
- `RecordsHold`: a tick about to record has a landed transfer for its head, and so
  has whoever is on record.
- `FinalsHold`: a finalized season has everybody of one board on record.
- `PaymentsCounted`: a trader not yet on record has at most as many transfers, landed
  and in flight, as outcomes were lost plus workers that wait for one of his
  or are about to record it; one on record at most as many as outcomes were lost
  plus ticks there can be.

A season whose marks did not move has one board (`Boards`), so that "on record" and
"landed" both speak of the prizes of that board, and `SplitIsPaid` follows by
`PrizesFacts`; when marks moved, prizes of several boards may have been paid, and
the theorem claims no more than that who is on record was paid. `PaymentsCounted` is
why `DuplicatesNeedLosses` holds: a send is by a worker of its own who then waits, a
worker that stops waiting has landed, failed or lost his transfer, and a tick that
finds a record sends nothing. Sums over the bag of landed transfers are moved by
one at a time (`TimesFacts`, `SumOfRest`).

### TradeLedgerProofs

*The engine.* `BuyFavoursPool`: a buy takes no more than was offered, and the tokens it gives,
valued at the reserves before it, are worth no more than it took; a partial fill,
priced by inverting the curve, included. `SellFavoursPool` is the same of a sale.
They rest on bounds for a floored and a ceiled quotient (`FloorBounds`, `CeilBounds`)
and one lemma a step of the quote (`AfterFeeBound`, `TokensForBound`,
`CostOfAllBound`); the products are handled by two lemmas on multiplication, since
nonlinear arithmetic is hard for the provers.

*The account.* `Invariance` proves `IInv`, five conjuncts:

- `WellTyped`: shapes.
- `AllRead`: an order that has read its market carries a reading, and one half way
  through it has found a pool, which stays one.
- `Quoted`: what a queued order carries is what the engine quotes and its account
  could pay when it was read.
- `QueueHoldsWaiting`: the queue holds exactly the calls that wait, once each.
- `FreshOrDoomed`: every queued order has read its position as it still is, *or*
  neither it nor any order ahead of it on the same market can be written any
  more (the tokens differ from what each of them read).

The last is the first-come-first-served argument. When an order at the head is
written, the tokens of its market change, so every order behind it that was
fresh becomes doomed, together with what is now ahead of it. A doomed order
cannot become writable again, since that would take a write by one ahead of it. So an order
that passes the comparison of tokens at the head is fresh (`HeadIsFresh`): it
also read the cost and the profit as they are. From this `WritesWhatItRead`, and
with the two theorems on the engine `FillsNeverEnrich`.

`TypeCorrect` follows from `IInv`. `Serializable` is the refinement: initial states
map to initial states, `Record` of a buy or a sell maps to `Buy` or `Sell`, `Settle`
to `TopUp`, all else to a stutter. `FlooredShare` (a floored share of a cost is
between nothing and the cost) keeps the cost a natural number.

*Leaves.* `CurvesRebuild` adds to the invariant that a slot is stored once
(`StoredOnce`) and what curves say is alike (`CurvesSeenOnce`): whatever an order
carries or a snapshot keeps was read in a slot the market has reached; if in the
present one, it is of the venue the mint has now, and on a curve all of what that
shows; and two of one mint and slot have one source, and on a curve one pool. That
holds since a curve is read in one call, its fee is a constant, graduation comes
with a new slot, and no curve is a pool (`CurveIsNoPool`). A snapshot is stored once
for its slot (`ON CONFLICT` keeps the row), so a later trade of that slot rebuilds from
a reading that another order, or another account's, made.

*Sums.* `TradesExplain` says that balance and holdings are what the rows and the
confirmed payments add up to. A row appended adds its amounts to the sums of its
side and of its mint and to no other (`OneMoreRow`, from `TotalOfNext`), and `IInv` has
that the account is written in the same step and by the same amounts
(`ExplainsStep`). A payment counts once since it is a member of a set.

### KeeperProofs

`Invariance` is for `LateLanding = FALSE`: no transaction lands after the pass that
sent it. The code relies on this when it discards an intent, the run `keeper_late`
shows that it must, and `StartPass` is the one step that uses it. The invariant:

- `RowsSane`, `RowsOrdered`, `CoveredInOrder`: a row holds sound trades of one record
  and version, all of them in its range; its `previous` is exactly the record's
  trades before it; rows of a record follow one another, only the newest may be
  open, and no trade is passed over.
- `OwnAccounted`, `ConfirmedOnChain`, `ForeignSane`: without the foreign batches a
  chain is what the last confirmed row predicted, or what the open intent starts
  from or predicts; a foreign write is followed by at most the one batch that was
  on its way, and only with one does the keeper halt.
- `FlightSane`, `ReconcileSane`, `CommitSane`: a transaction on its way carries an open
  intent that has not landed, one a record; reconcile has every open intent
  ahead of it and nothing is on its way; past it an open intent is the current
  one, or its record is blocked.
- `PlanSane`: the batches planned and not yet written are, record by record, the
  first trades that no row covers, without a gap.

None of these is inductive without the others: that the next row does not skip a
trade needs the plan, the plan needs the rows as they were when it was made, and
those move only as the intents and the flights allow. `AlwaysAccounted`,
`OnlyForeignHalts` and `RangesAreBatches` follow from it. `KeeperSeals` is the refinement
of `SealedLog`: a recorded trade maps to a recorded trade, a transaction that
lands seals the batch of its row, which by `RowsSane` and `OwnAccounted` is the next
unsealed trades of one record, and every other step stutters.

### DuelsProofs

`SettlesFairly`: the score is a return truncated to basis points, so two different
accounts may show the same one; `ReturnOrder` (from `FloorOrder`) is that whoever did
no better in exact proportion shows no better return. It holds of the row as
scored because the settler works only through agreed duels whose windows had
closed when it measured them (`SettlerSane`), whatever a request writes meanwhile.
`OneAnswer` goes through the steps: each write to a row is conditional on the
status it leaves. `RoomForOffers` keeps a row under the bound for each offer in
flight.

### TraderProofs: entries

The invariant follows a request through its statements (`Sound`). `Recorded`: a message
is sent only with its evidence recorded, and nothing is on chain that was not
sent. `Entered` and `Given`: an entry comes from a payment of its own wallet, and what
is credited is the number of purchases paid for. From these `PaidForIsGiven` and
`FunderFollows`.

`OnlyARaceExceeds` needs `Limited`: unless there was a race, a funder's entries and
its intents that may still become entries keep to the limit, *with room for* the
one request that has counted them and not yet become one of them, and there is
one such request at most. As the clock moves, intents only cease to count; one that
is paid for after it has ceased is among the races the history names.

### TraderProofs: strategies

`StrategiesInvariant` is inductive because it says what a pass still has in hand.
`WithinCap`: the automated trades of a season *and what is left of the budget of a
pass that is spending there* stay within the cap and the orders the key filled
meanwhile; the key itself counts before each order and fills only on the account
it counted (`CallSound`). `WithinPlaces` is the same of the positions the runner
took and, once its exits are done, of the places left. `PassSound`: what a pass
sold it held when it began, and what it buys it did not hold then, so the two
never meet (`RulesHold`). `OneRuns` is one running strategy a season; a write that
was checked earlier only ever makes fewer run, or starts one where none does.

### NodeProofs: RPC budget

`CeilingIsHeld` rests on `Counted`: holders of a slot are as many as the counter says,
and the queue is who waits, once each; a slot handed over keeps the count.

`BudgetIsKept` rests on `Spaced`: each worker that sleeps towards its slot has an
interval of time that pays for its call; those intervals do not overlap, and all
lie after what is still owed for calls sent and before the next slot. So when one
is sent, everything before it is paid. `OutOfCooldown` is that only a slot claimed
before the last refusal outlives a cooldown.

### NodeProofs: pushed prices

`StreamInvariant` has a half for the tables of the reconciler and one for the socket.
`TablesHold`: a reserve whose slot is known is that of the swap of that slot, and
when neither slot is known both sides are of one read (`OfItsSwap`), so equal
slots mean one swap (`PricesAreReal`); what a mint is watched for has its reserves;
and a pass under way holds the claim of its mint, empty and alone, *unless the mint
was dropped meanwhile* (`ClaimsHold`). Without the last, neither a failed read that
gives up a claim nor a late answer could be told from one that takes away another
pass's accounts; with it `NothingLeaks` follows.

`SocketHolds`: on an open socket what is wanted is pending or live, once
(`AskedOnce`); the node knows each live subscription, and each confirmation on its
way, by the address that was asked for, no confirmation names an id that is live
or is being let go of, and no update on its way names another address than the
node does (`NodeAgrees`). That is inductive because an id the node gives out is one
that nothing on the wire names (`FreshId`), though ids start again with each
connection: the wire is empty then. `SocketServesAll` is the count of it.

### TelegramBotProofs

`FillsOnce` rests on `HandledOnce`: one handler an update, and none once it has filled.

`CursorsAreTrue` has two halves. That nothing is skipped: what a pass took with it is
*whole* (below each of its fills everything was told or is with it too), lines
cut from a message are the newest, and so a mark is told up to (`PassesSane`,
`ToldUpToCursor`), however many passes overlap. That without faults nothing past
a cursor was shown once all passes have ended: what was told is at or below its
cursor or about to be marked by some pass (`ToldIsMarked`).

---------------------------------------------------------------------------
## 7. Only model-checked

- Liveness (`SealsEverything`, `PaidWhileCurrent`, `EveryDuelEnds`, `EndedSeasonStops`,
  `ViewedIsWatched`, `EverythingTold`, `EveryCallEnds`) and the property about
  ENABLED (`NobodyCrowdedOut`): out of the prover's reach.
- `NothingSealedTwice` is refuted when a transaction may land late, and is part of
  the refinement when it may not.

---------------------------------------------------------------------------
## 8. Not modelled

Reasons are with each component in `PROJECT.json`. In short:

- *Nothing runs it*: the season lifecycle worker, and with it the routes for prize
  and refund claims, which need results only that worker publishes. The program's
  side of both is in `SeasonProgram`. The registry and the poller of the feed are
  library code that only their tests call.
- *Pure functions over data, covered by unit tests with vectors*: merkle trees and hash chains, backtests, strategy decisions
  (a free choice in `Strategies`), decoding of curves and pools (any of
  `Curves` and `Amms` in `TradeLedger`), ruleset encoding.
- *One synchronous call or one guarded statement*: request limits, sign-in, social
  features, quotas of the coach.
- *Read, display, report*: candles, health, retention, drift watch, analytics,
  metadata, SDK, CLI, MCP server, web interface. House traders choose at random and
  trade through `executeTrade`. These, above all the pages and components, are
  most of the repository's lines and little of its logic.

Inside the modelled parts: `startOver` (a new generation of a free-play account),
the calendar's dates, the void policy, how an account is priced, migrations;
the bot's link codes, cards and commands that only answer; the strategies'
activity log; the spare RPC endpoint, which has a client and a governor of its own
that behave alike. A mint is
taken to have one successor pool at a time: the search for the deepest and the one remembered
(`reader.ts:333-425`) may give two readings of a slot two pools, one more way to the
disagreement of section 4. A node is taken never to answer for an older slot than
it has answered for: on this rests that a reading shows the market as it is.
In `SeasonPayout` the board is of the entrants: an account in a ranked season is
opened for traders who have entered only (`app/lib/season.ts:120-135`, `205-211`), and
an entrant is taken to have opened one, which his first visit after paying does;
one who never came back would add to the pot and have no place on the board.
One process is modelled: two app instances on one database would have two write
queues and two settlers (the settler's writes are conditional and are checked as
such, the queue's order is not).

The hazard without a property, and what a property leaves of its hazard, are in
`PROJECT.json` with the reason.

---------------------------------------------------------------------------
## 9. Plan

Order: first what moves money or seals trades, then what feeds it. All modules of
the plan stand, and so do their proofs.

1. `SeasonProgram`, its proofs. *Done.*
2. `FillEngine`, `SerialAccount`, `TradeLedger`, their proofs. *Done.*
3. `SealedLog`, `Keeper`, their proofs. *Done.*
4. `Duels`, its proofs. *Done.*
5. `TelegramBot`, its proofs. *Done.*
6. `RpcBudget`, its proofs. *Done.*
7. `Entries`, its proofs. *Done.*
8. `PrizeSplit`, `SeasonPayout`, their proofs. *Done.*
9. `Strategies`, its proofs. *Done.*
10. `PriceStream`, its proofs. *Done.*

A composition worth having besides: entry payment, program entry and claim as one
chain from a lamport paid to a lamport returned, once the lifecycle worker runs.
