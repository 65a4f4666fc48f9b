----------------------------- MODULE Strategies -----------------------------
(***************************************************************************)
(* Hosted strategies of one trader (app/lib/strategy-runner.ts,            *)
(* packages/db/src/strategies.ts, app/api/strategy, app/api/v1/orders):    *)
(* the owner saves, starts and stops them, a program of the owner's places *)
(* orders with a key, and every few seconds the runner sweeps the          *)
(* strategies of other seasons and trades the running one.                 *)
(*                                                                         *)
(* Handlers and the runner interleave at every await.  A fill is void when *)
(* the account moved since it was read (recordTrade compares balances; one *)
(* that returns to the same lamport is out of this model); orders placed   *)
(* by hand count against nothing here, so they only show as refusals,      *)
(* which any order may meet.  What the rules decide is any choice of       *)
(* mints.  The trader is entered: starting requires it and an entry is     *)
(* never undone.                                                           *)
(***************************************************************************)
EXTENDS Integers, Sequences, FiniteSets

CONSTANTS
    Calls,           \* requests of the owner that may be in flight at once
    Mints,
    Timeline,        \* the season currentRankedSeason names, and whether it is open
    Cap,             \* DAILY_TRADE_CAP
    MaxOpen,         \* rules.size.maxOpenPositions
    KeySeasons,      \* bound of the model: seasons in which the owner's program trades
    StrategyBound,   \* bound of the model: strategies saved
    FaultBound       \* bound of the model: failures of the runner

ASSUME CapAssumption ==
    /\ Cap \in Nat \ {0} /\ MaxOpen \in Nat \ {0}
    /\ StrategyBound \in Nat /\ FaultBound \in Nat /\ IsFiniteSet(Mints)
ASSUME TimelineAssumption ==
    Timeline \in Seq([season : Nat \ {0}, open : BOOLEAN]) /\ Timeline # <<>>

VARIABLES
    stage,       \* where on the timeline the clock is
    strategies,  \* the table strategies, by id
    trades,      \* automated trades of each season's account (its sequence)
    positions,   \* mints each season's account holds
    entered,     \* history: those of them the runner bought
    calls,       \* requests in flight
    runner,      \* the tick in progress; "rest" is busy = false
    overlap,     \* history: orders of the key filled while a pass was spending its budget
    faults

strategyVars == <<stage, strategies, trades, positions, entered, calls, runner, overlap, faults>>
account == <<trades, positions, entered, overlap>>

NoCall == [pc |-> "idle"]
Rest == [pc |-> "rest"]
NoOrder == <<>>
Season == Timeline[stage].season
Seasons == {Timeline[k].season : k \in DOMAIN Timeline}

StrategiesInit ==
    /\ stage = 1 /\ strategies = <<>> /\ faults = 0
    /\ trades = [s \in Seasons |-> 0] /\ overlap = [s \in Seasons |-> 0]
    \* What the first season's account bought on earlier days counts against nothing today.
    /\ entered \in {[s \in Seasons |-> IF s = Season THEN held ELSE {}] :
                       held \in {m \in SUBSET Mints : Cardinality(m) <= MaxOpen}}
    /\ positions = entered
    /\ calls = [r \in Calls |-> NoCall]
    /\ runner = Rest

Ids == DOMAIN strategies
TradingOpen == Timeline[stage].open
Running(i) == strategies[i].status = "running"
RunningIn(s) == {i \in Ids : Running(i) /\ strategies[i].season = s}
Lowest(ids) == CHOOSE i \in ids : \A j \in ids : i <= j
Highest(ids) == CHOOSE i \in ids : \A j \in ids : i >= j
Goes(r, request) == calls' = [calls EXCEPT ![r] = request]

------------------------------------------------------------------------------
(***************************************************************************)
(* The owner: POST and PATCH /api/strategy                                 *)
(***************************************************************************)

\* strategyFor: the running one, or else the newest.
Chosen(s) ==
    IF RunningIn(s) # {} THEN Lowest(RunningIn(s))
    ELSE Highest({i \in Ids : strategies[i].season = s})

Save(r) ==
    /\ calls[r] = NoCall /\ RunningIn(Season) = {}
    /\ Goes(r, [pc |-> "select", season |-> Season])
    /\ UNCHANGED <<stage, strategies, account, runner, faults>>

\* saveStrategy picks the newest strategy that is not running ...
SaveSelects(r) ==
    LET drafts == {i \in Ids : strategies[i].season = calls[r].season /\ ~Running(i)}
    IN  /\ calls[r].pc = "select"
        /\ Goes(r, [pc |-> "write", season |-> calls[r].season,
                       id |-> IF drafts = {} THEN 0 ELSE Highest(drafts)])
        /\ UNCHANGED <<stage, strategies, account, runner, faults>>

\* ... and makes it a draft in a later statement, whatever it has become.
SaveWrites(r) ==
    /\ calls[r].pc = "write"
    /\ IF calls[r].id = 0
       THEN /\ Len(strategies) < StrategyBound
            /\ strategies' = Append(strategies, [season |-> calls[r].season, status |-> "draft"])
       ELSE strategies' = [strategies EXCEPT ![calls[r].id].status = "draft"]
    /\ Goes(r, NoCall)
    /\ UNCHANGED <<stage, account, runner, faults>>

Start(r) ==
    /\ calls[r] = NoCall /\ TradingOpen
    /\ \E i \in Ids : strategies[i].season = Season
    /\ Goes(r, [pc |-> "start", id |-> Chosen(Season)])
    /\ UNCHANGED <<stage, strategies, account, runner, faults>>

\* startStrategy, with the index that lets one strategy of a season run.
StartWrites(r) ==
    /\ calls[r].pc = "start"
    /\ LET i == calls[r].id
       IN  strategies' = IF RunningIn(strategies[i].season) = {}
                         THEN [strategies EXCEPT ![i].status = "running"] ELSE strategies
    /\ Goes(r, NoCall)
    /\ UNCHANGED <<stage, account, runner, faults>>

Stop(r) ==
    /\ calls[r] = NoCall /\ \E i \in Ids : strategies[i].season = Season
    /\ Goes(r, [pc |-> "stop", id |-> Chosen(Season)])
    /\ UNCHANGED <<stage, strategies, account, runner, faults>>

Stopped(i) == IF Running(i) THEN [strategies EXCEPT ![i].status = "stopped"] ELSE strategies

StopWrites(r) ==
    /\ calls[r].pc = "stop"
    /\ strategies' = Stopped(calls[r].id)
    /\ Goes(r, NoCall)
    /\ UNCHANGED <<stage, account, runner, faults>>

------------------------------------------------------------------------------
(***************************************************************************)
(* Orders: executeTrade as far as the account is concerned                 *)
(***************************************************************************)

\* recordTrade is conditional on the account the fill was quoted against.
AnyQuote(s, sequence) == TRUE
CurrentQuote(s, sequence) == trades[s] = sequence

Fill(s, side, mint) ==
    /\ side = "sell" => mint \in positions[s]
    /\ trades' = [trades EXCEPT ![s] = @ + 1]
    /\ positions' = [positions EXCEPT ![s] = IF side = "buy" THEN @ \cup {mint} ELSE @ \ {mint}]

\* A pass of the runner that has counted the orders of the day and not finished.
Spending(s) == runner.pc \in {"exits", "sell", "entries", "buy"} /\ runner.season = s

\* POST /api/v1/orders: the account is read, then the day's orders are counted.  Which way
\* and which mint was in the request; nothing before the fill depends on it.
Order(r) ==
    /\ calls[r] = NoCall /\ TradingOpen /\ Season \in KeySeasons
    /\ Goes(r, [pc |-> "count", season |-> Season, sequence |-> trades[Season]])
    /\ UNCHANGED <<stage, strategies, account, runner, faults>>

OrderCounts(r) ==
    /\ calls[r].pc = "count"
    /\ Goes(r, IF trades[calls[r].season] >= Cap THEN NoCall ELSE [calls[r] EXCEPT !.pc = "order"])
    /\ UNCHANGED <<stage, strategies, account, runner, faults>>

OrderFills(r) ==
    /\ calls[r].pc = "order"
    /\ LET s == calls[r].season
       IN  /\ CurrentQuote(s, calls[r].sequence)
           /\ \E side \in {"buy", "sell"}, mint \in Mints : Fill(s, side, mint)
           /\ overlap' = [overlap EXCEPT ![s] = @ + (IF Spending(s) THEN 1 ELSE 0)]
           /\ entered' = [entered EXCEPT ![s] = @ \cap positions'[s]]
    /\ Goes(r, NoCall)
    /\ UNCHANGED <<stage, strategies, runner, faults>>

\* Refused by the market, by the engine or because the account moved; or the request dies.
RequestEnds(r) ==
    /\ calls[r] # NoCall
    /\ Goes(r, NoCall)
    /\ UNCHANGED <<stage, strategies, account, runner, faults>>

------------------------------------------------------------------------------
(***************************************************************************)
(* The runner: sweeps                                                      *)
(***************************************************************************)

\* Nothing open: the season's running strategies are stopped and the tick ends.  Otherwise
\* those of every other season are, and the pass begins.
SweepNothing(s) == {}
Sweep(s) == IF TradingOpen THEN {i \in Ids : Running(i) /\ strategies[i].season # s} ELSE RunningIn(s)

Tick ==
    /\ runner = Rest
    /\ runner' = [pc |-> "sweep", left |-> Sweep(Season), season |-> Season, open |-> TradingOpen]
    /\ UNCHANGED <<stage, strategies, account, calls, faults>>

SweepStops ==
    /\ runner.pc = "sweep" /\ runner.left # {}
    /\ LET i == Lowest(runner.left)
       IN  strategies' = Stopped(i) /\ runner' = [runner EXCEPT !.left = @ \ {i}]
    /\ UNCHANGED <<stage, account, calls, faults>>

\* runningStrategies: the list is read once.
SweepEnds ==
    /\ runner.pc = "sweep" /\ runner.left = {}
    /\ runner' = IF runner.open /\ RunningIn(runner.season) # {}
                 THEN [pc |-> "read", season |-> runner.season] ELSE Rest
    /\ UNCHANGED <<stage, strategies, account, calls, faults>>

------------------------------------------------------------------------------
(***************************************************************************)
(* The runner: runOne                                                      *)
(***************************************************************************)

Reads ==
    /\ runner.pc = "read"
    /\ runner' = [pc |-> "budget", season |-> runner.season, held |-> positions[runner.season]]
    /\ UNCHANGED <<stage, strategies, account, calls, faults>>

Counts ==
    /\ runner.pc = "budget"
    /\ LET budget == Cap - trades[runner.season]
       IN  runner' = IF budget <= 0 THEN Rest
                     ELSE [pc |-> "exits", season |-> runner.season, held |-> runner.held,
                           todo |-> runner.held, budget |-> budget, sold |-> {}, bought |-> {}, order |-> NoOrder]
    /\ UNCHANGED <<stage, strategies, account, calls, faults>>

\* An order of the pass, against the account as it is now.
Quoted(mint) == [mint |-> mint, sequence |-> trades[runner.season]]

\* Each position in turn, while the budget lasts: keep it, or read the account and sell.
Exits ==
    /\ runner.pc = "exits" /\ runner.budget > 0
    /\ \E mint \in runner.todo :
          \/ runner' = [runner EXCEPT !.todo = @ \ {mint}]
          \/ runner' = [runner EXCEPT !.pc = "sell", !.todo = @ \ {mint}, !.order = Quoted(mint)]
    /\ UNCHANGED <<stage, strategies, account, calls, faults>>

\* A refused order has spent the budget as well.
AfterExit(sold) ==
    [runner EXCEPT !.pc = "exits", !.budget = @ - 1, !.order = NoOrder, !.sold = @ \cup sold]

Sells ==
    /\ runner.pc = "sell"
    /\ \/ /\ CurrentQuote(runner.season, runner.order.sequence)
          /\ Fill(runner.season, "sell", runner.order.mint)
          /\ entered' = [entered EXCEPT ![runner.season] = @ \ {runner.order.mint}]
          /\ runner' = AfterExit({runner.order.mint})
       \/ /\ runner' = AfterExit({})
          /\ UNCHANGED <<trades, positions, entered>>
    /\ UNCHANGED <<stage, strategies, overlap, calls, faults>>

\* The positions are read again: room for entries is what the exits and the budget leave.
RoomLeft(open) == MaxOpen - open

HeldNow(held, open) == open
StillHeld(held, open) == held

ExitsDone ==
    /\ runner.pc = "exits" /\ (runner.todo = {} \/ runner.budget <= 0)
    /\ LET open == positions[runner.season]
           room == RoomLeft(Cardinality(open))
       IN  runner' = IF runner.budget <= 0 \/ room <= 0 THEN Rest
                     ELSE [runner EXCEPT !.pc = "entries", !.held = StillHeld(@, open), !.todo = {},
                                         !.budget = IF room < @ THEN room ELSE @]
    /\ UNCHANGED <<stage, strategies, account, calls, faults>>

\* The candidates that match, none of them held when the pass began or bought in it.
Entries ==
    /\ runner.pc = "entries" /\ runner.budget > 0
    /\ \E mint \in Mints \ runner.held :
          runner' = [runner EXCEPT !.pc = "buy", !.order = Quoted(mint)]
    /\ UNCHANGED <<stage, strategies, account, calls, faults>>

AfterEntry(bought) ==
    [runner EXCEPT !.pc = "entries", !.budget = @ - 1, !.order = NoOrder,
                   !.bought = @ \cup bought, !.held = @ \cup bought]

Buys ==
    /\ runner.pc = "buy"
    /\ \/ /\ CurrentQuote(runner.season, runner.order.sequence)
          /\ Fill(runner.season, "buy", runner.order.mint)
          /\ entered' = [entered EXCEPT ![runner.season] = @ \cup {runner.order.mint}]
          /\ runner' = AfterEntry({runner.order.mint})
       \/ /\ runner' = AfterEntry({})
          /\ UNCHANGED <<trades, positions, entered>>
    /\ UNCHANGED <<stage, strategies, overlap, calls, faults>>

\* No more candidates, no more room, or the balance does not cover the next one.
EntriesDone ==
    /\ runner.pc = "entries"
    /\ runner' = Rest
    /\ UNCHANGED <<stage, strategies, account, calls, faults>>

\* A read or a write fails, or the process restarts: the tick is over.
RunnerFails ==
    /\ runner # Rest /\ faults < FaultBound
    /\ runner' = Rest /\ faults' = faults + 1
    /\ UNCHANGED <<stage, strategies, account, calls>>

------------------------------------------------------------------------------
StageMoves ==
    /\ stage < Len(Timeline) /\ stage' = stage + 1
    /\ UNCHANGED <<strategies, account, calls, runner, faults>>

OwnerStep(r) ==
    Save(r) \/ SaveSelects(r) \/ SaveWrites(r) \/ Start(r) \/ StartWrites(r) \/ Stop(r) \/ StopWrites(r)

KeyStep(r) == Order(r) \/ OrderCounts(r) \/ OrderFills(r)

RunnerStep ==
    Tick \/ SweepStops \/ SweepEnds \/ Reads \/ Counts \/ Exits \/ Sells \/ ExitsDone \/ Entries \/ Buys \/ EntriesDone

StrategiesNext ==
    \/ \E r \in Calls : OwnerStep(r) \/ KeyStep(r) \/ RequestEnds(r)
    \/ RunnerStep \/ RunnerFails
    \/ StageMoves

\* The timer ticks for as long as the process lives, and a season that is scheduled opens.
Fairness ==
    /\ WF_strategyVars(RunnerStep) /\ WF_strategyVars(StageMoves)
    /\ \A r \in Calls : WF_strategyVars(RequestEnds(r))

StrategiesSpec == StrategiesInit /\ [][StrategiesNext]_strategyVars /\ Fairness

------------------------------------------------------------------------------
(***************************************************************************)
(* Properties                                                              *)
(***************************************************************************)

\* Shape of the state, with one running strategy per season.
StrategiesTypeOK ==
    /\ stage \in DOMAIN Timeline /\ faults \in 0..FaultBound
    /\ \A i \in Ids : /\ strategies[i].season \in Seasons
                      /\ strategies[i].status \in {"draft", "running", "stopped"}
    /\ \A s \in Seasons : /\ Cardinality(RunningIn(s)) <= 1
                          /\ trades[s] \in Nat /\ overlap[s] \in Nat
                          /\ entered[s] \subseteq positions[s] /\ positions[s] \subseteq Mints
    /\ DOMAIN calls = Calls

\* Two readings of what is held serve one pass, before and after its exits
\* (strategy-runner.ts:622-628).  However passes end and whatever the owner's own program
\* does meanwhile, the positions the runner has taken and not left never exceed what the
\* rules allow, and a mint sold in a pass is not bought straight back in it.
RunnerWithinItsRules ==
    /\ StrategiesTypeOK
    /\ \A s \in Seasons : Cardinality(entered[s]) <= MaxOpen
    /\ runner.pc \in {"exits", "entries", "buy"} => runner.sold \cap runner.bought = {}

\* The cap counts both automated sources together, but the runner counts once per pass: it
\* can be passed by no more orders than the key filled while a pass was spending.  Orders
\* sent together by the key alone never pass it.
CapGivesWayToOverlap == \A s \in Seasons : trades[s] <= Cap + overlap[s]

\* strategy-runner.ts:896: a strategy left running when its season ends does not stay marked
\* running for ever, also when it was started while the season was closing.
EndedSeasonStops ==
    \A i \in 1..StrategyBound :
        (i \in Ids /\ Running(i) /\ strategies[i].season # Season)
            ~> (i \in Ids /\ ~Running(i))
==============================================================================
