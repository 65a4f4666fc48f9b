-------------------------- MODULE TradeLedgerProofs --------------------------
(***************************************************************************)
(* What the fill engine and TradeLedger promise for every market, every    *)
(* set of mints and any number of orders and confirmations in flight:      *)
(* proofs checked by TLAPS.                                                *)
(***************************************************************************)
EXTENDS TradeLedger, BasicLemmas, SequenceTheorems, TLAPS

(***************************************************************************)
(* The fill engine: what it promises for every reading of a market and     *)
(* every size.                                                             *)
(***************************************************************************)

\* The two roundings of fixed.ts, as bounds.
LEMMA FloorBounds ==
    ASSUME NEW a \in Nat, NEW b \in Nat, NEW d \in Nat \ {0}
    PROVE  /\ MulDivFloor(a, b, d) \in Nat
           /\ d * MulDivFloor(a, b, d) <= a * b
           /\ a * b < d * (MulDivFloor(a, b, d) + 1)
<1> DEFINE product == a * b
<1>1. product \in Nat
  BY Z3
<1> HIDE DEF product
<1>2. /\ product \div d \in Nat /\ d * (product \div d) <= product
      /\ product < d * ((product \div d) + 1)
  BY <1>1, Z3
<1> QED
  BY <1>2 DEF MulDivFloor, product

LEMMA CeilBounds ==
    ASSUME NEW a \in Nat, NEW b \in Nat, NEW d \in Nat \ {0}
    PROVE  /\ MulDivCeil(a, b, d) \in Nat
           /\ a * b <= d * MulDivCeil(a, b, d)
<1> DEFINE raised == a * b + d - 1
<1>1. raised \in Nat /\ a * b \in Nat
  BY Z3
<1> HIDE DEF raised
<1>2. raised \div d \in Nat /\ raised < d * ((raised \div d) + 1)
  BY <1>1, Z3
<1>3. d * ((raised \div d) + 1) = d * (raised \div d) + d
  BY <1>2, Z3
<1>4. a * b <= d * (raised \div d)
  BY <1>1, <1>2, <1>3, Z3 DEF raised
<1> QED
  BY <1>2, <1>4 DEF MulDivCeil, raised

LEMMA PoolFields ==
    ASSUME NEW pool \in PoolStates
    PROVE  /\ pool.solReserve \in Nat \ {0} /\ pool.tokenReserve \in Nat \ {0}
           /\ pool.deliverableTokens \in Nat /\ pool.feeBps \in Nat
BY DEF PoolStates

\* Products of naturals grow with their factors.
LEMMA TimesGrows ==
    ASSUME NEW a \in Nat, NEW b \in Nat, NEW c \in Nat, a <= b
    PROVE  a * c <= b * c
BY Z3

LEMMA FactorBound ==
    ASSUME NEW a \in Nat, NEW b \in Nat, NEW c \in Nat \ {0}, c * a <= c * b
    PROVE  a <= b
BY Z3

\* The fee and the lamport leave less than was put in.
LEMMA AfterFeeBound ==
    ASSUME NEW pool \in PoolStates, NEW n \in Nat \ {0}
    PROVE  AfterFee(pool, n) \in Nat /\ AfterFee(pool, n) < n
<1> DEFINE af == AfterFee(pool, n)
           d == BpsDenominator + pool.feeBps
<1>1. n - 1 \in Nat /\ d \in Nat \ {0} /\ BpsDenominator \in Nat \ {0} /\ BpsDenominator <= d
  BY PoolFields DEF BpsDenominator
<1>2. af \in Nat /\ d * af <= (n - 1) * BpsDenominator
  BY <1>1, FloorBounds DEF AfterFee
<1> HIDE DEF af, d
<1>3. BpsDenominator * af <= d * af
  BY <1>1, <1>2, TimesGrows
<1>4. BpsDenominator * af <= BpsDenominator * (n - 1)
  BY <1>1, <1>2, <1>3, Z3
<1>5. af <= n - 1
  BY <1>1, <1>2, <1>4, FactorBound
<1> QED
  BY <1>1, <1>2, <1>5 DEF af

\* What the curve gives is worth no more than what went in, and never drains it.
LEMMA TokensForBound ==
    ASSUME NEW pool \in PoolStates, NEW in \in Nat
    PROVE  /\ TokensFor(pool, in) \in Nat /\ TokensFor(pool, in) < pool.tokenReserve
           /\ TokensFor(pool, in) * pool.solReserve <= in * pool.tokenReserve
<1> DEFINE t == TokensFor(pool, in)
<1> PICK S \in Nat \ {0}, T \in Nat \ {0} : S = pool.solReserve /\ T = pool.tokenReserve
  BY PoolFields
<1>0. S + in \in Nat \ {0} /\ t = MulDivFloor(in, T, S + in)
  BY DEF TokensFor
<1>1. t \in Nat /\ (S + in) * t <= in * T
  BY <1>0, FloorBounds
<1> HIDE DEF t
<1>2. (S + in) * t = S * t + in * t /\ in * t \in Nat /\ t * S = S * t
  BY <1>1, Z3
<1>3. t * S <= in * T
  BY <1>1, <1>2, Z3
<1>4. t < T
  <2>1. SUFFICES ASSUME T <= t PROVE FALSE
    BY <1>1
  <2>2. T * (S + in) <= t * (S + in)
    BY <1>1, <2>1, TimesGrows
  <2>3. T * (S + in) = T * S + in * T /\ T * S > 0 /\ in * T \in Nat /\ T * S \in Nat
    BY Z3
  <2>4. (S + in) * t = t * (S + in) /\ t * (S + in) \in Nat
    BY <1>1, Z3
  <2> QED
    BY <1>1, <2>2, <2>3, <2>4, Z3
<1> QED
  BY <1>1, <1>3, <1>4 DEF t

\* All the tokens left are never sold for less than they are worth.
LEMMA CostOfAllBound ==
    ASSUME NEW pool \in PoolStates, pool.deliverableTokens < pool.tokenReserve
    PROVE  /\ CostOfAll(pool) \in Nat
           /\ pool.deliverableTokens * pool.solReserve <= CostOfAll(pool) * pool.tokenReserve
<1> PICK S \in Nat \ {0}, T \in Nat \ {0}, D \in Nat :
           S = pool.solReserve /\ T = pool.tokenReserve /\ D = pool.deliverableTokens
  BY PoolFields
<1> DEFINE needed == MulDivCeil(D, S, T - D)
           gross == MulDivCeil(needed, BpsDenominator + pool.feeBps, BpsDenominator)
<1>1. D < T /\ T - D \in Nat \ {0} /\ T - D <= T
  BY Z3
<1>2. needed \in Nat /\ D * S <= (T - D) * needed
  BY <1>1, CeilBounds
<1> HIDE DEF needed
<1>3. /\ BpsDenominator + pool.feeBps \in Nat /\ BpsDenominator \in Nat \ {0}
      /\ BpsDenominator <= BpsDenominator + pool.feeBps
  BY PoolFields DEF BpsDenominator
<1>4. gross \in Nat /\ needed * (BpsDenominator + pool.feeBps) <= BpsDenominator * gross
  BY <1>2, <1>3, CeilBounds
<1> HIDE DEF gross
<1>5. BpsDenominator * needed <= (BpsDenominator + pool.feeBps) * needed
  BY <1>2, <1>3, TimesGrows
<1>6. needed <= gross
  <2>1. BpsDenominator * needed <= BpsDenominator * gross
    BY <1>2, <1>3, <1>4, <1>5, Z3
  <2> QED
    BY <1>2, <1>3, <1>4, <2>1, FactorBound
<1>7. D * S <= (gross + 1) * T
  <2>1. (T - D) * needed <= T * needed
    BY <1>1, <1>2, TimesGrows
  <2>2. needed * T <= (gross + 1) * T
    BY <1>2, <1>4, <1>6, TimesGrows
  <2>3. T * needed = needed * T
    BY <1>2, Z3
  <2> QED
    BY <1>1, <1>2, <1>4, <2>1, <2>2, <2>3, Z3
<1>8. CostOfAll(pool) = gross + 1
  BY DEF CostOfAll, gross, needed
<1> QED
  BY <1>4, <1>7, <1>8

\* A buy takes no more than was offered and hands over no more than that is worth at
\* the reserves quoted (engine.ts:15-18).
THEOREM BuyFavoursPool ==
    ASSUME NEW pool \in PoolStates, NEW n \in Nat \ {0}
    PROVE  /\ QuoteBuy(pool, n) \in [sol : Nat, tokens : Nat]
           /\ QuoteBuy(pool, n).sol <= n
           /\ QuoteBuy(pool, n) # NoQuote => QuoteBuy(pool, n).tokens > 0
           /\ QuoteBuy(pool, n).tokens * pool.solReserve <= QuoteBuy(pool, n).sol * pool.tokenReserve
<1> PICK S \in Nat \ {0}, T \in Nat \ {0}, D \in Nat :
           S = pool.solReserve /\ T = pool.tokenReserve /\ D = pool.deliverableTokens
  BY PoolFields
<1> DEFINE af == AfterFee(pool, n)
           t == TokensFor(pool, af)
<1>1. af \in Nat /\ af < n
  BY AfterFeeBound
<1>2. t \in Nat /\ t < T /\ t * S <= af * T
  BY <1>1, TokensForBound
<1> HIDE DEF af, t
<1>3. af * T <= n * T
  BY <1>1, TimesGrows
<1>4. t * S <= n * T
  BY <1>1, <1>2, <1>3, Z3
<1>5. CASE af <= 0 \/ t = 0 \/ D = 0
  <2>1. QuoteBuy(pool, n) = [sol |-> 0, tokens |-> 0]
    BY <1>5 DEF QuoteBuy, NoQuote, af, t
  <2> QED
    BY <2>1 DEF NoQuote
<1>6. CASE ~(af <= 0 \/ t = 0 \/ D = 0) /\ t <= D
  <2>1. QuoteBuy(pool, n) = [sol |-> n, tokens |-> t]
    BY <1>6 DEF QuoteBuy, af, t
  <2> QED
    BY <1>2, <1>4, <1>6, <2>1
<1>7. CASE ~(af <= 0 \/ t = 0 \/ D = 0) /\ ~(t <= D)
  <2>1. D < t /\ D > 0
    BY <1>2, <1>7
  <2>2. CostOfAll(pool) \in Nat /\ D * S <= CostOfAll(pool) * T
    BY <1>2, <2>1, CostOfAllBound
  <2>3. D * S <= n * T
    <3>1. D * S <= t * S
      BY <1>2, <2>1, TimesGrows
    <3> QED
      BY <1>2, <1>4, <3>1, Z3
  <2>4. QuoteBuy(pool, n) = [sol |-> Lesser(CostOfAll(pool), n), tokens |-> D]
    BY <1>7 DEF QuoteBuy, af, t
  <2>5. /\ Lesser(CostOfAll(pool), n) \in Nat /\ Lesser(CostOfAll(pool), n) <= n
        /\ Lesser(CostOfAll(pool), n) \in {CostOfAll(pool), n}
    BY <2>2 DEF Lesser
  <2> QED
    BY <2>1, <2>2, <2>3, <2>4, <2>5
<1> QED
  BY <1>5, <1>6, <1>7

\* A sale delivers what was asked and returns no more than that was worth at the
\* reserves quoted (engine.ts:15-18).
THEOREM SellFavoursPool ==
    ASSUME NEW pool \in PoolStates, NEW n \in Nat \ {0}
    PROVE  /\ QuoteSell(pool, n) \in [sol : Nat, tokens : Nat]
           /\ QuoteSell(pool, n) # NoQuote => QuoteSell(pool, n).tokens = n
           /\ QuoteSell(pool, n).sol * pool.tokenReserve <= QuoteSell(pool, n).tokens * pool.solReserve
<1> PICK S \in Nat \ {0}, T \in Nat \ {0} : S = pool.solReserve /\ T = pool.tokenReserve
  BY PoolFields
<1> DEFINE g == GrossSol(pool, n)
           fee == MulDivCeil(g, pool.feeBps, BpsDenominator)
<1>0. T + n \in Nat \ {0} /\ n \in Nat /\ g = MulDivFloor(n, S, T + n)
  BY DEF GrossSol
<1>1. g \in Nat /\ (T + n) * g <= n * S
  BY <1>0, FloorBounds
<1> HIDE DEF g
<1>2. fee \in Nat
  <2>1. pool.feeBps \in Nat /\ BpsDenominator \in Nat \ {0}
    BY PoolFields DEF BpsDenominator
  <2> QED
    BY <1>1, <2>1, CeilBounds
<1> HIDE DEF fee
<1>3. g * T <= n * S
  <2>1. (T + n) * g = g * T + n * g /\ n * g \in Nat
    BY <1>1, Z3
  <2> QED
    BY <1>1, <2>1, Z3
<1>4. CASE g - fee <= 0
  <2>1. QuoteSell(pool, n) = [sol |-> 0, tokens |-> 0]
    BY <1>4 DEF QuoteSell, NoQuote, g, fee
  <2> QED
    BY <2>1 DEF NoQuote
<1>5. CASE ~(g - fee <= 0)
  <2>1. QuoteSell(pool, n) = [sol |-> g - fee, tokens |-> n]
    BY <1>5 DEF QuoteSell, g, fee
  <2>2. g - fee \in Nat /\ g - fee <= g
    BY <1>1, <1>2, <1>5
  <2>3. (g - fee) * T <= g * T
    BY <1>1, <2>2, TimesGrows
  <2>4. (g - fee) * T <= n * S
    BY <1>1, <1>3, <2>2, <2>3, Z3
  <2> QED
    BY <2>1, <2>2, <2>4
<1> QED
  BY <1>4, <1>5

(***************************************************************************)
(* The inductive invariant                                                 *)
(***************************************************************************)

Fill == [sol : Nat, tokens : Nat]
Position == [tokens : Nat, cost : Nat, realized : Int]
Order ==
    [pc : {"waiting", "reading", "read", "queued"}, mint : Mints, side : {"buy", "sell"},
     size : Sizes, balance : Nat, slot : Nat, source : {"unread", "curve", "pool"},
     offset : Offsets, pool : Readings \cup {Unread}, fill : Fill, position : Position]
Confirmation == [pc : {"queued"}, signature : Signatures]
Row == [mint : Mints, side : {"buy", "sell"}, fill : Fill, slot : Nat,
        source : {"curve", "pool"}, hashed : Readings]

WellTyped ==
    /\ market \in [slot : 0 .. SlotBound, venue : [Mints -> Venues]]
    /\ balance \in Nat
    /\ open \in [Mints -> Position]
    /\ trades \in Seq(Row)
    /\ payments \subseteq Signatures
    /\ orders \in [Orders -> Order \cup {Idle}]
    /\ confirms \in [Confirms -> Confirmation \cup {Idle}]
    /\ queue \in Seq(Orders \cup Confirms)

\* An order that has read its market carries a reading, and one that is still reading
\* has found a pool: graduation is for good.
HasRead(o) ==
    /\ orders[o].pc = "reading" => market.venue[orders[o].mint] \in Amms
    /\ orders[o].pc \in {"read", "queued"} =>
          orders[o].source \in {"curve", "pool"} /\ orders[o].pool \in Readings
AllRead == \A o \in Orders : HasRead(o)

\* What a queued order carries is a fill the engine quotes and its account can pay.
Payable(o) ==
    /\ orders[o].fill = Quote(o) /\ Quote(o) # NoQuote
    /\ orders[o].side = "buy" => orders[o].size <= orders[o].balance
    /\ orders[o].side = "sell" => orders[o].size <= orders[o].position.tokens
Quoted == \A o \in Orders : orders[o].pc = "queued" => Payable(o)

\* The queue holds the calls that wait, once each.
Waits(a) == \/ a \in Orders /\ orders[a].pc = "queued"
            \/ a \in Confirms /\ confirms[a].pc = "queued"
QueueHoldsWaiting ==
    /\ \A i \in 1 .. Len(queue) : Waits(queue[i])
    /\ \A a \in Orders \cup Confirms : Waits(a) => \E i \in 1 .. Len(queue) : queue[i] = a
    /\ \A i, j \in 1 .. Len(queue) : queue[i] = queue[j] => i = j

\* An order in the queue has read the position as it is, or neither it nor any
\* order ahead of it on the same mint can be written any more.
Fresh(o) == orders[o].position = open[orders[o].mint]
Outdated(o, m) ==
    orders[o].mint = m => orders[o].position.tokens # open[m].tokens
FreshOrDoomed ==
    \A j \in 1 .. Len(queue) : queue[j] \in Orders =>
        \/ Fresh(queue[j])
        \/ \A i \in 1 .. j : queue[i] \in Orders => Outdated(queue[i], orders[queue[j]].mint)

IInv == WellTyped /\ AllRead /\ Quoted /\ QueueHoldsWaiting /\ FreshOrDoomed

(***************************************************************************)
(* Lemmas                                                                  *)
(***************************************************************************)

\* A floored share of a cost is no more than the cost.
LEMMA FlooredShare ==
    ASSUME NEW c \in Nat, NEW n \in Nat, NEW t \in Nat, n <= t, t > 0
    PROVE  (c * n) \div t \in 0 .. c
<1>1. c * n <= c * t /\ c * n \in Nat /\ c * t \in Nat
  BY Z3
<1> DEFINE q == (c * n) \div t
<1>2. q \in Int /\ t * q <= c * n
  BY <1>1, Z3
<1>3. q >= 0
  BY <1>1, Z3
<1>4. q <= c
  <2>1. SUFFICES ASSUME q >= c + 1 PROVE FALSE
    BY <1>2
  <2>2. t * q >= t * (c + 1)
    BY <1>2, <2>1, Z3
  <2>3. t * (c + 1) = c * t + t
    BY Z3
  <2> QED
    BY <1>1, <1>2, <2>2, <2>3
<1> QED
  BY <1>2, <1>3, <1>4

\* Every reading is of reserves the engine can quote, and a curve is not a pool.
LEMMA ReadingsArePools == Readings \subseteq PoolStates
<1>1. Curves \subseteq PoolStates
  BY EngineAssumption
<1>2. ASSUME NEW amm \in Amms, NEW offset \in Offsets, NEW fee \in Fees
      PROVE  Combined(amm, offset, fee) \in PoolStates
  <2>1. amm.base \in Nat \ {0} /\ amm.quote \in Nat \ {0} /\ fee \in Nat
    BY EngineAssumption DEF Fees
  <2>2. offset \in Nat
    BY EngineAssumption DEF Offsets
  <2>3. amm.quote + offset \in Nat \ {0}
    BY <2>1, <2>2
  <2> QED
    BY <2>1, <2>3 DEF Combined, PoolStates
<1> QED
  BY <1>1, <1>2 DEF Readings

LEMMA CurveIsNoPool == Curves \cap Amms = {}
<1> SUFFICES ASSUME NEW v \in Curves, v \in Amms PROVE FALSE
  OBVIOUS
<1>1. DOMAIN v = {"solReserve", "tokenReserve", "deliverableTokens", "feeBps"}
  BY EngineAssumption DEF PoolStates
<1>2. DOMAIN v = {"base", "quote", "offset"}
  BY EngineAssumption
<1> QED
  BY <1>1, <1>2

LEMMA OrderFields ==
    ASSUME WellTyped, NEW o \in Orders, orders[o].pc # "idle"
    PROVE  /\ orders[o] \in Order
           /\ orders[o].mint \in Mints /\ orders[o].side \in {"buy", "sell"}
           /\ orders[o].size \in Sizes /\ orders[o].balance \in Nat
           /\ orders[o].slot \in Nat /\ orders[o].offset \in Offsets
           /\ orders[o].fill.sol \in Nat /\ orders[o].fill.tokens \in Nat
           /\ orders[o].position.tokens \in Nat /\ orders[o].position.cost \in Nat
           /\ orders[o].position.realized \in Int
           /\ orders[o].fill \in Fill /\ orders[o].position \in Position
<1>1. orders[o] # Idle
  BY DEF Idle
<1>2. orders[o] \in Order
  BY <1>1 DEF WellTyped
<1> QED
  BY <1>2 DEF Order, Fill, Position

\* What the engine answers to an order it does not refuse.
LEMMA QuoteFacts ==
    ASSUME WellTyped, AllRead, NEW o \in Orders, orders[o].pc \in {"read", "queued"},
           Quote(o) # NoQuote
    PROVE  /\ Quote(o) \in Fill /\ Quote(o).tokens > 0
           /\ orders[o].size \in Nat \ {0} /\ orders[o].pool \in PoolStates
           /\ orders[o].side = "buy" =>
                /\ Quote(o).sol <= orders[o].size
                /\ Quote(o).tokens * orders[o].pool.solReserve <= Quote(o).sol * orders[o].pool.tokenReserve
           /\ orders[o].side = "sell" =>
                /\ Quote(o).tokens = orders[o].size
                /\ Quote(o).sol * orders[o].pool.tokenReserve <= Quote(o).tokens * orders[o].pool.solReserve
<1>1. orders[o].size \in Sizes /\ orders[o].side \in {"buy", "sell"} /\ orders[o].pool \in PoolStates
  BY OrderFields, ReadingsArePools DEF AllRead, HasRead
<1> PICK n \in Nat \ {0}, pool \in PoolStates : n = orders[o].size /\ pool = orders[o].pool
  BY <1>1, EngineAssumption
<1>2. CASE orders[o].side = "buy"
  <2>1. Quote(o) = QuoteBuy(pool, n)
    BY <1>2 DEF Quote
  <2> HIDE DEF NoQuote
  <2> QED
    BY <1>2, <2>1, BuyFavoursPool DEF Fill
<1>3. CASE orders[o].side = "sell"
  <2>1. Quote(o) = QuoteSell(pool, n)
    BY <1>3 DEF Quote
  <2> QED
    BY <1>3, <2>1, SellFavoursPool DEF Fill
<1> QED
  BY <1>1, <1>2, <1>3

\* What applyFill makes of a payable fill.
LEMMA AppliedFacts ==
    ASSUME WellTyped, AllRead, NEW o \in Orders, orders[o].pc = "queued", Payable(o)
    PROVE  /\ Applied(o).balance \in Nat
           /\ Applied(o).position \in Position
           /\ orders[o].side = "buy" =>
                /\ Applied(o).balance = orders[o].balance - orders[o].fill.sol
                /\ Applied(o).position.tokens = orders[o].position.tokens + orders[o].fill.tokens
           /\ orders[o].side = "sell" =>
                /\ Applied(o).balance = orders[o].balance + orders[o].fill.sol
                /\ Applied(o).position.tokens = orders[o].position.tokens - orders[o].fill.tokens
           /\ orders[o].fill.tokens > 0
<1> DEFINE b == orders[o].balance
           position == orders[o].position
           fill == orders[o].fill
           n == fill.tokens
<1>1. /\ b \in Nat /\ position \in Position /\ fill.sol \in Nat /\ n \in Nat
      /\ position.tokens \in Nat /\ position.cost \in Nat /\ position.realized \in Int
  BY OrderFields
<1>2. n > 0 /\ fill = Quote(o) /\ Quote(o) # NoQuote
  BY QuoteFacts DEF Payable
<1>3. CASE orders[o].side = "buy"
  <2>1. fill.sol <= b
    <3>1. fill.sol <= orders[o].size /\ orders[o].size <= b /\ orders[o].size \in Nat
      BY <1>2, <1>3, QuoteFacts DEF Payable
    <3> QED
      BY <1>1, <3>1
  <2>2. Applied(o) = [balance |-> b - fill.sol,
                      position |-> [tokens |-> position.tokens + n, cost |-> position.cost + fill.sol,
                                    realized |-> position.realized]]
    BY <1>3 DEF Applied
  <2>3. b - fill.sol \in Nat /\ position.tokens + n \in Nat /\ position.cost + fill.sol \in Nat
    BY <1>1, <2>1
  <2> QED
    BY <1>1, <1>2, <1>3, <2>2, <2>3 DEF Position
<1>4. CASE orders[o].side = "sell"
  <2> DEFINE cost == CostOfSold(position, n)
             rest == [tokens |-> position.tokens - n, cost |-> position.cost - cost,
                      realized |-> position.realized + fill.sol - cost]
  <2>1. n <= position.tokens
    <3>1. n = orders[o].size
      BY <1>2, <1>4, QuoteFacts
    <3> QED
      BY <1>4, <3>1 DEF Payable
  <2>2. Applied(o) = [balance |-> b + fill.sol,
                      position |-> IF n = position.tokens THEN NoPosition ELSE rest]
    BY <1>4 DEF Applied
  <2>3. CASE n = position.tokens
    <3>1. NoPosition \in Position /\ NoPosition.tokens = 0
      BY DEF NoPosition, Position
    <3> QED
      BY <1>1, <1>2, <1>4, <2>2, <2>3, <3>1
  <2>4. CASE n # position.tokens
    <3>1. cost \in 0 .. position.cost
      <4>1. cost = (position.cost * n) \div position.tokens
        BY <2>4 DEF CostOfSold
      <4>2. PICK c \in Nat, k \in Nat, t \in Nat :
                   c = position.cost /\ k = n /\ t = position.tokens
        BY <1>1
      <4>3. k <= t /\ t > 0
        BY <1>1, <1>2, <2>1, <4>2
      <4>4. (c * k) \div t \in 0 .. c
        BY <4>3, FlooredShare
      <4> QED
        BY <4>1, <4>2, <4>4, Zenon
    <3> HIDE DEF cost
    <3>2. /\ position.tokens - n \in Nat /\ position.cost - cost \in Nat
          /\ position.realized + fill.sol - cost \in Int /\ b + fill.sol \in Nat
      BY <1>1, <2>1, <3>1
    <3> QED
      BY <1>2, <1>4, <2>2, <2>4, <3>2 DEF Position
  <2> QED
    BY <2>3, <2>4
<1> QED
  BY <1>1, <1>3, <1>4, OrderFields

(***************************************************************************)
(* Every step keeps the shapes                                             *)
(***************************************************************************)

LEMMA TypedInit == Init => IInv
<1> SUFFICES ASSUME Init PROVE IInv
  OBVIOUS
<1>1. NoPosition \in Position
  BY DEF NoPosition, Position
<1>2. WellTyped
  <2>1. market \in [slot : 0 .. SlotBound, venue : [Mints -> Venues]]
    BY BoundAssumption DEF Init
  <2> QED
    BY <1>1, <2>1, BalanceAssumption DEF Init, WellTyped
<1>3. AllRead /\ Quoted /\ QueueHoldsWaiting /\ FreshOrDoomed
  BY DEF Init, AllRead, HasRead, Quoted, QueueHoldsWaiting, FreshOrDoomed, Waits, Idle
<1> QED
  BY <1>2, <1>3 DEF IInv

LEMMA TailInSeq ==
    ASSUME NEW S, NEW q \in Seq(S), q # <<>>
    PROVE  /\ Tail(q) \in Seq(S) /\ Head(q) \in S /\ Head(q) = q[1]
           /\ Len(q) \in Nat \ {0} /\ Len(Tail(q)) = Len(q) - 1
           /\ \A i \in 1 .. Len(Tail(q)) : Tail(q)[i] = q[i + 1]
BY HeadTailProperties

LEMMA AppendInSeq ==
    ASSUME NEW S, NEW q \in Seq(S), NEW e \in S
    PROVE  /\ Append(q, e) \in Seq(S)
           /\ Len(Append(q, e)) = Len(q) + 1 /\ Len(q) \in Nat
           /\ \A i \in 1 .. Len(q) : Append(q, e)[i] = q[i]
           /\ Append(q, e)[Len(q) + 1] = e
BY AppendProperties

\* What a reading says of a mint's market as it is now.
Shows(mint, source, pool) ==
    /\ pool \in Readings
    /\ \/ source = "curve" /\ market.venue[mint] \in Curves /\ pool = market.venue[mint]
       \/ source = "pool" /\ market.venue[mint] \in Amms

\* What the reads of the market leave an order with.
LEMMA ReadingStep ==
    ASSUME WellTyped, AllRead, NEW o \in Orders, ReadCurve(o) \/ ReadPoolAccount(o) \/ ReadVaults(o)
    PROVE  \E order \in Order :
              /\ orders' = [orders EXCEPT ![o] = order] /\ order.mint \in Mints
              /\ \/ order.pc = "reading" /\ market.venue[order.mint] \in Amms
                 \/ /\ order.pc = "read" /\ order.slot = market.slot
                    /\ Shows(order.mint, order.source, order.pool)
<1>1. orders[o] \in Order /\ orders[o].mint \in Mints /\ market.slot \in Nat
      /\ market.venue \in [Mints -> Venues]
  <2>1. orders[o].pc # "idle"
    BY DEF ReadCurve, ReadPoolAccount, ReadVaults
  <2>2. market.slot \in Nat /\ market.venue \in [Mints -> Venues]
    BY BoundAssumption DEF WellTyped
  <2> QED
    BY <2>1, <2>2, OrderFields
<1> DEFINE venue == market.venue[orders[o].mint]
<1>2. CASE ReadCurve(o)
  <2> DEFINE order == [orders[o] EXCEPT !.pc = "read", !.slot = market.slot,
                                        !.source = "curve", !.pool = venue]
  <2>1. venue \in Curves /\ venue \in Readings
    BY <1>2 DEF ReadCurve, Readings
  <2>2. /\ order \in Order /\ order.pc = "read" /\ order.slot = market.slot
        /\ order.mint = orders[o].mint /\ order.source = "curve" /\ order.pool = venue
    BY <1>1, <2>1 DEF Order
  <2>3. orders' = [orders EXCEPT ![o] = order]
    BY <1>2 DEF ReadCurve, Becomes
  <2> HIDE DEF order
  <2> QED
    BY <1>1, <2>1, <2>2, <2>3 DEF Shows
<1>3. CASE ReadPoolAccount(o)
  <2> DEFINE order == [orders[o] EXCEPT !.pc = "reading", !.offset = venue.offset]
  <2>1. venue \in Amms /\ venue.offset \in Offsets
    BY <1>3 DEF ReadPoolAccount, Offsets
  <2>2. order \in Order /\ order.pc = "reading" /\ order.mint = orders[o].mint
    BY <1>1, <2>1 DEF Order
  <2>3. orders' = [orders EXCEPT ![o] = order]
    BY <1>3 DEF ReadPoolAccount, Becomes
  <2> HIDE DEF order
  <2> QED
    BY <1>1, <2>1, <2>2, <2>3
<1>4. CASE ReadVaults(o)
  <2>1. PICK fee \in Fees :
           orders' = [orders EXCEPT ![o] =
              [orders[o] EXCEPT !.pc = "read", !.slot = market.slot, !.source = "pool",
                                !.pool = Combined(venue, orders[o].offset, fee)]]
    BY <1>4 DEF ReadVaults, Becomes
  <2> DEFINE pool == Combined(venue, orders[o].offset, fee)
             order == [orders[o] EXCEPT !.pc = "read", !.slot = market.slot,
                                        !.source = "pool", !.pool = pool]
  <2>2. venue \in Amms /\ orders[o].offset \in Offsets
    BY <1>1, <1>4, OrderFields DEF ReadVaults, AllRead, HasRead
  <2>3. pool \in Readings
    BY <2>2 DEF Readings
  <2>4. orders' = [orders EXCEPT ![o] = order]
    BY <2>1
  <2> HIDE DEF pool
  <2>5. /\ order \in Order /\ order.pc = "read" /\ order.slot = market.slot
        /\ order.mint = orders[o].mint /\ order.source = "pool" /\ order.pool = pool
    BY <1>1, <2>3 DEF Order
  <2> HIDE DEF order
  <2> QED
    BY <1>1, <2>2, <2>3, <2>4, <2>5 DEF Shows
<1> QED
  BY <1>2, <1>3, <1>4

LEMMA TypedStep == IInv /\ [Next]_vars => WellTyped'
<1> SUFFICES ASSUME IInv, [Next]_vars PROVE WellTyped'
  OBVIOUS
<1>0. WellTyped /\ AllRead /\ Quoted
  BY DEF IInv
<1> USE DEF Becomes, Settles, account
<1>1. CASE MarketMoves
  <2>1. PICK m \in Mints : \E v \in Venues \ {market.venue[m]} :
           market' = [slot |-> market.slot + 1, venue |-> [market.venue EXCEPT ![m] = v]]
    BY <1>1 DEF MarketMoves
  <2>2. market' \in [slot : 0 .. SlotBound, venue : [Mints -> Venues]]
    BY <1>0, <1>1, <2>1, BoundAssumption DEF MarketMoves, WellTyped
  <2> QED
    BY <1>0, <1>1, <2>2 DEF MarketMoves, WellTyped
<1>2. CASE OpenFails
  <2>1. queue' \in Seq(Orders \cup Confirms)
    BY <1>0, <1>2, TailInSeq DEF OpenFails, WellTyped, Released
  <2>2. orders' \in [Orders -> Order \cup {Idle}] /\ confirms' \in [Confirms -> Confirmation \cup {Idle}]
    BY <1>0, <1>2 DEF OpenFails, WellTyped
  <2> QED
    BY <1>0, <1>2, <2>1, <2>2 DEF OpenFails, WellTyped
<1>3. ASSUME NEW o \in Orders, NEW m \in Mints, NEW side \in {"buy", "sell"}, NEW size \in Sizes,
             Click(o, m, side, size)
      PROVE  WellTyped'
  <2>1. NoQuote \in Fill /\ NoPosition \in Position /\ 0 \in Offsets
    BY DEF NoQuote, Fill, NoPosition, Position, Offsets
  <2>2. [pc |-> "waiting", mint |-> m, side |-> side, size |-> size, balance |-> balance,
         slot |-> 0, source |-> "unread", offset |-> 0, pool |-> Unread,
         fill |-> NoQuote, position |-> NoPosition] \in Order
    BY <1>0, <2>1 DEF Order, WellTyped
  <2> QED
    BY <1>0, <1>3, <2>2 DEF Click, WellTyped
<1>4. ASSUME NEW o \in Orders, ReadCurve(o) \/ ReadPoolAccount(o) \/ ReadVaults(o)
      PROVE  WellTyped'
  <2>1. PICK order \in Order : orders' = [orders EXCEPT ![o] = order]
    BY <1>0, <1>4, ReadingStep
  <2> QED
    BY <1>0, <1>4, <2>1 DEF ReadCurve, ReadPoolAccount, ReadVaults, WellTyped
<1>5. ASSUME NEW o \in Orders, Price(o) PROVE WellTyped'
  <2>1. orders' = [orders EXCEPT ![o] =
            [orders[o] EXCEPT !.pc = "queued", !.fill = Quote(o), !.position = open[orders[o].mint]]]
    BY <1>5 DEF Price
  <2>2. orders[o] \in Order /\ orders[o].mint \in Mints
    BY <1>0, <1>5, OrderFields DEF Price
  <2>3. Quote(o) \in Fill
    BY <1>0, <1>5, QuoteFacts DEF Price
  <2>4. open[orders[o].mint] \in Position
    BY <1>0, <2>2 DEF WellTyped
  <2>5. [orders[o] EXCEPT !.pc = "queued", !.fill = Quote(o), !.position = open[orders[o].mint]] \in Order
    BY <2>2, <2>3, <2>4 DEF Order
  <2>6. queue' \in Seq(Orders \cup Confirms)
    BY <1>0, <1>5, AppendInSeq DEF Price, Queues, WellTyped
  <2> QED
    BY <1>0, <1>5, <2>1, <2>5, <2>6 DEF Price, WellTyped
<1>6. ASSUME NEW o \in Orders, Refuse(o) PROVE WellTyped'
  BY <1>0, <1>6 DEF Refuse, WellTyped
<1>7. ASSUME NEW o \in Orders, Record(o) PROVE WellTyped'
  <2>1. orders[o] \in Order /\ orders[o].mint \in Mints /\ orders[o].pool \in Readings
        /\ orders[o].source \in {"curve", "pool"}
        /\ orders[o].side \in {"buy", "sell"} /\ orders[o].fill \in Fill /\ orders[o].slot \in Nat
    BY <1>0, <1>7, OrderFields DEF Record, AllRead, HasRead
  <2>2. Trade(o) \in Row
    BY <2>1 DEF Trade, Row, SnapshotSlot
  <2>3. trades' \in Seq(Row)
    BY <1>0, <1>7, <2>2, AppendInSeq DEF Record, WellTyped
  <2>4. Payable(o)
    BY <1>0, <1>7 DEF Record, Quoted
  <2>5. Applied(o).balance \in Nat /\ Applied(o).position \in Position
    BY <1>0, <1>7, <2>4, AppliedFacts DEF Record
  <2>6. queue' \in Seq(Orders \cup Confirms)
    BY <1>0, <1>7, TailInSeq DEF Record, HasTurn, WellTyped, Released
  <2> QED
    BY <1>0, <1>7, <2>3, <2>5, <2>6 DEF Record, WellTyped
<1>8. ASSUME NEW o \in Orders, Raced(o) PROVE WellTyped'
  <2>1. queue' \in Seq(Orders \cup Confirms)
    BY <1>0, <1>8, TailInSeq DEF Raced, HasTurn, WellTyped, Released
  <2> QED
    BY <1>0, <1>8, <2>1 DEF Raced, WellTyped
<1>9. ASSUME NEW c \in Confirms, NEW s \in Signatures, Confirm(c, s) PROVE WellTyped'
  <2>1. queue' \in Seq(Orders \cup Confirms)
    BY <1>0, <1>9, AppendInSeq DEF Confirm, Queues, WellTyped
  <2>2. [pc |-> "queued", signature |-> s] \in Confirmation
    BY DEF Confirmation
  <2> QED
    BY <1>0, <1>9, <2>1, <2>2 DEF Confirm, WellTyped
<1>10. ASSUME NEW c \in Confirms, Settle(c) PROVE WellTyped'
  <2>1. queue' \in Seq(Orders \cup Confirms)
    BY <1>0, <1>10, TailInSeq DEF Settle, HasTurn, WellTyped, Released
  <2>2. confirms[c].signature \in Signatures
    <3>1. confirms[c] # Idle
      BY <1>10 DEF Settle, Idle
    <3> QED
      BY <1>0, <3>1 DEF WellTyped, Confirmation
  <2> QED
    BY <1>0, <1>10, <2>1, <2>2, BalanceAssumption DEF Settle, WellTyped
<1>11. ASSUME NEW c \in Confirms, AlreadySettled(c) PROVE WellTyped'
  <2>1. queue' \in Seq(Orders \cup Confirms)
    BY <1>0, <1>11, TailInSeq DEF AlreadySettled, HasTurn, WellTyped, Released
  <2> QED
    BY <1>0, <1>11, <2>1 DEF AlreadySettled, WellTyped
<1>13. ASSUME NEW m \in Mints, AnotherFills(m) PROVE WellTyped'
  BY <1>0, <1>13 DEF AnotherFills, WellTyped
<1>12. CASE UNCHANGED vars
  BY <1>0, <1>12 DEF vars, WellTyped
<1> QED
  BY <1>1, <1>2, <1>3, <1>4, <1>5, <1>6, <1>7, <1>8, <1>9, <1>10, <1>11, <1>12, <1>13 DEF Next

LEMMA AllReadStep == IInv /\ [Next]_vars => AllRead'
<1> SUFFICES ASSUME IInv, [Next]_vars, NEW q \in Orders PROVE HasRead(q)'
  BY DEF AllRead
<1>0. WellTyped /\ AllRead /\ HasRead(q)
  BY DEF IInv, AllRead
<1> USE DEF Becomes
<1>1. CASE orders'[q].pc \in {"idle", "waiting"}
  BY <1>1 DEF HasRead
<1>2. CASE orders'[q] = orders[q] /\ market' = market
  BY <1>0, <1>2 DEF HasRead
<1>3. CASE MarketMoves
  <2>1. PICK m \in Mints : \E v \in Venues \ {market.venue[m]} :
           /\ market.venue[m] \in Amms => v \in Amms
           /\ market' = [slot |-> market.slot + 1, venue |-> [market.venue EXCEPT ![m] = v]]
    BY <1>3 DEF MarketMoves
  <2>2. \A x \in Mints : market.venue[x] \in Amms => market'.venue[x] \in Amms
    BY <1>0, <2>1 DEF WellTyped
  <2>3. orders' = orders
    BY <1>3 DEF MarketMoves
  <2>4. orders[q].pc = "reading" => orders[q].mint \in Mints
    BY <1>0, OrderFields
  <2> QED
    BY <1>0, <2>2, <2>3, <2>4 DEF HasRead
<1>4. ASSUME NEW o \in Orders, ReadCurve(o) \/ ReadPoolAccount(o) \/ ReadVaults(o)
      PROVE  HasRead(q)'
  <2>1. PICK order \in Order :
              /\ orders' = [orders EXCEPT ![o] = order]
              /\ \/ order.pc = "reading" /\ market.venue[order.mint] \in Amms
                 \/ /\ order.pc = "read" /\ order.slot = market.slot
                    /\ Shows(order.mint, order.source, order.pool)
    BY <1>0, <1>4, ReadingStep
  <2>2. market' = market
    BY <1>4 DEF ReadCurve, ReadPoolAccount, ReadVaults
  <2>3. orders'[q] = IF q = o THEN order ELSE orders[q]
    BY <1>0, <2>1 DEF WellTyped
  <2> QED
    BY <1>0, <2>1, <2>2, <2>3 DEF HasRead, Shows
<1>5. ASSUME NEW o \in Orders, Price(o) PROVE HasRead(q)'
  <2>1. orders' = [orders EXCEPT ![o] =
            [orders[o] EXCEPT !.pc = "queued", !.fill = Quote(o), !.position = open[orders[o].mint]]]
    BY <1>5 DEF Price
  <2>2. orders[o] \in Order /\ orders[o].pc = "read"
    BY <1>0, <1>5, OrderFields DEF Price
  <2>3. orders'[o].pc = "queued" /\ orders'[o].source = orders[o].source
        /\ orders'[o].pool = orders[o].pool
    BY <1>0, <2>1, <2>2 DEF WellTyped, Order
  <2>4. q # o => orders'[q] = orders[q]
    BY <1>0, <2>1 DEF WellTyped
  <2>5. market' = market
    BY <1>5 DEF Price
  <2>6. HasRead(o)
    BY <1>0 DEF AllRead
  <2> QED
    BY <1>2, <2>2, <2>3, <2>4, <2>5, <2>6 DEF HasRead
<1>6. ASSUME NEW o \in Orders, \/ Refuse(o) \/ Record(o) \/ Raced(o)
                               \/ \E m \in Mints, side \in {"buy", "sell"}, size \in Sizes :
                                     Click(o, m, side, size)
      PROVE  HasRead(q)'
  <2>1. market' = market /\ \E order : orders' = [orders EXCEPT ![o] = order]
                                        /\ order.pc \in {"idle", "waiting"}
    <3>1. CASE Refuse(o) \/ Record(o) \/ Raced(o)
      <4>1. market' = market /\ orders' = [orders EXCEPT ![o] = Idle]
        BY <3>1 DEF Refuse, Record, Raced
      <4> PICK order : order = Idle
        OBVIOUS
      <4>2. order.pc = "idle"
        BY DEF Idle
      <4> QED
        BY <4>1, <4>2
    <3>2. ASSUME NEW m \in Mints, NEW side \in {"buy", "sell"}, NEW size \in Sizes,
                 Click(o, m, side, size)
          PROVE  market' = market /\ \E order : orders' = [orders EXCEPT ![o] = order]
                                                /\ order.pc \in {"idle", "waiting"}
      <4> DEFINE order == [pc |-> "waiting", mint |-> m, side |-> side, size |-> size,
                           balance |-> balance, slot |-> 0, source |-> "unread", offset |-> 0,
                           pool |-> Unread, fill |-> NoQuote, position |-> NoPosition]
      <4>1. market' = market /\ orders' = [orders EXCEPT ![o] = order]
        BY <3>2 DEF Click
      <4>2. order.pc = "waiting"
        OBVIOUS
      <4> HIDE DEF order
      <4> QED
        BY <4>1, <4>2
    <3> QED
      BY <1>6, <3>1, <3>2
  <2>2. (q = o /\ orders'[q].pc \in {"idle", "waiting"}) \/ orders'[q] = orders[q]
    BY <1>0, <2>1 DEF WellTyped
  <2> QED
    BY <1>1, <1>2, <2>1, <2>2
<1>7. CASE OpenFails
  <2>1. market' = market /\ (orders'[q] = Idle \/ orders'[q] = orders[q])
    BY <1>0, <1>7 DEF OpenFails, WellTyped
  <2> QED
    BY <1>1, <1>2, <2>1 DEF Idle
<1>8. ASSUME NEW c \in Confirms, \/ Settle(c) \/ AlreadySettled(c)
                                 \/ \E s \in Signatures : Confirm(c, s)
      PROVE  HasRead(q)'
  BY <1>2, <1>8 DEF Settle, AlreadySettled, Confirm
<1>9. ASSUME NEW m \in Mints, AnotherFills(m) PROVE HasRead(q)'
  BY <1>2, <1>9 DEF AnotherFills
<1>10. CASE UNCHANGED vars
  BY <1>2, <1>10 DEF vars
<1> QED
  BY <1>3, <1>4, <1>5, <1>6, <1>7, <1>8, <1>9, <1>10 DEF Next

(***************************************************************************)
(* What waits in the queue is priced, and everything that waits is there   *)
(***************************************************************************)

LEMMA QuotedStep == IInv /\ [Next]_vars => Quoted'
<1> SUFFICES ASSUME IInv, [Next]_vars, NEW q \in Orders, orders'[q].pc = "queued"
             PROVE  Payable(q)'
  BY DEF Quoted
<1>0. WellTyped /\ AllRead /\ Quoted
  BY DEF IInv
<1> USE DEF Becomes, Settles
<1>1. CASE orders'[q] = orders[q]
  BY <1>0, <1>1 DEF Quoted, Payable, Quote
<1>2. ASSUME NEW o \in Orders, Price(o) PROVE Payable(q)'
  <2>1. CASE q = o
    <3>1. orders' = [orders EXCEPT ![o] =
              [orders[o] EXCEPT !.pc = "queued", !.fill = Quote(o), !.position = open[orders[o].mint]]]
      BY <1>2 DEF Price
    <3>2. orders[o] \in Order
      BY <1>0, <1>2, OrderFields DEF Price
    <3>3. /\ orders'[o].side = orders[o].side /\ orders'[o].pool = orders[o].pool
          /\ orders'[o].size = orders[o].size
          /\ orders'[o].balance = orders[o].balance /\ orders'[o].fill = Quote(o)
          /\ orders'[o].position = open[orders[o].mint]
      BY <1>0, <3>1, <3>2 DEF WellTyped, Order
    <3>4. Quote(o)' = Quote(o)
      BY <3>3 DEF Quote
    <3>5. /\ Quote(o) # NoQuote
          /\ orders[o].side = "buy" => orders[o].size <= orders[o].balance
          /\ orders[o].side = "sell" => orders[o].size <= open[orders[o].mint].tokens
      BY <1>2 DEF Price, Affordable
    <3> QED
      BY <2>1, <3>3, <3>4, <3>5 DEF Payable
  <2>2. CASE q # o
    BY <1>0, <1>1, <1>2, <2>2 DEF Price, WellTyped
  <2> QED
    BY <2>1, <2>2
<1>3. ASSUME ~(\E o \in Orders : Price(o)) PROVE orders'[q] = orders[q]
  <2>2. ASSUME NEW o \in Orders, \/ ReadCurve(o) \/ ReadPoolAccount(o) \/ ReadVaults(o)
                                 \/ Refuse(o) \/ Record(o) \/ Raced(o)
                                 \/ \E m \in Mints, side \in {"buy", "sell"}, size \in Sizes :
                                       Click(o, m, side, size)
        PROVE  orders'[q] = orders[q]
    <3>1. CASE ReadCurve(o) \/ ReadPoolAccount(o) \/ ReadVaults(o)
      <4>1. PICK order \in Order : /\ orders' = [orders EXCEPT ![o] = order]
                                   /\ order.pc # "queued"
        BY <1>0, <3>1, ReadingStep
      <4> QED
        BY <1>0, <4>1 DEF WellTyped
    <3>2. CASE Refuse(o)
      BY <1>0, <3>2 DEF Refuse, WellTyped, Idle
    <3>3. CASE Record(o)
      BY <1>0, <3>3 DEF Record, WellTyped, Idle
    <3>4. CASE Raced(o)
      BY <1>0, <3>4 DEF Raced, WellTyped, Idle
    <3>5. CASE \E m \in Mints, side \in {"buy", "sell"}, size \in Sizes : Click(o, m, side, size)
      BY <1>0, <3>5 DEF Click, WellTyped
    <3> QED
      BY <2>2, <3>1, <3>2, <3>3, <3>4, <3>5
  <2>3. CASE OpenFails
    BY <1>0, <2>3 DEF OpenFails, WellTyped, Idle
  <2>4. CASE MarketMoves
    BY <2>4 DEF MarketMoves
  <2>5. ASSUME NEW c \in Confirms, \/ Settle(c) \/ AlreadySettled(c)
                                   \/ \E s \in Signatures : Confirm(c, s)
        PROVE  orders'[q] = orders[q]
    BY <2>5 DEF Settle, AlreadySettled, Confirm
  <2>6. ASSUME NEW m \in Mints, AnotherFills(m) PROVE orders'[q] = orders[q]
    BY <2>6 DEF AnotherFills
  <2>7. CASE UNCHANGED vars
    BY <2>7 DEF vars
  <2> QED
    BY <1>3, <2>2, <2>3, <2>4, <2>5, <2>6, <2>7 DEF Next
<1> QED
  BY <1>1, <1>2, <1>3

\* Who waits after a step: the same calls, one more at the end, or all but the first.
WillWait(a) == \/ a \in Orders /\ orders'[a].pc = "queued"
               \/ a \in Confirms /\ confirms'[a].pc = "queued"
Stays == /\ queue' = queue
         /\ \A a \in Orders \cup Confirms : WillWait(a) <=> Waits(a)
         /\ \A o \in Orders : orders[o].pc = "queued" => orders'[o] = orders[o]
Joins(e) == /\ queue' = Append(queue, e)
            /\ ~Waits(e) /\ WillWait(e)
            /\ \A a \in (Orders \cup Confirms) \ {e} : WillWait(a) <=> Waits(a)
            /\ \A o \in Orders : orders[o].pc = "queued" => orders'[o] = orders[o]
Leaves == /\ queue # <<>> /\ queue' = Tail(queue)
          /\ ~WillWait(Head(queue))
          /\ \A a \in (Orders \cup Confirms) \ {Head(queue)} : WillWait(a) <=> Waits(a)
          /\ \A o \in Orders : o # Head(queue) => orders'[o] = orders[o]

LEMMA OrderLeaves ==
    ASSUME WellTyped, NEW o \in Orders, HasTurn(o), Becomes(o, Idle), queue' = Released(o),
           confirms' = confirms
    PROVE  Leaves
<1>1. o \notin Confirms
  BY ActorsAssumption
<1>2. /\ queue # <<>> /\ Head(queue) = o /\ queue' = Tail(queue)
      /\ orders'[o] = Idle /\ \A x \in Orders : x # o => orders'[x] = orders[x]
  BY DEF WellTyped, HasTurn, Becomes, Released
<1>3. ~WillWait(o)
  BY <1>1, <1>2 DEF WillWait, Idle
<1>4. \A a \in (Orders \cup Confirms) \ {o} : WillWait(a) <=> Waits(a)
  BY <1>2 DEF Waits, WillWait
<1> QED
  BY <1>2, <1>3, <1>4 DEF Leaves

LEMMA ConfirmLeaves ==
    ASSUME WellTyped, NEW c \in Confirms, HasTurn(c), Settles(c, Idle), queue' = Released(c),
           orders' = orders
    PROVE  Leaves
<1>1. c \notin Orders
  BY ActorsAssumption
<1>2. /\ queue # <<>> /\ Head(queue) = c /\ queue' = Tail(queue)
      /\ confirms'[c] = Idle /\ \A x \in Confirms : x # c => confirms'[x] = confirms[x]
  BY DEF WellTyped, HasTurn, Settles, Released
<1>3. ~WillWait(c)
  BY <1>1, <1>2 DEF WillWait, Idle
<1>4. \A a \in (Orders \cup Confirms) \ {c} : WillWait(a) <=> Waits(a)
  BY <1>2 DEF Waits, WillWait
<1> QED
  BY <1>2, <1>3, <1>4 DEF Leaves

LEMMA QueueMoves ==
    ASSUME WellTyped, AllRead, [Next]_vars
    PROVE  \/ Stays /\ open' = open
           \/ Leaves /\ open' = open
           \/ \E o \in Orders : Record(o) /\ Leaves
           \/ \E o \in Orders : Price(o) /\ Joins(o)
           \/ \E c \in Confirms : Joins(c) /\ open' = open
<1> USE DEF account
<1>1. CASE MarketMoves
  BY <1>1 DEF MarketMoves, Stays, Waits, WillWait
<1>2. CASE OpenFails
  <2> DEFINE h == Head(queue)
  <2>1. Leaves
    <3>1. /\ queue # <<>> /\ queue' = Tail(queue)
          /\ \A x \in Orders : orders'[x] = IF x = h THEN Idle ELSE orders[x]
          /\ \A x \in Confirms : confirms'[x] = IF x = h THEN Idle ELSE confirms[x]
      BY <1>2 DEF OpenFails, Released, HasTurn
    <3>2. ~WillWait(h)
      BY <3>1 DEF WillWait, Idle
    <3>3. \A a \in (Orders \cup Confirms) \ {h} : WillWait(a) <=> Waits(a)
      BY <3>1 DEF Waits, WillWait
    <3> QED
      BY <3>1, <3>2, <3>3 DEF Leaves
  <2> QED
    BY <1>2, <2>1 DEF OpenFails
<1>3. ASSUME NEW o \in Orders, NEW m \in Mints, NEW side \in {"buy", "sell"}, NEW size \in Sizes,
             Click(o, m, side, size)
      PROVE  Stays /\ open' = open
  BY <1>3 DEF Click, Stays, WellTyped, Becomes, Waits, WillWait
<1>4. ASSUME NEW o \in Orders, ReadCurve(o) \/ ReadPoolAccount(o) \/ ReadVaults(o)
      PROVE  Stays /\ open' = open
  <2>1. PICK order \in Order : orders' = [orders EXCEPT ![o] = order] /\ order.pc # "queued"
    BY <1>4, ReadingStep
  <2>2. orders[o].pc # "queued" /\ queue' = queue /\ confirms' = confirms /\ open' = open
    BY <1>4 DEF ReadCurve, ReadPoolAccount, ReadVaults
  <2>3. orders'[o].pc # "queued" /\ \A x \in Orders : x # o => orders'[x] = orders[x]
    BY <2>1 DEF WellTyped
  <2> QED
    BY <2>2, <2>3 DEF Stays, Waits, WillWait
<1>5. ASSUME NEW o \in Orders, Price(o) PROVE Joins(o)
  <2>1. orders[o] \in Order
    BY <1>5, OrderFields DEF Price
  <2>2. orders'[o].pc = "queued"
    BY <1>5, <2>1 DEF Price, Order, WellTyped, Becomes
  <2>3. /\ queue' = Append(queue, o) /\ confirms' = confirms /\ orders[o].pc = "read"
        /\ \A x \in Orders : x # o => orders'[x] = orders[x]
    BY <1>5 DEF Price, Queues, WellTyped, Becomes
  <2>4. o \notin Confirms
    BY ActorsAssumption
  <2>5. ~Waits(o) /\ WillWait(o)
    BY <2>2, <2>3, <2>4 DEF Waits, WillWait
  <2>6. \A a \in (Orders \cup Confirms) \ {o} : WillWait(a) <=> Waits(a)
    BY <2>3 DEF Waits, WillWait
  <2> QED
    BY <2>3, <2>5, <2>6 DEF Joins
<1>6. ASSUME NEW o \in Orders, Refuse(o) PROVE Stays /\ open' = open
  BY <1>6 DEF Refuse, Stays, WellTyped, Idle, Becomes, Waits, WillWait
<1>7. ASSUME NEW o \in Orders, Record(o) PROVE Leaves
  BY <1>7, OrderLeaves DEF Record
<1>8. ASSUME NEW o \in Orders, Raced(o) PROVE Leaves /\ open' = open
  BY <1>8, OrderLeaves DEF Raced
<1>9. ASSUME NEW c \in Confirms, NEW s \in Signatures, Confirm(c, s)
      PROVE  Joins(c) /\ open' = open
  <2>1. /\ queue' = Append(queue, c) /\ orders' = orders /\ open' = open /\ confirms[c].pc = "idle"
        /\ confirms'[c].pc = "queued" /\ \A x \in Confirms : x # c => confirms'[x] = confirms[x]
    BY <1>9 DEF Confirm, Queues, Settles, WellTyped
  <2>2. c \notin Orders
    BY ActorsAssumption
  <2>3. ~Waits(c) /\ WillWait(c)
    BY <2>1, <2>2 DEF Waits, WillWait
  <2>4. \A a \in (Orders \cup Confirms) \ {c} : WillWait(a) <=> Waits(a)
    BY <2>1 DEF Waits, WillWait
  <2> QED
    BY <2>1, <2>3, <2>4 DEF Joins
<1>10. ASSUME NEW c \in Confirms, Settle(c) PROVE Leaves /\ open' = open
  BY <1>10, ConfirmLeaves DEF Settle
<1>11. ASSUME NEW c \in Confirms, AlreadySettled(c) PROVE Leaves /\ open' = open
  BY <1>11, ConfirmLeaves DEF AlreadySettled
<1>13. ASSUME NEW m \in Mints, AnotherFills(m) PROVE Stays /\ open' = open
  BY <1>13 DEF AnotherFills, Stays, Waits, WillWait
<1>12. CASE UNCHANGED vars
  BY <1>12 DEF vars, Stays, Waits, WillWait
<1> QED
  BY <1>1, <1>2, <1>3, <1>4, <1>5, <1>6, <1>7, <1>8, <1>9, <1>10, <1>11, <1>12, <1>13 DEF Next

LEMMA QueueStep == IInv /\ [Next]_vars => QueueHoldsWaiting'
<1> SUFFICES ASSUME IInv, [Next]_vars PROVE QueueHoldsWaiting'
  OBVIOUS
<1>0. WellTyped /\ AllRead /\ QueueHoldsWaiting /\ queue \in Seq(Orders \cup Confirms) /\ Len(queue) \in Nat
  BY DEF IInv, WellTyped
<1>1. CASE Stays
  BY <1>0, <1>1 DEF QueueHoldsWaiting, Stays, Waits, WillWait
<1>2. ASSUME NEW e \in Orders \cup Confirms, Joins(e) PROVE QueueHoldsWaiting'
  <2>1. /\ Len(queue') = Len(queue) + 1 /\ queue'[Len(queue) + 1] = e
        /\ \A i \in 1 .. Len(queue) : queue'[i] = queue[i] /\ queue[i] \in Orders \cup Confirms
    BY <1>0, <1>2, AppendInSeq DEF Joins
  <2>2. \A i \in 1 .. Len(queue) : queue[i] # e
    BY <1>0, <1>2 DEF QueueHoldsWaiting, Joins
  <2>3. \A i \in 1 .. Len(queue') : i \in 1 .. Len(queue) \/ i = Len(queue) + 1
    BY <1>0, <2>1
  <2>4. \A i \in 1 .. Len(queue') : WillWait(queue'[i])
    BY <1>0, <1>2, <2>1, <2>2, <2>3 DEF QueueHoldsWaiting, Joins
  <2>5. ASSUME NEW a \in Orders \cup Confirms, WillWait(a)
        PROVE  \E i \in 1 .. Len(queue') : queue'[i] = a
    <3>1. CASE a = e
      BY <1>0, <2>1, <3>1
    <3>2. CASE a # e
      <4>1. PICK i \in 1 .. Len(queue) : queue[i] = a
        BY <1>0, <1>2, <2>5, <3>2 DEF QueueHoldsWaiting, Joins
      <4> QED
        BY <1>0, <2>1, <4>1
    <3> QED
      BY <3>1, <3>2
  <2>6. \A i, j \in 1 .. Len(queue') : queue'[i] = queue'[j] => i = j
    BY <1>0, <2>1, <2>2, <2>3 DEF QueueHoldsWaiting
  <2> QED
    BY <2>4, <2>5, <2>6 DEF QueueHoldsWaiting, Waits, WillWait
<1>3. CASE Leaves
  <2>1. /\ Len(queue) > 0 /\ Len(queue') = Len(queue) - 1 /\ Head(queue) = queue[1]
        /\ \A i \in 1 .. Len(queue') : queue'[i] = queue[i + 1] /\ i + 1 \in 1 .. Len(queue)
        /\ \A i \in 1 .. Len(queue) : queue[i] \in Orders \cup Confirms
    BY <1>0, <1>3, TailInSeq DEF Leaves
  <2>2. \A i \in 1 .. Len(queue') : queue[i + 1] # Head(queue)
    BY <1>0, <2>1 DEF QueueHoldsWaiting
  <2>3. \A i \in 1 .. Len(queue') : WillWait(queue'[i])
    BY <1>0, <1>3, <2>1, <2>2 DEF QueueHoldsWaiting, Leaves
  <2>4. ASSUME NEW a \in Orders \cup Confirms, WillWait(a)
        PROVE  \E i \in 1 .. Len(queue') : queue'[i] = a
    <3>1. a # Head(queue)
      BY <1>3, <2>4 DEF Leaves
    <3>2. PICK i \in 1 .. Len(queue) : queue[i] = a
      BY <1>0, <1>3, <2>4, <3>1 DEF QueueHoldsWaiting, Leaves
    <3>3. i - 1 \in 1 .. Len(queue') /\ queue'[i - 1] = a
      BY <1>0, <2>1, <3>1, <3>2
    <3> QED
      BY <3>3
  <2>5. \A i, j \in 1 .. Len(queue') : queue'[i] = queue'[j] => i = j
    BY <1>0, <2>1 DEF QueueHoldsWaiting
  <2> QED
    BY <2>3, <2>4, <2>5 DEF QueueHoldsWaiting, Waits, WillWait
<1> QED
  BY <1>0, <1>1, <1>2, <1>3, QueueMoves

(***************************************************************************)
(* First come, first served: an order that can still be written has read   *)
(* the position as it is                                                   *)
(***************************************************************************)

\* The order at the head whose token amount still holds has a fresh position, and
\* so has every order on the mint that waits behind it.
LEMMA HeadIsFresh ==
    ASSUME IInv, NEW o \in Orders, Record(o)
    PROVE  /\ Fresh(o)
           /\ \A j \in 1 .. Len(queue) :
                 queue[j] \in Orders /\ orders[queue[j]].mint = orders[o].mint => Fresh(queue[j])
<1>1. /\ queue # <<>> /\ queue[1] = o /\ Len(queue) \in Nat \ {0}
  BY TailInSeq DEF IInv, WellTyped, Record, HasTurn
<1>2. orders[o].position.tokens = open[orders[o].mint].tokens
  BY DEF Record, StillHolds, SameTokens
<1>3. ASSUME NEW j \in 1 .. Len(queue), queue[j] \in Orders, orders[queue[j]].mint = orders[o].mint
      PROVE  Fresh(queue[j])
  <2>1. 1 \in 1 .. j
    BY <1>1
  <2>2. ~Outdated(queue[1], orders[queue[j]].mint)
    BY <1>1, <1>2, <1>3 DEF Outdated
  <2> QED
    BY <1>1, <1>3, <2>1, <2>2 DEF IInv, FreshOrDoomed
<1> QED
  BY <1>1, <1>3

LEMMA FreshStep == IInv /\ [Next]_vars => FreshOrDoomed'
<1> SUFFICES ASSUME IInv, [Next]_vars PROVE FreshOrDoomed'
  OBVIOUS
<1>0. /\ WellTyped /\ AllRead /\ QueueHoldsWaiting /\ FreshOrDoomed /\ Quoted
      /\ queue \in Seq(Orders \cup Confirms) /\ Len(queue) \in Nat
  BY DEF IInv, WellTyped
<1>1. \A i \in 1 .. Len(queue) : queue[i] \in Orders => orders[queue[i]].pc = "queued"
  BY <1>0, ActorsAssumption DEF QueueHoldsWaiting, Waits
<1>2. CASE Stays /\ open' = open
  <2>1. \A i \in 1 .. Len(queue) : queue[i] \in Orders => orders'[queue[i]] = orders[queue[i]]
    BY <1>1, <1>2 DEF Stays
  <2> QED
    BY <1>0, <1>2, <2>1 DEF FreshOrDoomed, Fresh, Outdated, Stays
<1>3. ASSUME NEW e \in Orders \cup Confirms, Joins(e), open' = open,
             e \in Orders => orders'[e].position = open[orders'[e].mint]
      PROVE  FreshOrDoomed'
  <2>1. /\ Len(queue') = Len(queue) + 1 /\ queue'[Len(queue) + 1] = e
        /\ \A i \in 1 .. Len(queue) : queue'[i] = queue[i]
    BY <1>0, <1>3, AppendInSeq DEF Joins
  <2>2. \A i \in 1 .. Len(queue) : queue[i] \in Orders => orders'[queue[i]] = orders[queue[i]]
    BY <1>1, <1>3 DEF Joins
  <2>4. ASSUME NEW j \in 1 .. Len(queue), queue'[j] \in Orders
        PROVE  \/ orders'[queue'[j]].position = open'[orders'[queue'[j]].mint]
               \/ \A i \in 1 .. j : queue'[i] \in Orders =>
                     (orders'[queue'[i]].mint = orders'[queue'[j]].mint =>
                        orders'[queue'[i]].position.tokens # open'[orders'[queue'[j]].mint].tokens)
    <3>1. \A i \in 1 .. j : i \in 1 .. Len(queue)
      BY <1>0
    <3> QED
      BY <1>0, <1>3, <2>1, <2>2, <2>4, <3>1 DEF FreshOrDoomed, Fresh, Outdated
  <2>5. ASSUME e \in Orders
        PROVE  orders'[e].position = open'[orders'[e].mint]
    BY <1>3, <2>5
  <2>6. \A j \in 1 .. Len(queue') : j \in 1 .. Len(queue) \/ queue'[j] = e
    BY <1>0, <2>1
  <2> QED
    BY <2>4, <2>5, <2>6 DEF FreshOrDoomed, Fresh, Outdated
<1>4. ASSUME Leaves PROVE /\ Len(queue') = Len(queue) - 1 /\ Len(queue) > 0
                          /\ \A i \in 1 .. Len(queue') : queue'[i] = queue[i + 1] /\ i + 1 \in 1 .. Len(queue)
                          /\ \A i \in 1 .. Len(queue') : queue'[i] \in Orders =>
                                /\ orders'[queue'[i]] = orders[queue[i + 1]]
                                /\ queue[i + 1] \in Orders
  <2>1. /\ Len(queue') = Len(queue) - 1 /\ Len(queue) > 0 /\ Head(queue) = queue[1]
        /\ \A i \in 1 .. Len(queue') : queue'[i] = queue[i + 1] /\ i + 1 \in 1 .. Len(queue)
    BY <1>0, <1>4, TailInSeq DEF Leaves
  <2>2. \A i \in 1 .. Len(queue') : queue[i + 1] # Head(queue)
    BY <1>0, <2>1 DEF QueueHoldsWaiting
  <2> QED
    BY <1>4, <2>1, <2>2 DEF Leaves
<1>5. CASE Leaves /\ open' = open
  <2> SUFFICES ASSUME NEW j \in 1 .. Len(queue'), queue'[j] \in Orders, ~Fresh(queue[j + 1])
               PROVE  \A i \in 1 .. j : queue'[i] \in Orders =>
                        (orders'[queue'[i]].mint = orders'[queue'[j]].mint =>
                           orders'[queue'[i]].position.tokens # open'[orders'[queue'[j]].mint].tokens)
    BY <1>4, <1>5 DEF FreshOrDoomed, Fresh, Outdated
  <2>1. \A i \in 1 .. j + 1 : queue[i] \in Orders => Outdated(queue[i], orders[queue[j + 1]].mint)
    BY <1>0, <1>4, <1>5 DEF FreshOrDoomed
  <2>2. \A i \in 1 .. j : i \in 1 .. Len(queue') /\ i + 1 \in 1 .. j + 1
    BY <1>0, <1>4, <1>5
  <2> QED
    BY <1>4, <1>5, <2>1, <2>2 DEF Outdated
<1>6. ASSUME NEW o \in Orders, Record(o), Leaves PROVE FreshOrDoomed'
  <2> DEFINE m == orders[o].mint
  <2>1. /\ orders[o].pc = "queued" /\ Payable(o)
        /\ open' = [open EXCEPT ![m] = Applied(o).position]
    BY <1>0, <1>6 DEF Record, Quoted
  <2>2. m \in Mints /\ open' \in [Mints -> Position]
        /\ \A x \in Mints : x # m => open'[x] = open[x]
        /\ open'[m] = Applied(o).position
    BY <1>0, <2>1, OrderFields, AppliedFacts DEF WellTyped
  <2>3. open'[m].tokens # open[m].tokens
    <3>1. /\ orders[o].position.tokens = open[m].tokens /\ orders[o].side \in {"buy", "sell"}
          /\ orders[o].position.tokens \in Nat /\ orders[o].fill.tokens \in Nat
      BY <1>0, <1>6, OrderFields DEF Record, StillHolds, SameTokens
    <3>2. orders[o].fill.tokens > 0
      BY <1>0, <2>1, AppliedFacts
    <3>3. \/ open'[m].tokens = orders[o].position.tokens + orders[o].fill.tokens
          \/ open'[m].tokens = orders[o].position.tokens - orders[o].fill.tokens
      BY <1>0, <2>1, <2>2, <3>1, AppliedFacts
    <3> QED
      BY <3>1, <3>2, <3>3
  <2>4. \A i \in 1 .. Len(queue) : queue[i] \in Orders /\ orders[queue[i]].mint = m =>
            orders[queue[i]].position.tokens # open'[m].tokens
    BY <1>6, <2>3, HeadIsFresh DEF Fresh
  <2>5. \A i \in 1 .. Len(queue) : queue[i] \in Orders => orders[queue[i]].mint \in Mints
    BY <1>0, <1>1, OrderFields
  <2> SUFFICES ASSUME NEW j \in 1 .. Len(queue'), queue'[j] \in Orders,
                      ~(orders'[queue'[j]].position = open'[orders'[queue'[j]].mint])
               PROVE  \A i \in 1 .. j : queue'[i] \in Orders =>
                        (orders'[queue'[i]].mint = orders'[queue'[j]].mint =>
                           orders'[queue'[i]].position.tokens # open'[orders'[queue'[j]].mint].tokens)
    BY DEF FreshOrDoomed, Fresh, Outdated
  <2>6. \A i \in 1 .. j : i \in 1 .. Len(queue') /\ i + 1 \in 1 .. j + 1 /\ i + 1 \in 1 .. Len(queue)
    BY <1>0, <1>4, <1>6
  <2>7. /\ orders'[queue'[j]] = orders[queue[j + 1]] /\ queue[j + 1] \in Orders
        /\ j + 1 \in 1 .. Len(queue)
    BY <1>4, <1>6
  <2>8. CASE orders[queue[j + 1]].mint = m
    BY <1>4, <1>6, <2>4, <2>6, <2>7, <2>8
  <2>9. CASE orders[queue[j + 1]].mint # m
    <3>1. open'[orders[queue[j + 1]].mint] = open[orders[queue[j + 1]].mint]
      BY <2>2, <2>5, <2>7, <2>9
    <3>2. ~Fresh(queue[j + 1])
      BY <2>7, <3>1 DEF Fresh
    <3>3. \A i \in 1 .. j + 1 : queue[i] \in Orders => Outdated(queue[i], orders[queue[j + 1]].mint)
      BY <1>0, <2>7, <3>2 DEF FreshOrDoomed
    <3> QED
      BY <1>4, <1>6, <2>6, <2>7, <3>1, <3>3 DEF Outdated
  <2> QED
    BY <2>8, <2>9
<1>7. ASSUME NEW o \in Orders, Price(o) PROVE open' = open /\ orders'[o].position = open[orders'[o].mint]
  <2>1. orders[o] \in Order
    BY <1>0, <1>7, OrderFields DEF Price
  <2> QED
    BY <1>0, <1>7, <2>1 DEF Price, WellTyped, Order, Becomes, account
<1>8. ASSUME NEW c \in Confirms, Joins(c), open' = open PROVE FreshOrDoomed'
  BY <1>3, <1>8, ActorsAssumption
<1> QED
  BY <1>0, <1>2, <1>3, <1>5, <1>6, <1>7, <1>8, QueueMoves

(***************************************************************************)
(* Theorems                                                                *)
(***************************************************************************)

\* The inductive invariant holds in every reachable state.
THEOREM Invariance == Spec => []IInv
<1>1. IInv /\ [Next]_vars => IInv'
  BY TypedStep, AllReadStep, QuotedStep, QueueStep, FreshStep DEF IInv
<1> QED
  BY TypedInit, <1>1, PTL DEF Spec

\* The rows, the calls in flight and the write queue (client.ts:77-142) keep their
\* shapes; the calls that wait are in the queue once each.
THEOREM TypeCorrect == Spec => []TypeOK
<1>1. IInv => TypeOK
  <2> SUFFICES ASSUME IInv PROVE TypeOK
    OBVIOUS
  <2>0. WellTyped /\ QueueHoldsWaiting /\ queue \in Seq(Orders \cup Confirms)
    BY DEF IInv, WellTyped
  <2>1. market.slot \in 0 .. SlotBound /\ market.venue \in [Mints -> Venues]
    BY <2>0 DEF WellTyped
  <2>2. \A m \in Mints : open[m].tokens \in Nat /\ open[m].cost \in Nat /\ open[m].realized \in Int
    BY <2>0 DEF WellTyped, Position
  <2>3. \A i \in DOMAIN trades : trades[i].mint \in Mints /\ trades[i].hashed \in Readings
    <3>1. trades \in Seq(Row)
      BY <2>0 DEF WellTyped
    <3>2. DOMAIN trades = 1 .. Len(trades)
      BY <3>1
    <3>3. \A i \in 1 .. Len(trades) : trades[i] \in Row
      BY <3>1, ElementOfSeq
    <3>4. \A r \in Row : r.mint \in Mints /\ r.hashed \in Readings
      BY DEF Row
    <3> QED
      BY <3>2, <3>3, <3>4
  <2>4. \A o \in Orders : orders[o].pc \in {"idle", "waiting", "reading", "read", "queued"}
    BY <2>0 DEF WellTyped, Order, Idle
  <2>5. \A c \in Confirms : confirms[c].pc \in {"idle", "queued"}
    BY <2>0 DEF WellTyped, Confirmation, Idle
  <2>6. DOMAIN queue = 1 .. Len(queue)
    BY <2>0
  <2>7. ToSet(queue) = {o \in Orders : orders[o].pc = "queued"}
                         \cup {c \in Confirms : confirms[c].pc = "queued"}
    <3>1. ToSet(queue) = {queue[i] : i \in 1 .. Len(queue)}
      BY <2>6 DEF ToSet
    <3>2. \A a : a \in ToSet(queue) <=> a \in Orders \cup Confirms /\ Waits(a)
      <4>1. \A i \in 1 .. Len(queue) : queue[i] \in Orders \cup Confirms
        BY <2>0, ElementOfSeq
      <4> QED
        BY <2>0, <3>1, <4>1 DEF QueueHoldsWaiting
    <3>3. \A a : a \in Orders \cup Confirms /\ Waits(a) <=>
               a \in {o \in Orders : orders[o].pc = "queued"}
                      \cup {c \in Confirms : confirms[c].pc = "queued"}
      BY DEF Waits
    <3> QED
      BY <3>2, <3>3
  <2>8. IsInjective(queue)
    BY <2>0, <2>6 DEF IsInjective, QueueHoldsWaiting
  <2> QED
    BY <2>0, <2>1, <2>2, <2>3, <2>4, <2>5, <2>7, <2>8 DEF TypeOK, WellTyped
<1> QED
  BY Invariance, <1>1, PTL

\* recordTrade (trading.ts:395-436) never overwrites a balance, a cost basis or a
\* realized profit other than the ones the order was quoted against.
THEOREM WritesWhatItRead == Spec => WrittenAgainstQuoted
<1>1. IInv /\ [Next]_vars =>
        [\A o \in Orders : Record(o) =>
            balance = orders[o].balance /\ open[orders[o].mint] = orders[o].position]_vars
  BY HeadIsFresh DEF Fresh, Record, StillHolds, SameBalance
<1> QED
  BY Invariance, <1>1, PTL DEF Spec, WrittenAgainstQuoted

\* No fill of recordTrade adds to what the account is worth at the reserves it filled
\* at (engine.ts:15-18), whatever overlapped with it.
THEOREM FillsNeverEnrich == Spec => NoFillEnriches
<1>1. ASSUME IInv, NEW o \in Orders, Record(o)
      PROVE  LET m == orders[o].mint
                 pool == orders[o].pool
             IN  Worth(balance', open'[m].tokens, pool) <= Worth(balance, open[m].tokens, pool)
  <2>0. /\ WellTyped /\ AllRead /\ orders[o].pc = "queued" /\ Payable(o) /\ balance = orders[o].balance
        /\ orders[o].position.tokens = open[orders[o].mint].tokens
        /\ balance' = Applied(o).balance /\ orders[o].mint \in Mints
        /\ open' = [open EXCEPT ![orders[o].mint] = Applied(o).position]
    BY <1>1, OrderFields DEF IInv, Quoted, Record, StillHolds, SameBalance, SameTokens
  <2>1. open'[orders[o].mint].tokens = Applied(o).position.tokens
    BY <2>0 DEF WellTyped
  <2>2. /\ orders[o].fill = Quote(o) /\ Quote(o) # NoQuote /\ orders[o].pool \in PoolStates
        /\ orders[o].fill.sol \in Nat /\ orders[o].fill.tokens \in Nat
        /\ orders[o].side \in {"buy", "sell"} /\ open[orders[o].mint].tokens \in Nat /\ balance \in Nat
    BY <2>0, OrderFields, QuoteFacts DEF Payable
  <2> PICK S \in Nat, T \in Nat, sol \in Nat, tokens \in Nat, b \in Nat, h \in Nat :
             /\ S = orders[o].pool.solReserve /\ T = orders[o].pool.tokenReserve
             /\ sol = orders[o].fill.sol /\ tokens = orders[o].fill.tokens
             /\ b = balance /\ h = open[orders[o].mint].tokens
    BY <2>2, PoolFields
  <2>3. CASE orders[o].side = "buy"
    <3>1. tokens * S <= sol * T
      BY <2>0, <2>2, <2>3, QuoteFacts
    <3>2. balance' = b - sol /\ open'[orders[o].mint].tokens = h + tokens
      BY <2>0, <2>1, <2>3, AppliedFacts
    <3>3. (b - sol) * T + (h + tokens) * S <= b * T + h * S
      BY <3>1, Z3
    <3> QED
      BY <3>2, <3>3 DEF Worth
  <2>4. CASE orders[o].side = "sell"
    <3>1. sol * T <= tokens * S
      BY <2>0, <2>2, <2>4, QuoteFacts
    <3>2. balance' = b + sol /\ open'[orders[o].mint].tokens = h - tokens
      BY <2>0, <2>1, <2>4, AppliedFacts
    <3>3. (b + sol) * T + (h - tokens) * S <= b * T + h * S
      BY <3>1, Z3
    <3> QED
      BY <3>2, <3>3 DEF Worth
  <2> QED
    BY <2>2, <2>3, <2>4
<1>2. IInv /\ [Next]_vars =>
        [\A o \in Orders : Record(o) =>
            LET m == orders[o].mint
                pool == orders[o].pool
            IN  Worth(balance', open'[m].tokens, pool) <= Worth(balance, open[m].tokens, pool)]_vars
  BY <1>1
<1> QED
  BY Invariance, <1>2, PTL DEF Spec, NoFillEnriches

\* One purchase, and one sale, is a step of the serial account.
LEMMA BuyIsNext ==
  ASSUME NEW m \in Mints, NEW n \in Sizes, NEW p \in Readings, Account!Buy(m, n, p)
  PROVE  Account!Next
BY DEF Account!Next

LEMMA SellIsNext ==
  ASSUME NEW m \in Mints, NEW n \in Sizes, NEW p \in Readings, Account!Sell(m, n, p)
  PROVE  Account!Next
BY DEF Account!Next

\* The serial account quotes with the same engine.
LEMMA SameEngine ==
  /\ Account!NoQuote = NoQuote
  /\ \A p, n : Account!QuoteBuy(p, n) = QuoteBuy(p, n) /\ Account!QuoteSell(p, n) = QuoteSell(p, n)
BY DEF NoQuote, QuoteBuy, QuoteSell, AfterFee, TokensFor, CostOfAll, GrossSol, Lesser, MulDivFloor,
       MulDivCeil, BpsDenominator, Account!NoQuote, Account!QuoteBuy, Account!QuoteSell,
       Account!AfterFee, Account!TokensFor, Account!CostOfAll, Account!GrossSol, Account!Lesser,
       Account!MulDivFloor, Account!MulDivCeil, Account!BpsDenominator

\* Overlapping orders and purchases (execute-trade.ts:106-377, payments.ts:182-317)
\* are equivalent to the same ones executed one at a time.
THEOREM Serializable == Spec => ImplementsSerialAccount
<1>1. Init => Account!Init
  BY DEF Init, Account!Init, NoPosition
<1>2. IInv /\ [Next]_vars => [Account!Next]_(Account!vars)
  <2> SUFFICES ASSUME IInv, [Next]_vars PROVE [Account!Next]_(Account!vars)
    OBVIOUS
  <2> DEFINE held == [m \in Mints |-> open[m].tokens]
  <2>0. WellTyped /\ AllRead /\ Quoted
    BY DEF IInv
  <2>1. ASSUME NEW o \in Orders, Record(o) PROVE Account!Next
    <3> DEFINE m == orders[o].mint
               fill == orders[o].fill
               pool == orders[o].pool
    <3>1. /\ m \in Mints /\ pool \in Readings /\ Payable(o) /\ orders[o].pc = "queued"
          /\ payments' = payments /\ balance = orders[o].balance
          /\ orders[o].position.tokens = open[m].tokens
          /\ balance' = Applied(o).balance
          /\ open' = [open EXCEPT ![m] = Applied(o).position]
      <4>1. m \in Mints /\ pool \in Readings
        BY <2>0, <2>1, OrderFields DEF Record, AllRead, HasRead
      <4> QED
        BY <2>0, <2>1, <4>1 DEF Record, Quoted, StillHolds, SameBalance, SameTokens
    <3>2. held' = [held EXCEPT ![m] = Applied(o).position.tokens]
      BY <2>0, <3>1 DEF WellTyped
    <3>5. /\ orders[o].side = "buy" => /\ balance' = balance - fill.sol
                                       /\ Applied(o).position.tokens = held[m] + fill.tokens
          /\ orders[o].side = "sell" => /\ balance' = balance + fill.sol
                                        /\ Applied(o).position.tokens = held[m] - fill.tokens
      <4>1. held[m] = orders[o].position.tokens
        BY <3>1
      <4> QED
        BY <2>0, <3>1, <4>1, AppliedFacts
    <3>6. /\ orders[o].size \in Sizes /\ fill = Quote(o) /\ Quote(o) # NoQuote
          /\ orders[o].side \in {"buy", "sell"}
      BY <2>0, <3>1, OrderFields DEF Payable
    <3> PICK mint \in Mints, n \in Sizes, p \in Readings :
               mint = m /\ n = orders[o].size /\ p = pool
      BY <3>1, <3>6
    <3>3. CASE orders[o].side = "buy"
      <4>1. fill = Account!QuoteBuy(p, n) /\ fill # Account!NoQuote /\ n <= balance
        BY <3>1, <3>3, <3>6, SameEngine DEF Payable, Quote
      <4>2. /\ balance' = balance - fill.sol
            /\ held' = [held EXCEPT ![m] = held[m] + fill.tokens]
        BY <3>2, <3>3, <3>5
      <4>3. Account!Buy(mint, n, p)
        BY <3>1, <4>1, <4>2 DEF Account!Buy
      <4> QED
        BY <4>3, BuyIsNext
    <3>4. CASE orders[o].side = "sell"
      <4>1. fill = Account!QuoteSell(p, n) /\ fill # Account!NoQuote /\ n <= held[m]
        BY <3>1, <3>4, <3>6, SameEngine DEF Payable, Quote
      <4>2. /\ balance' = balance + fill.sol
            /\ held' = [held EXCEPT ![m] = held[m] - fill.tokens]
        BY <3>2, <3>4, <3>5
      <4>3. Account!Sell(mint, n, p)
        BY <3>1, <4>1, <4>2 DEF Account!Sell
      <4> QED
        BY <4>3, SellIsNext
    <3> QED
      BY <3>3, <3>4, <3>6
  <2>2. ASSUME NEW c \in Confirms, Settle(c) PROVE Account!Next
    <3>1. confirms[c].signature \in Signatures
      BY <2>0, <2>2 DEF Settle, WellTyped, Confirmation, Idle
    <3>2. Account!TopUp(confirms[c].signature)
      BY <2>2 DEF Settle, Unique, Account!TopUp
    <3> QED
      BY <3>1, <3>2 DEF Account!Next
  <2>3. ASSUME UNCHANGED <<balance, open, payments>> PROVE UNCHANGED Account!vars
    BY <2>3 DEF Account!vars
  <2> QED
    BY <2>1, <2>2, <2>3
       DEF Next, MarketMoves, OpenFails, Click, ReadCurve, ReadPoolAccount, ReadVaults, AnotherFills, Price, Refuse, Raced, Confirm,
           AlreadySettled, account, vars
<1> QED
  BY Invariance, <1>1, <1>2, PTL DEF Spec, ImplementsSerialAccount, Account!Spec

(***************************************************************************)
(* The leaves: what a curve says in a slot, it says once                   *)
(***************************************************************************)

\* What an order has read and what a snapshot keeps was read at some slot.  In a later
\* slot the market may be another, in the same slot a curve is what was read.
InHand == {o \in Orders : orders[o].pc \in {"read", "queued"}}
Seen == snapshots \cup {Snapshot(o) : o \in InHand}
SnapshotRow == [mint : Mints, slot : Nat, source : {"curve", "pool"}, pool : Readings]
SeenTrue(r) == r.slot <= market.slot /\ (r.slot = market.slot => Shows(r.mint, r.source, r.pool))
SeenAlike(r, s) ==
    r.mint = s.mint /\ r.slot = s.slot =>
        r.source = s.source /\ (r.source = "curve" => r.pool = s.pool)
CurvesSeenOnce ==
    /\ snapshots \subseteq SnapshotRow
    /\ \A r \in Seen : SeenTrue(r)
    /\ \A r, s \in Seen : SeenAlike(r, s)
StoredOnce == \A r, s \in snapshots : r.mint = s.mint /\ r.slot = s.slot => r = s
LInv == CurvesSeenOnce /\ StoredOnce /\ CurveLeavesRebuild

LEMMA SeenFacts ==
    ASSUME WellTyped, AllRead, NEW o \in InHand
    PROVE  /\ Snapshot(o) = [mint |-> orders[o].mint, slot |-> orders[o].slot,
                             source |-> orders[o].source, pool |-> orders[o].pool]
           /\ Snapshot(o) \in SnapshotRow
BY OrderFields DEF InHand, Snapshot, SnapshotSlot, SnapshotRow, AllRead, HasRead

\* Two readings of one slot that show the market as it is show one curve.
LEMMA ShownAlike ==
    ASSUME NEW mint, NEW source, NEW pool, NEW other, NEW another,
           Shows(mint, source, pool), Shows(mint, other, another)
    PROVE  source = other /\ (source = "curve" => pool = another)
BY CurveIsNoPool DEF Shows

\* Less in hand, or one more reading of the market as it is, keeps the curves' to one
\* a slot.
LEMMA SeenStep ==
    ASSUME WellTyped, WellTyped', CurvesSeenOnce, market' = market,
           snapshots' \subseteq SnapshotRow,
           \A r \in Seen' : r \in Seen \/ (r.slot = market.slot /\ Shows(r.mint, r.source, r.pool))
    PROVE  CurvesSeenOnce'
<1>1. \A r \in Seen' : SeenTrue(r)
  BY BoundAssumption DEF CurvesSeenOnce, SeenTrue, WellTyped
<1>2. ASSUME NEW r \in Seen', NEW s \in Seen', r.mint = s.mint, r.slot = s.slot
      PROVE  r.source = s.source /\ (r.source = "curve" => r.pool = s.pool)
  <2>1. CASE r \in Seen /\ s \in Seen
    BY <1>2, <2>1 DEF CurvesSeenOnce, SeenAlike
  <2>2. CASE r \notin Seen \/ s \notin Seen
    <3>1. r.slot = market.slot /\ s.slot = market.slot
      BY <1>2, <2>2
    <3>2. Shows(r.mint, r.source, r.pool) /\ Shows(r.mint, s.source, s.pool)
      BY <1>1, <1>2, <3>1 DEF SeenTrue
    <3> QED
      BY <3>2, ShownAlike
  <2> QED
    BY <2>1, <2>2
<1>3. \A r, s \in Seen' : SeenAlike(r, s)
  BY <1>2 DEF SeenAlike
<1>4. \A r \in Seen' : SeenTrue(r)'
  BY <1>1 DEF SeenTrue, Shows
<1> QED
  BY <1>3, <1>4 DEF CurvesSeenOnce, SeenAlike

\* What another account's fill stores is a reading of the market as it is.
LEMMA AnothersRow ==
    ASSUME WellTyped, NEW m \in Mints, AnotherFills(m)
    PROVE  \E row \in SnapshotRow : /\ row.slot = market.slot /\ Shows(row.mint, row.source, row.pool)
                                    /\ snapshots' = Kept(row)
<1>1. market.slot \in Nat
  BY BoundAssumption DEF WellTyped
<1>2. CASE /\ market.venue[m] \in Curves
           /\ snapshots' = Kept([mint |-> m, slot |-> market.slot, source |-> "curve",
                                 pool |-> market.venue[m]])
  <2> DEFINE row == [mint |-> m, slot |-> market.slot, source |-> "curve", pool |-> market.venue[m]]
  <2>1. row \in SnapshotRow
    BY <1>1, <1>2 DEF SnapshotRow, Readings
  <2>2. Shows(m, "curve", market.venue[m])
    BY <1>2 DEF Shows, Readings
  <2> QED
    BY <1>2, <2>1, <2>2
<1>3. CASE /\ market.venue[m] \in Amms
           /\ \E fee \in Fees :
                snapshots' = Kept([mint |-> m, slot |-> market.slot, source |-> "pool",
                                   pool |-> Combined(market.venue[m], market.venue[m].offset, fee)])
  <2>1. PICK fee \in Fees :
           snapshots' = Kept([mint |-> m, slot |-> market.slot, source |-> "pool",
                              pool |-> Combined(market.venue[m], market.venue[m].offset, fee)])
    BY <1>3
  <2> DEFINE pool == Combined(market.venue[m], market.venue[m].offset, fee)
             row == [mint |-> m, slot |-> market.slot, source |-> "pool", pool |-> pool]
  <2>2. pool \in Readings
    BY <1>3 DEF Readings, Offsets
  <2>3. snapshots' = Kept(row)
    BY <2>1
  <2> HIDE DEF pool
  <2>4. row \in SnapshotRow /\ Shows(m, "pool", pool)
    BY <1>1, <1>3, <2>2 DEF SnapshotRow, Shows
  <2> QED
    BY <2>3, <2>4
<1> QED
  BY <1>2, <1>3 DEF AnotherFills

LEMMA CurvesSeenStep == IInv /\ CurvesSeenOnce /\ [Next]_vars => CurvesSeenOnce'
<1> SUFFICES ASSUME IInv, CurvesSeenOnce, [Next]_vars PROVE CurvesSeenOnce'
  OBVIOUS
<1>0. WellTyped /\ AllRead /\ WellTyped' /\ snapshots \subseteq SnapshotRow
  BY TypedStep DEF IInv, CurvesSeenOnce
<1>1. CASE MarketMoves
  <2>1. /\ market'.slot = market.slot + 1
        /\ orders' = orders /\ snapshots' = snapshots
    BY <1>1 DEF MarketMoves, account
  <2>2. Seen' = Seen
    BY <2>1 DEF Seen, InHand, Snapshot, SnapshotSlot
  <2>3. \A r \in Seen : r.slot \in Nat
    BY <1>0, SeenFacts DEF Seen, SnapshotRow
  <2>4. market.slot \in Nat
    BY <1>0, BoundAssumption DEF WellTyped
  <2>5. \A r \in Seen : SeenTrue(r)'
    BY <2>1, <2>3, <2>4 DEF CurvesSeenOnce, SeenTrue
  <2> QED
    BY <1>0, <2>1, <2>2, <2>5 DEF CurvesSeenOnce, SeenAlike
<1>2. ASSUME market' = market, snapshots' = snapshots,
             \A o \in Orders : \/ orders'[o] = orders[o]
                               \/ orders'[o].pc \in {"idle", "waiting", "reading"}
      PROVE  CurvesSeenOnce'
  <2>1. \A r \in Seen' : r \in Seen
    BY <1>2 DEF Seen, InHand, Snapshot, SnapshotSlot
  <2> QED
    BY <1>0, <1>2, <2>1, SeenStep
<1>3. ASSUME NEW o \in Orders, NEW order, orders' = [orders EXCEPT ![o] = order], market' = market,
             snapshots' = snapshots,
             \/ /\ o \in InHand /\ order.mint = orders[o].mint /\ order.slot = orders[o].slot
                /\ order.source = orders[o].source /\ order.pool = orders[o].pool
             \/ order.slot = market.slot /\ Shows(order.mint, order.source, order.pool)
      PROVE  CurvesSeenOnce'
  <2>2. \A x \in Orders : x # o => orders'[x] = orders[x]
    BY <1>0, <1>3 DEF WellTyped
  <2>3. orders'[o] = order
    BY <1>0, <1>3 DEF WellTyped
  <2>4. ASSUME NEW x \in InHand', x # o PROVE Snapshot(x)' \in Seen
    BY <2>2, <2>4 DEF Seen, InHand, Snapshot, SnapshotSlot
  <2>5. Snapshot(o)' = [mint |-> order.mint, slot |-> order.slot,
                        source |-> order.source, pool |-> order.pool]
    BY <2>3 DEF Snapshot, SnapshotSlot
  <2>6. Snapshot(o)' \in Seen
           \/ ((Snapshot(o)').slot = market.slot
               /\ Shows((Snapshot(o)').mint, (Snapshot(o)').source, (Snapshot(o)').pool))
    BY <1>3, <2>5 DEF Seen, Snapshot, SnapshotSlot
  <2>7. \A r \in Seen' : r \in Seen \/ (r.slot = market.slot /\ Shows(r.mint, r.source, r.pool))
    BY <1>3, <2>4, <2>6 DEF Seen
  <2> QED
    BY <1>0, <1>3, <2>7, SeenStep
<1>4. ASSUME NEW o \in Orders, ReadCurve(o) \/ ReadPoolAccount(o) \/ ReadVaults(o)
      PROVE  CurvesSeenOnce'
  <2>1. PICK order \in Order :
              /\ orders' = [orders EXCEPT ![o] = order]
              /\ \/ order.pc = "reading" /\ market.venue[order.mint] \in Amms
                 \/ /\ order.pc = "read" /\ order.slot = market.slot
                    /\ Shows(order.mint, order.source, order.pool)
    BY <1>0, <1>4, ReadingStep
  <2>2. market' = market /\ snapshots' = snapshots
    BY <1>4 DEF ReadCurve, ReadPoolAccount, ReadVaults, account
  <2>3. CASE order.pc = "reading"
    <3>1. \A x \in Orders : orders'[x] = orders[x] \/ orders'[x].pc = "reading"
      BY <1>0, <2>1, <2>3 DEF WellTyped
    <3> QED
      BY <1>2, <2>2, <3>1
  <2>4. CASE order.pc = "read"
    <3>1. order.slot = market.slot /\ Shows(order.mint, order.source, order.pool)
      BY <2>1, <2>4
    <3> QED
      BY <1>3, <2>1, <2>2, <3>1
  <2> QED
    BY <2>1, <2>3, <2>4
<1>5. ASSUME NEW o \in Orders, NEW m \in Mints, NEW side \in {"buy", "sell"}, NEW size \in Sizes,
             Click(o, m, side, size)
      PROVE  CurvesSeenOnce'
  BY <1>0, <1>2, <1>5 DEF Click, Becomes, WellTyped, account
<1>6. ASSUME NEW o \in Orders, Price(o) PROVE CurvesSeenOnce'
  <2> DEFINE order == [orders[o] EXCEPT !.pc = "queued", !.fill = Quote(o),
                                        !.position = open[orders[o].mint]]
  <2>1. orders[o] \in Order /\ o \in InHand
    BY <1>0, <1>6, OrderFields DEF Price, InHand
  <2>2. /\ order.mint = orders[o].mint /\ order.slot = orders[o].slot
        /\ order.source = orders[o].source /\ order.pool = orders[o].pool
    BY <2>1 DEF Order
  <2>3. orders' = [orders EXCEPT ![o] = order] /\ market' = market /\ snapshots' = snapshots
    BY <1>6 DEF Price, Becomes, account
  <2> HIDE DEF order
  <2> QED
    BY <1>3, <2>1, <2>2, <2>3
<1>7. ASSUME NEW o \in Orders, Record(o) PROVE CurvesSeenOnce'
  <2>1. o \in InHand
    BY <1>7 DEF Record, InHand
  <2>2. /\ market' = market /\ snapshots' \subseteq snapshots \cup {Snapshot(o)}
        /\ \A x \in Orders : orders'[x] = orders[x] \/ orders'[x] = Idle
    BY <1>0, <1>7 DEF Record, Kept, Becomes, WellTyped
  <2>3. Snapshot(o) \in Seen
    BY <2>1 DEF Seen
  <2>4. \A r \in Seen' : r \in Seen
    <3>1. ASSUME NEW x \in InHand' PROVE Snapshot(x)' \in Seen
      BY <2>2, <3>1 DEF Seen, InHand, Snapshot, SnapshotSlot, Idle
    <3>2. \A r \in snapshots' : r \in Seen
      BY <2>2, <2>3 DEF Seen
    <3> QED
      BY <3>1, <3>2 DEF Seen
  <2>5. snapshots' \subseteq SnapshotRow
    BY <1>0, <2>1, <2>2, SeenFacts
  <2> QED
    BY <1>0, <2>2, <2>4, <2>5, SeenStep
<1>8. ASSUME NEW m \in Mints, AnotherFills(m) PROVE CurvesSeenOnce'
  <2>1. PICK row \in SnapshotRow :
              /\ row.slot = market.slot /\ Shows(row.mint, row.source, row.pool)
              /\ snapshots' = Kept(row)
    BY <1>0, <1>8, AnothersRow
  <2>2. market' = market /\ orders' = orders
    BY <1>8 DEF AnotherFills
  <2>3. snapshots' \subseteq snapshots \cup {row}
    BY <2>1 DEF Kept
  <2>4. \A r \in Seen' : r \in Seen \/ r = row
    BY <2>2, <2>3 DEF Seen, InHand, Snapshot, SnapshotSlot
  <2>5. snapshots' \subseteq SnapshotRow
    BY <1>0, <2>1, <2>3
  <2> QED
    BY <1>0, <2>1, <2>2, <2>4, <2>5, SeenStep
<1>9. ASSUME NEW o \in Orders, Refuse(o) \/ Raced(o) PROVE CurvesSeenOnce'
  BY <1>0, <1>2, <1>9 DEF Refuse, Raced, Becomes, WellTyped, account, Idle
<1>10. CASE OpenFails
  BY <1>0, <1>2, <1>10 DEF OpenFails, WellTyped, account, Idle
<1>11. ASSUME NEW c \in Confirms, \/ Settle(c) \/ AlreadySettled(c) \/ \E s \in Signatures : Confirm(c, s)
       PROVE  CurvesSeenOnce'
  BY <1>0, <1>2, <1>11 DEF Settle, AlreadySettled, Confirm, account
<1>12. CASE UNCHANGED vars
  BY <1>2, <1>12 DEF vars, account
<1> QED
  BY <1>1, <1>4, <1>5, <1>6, <1>7, <1>8, <1>9, <1>10, <1>11, <1>12 DEF Next

\* A row is stored for a mint and a slot that had none, so that a row that was the one
\* stored there stays it.
StoredIn(rows, mint, slot) == {s \in rows : s.mint = mint /\ s.slot = slot}

LEMMA StoredNow == \A mint, slot : Stored(mint, slot) = StoredIn(snapshots, mint, slot)
BY DEF Stored, StoredIn

LEMMA KeptOnce ==
    ASSUME StoredOnce, NEW row \in SnapshotRow, snapshots' = Kept(row)
    PROVE  /\ StoredOnce'
           /\ \A mint, slot, s : StoredIn(snapshots, mint, slot) = {s} =>
                  StoredIn(snapshots', mint, slot) = {s} /\ s \in snapshots'
           /\ \E s \in snapshots' : /\ StoredIn(snapshots', row.mint, row.slot) = {s}
                                    /\ s = row \/ s \in snapshots
<1>1. CASE StoredIn(snapshots, row.mint, row.slot) = {}
  <2>1. snapshots' = snapshots \cup {row}
    BY <1>1, StoredNow DEF Kept
  <2>2. \A s \in snapshots : ~(s.mint = row.mint /\ s.slot = row.slot)
    BY <1>1 DEF StoredIn
  <2>3. StoredIn(snapshots', row.mint, row.slot) = {row}
    BY <2>1, <2>2 DEF StoredIn
  <2>4. StoredOnce'
    BY <2>1, <2>2 DEF StoredOnce
  <2>5. ASSUME NEW mint, NEW slot, NEW s, StoredIn(snapshots, mint, slot) = {s}
        PROVE  StoredIn(snapshots', mint, slot) = {s} /\ s \in snapshots'
    <3>1. s \in snapshots /\ s.mint = mint /\ s.slot = slot
      BY <2>5 DEF StoredIn
    <3>2. ~(row.mint = mint /\ row.slot = slot)
      BY <2>2, <3>1
    <3> QED
      BY <2>1, <2>5, <3>1, <3>2 DEF StoredIn
  <2> QED
    BY <2>1, <2>3, <2>4, <2>5
<1>2. CASE StoredIn(snapshots, row.mint, row.slot) # {}
  <2>1. snapshots' = snapshots
    BY <1>2, StoredNow DEF Kept
  <2>2. PICK s \in snapshots : s.mint = row.mint /\ s.slot = row.slot
    BY <1>2 DEF StoredIn
  <2>3. StoredIn(snapshots', row.mint, row.slot) = {s}
    BY <2>1, <2>2 DEF StoredIn, StoredOnce
  <2>4. \A mint, slot, r : StoredIn(snapshots, mint, slot) = {r} => r \in snapshots
    BY DEF StoredIn
  <2> QED
    BY <2>1, <2>2, <2>3, <2>4 DEF StoredOnce
<1> QED
  BY <1>1, <1>2

\* What CurveLeavesRebuild says of one row.
Rebuilds(rows, trade) ==
    \E s \in rows : /\ StoredIn(rows, trade.mint, trade.slot) = {s}
                    /\ trade.source = "curve" => s.source = "curve" /\ s.pool = trade.hashed

LEMMA RebuildsNow == CurveLeavesRebuild <=> \A i \in DOMAIN trades : Rebuilds(snapshots, trades[i])
BY DEF CurveLeavesRebuild, Rebuilds, Stored, StoredIn

LEMMA RebuildsNext ==
    CurveLeavesRebuild' <=> \A i \in DOMAIN trades' : Rebuilds(snapshots', trades'[i])
BY DEF CurveLeavesRebuild, Rebuilds, Stored, StoredIn

LEMMA LeavesStep == IInv /\ LInv /\ [Next]_vars => StoredOnce' /\ CurveLeavesRebuild'
<1> SUFFICES ASSUME IInv, LInv, [Next]_vars PROVE StoredOnce' /\ CurveLeavesRebuild'
  OBVIOUS
<1>0. WellTyped /\ AllRead /\ trades \in Seq(Row) /\ StoredOnce /\ CurvesSeenOnce
  BY DEF IInv, WellTyped, LInv
<1>1. ASSUME NEW o \in Orders, Record(o) PROVE StoredOnce' /\ CurveLeavesRebuild'
  <2> DEFINE row == Snapshot(o)
  <2>1. /\ o \in InHand /\ row \in SnapshotRow /\ row \in Seen
        /\ row = [mint |-> orders[o].mint, slot |-> orders[o].slot,
                  source |-> orders[o].source, pool |-> orders[o].pool]
    BY <1>0, <1>1, SeenFacts DEF Record, InHand, Seen
  <2>2. snapshots' = Kept(row)
    BY <1>1 DEF Record
  <2>3. /\ Trade(o).mint = row.mint /\ Trade(o).slot = row.slot
        /\ Trade(o).source = row.source /\ Trade(o).hashed = row.pool /\ Trade(o) \in Row
    <3>1. orders[o].source \in {"curve", "pool"} /\ orders[o].pool \in Readings
      BY <1>0, <2>1 DEF InHand, AllRead, HasRead
    <3> QED
      BY <1>0, <1>1, <2>1, <3>1, OrderFields DEF Trade, Row, SnapshotSlot, Record
  <2> HIDE DEF row
  <2>4. /\ Len(trades) \in Nat
        /\ DOMAIN trades' = 1 .. Len(trades) + 1 /\ DOMAIN trades = 1 .. Len(trades)
        /\ \A i \in 1 .. Len(trades) : trades'[i] = trades[i]
        /\ trades'[Len(trades) + 1] = Trade(o)
    <3>1. trades' = Append(trades, Trade(o))
      BY <1>1 DEF Record
    <3>2. trades' \in Seq(Row)
      BY <1>0, <2>3, <3>1, AppendInSeq
    <3> QED
      BY <1>0, <2>3, <3>1, <3>2, AppendInSeq
  <2>5. \A mint, slot, s : StoredIn(snapshots, mint, slot) = {s} =>
            StoredIn(snapshots', mint, slot) = {s} /\ s \in snapshots'
    BY <1>0, <2>1, <2>2, KeptOnce
  <2>6. ASSUME NEW i \in 1 .. Len(trades) + 1
        PROVE  Rebuilds(snapshots', trades'[i])
    <3>1. CASE i = Len(trades) + 1
      <4>1. PICK s \in snapshots' : /\ StoredIn(snapshots', row.mint, row.slot) = {s}
                                    /\ s = row \/ s \in snapshots
        BY <1>0, <2>1, <2>2, KeptOnce
      <4>2. s \in Seen /\ s.mint = row.mint /\ s.slot = row.slot
        <5>1. s \in StoredIn(snapshots', row.mint, row.slot)
          BY <4>1
        <5>2. s.mint = row.mint /\ s.slot = row.slot
          BY <5>1 DEF StoredIn
        <5> QED
          BY <2>1, <4>1, <5>2 DEF Seen
      <4>3. row.source = "curve" => s.source = "curve" /\ s.pool = row.pool
        BY <1>0, <2>1, <4>2 DEF CurvesSeenOnce, SeenAlike
      <4>4. trades'[i] = Trade(o)
        BY <2>4, <3>1
      <4> QED
        <5>1. StoredIn(snapshots', Trade(o).mint, Trade(o).slot) = {s}
          BY <2>3, <4>1
        <5>2. Rebuilds(snapshots', Trade(o))
          BY <2>3, <4>3, <5>1 DEF Rebuilds
        <5> QED
          BY <4>4, <5>2
    <3>2. CASE i # Len(trades) + 1
      <4>1. i \in DOMAIN trades /\ trades'[i] = trades[i]
        BY <2>4, <3>2
      <4>2. PICK s \in snapshots :
                  /\ StoredIn(snapshots, trades[i].mint, trades[i].slot) = {s}
                  /\ trades[i].source = "curve" => s.source = "curve" /\ s.pool = trades[i].hashed
        BY <4>1, RebuildsNow DEF LInv, Rebuilds
      <4>3. StoredIn(snapshots', trades[i].mint, trades[i].slot) = {s} /\ s \in snapshots'
        BY <2>5, <4>2
      <4>4. Rebuilds(snapshots', trades[i])
        BY <4>2, <4>3 DEF Rebuilds
      <4> QED
        BY <4>1, <4>4
    <3> QED
      BY <3>1, <3>2
  <2>7. StoredOnce'
    BY <1>0, <2>1, <2>2, KeptOnce
  <2> QED
    BY <2>4, <2>6, <2>7, RebuildsNext
<1>2. ASSUME NEW m \in Mints, AnotherFills(m) PROVE StoredOnce' /\ CurveLeavesRebuild'
  <2>1. PICK row \in SnapshotRow :
              /\ row.slot = market.slot /\ Shows(row.mint, row.source, row.pool)
              /\ snapshots' = Kept(row)
    BY <1>0, <1>2, AnothersRow
  <2>2. trades' = trades
    BY <1>2 DEF AnotherFills
  <2>3. StoredOnce'
    BY <1>0, <2>1, KeptOnce
  <2>4. \A mint, slot, s : StoredIn(snapshots, mint, slot) = {s} =>
            StoredIn(snapshots', mint, slot) = {s} /\ s \in snapshots'
    BY <1>0, <2>1, KeptOnce
  <2>5. ASSUME NEW i \in DOMAIN trades
        PROVE  Rebuilds(snapshots', trades[i])
    <3>1. PICK s \in snapshots :
                  /\ StoredIn(snapshots, trades[i].mint, trades[i].slot) = {s}
                  /\ trades[i].source = "curve" => s.source = "curve" /\ s.pool = trades[i].hashed
      BY RebuildsNow DEF LInv, Rebuilds
    <3>2. StoredIn(snapshots', trades[i].mint, trades[i].slot) = {s} /\ s \in snapshots'
      BY <2>4, <3>1
    <3> QED
      BY <3>1, <3>2 DEF Rebuilds
  <2> QED
    BY <2>2, <2>3, <2>5, RebuildsNext
<1>3. CASE UNCHANGED <<trades, snapshots>>
  BY <1>3 DEF LInv, CurveLeavesRebuild, StoredOnce, Stored
<1>4. \/ \E o \in Orders : Record(o)
      \/ \E m \in Mints : AnotherFills(m)
      \/ UNCHANGED <<trades, snapshots>>
  BY DEF Next, MarketMoves, OpenFails, Click, ReadCurve, ReadPoolAccount, ReadVaults, Price, Refuse,
         Raced, Confirm, Settle, AlreadySettled, vars, account
<1> QED
  BY <1>1, <1>2, <1>3, <1>4

\* Every trade has one snapshot of its slot, and the leaf hash of every trade on a curve
\* (leaves.ts:144-159) can be rebuilt from it, whichever fill of whichever account stored
\* it (trading.ts:327-351).
THEOREM CurvesRebuild == Spec => []CurveLeavesRebuild
<1>1. Init => LInv
  <2> SUFFICES ASSUME Init PROVE LInv
    OBVIOUS
  <2>1. Seen = {} /\ snapshots = {} /\ DOMAIN trades = {}
    BY DEF Init, Seen, InHand, Idle
  <2> QED
    BY <2>1 DEF LInv, CurvesSeenOnce, StoredOnce, CurveLeavesRebuild
<1>2. IInv /\ LInv /\ [Next]_vars => LInv'
  BY CurvesSeenStep, LeavesStep DEF LInv
<1>3. LInv => CurveLeavesRebuild
  BY DEF LInv
<1> QED
  BY Invariance, <1>1, <1>2, <1>3, PTL DEF Spec

(***************************************************************************)
(* The sums of the rows                                                    *)
(***************************************************************************)

\* The sums over the columns of trades are totals.
SolColumn(t) == [i \in DOMAIN t |-> t[i].fill.sol]
TokensColumn(t) == [i \in DOMAIN t |-> t[i].fill.tokens]
SolOf(t, S) == MapThenSumSet(LAMBDA i : t[i].fill.sol, S)
TokensOf(t, S) == MapThenSumSet(LAMBDA i : t[i].fill.tokens, S)

LEMMA SolTotals ==
    ASSUME NEW t, NEW S \in SUBSET DOMAIN t, IsFiniteSet(S), \A i \in S : t[i].fill.sol \in Int
    PROVE  SolOf(t, S) = Total(SolColumn(t), S)
<1> DEFINE w == SolColumn(t)
           Adds(f) == f = [s \in SUBSET S |-> IF s = {} THEN 0
                                              ELSE t[Member(s)].fill.sol + f[s \ {Member(s)}]]
           g == CHOOSE f : Adds(f)
<1>1. SolOf(t, S) = g[S]
  BY DEF SolOf, MapThenSumSet, MapThenFoldSet, Member
<1>2. \A i \in S : w[i] = t[i].fill.sol /\ w[i] \in Int
  BY DEF SolColumn
<1> HIDE DEF w
<1>3. \A s \in SUBSET S : s # {} => w[Member(s)] = t[Member(s)].fill.sol
  BY <1>2 DEF Member
<1>4. \A f : Adds(f) <=> Sums(w, S, f)
  BY <1>3 DEF Sums
<1> HIDE DEF Adds
<1> PICK f \in [SUBSET S -> Int] : Sums(w, S, f) /\ Total(w, S) = f[S]
  BY <1>2, TotalIs
<1>5. Sums(w, S, g)
  BY <1>4
<1>6. f[S] = g[S]
  BY <1>5, SumsAgree
<1> QED
  BY <1>1, <1>6 DEF w

LEMMA TokensTotals ==
    ASSUME NEW t, NEW S \in SUBSET DOMAIN t, IsFiniteSet(S), \A i \in S : t[i].fill.tokens \in Int
    PROVE  TokensOf(t, S) = Total(TokensColumn(t), S)
<1> DEFINE w == TokensColumn(t)
           Adds(f) == f = [s \in SUBSET S |-> IF s = {} THEN 0
                                              ELSE t[Member(s)].fill.tokens + f[s \ {Member(s)}]]
           g == CHOOSE f : Adds(f)
<1>1. TokensOf(t, S) = g[S]
  BY DEF TokensOf, MapThenSumSet, MapThenFoldSet, Member
<1>2. \A i \in S : w[i] = t[i].fill.tokens /\ w[i] \in Int
  BY DEF TokensColumn
<1> HIDE DEF w
<1>3. \A s \in SUBSET S : s # {} => w[Member(s)] = t[Member(s)].fill.tokens
  BY <1>2 DEF Member
<1>4. \A f : Adds(f) <=> Sums(w, S, f)
  BY <1>3 DEF Sums
<1> HIDE DEF Adds
<1> PICK f \in [SUBSET S -> Int] : Sums(w, S, f) /\ Total(w, S) = f[S]
  BY <1>2, TotalIs
<1>5. Sums(w, S, g)
  BY <1>4
<1>6. f[S] = g[S]
  BY <1>5, SumsAgree
<1> QED
  BY <1>1, <1>6 DEF w

\* The rows of trades on one side, and of one mint.
RowsOf(t, side) == {i \in DOMAIN t : t[i].side = side}
RowsIn(t, side, m) == {i \in RowsOf(t, side) : t[i].mint = m}

LEMMA RowSums ==
    ASSUME NEW t \in Seq(Row), NEW side
    PROVE  SolOf(t, RowsOf(t, side)) \in Int
<1> DEFINE S == RowsOf(t, side)
           w == SolColumn(t)
<1>1. DOMAIN t = 1 .. Len(t) /\ Len(t) \in Nat /\ S \in SUBSET DOMAIN t
  BY DEF RowsOf
<1>2. IsFiniteSet(S)
  <2>1. IsFiniteSet(1 .. Len(t))
    BY <1>1, FS_Interval
  <2> QED
    BY <1>1, <2>1, FS_Subset
<1>3. \A i \in S : t[i].fill.sol \in Int /\ w[i] = t[i].fill.sol
  <2>1. \A i \in S : t[i] \in Row
    BY <1>1, ElementOfSeq
  <2> QED
    BY <1>1, <2>1 DEF Row, Fill, SolColumn
<1>4. SolOf(t, S) = Total(w, S)
  BY <1>1, <1>2, <1>3, SolTotals
<1> HIDE DEF S, w
<1>5. \A i \in S : w[i] \in Int
  BY <1>3
<1> PICK f \in [SUBSET S -> Int] : Sums(w, S, f) /\ Total(w, S) = f[S]
  BY <1>2, <1>5, TotalIs
<1>6. SolOf(t, S) \in Int
  BY <1>4
<1> QED
  BY <1>6 DEF S

\* One more row adds its amounts to the sums it belongs to.
LEMMA OneMoreRow ==
    ASSUME NEW t \in Seq(Row), NEW row \in Row, NEW side \in {"buy", "sell"}, NEW m \in Mints
    PROVE  /\ SolOf(t, RowsOf(t, side)) \in Int
           /\ SolOf(Append(t, row), RowsOf(Append(t, row), side))
                 = SolOf(t, RowsOf(t, side)) + IF row.side = side THEN row.fill.sol ELSE 0
           /\ TokensOf(t, RowsIn(t, side, m)) \in Int
           /\ TokensOf(Append(t, row), RowsIn(Append(t, row), side, m))
                 = TokensOf(t, RowsIn(t, side, m))
                     + IF row.side = side /\ row.mint = m THEN row.fill.tokens ELSE 0
<1> DEFINE n == Len(t)
           u == Append(t, row)
<1>1. /\ n \in Nat /\ DOMAIN t = 1 .. n /\ DOMAIN u = 1 .. n + 1
      /\ \A i \in 1 .. n : u[i] = t[i] /\ t[i] \in Row
      /\ u[n + 1] = row
  <2>1. u \in Seq(Row) /\ Len(u) = n + 1 /\ n \in Nat
    BY AppendInSeq
  <2>2. DOMAIN t = 1 .. n /\ DOMAIN u = 1 .. n + 1
    BY <2>1
  <2> QED
    BY <2>1, <2>2, AppendInSeq, ElementOfSeq
<1> HIDE DEF n, u
<1>2. \A r \in Row : r.fill.sol \in Int /\ r.fill.tokens \in Int
  BY DEF Row, Fill
<1>3. /\ \A i \in 1 .. n + 1 : u[i] \in Row
      /\ IsFiniteSet(1 .. n) /\ IsFiniteSet(1 .. n + 1)
  <2>1. \A i \in 1 .. n + 1 : i \in 1 .. n \/ i = n + 1
    BY <1>1
  <2>2. \A i \in 1 .. n + 1 : u[i] \in Row
    BY <1>1, <2>1
  <2>3. 1 \in Int /\ n \in Int /\ n + 1 \in Int
    BY <1>1
  <2> QED
    BY <2>2, <2>3, FS_Interval
<1>4. /\ SolOf(t, RowsOf(t, side)) \in Int
      /\ SolOf(u, RowsOf(u, side))
            = SolOf(t, RowsOf(t, side)) + IF row.side = side THEN row.fill.sol ELSE 0
  <2> DEFINE S == RowsOf(t, side)
             R == RowsOf(u, side)
             w == SolColumn(t)
             v == SolColumn(u)
  <2>1. /\ S \in SUBSET (1 .. n) /\ R \in SUBSET (1 .. n + 1)
        /\ R = IF row.side = side THEN S \cup {n + 1} ELSE S
        /\ n + 1 \in R <=> row.side = side
    BY <1>1 DEF RowsOf
  <2>2. IsFiniteSet(S) /\ IsFiniteSet(R)
    BY <1>3, <2>1, FS_Subset
  <2>3. /\ \A i \in 1 .. n : w[i] = t[i].fill.sol /\ w[i] \in Int /\ v[i] = w[i]
        /\ v[n + 1] = row.fill.sol /\ v[n + 1] \in Int
    BY <1>1, <1>2 DEF SolColumn
  <2>4. SolOf(t, S) = Total(w, S)
    BY <1>1, <1>2, <2>1, <2>2, SolTotals
  <2>5. SolOf(u, R) = Total(v, R)
    BY <1>1, <1>2, <1>3, <2>1, <2>2, SolTotals
  <2> HIDE DEF S, R, w, v
  <2>6. /\ Total(w, S) \in Int /\ Total(v, S) = Total(w, S)
        /\ Total(v, S \cup {n + 1}) = Total(w, S) + v[n + 1]
    <3>1. AllInts(w, S) /\ Alike(w, v, S) /\ v[n + 1] \in Int
      BY <2>1, <2>3 DEF AllInts, Alike
    <3>2. n + 1 \notin S
      BY <1>1, <2>1
    <3> PICK next : next = n + 1
      OBVIOUS
    <3>3. IsFiniteSet(S) /\ next \notin S /\ v[next] \in Int
      BY <2>2, <3>1, <3>2
    <3>4. SumsWith(w, S, v, next)
      BY <3>1, <3>3, TotalOfNext
    <3> QED
      BY <3>4 DEF SumsWith, With
  <2>7. /\ SolOf(t, S) \in Int
        /\ SolOf(u, R) = SolOf(t, S) + IF row.side = side THEN row.fill.sol ELSE 0
    BY <2>1, <2>3, <2>4, <2>5, <2>6
  <2> QED
    BY <2>7 DEF S, R
<1>5. /\ TokensOf(t, RowsIn(t, side, m)) \in Int
      /\ TokensOf(u, RowsIn(u, side, m))
            = TokensOf(t, RowsIn(t, side, m))
                + IF row.side = side /\ row.mint = m THEN row.fill.tokens ELSE 0
  <2> DEFINE S == RowsIn(t, side, m)
             R == RowsIn(u, side, m)
             w == TokensColumn(t)
             v == TokensColumn(u)
  <2>1. /\ S \in SUBSET (1 .. n) /\ R \in SUBSET (1 .. n + 1)
        /\ R = IF row.side = side /\ row.mint = m THEN S \cup {n + 1} ELSE S
        /\ n + 1 \in R <=> row.side = side /\ row.mint = m
    BY <1>1 DEF RowsOf, RowsIn
  <2>2. IsFiniteSet(S) /\ IsFiniteSet(R)
    BY <1>3, <2>1, FS_Subset
  <2>3. /\ \A i \in 1 .. n : w[i] = t[i].fill.tokens /\ w[i] \in Int /\ v[i] = w[i]
        /\ v[n + 1] = row.fill.tokens /\ v[n + 1] \in Int
    BY <1>1, <1>2 DEF TokensColumn
  <2>4. TokensOf(t, S) = Total(w, S)
    BY <1>1, <1>2, <2>1, <2>2, TokensTotals
  <2>5. TokensOf(u, R) = Total(v, R)
    BY <1>1, <1>2, <1>3, <2>1, <2>2, TokensTotals
  <2> HIDE DEF S, R, w, v
  <2>6. /\ Total(w, S) \in Int /\ Total(v, S) = Total(w, S)
        /\ Total(v, S \cup {n + 1}) = Total(w, S) + v[n + 1]
    <3>1. AllInts(w, S) /\ Alike(w, v, S) /\ v[n + 1] \in Int
      BY <2>1, <2>3 DEF AllInts, Alike
    <3>2. n + 1 \notin S
      BY <1>1, <2>1
    <3> PICK next : next = n + 1
      OBVIOUS
    <3>3. IsFiniteSet(S) /\ next \notin S /\ v[next] \in Int
      BY <2>2, <3>1, <3>2
    <3>4. SumsWith(w, S, v, next)
      BY <3>1, <3>3, TotalOfNext
    <3> QED
      BY <3>4 DEF SumsWith, With
  <2>7. /\ TokensOf(t, S) \in Int
        /\ TokensOf(u, R) = TokensOf(t, S) + IF row.side = side /\ row.mint = m THEN row.fill.tokens ELSE 0
    BY <2>1, <2>3, <2>4, <2>5, <2>6
  <2> QED
    BY <2>7 DEF S, R
<1> QED
  BY <1>4, <1>5 DEF u

\* What the rows explain, in terms of the tables.
Explains(b, held, t, paid) ==
    /\ b = StartingBalance + Credit * Cardinality(paid)
             + SolOf(t, RowsOf(t, "sell")) - SolOf(t, RowsOf(t, "buy"))
    /\ \A m \in Mints :
          held[m].tokens = TokensOf(t, RowsIn(t, "buy", m)) - TokensOf(t, RowsIn(t, "sell", m))
EInv == Explains(balance, open, trades, payments) /\ IsFiniteSet(payments)

LEMMA ExplainsNow == TradesExplainAccount <=> Explains(balance, open, trades, payments)
BY DEF TradesExplainAccount, Explains, SolOf, TokensOf, RowsOf, RowsIn, Of, Sol, Tokens,
       MapThenSumSet, MapThenFoldSet

LEMMA ExplainsStep == IInv /\ EInv /\ [Next]_vars => EInv'
<1> SUFFICES ASSUME IInv, EInv, [Next]_vars PROVE EInv'
  OBVIOUS
<1>0. WellTyped /\ AllRead /\ Quoted /\ trades \in Seq(Row) /\ Cardinality(payments) \in Nat
  BY FS_CardinalityType DEF IInv, WellTyped, EInv
<1> DEFINE sold == SolOf(trades, RowsOf(trades, "sell"))
           spent == SolOf(trades, RowsOf(trades, "buy"))
           got(m) == TokensOf(trades, RowsIn(trades, "buy", m))
           gave(m) == TokensOf(trades, RowsIn(trades, "sell", m))
<1>1. ASSUME NEW o \in Orders, Record(o) PROVE EInv'
  <2>1. /\ Trade(o) \in Row /\ Trade(o).side = orders[o].side /\ Trade(o).mint = orders[o].mint
        /\ Trade(o).fill = orders[o].fill /\ orders[o].mint \in Mints
        /\ orders[o].side \in {"buy", "sell"}
        /\ orders[o].fill.sol \in Nat /\ orders[o].fill.tokens \in Nat
    <3>1. orders[o].source \in {"curve", "pool"} /\ orders[o].pool \in Readings
      BY <1>0, <1>1 DEF AllRead, HasRead, Record
    <3> QED
      BY <1>0, <1>1, <3>1, OrderFields DEF Trade, Row, SnapshotSlot, Record
  <2>2. /\ balance' = Applied(o).balance /\ balance = orders[o].balance
        /\ open' = [open EXCEPT ![orders[o].mint] = Applied(o).position]
        /\ open[orders[o].mint].tokens = orders[o].position.tokens
        /\ trades' = Append(trades, Trade(o)) /\ payments' = payments
        /\ orders[o].pc = "queued" /\ Payable(o)
    BY <1>0, <1>1 DEF Record, StillHolds, SameBalance, SameTokens, Quoted
  <2>3. /\ orders[o].side = "buy" =>
             /\ balance' = balance - orders[o].fill.sol
             /\ Applied(o).position.tokens = open[orders[o].mint].tokens + orders[o].fill.tokens
        /\ orders[o].side = "sell" =>
             /\ balance' = balance + orders[o].fill.sol
             /\ Applied(o).position.tokens = open[orders[o].mint].tokens - orders[o].fill.tokens
    BY <1>0, <2>2, AppliedFacts
  <2>4. /\ sold \in Int /\ spent \in Int
        /\ sold' = sold + IF orders[o].side = "sell" THEN orders[o].fill.sol ELSE 0
        /\ spent' = spent + IF orders[o].side = "buy" THEN orders[o].fill.sol ELSE 0
    <3>1. \A side \in {"buy", "sell"} :
                    /\ SolOf(trades, RowsOf(trades, side)) \in Int
                    /\ SolOf(trades', RowsOf(trades', side))
                          = SolOf(trades, RowsOf(trades, side))
                              + IF Trade(o).side = side THEN Trade(o).fill.sol ELSE 0
      BY <1>0, <2>1, <2>2, OneMoreRow
    <3>2. SolOf(trades, RowsOf(trades, "sell"))' = SolOf(trades', RowsOf(trades', "sell"))
          /\ SolOf(trades, RowsOf(trades, "buy"))' = SolOf(trades', RowsOf(trades', "buy"))
      BY DEF SolOf, RowsOf, MapThenSumSet, MapThenFoldSet
    <3> QED
      BY <2>1, <3>1, <3>2
  <2>5. ASSUME NEW m \in Mints
        PROVE  /\ got(m) \in Int /\ gave(m) \in Int
               /\ got(m)' = got(m) + IF orders[o].side = "buy" /\ orders[o].mint = m
                                     THEN orders[o].fill.tokens ELSE 0
               /\ gave(m)' = gave(m) + IF orders[o].side = "sell" /\ orders[o].mint = m
                                       THEN orders[o].fill.tokens ELSE 0
    <3>1. \A side \in {"buy", "sell"} :
                    /\ TokensOf(trades, RowsIn(trades, side, m)) \in Int
                    /\ TokensOf(trades', RowsIn(trades', side, m))
                          = TokensOf(trades, RowsIn(trades, side, m))
                              + IF Trade(o).side = side /\ Trade(o).mint = m
                                THEN Trade(o).fill.tokens ELSE 0
      BY <1>0, <2>1, <2>2, OneMoreRow
    <3>2. TokensOf(trades, RowsIn(trades, "sell", m))' = TokensOf(trades', RowsIn(trades', "sell", m))
          /\ TokensOf(trades, RowsIn(trades, "buy", m))' = TokensOf(trades', RowsIn(trades', "buy", m))
      BY DEF TokensOf, RowsIn, RowsOf, MapThenSumSet, MapThenFoldSet
    <3> QED
      BY <2>1, <3>1, <3>2
  <2>6. Explains(balance, open, trades, payments)'
    <3> HIDE DEF sold, spent, got, gave
    <3>1. balance = StartingBalance + Credit * Cardinality(payments) + sold - spent
      BY DEF EInv, Explains, sold, spent
    <3>2. \A m \in Mints : open[m].tokens = got(m) - gave(m)
      BY DEF EInv, Explains, got, gave
    <3>3. balance' = StartingBalance + Credit * Cardinality(payments) + sold' - spent'
      <4> PICK paid \in Nat : paid = Credit * Cardinality(payments)
        BY <1>0, BalanceAssumption
      <4>1. balance = StartingBalance + paid + sold - spent
        BY <3>1
      <4>2. balance' = StartingBalance + paid + sold' - spent'
        BY <2>1, <2>3, <2>4, <4>1, BalanceAssumption
      <4> QED
        BY <4>2
    <3>4. ASSUME NEW m \in Mints PROVE open'[m].tokens = got(m)' - gave(m)'
      <4>1. CASE m = orders[o].mint
        <5>1. open'[m].tokens = Applied(o).position.tokens
          BY <1>0, <2>1, <2>2, <4>1 DEF WellTyped
        <5> QED
          BY <2>1, <2>3, <2>5, <3>2, <4>1, <5>1
      <4>2. CASE m # orders[o].mint
        <5>1. open'[m] = open[m]
          BY <1>0, <2>1, <2>2, <4>2 DEF WellTyped
        <5> QED
          BY <2>5, <3>2, <4>2, <5>1
      <4> QED
        BY <4>1, <4>2
    <3> QED
      BY <2>2, <3>3, <3>4 DEF Explains, sold, spent, got, gave
  <2> QED
    BY <2>2, <2>6 DEF EInv
<1>2. ASSUME NEW c \in Confirms, Settle(c) PROVE EInv'
  <2>1. /\ balance' = balance + Credit /\ open' = open /\ trades' = trades
        /\ payments' = payments \cup {confirms[c].signature} /\ confirms[c].signature \notin payments
    BY <1>2 DEF Settle, Unique
  <2>2. IsFiniteSet(payments') /\ Cardinality(payments') = Cardinality(payments) + 1
    BY <2>1, FS_AddElement DEF EInv
  <2>3. Credit * Cardinality(payments') = Credit * Cardinality(payments) + Credit
    <3> PICK k \in Nat, c1 \in Nat : k = Cardinality(payments) /\ c1 = Credit
      BY <1>0, BalanceAssumption
    <3>1. c1 * (k + 1) = c1 * k + c1
      BY Z3
    <3> QED
      BY <2>2, <3>1
  <2>4. Credit * Cardinality(payments) \in Nat
    BY <1>0, BalanceAssumption
  <2>5. sold \in Int /\ spent \in Int
    BY <1>0, RowSums
  <2> HIDE DEF sold, spent
  <2>6. balance = StartingBalance + Credit * Cardinality(payments) + sold - spent
    BY DEF EInv, Explains, sold, spent
  <2>7. balance' = StartingBalance + Credit * Cardinality(payments') + sold - spent
    BY <2>1, <2>3, <2>4, <2>5, <2>6, BalanceAssumption
  <2>8. sold' = sold /\ spent' = spent
    BY <2>1 DEF sold, spent, SolOf, RowsOf, MapThenSumSet, MapThenFoldSet
  <2> QED
    BY <2>1, <2>2, <2>7, <2>8 DEF EInv, Explains, sold, spent
<1>3. CASE UNCHANGED <<balance, open, trades, payments>>
  BY <1>3 DEF EInv, Explains
<1>4. \/ \E o \in Orders : Record(o)
      \/ \E c \in Confirms : Settle(c)
      \/ UNCHANGED <<balance, open, trades, payments>>
  BY DEF Next, MarketMoves, OpenFails, Click, ReadCurve, ReadPoolAccount, ReadVaults, AnotherFills, Price, Refuse, Raced, Confirm,
         AlreadySettled, vars, account
<1> QED
  BY <1>1, <1>2, <1>3, <1>4

\* The rows of trades and payments add up to the balance and to the tokens held
\* (trading.ts:269-270), for any number of them.
THEOREM TradesExplain == Spec => []TradesExplainAccount
<1>1. Init => EInv
  <2> SUFFICES ASSUME Init PROVE EInv
    OBVIOUS
  <2>1. payments = {} /\ trades = <<>> /\ balance = StartingBalance
    BY DEF Init
  <2>2. \A side, m : RowsOf(trades, side) = {} /\ RowsIn(trades, side, m) = {}
    BY <2>1 DEF RowsOf, RowsIn
  <2>3. IsFiniteSet({}) /\ Cardinality({}) = 0
    BY FS_EmptySet
  <2>4. SolOf(trades, {}) = 0 /\ TokensOf(trades, {}) = 0
    BY <2>3, SolTotals, TokensTotals, TotalOfNone
  <2>5. \A m \in Mints : open[m].tokens = 0
    BY DEF Init, NoPosition
  <2>6. Credit * 0 = 0
    BY BalanceAssumption
  <2>7. Explains(balance, open, trades, payments)
    <3> HIDE DEF RowsOf, RowsIn
    <3>1. balance = StartingBalance + Credit * 0 + 0 - 0
      BY <2>1, <2>6, BalanceAssumption
    <3>2. \A m \in Mints : open[m].tokens = 0 - 0
      BY <2>5
    <3> QED
      BY <2>1, <2>2, <2>3, <2>4, <3>1, <3>2, Zenon DEF Explains
  <2> QED
    BY <2>1, <2>3, <2>7 DEF EInv
<1>2. EInv => TradesExplainAccount
  BY ExplainsNow DEF EInv
<1> QED
  BY Invariance, <1>1, ExplainsStep, <1>2, PTL DEF Spec
==============================================================================
