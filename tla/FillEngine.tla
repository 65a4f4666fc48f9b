----------------------------- MODULE FillEngine -----------------------------
(***************************************************************************)
(* What a market gives for an order: quoteBuy and quoteSell                *)
(* (packages/sim/src/engine.ts) over a reading of its reserves.  Amounts   *)
(* are in the smallest unit of their asset, fees in basis points; what a   *)
(* trader receives is floored and what he pays is ceiled (fixed.ts).       *)
(***************************************************************************)
EXTENDS Integers

BpsDenominator == 10000

\* PoolState, as far as a quote depends on it.  A bonding curve prices on virtual
\* reserves and hands over real ones: deliverableTokens is what it has left.
PoolStates ==
    [solReserve : Nat \ {0}, tokenReserve : Nat \ {0}, deliverableTokens : Nat, feeBps : Nat]

Lesser(a, b) == IF a <= b THEN a ELSE b
MulDivFloor(a, b, d) == (a * b) \div d
MulDivCeil(a, b, d) == (a * b + d - 1) \div d

\* What a refused order comes to: QuoteError.
NoQuote == [sol |-> 0, tokens |-> 0]

\* The fee comes off the input, and a lamport with it, before the curve sees it.
AfterFee(pool, solIn) ==
    MulDivFloor(solIn - 1, BpsDenominator, BpsDenominator + pool.feeBps)
TokensFor(pool, afterFee) ==
    MulDivFloor(afterFee, pool.tokenReserve, pool.solReserve + afterFee)

\* The curve inverted: what all the tokens it can still deliver cost.
CostAtSpot(pool) == MulDivFloor(pool.deliverableTokens, pool.solReserve, pool.tokenReserve)
CostOfAll(pool) ==
    MulDivCeil(MulDivCeil(pool.deliverableTokens, pool.solReserve,
                          pool.tokenReserve - pool.deliverableTokens),
               BpsDenominator + pool.feeBps, BpsDenominator) + 1

\* A buy that asks for more than the venue has left takes that, and pays for that alone.
QuoteBuy(pool, solIn) ==
    LET afterFee == AfterFee(pool, solIn)
        tokens == TokensFor(pool, afterFee)
    IN  IF afterFee <= 0 \/ tokens = 0 \/ pool.deliverableTokens = 0 THEN NoQuote
        ELSE IF tokens <= pool.deliverableTokens THEN [sol |-> solIn, tokens |-> tokens]
        ELSE [sol |-> Lesser(CostOfAll(pool), solIn), tokens |-> pool.deliverableTokens]

\* The curve runs first and the fee comes off its output.
GrossSol(pool, tokensIn) ==
    MulDivFloor(tokensIn, pool.solReserve, pool.tokenReserve + tokensIn)
QuoteSell(pool, tokensIn) ==
    LET gross == GrossSol(pool, tokensIn)
        out == gross - MulDivCeil(gross, pool.feeBps, BpsDenominator)
    IN  IF out <= 0 THEN NoQuote ELSE [sol |-> out, tokens |-> tokensIn]
==============================================================================
