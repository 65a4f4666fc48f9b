---------------------------- MODULE SerialAccount ----------------------------
(***************************************************************************)
(* What a practice account promises: it trades as if every order were      *)
(* quoted and written in one instant.  A buy is paid from the balance      *)
(* there is, a sell from the tokens held, both at what the engine quotes   *)
(* on some state of the market, and a purchase is credited once.           *)
(***************************************************************************)
EXTENDS FillEngine

CONSTANTS
    Mints,            \* the tokens traded
    Pools,            \* states a market can be in
    Sizes,            \* amounts an order can ask for
    StartingBalance,  \* lamports of a new account
    Signatures,       \* transfers that buy practice balance
    Credit            \* lamports one of them buys

VARIABLES
    balance,   \* accounts.sol_balance
    held,      \* held[m]: tokens of mint m in the account
    payments   \* transfers credited

vars == <<balance, held, payments>>

Init ==
    /\ balance = StartingBalance
    /\ held = [m \in Mints |-> 0]
    /\ payments = {}

Buy(m, n, p) ==
    LET quote == QuoteBuy(p, n)
    IN  /\ n <= balance /\ quote # NoQuote
        /\ balance' = balance - quote.sol
        /\ held' = [held EXCEPT ![m] = @ + quote.tokens]
        /\ UNCHANGED payments

Sell(m, n, p) ==
    LET quote == QuoteSell(p, n)
    IN  /\ n <= held[m] /\ quote # NoQuote
        /\ balance' = balance + quote.sol
        /\ held' = [held EXCEPT ![m] = @ - quote.tokens]
        /\ UNCHANGED payments

TopUp(s) ==
    /\ s \notin payments
    /\ payments' = payments \cup {s}
    /\ balance' = balance + Credit
    /\ UNCHANGED held

Next ==
    \/ \E m \in Mints, n \in Sizes, p \in Pools : Buy(m, n, p) \/ Sell(m, n, p)
    \/ \E s \in Signatures : TopUp(s)

Spec == Init /\ [][Next]_vars
==============================================================================
