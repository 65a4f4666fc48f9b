------------------------------- MODULE Entries -------------------------------
(***************************************************************************)
(* Entering a season and buying practice balance (app/api/pay,             *)
(* app/api/season/enter, app/api/store, packages/db/src/payments.ts,       *)
(* packages/sybil, packages/payments).                                     *)
(*                                                                         *)
(* Requests overlap: each step below ends at a statement or a call the     *)
(* handler awaits, and a request may die at any of them.  What the chain   *)
(* says about a wallet is looked up over the network and may come back     *)
(* unreadable.  A transaction is identified with the intent whose          *)
(* reference it carries: the message signed is the one the server built.   *)
(***************************************************************************)
EXTENDS Integers, Sequences, FiniteSets

CONSTANTS
    Traders,
    Requests,             \* requests that may be in flight at once
    FunderOf,             \* who paid for each wallet's first transaction
    MaxEntriesPerFunder,  \* DEFAULT_RULES.maxEntriesPerFunder
    Ttl,                  \* DEFAULT_TTL_MS
    Validity,             \* how long a blockhash, and so a message, can land
    EntryClosesAt,        \* season.entryClosesAt
    Purposes,             \* what is bought in this instance
    IntentBound,          \* bound of the model: intents created
    TimeBound             \* bound of the model: the clock

ASSUME LimitAssumption == MaxEntriesPerFunder \in Nat \ {0}
ASSUME ClockAssumption == Ttl \in Nat /\ Validity \in Nat /\ EntryClosesAt \in Nat /\ TimeBound \in Nat
ASSUME PurposeAssumption == Purposes \subseteq {"season_entry", "practice_sol"}

VARIABLES
    now,
    free,      \* the season costs nothing to enter
    requests,  \* the requests in flight
    intents,   \* the table payment_intents, by id
    chain,     \* intents whose transaction is finalized on chain
    payments,  \* the table payments: the transactions recorded
    entries,   \* the table entries
    accounts,  \* traders with a free-play account
    credited,  \* practice purchases credited to each of them
    raced      \* history: something happened that the count of siblings cannot see

vars == <<now, free, requests, intents, chain, payments, entries, accounts, credited, raced>>

Unread == "unread"      \* a funder that could not be read is null
Unrecorded == "unrecorded"
ASSUME FunderAssumption == \A t \in Traders : FunderOf[t] \notin {Unread, Unrecorded}
Idle == [pc |-> "idle"]

Init ==
    /\ now = 0 /\ free \in BOOLEAN
    /\ requests = [r \in Requests |-> Idle]
    /\ intents = <<>> /\ chain = {} /\ payments = {} /\ entries = {}
    /\ accounts = {} /\ credited = [t \in Traders |-> 0]
    /\ raced = FALSE

Intents == DOMAIN intents
HasEntered(t) == \E e \in entries : e.by = t
Becomes(r, request) == requests' = [requests EXCEPT ![r] = request]

------------------------------------------------------------------------------
(***************************************************************************)
(* POST /api/pay/intent and POST /api/season/enter: the checks             *)
(***************************************************************************)

\* openRankedSeason, by the clock the request started with, and hasEntered.
Ask(r, t) ==
    /\ requests[r] = Idle /\ "season_entry" \in Purposes
    /\ now < EntryClosesAt /\ ~HasEntered(t)
    /\ Becomes(r, [pc |-> "gather", by |-> t, at |-> now, found |-> Unread, siblings |-> 0])
    /\ UNCHANGED <<now, free, intents, chain, payments, entries, accounts, credited, raced>>

Admitted == IF free THEN "write" ELSE "insert"

\* gatherEvidence.  A funder that cannot be read is null; one whose own history cannot be
\* read counts as shared, and neither is held to the limit.
Gather(r) ==
    /\ requests[r].pc = "gather"
    /\ \E funder \in {FunderOf[requests[r].by], Unread}, shared \in BOOLEAN :
          LET counted == funder # Unread /\ ~shared
          IN  /\ Becomes(r, [requests[r] EXCEPT !.pc = IF counted THEN "settled" ELSE Admitted,
                                                !.found = funder])
              /\ raced' = (raced \/ (funder # Unread /\ shared))
    /\ UNCHANGED <<now, free, intents, chain, payments, entries, accounts, credited>>

\* Requests that were told a number of siblings and have not yet become one of them.
Counting(r) == requests[r].pc \in {"pending", "insert", "evidence", "write"}

\* entriesFromFunder counts entries in one statement and outstanding intents in the next.
CountSettled(r) ==
    /\ requests[r].pc = "settled"
    /\ Becomes(r, [requests[r] EXCEPT !.pc = "pending",
                      !.siblings = Cardinality({e \in entries : e.funder = requests[r].found})])
    /\ raced' = (raced \/ \E q \in Requests \ {r} : /\ Counting(q)
                                                    /\ requests[q].found = requests[r].found)
    /\ UNCHANGED <<now, free, intents, chain, payments, entries, accounts, credited>>

NonePending(funder, at) == {}
Pending(funder, at) ==
    {i \in Intents : intents[i].funder = funder /\ ~intents[i].settled /\ intents[i].expires > at}

\* The rest of the count, and assess.
CountPending(r) ==
    /\ requests[r].pc = "pending"
    /\ LET siblings == requests[r].siblings
                       + Cardinality(Pending(requests[r].found, requests[r].at))
       IN  Becomes(r, IF siblings >= MaxEntriesPerFunder
                      THEN Idle ELSE [requests[r] EXCEPT !.pc = Admitted, !.siblings = 0])
    /\ UNCHANGED <<now, free, intents, chain, payments, entries, accounts, credited, raced>>

------------------------------------------------------------------------------
(***************************************************************************)
(* An intent, its evidence and the message to sign                         *)
(***************************************************************************)

Intent(r, purpose, sent) ==
    [by |-> requests[r].by, purpose |-> purpose, found |-> requests[r].found,
     funder |-> Unrecorded, expires |-> requests[r].at + Ttl,
     lands |-> now + Validity, sent |-> sent, settled |-> FALSE]

AnsweredAtOnce == TRUE
AnsweredAfterEvidence == FALSE

\* The blockhash was fetched just before; createPaymentIntent.
InsertIntent(r) ==
    /\ requests[r].pc = "insert" /\ Len(intents) < IntentBound
    /\ intents' = Append(intents, Intent(r, "season_entry", AnsweredAfterEvidence))
    /\ Becomes(r, [requests[r] EXCEPT !.pc = "evidence", !.siblings = Len(intents) + 1])
    /\ UNCHANGED <<now, free, chain, payments, entries, accounts, credited, raced>>

\* recordIntentEvidence, and the answer that carries the message.
RecordEvidence(r) ==
    /\ requests[r].pc = "evidence"
    /\ LET i == requests[r].siblings
       IN  intents' = [intents EXCEPT ![i].funder = requests[r].found, ![i].sent = TRUE]
    /\ Becomes(r, Idle)
    /\ UNCHANGED <<now, free, chain, payments, entries, accounts, credited, raced>>

\* POST /api/store/intent: the account exists before the payment is asked for.
Buy(r, t) ==
    /\ requests[r] = Idle /\ "practice_sol" \in Purposes
    /\ accounts' = accounts \cup {t}
    /\ Becomes(r, [pc |-> "quote", by |-> t, at |-> now, found |-> Unread, siblings |-> 0])
    /\ UNCHANGED <<now, free, intents, chain, payments, entries, credited, raced>>

InsertQuote(r) ==
    /\ requests[r].pc = "quote" /\ Len(intents) < IntentBound
    /\ intents' = Append(intents, Intent(r, "practice_sol", TRUE))
    /\ Becomes(r, Idle)
    /\ UNCHANGED <<now, free, chain, payments, entries, accounts, credited, raced>>

\* The trader signs and the transaction is finalized, or the message goes stale.
Pay(i) ==
    /\ i \in Intents \ chain /\ intents[i].sent /\ now <= intents[i].lands
    /\ chain' = chain \cup {i}
    /\ UNCHANGED <<now, free, requests, intents, payments, entries, accounts, credited, raced>>

------------------------------------------------------------------------------
(***************************************************************************)
(* POST /api/pay/confirm and settlePayment                                 *)
(***************************************************************************)

\* verifyPayment: payer, reference, recipient and amount are those of the message signed.
Verified(i) == i \in chain

\* The intent is the trader's own and its transaction is verified.  The intent's expiry and
\* the season's window are not looked at again.
Confirm(r, i) ==
    /\ requests[r] = Idle /\ Verified(i)
    /\ Becomes(r, [pc |-> "existing payment", intent |-> i])
    /\ UNCHANGED <<now, free, intents, chain, payments, entries, accounts, credited, raced>>

CheckPayment(r) ==
    /\ requests[r].pc = "existing payment"
    /\ Becomes(r, IF requests[r].intent \in payments THEN Idle ELSE [requests[r] EXCEPT !.pc = "settle"])
    /\ UNCHANGED <<now, free, intents, chain, payments, entries, accounts, credited, raced>>

\* The unique index on tx_signature, inside the transaction that settles.
RecordableTwice(i) == TRUE
Recordable(i) == i \notin payments

\* What is inserted when the wallet has no entry yet.
Bought(i) ==
    LET t == intents[i].by
    IN  IF HasEntered(t) THEN {} ELSE {[by |-> t, funder |-> intents[i].funder, intent |-> i]}

\* An entry that the counts of another request miss: settled between its two counts, or
\* after the intent stopped counting as pending.
Unseen(i) ==
    \/ intents[i].expires <= now
    \/ \E q \in Requests : requests[q].pc = "pending" /\ requests[q].found = intents[i].funder

\* One write transaction.  It is rolled back when the signature was recorded in between,
\* and when there is no account to credit.
Settle(r) ==
    /\ requests[r].pc = "settle"
    /\ LET i == requests[r].intent
           practice == intents[i].purpose = "practice_sol"
           commits == Recordable(i) /\ (practice => intents[i].by \in accounts)
       IN  IF commits
           THEN /\ payments' = payments \cup {i}
                /\ intents' = [intents EXCEPT ![i].settled = TRUE]
                /\ entries' = entries \cup (IF practice THEN {} ELSE Bought(i))
                /\ credited' = [credited EXCEPT ![intents[i].by] = @ + (IF practice THEN 1 ELSE 0)]
                /\ raced' = (raced \/ (~practice /\ Unseen(i)))
           ELSE UNCHANGED <<payments, intents, entries, credited, raced>>
    /\ Becomes(r, Idle)
    /\ UNCHANGED <<now, free, chain, accounts>>

------------------------------------------------------------------------------
(***************************************************************************)
(* enterFreeSeason                                                         *)
(***************************************************************************)

\* ON CONFLICT DO NOTHING; the select before it only saves the statement.  An entry that
\* appears between another request's counts was counting when that one began: an overlap.
FreeInsert(r) ==
    /\ requests[r].pc = "write"
    /\ entries' = IF HasEntered(requests[r].by) THEN entries
                  ELSE entries \cup {[by |-> requests[r].by, funder |-> requests[r].found, intent |-> 0]}
    /\ Becomes(r, Idle)
    /\ UNCHANGED <<now, free, intents, chain, payments, accounts, credited, raced>>

------------------------------------------------------------------------------
\* A call to the network fails, a statement fails, or the process restarts.
RequestDies(r) ==
    /\ requests[r] # Idle
    /\ Becomes(r, Idle)
    /\ UNCHANGED <<now, free, intents, chain, payments, entries, accounts, credited, raced>>

ClockMoves ==
    /\ now < TimeBound /\ now' = now + 1
    /\ UNCHANGED <<free, requests, intents, chain, payments, entries, accounts, credited, raced>>

EntryRequest(r) ==
    \/ \E t \in Traders : Ask(r, t)
    \/ Gather(r) \/ CountSettled(r) \/ CountPending(r)
    \/ InsertIntent(r) \/ RecordEvidence(r) \/ FreeInsert(r)

StoreRequest(r) == (\E t \in Traders : Buy(r, t)) \/ InsertQuote(r)

ConfirmRequest(r) == (\E i \in Intents : Confirm(r, i)) \/ CheckPayment(r) \/ Settle(r)

Next ==
    \/ \E r \in Requests : EntryRequest(r) \/ StoreRequest(r) \/ ConfirmRequest(r) \/ RequestDies(r)
    \/ \E i \in Intents : Pay(i)
    \/ ClockMoves

Spec == Init /\ [][Next]_vars

------------------------------------------------------------------------------
(***************************************************************************)
(* Properties                                                              *)
(***************************************************************************)

\* Shape of the tables; an intent is marked paid exactly when its payment is recorded.
TypeOK ==
    /\ now \in 0..TimeBound /\ free \in BOOLEAN /\ raced \in BOOLEAN
    /\ payments \subseteq chain /\ chain \subseteq Intents
    /\ \A i \in Intents : /\ intents[i].by \in Traders /\ intents[i].purpose \in Purposes
                          /\ intents[i].sent \in BOOLEAN
                          /\ intents[i].settled = (i \in payments)
    /\ credited \in [Traders -> Nat] /\ accounts \subseteq Traders
    /\ DOMAIN requests = Requests

\* A payment recorded without what it bought is a user who paid and did not get in; one
\* credited twice is money given away.  Every recorded entry payment has its wallet
\* entered, every practice purchase is credited exactly once, nothing is recorded that
\* is not on chain, and a season with a fee has no entry without a recorded payment.
PaidForAndGiven ==
    /\ TypeOK
    /\ payments \subseteq chain
    /\ \A i \in payments : intents[i].purpose = "season_entry" => HasEntered(intents[i].by)
    /\ \A t \in Traders :
          credited[t] = Cardinality({i \in payments : /\ intents[i].purpose = "practice_sol"
                                                      /\ intents[i].by = t})
    /\ \A d, e \in entries : d.by = e.by => d = e
    /\ ~free => \A e \in entries : e.intent \in payments

\* The evidence reaches the intent in a statement of its own, after the intent exists.  No
\* wallet can pay in between: an entry carries exactly the funder that was found for its
\* wallet before it was asked for money.
FunderFollowsTheEntry ==
    \A e \in entries : e.intent # 0 => e.funder = intents[e.intent].found

\* The limit on entries from one funder holds as long as no two requests of one funder
\* overlapped between counting and writing, no intent was settled between the two counts
\* or after it expired, and no funder was taken as shared for want of an answer.
OverTheLimitTakesARace ==
    \A f \in {FunderOf[t] : t \in Traders} :
        Cardinality({e \in entries : e.funder = f}) > MaxEntriesPerFunder => raced
==============================================================================
