---------------------------- MODULE PriceStream ----------------------------
(***************************************************************************)
(* Pushed prices: app/lib/price-stream.ts over AccountSubscription of      *)
(* packages/feed/src/accounts.ts.                                          *)
(*                                                                         *)
(* Every few seconds a pass of reconcile drops the mints nobody views and  *)
(* resolves the viewed ones it does not watch yet, with an await on the    *)
(* chain in the middle; the timer starts a pass whether or not the last is *)
(* done.  The subscription speaks over one socket at a time, which keeps   *)
(* the order of messages and loses them all when it closes.                *)
(*                                                                         *)
(* A reserve is the number of the swap that left it, which is also its     *)
(* slot: a node notifies an account once per slot.  A mint trades on its   *)
(* bonding curve, one account with both reserves, until it graduates to a  *)
(* pool with a vault a side.  Request ids are fresh, as #nextId makes      *)
(* them; the ids a node hands out start again with each connection.  What  *)
(* a price says beside its reserves, candles and polled prices are left    *)
(* out, and nothing calls stop().                                          *)
(***************************************************************************)
EXTENDS Integers, Sequences, FiniteSets, SequencesExt

CONSTANTS
    Mints,
    Passes,            \* passes of reconcile that may be under way at once
    MaxSubscriptions,  \* MAX_SUBSCRIPTIONS
    SwapBound,         \* bound of the model: swaps per mint, its graduation included
    ViewBound,         \* bound of the model: times a viewer comes or goes
    FaultBound         \* bound of the model: lost sockets, failed reads, refusals

ASSUME StreamAssumption ==
    /\ {MaxSubscriptions, SwapBound, ViewBound, FaultBound} \subseteq Nat /\ SwapBound > 0
    /\ IsFiniteSet(Mints)

VARIABLES
    viewed,     \* recentlyViewed()
    graduated,  \* mints whose curve is complete
    swaps,      \* the last swap of each mint
    watching,   \* mint -> the addresses watched for it
    accounts,   \* the addresses of the map accounts (the address tells mint and side)
    reserves,   \* mint -> the last reserves seen, with their slots
    latest,     \* mint -> the last price, as the reserves it was computed from
    passes,     \* the passes of reconcile under way
    wanted,     \* AccountSubscription: #wanted,
    pending,    \*   #pending, the requests not answered (an id names its address),
    live,       \*   #live, subscription id -> address
    open,       \*   and #open
    toNode, toClient,  \* what is on the socket
    node,       \* the node's own table of this connection, subscription id -> address
    dropped,    \* history: mints let go of while a pass was resolving them
    refused,    \* addresses the node refused on this connection
    views, faults

people == <<viewed, views>>
chain == <<graduated, swaps>>
tables == <<watching, accounts, reserves, latest, passes, dropped>>
subscription == <<wanted, pending, live, open>>
wire == <<toNode, toClient, node, refused>>
streamVars == <<people, chain, tables, subscription, wire, faults>>

Curve(m) == [mint |-> m, side |-> "curve"]
Vaults(m) == {[mint |-> m, side |-> "base"], [mint |-> m, side |-> "quote"]}
AccountsOf(m) == IF m \in graduated THEN Vaults(m) ELSE {Curve(m)}

None == [x \in {} |-> x]
Put(f, key, value) == [x \in DOMAIN f \cup {key} |-> IF x = key THEN value ELSE f[x]]
Without(f, keys) == Restrict(f, DOMAIN f \ keys)
Lowest(used) == CHOOSE i \in 1..(Cardinality(used) + 1) : i \notin used
Fault == faults < FaultBound /\ faults' = faults + 1

Resting == [pc |-> "rest"]

StreamInit ==
    /\ viewed = {} /\ views = 0 /\ faults = 0
    /\ graduated \in SUBSET Mints /\ swaps = [m \in Mints |-> 1]
    /\ watching = None /\ accounts = {} /\ reserves = None /\ latest = None
    /\ passes = [p \in Passes |-> Resting] /\ dropped = {}
    /\ wanted = {} /\ pending = {} /\ live = None /\ open = FALSE
    /\ toNode = <<>> /\ toClient = <<>> /\ node = None /\ refused = {}

------------------------------------------------------------------------------
(***************************************************************************)
(* AccountSubscription                                                     *)
(***************************************************************************)

InFlight == pending \cup {toNode[i].id : i \in {j \in DOMAIN toNode : toNode[j].kind = "subscribe"}}
                    \cup {toClient[i].id : i \in {j \in DOMAIN toClient : toClient[j].kind = "reply"}}
NextId(a) == [address |-> a, n |-> Lowest({id.n : id \in {x \in InFlight : x.address = a}})]

\* #subscribe for each of a set of addresses, on a socket that is open.
Subscribe(addresses) == {NextId(a) : a \in addresses}
Requests(ids) == SetToSeq({[kind |-> "subscribe", id |-> id] : id \in ids})

\* watch: idempotent, and only remembered while there is no open socket.
Watch(addresses) ==
    LET ids == IF open THEN Subscribe(addresses \ wanted) ELSE {}
    IN  /\ wanted' = wanted \cup addresses
        /\ pending' = pending \cup ids
        /\ toNode' = toNode \o Requests(ids)
        /\ UNCHANGED live

\* unwatch: the node is told of the subscriptions it has confirmed.
Unwatch(addresses) ==
    LET gone == addresses \cap wanted
        subs == {sub \in DOMAIN live : live[sub] \in gone}
    IN  /\ wanted' = wanted \ gone
        /\ live' = Without(live, subs)
        /\ pending' = {id \in pending : id.address \notin gone}
        /\ toNode' = IF open THEN toNode \o SetToSeq({[kind |-> "unsubscribe", sub |-> sub] : sub \in subs})
                     ELSE toNode

\* onopen: what was wanted while the socket was down is wanted now.
AskedBefore == Range(live)
AskedAgain == wanted

Opens ==
    /\ ~open
    /\ LET ids == {[address |-> a, n |-> 1] : a \in AskedAgain}
       IN  pending' = ids /\ toNode' = Requests(ids)
    /\ open' = TRUE /\ live' = None
    /\ UNCHANGED <<people, chain, tables, wanted, toClient, node, refused, faults>>

\* onclose: whatever was on the wire is gone, and the node forgets the connection.
Closes ==
    /\ open /\ Fault
    /\ open' = FALSE
    /\ toNode' = <<>> /\ toClient' = <<>> /\ node' = None /\ refused' = {}
    /\ UNCHANGED <<people, chain, tables, wanted, pending, live>>

\* The reply to a subscribe is matched back to what was asked for.
Replied(id, sub) ==
    /\ pending' = pending \ {id}
    /\ live' = IF id \in pending /\ id.address \in wanted THEN Put(live, sub, id.address) ELSE live

------------------------------------------------------------------------------
(***************************************************************************)
(* handleUpdate and priceFrom                                              *)
(***************************************************************************)

AnySlots(held) == TRUE
SameSlot(held) == held.solSlot = held.tokenSlot

\* The default of handleUpdate for a mint whose reserves were deleted knows no offset.
Unread == [sol |-> 0, token |-> 0, solSlot |-> 0, tokenSlot |-> 0, offset |-> FALSE]

Priced(m, held) ==
    IF held.sol > 0 /\ held.token > 0 /\ SameSlot(held)
    THEN Put(latest, m, [sol |-> held.sol, token |-> held.token, offset |-> held.offset])
    ELSE latest

HandleUpdate(a, swap, complete) ==
    LET m == a.mint
        before == IF m \in DOMAIN reserves THEN reserves[m] ELSE Unread
        held == CASE a.side = "curve" -> [sol |-> swap, token |-> swap, solSlot |-> swap, tokenSlot |-> swap, offset |-> TRUE]
                  [] a.side = "quote" -> [before EXCEPT !.sol = swap, !.solSlot = swap]
                  [] a.side = "base" -> [before EXCEPT !.token = swap, !.tokenSlot = swap]
    IN  IF a \in accounts /\ ~complete
        THEN reserves' = Put(reserves, m, held) /\ latest' = Priced(m, held)
        ELSE UNCHANGED <<reserves, latest>>

\* #handle: a message of the node reaches the client.
Delivers ==
    /\ toClient # <<>> /\ toClient' = Tail(toClient)
    /\ LET message == Head(toClient)
       IN  \/ /\ message.kind = "reply" /\ Replied(message.id, message.sub)
              /\ UNCHANGED <<reserves, latest>>
           \/ /\ message.kind = "update"
              /\ IF message.sub \in DOMAIN live
                 THEN HandleUpdate(live[message.sub], message.swap, message.complete)
                 ELSE UNCHANGED <<reserves, latest>>
              /\ UNCHANGED <<pending, live>>
    /\ UNCHANGED <<people, chain, watching, accounts, passes, dropped, wanted, open, toNode, node, refused, faults>>

------------------------------------------------------------------------------
(***************************************************************************)
(* reconcile                                                               *)
(***************************************************************************)

WatchedFor(m) == IF m \in DOMAIN watching THEN watching[m] ELSE {}

\* From one await to the next: the first of todo that nobody watches is claimed and read.
Unclaimed(w, m) == w
ClaimedIn(w, m) == Put(w, m, {})

Onwards(p, todo, w) ==
    IF todo \subseteq DOMAIN w
    THEN passes' = [passes EXCEPT ![p] = Resting] /\ watching' = w
    ELSE \E m \in todo \ DOMAIN w :
            /\ passes' = [passes EXCEPT ![p] = [pc |-> "read", mint |-> m, todo |-> todo \ {m}]]
            /\ watching' = ClaimedIn(w, m)

\* The most recently viewed of them, at most MaxSubscriptions.
FirstOf(ms) ==
    {chosen \in SUBSET ms : Cardinality(chosen) = IF Cardinality(ms) > MaxSubscriptions THEN MaxSubscriptions ELSE Cardinality(ms)}

\* stopWatching for what is no longer wanted, then on to the first claim; a pass that
\* would change nothing is no step.
StartPass(p) ==
    /\ passes[p] = Resting
    /\ \E todo \in FirstOf(viewed) :
          LET unseen == DOMAIN watching \ todo
              gone == UNION {watching[m] : m \in unseen}
          IN  /\ unseen # {} \/ ~(todo \subseteq DOMAIN watching)
              /\ Unwatch(gone) /\ accounts' = accounts \ gone
              /\ reserves' = Without(reserves, unseen) /\ latest' = Without(latest, unseen)
              /\ dropped' = dropped \cup {m \in unseen : \E q \in Passes : passes[q] # Resting /\ passes[q].mint = m}
              /\ Onwards(p, todo, Without(watching, unseen))
    /\ UNCHANGED <<people, chain, open, toClient, node, refused, faults>>

\* accountsFor: the curve is read, and if it is complete the pool in later reads.
Resolved(p, found) ==
    passes' = [passes EXCEPT ![p] = [pc |-> "apply", mint |-> @.mint, todo |-> @.todo,
                                     found |-> found, swap |-> swaps[@.mint]]]

ReadsCurve(p) ==
    /\ passes[p].pc = "read"
    /\ LET m == passes[p].mint
       IN  IF m \in graduated THEN passes' = [passes EXCEPT ![p].pc = "pool"]
           ELSE Resolved(p, {Curve(m)})
    /\ UNCHANGED <<people, chain, watching, accounts, reserves, latest, dropped, subscription, wire, faults>>

ReadsPool(p) ==
    /\ passes[p].pc = "pool"
    /\ Resolved(p, Vaults(passes[p].mint))
    /\ UNCHANGED <<people, chain, watching, accounts, reserves, latest, dropped, subscription, wire, faults>>

\* The answer arrives: the accounts are watched and what is known is published.
Applies(p) ==
    /\ passes[p].pc = "apply"
    /\ LET pass == passes[p]
           held == [sol |-> pass.swap, token |-> pass.swap, solSlot |-> 0, tokenSlot |-> 0, offset |-> TRUE]
       IN  /\ reserves' = Put(reserves, pass.mint, held)
           /\ accounts' = accounts \cup pass.found
           /\ latest' = Priced(pass.mint, held)
           /\ Watch(pass.found)
           /\ Onwards(p, pass.todo, Put(watching, pass.mint, pass.found))
    /\ UNCHANGED <<people, chain, dropped, open, toClient, node, refused, faults>>

\* The read fails, or finds nothing: the claim is given up.
KeptClaim(w, m) == w
GivenUp(w, m) == Without(w, {m})

ReadFails(p) ==
    /\ passes[p].pc \in {"read", "pool"} /\ Fault
    /\ Onwards(p, passes[p].todo, GivenUp(watching, passes[p].mint))
    /\ UNCHANGED <<people, chain, accounts, reserves, latest, dropped, subscription, wire>>

------------------------------------------------------------------------------
(***************************************************************************)
(* The node, the market and the viewers                                    *)
(***************************************************************************)

\* An id the node has not given out on this connection.
OnTheWire ==
    {toClient[i].sub : i \in DOMAIN toClient}
        \cup {toNode[i].sub : i \in {j \in DOMAIN toNode : toNode[j].kind = "unsubscribe"}}

NodeAnswers ==
    /\ toNode # <<>> /\ toNode' = Tail(toNode)
    /\ LET request == Head(toNode)
           sub == Lowest(DOMAIN node \cup OnTheWire)
       IN  \/ /\ request.kind = "subscribe"
              /\ node' = Put(node, sub, request.id.address)
              /\ toClient' = Append(toClient, [kind |-> "reply", id |-> request.id, sub |-> sub])
              /\ UNCHANGED <<refused, faults>>
           \/ /\ request.kind = "subscribe" /\ Fault
              /\ refused' = refused \cup {request.id.address}
              /\ UNCHANGED <<node, toClient>>
           \/ /\ request.kind = "unsubscribe"
              /\ node' = Without(node, {request.sub})
              /\ UNCHANGED <<toClient, refused, faults>>
    /\ UNCHANGED <<people, chain, tables, subscription>>

\* Each account a transaction changed is sent under each subscription to it.
Notified(addresses, swap, complete) ==
    SetToSeq({[kind |-> "update", sub |-> sub, address |-> node[sub], swap |-> swap, complete |-> complete] :
                 sub \in {s \in DOMAIN node : node[s] \in addresses}})

Swaps(m, graduates) ==
    /\ swaps[m] < SwapBound
    /\ graduates => m \notin graduated
    /\ swaps' = [swaps EXCEPT ![m] = @ + 1]
    /\ graduated' = IF graduates THEN graduated \cup {m} ELSE graduated
    /\ toClient' = toClient \o Notified(AccountsOf(m), swaps[m] + 1, graduates)
    /\ UNCHANGED <<people, tables, subscription, toNode, node, refused, faults>>

\* A mint is viewed, or its last view is two minutes old.
Views(m) ==
    /\ views < ViewBound /\ views' = views + 1
    /\ viewed' = IF m \in viewed THEN viewed \ {m} ELSE viewed \cup {m}
    /\ UNCHANGED <<chain, tables, subscription, wire, faults>>

PassStep(p) == ReadsCurve(p) \/ ReadsPool(p) \/ Applies(p)

StreamNext ==
    \/ Opens \/ Closes \/ Delivers \/ NodeAnswers
    \/ \E p \in Passes : StartPass(p) \/ PassStep(p) \/ ReadFails(p)
    \/ \E m \in Mints : Views(m) \/ \E graduates \in BOOLEAN : Swaps(m, graduates)

\* The timer keeps firing, a read and a reconnect end, and a socket delivers.
StreamFairness ==
    /\ WF_streamVars(Opens) /\ WF_streamVars(Delivers) /\ WF_streamVars(NodeAnswers)
    /\ \A p \in Passes : WF_streamVars(PassStep(p))
    /\ WF_streamVars(\E p \in Passes : StartPass(p))

StreamSpec == StreamInit /\ [][StreamNext]_streamVars /\ StreamFairness

------------------------------------------------------------------------------
(***************************************************************************)
(* Properties                                                              *)
(***************************************************************************)

Addresses == UNION {Vaults(m) \cup {Curve(m)} : m \in Mints}
StreamTypeOK ==
    /\ viewed \subseteq Mints /\ graduated \subseteq Mints /\ swaps \in [Mints -> 1..SwapBound]
    /\ DOMAIN watching \cup DOMAIN reserves \cup DOMAIN latest \subseteq Mints
    /\ accounts \subseteq Addresses /\ wanted \subseteq Addresses /\ refused \subseteq Addresses
    /\ \A p \in Passes : passes[p].pc \in {"rest", "read", "pool", "apply"}
    /\ Range(live) \cup Range(node) \cup {id.address : id \in pending} \subseteq Addresses
    /\ open \in BOOLEAN /\ views \in 0..ViewBound /\ faults \in 0..FaultBound

\* A price is of one swap (price-stream.ts:197): the two vaults arrive as separate
\* updates, and a pair of different swaps is never published, across reads, passes,
\* lost sockets and late subscriptions.  The offset of the pool is in it, unless a pass
\* lost its mint while resolving it.
PriceIsOfOneSwap ==
    \A m \in DOMAIN latest : /\ latest[m].sol = latest[m].token
                             /\ latest[m].offset \/ m \in dropped

\* accounts.ts:19: a socket that comes back with none of its subscriptions is worse than
\* one that stayed down.  On an open socket every wanted address is asked for or
\* confirmed, once, and nothing else is; and an update reaches the client under the
\* address it is about: ids of an earlier connection never name an account of this one.
SocketServesTheWanted ==
    /\ StreamTypeOK
    /\ \A i \in DOMAIN toClient :
          toClient[i].kind = "update" /\ toClient[i].sub \in DOMAIN live
              => live[toClient[i].sub] = toClient[i].address
    /\ open => /\ wanted = {id.address : id \in pending} \cup Range(live)
               /\ Cardinality(wanted) = Cardinality(pending) + Cardinality(DOMAIN live)

\* What is subscribed is what some mint is watched for, so that it can be let go of when
\* nobody views the mint; only a mint let go of while a pass was resolving it may leave
\* an account behind.
NothingWatchedUnowned ==
    /\ accounts = wanted
    /\ \A a \in accounts : a \in WatchedFor(a.mint) \/ a.mint \in dropped

\* A mint that stays viewed is in the end subscribed where it trades, whatever sockets
\* and reads failed: unless it graduated while its curve was watched, or the node refused.
Attended(m) == AccountsOf(m) \subseteq Range(live)
OnItsOldCurve(m) == m \in graduated /\ WatchedFor(m) = {Curve(m)}
ViewedIsWatched ==
    \A m \in Mints :
        []<>(m \notin viewed) \/ <>[](Attended(m) \/ OnItsOldCurve(m) \/ AccountsOf(m) \cap refused # {})
==============================================================================
