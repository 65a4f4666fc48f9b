-------------------------------- MODULE Duels --------------------------------
(***************************************************************************)
(* Head to head duels (packages/db/src/duels.ts, app/api/duel/route.ts,    *)
(* app/lib/duel-settle.ts).  Requests that offer, accept, decline and      *)
(* withdraw run concurrently, one step per statement they await; every     *)
(* tick the settler lapses old offers and scores the duels whose window    *)
(* has closed.                                                             *)
(*                                                                         *)
(* Time is a small counter.  An account's balance, positions and prices    *)
(* are read at different moments, so what two accounts are found to be     *)
(* worth is any value of Worths.                                           *)
(***************************************************************************)
EXTENDS Integers, Sequences, FiniteSets, SequencesExt, Ordering

CONSTANTS
    Traders,        \* entered in the season
    Requests,       \* requests that may be in flight at once
    Worths,         \* what two accounts may be found to be worth
    Scale,          \* parts a return is measured in (10_000)
    Ttl,            \* OFFER_TTL_MS
    Window,         \* windowSeconds
    MaxOpenOffers,  \* MAX_OPEN_OFFERS
    DueLimit,       \* the LIMIT of dueDuels
    SeasonEnd,      \* season.endsAt
    DuelBound,      \* bound of the model: duels offered
    TimeBound,      \* bound of the model: the clock
    FaultBound      \* bound of the model: failures and restarts of the settler

ASSUME WorthAssumption ==
    Worths \subseteq [challenger : Nat \ {0}, opponent : Nat \ {0}] /\ Scale \in Nat \ {0}
ASSUME TimeAssumption == Ttl \in Nat /\ Window \in Nat \ {0} /\ SeasonEnd \in Nat
ASSUME BoundAssumption == DuelBound \in Nat /\ TimeBound \in Nat /\ FaultBound \in Nat /\ DueLimit \in Nat
ASSUME CallerAssumption == "nobody" \notin Traders /\ IsFiniteSet(Requests)

VARIABLES
    now,
    duels,     \* the table duels, by id
    requests,  \* the requests in flight
    settler,   \* the tick in progress; "rest" is busy = false
    faults

vars == <<now, duels, requests, settler, faults>>

Unmeasured == [challenger |-> 0, opponent |-> 0]
Nobody == "nobody"
Idle == [pc |-> "idle"]
Rest == [pc |-> "rest"]

Init ==
    /\ now = 0 /\ duels = <<>> /\ faults = 0
    /\ requests = [r \in Requests |-> Idle]
    /\ settler = Rest

Ids == DOMAIN duels
Involves(i, t) == t \in {duels[i].challenger, duels[i].opponent}
Live(i) == duels[i].status = "live"
StillOffered(i) == duels[i].status = "offered"
Open(i, at) == StillOffered(i) /\ duels[i].expires > at
InDuel(t) == \E i \in Ids : Live(i) /\ Involves(i, t)

Becomes(r, request) == requests' = [requests EXCEPT ![r] = request]

\* A check the handler makes on what it has just read: it goes on or refuses.
Check(r, step, passes, next) ==
    /\ requests[r].pc = step
    /\ Becomes(r, IF passes THEN [requests[r] EXCEPT !.pc = next] ELSE Idle)
    /\ UNCHANGED <<now, duels, settler, faults>>

------------------------------------------------------------------------------
(***************************************************************************)
(* Offering: POST /api/duel and offerDuel                                  *)
(***************************************************************************)

OfferSteps == {"live", "pair", "count", "insert"}

Offer(r, a, b) ==
    /\ requests[r] = Idle /\ a # b /\ now < SeasonEnd
    /\ Len(duels) + Cardinality({q \in Requests : requests[q].pc \in OfferSteps}) < DuelBound
    /\ Becomes(r, [pc |-> "live", from |-> a, to |-> b, at |-> now])
    /\ UNCHANGED <<now, duels, settler, faults>>

OfferLive(r) ==
    Check(r, "live", ~InDuel(requests[r].from) /\ ~InDuel(requests[r].to), "pair")

OfferPair(r) ==
    LET between(i) == Involves(i, requests[r].from) /\ Involves(i, requests[r].to)
    IN  Check(r, "pair", \A i \in Ids : Open(i, requests[r].at) => ~between(i), "count")

OfferCount(r) ==
    LET mine == {i \in Ids : Open(i, requests[r].at) /\ duels[i].challenger = requests[r].from}
    IN  Check(r, "count", Cardinality(mine) < MaxOpenOffers, "insert")

OfferInsert(r) ==
    /\ requests[r].pc = "insert"
    /\ duels' = Append(duels,
                  [challenger |-> requests[r].from, opponent |-> requests[r].to,
                   status |-> "offered", expires |-> requests[r].at + Ttl, ends |-> 0,
                   opened |-> Unmeasured, closed |-> Unmeasured, winner |-> Nobody, scored |-> 0])
    /\ Becomes(r, Idle)
    /\ UNCHANGED <<now, settler, faults>>

------------------------------------------------------------------------------
(***************************************************************************)
(* Accepting: PATCH /api/duel and acceptDuel                               *)
(***************************************************************************)

\* The window has to fit inside what is left of the season.  Anyone but the opponent
\* is refused when the offer is read, having changed nothing.
Accept(r, i) ==
    /\ requests[r] = Idle /\ now < SeasonEnd /\ now + Window <= SeasonEnd
    /\ Becomes(r, [pc |-> "measure", id |-> i, at |-> now])
    /\ UNCHANGED <<now, duels, settler, faults>>

\* Both opening equities, and the clock acceptDuel goes by.
AcceptMeasure(r) ==
    /\ requests[r].pc = "measure"
    /\ \E worth \in Worths :
          Becomes(r, [pc |-> "offer", id |-> requests[r].id, at |-> now, opened |-> worth])
    /\ UNCHANGED <<now, duels, settler, faults>>

AcceptOffer(r) ==
    Check(r, "offer", Open(requests[r].id, requests[r].at), "busy")

AcceptBusy(r) ==
    LET duel == duels[requests[r].id]
    IN  Check(r, "busy", ~InDuel(duel.challenger) /\ ~InDuel(duel.opponent), "update")

\* The two partial unique indexes on live duels.
IndexesAllow(i) ==
    \A j \in Ids : Live(j) => /\ duels[j].challenger # duels[i].challenger
                              /\ duels[j].opponent # duels[i].opponent

AcceptableLate(i, at) == duels[i].expires > at /\ IndexesAllow(i)
Acceptable(i, at) == Open(i, at) /\ IndexesAllow(i)

AcceptUpdate(r) ==
    /\ requests[r].pc = "update"
    /\ LET i == requests[r].id
       IN  duels' = IF Acceptable(i, requests[r].at)
                    THEN [duels EXCEPT ![i].status = "live",
                                       ![i].ends = requests[r].at + Window,
                                       ![i].opened = requests[r].opened]
                    ELSE duels
    /\ Becomes(r, Idle)
    /\ UNCHANGED <<now, settler, faults>>

------------------------------------------------------------------------------
(***************************************************************************)
(* Declining and withdrawing: PATCH /api/duel and closeOffer               *)
(***************************************************************************)

\* By the opponent and by the challenger.
Close(r, i, how) ==
    /\ requests[r] = Idle
    /\ StillOffered(i)
    /\ Becomes(r, [pc |-> "close", id |-> i, how |-> how, at |-> now])
    /\ UNCHANGED <<now, duels, settler, faults>>

CloseUpdate(r) ==
    /\ requests[r].pc = "close"
    /\ LET i == requests[r].id
       IN  duels' = IF StillOffered(i) THEN [duels EXCEPT ![i].status = requests[r].how] ELSE duels
    /\ Becomes(r, Idle)
    /\ UNCHANGED <<now, settler, faults>>

\* A statement fails, or the process is replaced: the caller gets an error.
RequestDies(r) ==
    /\ requests[r] # Idle
    /\ Becomes(r, Idle)
    /\ UNCHANGED <<now, duels, settler, faults>>

------------------------------------------------------------------------------
(***************************************************************************)
(* The settler                                                             *)
(***************************************************************************)

Lapsed(duel) ==
    IF duel.status = "offered" /\ duel.expires <= now THEN [duel EXCEPT !.status = "expired"] ELSE duel

\* A tick that finds another still busy returns at once.
TickExpires ==
    /\ settler = Rest
    /\ duels' = [i \in Ids |-> Lapsed(duels[i])]
    /\ settler' = [pc |-> "select", at |-> now]
    /\ UNCHANGED <<now, requests, faults>>

StillBusy(due) == [pc |-> "score", due |-> due]
Remaining(due) == IF due = <<>> THEN Rest ELSE [pc |-> "score", due |-> due]

\* ORDER BY ends_at, id
Sooner == {p \in Ids \X Ids : \/ duels[p[1]].ends < duels[p[2]].ends
                              \/ duels[p[1]].ends = duels[p[2]].ends /\ p[1] < p[2]}

Due(at) ==
    LET sorted == OrderedBy({i \in Ids : Live(i) /\ duels[i].ends <= at}, Sooner)
    IN  SubSeq(sorted, 1, IF DueLimit < Len(sorted) THEN DueLimit ELSE Len(sorted))

TickSelects ==
    /\ settler.pc = "select"
    /\ settler' = Remaining(Due(settler.at))
    /\ UNCHANGED <<now, duels, requests, faults>>

TickMeasures ==
    /\ settler.pc = "score" /\ settler.due # <<>>
    /\ \E worth \in Worths :
          settler' = [pc |-> "write", due |-> settler.due, closed |-> worth, at |-> now]
    /\ UNCHANGED <<now, duels, requests, faults>>

\* One that cannot be read or written stays live for the next tick.
TickFails ==
    /\ settler.pc \in {"score", "write"} /\ settler.due # <<>> /\ faults < FaultBound
    /\ faults' = faults + 1
    /\ settler' = Remaining(Tail(settler.due))
    /\ UNCHANGED <<now, duels, requests>>

\* Lapsing or selecting fails, or the process is replaced: whatever was due is left to
\* the next tick, which finds nobody busy.
TickStops ==
    /\ settler # Rest /\ faults < FaultBound
    /\ faults' = faults + 1
    /\ settler' = Rest
    /\ UNCHANGED <<now, duels, requests>>

\* BigInt division truncates toward zero.
ReturnBps(open, close) ==
    IF close >= open THEN ((close - open) * Scale) \div open
                     ELSE -(((open - close) * Scale) \div open)

Behind(a, b) == a < b
Ahead(a, b) == a > b

Winner(duel, closed) ==
    LET challenger == ReturnBps(duel.opened.challenger, closed.challenger)
        opponent == ReturnBps(duel.opened.opponent, closed.opponent)
    IN  IF challenger = opponent THEN Nobody
        ELSE IF Ahead(challenger, opponent) THEN duel.challenger ELSE duel.opponent

\* settleDuel: the row is read again, the winner worked out, and both written.
TickSettles ==
    /\ settler.pc = "write"
    /\ LET i == Head(settler.due)
       IN  duels' = IF Live(i)
                    THEN [duels EXCEPT ![i].status = "settled", ![i].scored = settler.at,
                                       ![i].closed = settler.closed,
                                       ![i].winner = Winner(duels[i], settler.closed)]
                    ELSE duels
    /\ settler' = Remaining(Tail(settler.due))
    /\ UNCHANGED <<now, requests, faults>>

\* Requests are answered before the clock has moved twice.
ClockMoves ==
    /\ now < TimeBound
    /\ \A r \in Requests : requests[r] # Idle => requests[r].at = now
    /\ now' = now + 1
    /\ UNCHANGED <<duels, requests, settler, faults>>

RequestBegins(r) ==
    \/ \E a, b \in Traders : Offer(r, a, b)
    \/ \E i \in Ids :
          \/ Accept(r, i)
          \/ \E how \in {"declined", "withdrawn"} : Close(r, i, how)

RequestGoesOn(r) ==
    \/ OfferLive(r) \/ OfferPair(r) \/ OfferCount(r) \/ OfferInsert(r)
    \/ AcceptMeasure(r) \/ AcceptOffer(r) \/ AcceptBusy(r) \/ AcceptUpdate(r)
    \/ CloseUpdate(r)

SettlerGoesOn == TickExpires \/ TickSelects \/ TickMeasures \/ TickSettles

Next ==
    \/ ClockMoves \/ SettlerGoesOn \/ TickFails \/ TickStops
    \/ \E r \in Requests : RequestBegins(r) \/ RequestGoesOn(r) \/ RequestDies(r)

Fairness ==
    /\ WF_vars(ClockMoves) /\ WF_vars(SettlerGoesOn)
    /\ \A r \in Requests : WF_vars(RequestGoesOn(r))

Spec == Init /\ [][Next]_vars /\ Fairness

------------------------------------------------------------------------------
(***************************************************************************)
(* Correctness                                                             *)
(***************************************************************************)

Over == {"settled", "declined", "withdrawn", "expired"}

\* Rows keep their shapes; a live duel has both opening snapshots and a window,
\* only a settled one has closing snapshots, and the settler works on duels.
TypeOK ==
    /\ now \in 0 .. TimeBound /\ faults \in 0 .. FaultBound /\ Len(duels) <= DuelBound
    /\ \A i \in Ids :
        /\ duels[i].challenger \in Traders /\ duels[i].opponent \in Traders \ {duels[i].challenger}
        /\ duels[i].status \in {"offered", "live"} \cup Over
        /\ duels[i].opened \in Worths <=> duels[i].status \in {"live", "settled"}
        /\ duels[i].closed \in Worths <=> duels[i].status = "settled"
        /\ duels[i].winner \in {Nobody, duels[i].challenger, duels[i].opponent}
    /\ settler.pc \in {"rest", "select", "score", "write"}
    /\ settler.pc \in {"score", "write"} => settler.due # <<>> /\ Range(settler.due) \subseteq Ids

\* A duel has one answer among accept, decline, withdraw and expiry, whichever is written
\* first, and what two traders agreed to stands (duels.ts:186-190, 362-365): once it is
\* live its opening snapshots and its window, and once it is settled its result, are never
\* written again, by a second accept or a second settler.
LawfulMove(before, after) ==
    \/ after = before
    \/ before = "offered" /\ after \in {"live"} \cup (Over \ {"settled"})
    \/ before = "live" /\ after = "settled"
FrozenOnceAgreed ==
    [][\A i \in Ids :
          /\ LawfulMove(duels[i].status, duels'[i].status)
          /\ duels[i].status # "offered" =>
                duels'[i].opened = duels[i].opened /\ duels'[i].ends = duels[i].ends
          /\ duels[i].status \in Over => duels'[i] = duels[i]]_vars

\* A settled duel was scored after its window closed, began while its offer stood, and
\* is never won by the trader whose account did worse, in exact proportion.
FairlyWon(duel) ==
    LET challenger == duel.closed.challenger * duel.opened.opponent
        opponent == duel.closed.opponent * duel.opened.challenger
    IN  /\ duel.scored >= duel.ends /\ duel.ends - Window < duel.expires
        /\ duel.winner = duel.challenger => challenger > opponent
        /\ duel.winner = duel.opponent => opponent > challenger
SettledFairly == TypeOK /\ \A i \in Ids : duels[i].status = "settled" => FairlyWon(duels[i])

\* "Without this, a duel would stay live for ever" (duel-settle.ts:10-12): every offer is
\* answered or lapses and every live duel is settled, though nobody opens the page and
\* a tick fails now and then.
EveryDuelEnds ==
    \A i \in 1 .. DuelBound : [](i \in Ids => <>(i \in Ids /\ duels[i].status \in Over))
==============================================================================
