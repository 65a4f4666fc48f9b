----------------------------- MODULE DuelsProofs -----------------------------
(***************************************************************************)
(* What Duels promises for any number of traders, requests and duels and   *)
(* whatever accounts are found to be worth: proofs checked by TLAPS.       *)
(***************************************************************************)
EXTENDS Duels, BasicLemmas, SequenceTheorems, TLAPS

(***************************************************************************)
(* The inductive invariant                                                 *)
(***************************************************************************)

Snapshot == Worths \cup {Unmeasured}
Duel ==
    [challenger : Traders, opponent : Traders, status : {"offered", "live"} \cup Over,
     expires : Nat, ends : Nat, opened : Snapshot, closed : Snapshot,
     winner : Traders \cup {Nobody}, scored : Nat]

Offering == [pc : OfferSteps, from : Traders, to : Traders, at : Nat]
Measuring == [pc : {"measure"}, id : Nat, at : Nat]
Accepting == [pc : {"offer", "busy", "update"}, id : Nat, at : Nat, opened : Worths]
Closing == [pc : {"close"}, id : Nat, how : {"declined", "withdrawn"}, at : Nat]

Request == {Idle} \cup Offering \cup Measuring \cup Accepting \cup Closing

Selecting == [pc : {"select"}, at : Nat]
Scoring == [pc : {"score"}, due : Seq(Nat)]
Writing == [pc : {"write"}, due : Seq(Nat), closed : Worths, at : Nat]

WellTyped ==
    /\ now \in Nat /\ now <= TimeBound /\ faults \in Nat /\ faults <= FaultBound
    /\ duels \in Seq(Duel)
    /\ requests \in [Requests -> Request]
    /\ settler \in {Rest} \cup Selecting \cup Scoring \cup Writing

\* A request names a row that exists, or two traders; no clock read runs ahead.
RequestsSane ==
    \A r \in Requests :
        /\ requests[r].pc \in OfferSteps => requests[r].from # requests[r].to
        /\ requests[r].pc \in {"measure", "offer", "busy", "update", "close"} => requests[r].id \in Ids

\* Every offer in flight has a row kept for it under the bound.
Offers == {r \in Requests : requests[r].pc \in OfferSteps}
RoomForOffers == Len(duels) + Cardinality(Offers) <= DuelBound

\* What a row says of itself, whatever is in flight.
Agreed(duel) == duel.status \in {"live", "settled"}
RowSane(duel) ==
    /\ duel.challenger # duel.opponent
    /\ duel.opened \in Worths <=> Agreed(duel)
    /\ duel.closed \in Worths <=> duel.status = "settled"
    /\ duel.winner \in {Nobody, duel.challenger, duel.opponent}
    /\ Agreed(duel) => duel.ends - Window < duel.expires
    /\ duel.status = "settled" => FairlyWon(duel)
RowsSane == \A i \in Ids : RowSane(duels[i])

\* The settler works through duels that were agreed to and whose windows had closed
\* when it measured them.
SettlerSane ==
    /\ settler.pc = "select" => settler.at <= now
    /\ settler.pc = "write" => settler.at <= now
    /\ settler.pc \in {"score", "write"} =>
        /\ settler.due # <<>>
        /\ \A k \in 1 .. Len(settler.due) :
              /\ settler.due[k] \in Ids
              /\ Agreed(duels[settler.due[k]])
              /\ duels[settler.due[k]].ends <= now
              /\ settler.pc = "write" => duels[settler.due[k]].ends <= settler.at

IInv == WellTyped /\ RequestsSane /\ RoomForOffers /\ RowsSane /\ SettlerSane

(***************************************************************************)
(* Lemmas                                                                  *)
(***************************************************************************)

\* Whoever did no better in exact proportion shows no better return, truncation included.
LEMMA ReturnOrder ==
    ASSUME NEW o \in Nat \ {0}, NEW c \in Nat \ {0}, NEW p \in Nat \ {0}, NEW d \in Nat \ {0},
           c * p <= d * o
    PROVE  ReturnBps(o, c) <= ReturnBps(p, d)
<1>0. Scale \in Nat \ {0}
  BY WorthAssumption
<1>1. CASE c >= o /\ d >= p
  <2>1. (c - o) * p <= (d - p) * o
    BY Z3
  <2>2. ((c - o) * Scale) * p <= ((d - p) * Scale) * o
    <3>1. c - o \in Nat /\ d - p \in Nat /\ (c - o) * p \in Nat /\ (d - p) * o \in Nat
      BY <1>1, ProductOrder
    <3>2. ((c - o) * p) * Scale <= ((d - p) * o) * Scale
      BY <1>0, <2>1, <3>1, ProductOrder
    <3> QED
      BY <1>0, <3>1, <3>2, Z3
  <2>3. (c - o) * Scale \in Nat /\ (d - p) * Scale \in Nat
    BY <1>0, <1>1, ProductOrder
  <2>4. ((c - o) * Scale) \div o <= ((d - p) * Scale) \div p
    BY <2>2, <2>3, FloorOrder
  <2> QED
    BY <1>1, <2>4 DEF ReturnBps
<1>2. CASE c < o /\ d < p
  <2>1. (p - d) * o <= (o - c) * p
    BY Z3
  <2>2. ((p - d) * Scale) * o <= ((o - c) * Scale) * p
    <3>1. p - d \in Nat /\ o - c \in Nat /\ (p - d) * o \in Nat /\ (o - c) * p \in Nat
      BY <1>2, ProductOrder
    <3>2. ((p - d) * o) * Scale <= ((o - c) * p) * Scale
      BY <1>0, <2>1, <3>1, ProductOrder
    <3> QED
      BY <1>0, <3>1, <3>2, Z3
  <2>3. (p - d) * Scale \in Nat /\ (o - c) * Scale \in Nat
    BY <1>0, <1>2, ProductOrder
  <2>4. ((p - d) * Scale) \div p <= ((o - c) * Scale) \div o
    BY <2>2, <2>3, FloorOrder
  <2>5. ((p - d) * Scale) \div p \in Nat /\ ((o - c) * Scale) \div o \in Nat
    BY <2>3, FloorFacts
  <2> QED
    BY <1>2, <2>4, <2>5 DEF ReturnBps
<1>3. CASE c < o /\ d >= p
  <2>1. (o - c) * Scale \in Nat /\ (d - p) * Scale \in Nat
    BY <1>0, <1>3, ProductOrder
  <2>2. ((o - c) * Scale) \div o \in Nat /\ ((d - p) * Scale) \div p \in Nat
    BY <2>1, FloorFacts
  <2> QED
    BY <1>3, <2>2 DEF ReturnBps
<1>4. CASE c >= o /\ d < p
  <2>1. c * p >= o * p
    BY <1>4, ProductOrder
  <2>2. d * o < p * o
    BY <1>4, Z3
  <2> QED
    BY <2>1, <2>2, Z3
<1> QED
  BY <1>1, <1>2, <1>3, <1>4

LEMMA ReturnIsInt ==
    ASSUME NEW o \in Nat \ {0}, NEW c \in Nat \ {0}
    PROVE  ReturnBps(o, c) \in Int
<1>1. c >= o => (c - o) * Scale \in Nat /\ ((c - o) * Scale) \div o \in Nat
  BY WorthAssumption, ProductOrder, FloorFacts
<1>2. c < o => (o - c) * Scale \in Nat /\ ((o - c) * Scale) \div o \in Nat
  BY WorthAssumption, ProductOrder, FloorFacts
<1> QED
  BY <1>1, <1>2 DEF ReturnBps

\* The duels a tick takes up: live ones whose window has closed.
LEMMA DueFacts ==
    ASSUME WellTyped, NEW at \in Nat
    PROVE  /\ Due(at) \in Seq(Nat)
           /\ \A k \in 1 .. Len(Due(at)) :
                 /\ Due(at)[k] \in Ids
                 /\ Live(Due(at)[k]) /\ duels[Due(at)[k]].ends <= at
<1> DEFINE ids == {i \in Ids : Live(i) /\ duels[i].ends <= at}
           sorted == OrderedBy(ids, Sooner)
<1>1. Ids = 1 .. Len(duels) /\ Len(duels) \in Nat /\ \A i \in Ids : duels[i] \in Duel
  BY DEF WellTyped, Ids
<1>2. IsFiniteSet(ids)
  <2>1. IsFiniteSet(Ids)
    BY <1>1, FS_Interval
  <2> QED
    BY <2>1, FS_Subset
<1>3. StrictOrder(ids, Sooner)
  <2>1. \A i \in ids : i \in Nat /\ duels[i].ends \in Nat
    BY <1>1 DEF Duel
  <2> QED
    BY <2>1 DEF StrictOrder, Sooner
<1>4. Cardinality(ids) \in Nat /\ sorted \in Seq(ids) /\ Len(sorted) = Cardinality(ids)
  <2> HIDE DEF ids
  <2> QED
    BY <1>2, <1>3, OrderedBySorts
<1>6. Due(at) = SubSeq(sorted, 1, IF DueLimit < Len(sorted) THEN DueLimit ELSE Len(sorted))
  BY DEF Due
<1>7. Due(at) \in Seq(ids)
  <2> HIDE DEF ids, sorted
  <2> QED
    BY <1>4, <1>6, BoundAssumption
<1>8. ids \subseteq Nat
  BY <1>1
<1>9. \A k \in 1 .. Len(Due(at)) : Due(at)[k] \in ids
  <2> HIDE DEF ids
  <2> QED
    BY <1>7
<1> QED
  <2>1. Due(at) \in Seq(Nat)
    <3> HIDE DEF ids
    <3> QED
      BY <1>7, <1>8, SeqOfMore
  <2> QED
    BY <1>9, <2>1

LEMMA OffersCounted ==
    /\ IsFiniteSet(Offers) /\ Cardinality(Offers) \in Nat
    /\ IsFiniteSet(Offers') /\ Cardinality(Offers') \in Nat
<1>1. Offers \subseteq Requests /\ Offers' \subseteq Requests
  BY DEF Offers
<1> QED
  BY <1>1, CallerAssumption, FS_Subset, FS_CardinalityType

\* The fields a request has in each of its steps.
LEMMA RequestFields ==
    ASSUME WellTyped, NEW r \in Requests
    PROVE  /\ requests[r] \in Request
           /\ requests[r].pc \in OfferSteps => requests[r] \in Offering
           /\ requests[r].pc = "measure" => requests[r] \in Measuring
           /\ requests[r].pc \in {"offer", "busy", "update"} => requests[r] \in Accepting
           /\ requests[r].pc = "close" => requests[r] \in Closing
BY DEF WellTyped, Request, Idle, Offering, Measuring, Accepting, Closing, OfferSteps

\* A step that only moves one request on keeps the invariant.
LEMMA RequestMoves ==
    ASSUME IInv, NEW r \in Requests, NEW q \in Request,
           Becomes(r, q), UNCHANGED <<now, duels, settler, faults>>,
           q.pc \in OfferSteps => q.from # q.to,
           q.pc \in {"measure", "offer", "busy", "update", "close"} => q.id \in Ids,
           Len(duels) + Cardinality(Offers') <= DuelBound
    PROVE  IInv'
<1>1. WellTyped'
  BY DEF IInv, WellTyped, Becomes, Request
<1>2. RequestsSane'
  BY DEF IInv, WellTyped, RequestsSane, Becomes, Ids
<1>3. RoomForOffers'
  BY DEF RoomForOffers
<1>4. RowsSane' /\ SettlerSane'
  BY DEF IInv, RowsSane, RowSane, SettlerSane, Agreed, FairlyWon, Ids
<1> QED
  BY <1>1, <1>2, <1>3, <1>4 DEF IInv

\* A request that is no offer, or already was one, takes no more room.
LEMMA RoomKept ==
    ASSUME IInv, NEW r \in Requests, NEW q, Becomes(r, q), UNCHANGED duels,
           q.pc \in OfferSteps => requests[r].pc \in OfferSteps
    PROVE  Len(duels) + Cardinality(Offers') <= DuelBound
<1>1. Offers' \subseteq Offers
  BY DEF Offers, Becomes, IInv, WellTyped
<1>2. Cardinality(Offers') <= Cardinality(Offers)
  BY <1>1, OffersCounted, FS_Subset
<1>3. Len(duels) \in Nat
  BY DEF IInv, WellTyped
<1> QED
  BY <1>2, <1>3, OffersCounted, BoundAssumption DEF IInv, RoomForOffers

\* A check a handler makes.
LEMMA CheckStep ==
    ASSUME IInv, NEW r \in Requests, NEW step, NEW passes, NEW next,
           Check(r, step, passes, next),
           \/ step \in OfferSteps /\ next \in OfferSteps
           \/ step \in {"offer", "busy"} /\ next \in {"busy", "update"}
    PROVE  IInv'
<1> DEFINE q == IF passes THEN [requests[r] EXCEPT !.pc = next] ELSE Idle
<1>1. Becomes(r, q) /\ UNCHANGED <<now, duels, settler, faults>> /\ requests[r].pc = step
  BY DEF Check
<1>2. /\ requests[r].pc \in OfferSteps => requests[r] \in Offering
      /\ requests[r].pc \in {"offer", "busy", "update"} => requests[r] \in Accepting
  BY RequestFields DEF IInv
<1>3. /\ requests[r].pc \in OfferSteps => requests[r].from # requests[r].to
      /\ requests[r].pc \in {"offer", "busy"} => requests[r].id \in Ids
  BY DEF IInv, RequestsSane
<1>4. q \in Request
  BY <1>1, <1>2 DEF Request, Offering, Accepting, Idle, OfferSteps
<1>5. q.pc \in OfferSteps => q.from # q.to /\ requests[r].pc \in OfferSteps
  BY <1>1, <1>2, <1>3 DEF Offering, Accepting, Idle, OfferSteps
<1>6. q.pc \in {"measure", "offer", "busy", "update", "close"} => q.id \in Ids
  BY <1>1, <1>2, <1>3 DEF Offering, Accepting, Idle, OfferSteps
<1> HIDE DEF q
<1> QED
  BY <1>1, <1>4, <1>5, <1>6, RoomKept, RequestMoves

\* Rows that change one by one, each to a sane one, and stay agreed to with the same
\* window if they were.
RowMoves(before, after) ==
    /\ after \in Duel /\ RowSane(after)
    /\ Agreed(before) => Agreed(after) /\ after.ends = before.ends
RowsMove(table) ==
    /\ table = [i \in Ids |-> table[i]]
    /\ \A i \in Ids : RowMoves(duels[i], table[i])

LEMMA RowsMoved ==
    ASSUME IInv, NEW table, RowsMove(table), duels' = table, now' = now
    PROVE  /\ duels' \in Seq(Duel) /\ Len(duels') = Len(duels) /\ Ids' = Ids
           /\ RowsSane'
           /\ settler' = settler => SettlerSane'
<1>1. Ids = 1 .. Len(duels) /\ Len(duels) \in Nat
  BY DEF IInv, WellTyped, Ids
<1>2. table \in [1 .. Len(duels) -> Duel]
  BY <1>1 DEF RowsMove, RowMoves
<1>3. duels' \in Seq(Duel) /\ Len(duels') = Len(duels) /\ Ids' = Ids
  BY <1>1, <1>2 DEF Ids
<1>4. \A i \in Ids : RowMoves(duels[i], duels'[i])
  BY DEF RowsMove
<1>5. RowsSane'
  BY <1>3, <1>4 DEF RowsSane, RowMoves, RowSane, Agreed, FairlyWon
<1>6. ASSUME settler' = settler PROVE SettlerSane'
  BY <1>3, <1>4, <1>6 DEF IInv, SettlerSane, RowMoves
<1> QED
  BY <1>3, <1>5, <1>6

\* A request that writes the rows and is answered.
LEMMA RequestWrites ==
    ASSUME IInv, NEW r \in Requests, NEW table, RowsMove(table), duels' = table,
           Becomes(r, Idle), UNCHANGED <<now, settler, faults>>
    PROVE  IInv'
<1>1. /\ duels' \in Seq(Duel) /\ Len(duels') = Len(duels) /\ Ids' = Ids
      /\ RowsSane' /\ SettlerSane'
  BY RowsMoved
<1>2. WellTyped'
  BY <1>1 DEF IInv, WellTyped, Becomes, Request
<1>3. RequestsSane'
  BY <1>1 DEF IInv, WellTyped, RequestsSane, Becomes, Idle, OfferSteps
<1>4. RoomForOffers'
  <2>1. Offers' \subseteq Offers
    BY DEF Offers, Becomes, IInv, WellTyped, Idle, OfferSteps
  <2>2. Cardinality(Offers') <= Cardinality(Offers)
    BY <2>1, OffersCounted, FS_Subset
  <2>3. Len(duels) \in Nat
    BY DEF IInv, WellTyped
  <2> QED
    BY <1>1, <2>2, <2>3, OffersCounted, BoundAssumption DEF IInv, RoomForOffers
<1> QED
  BY <1>1, <1>2, <1>3, <1>4 DEF IInv

LEMMA RowStays ==
    ASSUME IInv, NEW i \in Ids
    PROVE  RowMoves(duels[i], duels[i]) /\ duels[i] \in Duel
BY DEF IInv, WellTyped, RowsSane, RowMoves, Ids

(***************************************************************************)
(* The requests                                                            *)
(***************************************************************************)

LEMMA OfferBegins ==
    ASSUME IInv, NEW r \in Requests, NEW a \in Traders, NEW b \in Traders, Offer(r, a, b)
    PROVE  IInv'
<1> DEFINE q == [pc |-> "live", from |-> a, to |-> b, at |-> now]
<1>1. q \in Request
  BY DEF Request, Offering, OfferSteps, IInv, WellTyped
<1>2. Offers' = Offers \cup {r} /\ r \notin Offers
  BY DEF Offers, Offer, Becomes, IInv, WellTyped, Idle, OfferSteps
<1>3. Cardinality(Offers') = Cardinality(Offers) + 1
  BY <1>2, OffersCounted, FS_AddElement
<1>4. Len(duels) + Cardinality(Offers) < DuelBound /\ Len(duels) \in Nat
  BY DEF Offer, Offers, IInv, WellTyped
<1>5. Len(duels) + Cardinality(Offers') <= DuelBound
  BY <1>3, <1>4, OffersCounted, BoundAssumption
<1>6. Becomes(r, q) /\ a # b /\ UNCHANGED <<now, duels, settler, faults>>
  BY DEF Offer
<1>7. q.from # q.to /\ q.pc = "live"
  BY <1>6
<1> HIDE DEF q
<1> QED
  BY <1>1, <1>5, <1>6, <1>7, RequestMoves DEF OfferSteps

LEMMA OfferWritten ==
    ASSUME IInv, NEW r \in Requests, OfferInsert(r)
    PROVE  IInv'
<1> DEFINE row == [challenger |-> requests[r].from, opponent |-> requests[r].to,
                   status |-> "offered", expires |-> requests[r].at + Ttl, ends |-> 0,
                   opened |-> Unmeasured, closed |-> Unmeasured, winner |-> Nobody, scored |-> 0]
<1>0. requests[r].pc = "insert" /\ duels' = Append(duels, row) /\ Becomes(r, Idle)
      /\ UNCHANGED <<now, settler, faults>>
  BY DEF OfferInsert
<1>1. requests[r] \in Offering /\ requests[r].from # requests[r].to
  BY <1>0, RequestFields DEF IInv, RequestsSane, OfferSteps
<1>2. Unmeasured \notin Worths
  BY WorthAssumption DEF Unmeasured
<1>3. row \in Duel
  BY <1>1, TimeAssumption DEF Duel, Offering, Snapshot
<1>4. RowSane(row)
  BY <1>1, <1>2 DEF RowSane, Agreed
<1> HIDE DEF row
<1>5. duels \in Seq(Duel) /\ Len(duels) \in Nat /\ Ids = 1 .. Len(duels)
  BY DEF IInv, WellTyped, Ids
<1>6. /\ duels' \in Seq(Duel) /\ Len(duels') = Len(duels) + 1
      /\ \A i \in Ids : duels'[i] = duels[i]
      /\ duels'[Len(duels) + 1] = row /\ Ids' = Ids \cup {Len(duels) + 1}
  BY <1>0, <1>3, <1>5 DEF Ids
<1>7. WellTyped'
  BY <1>0, <1>6 DEF IInv, WellTyped, Becomes, Request
<1>8. RequestsSane'
  BY <1>0, <1>6 DEF IInv, WellTyped, RequestsSane, Becomes, Idle, OfferSteps
<1>9. RoomForOffers'
  <2>1. Offers' = Offers \ {r} /\ r \in Offers
    BY <1>0 DEF Offers, Becomes, IInv, WellTyped, Idle, OfferSteps
  <2>2. Cardinality(Offers') = Cardinality(Offers) - 1
    BY <2>1, OffersCounted, FS_RemoveElement
  <2> QED
    BY <1>5, <1>6, <2>2, OffersCounted, BoundAssumption DEF IInv, RoomForOffers
<1>10. RowsSane'
  <2>1. \A i \in Ids' : RowSane(duels'[i])
    BY <1>4, <1>6 DEF IInv, RowsSane
  <2> QED
    BY <2>1 DEF RowsSane, RowSane, Agreed, FairlyWon
<1>11. SettlerSane'
  BY <1>0, <1>6 DEF IInv, SettlerSane
<1> QED
  BY <1>7, <1>8, <1>9, <1>10, <1>11 DEF IInv

LEMMA AcceptBegins ==
    ASSUME IInv, NEW r \in Requests, NEW i \in Ids, Accept(r, i)
    PROVE  IInv'
<1> DEFINE q == [pc |-> "measure", id |-> i, at |-> now]
<1>1. q \in Request /\ q.pc = "measure" /\ q.id \in Ids
  BY DEF Request, Measuring, IInv, WellTyped, Ids
<1>2. Becomes(r, q) /\ UNCHANGED <<now, duels, settler, faults>>
  BY DEF Accept
<1> HIDE DEF q
<1> QED
  BY <1>1, <1>2, RoomKept, RequestMoves DEF OfferSteps

LEMMA AcceptMeasured ==
    ASSUME IInv, NEW r \in Requests, AcceptMeasure(r)
    PROVE  IInv'
<1>1. requests[r].pc = "measure" /\ requests[r] \in Measuring /\ requests[r].id \in Ids
  BY RequestFields DEF AcceptMeasure, IInv, RequestsSane
<1> PICK worth \in Worths :
         Becomes(r, [pc |-> "offer", id |-> requests[r].id, at |-> now, opened |-> worth])
  BY DEF AcceptMeasure
<1> DEFINE q == [pc |-> "offer", id |-> requests[r].id, at |-> now, opened |-> worth]
<1>2. q \in Request /\ q.pc = "offer" /\ q.id \in Ids
  BY <1>1 DEF Request, Measuring, Accepting, IInv, WellTyped
<1>3. Becomes(r, q) /\ UNCHANGED <<now, duels, settler, faults>>
  BY DEF AcceptMeasure
<1> HIDE DEF q
<1> QED
  BY <1>2, <1>3, RoomKept, RequestMoves DEF OfferSteps

LEMMA AcceptWritten ==
    ASSUME IInv, NEW r \in Requests, AcceptUpdate(r)
    PROVE  IInv'
<1> DEFINE i == requests[r].id
           row == [duels[i] EXCEPT !.status = "live", !.ends = requests[r].at + Window,
                                   !.opened = requests[r].opened]
<1>1. requests[r].pc = "update" /\ requests[r] \in Accepting /\ i \in Ids
  BY RequestFields DEF AcceptUpdate, IInv, RequestsSane
<1>2. CASE Acceptable(i, requests[r].at)
  <2>1. RowMoves(duels[i], row)
    <3>1. duels[i] \in Duel /\ RowSane(duels[i]) /\ duels[i].status = "offered"
          /\ duels[i].expires > requests[r].at
      BY <1>1, <1>2, RowStays DEF RowMoves, Acceptable, Open, StillOffered
    <3>2. row \in Duel
      <4>1. requests[r].at + Window \in Nat /\ requests[r].opened \in Snapshot
        BY <1>1, TimeAssumption DEF Accepting, Snapshot
      <4> HIDE DEF i
      <4> QED
        BY <3>1, <4>1 DEF Duel
    <3>3. RowSane(row) /\ ~Agreed(duels[i])
      BY <1>1, <3>1, TimeAssumption DEF Duel, Accepting, RowSane, Agreed
    <3> QED
      BY <3>2, <3>3 DEF RowMoves
  <2>2. duels' = [duels EXCEPT ![i] = row]
    BY <1>1, <1>2 DEF AcceptUpdate, Ids, IInv, WellTyped
  <2> HIDE DEF row
  <2>3. RowsMove(duels')
    BY <1>1, <2>1, <2>2, RowStays DEF RowsMove, Ids, IInv, WellTyped
  <2> QED
    BY <2>3, RequestWrites DEF AcceptUpdate
<1>3. CASE ~Acceptable(i, requests[r].at)
  <2>1. duels' = duels
    BY <1>3 DEF AcceptUpdate
  <2>2. RowsMove(duels')
    BY <2>1, RowStays DEF RowsMove, Ids, IInv, WellTyped
  <2> QED
    BY <2>2, RequestWrites DEF AcceptUpdate
<1> QED
  BY <1>2, <1>3

LEMMA CloseBegins ==
    ASSUME IInv, NEW r \in Requests, NEW i \in Ids, NEW how \in {"declined", "withdrawn"}, Close(r, i, how)
    PROVE  IInv'
<1> DEFINE q == [pc |-> "close", id |-> i, how |-> how, at |-> now]
<1>1. q \in Request /\ q.pc = "close" /\ q.id \in Ids
  BY DEF Request, Closing, IInv, WellTyped, Ids
<1>2. Becomes(r, q) /\ UNCHANGED <<now, duels, settler, faults>>
  BY DEF Close
<1> HIDE DEF q
<1> QED
  BY <1>1, <1>2, RoomKept, RequestMoves DEF OfferSteps

LEMMA CloseWritten ==
    ASSUME IInv, NEW r \in Requests, CloseUpdate(r)
    PROVE  IInv'
<1> DEFINE i == requests[r].id
           row == [duels[i] EXCEPT !.status = requests[r].how]
<1>1. requests[r].pc = "close" /\ requests[r] \in Closing /\ i \in Ids
  BY RequestFields DEF CloseUpdate, IInv, RequestsSane
<1>2. CASE StillOffered(i)
  <2>1. RowMoves(duels[i], row)
    <3>1. duels[i] \in Duel /\ RowSane(duels[i]) /\ duels[i].status = "offered"
      BY <1>1, <1>2, RowStays DEF RowMoves, StillOffered
    <3>2. row \in Duel
      BY <1>1, <3>1 DEF Duel, Closing, Over
    <3>3. RowSane(row) /\ ~Agreed(duels[i])
      BY <1>1, <3>1 DEF Duel, Closing, RowSane, Agreed
    <3> QED
      BY <3>2, <3>3 DEF RowMoves
  <2>2. duels' = [duels EXCEPT ![i] = row]
    BY <1>1, <1>2 DEF CloseUpdate, Ids, IInv, WellTyped
  <2> HIDE DEF row
  <2>3. RowsMove(duels')
    BY <1>1, <2>1, <2>2, RowStays DEF RowsMove, Ids, IInv, WellTyped
  <2> QED
    BY <2>3, RequestWrites DEF CloseUpdate
<1>3. CASE ~StillOffered(i)
  <2>1. duels' = duels
    BY <1>3 DEF CloseUpdate
  <2>2. RowsMove(duels')
    BY <2>1, RowStays DEF RowsMove, Ids, IInv, WellTyped
  <2> QED
    BY <2>2, RequestWrites DEF CloseUpdate
<1> QED
  BY <1>2, <1>3

LEMMA RequestDropped ==
    ASSUME IInv, NEW r \in Requests, RequestDies(r)
    PROVE  IInv'
<1>1. Idle \in Request /\ Idle.pc = "idle"
  BY DEF Request, Idle
<1> QED
  BY <1>1, RoomKept, RequestMoves DEF RequestDies, OfferSteps

(***************************************************************************)
(* The settler and the clock                                               *)
(***************************************************************************)

\* The fields the settler has in each step of a tick.
LEMMA SettlerFields ==
    ASSUME WellTyped
    PROVE  /\ settler.pc = "select" => settler \in Selecting
           /\ settler.pc = "score" => settler \in Scoring
           /\ settler.pc = "write" => settler \in Writing
           /\ settler = Rest => settler.pc = "rest"
BY DEF WellTyped, Rest, Selecting, Scoring, Writing

\* What is left of a list the settler works through is as sane as the list.
LEMMA SettlerContinues ==
    ASSUME IInv, NEW due \in Seq(Nat),
           \A k \in 1 .. Len(due) :
              due[k] \in Ids' /\ Agreed(duels'[due[k]]) /\ duels'[due[k]].ends <= now',
           settler' = Remaining(due)
    PROVE  SettlerSane' /\ settler' \in {Rest} \cup Selecting \cup Scoring \cup Writing
BY DEF SettlerSane, Remaining, Rest, Scoring

LEMMA SettlerMoves ==
    ASSUME IInv, UNCHANGED <<now, duels, requests>>, faults' \in 0 .. FaultBound,
           settler' \in {Rest} \cup Selecting \cup Scoring \cup Writing, SettlerSane'
    PROVE  IInv'
BY BoundAssumption DEF IInv, WellTyped, RequestsSane, RoomForOffers, Offers, RowsSane, RowSane, Agreed, FairlyWon, Ids

LEMMA SettlerWrites ==
    ASSUME IInv, NEW table, RowsMove(table), duels' = table, UNCHANGED <<now, requests, faults>>,
           settler' \in {Rest} \cup Selecting \cup Scoring \cup Writing, SettlerSane'
    PROVE  IInv'
<1>1. duels' \in Seq(Duel) /\ Len(duels') = Len(duels) /\ Ids' = Ids /\ RowsSane'
  BY RowsMoved
<1> QED
  BY <1>1 DEF IInv, WellTyped, RequestsSane, RoomForOffers, Offers

LEMMA Expires ==
    ASSUME IInv, TickExpires
    PROVE  IInv'
<1> DEFINE table == [i \in Ids |-> Lapsed(duels[i])]
<1>1. duels' = table /\ settler' = [pc |-> "select", at |-> now] /\ UNCHANGED <<now, requests, faults>>
  BY DEF TickExpires
<1>2. \A i \in Ids : RowMoves(duels[i], Lapsed(duels[i]))
  <2>1. ASSUME NEW i \in Ids PROVE RowMoves(duels[i], Lapsed(duels[i]))
    <3>1. duels[i] \in Duel /\ RowSane(duels[i])
      BY RowStays DEF RowMoves
    <3>2. CASE duels[i].status = "offered" /\ duels[i].expires <= now
      <4>1. [duels[i] EXCEPT !.status = "expired"] \in Duel
        BY <3>1 DEF Duel, Over
      <4>2. RowSane([duels[i] EXCEPT !.status = "expired"]) /\ ~Agreed(duels[i])
        BY <3>1, <3>2 DEF RowSane, Agreed, Duel
      <4> QED
        BY <3>2, <4>1, <4>2 DEF RowMoves, Lapsed
    <3> QED
      BY <3>2, RowStays DEF Lapsed
  <2> QED
    BY <2>1
<1>3. RowsMove(table)
  BY <1>2 DEF RowsMove
<1>4. SettlerSane' /\ settler' \in Selecting
  BY <1>1 DEF SettlerSane, Selecting, IInv, WellTyped
<1> HIDE DEF table
<1> QED
  BY <1>1, <1>3, <1>4, SettlerWrites

LEMMA Selects ==
    ASSUME IInv, TickSelects
    PROVE  IInv'
<1>1. settler \in Selecting /\ settler.at <= now /\ settler' = Remaining(Due(settler.at))
      /\ UNCHANGED <<now, duels, requests, faults>>
  BY SettlerFields DEF TickSelects, IInv, SettlerSane
<1>2. settler.at \in Nat /\ now \in Nat
  BY <1>1 DEF Selecting, IInv, WellTyped
<1> DEFINE due == Due(settler.at)
<1>3. due \in Seq(Nat) /\ \A k \in 1 .. Len(due) :
          due[k] \in Ids /\ Live(due[k]) /\ duels[due[k]].ends <= settler.at
  BY <1>2, DueFacts DEF IInv
<1>4. settler' = Remaining(due)
  BY <1>1
<1> HIDE DEF due
<1>5. \A k \in 1 .. Len(due) :
          due[k] \in Ids' /\ Agreed(duels'[due[k]]) /\ duels'[due[k]].ends <= now'
  <2>1. \A i \in Ids : duels[i].ends \in Nat /\ Ids' = Ids
    BY <1>1, RowStays DEF Duel, Ids
  <2> QED
    BY <1>1, <1>2, <1>3, <2>1 DEF Live, Agreed
<1> QED
  BY <1>1, <1>3, <1>4, <1>5, SettlerContinues, SettlerMoves DEF IInv, WellTyped

LEMMA Measures ==
    ASSUME IInv, TickMeasures
    PROVE  IInv'
<1>1. settler \in Scoring /\ settler.pc = "score" /\ UNCHANGED <<now, duels, requests, faults>>
  BY SettlerFields DEF TickMeasures, IInv
<1> PICK worth \in Worths :
         settler' = [pc |-> "write", due |-> settler.due, closed |-> worth, at |-> now]
  BY DEF TickMeasures
<1>2. settler' \in Writing
  BY <1>1 DEF Scoring, Writing, IInv, WellTyped
<1>3. SettlerSane'
  BY <1>1 DEF IInv, WellTyped, SettlerSane, Ids
<1> QED
  BY <1>1, <1>2, <1>3, SettlerMoves DEF IInv, WellTyped

\* The rest of the list, after its head has been dealt with.
LEMMA TailFacts ==
    ASSUME IInv, settler.pc \in {"score", "write"}
    PROVE  /\ Tail(settler.due) \in Seq(Nat) /\ Head(settler.due) \in Ids
           /\ \A k \in 1 .. Len(Tail(settler.due)) : \E j \in 1 .. Len(settler.due) :
                 Tail(settler.due)[k] = settler.due[j]
<1>1. settler.due \in Seq(Nat)
  BY SettlerFields DEF IInv, Scoring, Writing
<1>2. settler.due # <<>> /\ \A k \in 1 .. Len(settler.due) : settler.due[k] \in Ids
  BY DEF IInv, SettlerSane
<1> DEFINE due == settler.due
<1> HIDE DEF due
<1>3. due \in Seq(Nat) /\ due # <<>>
  BY <1>1, <1>2 DEF due
<1>4. Tail(due) \in Seq(Nat) /\ Head(due) = due[1] /\ 1 \in 1 .. Len(due) /\ Len(Tail(due)) = Len(due) - 1
  BY <1>3
<1>5. \A k \in 1 .. Len(Tail(due)) : k + 1 \in 1 .. Len(due) /\ Tail(due)[k] = due[k + 1]
  BY <1>3, <1>4
<1> QED
  BY <1>2, <1>4, <1>5 DEF due

LEMMA Fails ==
    ASSUME IInv, TickFails
    PROVE  IInv'
<1>1. settler.pc \in {"score", "write"} /\ settler' = Remaining(Tail(settler.due))
      /\ UNCHANGED <<now, duels, requests>>
  BY DEF TickFails
<1>2. faults' \in 0 .. FaultBound
  BY BoundAssumption DEF TickFails, IInv, WellTyped
<1>3. \A k \in 1 .. Len(Tail(settler.due)) :
          /\ Tail(settler.due)[k] \in Ids' /\ Agreed(duels'[Tail(settler.due)[k]])
          /\ duels'[Tail(settler.due)[k]].ends <= now'
  BY <1>1, TailFacts DEF IInv, SettlerSane, Ids
<1> QED
  BY <1>1, <1>2, <1>3, TailFacts, SettlerContinues, SettlerMoves

LEMMA Stops ==
    ASSUME IInv, TickStops
    PROVE  IInv'
<1>1. settler' = Rest /\ UNCHANGED <<now, duels, requests>>
  BY DEF TickStops
<1>2. faults' \in 0 .. FaultBound
  BY BoundAssumption DEF TickStops, IInv, WellTyped
<1>3. SettlerSane'
  BY <1>1 DEF SettlerSane, Rest
<1> QED
  BY <1>1, <1>2, <1>3, SettlerMoves

\* The winner is decided as FairlyWon asks.
LEMMA WinnerFair ==
    ASSUME NEW duel \in Duel, RowSane(duel), duel.status = "live", NEW closed \in Worths
    PROVE  /\ Winner(duel, closed) \in {Nobody, duel.challenger, duel.opponent}
           /\ Winner(duel, closed) = duel.challenger =>
                 closed.challenger * duel.opened.opponent > closed.opponent * duel.opened.challenger
           /\ Winner(duel, closed) = duel.opponent =>
                 closed.opponent * duel.opened.challenger > closed.challenger * duel.opened.opponent
<1> DEFINE oc == duel.opened.challenger
           oo == duel.opened.opponent
           cc == closed.challenger
           co == closed.opponent
<1>1. oc \in Nat \ {0} /\ oo \in Nat \ {0} /\ cc \in Nat \ {0} /\ co \in Nat \ {0}
  BY WorthAssumption DEF RowSane, Agreed
<1>2. duel.challenger \in Traders /\ duel.opponent \in Traders
      /\ Nobody # duel.challenger /\ Nobody # duel.opponent /\ duel.challenger # duel.opponent
  BY CallerAssumption DEF Duel, RowSane, Nobody
<1>3. cc * oo <= co * oc => ReturnBps(oc, cc) <= ReturnBps(oo, co)
  BY <1>1, ReturnOrder
<1>4. co * oc <= cc * oo => ReturnBps(oo, co) <= ReturnBps(oc, cc)
  BY <1>1, ReturnOrder
<1>5. cc * oo \in Nat /\ co * oc \in Nat
  BY <1>1, ProductOrder
<1>6. ReturnBps(oc, cc) \in Int /\ ReturnBps(oo, co) \in Int
  BY <1>1, ReturnIsInt
<1>7. Winner(duel, closed) = IF ReturnBps(oc, cc) = ReturnBps(oo, co) THEN Nobody
                             ELSE IF ReturnBps(oc, cc) > ReturnBps(oo, co) THEN duel.challenger ELSE duel.opponent
  BY DEF Winner, Ahead
<1> HIDE DEF oc, oo, cc, co
<1>8. /\ Winner(duel, closed) \in {Nobody, duel.challenger, duel.opponent}
      /\ Winner(duel, closed) = duel.challenger => cc * oo > co * oc
      /\ Winner(duel, closed) = duel.opponent => co * oc > cc * oo
  BY <1>2, <1>3, <1>4, <1>5, <1>6, <1>7
<1> QED
  BY <1>8 DEF oc, oo, cc, co

LEMMA Settles ==
    ASSUME IInv, TickSettles
    PROVE  IInv'
<1> DEFINE i == Head(settler.due)
           row == [duels[i] EXCEPT !.status = "settled", !.scored = settler.at,
                                   !.closed = settler.closed,
                                   !.winner = Winner(duels[i], settler.closed)]
<1>1. /\ settler.pc = "write" /\ settler \in Writing /\ i \in Ids
      /\ settler' = Remaining(Tail(settler.due)) /\ UNCHANGED <<now, requests, faults>>
  BY SettlerFields, TailFacts DEF TickSettles, IInv
<1>2. duels[i].ends <= settler.at /\ settler.at \in Nat /\ settler.closed \in Worths
  <2>1. settler.due \in Seq(Nat) /\ settler.due # <<>>
    BY <1>1 DEF Writing, IInv, SettlerSane
  <2>2. 1 \in 1 .. Len(settler.due) /\ i = settler.due[1]
    BY <2>1
  <2> QED
    BY <1>1, <2>2 DEF IInv, SettlerSane, Writing
<1>3. RowsMove(duels') /\ Ids' = Ids
  <2>1. CASE Live(i)
    <3>1. duels[i] \in Duel /\ RowSane(duels[i]) /\ duels[i].status = "live"
      BY <1>1, <2>1, RowStays DEF RowMoves, Live
    <3>2. /\ Winner(duels[i], settler.closed) \in {Nobody, duels[i].challenger, duels[i].opponent}
          /\ Winner(duels[i], settler.closed) = duels[i].challenger =>
                settler.closed.challenger * duels[i].opened.opponent
                   > settler.closed.opponent * duels[i].opened.challenger
          /\ Winner(duels[i], settler.closed) = duels[i].opponent =>
                settler.closed.opponent * duels[i].opened.challenger
                   > settler.closed.challenger * duels[i].opened.opponent
      BY <1>2, <3>1, WinnerFair
    <3> DEFINE w == Winner(duels[i], settler.closed)
    <3>3. w \in Traders \cup {Nobody}
      BY <3>1, <3>2 DEF Duel
    <3> HIDE DEF w
    <3>4. row = [duels[i] EXCEPT !.status = "settled", !.scored = settler.at,
                                 !.closed = settler.closed, !.winner = w]
      BY DEF w
    <3>5. row \in Duel
      <4> HIDE DEF row, i
      <4> QED
        BY <1>2, <3>1, <3>3, <3>4 DEF Duel, Snapshot, Over
    <3>6. /\ row.challenger = duels[i].challenger /\ row.opponent = duels[i].opponent
          /\ row.opened = duels[i].opened /\ row.ends = duels[i].ends /\ row.expires = duels[i].expires
          /\ row.status = "settled" /\ row.scored = settler.at
          /\ row.closed = settler.closed /\ row.winner = w
      <4> HIDE DEF row, i
      <4> QED
        BY <3>1, <3>4 DEF Duel
    <3> HIDE DEF row
    <3>7. FairlyWon(row)
      BY <1>2, <3>1, <3>2, <3>6 DEF FairlyWon, RowSane, Agreed, w
    <3>8. RowMoves(duels[i], row)
      BY <1>2, <3>1, <3>2, <3>5, <3>6, <3>7 DEF RowMoves, RowSane, Agreed, w
    <3>9. duels' = [duels EXCEPT ![i] = row]
      BY <1>1, <2>1 DEF TickSettles, Ids, IInv, WellTyped, row
    <3> QED
      BY <1>1, <3>8, <3>9, RowStays DEF RowsMove, Ids, IInv, WellTyped
  <2>2. CASE ~Live(i)
    <3>1. duels' = duels
      BY <2>2 DEF TickSettles
    <3> QED
      BY <3>1, RowStays DEF RowsMove, Ids, IInv, WellTyped
  <2> QED
    BY <2>1, <2>2
<1>4. \A k \in 1 .. Len(Tail(settler.due)) :
          /\ Tail(settler.due)[k] \in Ids' /\ Agreed(duels'[Tail(settler.due)[k]])
          /\ duels'[Tail(settler.due)[k]].ends <= now'
  <2>1. \A j \in Ids : Agreed(duels[j]) => Agreed(duels'[j]) /\ duels'[j].ends = duels[j].ends
    BY <1>3 DEF RowsMove, RowMoves
  <2>2. \A j \in 1 .. Len(settler.due) :
           /\ settler.due[j] \in Ids /\ Agreed(duels[settler.due[j]])
           /\ duels[settler.due[j]].ends <= now
    BY <1>1 DEF IInv, SettlerSane
  <2>3. Ids \subseteq Ids' /\ now' = now
    BY <1>1, <1>3 DEF RowsMove, Ids
  <2> QED
    BY <1>1, <2>1, <2>2, <2>3, TailFacts
<1> HIDE DEF i
<1>5. SettlerSane' /\ settler' \in {Rest} \cup Selecting \cup Scoring \cup Writing
  BY <1>1, <1>4, TailFacts, SettlerContinues
<1> QED
  BY <1>1, <1>3, <1>5, SettlerWrites

LEMMA Ticks ==
    ASSUME IInv, ClockMoves
    PROVE  IInv'
<1>1. now' \in Nat /\ now' <= TimeBound /\ now' = now + 1 /\ UNCHANGED <<duels, requests, settler, faults>>
  BY BoundAssumption DEF ClockMoves, IInv, WellTyped
<1>2. WellTyped' /\ RequestsSane' /\ RoomForOffers'
  BY <1>1 DEF IInv, WellTyped, RequestsSane, RoomForOffers, Offers, Ids
<1>3. RowsSane'
  BY <1>1 DEF IInv, RowsSane, RowSane, Agreed, FairlyWon, Ids
<1>4. SettlerSane'
  <2>1. \A i \in Ids : duels[i].ends \in Nat
    BY RowStays DEF Duel
  <2>2. settler.pc \in {"select", "write"} => settler.at \in Nat
    BY SettlerFields DEF IInv, Selecting, Writing
  <2> QED
    BY <1>1, <2>1, <2>2 DEF IInv, WellTyped, SettlerSane, Ids
<1> QED
  BY <1>2, <1>3, <1>4 DEF IInv

(***************************************************************************)
(* The theorems                                                            *)
(***************************************************************************)

LEMMA InitInv == Init => IInv
<1> SUFFICES ASSUME Init PROVE IInv
  OBVIOUS
<1>1. WellTyped
  BY BoundAssumption DEF Init, WellTyped, Request
<1>2. Offers = {}
  BY DEF Init, Offers, Idle, OfferSteps
<1>3. RoomForOffers
  BY <1>2, FS_EmptySet, BoundAssumption DEF Init, RoomForOffers
<1>4. RequestsSane /\ RowsSane /\ SettlerSane
  BY DEF Init, RequestsSane, RowsSane, SettlerSane, Idle, OfferSteps, Rest, Ids
<1> QED
  BY <1>1, <1>3, <1>4 DEF IInv

LEMMA RequestStep ==
    ASSUME IInv, NEW r \in Requests, RequestGoesOn(r)
    PROVE  IInv'
<1>1. CASE OfferLive(r)
  BY <1>1, CheckStep DEF OfferLive, OfferSteps
<1>2. CASE OfferPair(r)
  BY <1>2, CheckStep DEF OfferPair, OfferSteps
<1>3. CASE OfferCount(r)
  BY <1>3, CheckStep DEF OfferCount, OfferSteps
<1>4. CASE AcceptOffer(r)
  BY <1>4, CheckStep DEF AcceptOffer, Open
<1>5. CASE AcceptBusy(r)
  BY <1>5, CheckStep DEF AcceptBusy
<1> QED
  BY <1>1, <1>2, <1>3, <1>4, <1>5, OfferWritten, AcceptMeasured, AcceptWritten, CloseWritten DEF RequestGoesOn

LEMMA StepInv == IInv /\ [Next]_vars => IInv'
<1> SUFFICES ASSUME IInv, [Next]_vars PROVE IInv'
  OBVIOUS
<1>1. CASE ClockMoves
  BY <1>1, Ticks
<1>2. CASE SettlerGoesOn
  BY <1>2, Expires, Selects, Measures, Settles DEF SettlerGoesOn
<1>3. CASE TickFails \/ TickStops
  BY <1>3, Fails, Stops
<1>4. ASSUME NEW r \in Requests, RequestBegins(r) PROVE IInv'
  BY <1>4, OfferBegins, AcceptBegins, CloseBegins DEF RequestBegins
<1>5. ASSUME NEW r \in Requests, RequestGoesOn(r) PROVE IInv'
  BY <1>5, RequestStep
<1>6. ASSUME NEW r \in Requests, RequestDies(r) PROVE IInv'
  BY <1>6, RequestDropped
<1>7. CASE UNCHANGED vars
  BY <1>7 DEF vars, IInv, WellTyped, RequestsSane, RoomForOffers, Offers, RowsSane, RowSane, Agreed,
              FairlyWon, SettlerSane, Ids
<1> QED
  BY <1>1, <1>2, <1>3, <1>4, <1>5, <1>6, <1>7 DEF Next

\* The strengthened invariant of any number of requests and duels.
THEOREM Invariance == Spec => []IInv
<1> QED
  BY InitInv, StepInv, PTL DEF Spec

\* A settled duel was scored after its window closed and never went to the trader whose
\* account did worse in exact proportion, whatever the accounts were worth and whatever
\* the scale returns are truncated at (duels.ts:305-308, 383-385).
THEOREM SettlesFairly == Spec => []SettledFairly
<1>1. IInv => SettledFairly
  <2> SUFFICES ASSUME IInv PROVE SettledFairly
    OBVIOUS
  <2>1. now \in 0 .. TimeBound /\ faults \in 0 .. FaultBound /\ Len(duels) <= DuelBound
    BY OffersCounted, BoundAssumption DEF IInv, WellTyped, RoomForOffers
  <2>2. \A i \in Ids :
          /\ duels[i].challenger \in Traders /\ duels[i].opponent \in Traders \ {duels[i].challenger}
          /\ duels[i].status \in {"offered", "live"} \cup Over
          /\ duels[i].opened \in Worths <=> duels[i].status \in {"live", "settled"}
          /\ duels[i].closed \in Worths <=> duels[i].status = "settled"
          /\ duels[i].winner \in {Nobody, duels[i].challenger, duels[i].opponent}
          /\ duels[i].status = "settled" => FairlyWon(duels[i])
    BY RowStays DEF RowMoves, RowSane, Agreed, Duel
  <2>3. settler.pc \in {"rest", "select", "score", "write"}
    BY DEF IInv, WellTyped, Rest, Selecting, Scoring, Writing
  <2>4. settler.pc \in {"score", "write"} => settler.due # <<>> /\ Range(settler.due) \subseteq Ids
    <3>1. settler.pc \in {"score", "write"} => settler.due \in Seq(Nat)
      BY SettlerFields DEF IInv, Scoring, Writing
    <3> QED
      BY <3>1 DEF IInv, SettlerSane, Range
  <2> QED
    BY <2>1, <2>2, <2>3, <2>4 DEF SettledFairly, TypeOK
<1> QED
  BY <1>1, Invariance, PTL

\* What may become of one row in a step.
Stands(i) ==
    /\ LawfulMove(duels[i].status, duels'[i].status)
    /\ duels[i].status # "offered" =>
          duels'[i].opened = duels[i].opened /\ duels'[i].ends = duels[i].ends
    /\ duels[i].status \in Over => duels'[i] = duels[i]

LEMMA RowStands ==
    ASSUME IInv, [Next]_vars, NEW i \in Ids
    PROVE  Stands(i)
<1>0. duels \in Seq(Duel) /\ Ids = 1 .. Len(duels) /\ duels[i] \in Duel
  BY RowStays DEF IInv, WellTyped, Ids
<1>1. CASE duels' = duels
  BY <1>1 DEF Stands, LawfulMove
<1>2. ASSUME NEW r \in Requests, OfferInsert(r) PROVE Stands(i)
  <2>1. PICK row : duels' = Append(duels, row)
    BY <1>2 DEF OfferInsert
  <2>2. duels'[i] = duels[i]
    BY <1>0, <2>1
  <2> QED
    BY <2>2 DEF Stands, LawfulMove
<1>3. ASSUME NEW after, duels'[i] = after, duels[i].status = "offered",
             after.status \in {"offered", "live", "declined", "withdrawn", "expired"}
      PROVE  Stands(i)
  BY <1>3 DEF Stands, LawfulMove, Over
<1>4. ASSUME duels'[i] = duels[i] PROVE Stands(i)
  BY <1>4 DEF Stands, LawfulMove
<1>5. ASSUME NEW r \in Requests, AcceptUpdate(r) PROVE Stands(i)
  <2> DEFINE j == requests[r].id
             row == [duels[j] EXCEPT !.status = "live", !.ends = requests[r].at + Window,
                                     !.opened = requests[r].opened]
  <2>1. j \in Ids
    BY <1>5 DEF AcceptUpdate, IInv, RequestsSane
  <2>2. CASE i = j /\ Acceptable(j, requests[r].at)
    <3>1. duels' = [duels EXCEPT ![j] = row]
      BY <1>0, <1>5, <2>1, <2>2 DEF AcceptUpdate
    <3>2. row.status = "live"
      BY <1>0, <2>2 DEF Duel
    <3> HIDE DEF row
    <3>3. duels'[i] = row
      BY <1>0, <2>2, <3>1
    <3>4. duels[i].status = "offered"
      BY <2>2 DEF Acceptable, Open, StillOffered
    <3> QED
      BY <1>3, <3>2, <3>3, <3>4
  <2>3. CASE ~ (i = j /\ Acceptable(j, requests[r].at))
    <3>1. duels'[i] = duels[i]
      BY <1>0, <1>5, <2>1, <2>3 DEF AcceptUpdate
    <3> QED
      BY <3>1, <1>4
  <2> QED
    BY <2>2, <2>3
<1>6. ASSUME NEW r \in Requests, CloseUpdate(r) PROVE Stands(i)
  <2> DEFINE j == requests[r].id
             row == [duels[j] EXCEPT !.status = requests[r].how]
  <2>1. j \in Ids /\ requests[r].how \in {"declined", "withdrawn"}
    BY <1>6, RequestFields DEF CloseUpdate, IInv, RequestsSane, Closing
  <2>2. CASE i = j /\ StillOffered(j)
    <3>1. duels' = [duels EXCEPT ![j] = row]
      BY <1>0, <1>6, <2>1, <2>2 DEF CloseUpdate
    <3>2. row.status = requests[r].how
      BY <1>0, <2>2 DEF Duel
    <3> HIDE DEF row
    <3>3. duels'[i] = row
      BY <1>0, <2>2, <3>1
    <3>4. duels[i].status = "offered"
      BY <2>2 DEF StillOffered
    <3> QED
      BY <1>3, <2>1, <3>2, <3>3, <3>4
  <2>3. CASE ~ (i = j /\ StillOffered(j))
    <3>1. duels'[i] = duels[i]
      BY <1>0, <1>6, <2>1, <2>3 DEF CloseUpdate
    <3> QED
      BY <3>1, <1>4
  <2> QED
    BY <2>2, <2>3
<1>7. CASE TickExpires
  <2>1. duels'[i] = Lapsed(duels[i])
    BY <1>7 DEF TickExpires
  <2>2. duels[i].status = "offered" => Lapsed(duels[i]).status \in {"offered", "expired"}
    BY <1>0 DEF Lapsed, Duel
  <2>3. duels[i].status # "offered" => Lapsed(duels[i]) = duels[i]
    BY DEF Lapsed
  <2> QED
    BY <1>3, <1>4, <2>1, <2>2, <2>3
<1>8. CASE TickSettles
  <2> DEFINE j == Head(settler.due)
             row == [duels[j] EXCEPT !.status = "settled", !.scored = settler.at,
                                     !.closed = settler.closed,
                                     !.winner = Winner(duels[j], settler.closed)]
  <2>1. j \in Ids
    BY <1>8, TailFacts DEF TickSettles
  <2>2. CASE i = j /\ Live(j)
    <3>1. duels' = [duels EXCEPT ![j] = row]
      BY <1>0, <1>8, <2>1, <2>2 DEF TickSettles
    <3>2. row.status = "settled" /\ row.opened = duels[i].opened /\ row.ends = duels[i].ends
      BY <1>0, <2>2 DEF Duel
    <3> HIDE DEF row
    <3>3. duels'[i] = row
      BY <1>0, <2>2, <3>1
    <3>4. duels[i].status = "live"
      BY <2>2 DEF Live
    <3> QED
      BY <3>2, <3>3, <3>4 DEF Stands, LawfulMove, Over
  <2>3. CASE ~ (i = j /\ Live(j))
    <3>1. duels'[i] = duels[i]
      BY <1>0, <1>8, <2>1, <2>3 DEF TickSettles
    <3> QED
      BY <3>1, <1>4
  <2> QED
    BY <2>2, <2>3
<1> QED
  BY <1>1, <1>2, <1>5, <1>6, <1>7, <1>8
     DEF Next, vars, ClockMoves, SettlerGoesOn, TickSelects, TickMeasures, TickFails, TickStops,
         RequestBegins, RequestGoesOn, RequestDies, Offer, OfferLive, OfferPair, OfferCount, Accept, AcceptMeasure,
         AcceptOffer, AcceptBusy, Close, Check

\* An offer gets one answer, and what was agreed to is never written again, for any number
\* of requests that race to answer it (duels.ts:186-190, 362-365).
THEOREM OneAnswer == Spec => FrozenOnceAgreed
<1>1. IInv /\ [Next]_vars =>
         [\A i \in Ids :
            /\ LawfulMove(duels[i].status, duels'[i].status)
            /\ duels[i].status # "offered" =>
                  duels'[i].opened = duels[i].opened /\ duels'[i].ends = duels[i].ends
            /\ duels[i].status \in Over => duels'[i] = duels[i]]_vars
  BY RowStands DEF Stands
<1> QED
  BY <1>1, Invariance, PTL DEF Spec, FrozenOnceAgreed
==============================================================================
