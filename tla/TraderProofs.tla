---------------------------- MODULE TraderProofs ----------------------------
(***************************************************************************)
(* What a trader is promised, for any traders, funders, limits, lifetimes  *)
(* and number of overlapping requests, any of which may die between two    *)
(* statements.  Entering a season and buying practice balance: what is     *)
(* paid for is given once, an entry carries the funder that was found, and *)
(* only a race lets a funder over the limit.  Hosted strategies, for any   *)
(* cap, rules, mints and timeline: the runner keeps to its rules, and the  *)
(* cap gives way to overlap alone.                                         *)
(***************************************************************************)
EXTENDS Entries, Strategies, BasicLemmas, SequenceTheorems

------------------------------------------------------------------------------
(***************************************************************************)
(* The inductive invariant                                                 *)
(***************************************************************************)

Funders == {FunderOf[t] : t \in Traders}
Found == Funders \cup {Unread}
Asking == {"gather", "settled", "pending", "insert", "evidence", "write", "quote"}
Confirming == {"existing payment", "settle"}

RequestType ==
         [pc : {"idle"}]
    \cup [pc : Asking, by : Traders, at : Nat, found : Found, siblings : Nat]
    \cup [pc : Confirming, intent : Nat]

IntentType ==
    [by : Traders, purpose : Purposes, found : Found, funder : Found \cup {Unrecorded},
     expires : Nat, lands : Nat, sent : BOOLEAN, settled : BOOLEAN]

EntryType == [by : Traders, funder : Found, intent : Nat]

Typed ==
    /\ TypeOK
    /\ requests \in [Requests -> RequestType]
    /\ intents \in Seq(IntentType)
    /\ entries \subseteq EntryType /\ IsFiniteSet(entries)

\* What each stage of a request rests on.
Sound(q) ==
    /\ q.pc \in Asking => q.at <= now
    /\ q.pc \in Asking \ {"quote"} => "season_entry" \in Purposes
    /\ q.pc = "quote" => "practice_sol" \in Purposes
    /\ q.pc \in {"settled", "pending"} => q.found \in Funders
    /\ q.pc = "write" => free
    /\ q.pc = "evidence" => /\ q.siblings \in Intents
                            /\ intents[q.siblings].found = q.found
                            /\ intents[q.siblings].purpose = "season_entry"
                            /\ ~intents[q.siblings].sent
    /\ q.pc \in Confirming => q.intent \in chain

\* No two requests are about to write the evidence of one intent.
Apart ==
    \A q, r \in Requests :
        /\ requests[q].pc = "evidence" /\ requests[r].pc = "evidence"
        /\ requests[q].siblings = requests[r].siblings
        => q = r

\* A message is sent with its evidence recorded, and nothing is paid before it is sent.
Recorded ==
    \A i \in Intents :
        /\ i \in chain => intents[i].sent
        /\ intents[i].funder = IF intents[i].sent /\ intents[i].purpose = "season_entry"
                               THEN intents[i].found ELSE Unrecorded

\* Where every entry comes from.
Entered ==
    \A e \in entries :
        IF e.intent = 0 THEN free
        ELSE /\ e.intent \in payments /\ intents[e.intent].purpose = "season_entry"
             /\ e.by = intents[e.intent].by /\ e.funder = intents[e.intent].funder

PracticePaid(t) == {i \in payments : intents[i].purpose = "practice_sol" /\ intents[i].by = t}

Given ==
    /\ \A i \in payments : intents[i].purpose = "season_entry" => HasEntered(intents[i].by)
    /\ \A t \in Traders : credited[t] = Cardinality(PracticePaid(t))
    /\ \A d, e \in entries : d.by = e.by => d = e

\* As long as there was no race, a funder's entries and its intents that may still become
\* one keep to the limit, with room for the one request that has counted them and not yet
\* become one of them; and what a request counted first is still true when it counts again.
EntriesOf(f) == {e \in entries : e.funder = f}
Outstanding(f) == Cardinality(EntriesOf(f)) + Cardinality(Pending(f, now))
Claiming == {"insert", "evidence", "write"}

Room(q) ==
    q.pc \in Asking /\ q.found \in Funders =>
        /\ q.pc = "pending" => q.siblings = Cardinality(EntriesOf(q.found))
        /\ q.pc \in Claiming => Outstanding(q.found) < MaxEntriesPerFunder

OneCounts ==
    \A q, r \in Requests :
        /\ Counting(q) /\ Counting(r)
        /\ requests[q].found = requests[r].found /\ requests[q].found \in Funders
        => q = r

Limited ==
    ~raced => /\ \A f \in Funders : Outstanding(f) <= MaxEntriesPerFunder
              /\ \A r \in Requests : Room(requests[r])
              /\ OneCounts

IInv ==
    /\ Typed /\ \A r \in Requests : Sound(requests[r])
    /\ Apart /\ Recorded /\ Entered /\ Given /\ Limited

------------------------------------------------------------------------------
(***************************************************************************)
(* Requests and tables                                                     *)
(***************************************************************************)

LEMMA RequestFacts ==
    ASSUME NEW q \in RequestType
    PROVE  /\ q.pc \in {"idle"} \cup Asking \cup Confirming
           /\ q.pc \in Asking => q.by \in Traders /\ q.at \in Nat /\ q.found \in Found /\ q.siblings \in Nat
           /\ q.pc \in Confirming => q.intent \in Nat
BY DEF RequestType, Asking, Confirming

LEMMA RequestsMade ==
    /\ Idle \in RequestType
    /\ \A p \in Asking, b \in Traders, a \in Nat, f \in Found, s \in Nat :
          [pc |-> p, by |-> b, at |-> a, found |-> f, siblings |-> s] \in RequestType
    /\ \A p \in Confirming, i \in Nat : [pc |-> p, intent |-> i] \in RequestType
BY DEF RequestType, Idle

\* A request that asks stays one when it is told a funder or a number.
LEMMA ToldFunder ==
    ASSUME NEW q \in RequestType, q.pc \in Asking, NEW p \in Asking, NEW f \in Found
    PROVE  [q EXCEPT !.pc = p, !.found = f] \in RequestType
<1>1. q \in [pc : Asking, by : Traders, at : Nat, found : Found, siblings : Nat]
  BY DEF RequestType, Asking, Confirming
<1> QED
  BY <1>1 DEF RequestType

LEMMA ToldNumber ==
    ASSUME NEW q \in RequestType, q.pc \in Asking, NEW p \in Asking, NEW s \in Nat
    PROVE  [q EXCEPT !.pc = p, !.siblings = s] \in RequestType
<1>1. q \in [pc : Asking, by : Traders, at : Nat, found : Found, siblings : Nat]
  BY DEF RequestType, Asking, Confirming
<1> QED
  BY <1>1 DEF RequestType

LEMMA Tables ==
    ASSUME Typed
    PROVE  /\ Len(intents) \in Nat /\ Intents = 1 .. Len(intents) /\ IsFiniteSet(Intents)
           /\ \A i \in Intents : intents[i] \in IntentType
           /\ IsFiniteSet(payments) /\ payments \subseteq Intents /\ chain \subseteq Intents
           /\ \A f, a : IsFiniteSet(Pending(f, a)) /\ Cardinality(Pending(f, a)) \in Nat
           /\ \A f : IsFiniteSet(EntriesOf(f)) /\ Cardinality(EntriesOf(f)) \in Nat
           /\ \A t : IsFiniteSet(PracticePaid(t)) /\ Cardinality(PracticePaid(t)) \in Nat
<1>1. /\ Len(intents) \in Nat /\ Intents = 1 .. Len(intents)
      /\ \A i \in Intents : intents[i] \in IntentType
  BY DEF Typed, Intents
<1>2. IsFiniteSet(Intents)
  BY <1>1, FS_Interval
<1>3. payments \subseteq Intents /\ chain \subseteq Intents
  BY DEF Typed, TypeOK
<1>4. IsFiniteSet(payments)
  BY <1>2, <1>3, FS_Subset
<1>5. ASSUME NEW f, NEW a PROVE IsFiniteSet(Pending(f, a)) /\ Cardinality(Pending(f, a)) \in Nat
  <2>1. Pending(f, a) \subseteq Intents
    BY DEF Pending
  <2> QED
    BY <1>2, <2>1, FS_Subset, FS_CardinalityType
<1>6. ASSUME NEW f PROVE IsFiniteSet(EntriesOf(f)) /\ Cardinality(EntriesOf(f)) \in Nat
  <2>1. EntriesOf(f) \subseteq entries /\ IsFiniteSet(entries)
    BY DEF EntriesOf, Typed
  <2> QED
    BY <2>1, FS_Subset, FS_CardinalityType
<1>7. ASSUME NEW t PROVE IsFiniteSet(PracticePaid(t)) /\ Cardinality(PracticePaid(t)) \in Nat
  <2>1. PracticePaid(t) \subseteq payments
    BY DEF PracticePaid
  <2> QED
    BY <1>4, <2>1, FS_Subset, FS_CardinalityType
<1> QED
  BY <1>1, <1>2, <1>3, <1>4, <1>5, <1>6, <1>7

LEMMA FundersRead == Unread \notin Funders /\ Unrecorded \notin Funders
BY FunderAssumption DEF Funders

LEMMA OneMore ==
    ASSUME NEW S, IsFiniteSet(S), NEW x
    PROVE  /\ IsFiniteSet(S \cup {x}) /\ Cardinality(S) \in Nat /\ Cardinality(S \cup {x}) \in Nat
           /\ Cardinality(S \cup {x}) <= Cardinality(S) + 1
<1>1. IsFiniteSet(S \cup {x}) /\ Cardinality(S) \in Nat
  BY FS_AddElement, FS_CardinalityType
<1>2. Cardinality(S \cup {x}) = IF x \in S THEN Cardinality(S) ELSE Cardinality(S) + 1
  BY FS_AddElement
<1> QED
  BY <1>1, <1>2

\* What counts against the limit, stage by stage.
CountsAs(q) == q.pc \in {"pending", "insert", "evidence", "write"}

LEMMA CountingIs == \A r \in Requests : Counting(r) <=> CountsAs(requests[r])
BY DEF Counting, CountsAs

\* A step that only moves one request on, to a stage whose grounds hold.
LEMMA RequestMoves ==
    ASSUME IInv, NEW r \in Requests, NEW q \in RequestType, Becomes(r, q),
           UNCHANGED <<now, free, intents, chain, payments, entries, credited>>,
           accounts' \subseteq Traders, raced' \in BOOLEAN, raced => raced',
           Sound(q), q.pc # "evidence",
           ~raced' => /\ Room(q)
                      /\ CountsAs(q) /\ q.found \in Funders =>
                            \A p \in Requests \ {r} :
                               ~(CountsAs(requests[p]) /\ requests[p].found = q.found)
    PROVE  IInv'
<1>1. /\ requests \in [Requests -> RequestType] /\ requests' = [requests EXCEPT ![r] = q]
      /\ requests' \in [Requests -> RequestType] /\ requests'[r] = q
      /\ \A p \in Requests : p # r => requests'[p] = requests[p]
  BY DEF IInv, Typed, Becomes
<1>2. /\ now' = now /\ free' = free /\ intents' = intents /\ chain' = chain
      /\ payments' = payments /\ entries' = entries /\ credited' = credited
  OBVIOUS
<1>3. Typed'
  BY <1>1, <1>2 DEF IInv, Typed, TypeOK, Intents
<1>4. \A p \in Requests : Sound(requests[p])'
  <2>1. \A x : (/\ x.pc \in Asking => x.at <= now'
                /\ x.pc \in Asking \ {"quote"} => "season_entry" \in Purposes
                /\ x.pc = "quote" => "practice_sol" \in Purposes
                /\ x.pc \in {"settled", "pending"} => x.found \in Funders
                /\ x.pc = "write" => free'
                /\ x.pc = "evidence" => /\ x.siblings \in Intents'
                                        /\ intents'[x.siblings].found = x.found
                                        /\ intents'[x.siblings].purpose = "season_entry"
                                        /\ ~intents'[x.siblings].sent
                /\ x.pc \in Confirming => x.intent \in chain') <=> Sound(x)
    BY <1>2 DEF Sound, Intents
  <2>2. \A p \in Requests : Sound(requests'[p])
    BY <1>1 DEF IInv
  <2> QED
    BY <2>1, <2>2 DEF Sound
<1>5. Apart'
  BY <1>1 DEF IInv, Apart
<1>6. Recorded' /\ Entered' /\ Given'
  BY <1>2 DEF IInv, Recorded, Entered, Given, PracticePaid, HasEntered, Intents
<1>7. Limited'
  <2> SUFFICES ASSUME ~raced'
               PROVE  /\ \A f \in Funders : Outstanding(f)' <= MaxEntriesPerFunder
                      /\ \A p \in Requests : Room(requests[p])'
                      /\ OneCounts'
    BY DEF Limited
  <2>1. /\ \A f \in Funders : Outstanding(f) <= MaxEntriesPerFunder
        /\ \A p \in Requests : Room(requests[p])
        /\ OneCounts
    BY DEF IInv, Limited
  <2>2. /\ \A f : Outstanding(f)' = Outstanding(f)
        /\ \A f : EntriesOf(f)' = EntriesOf(f)
    BY <1>2 DEF Outstanding, EntriesOf, Pending, Intents
  <2>3. \A p \in Requests : Room(requests'[p])
    BY <1>1, <2>1
  <2>4. \A p \in Requests : Room(requests[p])'
    BY <2>2, <2>3 DEF Room
  <2>5. OneCounts'
    BY <1>1, <2>1, CountingIs DEF OneCounts, Counting, CountsAs
  <2> QED
    BY <2>1, <2>2, <2>4, <2>5
<1> QED
  BY <1>3, <1>4, <1>5, <1>6, <1>7 DEF IInv

------------------------------------------------------------------------------
(***************************************************************************)
(* The steps of a request that only looks                                  *)
(***************************************************************************)

LEMMA AskKeeps ==
    ASSUME IInv, NEW r \in Requests, NEW t \in Traders, Ask(r, t)
    PROVE  IInv'
<1> DEFINE q == [pc |-> "gather", by |-> t, at |-> now, found |-> Unread, siblings |-> 0]
<1>1. now \in Nat /\ raced \in BOOLEAN /\ accounts \subseteq Traders
  BY ClockAssumption DEF IInv, Typed, TypeOK
<1>2. q \in RequestType
  BY <1>1, RequestsMade DEF Asking, Found
<1>3. Sound(q) /\ Room(q) /\ ~CountsAs(q) /\ q.pc # "evidence"
  BY <1>1 DEF Sound, Room, CountsAs, Asking, Confirming, Ask, Claiming
<1>4. /\ Becomes(r, q) /\ raced' = raced /\ accounts' = accounts
      /\ UNCHANGED <<now, free, intents, chain, payments, entries, credited>>
  BY DEF Ask
<1> HIDE DEF q
<1> QED
  BY <1>1, <1>2, <1>3, <1>4, RequestMoves

LEMMA BuyKeeps ==
    ASSUME IInv, NEW r \in Requests, NEW t \in Traders, Buy(r, t)
    PROVE  IInv'
<1> DEFINE q == [pc |-> "quote", by |-> t, at |-> now, found |-> Unread, siblings |-> 0]
<1>1. now \in Nat /\ raced \in BOOLEAN /\ accounts \subseteq Traders
  BY ClockAssumption DEF IInv, Typed, TypeOK
<1>2. q \in RequestType
  BY <1>1, RequestsMade DEF Asking, Found
<1>3. Sound(q) /\ Room(q) /\ ~CountsAs(q) /\ q.pc # "evidence"
  BY <1>1 DEF Sound, Room, CountsAs, Asking, Confirming, Buy, Claiming
<1>4. /\ Becomes(r, q) /\ raced' = raced /\ accounts' = accounts \cup {t}
      /\ UNCHANGED <<now, free, intents, chain, payments, entries, credited>>
  BY DEF Buy
<1> HIDE DEF q
<1> QED
  BY <1>1, <1>2, <1>3, <1>4, RequestMoves

\* Only a request whose funder was read and not shared is counted; another goes on without
\* a funder that counts, or races.
LEMMA GatherKeeps ==
    ASSUME IInv, NEW r \in Requests, Gather(r)
    PROVE  IInv'
<1>1. /\ requests[r] \in RequestType /\ requests[r].pc = "gather" /\ Sound(requests[r])
      /\ raced \in BOOLEAN /\ accounts \subseteq Traders /\ free \in BOOLEAN
  BY DEF IInv, Typed, TypeOK, Gather
<1>2. PICK funder \in {FunderOf[requests[r].by], Unread}, shared \in BOOLEAN :
         LET counted == funder # Unread /\ ~shared
         IN  /\ Becomes(r, [requests[r] EXCEPT !.pc = IF counted THEN "settled" ELSE Admitted,
                                               !.found = funder])
             /\ raced' = (raced \/ (funder # Unread /\ shared))
  BY DEF Gather
<1> DEFINE p == IF funder # Unread /\ ~shared THEN "settled" ELSE Admitted
           q == [requests[r] EXCEPT !.pc = p, !.found = funder]
<1>3. p \in Asking /\ (p = "write" => free) /\ p \in {"settled", "insert", "write"}
      /\ (p = "settled" <=> (funder # Unread /\ ~shared))
  BY <1>1 DEF Asking, Admitted
<1>4. funder \in Found /\ (funder # Unread => funder \in Funders)
  BY <1>1, RequestFacts DEF Found, Funders, Asking
<1>5. Becomes(r, q) /\ raced' = (raced \/ (funder # Unread /\ shared))
  BY <1>2
<1> HIDE DEF p
<1>6. q \in RequestType /\ q.pc = p /\ q.found = funder /\ q.at = requests[r].at
  <2>1. q \in RequestType
    BY <1>1, <1>3, <1>4, ToldFunder DEF Asking
  <2>2. requests[r] \in [pc : Asking, by : Traders, at : Nat, found : Found, siblings : Nat]
    BY <1>1 DEF RequestType, Asking, Confirming
  <2> QED
    BY <2>1, <2>2
<1> HIDE DEF q
<1>7. Sound(q)
  BY <1>1, <1>3, <1>4, <1>6 DEF Sound, Asking, Confirming
<1>8. ~raced' => p = "settled" \/ funder \notin Funders
  BY <1>3, <1>4, <1>5, FundersRead
<1>9. ~raced' => Room(q) /\ ~(CountsAs(q) /\ q.found \in Funders)
  BY <1>3, <1>6, <1>8 DEF Room, CountsAs, Claiming
<1>10. /\ accounts' = accounts /\ raced' \in BOOLEAN /\ (raced => raced')
       /\ UNCHANGED <<now, free, intents, chain, payments, entries, credited>>
  BY <1>1, <1>5 DEF Gather
<1> QED
  BY <1>1, <1>3, <1>5, <1>6, <1>7, <1>9, <1>10, RequestMoves

\* Whoever counts alone counts what is there.
LEMMA CountSettledKeeps ==
    ASSUME IInv, NEW r \in Requests, CountSettled(r)
    PROVE  IInv'
<1>1. /\ requests[r] \in RequestType /\ requests[r].pc = "settled" /\ Sound(requests[r])
      /\ raced \in BOOLEAN /\ accounts \subseteq Traders /\ Typed
  BY DEF IInv, Typed, TypeOK, CountSettled
<1> DEFINE n == Cardinality(EntriesOf(requests[r].found))
           q == [requests[r] EXCEPT !.pc = "pending", !.siblings = n]
<1>2. Becomes(r, q) /\ n \in Nat
  BY <1>1, Tables DEF CountSettled, EntriesOf
<1>3. raced' = (raced \/ \E p \in Requests \ {r} : CountsAs(requests[p]) /\ requests[p].found = requests[r].found)
  BY CountingIs DEF CountSettled
<1>4. /\ q \in RequestType /\ q.pc = "pending" /\ q.found = requests[r].found /\ q.at = requests[r].at
      /\ q.siblings = n
  <2> HIDE DEF n
  <2>1. "pending" \in Asking /\ requests[r].pc \in Asking
    BY <1>1 DEF Asking
  <2>2. q \in RequestType
    BY <1>1, <1>2, <2>1, ToldNumber
  <2>3. requests[r] \in [pc : Asking, by : Traders, at : Nat, found : Found, siblings : Nat]
    BY <1>1 DEF RequestType, Asking, Confirming
  <2> QED
    BY <2>2, <2>3
<1> HIDE DEF q
<1>5. Sound(q)
  BY <1>1, <1>4 DEF Sound, Asking, Confirming
<1>6. Room(q)
  BY <1>4 DEF Room, Claiming
<1>7. /\ accounts' = accounts /\ raced' \in BOOLEAN /\ (raced => raced')
      /\ UNCHANGED <<now, free, intents, chain, payments, entries, credited>>
  BY <1>1, <1>3 DEF CountSettled
<1>8. ~raced' => \A p \in Requests \ {r} : ~(CountsAs(requests[p]) /\ requests[p].found = q.found)
  BY <1>3, <1>4
<1>9. q.pc # "evidence"
  BY <1>4
<1> HIDE DEF n
<1> QED
  BY <1>1, <1>2, <1>4, <1>5, <1>6, <1>7, <1>8, <1>9, RequestMoves

\* What the two counts found leaves room for one more.
LEMMA CountPendingKeeps ==
    ASSUME IInv, NEW r \in Requests, CountPending(r)
    PROVE  IInv'
<1>1. /\ requests[r] \in RequestType /\ requests[r].pc = "pending" /\ Sound(requests[r])
      /\ raced \in BOOLEAN /\ accounts \subseteq Traders /\ free \in BOOLEAN /\ Typed /\ now \in Nat
  BY ClockAssumption DEF IInv, Typed, TypeOK, CountPending
<1> DEFINE siblings == requests[r].siblings + Cardinality(Pending(requests[r].found, requests[r].at))
           q == [requests[r] EXCEPT !.pc = Admitted, !.siblings = 0]
<1>2. /\ accounts' = accounts /\ raced' = raced
      /\ UNCHANGED <<now, free, intents, chain, payments, entries, credited>>
  BY DEF CountPending
<1>3. CASE siblings >= MaxEntriesPerFunder
  <2>1. Becomes(r, Idle)
    BY <1>3 DEF CountPending
  <2>2. Sound(Idle) /\ Room(Idle) /\ ~CountsAs(Idle) /\ Idle.pc # "evidence"
    BY DEF Sound, Room, CountsAs, Idle, Asking, Confirming
  <2> QED
    BY <1>1, <1>2, <2>1, <2>2, RequestMoves, RequestsMade
<1>4. CASE ~(siblings >= MaxEntriesPerFunder)
  <2>1. Becomes(r, q)
    BY <1>4 DEF CountPending
  <2>2. Admitted \in {"insert", "write"} /\ (Admitted = "write" => free)
    BY <1>1 DEF Admitted
  <2>3. q \in RequestType /\ q.pc = Admitted /\ q.found = requests[r].found /\ q.at = requests[r].at
    <3>1. Admitted \in Asking /\ requests[r].pc \in Asking
      BY <1>1, <2>2 DEF Asking
    <3>2. q \in RequestType
      BY <1>1, <3>1, ToldNumber
    <3>3. requests[r] \in [pc : Asking, by : Traders, at : Nat, found : Found, siblings : Nat]
      BY <1>1 DEF RequestType, Asking, Confirming
    <3> QED
      BY <3>2, <3>3
  <2> HIDE DEF q
  <2>4. Sound(q)
    BY <1>1, <2>2, <2>3 DEF Sound, Asking, Confirming
  <2>5. ~raced => Room(q)
    <3> SUFFICES ASSUME ~raced PROVE Room(q)
      OBVIOUS
    <3> DEFINE f == requests[r].found
    <3>1. f \in Funders /\ requests[r].at <= now /\ requests[r].at \in Nat
      BY <1>1, RequestFacts DEF Sound, Asking
    <3>2. requests[r].siblings = Cardinality(EntriesOf(f))
      BY <1>1, <3>1 DEF IInv, Limited, Room, Asking
    <3>3. Pending(f, now) \subseteq Pending(f, requests[r].at)
      <4>1. \A i \in Intents : intents[i].expires \in Nat
        BY <1>1, Tables DEF IntentType
      <4> QED
        BY <1>1, <3>1, <4>1 DEF Pending
    <3>4. Cardinality(Pending(f, now)) <= Cardinality(Pending(f, requests[r].at))
      BY <1>1, <3>3, Tables, FS_Subset
    <3>5. /\ Cardinality(Pending(f, now)) \in Nat /\ Cardinality(Pending(f, requests[r].at)) \in Nat
          /\ Cardinality(EntriesOf(f)) \in Nat
      BY <1>1, Tables
    <3>6. Outstanding(f) < MaxEntriesPerFunder
      BY <1>4, <3>2, <3>4, <3>5, LimitAssumption DEF Outstanding
    <3> HIDE DEF f
    <3> QED
      BY <2>2, <2>3, <3>6 DEF Room, f
  <2>6. ~raced => (CountsAs(q) /\ q.found \in Funders =>
           \A p \in Requests \ {r} : ~(CountsAs(requests[p]) /\ requests[p].found = q.found))
    <3>1. Counting(r)
      BY <1>1 DEF Counting
    <3> QED
      BY <2>3, <3>1, CountingIs DEF IInv, Limited, OneCounts
  <2>7. q.pc # "evidence"
    BY <2>2, <2>3
  <2> QED
    BY <1>1, <1>2, <2>1, <2>3, <2>4, <2>5, <2>6, <2>7, RequestMoves
<1> QED
  BY <1>3, <1>4

\* A request that ends, whatever it was at.
LEMMA EndsKeeps ==
    ASSUME IInv, NEW r \in Requests, Becomes(r, Idle),
           UNCHANGED <<now, free, intents, chain, payments, entries, accounts, credited, raced>>
    PROVE  IInv'
<1>1. raced' \in BOOLEAN /\ accounts' \subseteq Traders /\ (raced => raced')
  BY DEF IInv, Typed, TypeOK
<1>2. Sound(Idle) /\ Room(Idle) /\ ~CountsAs(Idle) /\ Idle.pc # "evidence"
  BY DEF Sound, Room, CountsAs, Idle, Asking, Confirming
<1> QED
  BY <1>1, <1>2, RequestMoves, RequestsMade

LEMMA ConfirmingKeeps ==
    ASSUME IInv, NEW r \in Requests, NEW i \in chain, NEW p \in Confirming,
           Becomes(r, [pc |-> p, intent |-> i]),
           UNCHANGED <<now, free, intents, chain, payments, entries, accounts, credited, raced>>
    PROVE  IInv'
<1> DEFINE q == [pc |-> p, intent |-> i]
<1>1. raced' \in BOOLEAN /\ accounts' \subseteq Traders /\ (raced => raced') /\ i \in Nat
  BY Tables DEF IInv, Typed, TypeOK
<1>2. q \in RequestType
  BY <1>1, RequestsMade
<1>3. Sound(q) /\ Room(q) /\ ~CountsAs(q) /\ q.pc # "evidence"
  BY DEF Sound, Room, CountsAs, Asking, Confirming
<1>4. Becomes(r, q)
  OBVIOUS
<1> HIDE DEF q
<1> QED
  BY <1>1, <1>2, <1>3, <1>4, RequestMoves

------------------------------------------------------------------------------
(***************************************************************************)
(* Intents                                                                 *)
(***************************************************************************)

\* A new intent that counts against nobody yet.
LEMMA IntentMade ==
    ASSUME IInv, NEW r \in Requests, NEW x \in IntentType, NEW q \in RequestType,
           Becomes(r, q), NEW n \in Nat, n \notin Intents, Intents' = Intents \cup {n},
           intents' \in Seq(IntentType), intents'[n] = x, \A i \in Intents : intents'[i] = intents[i],
           UNCHANGED <<now, free, chain, payments, entries, accounts, credited, raced>>,
           ~x.settled, x.funder = Unrecorded, x.sent => x.purpose = "practice_sol",
           \/ q.pc = "idle"
           \/ /\ requests[r].pc = "insert" /\ q.pc = "evidence" /\ q.siblings = n
              /\ q.found = requests[r].found /\ q.at = requests[r].at
              /\ x.found = q.found /\ x.purpose = "season_entry" /\ ~x.sent
    PROVE  IInv'
<1>1. /\ requests' \in [Requests -> RequestType] /\ requests'[r] = q
      /\ \A p \in Requests : p # r => requests'[p] = requests[p]
  BY DEF IInv, Typed, Becomes
<1>2. /\ now' = now /\ free' = free /\ chain' = chain /\ accounts' = accounts /\ raced' = raced
      /\ payments' = payments /\ entries' = entries /\ credited' = credited
  OBVIOUS
<1>3. /\ n \in Intents' /\ Intents \subseteq Intents' /\ intents'[n] = x
      /\ \A i \in Intents : intents'[i] = intents[i]
      /\ chain \subseteq Intents /\ payments \subseteq Intents
  BY Tables DEF IInv
<1>4. Typed'
  <2>1. x.by \in Traders /\ x.purpose \in Purposes /\ x.sent \in BOOLEAN /\ x.settled = FALSE
    BY DEF IntentType
  <2>2. \A i \in Intents' : i \in Intents \/ i = n
    OBVIOUS
  <2>3. \A i \in Intents : /\ intents[i].by \in Traders /\ intents[i].purpose \in Purposes
                           /\ intents[i].sent \in BOOLEAN /\ intents[i].settled = (i \in payments)
    BY DEF IInv, Typed, TypeOK
  <2>4. \A i \in Intents' : /\ intents'[i].by \in Traders /\ intents'[i].purpose \in Purposes
                            /\ intents'[i].sent \in BOOLEAN /\ intents'[i].settled = (i \in payments)
    <3> SUFFICES ASSUME NEW i \in Intents'
                 PROVE  /\ intents'[i].by \in Traders /\ intents'[i].purpose \in Purposes
                        /\ intents'[i].sent \in BOOLEAN /\ intents'[i].settled = (i \in payments)
      OBVIOUS
    <3>1. CASE i = n
      <4>1. i \notin payments /\ intents'[i] = x
        BY <1>3, <3>1
      <4>2. (i \in payments) = FALSE
        BY <4>1
      <4>3. intents'[i].settled = (i \in payments)
        BY <2>1, <4>1, <4>2
      <4> QED
        BY <2>1, <4>1, <4>3
    <3>2. CASE i \in Intents
      <4>1. intents'[i] = intents[i]
        BY <1>3, <3>2
      <4> QED
        BY <2>3, <3>2, <4>1
    <3> QED
      BY <2>2, <3>1, <3>2
  <2>5. /\ now \in 0 .. TimeBound /\ free \in BOOLEAN /\ raced \in BOOLEAN
        /\ payments \subseteq chain /\ chain \subseteq Intents
        /\ credited \in [Traders -> Nat] /\ accounts \subseteq Traders
        /\ entries \subseteq EntryType /\ IsFiniteSet(entries)
    BY DEF IInv, Typed, TypeOK
  <2>6. DOMAIN requests' = Requests
    BY <1>1
  <2> QED
    BY <1>1, <1>2, <1>3, <2>4, <2>5, <2>6 DEF Typed, TypeOK
<1>5. ASSUME NEW p \in Requests PROVE Sound(requests[p])'
  <2>1. CASE p # r
    <3> PICK y : y = requests[p]
      OBVIOUS
    <3>1. requests'[p] = y /\ Sound(y)
      BY <1>1, <2>1 DEF IInv
    <3>2. y.pc = "evidence" =>
             /\ y.siblings \in Intents' /\ intents'[y.siblings].found = y.found
             /\ intents'[y.siblings].purpose = "season_entry" /\ ~intents'[y.siblings].sent
      BY <1>3, <3>1 DEF Sound
    <3> QED
      BY <1>2, <3>1, <3>2 DEF Sound
  <2>2. CASE p = r /\ q.pc = "idle"
    BY <1>1, <2>2 DEF Sound, Asking, Confirming
  <2>3. CASE p = r /\ q.pc = "evidence"
    <3>1. requests[r].at <= now /\ "season_entry" \in Purposes
      BY <2>3 DEF IInv, Sound, Asking
    <3>2. /\ requests'[p] = q /\ q.at <= now /\ q.siblings = n
          /\ x.found = q.found /\ x.purpose = "season_entry" /\ ~x.sent
      BY <1>1, <2>3, <3>1
    <3> QED
      BY <1>2, <1>3, <2>3, <3>1, <3>2 DEF Sound, Asking, Confirming
  <2> QED
    BY <2>1, <2>2, <2>3
<1>6. Apart'
  <2>1. \A p \in Requests : p # r /\ requests'[p].pc = "evidence" => requests'[p].siblings # n
    BY <1>1, <1>3 DEF IInv, Sound
  <2>2. q.pc = "evidence" => q.siblings = n
    OBVIOUS
  <2> QED
    BY <1>1, <2>1, <2>2 DEF IInv, Apart
<1>7. Recorded'
  <2>1. n \notin chain /\ ~(x.sent /\ x.purpose = "season_entry")
    BY <1>3
  <2> SUFFICES ASSUME NEW i \in Intents'
               PROVE  /\ i \in chain' => intents'[i].sent
                      /\ intents'[i].funder = IF intents'[i].sent /\ intents'[i].purpose = "season_entry"
                                              THEN intents'[i].found ELSE Unrecorded
    BY DEF Recorded
  <2>2. CASE i = n
    BY <1>2, <1>3, <2>1, <2>2
  <2>3. CASE i \in Intents
    <3>1. intents'[i] = intents[i]
      BY <1>3, <2>3
    <3>2. /\ i \in chain => intents[i].sent
          /\ intents[i].funder = IF intents[i].sent /\ intents[i].purpose = "season_entry"
                                 THEN intents[i].found ELSE Unrecorded
      BY <2>3 DEF IInv, Recorded
    <3> QED
      BY <1>2, <3>1, <3>2
  <2> QED
    BY <1>3, <2>2, <2>3
<1>8. Entered'
  <2> SUFFICES ASSUME NEW e \in entries
               PROVE  IF e.intent = 0 THEN free'
                      ELSE /\ e.intent \in payments' /\ intents'[e.intent].purpose = "season_entry"
                           /\ e.by = intents'[e.intent].by /\ e.funder = intents'[e.intent].funder
    BY <1>2 DEF Entered
  <2>1. IF e.intent = 0 THEN free
        ELSE /\ e.intent \in payments /\ intents[e.intent].purpose = "season_entry"
             /\ e.by = intents[e.intent].by /\ e.funder = intents[e.intent].funder
    BY DEF IInv, Entered
  <2>2. e.intent \in payments => intents'[e.intent] = intents[e.intent]
    BY <1>3
  <2> QED
    BY <1>2, <2>1, <2>2
<1>9. Given'
  <2>1. \A t : PracticePaid(t)' = PracticePaid(t)
    BY <1>2, <1>3 DEF PracticePaid
  <2> QED
    BY <1>2, <1>3, <2>1 DEF IInv, Given, HasEntered
<1>10. Limited'
  <2> SUFFICES ASSUME ~raced'
               PROVE  /\ \A f \in Funders : Outstanding(f)' <= MaxEntriesPerFunder
                      /\ \A p \in Requests : Room(requests[p])'
                      /\ OneCounts'
    BY DEF Limited
  <2>1. /\ \A f \in Funders : Outstanding(f) <= MaxEntriesPerFunder
        /\ \A p \in Requests : Room(requests[p])
        /\ OneCounts
    BY <1>2 DEF IInv, Limited
  <2>2. \A f : EntriesOf(f)' = EntriesOf(f)
    BY <1>2 DEF EntriesOf
  <2>3. \A f \in Funders : Outstanding(f)' = Outstanding(f)
    <3>1. ASSUME NEW f \in Funders PROVE Pending(f, now)' = Pending(f, now)
      <4>1. intents'[n].funder # f
        BY <1>3, FundersRead
      <4>2. Pending(f, now)' = {i \in Intents' : intents'[i].funder = f /\ ~intents'[i].settled /\ intents'[i].expires > now}
        BY <1>2 DEF Pending
      <4>3. \A i : i \in Intents' <=> i \in Intents \/ i = n
        OBVIOUS
      <4> QED
        BY <1>3, <4>1, <4>2, <4>3 DEF Pending
    <3> QED
      BY <2>2, <3>1 DEF Outstanding
  <2>4. \A p \in Requests : Room(requests'[p])
    BY <1>1, <2>1 DEF Room, Asking, Claiming
  <2>5. \A p \in Requests : Room(requests[p])'
    BY <2>2, <2>3, <2>4 DEF Room
  <2>6. OneCounts'
    BY <1>1, <2>1, CountingIs DEF OneCounts, Counting, CountsAs
  <2> QED
    BY <2>1, <2>3, <2>5, <2>6
<1> QED
  BY <1>4, <1>5, <1>6, <1>7, <1>8, <1>9, <1>10 DEF IInv

LEMMA Appended ==
    ASSUME Typed, NEW x \in IntentType, intents' = Append(intents, x)
    PROVE  /\ Len(intents) + 1 \in Nat /\ Len(intents) + 1 \notin Intents
           /\ Intents' = Intents \cup {Len(intents) + 1}
           /\ intents' \in Seq(IntentType) /\ intents'[Len(intents) + 1] = x
           /\ \A i \in Intents : intents'[i] = intents[i]
<1>1. intents \in Seq(IntentType) /\ Len(intents) \in Nat
  BY DEF Typed
<1>2. /\ Append(intents, x) \in Seq(IntentType) /\ Len(Append(intents, x)) = Len(intents) + 1
      /\ Append(intents, x)[Len(intents) + 1] = x
      /\ \A i \in 1 .. Len(intents) : Append(intents, x)[i] = intents[i]
  BY <1>1
<1>3. Intents = 1 .. Len(intents) /\ Intents' = 1 .. Len(intents) + 1
  BY <1>1, <1>2 DEF Intents
<1> QED
  BY <1>1, <1>2, <1>3

LEMMA IntentTyped ==
    ASSUME IInv, NEW r \in Requests, requests[r].pc \in Asking, NEW p \in Purposes, NEW s \in BOOLEAN
    PROVE  /\ Intent(r, p, s) \in IntentType /\ ~Intent(r, p, s).settled
           /\ Intent(r, p, s).funder = Unrecorded /\ Intent(r, p, s).sent = s
           /\ Intent(r, p, s).purpose = p /\ Intent(r, p, s).found = requests[r].found
<1>1. requests[r].by \in Traders /\ requests[r].found \in Found /\ requests[r].at \in Nat
  BY RequestFacts DEF IInv, Typed
<1>2. requests[r].at + Ttl \in Nat /\ now + Validity \in Nat
  BY <1>1, ClockAssumption DEF IInv, Typed, TypeOK
<1> QED
  BY <1>1, <1>2 DEF Intent, IntentType

LEMMA InsertIntentKeeps ==
    ASSUME IInv, NEW r \in Requests, InsertIntent(r)
    PROVE  IInv'
<1>1. requests[r] \in RequestType /\ requests[r].pc = "insert" /\ Len(intents) \in Nat
  BY Tables DEF IInv, Typed, InsertIntent
<1> DEFINE x == Intent(r, "season_entry", FALSE)
           q == [requests[r] EXCEPT !.pc = "evidence", !.siblings = Len(intents) + 1]
<1>2. "season_entry" \in Purposes /\ requests[r].pc \in Asking
  BY <1>1 DEF IInv, Sound, Asking
<1>3. /\ x \in IntentType /\ ~x.settled /\ x.funder = Unrecorded /\ x.sent = FALSE
      /\ x.purpose = "season_entry" /\ x.found = requests[r].found
  BY <1>2, IntentTyped
<1>4. q \in RequestType
  <2>1. "evidence" \in Asking /\ Len(intents) + 1 \in Nat
    BY <1>1 DEF Asking
  <2> QED
    BY <1>1, <1>2, <2>1, ToldNumber
<1>5. /\ q.pc = "evidence" /\ q.siblings = Len(intents) + 1
      /\ q.found = requests[r].found /\ q.at = requests[r].at
  <2>1. requests[r] \in [pc : Asking, by : Traders, at : Nat, found : Found, siblings : Nat]
    BY <1>1 DEF RequestType, Asking, Confirming
  <2> QED
    BY <2>1
<1>6. /\ Becomes(r, q) /\ intents' = Append(intents, x)
      /\ UNCHANGED <<now, free, chain, payments, entries, accounts, credited, raced>>
  BY DEF InsertIntent, AnsweredAfterEvidence
<1> HIDE DEF x, q
<1>7. /\ Len(intents) + 1 \in Nat /\ Len(intents) + 1 \notin Intents
      /\ Intents' = Intents \cup {Len(intents) + 1}
      /\ intents' \in Seq(IntentType) /\ intents'[Len(intents) + 1] = x
      /\ \A i \in Intents : intents'[i] = intents[i]
  BY <1>3, <1>6, Appended DEF IInv
<1> QED
  BY <1>1, <1>3, <1>4, <1>5, <1>6, <1>7, IntentMade

LEMMA InsertQuoteKeeps ==
    ASSUME IInv, NEW r \in Requests, InsertQuote(r)
    PROVE  IInv'
<1>1. requests[r].pc = "quote" /\ "practice_sol" \in Purposes /\ requests[r].pc \in Asking
  BY DEF IInv, Sound, Asking, InsertQuote
<1> DEFINE x == Intent(r, "practice_sol", TRUE)
<1>2. x \in IntentType /\ ~x.settled /\ x.funder = Unrecorded /\ x.purpose = "practice_sol"
  BY <1>1, IntentTyped
<1>3. /\ Becomes(r, Idle) /\ intents' = Append(intents, x)
      /\ UNCHANGED <<now, free, chain, payments, entries, accounts, credited, raced>>
  BY DEF InsertQuote
<1>4. Idle \in RequestType /\ Idle.pc = "idle"
  BY RequestsMade DEF Idle
<1> HIDE DEF x
<1>5. /\ Len(intents) + 1 \in Nat /\ Len(intents) + 1 \notin Intents
      /\ Intents' = Intents \cup {Len(intents) + 1}
      /\ intents' \in Seq(IntentType) /\ intents'[Len(intents) + 1] = x
      /\ \A i \in Intents : intents'[i] = intents[i]
  BY <1>2, <1>3, Appended DEF IInv
<1> QED
  BY <1>2, <1>3, <1>4, <1>5, IntentMade

\* The evidence reaches the intent, which from now on counts in the request's stead.
LEMMA RecordEvidenceKeeps ==
    ASSUME IInv, NEW r \in Requests, RecordEvidence(r)
    PROVE  IInv'
<1> PICK i : i = requests[r].siblings
  OBVIOUS
<1> PICK f : f = requests[r].found
  OBVIOUS
<1>1. /\ requests[r].pc = "evidence" /\ Sound(requests[r]) /\ f \in Found /\ Typed
      /\ intents' = [intents EXCEPT ![i].funder = f, ![i].sent = TRUE]
      /\ requests' = [requests EXCEPT ![r] = Idle] /\ requests \in [Requests -> RequestType]
      /\ UNCHANGED <<now, free, chain, payments, entries, accounts, credited, raced>>
  BY RequestFacts DEF IInv, Typed, Asking, RecordEvidence, Becomes
<1>2. /\ i \in Intents /\ intents[i].found = f /\ intents[i].purpose = "season_entry" /\ ~intents[i].sent
  BY <1>1 DEF Sound
<1>3. /\ intents \in Seq(IntentType) /\ Intents = 1 .. Len(intents) /\ Len(intents) \in Nat
      /\ intents[i] \in IntentType /\ chain \subseteq Intents /\ payments \subseteq chain
      /\ \A j \in Intents : intents[j] \in IntentType
  BY <1>1, <1>2, Tables DEF Typed, TypeOK
<1> DEFINE x == [intents[i] EXCEPT !.funder = f, !.sent = TRUE]
<1>4. /\ x \in IntentType /\ x.funder = f /\ x.sent = TRUE /\ x.found = f /\ x.purpose = "season_entry"
      /\ x.by = intents[i].by /\ x.settled = intents[i].settled /\ x.expires = intents[i].expires
  BY <1>1, <1>2, <1>3 DEF IntentType
<1>5. intents' = [intents EXCEPT ![i] = x]
  BY <1>1, <1>2, <1>3
<1> HIDE DEF x
<1>6. /\ intents' \in Seq(IntentType) /\ Intents' = Intents /\ intents'[i] = x
      /\ \A j \in Intents : j # i => intents'[j] = intents[j]
  BY <1>2, <1>3, <1>4, <1>5 DEF Intents
<1>7. /\ now' = now /\ free' = free /\ chain' = chain /\ accounts' = accounts /\ raced' = raced
      /\ payments' = payments /\ entries' = entries /\ credited' = credited
      /\ requests' \in [Requests -> RequestType] /\ requests'[r] = Idle
      /\ \A p \in Requests : p # r => requests'[p] = requests[p]
  BY <1>1, RequestsMade
<1> HIDE <1>1
<1>8. \A j \in Intents : /\ intents'[j].by = intents[j].by /\ intents'[j].purpose = intents[j].purpose
                         /\ intents'[j].settled = intents[j].settled /\ intents'[j].found = intents[j].found
                         /\ intents'[j].expires = intents[j].expires /\ intents'[j].sent \in BOOLEAN
  <2> SUFFICES ASSUME NEW j \in Intents
               PROVE  /\ intents'[j].by = intents[j].by /\ intents'[j].purpose = intents[j].purpose
                      /\ intents'[j].settled = intents[j].settled /\ intents'[j].found = intents[j].found
                      /\ intents'[j].expires = intents[j].expires /\ intents'[j].sent \in BOOLEAN
    OBVIOUS
  <2>1. CASE j = i
    BY <1>2, <1>4, <1>6, <2>1
  <2>2. CASE j # i
    BY <1>3, <1>6, <2>2 DEF IntentType
  <2> QED
    BY <2>1, <2>2
<1>9. Typed'
  <2>1. \A j \in Intents : /\ intents[j].by \in Traders /\ intents[j].purpose \in Purposes
                           /\ intents[j].sent \in BOOLEAN /\ intents[j].settled = (j \in payments)
    BY DEF IInv, Typed, TypeOK
  <2>2. \A j \in Intents' : /\ intents'[j].by \in Traders /\ intents'[j].purpose \in Purposes
                            /\ intents'[j].sent \in BOOLEAN /\ intents'[j].settled = (j \in payments)
    BY <1>6, <1>8, <2>1
  <2>3. /\ now \in 0 .. TimeBound /\ free \in BOOLEAN /\ raced \in BOOLEAN
        /\ payments \subseteq chain /\ chain \subseteq Intents
        /\ credited \in [Traders -> Nat] /\ accounts \subseteq Traders
        /\ entries \subseteq EntryType /\ IsFiniteSet(entries)
    BY DEF IInv, Typed, TypeOK
  <2>4. DOMAIN requests' = Requests
    BY <1>7
  <2> QED
    BY <1>6, <1>7, <2>2, <2>3, <2>4 DEF Typed, TypeOK
<1>10. ASSUME NEW p \in Requests PROVE Sound(requests[p])'
  <2>1. CASE p = r
    <3>1. requests'[p].pc = "idle"
      BY <1>7, <2>1 DEF Idle
    <3> QED
      BY <3>1 DEF Sound, Asking, Confirming
  <2>2. CASE p # r
    <3> PICK y : y = requests[p]
      OBVIOUS
    <3>1. requests'[p] = y /\ Sound(y)
      BY <1>7, <2>2 DEF IInv
    <3>2. y.pc = "evidence" => y.siblings # i
      BY <1>1, <2>2 DEF IInv, Apart
    <3>3. y.pc = "evidence" =>
             /\ y.siblings \in Intents' /\ intents'[y.siblings].found = y.found
             /\ intents'[y.siblings].purpose = "season_entry" /\ ~intents'[y.siblings].sent
      BY <1>6, <3>1, <3>2 DEF Sound
    <3> QED
      BY <1>7, <3>1, <3>3 DEF Sound
  <2> QED
    BY <2>1, <2>2
<1>11. Apart'
  BY <1>7 DEF IInv, Apart, Idle
<1>12. Recorded'
  <2> SUFFICES ASSUME NEW j \in Intents
               PROVE  /\ j \in chain => intents'[j].sent
                      /\ intents'[j].funder = IF intents'[j].sent /\ intents'[j].purpose = "season_entry"
                                              THEN intents'[j].found ELSE Unrecorded
    BY <1>6, <1>7 DEF Recorded
  <2>1. CASE j = i
    BY <1>4, <1>6, <2>1
  <2>2. CASE j # i
    BY <1>6, <2>2 DEF IInv, Recorded
  <2> QED
    BY <2>1, <2>2
<1>13. i \notin payments
  BY <1>2, <1>3 DEF IInv, Recorded
<1>14. Entered'
  <2>1. \A j \in payments : intents'[j] = intents[j]
    BY <1>3, <1>6, <1>13
  <2> QED
    BY <1>7, <2>1 DEF IInv, Entered
<1>15. Given'
  <2>1. \A t : PracticePaid(t)' = PracticePaid(t)
    BY <1>3, <1>7, <1>8 DEF PracticePaid
  <2> QED
    BY <1>3, <1>7, <1>8, <2>1 DEF IInv, Given, HasEntered
<1>16. Limited'
  <2> SUFFICES ASSUME ~raced'
               PROVE  /\ \A g \in Funders : Outstanding(g)' <= MaxEntriesPerFunder
                      /\ \A p \in Requests : Room(requests[p])'
                      /\ OneCounts'
    BY DEF Limited
  <2>1. /\ \A g \in Funders : Outstanding(g) <= MaxEntriesPerFunder
        /\ \A p \in Requests : Room(requests[p])
        /\ OneCounts
    BY <1>7 DEF IInv, Limited
  <2>2. \A g : EntriesOf(g)' = EntriesOf(g)
    BY <1>7 DEF EntriesOf
  <2>3. \A g \in Funders : g # f => Outstanding(g)' = Outstanding(g)
    <3>1. ASSUME NEW g \in Funders, g # f PROVE Pending(g, now)' = Pending(g, now)
      <4>1. intents[i].funder # g /\ intents'[i].funder # g
        BY <1>2, <1>4, <1>6, <3>1, FundersRead DEF IInv, Recorded
      <4>2. Pending(g, now)' = {j \in Intents : intents'[j].funder = g /\ ~intents'[j].settled /\ intents'[j].expires > now}
        BY <1>6, <1>7 DEF Pending
      <4> QED
        BY <1>6, <4>1, <4>2 DEF Pending
    <3> QED
      BY <2>2, <3>1 DEF Outstanding
  <2>4. f \in Funders => Outstanding(f) < MaxEntriesPerFunder /\ Outstanding(f)' <= MaxEntriesPerFunder
    <3> SUFFICES ASSUME f \in Funders
                 PROVE  Outstanding(f) < MaxEntriesPerFunder /\ Outstanding(f)' <= MaxEntriesPerFunder
      OBVIOUS
    <3>1. Outstanding(f) < MaxEntriesPerFunder
      BY <1>1, <2>1 DEF Room, Asking, Claiming
    <3>2. Pending(f, now)' \subseteq Pending(f, now) \cup {i}
      <4>1. Pending(f, now)' = {j \in Intents : intents'[j].funder = f /\ ~intents'[j].settled /\ intents'[j].expires > now}
        BY <1>6, <1>7 DEF Pending
      <4> QED
        BY <1>6, <4>1 DEF Pending
    <3>3. /\ IsFiniteSet(Pending(f, now)) /\ Cardinality(Pending(f, now)) \in Nat
          /\ Cardinality(EntriesOf(f)) \in Nat
      BY <1>1, Tables
    <3>4. /\ IsFiniteSet(Pending(f, now) \cup {i})
          /\ Cardinality(Pending(f, now) \cup {i}) <= Cardinality(Pending(f, now)) + 1
      BY <3>3, OneMore
    <3>5. /\ Cardinality(Pending(f, now)') <= Cardinality(Pending(f, now) \cup {i})
          /\ Cardinality(Pending(f, now)') \in Nat /\ Cardinality(Pending(f, now) \cup {i}) \in Nat
      BY <3>2, <3>4, FS_Subset, FS_CardinalityType
    <3>6. Outstanding(f)' = Cardinality(EntriesOf(f)) + Cardinality(Pending(f, now)')
      BY <2>2 DEF Outstanding
    <3> QED
      BY <3>1, <3>3, <3>4, <3>5, <3>6, LimitAssumption DEF Outstanding
  <2>5. ASSUME NEW p \in Requests PROVE Room(requests[p])'
    <3>1. CASE p = r
      BY <1>7, <3>1 DEF Room, Idle, Asking
    <3>2. CASE p # r
      <4> PICK y : y = requests[p]
        OBVIOUS
      <4>1. requests'[p] = y /\ Room(y)
        BY <1>7, <2>1, <3>2
      <4>2. y.pc \in Claiming /\ y.found \in Funders => y.found # f
        BY <1>1, <2>1, <3>2 DEF OneCounts, Counting, Claiming
      <4> QED
        BY <2>2, <2>3, <4>1, <4>2 DEF Room
    <3> QED
      BY <3>1, <3>2
  <2>6. OneCounts'
    BY <1>7, <2>1, CountingIs DEF OneCounts, Counting, CountsAs, Idle
  <2>7. \A g \in Funders : Outstanding(g)' <= MaxEntriesPerFunder
    BY <2>1, <2>3, <2>4
  <2> QED
    BY <2>5, <2>6, <2>7
<1> QED
  BY <1>9, <1>10, <1>11, <1>12, <1>14, <1>15, <1>16 DEF IInv

\* Only what was sent is paid.
LEMMA PayKeeps ==
    ASSUME IInv, NEW i \in Intents, Pay(i)
    PROVE  IInv'
<1>1. /\ i \notin chain /\ intents[i].sent /\ chain' = chain \cup {i}
      /\ now' = now /\ free' = free /\ requests' = requests /\ intents' = intents
      /\ payments' = payments /\ entries' = entries /\ accounts' = accounts
      /\ credited' = credited /\ raced' = raced
  BY DEF Pay
<1>2. Typed'
  BY <1>1 DEF IInv, Typed, TypeOK, Intents
<1>3. ASSUME NEW p \in Requests PROVE Sound(requests[p])'
  BY <1>1 DEF IInv, Sound, Intents
<1>4. Apart' /\ Entered'
  BY <1>1 DEF IInv, Apart, Entered
<1>5. Recorded'
  BY <1>1 DEF IInv, Recorded, Intents
<1>6. Given'
  BY <1>1 DEF IInv, Given, PracticePaid, HasEntered
<1>7. Limited'
  <2>1. /\ \A f : Outstanding(f)' = Outstanding(f) /\ EntriesOf(f)' = EntriesOf(f)
        /\ OneCounts' <=> OneCounts
    BY <1>1 DEF Outstanding, EntriesOf, Pending, Intents, OneCounts, Counting
  <2> QED
    BY <1>1, <2>1 DEF IInv, Limited, Room
<1> QED
  BY <1>2, <1>3, <1>4, <1>5, <1>6, <1>7 DEF IInv

\* As the clock moves, intents cease to count and none begins to.
LEMMA ClockMovesKeeps ==
    ASSUME IInv, ClockMoves
    PROVE  IInv'
<1>1. /\ now < TimeBound /\ now' = now + 1 /\ now \in Nat /\ now' \in 0 .. TimeBound
      /\ free' = free /\ requests' = requests /\ intents' = intents
      /\ chain' = chain /\ payments' = payments /\ entries' = entries /\ accounts' = accounts
      /\ credited' = credited /\ raced' = raced
  BY ClockAssumption DEF ClockMoves, IInv, Typed, TypeOK
<1>2. Typed'
  BY <1>1 DEF IInv, Typed, TypeOK, Intents
<1>3. ASSUME NEW p \in Requests PROVE Sound(requests[p])'
  <2> PICK y : y = requests[p]
    OBVIOUS
  <2>1. Sound(y) /\ (y.pc \in Asking => y.at \in Nat)
    BY RequestFacts DEF IInv, Typed
  <2>2. y.pc \in Asking => y.at <= now'
    BY <1>1, <2>1 DEF Sound
  <2> QED
    BY <1>1, <2>1, <2>2 DEF Sound, Intents
<1>4. Apart' /\ Entered'
  BY <1>1 DEF IInv, Apart, Entered
<1>5. Recorded'
  BY <1>1 DEF IInv, Recorded, Intents
<1>6. Given'
  BY <1>1 DEF IInv, Given, PracticePaid, HasEntered
<1>7. Limited'
  <2>1. OneCounts' <=> OneCounts
    BY <1>1 DEF OneCounts, Counting
  <2>2. ASSUME NEW f PROVE Outstanding(f)' <= Outstanding(f) /\ EntriesOf(f)' = EntriesOf(f)
                           /\ Outstanding(f) \in Nat /\ Outstanding(f)' \in Nat
    <3>1. Pending(f, now') \subseteq Pending(f, now)
      <4>1. \A i \in Intents : intents[i].expires \in Nat
        BY Tables DEF IInv, IntentType
      <4> QED
        BY <1>1, <4>1 DEF Pending
    <3>2. Pending(f, now)' = Pending(f, now')
      BY <1>1 DEF Pending, Intents
    <3>3. /\ IsFiniteSet(Pending(f, now)) /\ Cardinality(Pending(f, now)) \in Nat
          /\ Cardinality(Pending(f, now')) \in Nat
          /\ Cardinality(EntriesOf(f)) \in Nat
      BY Tables DEF IInv
    <3>4. Cardinality(Pending(f, now')) <= Cardinality(Pending(f, now))
      BY <3>1, <3>3, FS_Subset
    <3>5. EntriesOf(f)' = EntriesOf(f)
      BY <1>1 DEF EntriesOf
    <3> QED
      BY <3>2, <3>3, <3>4, <3>5 DEF Outstanding
  <2> SUFFICES ASSUME ~raced'
               PROVE  /\ \A f \in Funders : Outstanding(f)' <= MaxEntriesPerFunder
                      /\ \A p \in Requests : Room(requests[p])'
    BY <1>1, <2>1 DEF Limited, IInv
  <2>3. /\ \A f \in Funders : Outstanding(f) <= MaxEntriesPerFunder
        /\ \A p \in Requests : Room(requests[p])
    BY <1>1 DEF IInv, Limited
  <2>4. \A f \in Funders : Outstanding(f)' <= MaxEntriesPerFunder
    BY <2>2, <2>3, LimitAssumption
  <2>5. ASSUME NEW p \in Requests PROVE Room(requests[p])'
    <3> PICK y : y = requests[p]
      OBVIOUS
    <3>1. Room(y) /\ requests'[p] = y
      BY <1>1, <2>3
    <3>2. Outstanding(y.found) < MaxEntriesPerFunder => Outstanding(y.found)' < MaxEntriesPerFunder
      BY <2>2, LimitAssumption
    <3> QED
      BY <2>2, <3>1, <3>2 DEF Room
  <2> QED
    BY <2>4, <2>5
<1> QED
  BY <1>2, <1>3, <1>4, <1>5, <1>6, <1>7 DEF IInv

\* A free entry takes the room that was left for it.
LEMMA FreeInsertKeeps ==
    ASSUME IInv, NEW r \in Requests, FreeInsert(r)
    PROVE  IInv'
<1> PICK f : f = requests[r].found
  OBVIOUS
<1> PICK t : t = requests[r].by
  OBVIOUS
<1> DEFINE e == [by |-> t, funder |-> f, intent |-> 0]
<1>1. /\ requests[r].pc = "write" /\ Sound(requests[r]) /\ f \in Found /\ t \in Traders /\ Typed
      /\ entries' = IF HasEntered(t) THEN entries ELSE entries \cup {e}
      /\ requests' = [requests EXCEPT ![r] = Idle] /\ requests \in [Requests -> RequestType]
      /\ now' = now /\ free' = free /\ intents' = intents /\ chain' = chain
      /\ payments' = payments /\ accounts' = accounts /\ credited' = credited /\ raced' = raced
  BY RequestFacts DEF IInv, Typed, Asking, FreeInsert, Becomes
<1>2. free /\ e \in EntryType /\ e.by = t /\ e.funder = f /\ e.intent = 0
  BY <1>1 DEF Sound, EntryType
<1> HIDE DEF e
<1>3. /\ requests' \in [Requests -> RequestType] /\ requests'[r] = Idle
      /\ \A p \in Requests : p # r => requests'[p] = requests[p]
  BY <1>1, RequestsMade
<1>4. Typed'
  <2>1. entries' \subseteq EntryType /\ IsFiniteSet(entries')
    BY <1>1, <1>2, OneMore DEF Typed
  <2> QED
    BY <1>1, <1>3, <2>1 DEF Typed, TypeOK, Intents
<1>5. ASSUME NEW p \in Requests PROVE Sound(requests[p])'
  <2>1. CASE p = r
    <3>1. requests'[p].pc = "idle"
      BY <1>3, <2>1 DEF Idle
    <3> QED
      BY <3>1 DEF Sound, Asking, Confirming
  <2>2. CASE p # r
    <3> PICK y : y = requests[p]
      OBVIOUS
    <3>1. requests'[p] = y /\ Sound(y)
      BY <1>3, <2>2 DEF IInv
    <3> QED
      BY <1>1, <3>1 DEF Sound, Intents
  <2> QED
    BY <2>1, <2>2
<1>6. Apart'
  BY <1>3 DEF IInv, Apart, Idle
<1>7. Recorded'
  BY <1>1 DEF IInv, Recorded, Intents
<1>8. Entered'
  BY <1>1, <1>2 DEF IInv, Entered
<1>9. Given'
  <2>1. \A u : PracticePaid(u)' = PracticePaid(u)
    BY <1>1 DEF PracticePaid
  <2>2. \A u : HasEntered(u) => HasEntered(u)'
    BY <1>1 DEF HasEntered
  <2>3. \A d, g \in entries' : d.by = g.by => d = g
    BY <1>1, <1>2 DEF IInv, Given, HasEntered
  <2>4. \A i \in payments' : intents'[i].purpose = "season_entry" => HasEntered(intents[i].by)'
    BY <1>1, <2>2 DEF IInv, Given
  <2> QED
    BY <1>1, <2>1, <2>3, <2>4 DEF IInv, Given, HasEntered
<1>10. Limited'
  <2> SUFFICES ASSUME ~raced'
               PROVE  /\ \A g \in Funders : Outstanding(g)' <= MaxEntriesPerFunder
                      /\ \A p \in Requests : Room(requests[p])'
                      /\ OneCounts'
    BY DEF Limited
  <2>1. /\ \A g \in Funders : Outstanding(g) <= MaxEntriesPerFunder
        /\ \A p \in Requests : Room(requests[p])
        /\ OneCounts
    BY <1>1 DEF IInv, Limited
  <2>2. \A g : Pending(g, now)' = Pending(g, now)
    BY <1>1 DEF Pending, Intents
  <2>3. \A g : g # f => EntriesOf(g)' = EntriesOf(g)
    BY <1>1, <1>2 DEF EntriesOf
  <2>4. \A g : g # f => Outstanding(g)' = Outstanding(g)
    BY <2>2, <2>3 DEF Outstanding
  <2>5. f \in Funders => Outstanding(f)' <= MaxEntriesPerFunder
    <3> SUFFICES ASSUME f \in Funders PROVE Outstanding(f)' <= MaxEntriesPerFunder
      OBVIOUS
    <3>1. Outstanding(f) < MaxEntriesPerFunder
      BY <1>1, <2>1 DEF Room, Asking, Claiming
    <3>2. EntriesOf(f)' = EntriesOf(f) \/ EntriesOf(f)' = EntriesOf(f) \cup {e}
      BY <1>1, <1>2 DEF EntriesOf
    <3>3. /\ IsFiniteSet(EntriesOf(f)) /\ Cardinality(EntriesOf(f)) \in Nat
          /\ Cardinality(Pending(f, now)) \in Nat
      BY <1>1, Tables
    <3>4. /\ Cardinality(EntriesOf(f) \cup {e}) <= Cardinality(EntriesOf(f)) + 1
          /\ Cardinality(EntriesOf(f) \cup {e}) \in Nat
      BY <3>3, OneMore
    <3>5. /\ Cardinality(EntriesOf(f)') <= Cardinality(EntriesOf(f)) + 1
          /\ Cardinality(EntriesOf(f)') \in Nat
      <4>1. CASE EntriesOf(f)' = EntriesOf(f)
        <5>1. Cardinality(EntriesOf(f)') = Cardinality(EntriesOf(f))
          BY <4>1
        <5> QED
          BY <3>3, <5>1
      <4>2. CASE EntriesOf(f)' = EntriesOf(f) \cup {e}
        <5>1. Cardinality(EntriesOf(f)') = Cardinality(EntriesOf(f) \cup {e})
          BY <4>2
        <5> QED
          BY <3>4, <5>1
      <4> QED
        BY <3>2, <4>1, <4>2
    <3>6. Outstanding(f)' = Cardinality(EntriesOf(f)') + Cardinality(Pending(f, now))
      BY <2>2 DEF Outstanding
    <3> QED
      BY <3>1, <3>3, <3>5, <3>6, LimitAssumption DEF Outstanding
  <2>6. ASSUME NEW p \in Requests PROVE Room(requests[p])'
    <3>1. CASE p = r
      BY <1>3, <3>1 DEF Room, Idle, Asking
    <3>2. CASE p # r
      <4> PICK y : y = requests[p]
        OBVIOUS
      <4>1. requests'[p] = y /\ Room(y)
        BY <1>3, <2>1, <3>2
      <4>2. y.pc \in Claiming \cup {"pending"} /\ y.found \in Funders => y.found # f
        BY <1>1, <2>1, <3>2 DEF OneCounts, Counting, Claiming
      <4> QED
        BY <2>3, <2>4, <4>1, <4>2 DEF Room
    <3> QED
      BY <3>1, <3>2
  <2>7. OneCounts'
    BY <1>3, <2>1, CountingIs DEF OneCounts, Counting, CountsAs, Idle
  <2>8. \A g \in Funders : Outstanding(g)' <= MaxEntriesPerFunder
    BY <2>1, <2>4, <2>5
  <2> QED
    BY <2>6, <2>7, <2>8
<1> QED
  BY <1>4, <1>5, <1>6, <1>7, <1>8, <1>9, <1>10 DEF IInv

------------------------------------------------------------------------------
(***************************************************************************)
(* Settlement                                                              *)
(***************************************************************************)

\* What one write transaction does when it commits.
Commits(r, i) ==
    /\ requests[r].pc = "settle" /\ i = requests[r].intent /\ i \notin payments
    /\ intents[i].purpose = "practice_sol" => intents[i].by \in accounts
    /\ payments' = payments \cup {i}
    /\ intents' = [intents EXCEPT ![i].settled = TRUE]
    /\ entries' = entries \cup (IF intents[i].purpose = "practice_sol" THEN {} ELSE Bought(i))
    /\ credited' = [credited EXCEPT ![intents[i].by] =
                       @ + (IF intents[i].purpose = "practice_sol" THEN 1 ELSE 0)]
    /\ raced' = (raced \/ (intents[i].purpose # "practice_sol" /\ Unseen(i)))
    /\ Becomes(r, Idle)
    /\ UNCHANGED <<now, free, chain, accounts>>

LEMMA SettleIs ==
    ASSUME NEW r \in Requests, Settle(r)
    PROVE  \/ \E i : Commits(r, i)
           \/ /\ Becomes(r, Idle)
              /\ UNCHANGED <<now, free, intents, chain, payments, entries, accounts, credited, raced>>
<1> PICK i : i = requests[r].intent
  OBVIOUS
<1>1. CASE i \notin payments /\ (intents[i].purpose = "practice_sol" => intents[i].by \in accounts)
  <2>1. Commits(r, i)
    BY <1>1 DEF Settle, Commits, Recordable
  <2> QED
    BY <2>1
<1>2. CASE ~(i \notin payments /\ (intents[i].purpose = "practice_sol" => intents[i].by \in accounts))
  BY <1>2 DEF Settle, Recordable
<1> QED
  BY <1>1, <1>2

LEMMA CommitsKeeps ==
    ASSUME IInv, NEW r \in Requests, NEW i, Commits(r, i)
    PROVE  IInv'
<1> PICK f : f = intents[i].funder
  OBVIOUS
<1> PICK t : t = intents[i].by
  OBVIOUS
<1> PICK practice \in BOOLEAN : practice <=> intents[i].purpose = "practice_sol"
  OBVIOUS
<1> DEFINE e == [by |-> t, funder |-> f, intent |-> i]
<1>1. /\ i \in chain /\ i \notin payments /\ i \in Intents /\ i \in Nat \ {0} /\ i # 0 /\ Typed
      /\ chain \subseteq Intents /\ payments \subseteq chain
      /\ Intents = 1 .. Len(intents) /\ Len(intents) \in Nat /\ intents \in Seq(IntentType)
      /\ \A j \in Intents : intents[j] \in IntentType
  <2>1. i \in chain
    BY DEF IInv, Sound, Confirming, Commits
  <2> QED
    BY <2>1, Tables DEF IInv, Typed, TypeOK, Commits
<1>2. /\ t \in Traders
      /\ ~practice => intents[i].purpose = "season_entry"
      /\ intents[i].sent /\ intents[i].expires \in Nat /\ ~intents[i].settled
  <2>1. intents[i].purpose \in Purposes /\ intents[i].settled = (i \in payments)
    BY <1>1 DEF IInv, Typed, TypeOK
  <2> QED
    BY <1>1, <2>1, PurposeAssumption DEF IInv, Recorded, IntentType
<1>3. /\ practice => f = Unrecorded
      /\ ~practice => f \in Found
  BY <1>1, <1>2 DEF IInv, Recorded, IntentType
<1>4. /\ payments' = payments \cup {i}
      /\ entries' = entries \cup (IF practice \/ HasEntered(t) THEN {} ELSE {e})
      /\ credited' = [credited EXCEPT ![t] = @ + (IF practice THEN 1 ELSE 0)]
      /\ now' = now /\ free' = free /\ chain' = chain /\ accounts' = accounts
      /\ raced' = (raced \/ (~practice /\ Unseen(i)))
  <2>1. CASE practice
    BY <2>1 DEF Commits
  <2>2. CASE ~practice
    BY <2>2 DEF Commits, Bought
  <2> QED
    BY <2>1, <2>2
<1> HIDE DEF e
<1>5. /\ requests' \in [Requests -> RequestType] /\ requests'[r] = Idle
      /\ \A p \in Requests : p # r => requests'[p] = requests[p]
  BY RequestsMade DEF Commits, Becomes, IInv, Typed
<1>6. ~practice => e \in EntryType /\ e.by = t /\ e.funder = f /\ e.intent = i
  BY <1>1, <1>2, <1>3 DEF EntryType, e
<1> DEFINE x == [intents[i] EXCEPT !.settled = TRUE]
<1>7. /\ x \in IntentType /\ x.funder = f /\ x.sent = intents[i].sent /\ x.found = intents[i].found
      /\ x.purpose = intents[i].purpose /\ x.by = t /\ x.settled = TRUE /\ x.expires = intents[i].expires
  BY <1>1 DEF IntentType
<1>8. intents' = [intents EXCEPT ![i] = x]
  BY DEF Commits
<1> HIDE DEF x
<1>9. /\ intents' \in Seq(IntentType) /\ Intents' = Intents /\ intents'[i] = x
      /\ \A j \in Intents : j # i => intents'[j] = intents[j]
  BY <1>1, <1>7, <1>8 DEF Intents
<1>10. \A j \in Intents : /\ intents'[j].by = intents[j].by /\ intents'[j].purpose = intents[j].purpose
                          /\ intents'[j].found = intents[j].found /\ intents'[j].funder = intents[j].funder
                          /\ intents'[j].expires = intents[j].expires /\ intents'[j].sent = intents[j].sent
  <2> SUFFICES ASSUME NEW j \in Intents
               PROVE  /\ intents'[j].by = intents[j].by /\ intents'[j].purpose = intents[j].purpose
                      /\ intents'[j].found = intents[j].found /\ intents'[j].funder = intents[j].funder
                      /\ intents'[j].expires = intents[j].expires /\ intents'[j].sent = intents[j].sent
    OBVIOUS
  <2>1. CASE j = i
    BY <1>7, <1>9, <2>1
  <2>2. CASE j # i
    BY <1>9, <2>2
  <2> QED
    BY <2>1, <2>2
<1>11. Typed'
  <2>1. ASSUME NEW j \in Intents'
        PROVE  /\ intents'[j].by \in Traders /\ intents'[j].purpose \in Purposes
               /\ intents'[j].sent \in BOOLEAN /\ intents'[j].settled = (j \in payments')
    <3>1. /\ intents[j].by \in Traders /\ intents[j].purpose \in Purposes
          /\ intents[j].sent \in BOOLEAN /\ intents[j].settled = (j \in payments) /\ j \in Intents
      BY <1>9 DEF IInv, Typed, TypeOK
    <3>2. CASE j = i
      <4>1. (j \in payments') = TRUE
        BY <1>4, <3>2
      <4>2. intents'[j].settled = TRUE
        BY <1>7, <1>9, <3>2
      <4> QED
        BY <1>10, <3>1, <4>1, <4>2
    <3>3. CASE j # i
      <4>1. (j \in payments') = (j \in payments)
        BY <1>4, <3>3
      <4>2. intents'[j] = intents[j]
        BY <1>9, <3>1, <3>3
      <4> QED
        BY <3>1, <4>1, <4>2
    <3> QED
      BY <3>2, <3>3
  <2>2. /\ now \in 0 .. TimeBound /\ free \in BOOLEAN /\ accounts \subseteq Traders /\ raced \in BOOLEAN
        /\ credited \in [Traders -> Nat] /\ entries \subseteq EntryType /\ IsFiniteSet(entries)
    BY DEF IInv, Typed, TypeOK
  <2>3. raced' \in BOOLEAN /\ payments' \subseteq chain'
    BY <1>1, <1>4, <2>2
  <2>4. credited' \in [Traders -> Nat]
    <3>1. credited[t] + (IF practice THEN 1 ELSE 0) \in Nat
      <4>1. credited[t] \in Nat
        BY <1>2, <2>2
      <4> QED
        BY <4>1
    <3> QED
      BY <1>2, <1>4, <2>2, <3>1
  <2>5. entries' = entries \/ (~practice /\ entries' = entries \cup {e})
    BY <1>4
  <2>6. entries' \subseteq EntryType /\ IsFiniteSet(entries')
    <3>1. CASE entries' = entries
      BY <2>2, <3>1
    <3>2. CASE ~practice /\ entries' = entries \cup {e}
      BY <1>6, <2>2, <3>2, OneMore
    <3> QED
      BY <2>5, <3>1, <3>2
  <2>7. DOMAIN requests' = Requests
    BY <1>5
  <2>8. chain' \subseteq Intents'
    BY <1>1, <1>4, <1>9
  <2> QED
    BY <1>4, <1>5, <1>9, <2>1, <2>2, <2>3, <2>4, <2>6, <2>7, <2>8 DEF Typed, TypeOK
<1>12. ASSUME NEW p \in Requests PROVE Sound(requests[p])'
  <2>1. CASE p = r
    <3>1. requests'[p].pc = "idle"
      BY <1>5, <2>1 DEF Idle
    <3> QED
      BY <3>1 DEF Sound, Asking, Confirming
  <2>2. CASE p # r
    <3> PICK y : y = requests[p]
      OBVIOUS
    <3>1. requests'[p] = y /\ Sound(y)
      BY <1>5, <2>2 DEF IInv
    <3>2. y.pc = "evidence" =>
             /\ y.siblings \in Intents' /\ intents'[y.siblings].found = y.found
             /\ intents'[y.siblings].purpose = "season_entry" /\ ~intents'[y.siblings].sent
      BY <1>9, <1>10, <3>1 DEF Sound
    <3> QED
      BY <1>4, <3>1, <3>2 DEF Sound
  <2> QED
    BY <2>1, <2>2
<1>13. Apart'
  BY <1>5 DEF IInv, Apart, Idle
<1>14. Recorded'
  BY <1>4, <1>9, <1>10 DEF IInv, Recorded
<1>15. Entered'
  <2> SUFFICES ASSUME NEW d \in entries'
               PROVE  IF d.intent = 0 THEN free'
                      ELSE /\ d.intent \in payments' /\ intents'[d.intent].purpose = "season_entry"
                           /\ d.by = intents'[d.intent].by /\ d.funder = intents'[d.intent].funder
    BY DEF Entered
  <2>1. CASE d \in entries
    <3>1. IF d.intent = 0 THEN free
          ELSE /\ d.intent \in payments /\ intents[d.intent].purpose = "season_entry"
               /\ d.by = intents[d.intent].by /\ d.funder = intents[d.intent].funder
      BY <2>1 DEF IInv, Entered
    <3>2. d.intent \in payments =>
             /\ d.intent \in payments' /\ intents'[d.intent].purpose = intents[d.intent].purpose
             /\ intents'[d.intent].by = intents[d.intent].by
             /\ intents'[d.intent].funder = intents[d.intent].funder
      BY <1>1, <1>4, <1>10
    <3> QED
      BY <1>4, <3>1, <3>2
  <2>2. CASE d = e /\ ~practice
    <3>1. d.intent = i /\ d.by = t /\ d.funder = f
      BY <1>6, <2>2
    <3>2. i # 0 /\ i \in payments'
      BY <1>1, <1>4
    <3>3. intents'[i].purpose = "season_entry" /\ intents'[i].by = t /\ intents'[i].funder = f
      BY <1>1, <1>2, <1>10, <2>2
    <3> QED
      BY <3>1, <3>2, <3>3
  <2> QED
    BY <1>4, <2>1, <2>2
<1>16. Given'
  <2>1. \A u : HasEntered(u) => HasEntered(u)'
    BY <1>4 DEF HasEntered
  <2>2. ~practice => HasEntered(t)'
    <3>1. ~practice /\ ~HasEntered(t) => e \in entries' /\ e.by = t
      BY <1>4, <1>6
    <3> QED
      BY <2>1, <3>1 DEF HasEntered
  <2>3. \A j \in payments' : intents'[j].purpose = "season_entry" => \E d \in entries' : d.by = intents'[j].by
    <3>1. ASSUME NEW j \in payments', intents'[j].purpose = "season_entry"
          PROVE  \E d \in entries' : d.by = intents[j].by
      <4>1. CASE j = i
        BY <1>1, <1>2, <1>10, <2>2, <3>1, <4>1 DEF HasEntered
      <4>2. CASE j # i
        <5>1. j \in payments /\ j \in Intents /\ intents[j].purpose = "season_entry"
          BY <1>1, <1>4, <1>10, <3>1, <4>2
        <5> QED
          BY <2>1, <5>1 DEF IInv, Given, HasEntered
      <4> QED
        BY <4>1, <4>2
    <3>2. \A j \in payments' : intents'[j].by = intents[j].by
      BY <1>1, <1>4, <1>10
    <3> QED
      BY <3>1, <3>2
  <2>4. ASSUME NEW u \in Traders PROVE credited'[u] = Cardinality(PracticePaid(u)')
    <3>1. credited[u] = Cardinality(PracticePaid(u)) /\ credited \in [Traders -> Nat]
      BY DEF IInv, Given, Typed, TypeOK
    <3>2. IsFiniteSet(PracticePaid(u))
      BY <1>1, Tables
    <3>3. CASE practice /\ u = t
      <4>1. PracticePaid(u)' = PracticePaid(u) \cup {i} /\ i \notin PracticePaid(u)
        <5>1. PracticePaid(u)' = {j \in payments \cup {i} : intents'[j].purpose = "practice_sol" /\ intents'[j].by = u}
          BY <1>4 DEF PracticePaid
        <5>2. \A j \in payments \cup {i} : intents'[j].purpose = intents[j].purpose /\ intents'[j].by = intents[j].by
          BY <1>1, <1>10
        <5>3. intents[i].purpose = "practice_sol" /\ intents[i].by = u /\ i \notin payments
          BY <1>1, <3>3
        <5> QED
          BY <5>1, <5>2, <5>3 DEF PracticePaid
      <4>2. Cardinality(PracticePaid(u) \cup {i}) = Cardinality(PracticePaid(u)) + 1
        BY <3>2, <4>1, FS_AddElement
      <4>3. credited'[u] = credited[u] + 1
        BY <1>4, <3>1, <3>3
      <4> QED
        BY <3>1, <4>1, <4>2, <4>3
    <3>4. CASE ~(practice /\ u = t)
      <4>1. PracticePaid(u)' = PracticePaid(u)
        <5>1. PracticePaid(u)' = {j \in payments \cup {i} : intents'[j].purpose = "practice_sol" /\ intents'[j].by = u}
          BY <1>4 DEF PracticePaid
        <5>2. \A j \in payments \cup {i} : intents'[j].purpose = intents[j].purpose /\ intents'[j].by = intents[j].by
          BY <1>1, <1>10
        <5>3. ~(intents[i].purpose = "practice_sol" /\ intents[i].by = u)
          BY <3>4
        <5> QED
          BY <5>1, <5>2, <5>3 DEF PracticePaid
      <4>2. credited'[u] = credited[u]
        BY <1>4, <3>1, <3>4
      <4> QED
        BY <3>1, <4>1, <4>2
    <3> QED
      BY <3>3, <3>4
  <2>5. \A c, d \in entries' : c.by = d.by => c = d
    BY <1>4, <1>6 DEF IInv, Given, HasEntered
  <2> QED
    <3>1. \A u \in Traders : credited'[u] = Cardinality(PracticePaid(u)')
      BY <2>4
    <3>2. Given' <=> /\ \A j \in payments' : intents'[j].purpose = "season_entry" =>
                            \E d \in entries' : d.by = intents'[j].by
                     /\ \A u \in Traders : credited'[u] = Cardinality(PracticePaid(u)')
                     /\ \A c, d \in entries' : c.by = d.by => c = d
      BY DEF Given, HasEntered
    <3> QED
      BY <2>3, <2>5, <3>1, <3>2
<1>17. Limited'
  <2> SUFFICES ASSUME ~raced'
               PROVE  /\ \A g \in Funders : Outstanding(g)' <= MaxEntriesPerFunder
                      /\ \A p \in Requests : Room(requests[p])'
                      /\ OneCounts'
    BY DEF Limited
  <2>1. /\ \A g \in Funders : Outstanding(g) <= MaxEntriesPerFunder
        /\ \A p \in Requests : Room(requests[p])
        /\ OneCounts
    BY <1>4 DEF IInv, Limited
  <2>2. \A g : g # f => EntriesOf(g)' = EntriesOf(g)
    BY <1>4, <1>6 DEF EntriesOf
  <2>3. practice => EntriesOf(f)' = EntriesOf(f)
    BY <1>4 DEF EntriesOf
  <2>4. \A g : Pending(g, now)' = Pending(g, now) \ {i}
    <3>1. ASSUME NEW g PROVE Pending(g, now)' = Pending(g, now) \ {i}
      <4>1. Pending(g, now)' = {j \in Intents : intents'[j].funder = g /\ ~intents'[j].settled /\ intents'[j].expires > now}
        BY <1>4, <1>9 DEF Pending
      <4>2. intents'[i].settled
        BY <1>7, <1>9
      <4> QED
        BY <1>9, <4>1, <4>2 DEF Pending
    <3> QED
      BY <3>1
  <2>5. \A g : g # f => i \notin Pending(g, now)
    BY DEF Pending
  <2>6. \A g : g # f => Outstanding(g)' = Outstanding(g)
    <3>1. ASSUME NEW g, g # f PROVE Outstanding(g)' = Outstanding(g)
      <4>1. Pending(g, now)' = Pending(g, now)
        BY <2>4, <2>5, <3>1
      <4> QED
        BY <2>2, <3>1, <4>1 DEF Outstanding
    <3> QED
      BY <3>1
  <2>7. f \in Funders => ~practice /\ i \in Pending(f, now)
    <3>1. f \in Funders => ~practice
      BY <1>3, FundersRead
    <3>2. ~practice => intents[i].expires > now
      <4>1. now \in Nat
        BY ClockAssumption DEF IInv, Typed, TypeOK
      <4> QED
        <5>1. ~(~practice /\ Unseen(i))
          BY <1>4
        <5>2. ~practice => ~(intents[i].expires <= now)
          BY <5>1 DEF Unseen
        <5> QED
          BY <1>2, <4>1, <5>2
    <3> QED
      BY <1>1, <1>2, <3>1, <3>2 DEF Pending
  <2>8. f \in Funders => /\ Outstanding(f)' <= Outstanding(f)
                         /\ Outstanding(f) \in Nat /\ Outstanding(f)' \in Nat
    <3> SUFFICES ASSUME f \in Funders
                 PROVE  /\ Outstanding(f)' <= Outstanding(f)
                        /\ Outstanding(f) \in Nat /\ Outstanding(f)' \in Nat
      OBVIOUS
    <3>1. /\ IsFiniteSet(EntriesOf(f)) /\ IsFiniteSet(Pending(f, now))
          /\ Cardinality(EntriesOf(f)) \in Nat /\ Cardinality(Pending(f, now)) \in Nat
      BY <1>1, Tables
    <3>2. /\ Cardinality(Pending(f, now) \ {i}) = Cardinality(Pending(f, now)) - 1
          /\ Cardinality(Pending(f, now) \ {i}) \in Nat
      BY <2>7, <3>1, FS_RemoveElement, FS_CardinalityType
    <3>3. EntriesOf(f)' = EntriesOf(f) \/ EntriesOf(f)' = EntriesOf(f) \cup {e}
      BY <1>4, <1>6, <2>7 DEF EntriesOf
    <3>4. /\ Cardinality(EntriesOf(f) \cup {e}) <= Cardinality(EntriesOf(f)) + 1
          /\ Cardinality(EntriesOf(f) \cup {e}) \in Nat
      BY <3>1, OneMore
    <3>5. /\ Cardinality(EntriesOf(f)') <= Cardinality(EntriesOf(f)) + 1
          /\ Cardinality(EntriesOf(f)') \in Nat
      <4>1. CASE EntriesOf(f)' = EntriesOf(f)
        <5>1. Cardinality(EntriesOf(f)') = Cardinality(EntriesOf(f))
          BY <4>1
        <5> QED
          BY <3>1, <5>1
      <4>2. CASE EntriesOf(f)' = EntriesOf(f) \cup {e}
        <5>1. Cardinality(EntriesOf(f)') = Cardinality(EntriesOf(f) \cup {e})
          BY <4>2
        <5> QED
          BY <3>4, <5>1
      <4> QED
        BY <3>3, <4>1, <4>2
    <3>6. Outstanding(f)' = Cardinality(EntriesOf(f)') + Cardinality(Pending(f, now) \ {i})
      BY <2>4 DEF Outstanding
    <3> QED
      BY <3>1, <3>2, <3>5, <3>6 DEF Outstanding
  <2>9. \A g \in Funders : Outstanding(g)' <= MaxEntriesPerFunder
    BY <2>1, <2>6, <2>8, LimitAssumption
  <2>10. ASSUME NEW p \in Requests PROVE Room(requests[p])'
    <3>1. CASE p = r
      BY <1>5, <3>1 DEF Room, Idle, Asking
    <3>2. CASE p # r
      <4> PICK y : y = requests[p]
        OBVIOUS
      <4>1. requests'[p] = y /\ Room(y)
        BY <1>5, <2>1, <3>2
      <4>2. y.pc = "pending" /\ y.found \in Funders => y.found # f
        BY <1>4, <2>7 DEF Unseen
      <4>3. y.found \in Funders /\ Outstanding(y.found) < MaxEntriesPerFunder =>
                Outstanding(y.found)' < MaxEntriesPerFunder
        BY <2>6, <2>8, LimitAssumption
      <4> QED
        BY <2>2, <4>1, <4>2, <4>3 DEF Room
    <3> QED
      BY <3>1, <3>2
  <2>11. OneCounts'
    BY <1>5, <2>1, CountingIs DEF OneCounts, Counting, CountsAs, Idle
  <2> QED
    BY <2>9, <2>10, <2>11
<1> QED
  BY <1>11, <1>12, <1>13, <1>14, <1>15, <1>16, <1>17 DEF IInv

------------------------------------------------------------------------------
(***************************************************************************)
(* The invariant holds initially and every step keeps it                   *)
(***************************************************************************)

LEMMA Initially == Init => IInv
<1> SUFFICES ASSUME Init PROVE IInv
  OBVIOUS
<1>1. /\ now = 0 /\ free \in BOOLEAN /\ intents = <<>> /\ chain = {} /\ payments = {} /\ entries = {}
      /\ accounts = {} /\ credited = [t \in Traders |-> 0] /\ raced = FALSE
      /\ requests = [r \in Requests |-> Idle] /\ Intents = {}
  BY DEF Init, Intents
<1>2. \A r \in Requests : requests[r] = Idle /\ requests[r].pc = "idle"
  BY <1>1 DEF Idle
<1>3. Typed
  <2>1. now \in 0 .. TimeBound
    BY <1>1, ClockAssumption
  <2>2. requests \in [Requests -> RequestType] /\ DOMAIN requests = Requests
    BY <1>1, RequestsMade
  <2>3. intents \in Seq(IntentType)
    BY <1>1
  <2>4. IsFiniteSet(entries)
    BY <1>1, FS_EmptySet
  <2> QED
    BY <1>1, <2>1, <2>2, <2>3, <2>4 DEF Typed, TypeOK
<1>4. \A r \in Requests : Sound(requests[r]) /\ Room(requests[r]) /\ ~Counting(r)
  BY <1>2 DEF Sound, Room, Asking, Confirming, Counting
<1>5. Apart /\ Recorded /\ Entered
  BY <1>1, <1>2 DEF Apart, Recorded, Entered
<1>6. Given
  <2>1. \A t : PracticePaid(t) = {}
    BY <1>1 DEF PracticePaid
  <2> QED
    BY <1>1, <2>1, FS_EmptySet DEF Given
<1>7. Limited
  <2>1. ASSUME NEW f PROVE Outstanding(f) = 0
    <3>1. EntriesOf(f) = {} /\ Pending(f, now) = {}
      BY <1>1 DEF EntriesOf, Pending
    <3> QED
      BY <3>1, FS_EmptySet DEF Outstanding
  <2> QED
    BY <1>4, <2>1, LimitAssumption DEF Limited, OneCounts
<1> QED
  BY <1>3, <1>4, <1>5, <1>6, <1>7 DEF IInv

LEMMA Preserved == IInv /\ [Next]_vars => IInv'
<1> SUFFICES ASSUME IInv, [Next]_vars PROVE IInv'
  OBVIOUS
<1>1. ASSUME NEW r \in Requests, EntryRequest(r) PROVE IInv'
  BY <1>1, AskKeeps, GatherKeeps, CountSettledKeeps, CountPendingKeeps, InsertIntentKeeps,
     RecordEvidenceKeeps, FreeInsertKeeps DEF EntryRequest
<1>2. ASSUME NEW r \in Requests, StoreRequest(r) PROVE IInv'
  BY <1>2, BuyKeeps, InsertQuoteKeeps DEF StoreRequest
<1>3. ASSUME NEW r \in Requests, ConfirmRequest(r) PROVE IInv'
  <2>1. ASSUME NEW i \in Intents, Confirm(r, i) PROVE IInv'
    <3>1. /\ i \in chain /\ Becomes(r, [pc |-> "existing payment", intent |-> i])
          /\ "existing payment" \in Confirming
          /\ UNCHANGED <<now, free, intents, chain, payments, entries, accounts, credited, raced>>
      BY <2>1 DEF Confirm, Verified, Confirming
    <3> QED
      BY <3>1, ConfirmingKeeps
  <2>2. CASE CheckPayment(r)
    <3>1. UNCHANGED <<now, free, intents, chain, payments, entries, accounts, credited, raced>>
      BY <2>2 DEF CheckPayment
    <3>2. CASE requests[r].intent \in payments
      <4>1. Becomes(r, Idle)
        BY <2>2, <3>2 DEF CheckPayment
      <4> QED
        BY <3>1, <4>1, EndsKeeps
    <3>3. CASE requests[r].intent \notin payments
      <4>1. requests[r] \in RequestType /\ requests[r].pc = "existing payment"
        BY <2>2 DEF CheckPayment, IInv, Typed
      <4>2. [requests[r] EXCEPT !.pc = "settle"] = [pc |-> "settle", intent |-> requests[r].intent]
        <5>1. requests[r] \in [pc : Confirming, intent : Nat]
          BY <4>1 DEF RequestType, Asking, Confirming
        <5> QED
          BY <5>1
      <4>3. Becomes(r, [pc |-> "settle", intent |-> requests[r].intent])
        BY <2>2, <3>3, <4>2 DEF CheckPayment
      <4>4. requests[r].intent \in chain /\ "settle" \in Confirming
        BY <4>1 DEF IInv, Sound, Confirming
      <4> QED
        BY <3>1, <4>3, <4>4, ConfirmingKeeps
    <3> QED
      BY <3>2, <3>3
  <2>3. CASE Settle(r)
    BY <2>3, SettleIs, CommitsKeeps, EndsKeeps
  <2> QED
    BY <1>3, <2>1, <2>2, <2>3 DEF ConfirmRequest
<1>4. ASSUME NEW r \in Requests, RequestDies(r) PROVE IInv'
  BY <1>4, EndsKeeps DEF RequestDies
<1>5. CASE UNCHANGED vars
  <2>1. /\ now' = now /\ free' = free /\ requests' = requests /\ intents' = intents
        /\ chain' = chain /\ payments' = payments /\ entries' = entries /\ accounts' = accounts
        /\ credited' = credited /\ raced' = raced
    BY <1>5 DEF vars
  <2>2. Typed' /\ Apart' /\ Recorded' /\ Entered'
    BY <2>1 DEF IInv, Typed, TypeOK, Apart, Recorded, Entered, Intents
  <2>3. \A r \in Requests : Sound(requests[r])'
    BY <2>1 DEF IInv, Sound, Intents
  <2>4. Given'
    BY <2>1 DEF IInv, Given, PracticePaid, HasEntered
  <2>5. Limited'
    <3>1. /\ \A f : Outstanding(f)' = Outstanding(f) /\ EntriesOf(f)' = EntriesOf(f)
          /\ OneCounts' <=> OneCounts
      BY <2>1 DEF Outstanding, EntriesOf, Pending, Intents, OneCounts, Counting
    <3> QED
      BY <2>1, <3>1 DEF IInv, Limited, Room
  <2> QED
    BY <2>2, <2>3, <2>4, <2>5 DEF IInv
<1> QED
  BY <1>1, <1>2, <1>3, <1>4, <1>5, PayKeeps, ClockMovesKeeps DEF Next

------------------------------------------------------------------------------
(***************************************************************************)
(* Theorems                                                                *)
(***************************************************************************)

\* The invariant above holds of every behaviour.
THEOREM Invariance == Spec => []IInv
<1>1. Init => IInv
  BY Initially
<1>2. IInv /\ [Next]_vars => IInv'
  BY Preserved
<1> QED
  BY <1>1, <1>2, PTL DEF Spec

\* Whatever requests overlap, are repeated or die between two statements (payments.ts:196-318),
\* every recorded payment has bought what it was for, once, and a season with a fee has no
\* entry without one.
THEOREM PaidForIsGiven == Spec => []PaidForAndGiven
<1>1. IInv => PaidForAndGiven
  <2> SUFFICES ASSUME IInv PROVE PaidForAndGiven
    OBVIOUS
  <2>1. TypeOK /\ payments \subseteq chain
    BY DEF IInv, Typed, TypeOK
  <2>2. ~free => \A e \in entries : e.intent \in payments
    BY DEF IInv, Entered
  <2> QED
    BY <2>1, <2>2 DEF PaidForAndGiven, IInv, Given, PracticePaid
<1> QED
  BY <1>1, Invariance, PTL

\* The evidence is written in a statement of its own (payments.ts:387-404), yet no wallet can
\* pay before: an entry carries exactly the funder that was found before it was asked to pay.
THEOREM FunderFollows == Spec => []FunderFollowsTheEntry
<1>1. IInv => FunderFollowsTheEntry
  <2> SUFFICES ASSUME IInv, NEW e \in entries, e.intent # 0
               PROVE  e.funder = intents[e.intent].found
    BY DEF FunderFollowsTheEntry
  <2>1. /\ e.intent \in payments /\ intents[e.intent].purpose = "season_entry"
        /\ e.funder = intents[e.intent].funder
    BY DEF IInv, Entered
  <2>2. e.intent \in chain /\ e.intent \in Intents
    BY <2>1 DEF IInv, Typed, TypeOK
  <2> QED
    BY <2>1, <2>2 DEF IInv, Recorded
<1> QED
  BY <1>1, Invariance, PTL

\* The limit per funder is counted in two statements before the request is written
\* (payments.ts:366-383).  For any limit and any number of requests it is kept, unless two
\* requests of one funder overlapped, an intent settled between the counts or after it
\* expired, or a funder was taken as shared for want of an answer.
THEOREM OnlyARaceExceeds == Spec => []OverTheLimitTakesARace
<1>1. IInv => OverTheLimitTakesARace
  <2> SUFFICES ASSUME IInv, NEW f \in Funders, ~raced,
                      Cardinality({e \in entries : e.funder = f}) > MaxEntriesPerFunder
               PROVE  FALSE
    BY DEF OverTheLimitTakesARace, Funders
  <2>1. Cardinality(EntriesOf(f)) > MaxEntriesPerFunder
    BY DEF EntriesOf
  <2>2. Outstanding(f) <= MaxEntriesPerFunder
    BY DEF IInv, Limited
  <2>3. Cardinality(EntriesOf(f)) \in Nat /\ Cardinality(Pending(f, now)) \in Nat
    BY Tables DEF IInv
  <2> QED
    BY <2>1, <2>2, <2>3, LimitAssumption DEF Outstanding
<1> QED
  BY <1>1, Invariance, PTL

------------------------------------------------------------------------------
(***************************************************************************)
(* Hosted strategies: what a call and a tick of the runner may carry       *)
(***************************************************************************)
CallSound(c) ==
    /\ c.pc \in {"idle", "select", "write", "start", "stop", "count", "order"}
    /\ c.pc \in {"select", "write", "count", "order"} => c.season \in Seasons
    /\ c.pc = "write" => c.id \in Ids \cup {0}
    /\ c.pc \in {"start", "stop"} => c.id \in Ids
    /\ c.pc \in {"count", "order"} => c.sequence \in Nat
    /\ c.pc = "count" => c.sequence <= trades[c.season]
    /\ c.pc = "order" => c.sequence < Cap

Passing == {"exits", "sell", "entries", "buy"}
RunnerOrders == {NoOrder} \cup [mint : Mints, sequence : Nat]
Sweeps == [pc : {"sweep"}, left : SUBSET Ids, season : Seasons, open : BOOLEAN]
Listings == [pc : {"read"}, season : Seasons]
Readings == [pc : {"budget"}, season : Seasons, held : SUBSET Mints]
PassRecords ==
    [pc : Passing, season : Seasons, held : SUBSET Mints, todo : SUBSET Mints, budget : Nat,
     sold : SUBSET Mints, bought : SUBSET Mints, order : RunnerOrders]

RunnerTyped == runner \in {Rest} \cup Sweeps \cup Listings \cup Readings \cup PassRecords

\* A pass sells what it held when it began, and buys what it did not.
PassSound ==
    runner.pc \in Passing =>
        /\ runner.todo \cup runner.sold \subseteq runner.held
        /\ runner.sold \cap runner.bought = {}
        /\ runner.pc \in {"exits", "sell"} => runner.bought = {}
        /\ runner.pc \in {"sell", "buy"} => runner.order.mint \in Mints /\ runner.budget > 0
        /\ runner.pc = "sell" => runner.order.mint \in runner.held
        /\ runner.pc = "buy" => runner.order.mint \notin runner.held

StrategyRows == [season : Seasons, status : {"draft", "running", "stopped"}]

TablesSound ==
    /\ stage \in DOMAIN Timeline /\ faults \in 0 .. FaultBound
    /\ strategies \in Seq(StrategyRows)
    /\ trades \in [Seasons -> Nat] /\ overlap \in [Seasons -> Nat]
    /\ entered \in [Seasons -> SUBSET Mints] /\ positions \in [Seasons -> SUBSET Mints]
    /\ \A s \in Seasons : entered[s] \subseteq positions[s]

CallsSound == calls = [r \in Calls |-> calls[r]] /\ \A r \in Calls : CallSound(calls[r])

OneRuns == \A s \in Seasons : \A i, j \in RunningIn(s) : i = j

\* What is left of a pass's budget is left of the cap, but for the orders of the key.
WithinCap ==
    \A s \in Seasons :
        trades[s] + (IF Spending(s) THEN runner.budget ELSE 0) <= Cap + overlap[s]

\* And of the places for positions, once the pass has come to its entries.
Filling(s) == runner.pc \in {"entries", "buy"} /\ runner.season = s
WithinPlaces ==
    \A s \in Seasons :
        Cardinality(entered[s]) + (IF Filling(s) THEN runner.budget ELSE 0) <= MaxOpen

StrategiesInvariant ==
    /\ TablesSound /\ RunnerTyped /\ PassSound /\ OneRuns /\ CallsSound
    /\ WithinCap /\ WithinPlaces

------------------------------------------------------------------------------
(***************************************************************************)
(* Facts about the tables and the runner                                   *)
(***************************************************************************)

LEMMA LowestIn ==
    ASSUME NEW ids \in SUBSET Nat, ids # {}
    PROVE  Lowest(ids) \in ids
BY LeastNat DEF Lowest

LEMMA HighestIn ==
    ASSUME NEW n \in Nat, NEW ids \in SUBSET (1 .. n), ids # {}
    PROVE  Highest(ids) \in ids
<1> DEFINE R == {pair \in ids \X ids : pair[1] < pair[2]}
<1>1. StrictOrder(ids, R)
  BY DEF StrictOrder
<1>2. IsFiniteSet(ids)
  <2>1. IsFiniteSet(1 .. n)
    BY ONLY 1 \in Int, n \in Int, FS_Interval
  <2> QED
    BY ONLY <2>1, ids \in SUBSET (1 .. n), FS_Subset
<1>3. PICK x \in ids : \A y \in ids : y = x \/ <<y, x>> \in R
  <2> HIDE DEF R
  <2> QED
    BY <1>1, <1>2, Greatest
<1>4. \A y \in ids : x >= y
  <2> SUFFICES ASSUME NEW y \in ids PROVE x >= y
    OBVIOUS
  <2>1. y = x \/ y < x
    BY <1>3
  <2> QED
    BY ONLY <2>1, x \in Nat, y \in Nat
<1>5. \E i \in ids : \A j \in ids : i >= j
  BY ONLY <1>4, x \in ids
<1> QED
  BY ONLY <1>5 DEF Highest

LEMMA TableFacts ==
    ASSUME TablesSound
    PROVE  /\ Season \in Seasons
           /\ Len(strategies) \in Nat /\ Ids = 1 .. Len(strategies)
           /\ \A i \in Ids : /\ strategies[i].season \in Seasons
                             /\ strategies[i].status \in {"draft", "running", "stopped"}
           /\ \A s : RunningIn(s) \subseteq Ids
<1>1. strategies \in Seq(StrategyRows)
  BY DEF TablesSound
<1>2. Len(strategies) \in Nat /\ Ids = 1 .. Len(strategies)
  BY <1>1 DEF Ids
<1>3. \A i \in Ids : strategies[i] \in StrategyRows
  BY <1>1, <1>2
<1>4. Season \in Seasons
  BY DEF TablesSound, Season, Seasons
<1> QED
  BY <1>2, <1>3, <1>4 DEF StrategyRows, RunningIn

LEMMA EnteredFinite ==
    ASSUME TablesSound, NEW s \in Seasons
    PROVE  /\ IsFiniteSet(entered[s]) /\ IsFiniteSet(positions[s])
           /\ Cardinality(entered[s]) \in Nat /\ Cardinality(positions[s]) \in Nat
           /\ Cardinality(entered[s]) <= Cardinality(positions[s]) /\ MaxOpen \in Nat
<1>1. entered[s] \subseteq positions[s] /\ positions[s] \subseteq Mints
  BY DEF TablesSound
<1>2. IsFiniteSet(Mints) /\ MaxOpen \in Nat
  BY CapAssumption
<1>3. IsFiniteSet(positions[s])
  BY ONLY <1>1, <1>2, FS_Subset
<1>4. IsFiniteSet(entered[s]) /\ Cardinality(entered[s]) <= Cardinality(positions[s])
  BY ONLY <1>1, <1>3, FS_Subset
<1> QED
  BY <1>2, <1>3, <1>4, FS_CardinalityType

\* Strategies are only added, and automated trades only counted up.
LEMMA CallKept ==
    ASSUME NEW c, CallSound(c), Ids \subseteq Ids', TablesSound, TablesSound',
           \A s \in Seasons : trades[s] <= trades'[s]
    PROVE  CallSound(c)'
<1>1. Seasons' = Seasons
  BY DEF Seasons
<1>2. ASSUME c.pc = "count" PROVE c.sequence <= trades'[c.season]
  <2>1. /\ c.season \in Seasons /\ c.sequence \in Nat /\ c.sequence <= trades[c.season]
    BY <1>2 DEF CallSound
  <2>2. trades[c.season] \in Nat /\ trades'[c.season] \in Nat /\ trades[c.season] <= trades'[c.season]
    BY <1>1, <2>1 DEF TablesSound
  <2> QED
    BY ONLY <2>1, <2>2
<1> QED
  BY <1>1, <1>2 DEF CallSound

\* A step that leaves the calls alone.
LEMMA CallsKept ==
    ASSUME CallsSound, calls' = calls, Ids \subseteq Ids', TablesSound, TablesSound',
           \A s \in Seasons : trades[s] <= trades'[s]
    PROVE  CallsSound'
<1> SUFFICES ASSUME NEW r \in Calls PROVE CallSound(calls[r])'
  BY DEF CallsSound
<1> PICK c : c = calls[r]
  OBVIOUS
<1>1. CallSound(c)'
  BY CallKept DEF CallsSound
<1> QED
  BY <1>1

\* A step of one call.
LEMMA CallStep ==
    ASSUME CallsSound, NEW r \in Calls, NEW c, Goes(r, c), CallSound(c)', Ids \subseteq Ids',
           TablesSound, TablesSound', \A s \in Seasons : trades[s] <= trades'[s]
    PROVE  CallsSound'
<1>1. calls' = [calls EXCEPT ![r] = c] /\ calls = [q \in Calls |-> calls[q]]
  BY DEF Goes, CallsSound
<1>2. calls' = [q \in Calls |-> calls'[q]] /\ calls'[r] = c
      /\ \A q \in Calls \ {r} : calls'[q] = calls[q]
  BY ONLY <1>1, r \in Calls
<1>3. ASSUME NEW q \in Calls \ {r} PROVE CallSound(calls[q])'
  <2> PICK d : d = calls[q]
    OBVIOUS
  <2>1. CallSound(d)'
    BY CallKept DEF CallsSound
  <2>2. d = calls'[q]
    BY <1>2
  <2> QED
    BY <2>1, <2>2
<1> QED
  BY <1>2, <1>3 DEF CallsSound

\* What the runner holds at each point of a tick.
LEMMA RunnerFacts ==
    ASSUME RunnerTyped
    PROVE  /\ runner.pc = "rest" => runner = Rest
           /\ runner.pc = "sweep" => /\ runner.left \subseteq Ids /\ runner.season \in Seasons
                                     /\ runner \in Sweeps
           /\ runner.pc = "read" => runner.season \in Seasons
           /\ runner.pc = "budget" => runner.season \in Seasons /\ runner.held \subseteq Mints
           /\ runner.pc \in Passing => runner \in PassRecords
           /\ runner.pc \in {"rest", "sweep", "read", "budget"} \cup Passing
<1>1. CASE runner = Rest
  BY <1>1 DEF Rest, Passing
<1>2. CASE runner \in Sweeps
  BY <1>2 DEF Sweeps, Passing
<1>3. CASE runner \in Listings
  BY <1>3 DEF Listings, Passing
<1>4. CASE runner \in Readings
  BY <1>4 DEF Readings, Passing
<1>5. CASE runner \in PassRecords
  BY <1>5 DEF PassRecords, Passing
<1> QED
  BY <1>1, <1>2, <1>3, <1>4, <1>5 DEF RunnerTyped

LEMMA PassFacts ==
    ASSUME RunnerTyped, runner.pc \in Passing
    PROVE  /\ runner.season \in Seasons /\ runner.budget \in Nat
           /\ runner.held \subseteq Mints /\ runner.todo \subseteq Mints
           /\ runner.sold \subseteq Mints /\ runner.bought \subseteq Mints
           /\ runner.order \in RunnerOrders
<1>1. runner \in PassRecords
  BY RunnerFacts
<1> QED
  BY <1>1 DEF PassRecords

\* A step of the runner that fills no order.
LEMMA RunnerMoves ==
    ASSUME StrategiesInvariant, UNCHANGED <<stage, strategies, account, calls>>,
           faults' \in 0 .. FaultBound, RunnerTyped', PassSound',
           \A s \in Seasons : Spending(s)' =>
               trades[s] + runner'.budget <= Cap + overlap[s],
           \A s \in Seasons : Filling(s)' =>
               Cardinality(entered[s]) + runner'.budget <= MaxOpen
    PROVE  StrategiesInvariant'
<1>1. UNCHANGED <<trades, positions, entered, overlap>> /\ Seasons' = Seasons /\ Ids' = Ids
  BY DEF account, Seasons, Ids
<1>2. TablesSound'
  BY <1>1 DEF StrategiesInvariant, TablesSound
<1>3. OneRuns'
  BY <1>1 DEF StrategiesInvariant, OneRuns, RunningIn, Running
<1>4. CallsSound'
  <2>1. \A s \in Seasons : trades[s] <= trades'[s]
    BY <1>1 DEF StrategiesInvariant, TablesSound
  <2> QED
    BY <1>1, <1>2, <2>1, CallsKept DEF StrategiesInvariant
<1>5. ASSUME NEW s \in Seasons
      PROVE  trades[s] + (IF Spending(s)' THEN runner'.budget ELSE 0) <= Cap + overlap[s]
  <2>1. CASE Spending(s)'
    BY <2>1
  <2>2. CASE ~Spending(s)'
    <3>1. trades[s] + (IF Spending(s) THEN runner.budget ELSE 0) <= Cap + overlap[s]
      BY DEF StrategiesInvariant, WithinCap
    <3>2. trades[s] \in Nat /\ overlap[s] \in Nat /\ Cap \in Nat
      BY CapAssumption DEF StrategiesInvariant, TablesSound
    <3>3. Spending(s) => runner.budget \in Nat
      BY PassFacts DEF StrategiesInvariant, Spending, Passing
    <3> QED
      BY ONLY <2>2, <3>1, <3>2, <3>3
  <2> QED
    BY <2>1, <2>2
<1>6. WithinCap'
  BY <1>1, <1>5 DEF WithinCap
<1>7. ASSUME NEW s \in Seasons
      PROVE  Cardinality(entered[s]) + (IF Filling(s)' THEN runner'.budget ELSE 0) <= MaxOpen
  <2>1. CASE Filling(s)'
    BY <2>1
  <2>2. CASE ~Filling(s)'
    <3>1. Cardinality(entered[s]) + (IF Filling(s) THEN runner.budget ELSE 0) <= MaxOpen
      BY DEF StrategiesInvariant, WithinPlaces
    <3>2. Cardinality(entered[s]) \in Nat /\ MaxOpen \in Nat
      BY EnteredFinite DEF StrategiesInvariant
    <3>3. Filling(s) => runner.budget \in Nat
      BY PassFacts DEF StrategiesInvariant, Filling, Passing
    <3> QED
      BY ONLY <2>2, <3>1, <3>2, <3>3
  <2> QED
    BY <2>1, <2>2
<1>8. WithinPlaces'
  BY <1>1, <1>7 DEF WithinPlaces
<1> QED
  BY <1>2, <1>3, <1>4, <1>6, <1>8 DEF StrategiesInvariant

LEMMA RunnerRests ==
    ASSUME StrategiesInvariant, UNCHANGED <<stage, strategies, account, calls>>,
           faults' \in 0 .. FaultBound, runner' = Rest
    PROVE  StrategiesInvariant'
<1>1. RunnerTyped' /\ PassSound'
  BY DEF RunnerTyped, PassSound, Passing, Rest
<1>2. \A s \in Seasons : ~Spending(s)' /\ ~Filling(s)'
  BY DEF Spending, Filling, Rest
<1> QED
  BY <1>1, <1>2, RunnerMoves

------------------------------------------------------------------------------
(***************************************************************************)
(* The owner's calls                                                       *)
(***************************************************************************)

\* A step that writes no strategy and no account.
LEMMA CallMoves ==
    ASSUME StrategiesInvariant, NEW r \in Calls, NEW c, Goes(r, c), CallSound(c),
           UNCHANGED <<stage, strategies, account, runner, faults>>
    PROVE  StrategiesInvariant'
<1>1. /\ UNCHANGED <<trades, positions, entered, overlap>> /\ Seasons' = Seasons /\ Ids' = Ids
      /\ \A s : Spending(s)' = Spending(s) /\ Filling(s)' = Filling(s)
  BY DEF account, Seasons, Ids, Spending, Filling
<1>2. TablesSound' /\ RunnerTyped' /\ PassSound' /\ OneRuns'
  BY <1>1 DEF StrategiesInvariant, TablesSound, RunnerTyped, Sweeps, Listings, Readings, PassRecords,
              PassSound, OneRuns, RunningIn, Running
<1>3. WithinCap' /\ WithinPlaces'
  BY <1>1 DEF StrategiesInvariant, WithinCap, WithinPlaces
<1>4. CallsSound'
  <2>1. CallSound(c)'
    BY <1>1 DEF CallSound
  <2>2. \A s \in Seasons : trades[s] <= trades'[s]
    BY <1>1 DEF StrategiesInvariant, TablesSound
  <2> QED
    BY <1>1, <1>2, <2>1, <2>2, CallStep DEF StrategiesInvariant
<1> QED
  BY <1>2, <1>3, <1>4 DEF StrategiesInvariant

\* The strategy a call names and the season it is for.
LEMMA CallFacts ==
    ASSUME StrategiesInvariant, NEW r \in Calls
    PROVE  CallSound(calls[r])
BY DEF StrategiesInvariant, CallsSound

LEMMA ChosenFacts ==
    ASSUME StrategiesInvariant, \E i \in Ids : strategies[i].season = Season
    PROVE  Chosen(Season) \in Ids
<1>1. /\ Len(strategies) \in Nat /\ Ids = 1 .. Len(strategies)
      /\ RunningIn(Season) \subseteq Ids
  BY TableFacts DEF StrategiesInvariant
<1>2. CASE RunningIn(Season) # {}
  <2>1. Lowest(RunningIn(Season)) \in RunningIn(Season)
    BY <1>1, <1>2, LowestIn
  <2> QED
    BY <1>1, <1>2, <2>1 DEF Chosen
<1>3. CASE RunningIn(Season) = {}
  <2> DEFINE ids == {i \in Ids : strategies[i].season = Season}
  <2>1. ids \in SUBSET (1 .. Len(strategies)) /\ ids # {}
    BY <1>1
  <2> HIDE DEF ids
  <2>2. Highest(ids) \in ids
    BY <1>1, <2>1, HighestIn
  <2> USE DEF ids
  <2> QED
    BY <1>3, <2>2 DEF Chosen
<1> QED
  BY <1>2, <1>3

LEMMA OwnerAsks ==
    ASSUME StrategiesInvariant, NEW r \in Calls,
           Save(r) \/ SaveSelects(r) \/ Start(r) \/ Stop(r) \/ Order(r) \/ OrderCounts(r)
               \/ RequestEnds(r)
    PROVE  StrategiesInvariant'
<1>1. /\ Season \in Seasons /\ trades \in [Seasons -> Nat]
      /\ Len(strategies) \in Nat /\ Ids = 1 .. Len(strategies)
  BY TableFacts DEF StrategiesInvariant, TablesSound
<1>2. CallSound(calls[r])
  BY CallFacts
<1>3. CASE Save(r)
  <2>1. CallSound([pc |-> "select", season |-> Season])
    BY <1>1 DEF CallSound
  <2> QED
    BY <1>3, <2>1, CallMoves DEF Save
<1>4. CASE SaveSelects(r)
  <2> DEFINE drafts == {i \in Ids : strategies[i].season = calls[r].season /\ ~Running(i)}
             id == IF drafts = {} THEN 0 ELSE Highest(drafts)
             c == [pc |-> "write", season |-> calls[r].season, id |-> id]
  <2>1. id \in Ids \cup {0}
    <3>1. drafts \in SUBSET (1 .. Len(strategies)) /\ drafts \subseteq Ids
      BY <1>1
    <3> HIDE DEF drafts
    <3>2. drafts # {} => Highest(drafts) \in drafts
      BY <1>1, <3>1, HighestIn
    <3> QED
      BY <3>1, <3>2
  <2>2. calls[r].season \in Seasons
    BY <1>2, <1>4 DEF CallSound, SaveSelects
  <2>3. Goes(r, c) /\ UNCHANGED <<stage, strategies, account, runner, faults>>
    BY <1>4 DEF SaveSelects
  <2> HIDE DEF id
  <2>4. CallSound(c)
    BY <2>1, <2>2 DEF CallSound
  <2> HIDE DEF c
  <2> QED
    BY <2>3, <2>4, CallMoves
<1>5. CASE Start(r)
  <2>1. Chosen(Season) \in Ids
    BY <1>5, ChosenFacts DEF Start
  <2>2. CallSound([pc |-> "start", id |-> Chosen(Season)])
    BY <2>1 DEF CallSound
  <2> QED
    BY <1>5, <2>2, CallMoves DEF Start
<1>6. CASE Stop(r)
  <2>1. Chosen(Season) \in Ids
    BY <1>6, ChosenFacts DEF Stop
  <2>2. CallSound([pc |-> "stop", id |-> Chosen(Season)])
    BY <2>1 DEF CallSound
  <2> QED
    BY <1>6, <2>2, CallMoves DEF Stop
<1>7. CASE Order(r)
  <2>1. CallSound([pc |-> "count", season |-> Season, sequence |-> trades[Season]])
    BY <1>1 DEF CallSound
  <2> QED
    BY <1>7, <2>1, CallMoves DEF Order
<1>8. CASE OrderCounts(r)
  <2>1. CASE trades[calls[r].season] >= Cap
    <3>1. CallSound(NoCall)
      BY DEF CallSound, NoCall
    <3> QED
      BY <1>8, <2>1, <3>1, CallMoves DEF OrderCounts
  <2>2. CASE ~(trades[calls[r].season] >= Cap)
    <3>1. PICK c : c = [calls[r] EXCEPT !.pc = "order"]
      OBVIOUS
    <3>2. /\ calls[r].season \in Seasons /\ calls[r].sequence \in Nat
          /\ calls[r].sequence <= trades[calls[r].season]
      BY <1>2, <1>8 DEF CallSound, OrderCounts
    <3>3. calls[r].sequence < Cap
      <4>1. trades[calls[r].season] \in Nat /\ Cap \in Nat
        BY <1>1, <3>2, CapAssumption
      <4> QED
        BY ONLY <2>2, <3>2, <4>1
    <3>4. calls[r].pc = "count"
      BY <1>8 DEF OrderCounts
    <3>5. c.season = calls[r].season /\ c.sequence = calls[r].sequence /\ c.pc \in {calls[r].pc, "order"}
      BY <3>1
    <3>6. CallSound(c)
      BY <3>2, <3>3, <3>4, <3>5 DEF CallSound
    <3>7. Goes(r, c) /\ UNCHANGED <<stage, strategies, account, runner, faults>>
      BY <1>8, <2>2, <3>1 DEF OrderCounts
    <3> QED
      BY <3>6, <3>7, CallMoves
  <2> QED
    BY <2>1, <2>2
<1>9. CASE RequestEnds(r)
  <2>1. CallSound(NoCall)
    BY DEF CallSound, NoCall
  <2> QED
    BY <1>9, <2>1, CallMoves DEF RequestEnds
<1> QED
  BY <1>3, <1>4, <1>5, <1>6, <1>7, <1>8, <1>9

\* One row gets another status.
LEMMA RowChanged ==
    ASSUME TablesSound, NEW i \in Ids, NEW st \in {"draft", "running", "stopped"},
           strategies' = [strategies EXCEPT ![i].status = st]
    PROVE  /\ strategies' \in Seq(StrategyRows) /\ Ids' = Ids
           /\ \A j \in Ids : /\ strategies'[j].season = strategies[j].season
                             /\ strategies'[j].status = IF j = i THEN st ELSE strategies[j].status
<1>1. strategies \in Seq(StrategyRows) /\ Ids = 1 .. Len(strategies)
  BY TableFacts DEF TablesSound
<1> DEFINE row == [strategies[i] EXCEPT !.status = st]
<1>2. strategies[i] \in StrategyRows
  BY <1>1
<1>3. row \in StrategyRows /\ row.season = strategies[i].season /\ row.status = st
  BY <1>2 DEF StrategyRows
<1>4. strategies' = [strategies EXCEPT ![i] = row]
  OBVIOUS
<1> HIDE DEF row
<1>5. /\ strategies' \in Seq(StrategyRows) /\ Len(strategies') = Len(strategies)
      /\ \A j \in 1 .. Len(strategies) : strategies'[j] = IF j = i THEN row ELSE strategies[j]
  BY ONLY <1>1, <1>3, <1>4, i \in Ids, ExceptSeq
<1>6. Ids' = Ids
  BY <1>1, <1>5 DEF Ids
<1> QED
  BY <1>1, <1>3, <1>5, <1>6

\* A status that is not "running" starts nothing.
LEMMA FewerRun ==
    ASSUME OneRuns, Seasons' = Seasons, \A s \in Seasons : RunningIn(s)' \subseteq RunningIn(s)
    PROVE  OneRuns'
BY DEF OneRuns

LEMMA TableWritten ==
    ASSUME StrategiesInvariant, NEW r \in Calls, Goes(r, NoCall),
           strategies' \in Seq(StrategyRows), Ids \subseteq Ids', OneRuns',
           UNCHANGED <<stage, account, runner, faults>>
    PROVE  StrategiesInvariant'
<1>1. /\ UNCHANGED <<trades, positions, entered, overlap>> /\ Seasons' = Seasons
      /\ \A s : Spending(s)' = Spending(s) /\ Filling(s)' = Filling(s)
  BY DEF account, Seasons, Spending, Filling
<1>2. TablesSound'
  BY <1>1 DEF StrategiesInvariant, TablesSound, StrategyRows
<1>3. RunnerTyped'
  <2>1. Listings' = Listings /\ Readings' = Readings /\ PassRecords' = PassRecords /\ Rest' = Rest
    BY <1>1 DEF Listings, Readings, PassRecords, Rest, Passing, RunnerOrders, NoOrder
  <2>2. Sweeps \subseteq Sweeps'
    BY <1>1 DEF Sweeps
  <2> QED
    BY <2>1, <2>2 DEF StrategiesInvariant, RunnerTyped
<1>4. PassSound' /\ WithinCap' /\ WithinPlaces'
  BY <1>1 DEF StrategiesInvariant, PassSound, WithinCap, WithinPlaces
<1>5. CallsSound'
  <2>1. CallSound(NoCall)'
    BY DEF CallSound, NoCall
  <2>2. \A s \in Seasons : trades[s] <= trades'[s]
    BY <1>1 DEF StrategiesInvariant, TablesSound
  <2> QED
    BY <1>2, <2>1, <2>2, CallStep DEF StrategiesInvariant
<1> QED
  BY <1>2, <1>3, <1>4, <1>5 DEF StrategiesInvariant

LEMMA StoppedFacts ==
    ASSUME TablesSound, OneRuns, NEW i \in Ids, strategies' = Stopped(i), UNCHANGED Seasons
    PROVE  strategies' \in Seq(StrategyRows) /\ Ids' = Ids /\ OneRuns'
<1>1. CASE Running(i)
  <2>1. strategies' = [strategies EXCEPT ![i].status = "stopped"]
    BY <1>1 DEF Stopped
  <2>2. /\ strategies' \in Seq(StrategyRows) /\ Ids' = Ids
        /\ \A j \in Ids : /\ strategies'[j].season = strategies[j].season
                          /\ strategies'[j].status = IF j = i THEN "stopped" ELSE strategies[j].status
    BY <2>1, RowChanged
  <2>3. \A s \in Seasons : RunningIn(s)' \subseteq RunningIn(s)
    BY <2>2 DEF RunningIn, Running
  <2> QED
    BY <2>2, <2>3, FewerRun
<1>2. CASE ~Running(i)
  <2>1. strategies' = strategies
    BY <1>2 DEF Stopped
  <2> QED
    BY <2>1 DEF TablesSound, Ids, OneRuns, RunningIn, Running, StrategyRows
<1> QED
  BY <1>1, <1>2

LEMMA OwnerWrites ==
    ASSUME StrategiesInvariant, NEW r \in Calls, SaveWrites(r) \/ StartWrites(r) \/ StopWrites(r)
    PROVE  StrategiesInvariant'
<1>1. /\ TablesSound /\ OneRuns /\ Len(strategies) \in Nat /\ Ids = 1 .. Len(strategies)
      /\ \A i \in Ids : strategies[i].season \in Seasons
      /\ strategies \in Seq(StrategyRows) /\ Seasons' = Seasons
  BY TableFacts DEF StrategiesInvariant, TablesSound, Seasons
<1>2. CallSound(calls[r])
  BY CallFacts
<1>3. CASE SaveWrites(r) /\ calls[r].id = 0
  <2> DEFINE row == [season |-> calls[r].season, status |-> "draft"]
  <2>1. calls[r].season \in Seasons
    BY <1>2, <1>3 DEF CallSound, SaveWrites
  <2>2. row \in StrategyRows /\ row.status = "draft"
    BY <2>1 DEF StrategyRows
  <2>3. strategies' = Append(strategies, row)
    BY <1>3 DEF SaveWrites
  <2> HIDE DEF row
  <2>4. /\ strategies' \in Seq(StrategyRows) /\ Len(strategies') = Len(strategies) + 1
        /\ strategies'[Len(strategies) + 1] = row
        /\ \A i \in 1 .. Len(strategies) : strategies'[i] = strategies[i]
    BY ONLY <1>1, <2>2, <2>3, AppendProperties
  <2>5. Ids' = 1 .. (Len(strategies) + 1) /\ Ids \subseteq Ids'
    BY <1>1, <2>4 DEF Ids
  <2>6. \A s \in Seasons : RunningIn(s)' \subseteq RunningIn(s)
    <3> SUFFICES ASSUME NEW s \in Seasons, NEW i \in RunningIn(s)' PROVE i \in RunningIn(s)
      OBVIOUS
    <3>1. i \in Ids' /\ strategies'[i].status = "running" /\ strategies'[i].season = s
      BY DEF RunningIn, Running
    <3>2. i # Len(strategies) + 1
      BY <2>2, <2>4, <3>1
    <3>3. i \in 1 .. Len(strategies)
      BY ONLY <1>1, <2>5, <3>1, <3>2
    <3> QED
      BY <1>1, <2>4, <3>1, <3>3 DEF RunningIn, Running
  <2>7. OneRuns'
    BY <1>1, <2>6, FewerRun
  <2> QED
    BY <1>3, <2>4, <2>5, <2>7, TableWritten DEF SaveWrites
<1>4. CASE SaveWrites(r) /\ calls[r].id # 0
  <2>1. calls[r].id \in Ids
    BY <1>2, <1>4 DEF CallSound, SaveWrites
  <2> PICK i \in Ids : i = calls[r].id
    BY <2>1
  <2>2. strategies' = [strategies EXCEPT ![i].status = "draft"]
    BY <1>4 DEF SaveWrites
  <2>3. /\ strategies' \in Seq(StrategyRows) /\ Ids' = Ids
        /\ \A j \in Ids : /\ strategies'[j].season = strategies[j].season
                          /\ strategies'[j].status = IF j = i THEN "draft" ELSE strategies[j].status
    BY <1>1, <2>2, RowChanged
  <2>4. \A s \in Seasons : RunningIn(s)' \subseteq RunningIn(s)
    BY <2>3 DEF RunningIn, Running
  <2>5. OneRuns'
    BY <1>1, <2>4, FewerRun
  <2> QED
    BY <1>4, <2>3, <2>5, TableWritten DEF SaveWrites
<1>5. CASE StartWrites(r)
  <2>1. calls[r].id \in Ids
    BY <1>2, <1>5 DEF CallSound, StartWrites
  <2> PICK i \in Ids : i = calls[r].id
    BY <2>1
  <2>2. CASE RunningIn(strategies[i].season) = {}
    <3>1. strategies' = [strategies EXCEPT ![i].status = "running"]
      BY <1>5, <2>2 DEF StartWrites
    <3>2. /\ strategies' \in Seq(StrategyRows) /\ Ids' = Ids
          /\ \A j \in Ids : /\ strategies'[j].season = strategies[j].season
                            /\ strategies'[j].status = IF j = i THEN "running" ELSE strategies[j].status
      BY <1>1, <3>1, RowChanged
    <3>3. \A s \in Seasons : RunningIn(s)' \subseteq RunningIn(s) \cup {i}
      BY <3>2 DEF RunningIn, Running
    <3>4. \A s \in Seasons : i \in RunningIn(s)' => RunningIn(s) = {}
      BY <2>2, <3>2 DEF RunningIn
    <3>5. OneRuns'
      BY <1>1, <3>3, <3>4 DEF OneRuns
    <3> QED
      BY <1>5, <3>2, <3>5, TableWritten DEF StartWrites
  <2>3. CASE RunningIn(strategies[i].season) # {}
    <3>1. strategies' = strategies
      BY <1>5, <2>3 DEF StartWrites
    <3>2. strategies' \in Seq(StrategyRows) /\ Ids' = Ids /\ OneRuns'
      BY <1>1, <3>1 DEF Ids, OneRuns, RunningIn, Running, StrategyRows
    <3> QED
      BY <1>5, <3>2, TableWritten DEF StartWrites
  <2> QED
    BY <2>2, <2>3
<1>6. CASE StopWrites(r)
  <2>1. calls[r].id \in Ids
    BY <1>2, <1>6 DEF CallSound, StopWrites
  <2>2. strategies' = Stopped(calls[r].id)
    BY <1>6 DEF StopWrites
  <2>3. strategies' \in Seq(StrategyRows) /\ Ids' = Ids /\ OneRuns'
    BY <1>1, <2>1, <2>2, StoppedFacts
  <2> QED
    BY <1>6, <2>3, TableWritten DEF StopWrites
<1> QED
  BY <1>3, <1>4, <1>5, <1>6

------------------------------------------------------------------------------
(***************************************************************************)
(* The runner, as long as it fills nothing                                 *)
(***************************************************************************)

LEMMA SweepSteps ==
    ASSUME StrategiesInvariant, Tick \/ SweepStops \/ SweepEnds
    PROVE  StrategiesInvariant'
<1>1. /\ TablesSound /\ OneRuns /\ RunnerTyped /\ CallsSound /\ Season \in Seasons
      /\ Len(strategies) \in Nat /\ Ids = 1 .. Len(strategies)
      /\ Seasons' = Seasons /\ faults \in 0 .. FaultBound
  BY TableFacts DEF StrategiesInvariant, TablesSound, Seasons
<1>2. CASE Tick
  <2>1. Sweep(Season) \subseteq Ids /\ TradingOpen \in BOOLEAN
    <3>1. Timeline[stage].open \in BOOLEAN
      <4> DEFINE Spans == [season : Nat \ {0}, open : BOOLEAN]
      <4>1. Timeline \in Seq(Spans) /\ stage \in DOMAIN Timeline
        BY <1>1, TimelineAssumption DEF TablesSound
      <4>2. Timeline[stage] \in Spans
        <5> HIDE DEF Spans
        <5> QED
          BY ONLY <4>1
      <4> QED
        BY ONLY <4>2
    <3> QED
      BY <3>1 DEF Sweep, RunningIn, TradingOpen
  <2>2. UNCHANGED <<stage, strategies, account, calls, faults>> /\ Ids' = Ids
    BY <1>2 DEF Tick, Ids
  <2>3. PICK left \in SUBSET Ids, isOpen \in BOOLEAN :
            runner' = [pc |-> "sweep", left |-> left, season |-> Season, open |-> isOpen]
    BY <1>2, <2>1 DEF Tick
  <2>4. runner' \in Sweeps' /\ runner'.pc = "sweep"
    BY <1>1, <2>2, <2>3 DEF Sweeps
  <2>5. RunnerTyped' /\ PassSound' /\ \A s \in Seasons : ~Spending(s)' /\ ~Filling(s)'
    BY <2>4 DEF RunnerTyped, PassSound, Passing, Spending, Filling
  <2> QED
    BY <1>1, <2>2, <2>5, RunnerMoves
<1>3. CASE SweepStops
  <2>1. runner.pc = "sweep" /\ runner \in Sweeps /\ runner.left \in SUBSET Ids
    BY <1>1, <1>3, RunnerFacts DEF SweepStops
  <2>2. Lowest(runner.left) \in runner.left
    BY <1>1, <1>3, <2>1, LowestIn DEF SweepStops
  <2> PICK i \in Ids : i = Lowest(runner.left)
    BY <2>1, <2>2
  <2>3. strategies' = Stopped(i) /\ runner' = [runner EXCEPT !.left = @ \ {i}]
    BY <1>3 DEF SweepStops
  <2>4. strategies' \in Seq(StrategyRows) /\ Ids' = Ids /\ OneRuns'
    BY <1>1, <2>3, StoppedFacts
  <2>5. runner' \in Sweeps /\ runner'.pc = "sweep"
    BY <2>1, <2>3 DEF Sweeps
  <2>6. Sweeps' = Sweeps
    BY <1>1, <2>4 DEF Sweeps
  <2>7. RunnerTyped' /\ PassSound' /\ \A s \in Seasons : ~Spending(s)' /\ ~Filling(s)'
    BY <2>5, <2>6 DEF RunnerTyped, PassSound, Passing, Spending, Filling
  <2>8. UNCHANGED <<stage, trades, positions, entered, overlap, calls, faults>>
    BY <1>3 DEF SweepStops, account
  <2>9. TablesSound'
    BY <1>1, <2>4, <2>8 DEF TablesSound, StrategyRows
  <2>10. CallsSound'
    <3>1. \A s \in Seasons : trades[s] <= trades'[s]
      BY <1>1, <2>8 DEF TablesSound
    <3> QED
      BY <1>1, <2>4, <2>8, <2>9, <3>1, CallsKept
  <2>11. WithinCap'
    <3> SUFFICES ASSUME NEW s \in Seasons PROVE trades[s] <= Cap + overlap[s]
      BY <1>1, <2>7, <2>8 DEF WithinCap, TablesSound
    <3>1. ~Spending(s) /\ trades[s] \in Nat
      BY <1>1, <2>1 DEF Spending, TablesSound
    <3>2. trades[s] + 0 <= Cap + overlap[s]
      BY <3>1 DEF StrategiesInvariant, WithinCap
    <3> QED
      BY ONLY <3>1, <3>2
  <2>12. WithinPlaces'
    <3> SUFFICES ASSUME NEW s \in Seasons PROVE Cardinality(entered[s]) + 0 <= MaxOpen
      BY <1>1, <2>7, <2>8 DEF WithinPlaces
    <3>1. ~Filling(s)
      BY <2>1 DEF Filling
    <3> QED
      BY <3>1 DEF StrategiesInvariant, WithinPlaces
  <2> QED
    BY <2>4, <2>7, <2>9, <2>10, <2>11, <2>12 DEF StrategiesInvariant
<1>4. CASE SweepEnds
  <2>1. UNCHANGED <<stage, strategies, account, calls, faults>>
    BY <1>4 DEF SweepEnds
  <2>2. CASE runner' = Rest
    BY <1>1, <2>1, <2>2, RunnerRests
  <2>3. CASE runner' = [pc |-> "read", season |-> runner.season]
    <3>1. runner.season \in Seasons
      BY <1>1, <1>4, RunnerFacts DEF SweepEnds
    <3>2. runner' \in Listings' /\ runner'.pc = "read"
      BY <1>1, <2>3, <3>1 DEF Listings
    <3>3. RunnerTyped' /\ PassSound' /\ \A s \in Seasons : ~Spending(s)' /\ ~Filling(s)'
      BY <3>2 DEF RunnerTyped, PassSound, Passing, Spending, Filling
    <3> QED
      BY <1>1, <2>1, <3>3, RunnerMoves
  <2> QED
    BY <1>4, <2>2, <2>3 DEF SweepEnds
<1> QED
  BY <1>2, <1>3, <1>4

LEMMA PassBegins ==
    ASSUME StrategiesInvariant, Reads \/ Counts
    PROVE  StrategiesInvariant'
<1>1. /\ RunnerTyped /\ Seasons' = Seasons /\ faults \in 0 .. FaultBound
      /\ positions \in [Seasons -> SUBSET Mints] /\ trades \in [Seasons -> Nat]
      /\ overlap \in [Seasons -> Nat]
  BY DEF StrategiesInvariant, TablesSound, Seasons
<1>2. runner.season \in Seasons /\ UNCHANGED <<stage, strategies, account, calls, faults>>
  BY <1>1, RunnerFacts DEF Reads, Counts
<1> PICK n \in Seasons : n = runner.season
  BY <1>2
<1>3. CASE Reads
  <2>1. runner' = [pc |-> "budget", season |-> n, held |-> positions[n]] /\ positions[n] \subseteq Mints
    BY <1>1, <1>3 DEF Reads
  <2>2. runner' \in Readings' /\ runner'.pc = "budget"
    BY <1>1, <2>1 DEF Readings
  <2>3. RunnerTyped' /\ PassSound' /\ \A s \in Seasons : ~Spending(s)' /\ ~Filling(s)'
    BY <2>2 DEF RunnerTyped, PassSound, Passing, Spending, Filling
  <2> QED
    BY <1>1, <1>2, <2>3, RunnerMoves
<1>4. CASE Counts /\ Cap - trades[n] <= 0
  <2>1. runner' = Rest
    BY <1>4 DEF Counts
  <2> QED
    BY <1>1, <1>2, <2>1, RunnerRests
<1>5. CASE Counts /\ ~(Cap - trades[n] <= 0)
  <2>1. PICK held, budget : held = runner.held /\ budget = Cap - trades[n]
    OBVIOUS
  <2>2. budget \in Nat /\ trades[n] + budget <= Cap + overlap[n]
    <3>1. trades[n] \in Nat /\ overlap[n] \in Nat /\ Cap \in Nat
      BY <1>1, CapAssumption
    <3> QED
      BY ONLY <1>5, <2>1, <3>1
  <2>3. held \subseteq Mints
    BY <1>1, <1>5, <2>1, RunnerFacts DEF Counts
  <2>4. runner' = [pc |-> "exits", season |-> n, held |-> held, todo |-> held, budget |-> budget,
                   sold |-> {}, bought |-> {}, order |-> NoOrder]
    BY <1>5, <2>1 DEF Counts
  <2>5. /\ runner'.pc = "exits" /\ runner'.season = n /\ runner'.budget = budget
        /\ runner'.todo = runner'.held /\ runner'.sold = {} /\ runner'.bought = {}
    BY <2>4
  <2>6. runner' \in PassRecords
    BY ONLY <2>2, <2>3, <2>4, n \in Seasons DEF PassRecords, Passing, RunnerOrders
  <2>7. PassRecords' = PassRecords
    BY <1>1 DEF PassRecords, Passing, RunnerOrders, NoOrder
  <2>8. RunnerTyped' /\ PassSound'
    BY <2>5, <2>6, <2>7 DEF RunnerTyped, PassSound
  <2>9. ASSUME NEW s \in Seasons, Spending(s)' PROVE trades[s] + runner'.budget <= Cap + overlap[s]
    BY <2>2, <2>5, <2>9 DEF Spending
  <2>10. \A s \in Seasons : ~Filling(s)'
    BY <2>5 DEF Filling
  <2> QED
    BY <1>1, <1>2, <2>8, <2>9, <2>10, RunnerMoves
<1> QED
  BY <1>3, <1>4, <1>5

\* A pass that goes on, within what it had left.
LEMMA PassGoesOn ==
    ASSUME StrategiesInvariant, runner.pc \in Passing, runner'.pc \in Passing,
           UNCHANGED <<stage, strategies, account, calls, faults>>,
           runner'.season = runner.season, runner'.budget \in Nat, runner'.budget <= runner.budget,
           runner'.pc \in {"entries", "buy"} =>
               \/ runner.pc \in {"entries", "buy"}
               \/ Cardinality(entered[runner.season]) + runner'.budget <= MaxOpen,
           RunnerTyped', PassSound'
    PROVE  StrategiesInvariant'
<1>1. /\ runner.season \in Seasons /\ runner.budget \in Nat /\ faults \in 0 .. FaultBound
      /\ TablesSound
  BY PassFacts DEF StrategiesInvariant, TablesSound
<1>2. ASSUME NEW s \in Seasons, Spending(s)' PROVE trades[s] + runner'.budget <= Cap + overlap[s]
  <2>1. s = runner.season
    BY <1>2 DEF Spending
  <2>2. trades[s] + runner.budget <= Cap + overlap[s]
    BY <2>1 DEF StrategiesInvariant, WithinCap, Spending, Passing
  <2>3. trades[s] \in Nat /\ overlap[s] \in Nat /\ Cap \in Nat
    BY <1>1, CapAssumption DEF TablesSound
  <2> QED
    BY ONLY <1>1, <2>2, <2>3, runner'.budget \in Nat, runner'.budget <= runner.budget
<1>3. ASSUME NEW s \in Seasons, Filling(s)' PROVE Cardinality(entered[s]) + runner'.budget <= MaxOpen
  <2>1. s = runner.season /\ runner'.pc \in {"entries", "buy"}
    BY <1>3 DEF Filling
  <2>2. CASE runner.pc \in {"entries", "buy"}
    <3>1. Cardinality(entered[s]) + runner.budget <= MaxOpen
      BY <2>1, <2>2 DEF StrategiesInvariant, WithinPlaces, Filling
    <3>2. Cardinality(entered[s]) \in Nat /\ MaxOpen \in Nat
      BY <1>1, EnteredFinite
    <3> QED
      BY ONLY <1>1, <3>1, <3>2, runner'.budget \in Nat, runner'.budget <= runner.budget
  <2> QED
    BY <2>1, <2>2
<1> QED
  BY <1>1, <1>2, <1>3, RunnerMoves

LEMMA PassRuns ==
    ASSUME StrategiesInvariant, Exits \/ ExitsDone \/ Entries \/ EntriesDone
    PROVE  StrategiesInvariant'
<1>1. /\ TablesSound /\ RunnerTyped /\ Seasons' = Seasons /\ faults \in 0 .. FaultBound
      /\ trades \in [Seasons -> Nat]
      /\ UNCHANGED <<stage, strategies, account, calls, faults>>
  BY DEF StrategiesInvariant, TablesSound, Seasons, Exits, ExitsDone, Entries, EntriesDone
<1>2. runner.pc \in Passing
  BY DEF Exits, ExitsDone, Entries, EntriesDone, Passing
<1>3. /\ runner \in PassRecords /\ PassRecords' = PassRecords
      /\ runner.season \in Seasons /\ runner.budget \in Nat
      /\ runner.held \subseteq Mints /\ runner.todo \cup runner.sold \subseteq runner.held
      /\ runner.sold \cap runner.bought = {}
      /\ runner.pc = "exits" => runner.bought = {}
  BY <1>1, <1>2, RunnerFacts, PassFacts
     DEF StrategiesInvariant, PassSound, PassRecords, Passing, RunnerOrders, NoOrder
<1>4. \A mint \in Mints : Quoted(mint) \in RunnerOrders /\ Quoted(mint).mint = mint
  <2> SUFFICES ASSUME NEW mint \in Mints
               PROVE  Quoted(mint) \in RunnerOrders /\ Quoted(mint).mint = mint
    OBVIOUS
  <2>1. trades[runner.season] \in Nat
    BY <1>1, <1>3
  <2> QED
    BY <2>1 DEF Quoted, RunnerOrders
<1>5. CASE Exits
  <2>1. PICK mint \in runner.todo :
            \/ runner' = [runner EXCEPT !.todo = @ \ {mint}]
            \/ runner' = [runner EXCEPT !.pc = "sell", !.todo = @ \ {mint}, !.order = Quoted(mint)]
    BY <1>5 DEF Exits
  <2>2. mint \in Mints /\ runner.pc = "exits" /\ runner.budget > 0
    BY <1>3, <1>5 DEF Exits
  <2>3. PICK order : order \in RunnerOrders /\ order.mint = mint /\ order = Quoted(mint)
    BY <1>4, <2>2
  <2>4. /\ runner' \in PassRecords
        /\ runner'.season = runner.season /\ runner'.budget = runner.budget
        /\ runner'.held = runner.held /\ runner'.sold = runner.sold /\ runner'.bought = runner.bought
        /\ runner'.todo = runner.todo \ {mint}
        /\ runner'.pc = "exits" \/ (runner'.pc = "sell" /\ runner'.order = order)
    <3>1. CASE runner' = [runner EXCEPT !.todo = @ \ {mint}]
      BY ONLY <1>3, <2>2, <3>1 DEF PassRecords
    <3>2. CASE runner' = [runner EXCEPT !.pc = "sell", !.todo = @ \ {mint}, !.order = order]
      <4>1. runner' \in PassRecords
        BY ONLY <1>3, <2>3, <3>2 DEF PassRecords, Passing
      <4>2. /\ runner'.season = runner.season /\ runner'.budget = runner.budget
            /\ runner'.held = runner.held /\ runner'.sold = runner.sold
            /\ runner'.bought = runner.bought /\ runner'.todo = runner.todo \ {mint}
            /\ runner'.pc = "sell" /\ runner'.order = order
        BY ONLY <1>3, <3>2 DEF PassRecords
      <4> QED
        BY <4>1, <4>2
    <3> QED
      BY <2>1, <2>3, <3>1, <3>2
  <2>5. RunnerTyped' /\ PassSound' /\ runner'.pc \in Passing /\ runner'.pc \notin {"entries", "buy"}
    BY <1>3, <2>2, <2>3, <2>4 DEF RunnerTyped, PassSound, Passing
  <2> QED
    BY <1>1, <1>2, <1>3, <2>4, <2>5, PassGoesOn
<1>6. CASE ExitsDone
  <2>1. PICK room : room = MaxOpen - Cardinality(positions[runner.season])
    OBVIOUS
  <2>2. CASE runner.budget <= 0 \/ room <= 0
    <3>1. runner' = Rest
      BY <1>6, <2>1, <2>2 DEF ExitsDone, RoomLeft
    <3> QED
      BY <1>1, <3>1, RunnerRests
  <2>3. CASE ~(runner.budget <= 0 \/ room <= 0)
    <3>1. /\ Cardinality(entered[runner.season]) \in Nat
          /\ Cardinality(positions[runner.season]) \in Nat /\ MaxOpen \in Nat
          /\ Cardinality(entered[runner.season]) <= Cardinality(positions[runner.season])
      BY <1>1, <1>3, EnteredFinite
    <3>2. PICK budget : budget = IF room < runner.budget THEN room ELSE runner.budget
      OBVIOUS
    <3>3. /\ budget \in Nat /\ budget <= runner.budget
          /\ Cardinality(entered[runner.season]) + budget <= MaxOpen
      BY ONLY <1>3, <2>1, <2>3, <3>1, <3>2
    <3>4. runner' = [runner EXCEPT !.pc = "entries", !.held = @, !.todo = {}, !.budget = budget]
      BY <1>6, <2>1, <2>3, <3>2 DEF ExitsDone, StillHeld, RoomLeft
    <3>5. runner' \in PassRecords
      BY ONLY <1>3, <3>3, <3>4 DEF PassRecords, Passing
    <3>6. /\ runner'.season = runner.season /\ runner'.budget = budget /\ runner'.todo = {}
          /\ runner'.held = runner.held /\ runner'.sold = runner.sold
          /\ runner'.bought = runner.bought /\ runner'.pc = "entries"
      BY ONLY <1>3, <3>4 DEF PassRecords
    <3>7. RunnerTyped' /\ PassSound' /\ runner'.pc \in Passing
      BY <1>3, <3>5, <3>6 DEF RunnerTyped, PassSound, Passing
    <3> QED
      BY <1>1, <1>2, <1>3, <3>3, <3>6, <3>7, PassGoesOn
  <2> QED
    BY <2>2, <2>3
<1>7. CASE Entries
  <2>1. PICK mint \in Mints \ runner.held :
            runner' = [runner EXCEPT !.pc = "buy", !.order = Quoted(mint)]
    BY <1>7 DEF Entries
  <2>2. runner.pc = "entries" /\ runner.budget > 0
    BY <1>7 DEF Entries
  <2>3. PICK order : order \in RunnerOrders /\ order.mint = mint /\ order = Quoted(mint)
    BY <1>4
  <2>4. runner' \in PassRecords
    BY ONLY <1>3, <2>1, <2>3 DEF PassRecords, Passing
  <2>5. /\ runner'.season = runner.season /\ runner'.budget = runner.budget
        /\ runner'.held = runner.held /\ runner'.sold = runner.sold /\ runner'.bought = runner.bought
        /\ runner'.todo = runner.todo /\ runner'.pc = "buy" /\ runner'.order = order
    BY ONLY <1>3, <2>1, <2>3 DEF PassRecords
  <2>6. RunnerTyped' /\ PassSound' /\ runner'.pc \in Passing
    BY <1>3, <2>2, <2>3, <2>4, <2>5 DEF RunnerTyped, PassSound, Passing
  <2> QED
    BY <1>1, <1>2, <1>3, <2>2, <2>5, <2>6, PassGoesOn
<1>8. CASE EntriesDone
  BY <1>1, <1>8, RunnerRests DEF EntriesDone
<1> QED
  BY <1>5, <1>6, <1>7, <1>8

------------------------------------------------------------------------------
(***************************************************************************)
(* Orders                                                                  *)
(***************************************************************************)

LEMMA FillFacts ==
    ASSUME TablesSound, NEW n \in Seasons, NEW mint \in Mints, NEW side \in {"buy", "sell"},
           Fill(n, side, mint)
    PROVE  /\ trades' \in [Seasons -> Nat] /\ positions' \in [Seasons -> SUBSET Mints]
           /\ trades'[n] = trades[n] + 1
           /\ positions'[n] = IF side = "buy" THEN positions[n] \cup {mint} ELSE positions[n] \ {mint}
           /\ \A s \in Seasons \ {n} : trades'[s] = trades[s] /\ positions'[s] = positions[s]
BY DEF TablesSound, Fill

\* An order of the runner's fills.
LEMMA RunnerFills ==
    ASSUME StrategiesInvariant, runner.pc \in Passing, runner.budget > 0,
           NEW n, n = runner.season, NEW mint \in Mints, NEW side \in {"buy", "sell"},
           Fill(n, side, mint), UNCHANGED <<stage, strategies, overlap, calls, faults>>,
           NEW mine \in SUBSET Mints, entered' = [entered EXCEPT ![n] = mine],
           mine \subseteq positions'[n],
           Cardinality(mine) + (IF runner'.pc \in {"entries", "buy"} THEN runner'.budget ELSE 0) <= MaxOpen,
           RunnerTyped', PassSound',
           runner'.pc \in Passing, runner'.season = n, runner'.budget = runner.budget - 1
    PROVE  StrategiesInvariant'
<1>1. TablesSound /\ CallsSound /\ n \in Seasons /\ runner.budget \in Nat
  BY PassFacts DEF StrategiesInvariant
<1>2. /\ trades' \in [Seasons -> Nat] /\ positions' \in [Seasons -> SUBSET Mints]
      /\ trades'[n] = trades[n] + 1
      /\ \A s \in Seasons \ {n} : trades'[s] = trades[s] /\ positions'[s] = positions[s]
  BY <1>1, FillFacts
<1>3. /\ entered' \in [Seasons -> SUBSET Mints] /\ entered'[n] = mine
      /\ \A s \in Seasons \ {n} : entered'[s] = entered[s]
  <2>1. entered \in [Seasons -> SUBSET Mints]
    BY <1>1 DEF TablesSound
  <2> QED
    BY ONLY <1>1, <2>1, entered' = [entered EXCEPT ![n] = mine], mine \in SUBSET Mints
<1>4. Seasons' = Seasons /\ Ids' = Ids
  BY DEF Seasons, Ids
<1>5. TablesSound'
  BY <1>1, <1>2, <1>3, <1>4 DEF TablesSound
<1>6. OneRuns'
  BY <1>4 DEF StrategiesInvariant, OneRuns, RunningIn, Running
<1>7. CallsSound'
  <2>1. \A s \in Seasons : trades[s] <= trades'[s]
    <3> SUFFICES ASSUME NEW s \in Seasons PROVE trades[s] <= trades'[s]
      OBVIOUS
    <3>1. trades[s] \in Nat /\ (trades'[s] = trades[s] \/ trades'[s] = trades[s] + 1)
      BY <1>1, <1>2 DEF TablesSound
    <3> QED
      BY ONLY <3>1
  <2> QED
    BY <1>1, <1>4, <1>5, <2>1, CallsKept
<1>8. WithinCap'
  <2> SUFFICES ASSUME NEW s \in Seasons
               PROVE  trades'[s] + (IF Spending(s)' THEN runner'.budget ELSE 0) <= Cap + overlap[s]
    BY <1>4 DEF WithinCap
  <2>1. trades[s] + (IF Spending(s) THEN runner.budget ELSE 0) <= Cap + overlap[s]
    BY DEF StrategiesInvariant, WithinCap
  <2>2. trades[s] \in Nat /\ overlap[s] \in Nat /\ Cap \in Nat
    BY <1>1, CapAssumption DEF TablesSound
  <2>3. (Spending(s) <=> s = n) /\ (Spending(s)' <=> s = n)
    BY DEF Spending, Passing
  <2>4. trades'[s] = IF s = n THEN trades[s] + 1 ELSE trades[s]
    BY <1>2
  <2> QED
    BY ONLY <1>1, <2>1, <2>2, <2>3, <2>4, runner'.budget = runner.budget - 1
<1>9. WithinPlaces'
  <2> SUFFICES ASSUME NEW s \in Seasons
               PROVE  Cardinality(entered'[s]) + (IF Filling(s)' THEN runner'.budget ELSE 0) <= MaxOpen
    BY <1>4 DEF WithinPlaces
  <2>1. CASE s = n
    BY <1>3, <2>1 DEF Filling
  <2>2. CASE s # n
    <3>1. ~Filling(s) /\ ~Filling(s)' /\ entered'[s] = entered[s]
      BY <1>3, <2>2 DEF Filling
    <3> QED
      BY <3>1 DEF StrategiesInvariant, WithinPlaces
  <2> QED
    BY <2>1, <2>2
<1> QED
  BY <1>5, <1>6, <1>7, <1>8, <1>9 DEF StrategiesInvariant

LEMMA RunnerSells ==
    ASSUME StrategiesInvariant, Sells
    PROVE  StrategiesInvariant'
<1>1. /\ TablesSound /\ RunnerTyped /\ Seasons' = Seasons /\ runner.pc = "sell"
      /\ UNCHANGED <<stage, strategies, overlap, calls, faults>> /\ runner.pc \in Passing
  BY DEF StrategiesInvariant, Seasons, Sells, Passing
<1>2. /\ runner \in PassRecords /\ PassRecords' = PassRecords
      /\ runner.season \in Seasons /\ runner.budget \in Nat /\ runner.budget > 0
      /\ runner.sold \cup runner.todo \subseteq runner.held /\ runner.held \subseteq Mints
      /\ runner.bought = {} /\ runner.order.mint \in runner.held
  BY <1>1, RunnerFacts, PassFacts
     DEF StrategiesInvariant, PassSound, PassRecords, Passing, RunnerOrders, NoOrder
<1>3. PICK sold \in SUBSET {runner.order.mint} : runner' = AfterExit(sold)
  BY DEF Sells
<1>4. runner' \in PassRecords
  <2>1. NoOrder \in RunnerOrders /\ sold \subseteq Mints /\ runner.budget - 1 \in Nat
    BY <1>2 DEF RunnerOrders
  <2>2. sold \cup runner.sold \in SUBSET Mints
    BY <1>2, <2>1
  <2> QED
    BY ONLY <1>2, <1>3, <2>1, <2>2 DEF AfterExit, PassRecords, Passing
<1>5. /\ runner'.pc = "exits" /\ runner'.season = runner.season /\ runner'.budget = runner.budget - 1
      /\ runner'.held = runner.held /\ runner'.todo = runner.todo
      /\ runner'.sold = runner.sold \cup sold /\ runner'.bought = runner.bought
  BY ONLY <1>2, <1>3 DEF AfterExit, PassRecords
<1>6. RunnerTyped' /\ PassSound' /\ runner'.pc \in Passing
  BY <1>2, <1>4, <1>5 DEF RunnerTyped, PassSound, Passing
<1>7. CASE UNCHANGED <<trades, positions, entered>>
  <2>1. UNCHANGED <<stage, strategies, account, calls, faults>>
    BY <1>1, <1>7 DEF account
  <2>2. runner'.budget \in Nat /\ runner'.budget <= runner.budget /\ runner'.pc \notin {"entries", "buy"}
    BY <1>2, <1>5
  <2> QED
    BY <1>1, <1>5, <1>6, <2>1, <2>2, PassGoesOn
<1>8. CASE /\ Fill(runner.season, "sell", runner.order.mint)
           /\ entered' = [entered EXCEPT ![runner.season] = @ \ {runner.order.mint}]
  <2> PICK n \in Seasons, mint \in Mints : n = runner.season /\ mint = runner.order.mint
    BY <1>2
  <2>1. PICK mine : mine = entered[n] \ {mint}
    OBVIOUS
  <2>2. entered[n] \subseteq positions[n] /\ positions[n] \subseteq Mints
    BY <1>1 DEF TablesSound
  <2>3. positions'[n] = positions[n] \ {mint}
    BY <1>1, <1>8, FillFacts
  <2>4. mine \in SUBSET Mints /\ mine \subseteq positions'[n] /\ entered' = [entered EXCEPT ![n] = mine]
    BY <1>8, <2>1, <2>2, <2>3
  <2>5. Cardinality(mine) <= MaxOpen
    <3>1. Cardinality(entered[n]) + 0 <= MaxOpen
      BY <1>1 DEF StrategiesInvariant, WithinPlaces, Filling
    <3>2. IsFiniteSet(entered[n]) /\ Cardinality(entered[n]) \in Nat /\ MaxOpen \in Nat
      BY <1>1, EnteredFinite
    <3>3. Cardinality(mine) <= Cardinality(entered[n]) /\ IsFiniteSet(mine)
      BY ONLY <2>1, <3>2, FS_Subset
    <3>4. Cardinality(mine) \in Nat
      BY ONLY <3>3, FS_CardinalityType
    <3> QED
      BY ONLY <3>1, <3>2, <3>3, <3>4
  <2>6. Cardinality(mine) + (IF runner'.pc \in {"entries", "buy"} THEN runner'.budget ELSE 0) <= MaxOpen
    <3>1. IsFiniteSet(mine)
      BY <1>1, <2>1, EnteredFinite, FS_Subset
    <3>2. Cardinality(mine) + 0 = Cardinality(mine)
      BY <3>1, FS_CardinalityType
    <3> QED
      BY <1>5, <2>5, <3>2
  <2> QED
    BY <1>1, <1>2, <1>5, <1>6, <1>8, <2>4, <2>6, RunnerFills
<1> QED
  BY <1>7, <1>8 DEF Sells

LEMMA RunnerBuys ==
    ASSUME StrategiesInvariant, Buys
    PROVE  StrategiesInvariant'
<1>1. /\ TablesSound /\ RunnerTyped /\ Seasons' = Seasons /\ runner.pc = "buy"
      /\ UNCHANGED <<stage, strategies, overlap, calls, faults>> /\ runner.pc \in Passing
  BY DEF StrategiesInvariant, Seasons, Buys, Passing
<1>2. /\ runner \in PassRecords /\ PassRecords' = PassRecords
      /\ runner.season \in Seasons /\ runner.budget \in Nat /\ runner.budget > 0
      /\ runner.sold \cup runner.todo \subseteq runner.held /\ runner.held \subseteq Mints
      /\ runner.bought \subseteq Mints /\ runner.sold \cap runner.bought = {}
      /\ runner.order.mint \in Mints \ runner.held
  BY <1>1, RunnerFacts, PassFacts
     DEF StrategiesInvariant, PassSound, PassRecords, Passing, RunnerOrders, NoOrder
<1>3. PICK bought \in SUBSET {runner.order.mint} : runner' = AfterEntry(bought)
  BY DEF Buys
<1>4. runner' \in PassRecords
  <2>1. NoOrder \in RunnerOrders /\ bought \subseteq Mints /\ runner.budget - 1 \in Nat
    BY <1>2 DEF RunnerOrders
  <2>2. runner.bought \cup bought \in SUBSET Mints /\ runner.held \cup bought \in SUBSET Mints
    BY <1>2, <2>1
  <2> QED
    BY ONLY <1>2, <1>3, <2>1, <2>2 DEF AfterEntry, PassRecords, Passing
<1>5. /\ runner'.pc = "entries" /\ runner'.season = runner.season
      /\ runner'.budget = runner.budget - 1
      /\ runner'.held = runner.held \cup bought /\ runner'.todo = runner.todo
      /\ runner'.sold = runner.sold /\ runner'.bought = runner.bought \cup bought
  BY ONLY <1>2, <1>3 DEF AfterEntry, PassRecords
<1>6. RunnerTyped' /\ PassSound' /\ runner'.pc \in Passing
  <2>1. runner'.sold \cap runner'.bought = {}
    BY <1>2, <1>5
  <2> QED
    BY <1>2, <1>4, <1>5, <2>1 DEF RunnerTyped, PassSound, Passing
<1>7. CASE UNCHANGED <<trades, positions, entered>>
  <2>1. UNCHANGED <<stage, strategies, account, calls, faults>>
    BY <1>1, <1>7 DEF account
  <2>2. runner'.budget \in Nat /\ runner'.budget <= runner.budget /\ runner.pc \in {"entries", "buy"}
    BY <1>1, <1>2, <1>5
  <2> QED
    BY <1>1, <1>5, <1>6, <2>1, <2>2, PassGoesOn
<1>8. CASE /\ Fill(runner.season, "buy", runner.order.mint)
           /\ entered' = [entered EXCEPT ![runner.season] = @ \cup {runner.order.mint}]
  <2> PICK n \in Seasons, mint \in Mints : n = runner.season /\ mint = runner.order.mint
    BY <1>2
  <2>1. PICK mine : mine = entered[n] \cup {mint}
    OBVIOUS
  <2>2. entered[n] \subseteq positions[n] /\ positions[n] \subseteq Mints
    BY <1>1 DEF TablesSound
  <2>3. positions'[n] = positions[n] \cup {mint}
    BY <1>1, <1>8, FillFacts
  <2>4. mine \in SUBSET Mints /\ mine \subseteq positions'[n] /\ entered' = [entered EXCEPT ![n] = mine]
    BY <1>8, <2>1, <2>2, <2>3
  <2>5. Cardinality(mine) <= Cardinality(entered[n]) + 1 /\ Cardinality(mine) \in Nat
    <3>1. IsFiniteSet(entered[n]) /\ Cardinality(entered[n]) \in Nat
      BY <1>1, EnteredFinite
    <3>2. /\ IsFiniteSet(mine)
          /\ Cardinality(mine) = IF mint \in entered[n] THEN Cardinality(entered[n])
                                  ELSE Cardinality(entered[n]) + 1
      BY ONLY <2>1, <3>1, FS_AddElement
    <3> QED
      BY ONLY <3>1, <3>2
  <2>6. Cardinality(entered[n]) + runner.budget <= MaxOpen
    BY <1>1 DEF StrategiesInvariant, WithinPlaces, Filling
  <2>7. Cardinality(entered[n]) \in Nat /\ MaxOpen \in Nat
    BY <1>1, EnteredFinite
  <2>8. Cardinality(mine) + (runner.budget - 1) <= MaxOpen
    BY ONLY <1>2, <2>5, <2>6, <2>7
  <2>9. Cardinality(mine) + (IF runner'.pc \in {"entries", "buy"} THEN runner'.budget ELSE 0) <= MaxOpen
    BY <1>5, <2>8
  <2> QED
    BY <1>1, <1>2, <1>5, <1>6, <1>8, <2>4, <2>9, RunnerFills
<1> QED
  BY <1>7, <1>8 DEF Buys

\* An order of the owner's key counts against the day, and as one that overlaps if a pass
\* is spending; it takes no position for the runner.
LEMMA KeyFills ==
    ASSUME StrategiesInvariant, NEW r \in Calls, OrderFills(r)
    PROVE  StrategiesInvariant'
<1>1. /\ TablesSound /\ Seasons' = Seasons /\ Ids' = Ids /\ calls[r].pc = "order"
      /\ UNCHANGED <<stage, strategies, runner, faults>> /\ Goes(r, NoCall)
  BY DEF StrategiesInvariant, Seasons, OrderFills, Ids
<1>2. calls[r].season \in Seasons /\ calls[r].sequence \in Nat /\ calls[r].sequence < Cap
  BY <1>1, CallFacts DEF CallSound
<1> PICK n \in Seasons : n = calls[r].season
  BY <1>2
<1>3. PICK side \in {"buy", "sell"}, mint \in Mints :
          /\ trades[n] = calls[r].sequence /\ Fill(n, side, mint)
          /\ overlap' = [overlap EXCEPT ![n] = @ + (IF Spending(n) THEN 1 ELSE 0)]
          /\ entered' = [entered EXCEPT ![n] = @ \cap positions'[n]]
  BY DEF OrderFills, CurrentQuote
<1>4. /\ trades' \in [Seasons -> Nat] /\ positions' \in [Seasons -> SUBSET Mints]
      /\ trades'[n] = trades[n] + 1
      /\ \A s \in Seasons \ {n} : trades'[s] = trades[s] /\ positions'[s] = positions[s]
  BY <1>1, <1>3, FillFacts
<1>5. /\ entered' \in [Seasons -> SUBSET Mints] /\ entered'[n] = entered[n] \cap positions'[n]
      /\ \A s \in Seasons \ {n} : entered'[s] = entered[s]
  <2>1. entered \in [Seasons -> SUBSET Mints]
    BY <1>1 DEF TablesSound
  <2> QED
    BY <1>3, <2>1
<1>6. /\ overlap' \in [Seasons -> Nat]
      /\ overlap'[n] = overlap[n] + (IF Spending(n) THEN 1 ELSE 0)
      /\ \A s \in Seasons \ {n} : overlap'[s] = overlap[s]
  <2>1. overlap \in [Seasons -> Nat]
    BY <1>1 DEF TablesSound
  <2> QED
    BY <1>3, <2>1
<1>7. TablesSound'
  BY <1>1, <1>4, <1>5, <1>6 DEF TablesSound
<1>8. CallsSound'
  <2>1. \A s \in Seasons : trades[s] <= trades'[s]
    <3> SUFFICES ASSUME NEW s \in Seasons PROVE trades[s] <= trades'[s]
      OBVIOUS
    <3>1. trades[s] \in Nat /\ (trades'[s] = trades[s] \/ trades'[s] = trades[s] + 1)
      BY <1>1, <1>4 DEF TablesSound
    <3> QED
      BY ONLY <3>1
  <2>2. CallSound(NoCall)'
    BY DEF CallSound, NoCall
  <2> QED
    BY <1>1, <1>7, <2>1, <2>2, CallStep DEF StrategiesInvariant
<1>9. RunnerTyped' /\ PassSound' /\ OneRuns'
  BY <1>1 DEF StrategiesInvariant, RunnerTyped, Sweeps, Listings, Readings, PassRecords, PassSound,
              OneRuns, RunningIn, Running
<1>10. \A s : Spending(s)' = Spending(s) /\ Filling(s)' = Filling(s)
  BY <1>1 DEF Spending, Filling
<1>11. WithinCap'
  <2> SUFFICES ASSUME NEW s \in Seasons
               PROVE  trades'[s] + (IF Spending(s) THEN runner.budget ELSE 0) <= Cap + overlap'[s]
    BY <1>1, <1>10 DEF WithinCap
  <2>1. trades[s] + (IF Spending(s) THEN runner.budget ELSE 0) <= Cap + overlap[s]
    BY DEF StrategiesInvariant, WithinCap
  <2>2. trades[s] \in Nat /\ overlap[s] \in Nat /\ Cap \in Nat
    BY <1>1, CapAssumption DEF TablesSound
  <2>3. CASE s = n
    <3>1. Spending(s) => runner.budget \in Nat
      BY PassFacts DEF StrategiesInvariant, Spending, Passing
    <3>2. trades[s] < Cap
      BY <1>2, <1>3, <2>3
    <3>3. trades'[s] = trades[s] + 1 /\ overlap'[s] = overlap[s] + (IF Spending(s) THEN 1 ELSE 0)
      BY <1>4, <1>6, <2>3
    <3> QED
      BY ONLY <2>1, <2>2, <3>1, <3>2, <3>3
  <2>4. CASE s # n
    BY <1>4, <1>6, <2>1, <2>4
  <2> QED
    BY <2>3, <2>4
<1>12. WithinPlaces'
  <2> SUFFICES ASSUME NEW s \in Seasons
               PROVE  Cardinality(entered'[s]) + (IF Filling(s) THEN runner.budget ELSE 0) <= MaxOpen
    BY <1>1, <1>10 DEF WithinPlaces
  <2>1. Cardinality(entered[s]) + (IF Filling(s) THEN runner.budget ELSE 0) <= MaxOpen
    BY DEF StrategiesInvariant, WithinPlaces
  <2>2. IsFiniteSet(entered[s]) /\ Cardinality(entered[s]) \in Nat /\ MaxOpen \in Nat
    BY <1>1, EnteredFinite
  <2>3. entered'[s] \subseteq entered[s]
    BY <1>5
  <2>4. IsFiniteSet(entered'[s]) /\ Cardinality(entered'[s]) <= Cardinality(entered[s])
    BY ONLY <2>2, <2>3, FS_Subset
  <2>5. Cardinality(entered'[s]) \in Nat
    BY ONLY <2>4, FS_CardinalityType
  <2>6. Filling(s) => runner.budget \in Nat
    BY PassFacts DEF StrategiesInvariant, Filling, Passing
  <2> QED
    BY ONLY <2>1, <2>2, <2>4, <2>5, <2>6
<1> QED
  BY <1>7, <1>8, <1>9, <1>11, <1>12 DEF StrategiesInvariant

LEMMA RunnerStops ==
    ASSUME StrategiesInvariant, RunnerFails
    PROVE  StrategiesInvariant'
<1>1. faults' \in 0 .. FaultBound
  <2>1. faults \in 0 .. FaultBound /\ faults < FaultBound /\ faults' = faults + 1 /\ FaultBound \in Nat
    BY CapAssumption DEF StrategiesInvariant, TablesSound, RunnerFails
  <2> QED
    BY ONLY <2>1
<1> QED
  BY <1>1, RunnerRests DEF RunnerFails

\* Nothing else of the state depends on what season it is.
LEMMA SeasonPasses ==
    ASSUME StrategiesInvariant, stage' \in DOMAIN Timeline,
           UNCHANGED <<strategies, account, calls, runner, faults>>
    PROVE  StrategiesInvariant'
<1>1. /\ UNCHANGED <<trades, positions, entered, overlap>> /\ Seasons' = Seasons /\ Ids' = Ids
      /\ \A s : Spending(s)' = Spending(s) /\ Filling(s)' = Filling(s)
  BY DEF account, Seasons, Ids, Spending, Filling
<1>2. TablesSound' /\ RunnerTyped' /\ PassSound' /\ OneRuns'
  BY <1>1 DEF StrategiesInvariant, TablesSound, RunnerTyped, Sweeps, Listings, Readings, PassRecords,
              PassSound, OneRuns, RunningIn, Running
<1>3. WithinCap' /\ WithinPlaces'
  BY <1>1 DEF StrategiesInvariant, WithinCap, WithinPlaces
<1>4. CallsSound'
  <2>1. \A s \in Seasons : trades[s] <= trades'[s]
    BY <1>1 DEF StrategiesInvariant, TablesSound
  <2> QED
    BY <1>1, <1>2, <2>1, CallsKept DEF StrategiesInvariant
<1> QED
  BY <1>2, <1>3, <1>4 DEF StrategiesInvariant

LEMMA StrategiesBegin ==
    ASSUME StrategiesInit
    PROVE  StrategiesInvariant
<1>1. stage = 1 /\ strategies = <<>> /\ runner = Rest /\ faults = 0
  BY DEF StrategiesInit
<1>2. 1 \in DOMAIN Timeline /\ Cap \in Nat /\ MaxOpen \in Nat /\ FaultBound \in Nat /\ 0 \in 0 .. FaultBound
  <2>1. Len(Timeline) \in Nat /\ Len(Timeline) # 0 /\ DOMAIN Timeline = 1 .. Len(Timeline)
    BY TimelineAssumption
  <2>2. 1 \in DOMAIN Timeline
    BY ONLY <2>1
  <2> QED
    BY <2>2, CapAssumption
<1>3. PICK held \in SUBSET Mints :
          /\ Cardinality(held) <= MaxOpen
          /\ entered = [s \in Seasons |-> IF s = Season THEN held ELSE {}]
  BY DEF StrategiesInit
<1>4. /\ trades = [s \in Seasons |-> 0] /\ overlap = [s \in Seasons |-> 0] /\ positions = entered
      /\ calls = [r \in Calls |-> NoCall]
  BY DEF StrategiesInit
<1>5. entered \in [Seasons -> SUBSET Mints]
  BY <1>3
<1>6. strategies \in Seq(StrategyRows) /\ Ids = {}
  <2>1. strategies \in Seq(StrategyRows)
    BY ONLY <1>1, EmptySeq
  <2> QED
    BY <1>1, <2>1 DEF Ids
<1>7. TablesSound
  BY <1>1, <1>2, <1>4, <1>5, <1>6 DEF TablesSound
<1>8. RunnerTyped /\ PassSound
  BY <1>1 DEF RunnerTyped, PassSound, Passing, Rest
<1>9. OneRuns
  BY <1>6 DEF OneRuns, RunningIn
<1>10. CallsSound
  BY <1>4 DEF CallsSound, CallSound, NoCall
<1>11. WithinCap
  <2>1. \A s \in Seasons : ~Spending(s) /\ trades[s] = 0 /\ overlap[s] = 0
    BY <1>1, <1>4 DEF Spending, Rest
  <2> QED
    BY <1>2, <2>1 DEF WithinCap
<1>12. WithinPlaces
  <2> SUFFICES ASSUME NEW s \in Seasons PROVE Cardinality(entered[s]) + 0 <= MaxOpen
    BY <1>1 DEF WithinPlaces, Filling, Rest
  <2>1. Cardinality({}) = 0
    BY FS_EmptySet
  <2>2. Cardinality(entered[s]) <= MaxOpen
    BY <1>2, <1>3, <2>1
  <2>3. Cardinality(entered[s]) \in Nat
    BY <1>7, EnteredFinite
  <2> QED
    BY ONLY <1>2, <2>2, <2>3
<1> QED
  BY <1>7, <1>8, <1>9, <1>10, <1>11, <1>12 DEF StrategiesInvariant

LEMMA StrategiesGoOn == StrategiesInvariant /\ [StrategiesNext]_strategyVars => StrategiesInvariant'
<1> SUFFICES ASSUME StrategiesInvariant, [StrategiesNext]_strategyVars PROVE StrategiesInvariant'
  OBVIOUS
<1>1. ASSUME NEW r \in Calls, OwnerStep(r) PROVE StrategiesInvariant'
  <2>1. CASE Save(r) \/ SaveSelects(r) \/ Start(r) \/ Stop(r)
    BY <2>1, OwnerAsks
  <2>2. CASE SaveWrites(r) \/ StartWrites(r) \/ StopWrites(r)
    BY <2>2, OwnerWrites
  <2> QED
    BY <1>1, <2>1, <2>2 DEF OwnerStep
<1>2. ASSUME NEW r \in Calls, KeyStep(r) PROVE StrategiesInvariant'
  <2>1. CASE Order(r) \/ OrderCounts(r)
    BY <2>1, OwnerAsks
  <2>2. CASE OrderFills(r)
    BY <2>2, KeyFills
  <2> QED
    BY <1>2, <2>1, <2>2 DEF KeyStep
<1>3. ASSUME NEW r \in Calls, RequestEnds(r) PROVE StrategiesInvariant'
  BY <1>3, OwnerAsks
<1>4. CASE RunnerStep
  <2>1. CASE Tick \/ SweepStops \/ SweepEnds
    BY <2>1, SweepSteps
  <2>2. CASE Reads \/ Counts
    BY <2>2, PassBegins
  <2>3. CASE Exits \/ ExitsDone \/ Entries \/ EntriesDone
    BY <2>3, PassRuns
  <2>4. CASE Sells
    BY <2>4, RunnerSells
  <2>5. CASE Buys
    BY <2>5, RunnerBuys
  <2> QED
    BY <1>4, <2>1, <2>2, <2>3, <2>4, <2>5 DEF RunnerStep
<1>5. CASE RunnerFails
  BY <1>5, RunnerStops
<1>6. CASE StageMoves
  <2>1. stage' \in DOMAIN Timeline
    <3>1. /\ Len(Timeline) \in Nat /\ DOMAIN Timeline = 1 .. Len(Timeline)
          /\ stage \in DOMAIN Timeline /\ stage < Len(Timeline) /\ stage' = stage + 1
      BY <1>6, TimelineAssumption DEF StageMoves, StrategiesInvariant, TablesSound
    <3> QED
      BY ONLY <3>1
  <2> QED
    BY <1>6, <2>1, SeasonPasses DEF StageMoves
<1>7. CASE UNCHANGED strategyVars
  <2>1. stage' \in DOMAIN Timeline
    BY <1>7 DEF strategyVars, StrategiesInvariant, TablesSound
  <2> QED
    BY <1>7, <2>1, SeasonPasses DEF strategyVars, account
<1> QED
  BY <1>1, <1>2, <1>3, <1>4, <1>5, <1>6, <1>7 DEF StrategiesNext

------------------------------------------------------------------------------
(***************************************************************************)
(* What the runner promises                                                *)
(***************************************************************************)

\* However requests of the owner and of the owner's programs, sweeps, passes and failures
\* interleave (strategy-runner.ts:581-915), the state keeps its shape and the budget of a
\* pass stays what is left of the cap and of the places.
THEOREM StrategiesHold == StrategiesSpec => []StrategiesInvariant
<1>1. StrategiesInit => StrategiesInvariant
  BY StrategiesBegin
<1> QED
  BY <1>1, StrategiesGoOn, PTL DEF StrategiesSpec

\* A strategy's pass reads what is held twice (strategy-runner.ts:622-628): for any mints,
\* any limit, any timeline and any number of requests in flight, one strategy of a season
\* runs at most, the runner never holds more than the rules allow, and a mint sold in a pass
\* is not bought back in it.
THEOREM RulesHold == StrategiesSpec => []RunnerWithinItsRules
<1>1. StrategiesInvariant => RunnerWithinItsRules
  <2> SUFFICES ASSUME StrategiesInvariant PROVE RunnerWithinItsRules
    OBVIOUS
  <2>1. TablesSound /\ OneRuns /\ PassSound /\ calls = [r \in Calls |-> calls[r]]
    BY DEF StrategiesInvariant, CallsSound
  <2>2. \A i \in Ids : /\ strategies[i].season \in Seasons
                       /\ strategies[i].status \in {"draft", "running", "stopped"}
    BY <2>1, TableFacts
  <2>3. ASSUME NEW s \in Seasons PROVE Cardinality(RunningIn(s)) <= 1
    <3> PICK S : S = RunningIn(s)
      OBVIOUS
    <3>1. \A i, j \in S : i = j
      BY <2>1 DEF OneRuns
    <3>2. CASE S = {}
      BY <3>2, FS_EmptySet
    <3>3. CASE S # {}
      <4> PICK i : i \in S
        BY <3>3
      <4>1. S = {i}
        BY <3>1
      <4>2. Cardinality(S) = 1
        BY ONLY <4>1, FS_Singleton
      <4> QED
        BY <4>2
    <3> QED
      BY <3>2, <3>3
  <2>4. StrategiesTypeOK
    BY <2>1, <2>2, <2>3 DEF TablesSound, StrategiesTypeOK
  <2>5. ASSUME NEW s \in Seasons PROVE Cardinality(entered[s]) <= MaxOpen
    <3>1. Cardinality(entered[s]) + (IF Filling(s) THEN runner.budget ELSE 0) <= MaxOpen
      BY DEF StrategiesInvariant, WithinPlaces
    <3>2. Filling(s) => runner.budget \in Nat
      BY PassFacts DEF StrategiesInvariant, Filling, Passing
    <3>3. Cardinality(entered[s]) \in Nat /\ MaxOpen \in Nat
      BY <2>1, EnteredFinite
    <3> QED
      BY ONLY <3>1, <3>2, <3>3
  <2>6. runner.pc \in {"exits", "entries", "buy"} => runner.sold \cap runner.bought = {}
    BY <2>1 DEF PassSound, Passing
  <2> QED
    BY <2>4, <2>5, <2>6 DEF RunnerWithinItsRules
<1> QED
  BY <1>1, StrategiesHold, PTL

\* The key counts before every order and the runner once per pass (strategy-runner.ts:610-617):
\* for any cap, the automated trades of a season pass it by at most the orders the key filled
\* while a pass was spending its budget.
THEOREM CapHolds == StrategiesSpec => []CapGivesWayToOverlap
<1>1. StrategiesInvariant => CapGivesWayToOverlap
  <2> SUFFICES ASSUME StrategiesInvariant, NEW s \in Seasons PROVE trades[s] <= Cap + overlap[s]
    BY DEF CapGivesWayToOverlap
  <2>1. trades[s] + (IF Spending(s) THEN runner.budget ELSE 0) <= Cap + overlap[s]
    BY DEF StrategiesInvariant, WithinCap
  <2>2. Spending(s) => runner.budget \in Nat
    BY PassFacts DEF StrategiesInvariant, Spending, Passing
  <2>3. trades[s] \in Nat /\ overlap[s] \in Nat /\ Cap \in Nat
    BY CapAssumption DEF StrategiesInvariant, TablesSound
  <2> QED
    BY ONLY <2>1, <2>2, <2>3
<1> QED
  BY <1>1, StrategiesHold, PTL
==============================================================================
