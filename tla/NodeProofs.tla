----------------------------- MODULE NodeProofs -----------------------------
(***************************************************************************)
(* What the two clients of the Solana node promise.  Of the endpoint's     *)
(* budget, for any number of workers and people, any prices, any plan and  *)
(* any behaviour of the endpoint: the ceiling on calls in flight is exact, *)
(* and what a worker first sends is paid for at the rate of the plan and   *)
(* keeps out of the cooldown.  Of pushed prices, for any mints, any number *)
(* of overlapping passes and any losses of the socket: a price is of one   *)
(* swap, nothing is watched that nobody owns, and the socket serves what   *)
(* is wanted, once.                                                        *)
(***************************************************************************)
EXTENDS RpcBudget, PriceStream, BasicLemmas, SequenceTheorems

------------------------------------------------------------------------------
(***************************************************************************)
(* RPC budget: the inductive invariant                                     *)
(***************************************************************************)

CallType ==
         [pc : {"idle", "queued"}]
    \cup [pc : {"cooling", "slot", "paced"}, left : Nat]
    \cup [pc : {"backoff"}, left : Nat, attempt : 0 .. MaxRetries]
    \cup [pc : {"out"}, attempt : 0 .. MaxRetries]

\* Each kind of caller goes through the phases of its own client.
Typed ==
    /\ TypeOK
    /\ inFlight \in 0 .. MaxConcurrent /\ waiting \in Seq(People)
    /\ callers \in [Callers -> CallType]
    /\ \A w \in Workers : callers[w].pc \notin {"queued", "paced"}
    /\ \A c \in People : callers[c].pc \notin {"cooling", "slot"}

\* Whoever holds a slot of the shared client is counted, and whoever waits for one is in
\* the queue, once.
Counted ==
    /\ IsFiniteSet(Holding) /\ inFlight = Cardinality(Holding)
    /\ waiting # <<>> => inFlight = MaxConcurrent
    /\ {c \in People : callers[c].pc = "queued"} = {waiting[i] : i \in DOMAIN waiting}
    /\ \A i, j \in DOMAIN waiting : waiting[i] = waiting[j] => i = j

\* What the plan asks for a call, and when the worker has paid for it.
Price(w) == Base * Credits[w]
PaidAt(w) == callers[w].left + Price(w)

\* The times that pay for the calls of those who sleep towards their slots do not overlap;
\* all of them lie after what has been sent and before the next slot.
Spaced ==
    /\ \A w \in Workers : First(w) => debt <= callers[w].left /\ PaidAt(w) <= slotIn
    /\ \A v, w \in Workers : First(v) /\ First(w) /\ v # w =>
           PaidAt(v) <= callers[w].left \/ PaidAt(w) <= callers[v].left
    /\ debt <= slotIn

\* Only a slot claimed before the last refusal outlives it.
OutOfCooldown == \A w \in Workers : First(w) => coolIn = 0 \/ w \in told

IInv == Typed /\ Counted /\ Spaced /\ OutOfCooldown

------------------------------------------------------------------------------
(***************************************************************************)
(* RPC budget: numbers                                                     *)
(***************************************************************************)

DoublesUpTo(n, f) == f = [k \in 0 .. n |-> IF k = 0 THEN 1 ELSE 2 * f[k - 1]]

\* The doublings up to a number are a function of natural numbers.
LEMMA DoublesDefined ==
    ASSUME NEW n \in Nat
    PROVE  \E f \in [0 .. n -> Nat] : DoublesUpTo(n, f)
<1> DEFINE T == {k \in Nat : \E f \in [0 .. k -> Nat] : DoublesUpTo(k, f)}
<1>1. 0 \in T
  <2> DEFINE f == [k \in 0 .. 0 |-> 1]
  <2>1. f \in [0 .. 0 -> Nat] /\ DoublesUpTo(0, f)
    BY DEF DoublesUpTo
  <2> QED
    BY <2>1
<1>2. ASSUME NEW k \in Nat, k \in T PROVE k + 1 \in T
  <2> PICK f \in [0 .. k -> Nat] : DoublesUpTo(k, f)
    BY <1>2
  <2>1. \A j \in 0 .. k : f[j] = IF j = 0 THEN 1 ELSE 2 * f[j - 1]
    BY DEF DoublesUpTo
  <2> DEFINE g == [j \in 0 .. k + 1 |-> IF j = k + 1 THEN 2 * f[k] ELSE f[j]]
  <2>2. g \in [0 .. k + 1 -> Nat] /\ g[k + 1] = 2 * f[k] /\ \A j \in 0 .. k : g[j] = f[j]
    OBVIOUS
  <2> HIDE DEF g
  <2>3. ASSUME NEW j \in 0 .. k + 1 PROVE g[j] = IF j = 0 THEN 1 ELSE 2 * g[j - 1]
    <3>1. CASE j \in 0 .. k
      <4>1. g[j] = f[j] /\ (j # 0 => g[j - 1] = f[j - 1])
        BY <2>2, <3>1
      <4> QED
        BY <2>1, <3>1, <4>1
    <3>2. CASE j = k + 1
      BY <2>2, <3>2
    <3> QED
      BY <3>1, <3>2
  <2>4. g = [j \in 0 .. k + 1 |-> g[j]]
    BY <2>2
  <2>5. DoublesUpTo(k + 1, g)
    BY <2>3, <2>4 DEF DoublesUpTo
  <2> QED
    BY <2>2, <2>5
<1> HIDE DEF T
<1>3. Nat \subseteq T
  BY <1>1, <1>2, Induction
<1> QED
  BY <1>3 DEF T

LEMMA DoubledNat ==
    ASSUME NEW n \in Nat
    PROVE  Doubled(n) \in Nat
<1> DEFINE f == CHOOSE f : DoublesUpTo(n, f)
<1>1. Doubled(n) = f[n]
  BY DEF Doubled, DoublesUpTo
<1>2. PICK g \in [0 .. n -> Nat] : DoublesUpTo(n, g)
  BY DoublesDefined
<1>3. DoublesUpTo(n, f)
  BY <1>2
<1> HIDE DEF f
<1> DEFINE T == {k \in Nat : k <= n => f[k] = g[k]}
<1>4. 0 \in T
  BY <1>2, <1>3 DEF DoublesUpTo
<1>5. ASSUME NEW k \in Nat, k \in T PROVE k + 1 \in T
  <2> SUFFICES ASSUME k + 1 <= n PROVE f[k + 1] = g[k + 1]
    OBVIOUS
  <2>1. f[k] = g[k] /\ k + 1 \in 0 .. n /\ k + 1 # 0 /\ (k + 1) - 1 = k
    BY <1>5
  <2> QED
    BY <1>2, <1>3, <2>1 DEF DoublesUpTo
<1> HIDE DEF T
<1>6. Nat \subseteq T
  BY <1>4, <1>5, Induction
<1>7. f[n] = g[n]
  BY <1>6 DEF T
<1> QED
  BY <1>1, <1>7

\* A call costs a positive time at the rate of the plan, and no less at a wider gap.
LEMMA Prices ==
    ASSUME NEW w \in Workers
    PROVE  /\ Price(w) \in Nat \ {0}
           /\ \A n \in Nat : Base <= n => n * Credits[w] \in Nat /\ Price(w) <= n * Credits[w]
<1>1. Base \in Nat \ {0} /\ Credits[w] \in Nat \ {0}
  BY CallerAssumption, PaceAssumption
<1>2. \A n \in Nat : n * Credits[w] \in Nat /\ (Base <= n => Base * Credits[w] <= n * Credits[w])
  BY <1>1, ProductOrder
<1>3. 1 * Credits[w] <= Base * Credits[w]
  BY <1>1, ProductOrder
<1>4. Base * Credits[w] \in Nat
  BY <1>1, <1>2
<1>5. 1 * Credits[w] = Credits[w]
  BY <1>1
<1>6. Base * Credits[w] # 0
  BY <1>1, <1>3, <1>4, <1>5
<1> QED
  BY <1>2, <1>4, <1>6 DEF Price

\* Recovering, the gap of a credit stays between the plan's and the widest.
LEMMA Recovers ==
    ASSUME NEW n \in Base .. MaxFloor
    PROVE  Most(Base, Narrowed(n)) \in Base .. MaxFloor
<1>1. Base \in Nat /\ MaxFloor \in Nat /\ Base <= MaxFloor
  BY PaceAssumption
<1>2. 8 * n \in Nat /\ 10 \in Nat \ {0}
  BY <1>1
<1>3. (8 * n) \div 10 \in Nat /\ 10 * ((8 * n) \div 10) <= 8 * n
  BY <1>2, FloorFacts
<1>4. Narrowed(n) \in Nat /\ Narrowed(n) <= n
  BY <1>1, <1>3 DEF Narrowed
<1> QED
  BY <1>1, <1>4 DEF Most

------------------------------------------------------------------------------
(***************************************************************************)
(* RPC budget: calls                                                       *)
(***************************************************************************)

LEMMA CallFacts ==
    ASSUME NEW call \in CallType
    PROVE  /\ call.pc \in {"cooling", "slot", "paced", "backoff"} => call.left \in Nat
           /\ call.pc \in {"out", "backoff"} => call.attempt \in 0 .. MaxRetries
           /\ call.pc = "idle" => call = Idle
           /\ call.pc \in {"cooling", "slot", "paced", "backoff", "out", "idle", "queued"}
BY DEF CallType, Idle

LEMMA CallsMade ==
    /\ Idle \in CallType /\ [pc |-> "queued"] \in CallType
    /\ \A n \in Nat : /\ [pc |-> "cooling", left |-> n] \in CallType
                      /\ [pc |-> "slot", left |-> n] \in CallType
                      /\ [pc |-> "paced", left |-> n] \in CallType
                      /\ \A k \in 0 .. MaxRetries :
                            [pc |-> "backoff", attempt |-> k, left |-> n] \in CallType
    /\ \A k \in 0 .. MaxRetries : [pc |-> "out", attempt |-> k] \in CallType
BY DEF CallType, Idle

LEMMA Becoming ==
    ASSUME callers \in [Callers -> CallType], NEW c \in Callers, NEW call \in CallType, Becomes(c, call)
    PROVE  /\ callers' \in [Callers -> CallType]
           /\ callers'[c] = call
           /\ \A d \in Callers : d # c => callers'[d] = callers[d]
BY DEF Becomes

\* The queue and the count are right as long as nobody begins or ceases to hold a slot of
\* the shared client or to wait for one.
LEMMA ClientKept ==
    ASSUME Counted, inFlight' = inFlight, waiting' = waiting,
           \A c \in People : /\ callers'[c].pc \in {"paced", "out", "backoff"}
                                    <=> callers[c].pc \in {"paced", "out", "backoff"}
                             /\ callers'[c].pc = "queued" <=> callers[c].pc = "queued"
    PROVE  Counted'
<1>1. Holding' = Holding
  BY DEF Holding
<1>2. {c \in People : callers'[c].pc = "queued"} = {c \in People : callers[c].pc = "queued"}
  OBVIOUS
<1> QED
  BY <1>1, <1>2 DEF Counted

\* The slots stay apart as long as none is claimed and nothing is sent.
LEMMA SlotsKept ==
    ASSUME Spaced, slotIn' = slotIn, debt' = debt,
           \A w \in Workers : callers'[w].pc = "slot" => callers'[w] = callers[w]
    PROVE  Spaced'
<1>1. \A w \in Workers : First(w)' => First(w) /\ callers'[w] = callers[w]
  BY DEF First
<1> QED
  BY <1>1 DEF Spaced, PaidAt, Price

LEMMA CooldownKept ==
    ASSUME OutOfCooldown, coolIn' = coolIn, told' = told,
           \A w \in Workers : callers'[w].pc = "slot" => callers'[w] = callers[w]
    PROVE  OutOfCooldown'
BY DEF OutOfCooldown, First

------------------------------------------------------------------------------
(***************************************************************************)
(* RPC budget: the end of a call and another attempt                       *)
(***************************************************************************)

\* What an answer leaves of the shared client and of the callers, whoever it is for.
ClientAfter ==
    /\ callers' \in [Callers -> CallType]
    /\ inFlight' \in 0 .. MaxConcurrent /\ waiting' \in Seq(People) /\ gapIn' \in Nat
    /\ \A w \in Workers : callers'[w].pc \notin {"queued", "paced"}
    /\ \A c \in People : callers'[c].pc \notin {"cooling", "slot"}
    /\ \A w \in Workers : callers'[w].pc = "slot" => callers'[w] = callers[w]
    /\ Counted'

\* A caller that ceases to hold leaves one fewer.
LEMMA FreedCounts ==
    ASSUME Typed, Counted, NEW c \in People, callers[c].pc = "out", waiting = <<>>, ReleaseFreed(c)
    PROVE  ClientAfter
<1>1. /\ c \in Callers /\ callers \in [Callers -> CallType] /\ Becomes(c, Idle) /\ c \notin Workers
      /\ inFlight \in 0 .. MaxConcurrent /\ MaxConcurrent \in Nat /\ gapIn \in Nat
  BY CallerAssumption, PaceAssumption DEF Typed, TypeOK, Callers, ReleaseFreed, Becomes
<1>2. /\ callers' \in [Callers -> CallType] /\ callers'[c] = Idle
      /\ \A d \in Callers : d # c => callers'[d] = callers[d]
  BY <1>1, CallsMade, Becoming
<1>3. Holding' = Holding \ {c} /\ c \in Holding
  BY <1>1, <1>2 DEF Holding, Callers, Idle
<1>4. IsFiniteSet(Holding') /\ Cardinality(Holding') = Cardinality(Holding) - 1
  BY <1>3, FS_RemoveElement DEF Counted
<1>5. inFlight' = inFlight - 1 /\ waiting' = waiting /\ gapIn' = gapIn
  BY DEF ReleaseFreed
<1>6. inFlight' \in 0 .. MaxConcurrent
  <2>1. Cardinality(Holding') \in Nat
    BY <1>4, FS_CardinalityType
  <2> QED
    BY <1>1, <1>4, <1>5, <2>1 DEF Counted
<1>7. {d \in People : callers'[d].pc = "queued"} = {d \in People : callers[d].pc = "queued"}
  BY <1>2 DEF Callers, Idle
<1>8. Counted'
  BY <1>4, <1>5, <1>7 DEF Counted
<1>9. /\ \A w \in Workers : callers'[w] = callers[w]
      /\ \A d \in People : d = c \/ callers'[d] = callers[d]
  BY <1>1, <1>2 DEF Callers
<1> QED
  BY <1>1, <1>2, <1>5, <1>6, <1>8, <1>9 DEF ClientAfter, Typed, Idle

\* A caller that hands its slot over leaves as many.
LEMMA HandedCounts ==
    ASSUME Typed, Counted, NEW c \in People, callers[c].pc = "out", waiting # <<>>, HandedOver(c)
    PROVE  ClientAfter
<1> DEFINE h == Head(waiting)
           call == [pc |-> "paced", left |-> gapIn]
<1>1. /\ waiting \in Seq(People) /\ Len(waiting) \in Nat \ {0} /\ h = waiting[1]
      /\ Tail(waiting) \in Seq(People) /\ Len(Tail(waiting)) = Len(waiting) - 1
      /\ \A i \in 1 .. Len(waiting) - 1 : Tail(waiting)[i] = waiting[i + 1]
  BY DEF Typed
<1>2. h \in People /\ callers[h].pc = "queued"
  BY <1>1 DEF Counted
<1>3. /\ c \in Callers /\ h \in Callers /\ h # c /\ c \notin Workers /\ h \notin Workers
      /\ callers \in [Callers -> CallType] /\ inFlight \in 0 .. MaxConcurrent
      /\ gapIn \in Nat /\ MinInterval \in Nat
  BY <1>2, CallerAssumption, PaceAssumption DEF Typed, TypeOK, Callers
<1>4. /\ callers' = [callers EXCEPT ![c] = Idle, ![h] = call] /\ waiting' = Tail(waiting)
      /\ gapIn' = gapIn + MinInterval /\ inFlight' = inFlight
  BY DEF HandedOver
<1>5. call \in CallType /\ Idle \in CallType /\ call.pc = "paced"
  BY <1>3, CallsMade
<1> HIDE DEF call, h
<1>6. /\ callers' \in [Callers -> CallType] /\ callers'[c] = Idle /\ callers'[h] = call
      /\ \A d \in Callers : d # c /\ d # h => callers'[d] = callers[d]
  BY <1>3, <1>4, <1>5
<1>7. Holding' = (Holding \ {c}) \cup {h} /\ c \in Holding /\ h \notin Holding
  BY <1>2, <1>3, <1>5, <1>6 DEF Holding, Callers, Idle
<1>8. IsFiniteSet(Holding') /\ Cardinality(Holding') = Cardinality(Holding)
  <2>1. IsFiniteSet(Holding \ {c}) /\ Cardinality(Holding \ {c}) = Cardinality(Holding) - 1
    BY <1>7, FS_RemoveElement DEF Counted
  <2>2. IsFiniteSet(Holding') /\ Cardinality(Holding') = Cardinality(Holding \ {c}) + 1
    BY <1>7, <2>1, FS_AddElement
  <2>3. Cardinality(Holding) \in Nat
    BY FS_CardinalityType DEF Counted
  <2> QED
    BY <2>1, <2>2, <2>3
<1>9. {d \in People : callers'[d].pc = "queued"} = {d \in People : callers[d].pc = "queued"} \ {h}
  BY <1>3, <1>5, <1>6 DEF Callers, Idle
<1>10. {waiting'[i] : i \in DOMAIN waiting'} = {waiting[i] : i \in DOMAIN waiting} \ {h}
  <2>1. DOMAIN waiting = 1 .. Len(waiting) /\ DOMAIN waiting' = 1 .. Len(waiting) - 1
    BY <1>1, <1>4
  <2>2. ASSUME NEW i \in DOMAIN waiting'
        PROVE  waiting'[i] \in {waiting[j] : j \in DOMAIN waiting} \ {h}
    <3>1. i + 1 \in DOMAIN waiting /\ 1 \in DOMAIN waiting /\ i + 1 # 1 /\ waiting'[i] = waiting[i + 1]
      BY <1>1, <1>4, <2>1
    <3> QED
      BY <1>1, <3>1 DEF Counted
  <2>3. ASSUME NEW j \in DOMAIN waiting, waiting[j] # h
        PROVE  \E i \in DOMAIN waiting' : waiting'[i] = waiting[j]
    <3>1. j - 1 \in DOMAIN waiting' /\ waiting'[j - 1] = waiting[j]
      BY <1>1, <1>4, <2>1, <2>3
    <3> QED
      BY <3>1
  <2> QED
    BY <2>2, <2>3
<1>11. \A i, j \in DOMAIN waiting' : waiting'[i] = waiting'[j] => i = j
  <2>1. ASSUME NEW i \in DOMAIN waiting', NEW j \in DOMAIN waiting', waiting'[i] = waiting'[j]
        PROVE  i = j
    <3>1. i \in Nat /\ j \in Nat /\ i + 1 \in DOMAIN waiting /\ j + 1 \in DOMAIN waiting
          /\ waiting[i + 1] = waiting[j + 1]
      BY <1>1, <1>4, <2>1
    <3>2. i + 1 = j + 1
      BY <3>1 DEF Counted
    <3> QED
      BY <3>1, <3>2
  <2> QED
    BY <2>1
<1>12. Counted'
  BY <1>4, <1>8, <1>9, <1>10, <1>11 DEF Counted
<1>13. /\ \A w \in Workers : callers'[w] = callers[w]
       /\ \A d \in People : d = c \/ d = h \/ callers'[d] = callers[d]
  BY <1>3, <1>6 DEF Callers
<1>14. waiting' \in Seq(People) /\ gapIn' \in Nat /\ inFlight' \in 0 .. MaxConcurrent
  BY <1>1, <1>3, <1>4
<1> QED
  BY <1>5, <1>6, <1>12, <1>13, <1>14 DEF ClientAfter, Typed, Idle

\* A worker holds nothing of the shared client, and neither does whoever goes on holding.
LEMMA SameHolders ==
    ASSUME Typed, Counted, NEW c \in Callers, NEW call \in CallType, Becomes(c, call),
           callers[c].pc = "out", UNCHANGED client,
           IF c \in Workers THEN call.pc \in {"idle", "backoff"} ELSE call.pc = "backoff"
    PROVE  ClientAfter
<1>1. /\ callers \in [Callers -> CallType] /\ inFlight \in 0 .. MaxConcurrent
      /\ waiting \in Seq(People) /\ gapIn \in Nat /\ Workers \cap People = {}
  BY CallerAssumption DEF Typed, TypeOK
<1>2. /\ callers' \in [Callers -> CallType] /\ callers'[c] = call
      /\ \A d \in Callers : d # c => callers'[d] = callers[d]
  BY <1>1, Becoming
<1>3. inFlight' = inFlight /\ waiting' = waiting /\ gapIn' = gapIn
  BY DEF client
<1>4. \A d \in People : /\ callers'[d].pc \in {"paced", "out", "backoff"}
                               <=> callers[d].pc \in {"paced", "out", "backoff"}
                        /\ callers'[d].pc = "queued" <=> callers[d].pc = "queued"
  BY <1>1, <1>2 DEF Callers
<1>5. Counted'
  BY <1>3, <1>4, ClientKept
<1>6. /\ \A w \in Workers : callers'[w].pc \notin {"queued", "paced"}
      /\ \A d \in People : callers'[d].pc \notin {"cooling", "slot"}
      /\ \A w \in Workers : callers'[w].pc = "slot" => callers'[w] = callers[w]
  BY <1>1, <1>2 DEF Callers, Typed
<1> QED
  BY <1>1, <1>2, <1>3, <1>5, <1>6 DEF ClientAfter

LEMMA EndsKeeps ==
    ASSUME Typed, Counted, NEW c \in Callers, callers[c].pc = "out", Ends(c)
    PROVE  ClientAfter
<1>1. CASE c \in People /\ waiting # <<>>
  BY <1>1, HandedCounts DEF Ends, Release
<1>2. CASE c \in People /\ waiting = <<>>
  BY <1>2, FreedCounts DEF Ends, Release
<1>3. CASE c \notin People
  <2>1. c \in Workers /\ Becomes(c, Idle) /\ UNCHANGED client /\ Idle.pc = "idle"
    BY <1>3 DEF Callers, Ends, Idle
  <2> QED
    BY <2>1, CallsMade, SameHolders
<1> QED
  BY <1>1, <1>2, <1>3

LEMMA RetryKeeps ==
    ASSUME Typed, Counted, NEW c \in Callers, callers[c].pc = "out", NEW after \in Nat, Retry(c, after)
    PROVE  ClientAfter
<1>1. callers[c].attempt \in 0 .. MaxRetries /\ MaxRetries \in Nat /\ MaxHold \in Nat
  BY CallFacts, PaceAssumption DEF Typed
<1>2. CASE callers[c].attempt = MaxRetries
  BY <1>2, EndsKeeps DEF Retry
<1>3. CASE callers[c].attempt # MaxRetries
  <2>1. PICK jitter \in 0 .. 1 :
           /\ Becomes(c, [pc |-> "backoff", attempt |-> callers[c].attempt + 1,
                          left |-> Least(after, MaxHold) + Doubled(callers[c].attempt) + jitter])
           /\ UNCHANGED client
    BY <1>3 DEF Retry
  <2> DEFINE left == Least(after, MaxHold) + Doubled(callers[c].attempt) + jitter
             call == [pc |-> "backoff", attempt |-> callers[c].attempt + 1, left |-> left]
  <2>2. left \in Nat
    <3>1. Doubled(callers[c].attempt) \in Nat
      BY <1>1, DoubledNat
    <3> QED
      BY <1>1, <3>1 DEF Least
  <2>3. callers[c].attempt + 1 \in 0 .. MaxRetries
    BY <1>1, <1>3
  <2>4. call \in CallType /\ call.pc = "backoff"
    <3> HIDE DEF left
    <3> QED
      BY <2>2, <2>3, CallsMade
  <2>5. Becomes(c, call)
    BY <2>1
  <2> HIDE DEF call
  <2> QED
    BY <2>1, <2>4, <2>5, SameHolders
<1> QED
  BY <1>2, <1>3

------------------------------------------------------------------------------
(***************************************************************************)
(* RPC budget: the invariant holds initially and every step keeps it       *)
(***************************************************************************)

\* The governor's own part of the typing.
Governed ==
    /\ floor \in Base .. MaxFloor /\ coolIn \in 0 .. MaxCooldown /\ successes \in 0 .. (RecoverAfter - 1)
    /\ slotIn \in Nat /\ debt \in Nat /\ refusals \in Nat
    /\ refusing \in BOOLEAN /\ told \subseteq Workers

LEMMA TypedParts ==
    Typed <=> /\ Governed
              /\ gapIn \in Nat /\ inFlight \in 0 .. MaxConcurrent /\ waiting \in Seq(People)
              /\ callers \in [Callers -> CallType]
              /\ \A w \in Workers : callers[w].pc \notin {"queued", "paced"}
              /\ \A c \in People : callers[c].pc \notin {"cooling", "slot"}
BY DEF Typed, TypeOK, Governed

LEMMA TypedPartsNext ==
    Typed' <=> /\ Governed'
               /\ gapIn' \in Nat /\ inFlight' \in 0 .. MaxConcurrent /\ waiting' \in Seq(People)
               /\ callers' \in [Callers -> CallType]
               /\ \A w \in Workers : callers'[w].pc \notin {"queued", "paced"}
               /\ \A c \in People : callers'[c].pc \notin {"cooling", "slot"}
BY DEF Typed, TypeOK, Governed

LEMMA ConstantFacts ==
    /\ Base \in Nat \ {0} /\ MaxFloor \in Nat /\ Base <= MaxFloor
    /\ MaxCooldown \in Nat /\ MaxHold \in Nat /\ RetryAfters \subseteq Nat
    /\ RecoverAfter \in Nat \ {0} /\ MaxConcurrent \in Nat \ {0} /\ MinInterval \in Nat
    /\ MaxRetries \in Nat /\ Workers \cap People = {}
BY CallerAssumption, PaceAssumption

LEMMA Initially == Init => IInv
<1> SUFFICES ASSUME Init PROVE IInv
  OBVIOUS
<1>1. \A c \in Callers : callers[c] = Idle
  BY DEF Init
<1>2. callers \in [Callers -> CallType]
  BY CallsMade DEF Init
<1>3. Typed
  <2>1. Governed
    <3>1. Base \in Base .. MaxFloor /\ 0 \in 0 .. MaxCooldown /\ 0 \in 0 .. RecoverAfter - 1
      BY ConstantFacts
    <3> QED
      BY <3>1 DEF Init, Governed
  <2>2. gapIn \in Nat /\ inFlight \in 0 .. MaxConcurrent /\ waiting \in Seq(People)
    BY ConstantFacts DEF Init
  <2> QED
    BY <1>1, <1>2, <2>1, <2>2, TypedParts DEF Callers, Idle
<1>4. Counted
  <2>1. Holding = {} /\ {c \in People : callers[c].pc = "queued"} = {}
    BY <1>1 DEF Holding, Callers, Idle
  <2> QED
    BY <2>1, FS_EmptySet DEF Counted, Init
<1>5. \A w \in Workers : ~First(w)
  BY <1>1 DEF First, Callers, Idle
<1> QED
  BY <1>3, <1>4, <1>5 DEF IInv, Spaced, OutOfCooldown, Init

\* A slot is claimed behind all others, at no less than the plan's price.
LEMMA ClaimKeeps ==
    ASSUME IInv, NEW w \in Workers, callers[w].pc \in {"idle", "cooling"}, coolIn = 0, Claim(w),
           UNCHANGED <<client, refusing, debt>>
    PROVE  IInv'
<1> DEFINE call == [pc |-> "slot", left |-> slotIn]
<1>1. /\ Governed /\ callers \in [Callers -> CallType] /\ w \in Callers /\ w \notin People
      /\ slotIn \in Nat /\ floor \in Nat /\ Base <= floor
  BY TypedParts, ConstantFacts DEF IInv, Governed, Callers
<1>2. call \in CallType
  BY <1>1, CallsMade
<1>3. /\ callers' \in [Callers -> CallType] /\ callers'[w] = call
      /\ \A d \in Callers : d # w => callers'[d] = callers[d]
  <2>1. Becomes(w, call)
    BY DEF Claim
  <2> HIDE DEF call
  <2> QED
    BY <1>1, <1>2, <2>1, Becoming
<1>4. /\ inFlight' = inFlight /\ waiting' = waiting /\ gapIn' = gapIn /\ debt' = debt
      /\ floor' = floor /\ coolIn' = coolIn /\ refusals' = refusals /\ successes' = successes
      /\ refusing' = refusing /\ told' = told \ {w} /\ slotIn' = slotIn + floor * Credits[w]
  BY DEF Claim, client, Claimed
<1>5. Price(w) \in Nat \ {0} /\ floor * Credits[w] \in Nat /\ Price(w) <= floor * Credits[w]
  BY <1>1, Prices
<1>6. \A d \in People : callers'[d] = callers[d]
  BY <1>1, <1>3 DEF Callers
<1>7. Typed'
  <2>1. Governed'
    BY <1>1, <1>4, <1>5 DEF Governed
  <2>2. \A v \in Workers : callers'[v].pc \notin {"queued", "paced"}
    BY <1>1, <1>3, TypedParts DEF IInv, Callers
  <2> QED
    BY <1>3, <1>4, <1>6, <2>1, <2>2, TypedParts, TypedPartsNext DEF IInv
<1>8. Counted'
  BY <1>4, <1>6, ClientKept DEF IInv
<1>9. /\ callers'[w].left = slotIn
      /\ \A v \in Workers : First(v)' <=> (v = w \/ First(v))
      /\ \A v \in Workers : v # w => callers'[v] = callers[v]
  BY <1>1, <1>3 DEF First, Callers
<1>10. Spaced'
  <2>1. /\ \A v \in Workers : First(v) => debt <= callers[v].left /\ callers[v].left + Price(v) <= slotIn
        /\ \A v, u \in Workers : First(v) /\ First(u) /\ v # u =>
               callers[v].left + Price(v) <= callers[u].left \/ callers[u].left + Price(u) <= callers[v].left
        /\ debt <= slotIn
    BY DEF IInv, Spaced, PaidAt
  <2>2. slotIn + Price(w) <= slotIn' /\ slotIn <= slotIn' /\ slotIn' \in Nat /\ debt \in Nat
    BY <1>1, <1>4, <1>5 DEF Governed
  <2>3. \A v \in Workers : First(v) => callers[v].left \in Nat /\ Price(v) \in Nat
    BY <1>1, CallFacts, Prices DEF First, Callers
  <2>4. \A v \in Workers : First(v)' =>
           debt' <= callers'[v].left /\ callers'[v].left + Price(v) <= slotIn'
    BY <1>1, <1>4, <1>9, <2>1, <2>2, <2>3
  <2>5. \A v, u \in Workers : First(v)' /\ First(u)' /\ v # u =>
           callers'[v].left + Price(v) <= callers'[u].left \/ callers'[u].left + Price(u) <= callers'[v].left
    BY <1>1, <1>4, <1>9, <2>1, <2>2, <2>3
  <2>6. debt' <= slotIn'
    BY <1>1, <1>4, <2>1, <2>2
  <2> QED
    BY <2>4, <2>5, <2>6 DEF Spaced, PaidAt, Price
<1>11. OutOfCooldown'
  BY <1>4, <1>9 DEF OutOfCooldown, IInv
<1> QED
  BY <1>7, <1>8, <1>10, <1>11 DEF IInv

\* Waiting the cooldown out claims nothing.
LEMMA CoolDownKeeps ==
    ASSUME IInv, NEW w \in Workers, callers[w].pc \in {"idle", "cooling"}, CoolDown(w),
           UNCHANGED <<client, refusing, debt>>
    PROVE  IInv'
<1> DEFINE call == [pc |-> "cooling", left |-> coolIn]
<1>1. /\ Governed /\ callers \in [Callers -> CallType] /\ w \in Callers /\ w \notin People /\ coolIn \in Nat
  BY TypedParts, ConstantFacts DEF IInv, Governed, Callers
<1>2. call \in CallType
  BY <1>1, CallsMade
<1>3. /\ callers' \in [Callers -> CallType] /\ callers'[w] = call
      /\ \A d \in Callers : d # w => callers'[d] = callers[d]
  <2>1. Becomes(w, call)
    BY DEF CoolDown
  <2> HIDE DEF call
  <2> QED
    BY <1>1, <1>2, <2>1, Becoming
<1>4. /\ inFlight' = inFlight /\ waiting' = waiting /\ gapIn' = gapIn /\ debt' = debt
      /\ floor' = floor /\ coolIn' = coolIn /\ refusals' = refusals /\ successes' = successes
      /\ refusing' = refusing /\ told' = told /\ slotIn' = slotIn
  BY DEF CoolDown, client, governor
<1>5. /\ \A d \in People : callers'[d] = callers[d]
      /\ \A v \in Workers : callers'[v].pc = "slot" => callers'[v] = callers[v]
      /\ \A v \in Workers : v = w \/ callers'[v] = callers[v]
  BY <1>1, <1>3 DEF Callers
<1>6. Governed'
  BY <1>1, <1>4 DEF Governed
<1>7. Typed'
  BY <1>3, <1>4, <1>5, <1>6, TypedParts, TypedPartsNext DEF IInv
<1>8. Counted'
  BY <1>4, <1>5, ClientKept DEF IInv
<1>9. Spaced' /\ OutOfCooldown'
  BY <1>4, <1>5, SlotsKept, CooldownKept DEF IInv
<1> QED
  BY <1>7, <1>8, <1>9 DEF IInv

\* Sending for the first time, a worker takes up the time before everybody else's slot.
LEMMA SendsKeeps ==
    ASSUME IInv, NEW c \in Callers, Sends(c)
    PROVE  IInv'
<1> DEFINE call == [pc |-> "out", attempt |-> IF callers[c].pc = "backoff" THEN callers[c].attempt ELSE 0]
<1>1. /\ Governed /\ callers \in [Callers -> CallType] /\ MaxRetries \in Nat /\ Workers \cap People = {}
  BY TypedParts, ConstantFacts DEF IInv
<1>2. callers[c].pc \in {"slot", "paced", "backoff"} /\ callers[c].left = 0
  BY DEF Sends, Due
<1>3. call \in CallType /\ call.pc = "out"
  <2>1. (IF callers[c].pc = "backoff" THEN callers[c].attempt ELSE 0) \in 0 .. MaxRetries
    BY <1>1, CallFacts
  <2> QED
    BY <2>1, CallsMade
<1>4. /\ callers' \in [Callers -> CallType] /\ callers'[c].pc = "out"
      /\ \A d \in Callers : d # c => callers'[d] = callers[d]
  <2>1. Becomes(c, call)
    BY DEF Sends
  <2> HIDE DEF call
  <2> QED
    BY <1>1, <1>3, <2>1, Becoming
<1>5. /\ inFlight' = inFlight /\ waiting' = waiting /\ gapIn' = gapIn
      /\ floor' = floor /\ coolIn' = coolIn /\ refusals' = refusals /\ successes' = successes
      /\ refusing' = refusing /\ told' = told /\ slotIn' = slotIn
      /\ debt' = IF First(c) THEN debt + Base * Credits[c] ELSE debt
  BY DEF Sends, client, governor
<1>6. Counted'
  <2>1. \A d \in People : /\ callers'[d].pc \in {"paced", "out", "backoff"}
                                 <=> callers[d].pc \in {"paced", "out", "backoff"}
                          /\ callers'[d].pc = "queued" <=> callers[d].pc = "queued"
    <3>1. \A d \in People : d = c \/ callers'[d] = callers[d]
      BY <1>4 DEF Callers
    <3>2. c \in People => callers[c].pc \in {"paced", "backoff"}
      BY <1>2, TypedParts DEF IInv
    <3> QED
      BY <1>4, <3>1, <3>2
  <2> QED
    BY <1>5, <2>1, ClientKept DEF IInv
<1>7. \A w \in Workers : First(w)' <=> (w # c /\ First(w))
  BY <1>4 DEF First, Callers
<1>8. \A w \in Workers : w # c => callers'[w] = callers[w]
  BY <1>4 DEF Callers
<1>9. First(c) => c \in Workers /\ debt = 0
  <2> SUFFICES ASSUME First(c) PROVE c \in Workers /\ debt = 0
    OBVIOUS
  <2>1. c \in Workers
    BY TypedParts DEF IInv, First, Callers
  <2>2. debt <= 0
    BY <1>2, <2>1 DEF IInv, Spaced
  <2> QED
    BY <1>1, <2>1, <2>2 DEF Governed
<1>10. First(c) => debt' = Price(c) /\ Price(c) \in Nat \ {0}
  <2>1. First(c) => Price(c) \in Nat \ {0} /\ debt + Price(c) = Price(c)
    BY <1>9, Prices
  <2> QED
    BY <1>5, <2>1 DEF Price
<1>11. debt' \in Nat /\ slotIn \in Nat
  BY <1>1, <1>5, <1>10 DEF Governed
<1>12. Typed'
  <2>1. Governed'
    BY <1>1, <1>5, <1>11 DEF Governed
  <2>2. \A w \in Workers : callers'[w].pc \notin {"queued", "paced"}
    BY <1>4, TypedParts DEF IInv, Callers
  <2>3. \A d \in People : callers'[d].pc \notin {"cooling", "slot"}
    BY <1>4, TypedParts DEF IInv, Callers
  <2> QED
    BY <1>4, <1>5, <2>1, <2>2, <2>3, TypedParts, TypedPartsNext DEF IInv
<1>13. Spaced'
  <2>1. /\ \A v \in Workers : First(v) => debt <= callers[v].left /\ callers[v].left + Price(v) <= slotIn
        /\ \A v, u \in Workers : First(v) /\ First(u) /\ v # u =>
               callers[v].left + Price(v) <= callers[u].left \/ callers[u].left + Price(u) <= callers[v].left
        /\ debt <= slotIn
    BY DEF IInv, Spaced, PaidAt
  <2>2. \A v \in Workers : First(v) => callers[v].left \in Nat /\ Price(v) \in Nat \ {0}
    BY <1>1, CallFacts, Prices DEF First, Callers
  <2>3. debt' <= slotIn'
    BY <1>2, <1>5, <1>9, <1>10, <1>11, <2>1
  <2>4. ASSUME NEW v \in Workers, First(v)'
        PROVE  debt' <= callers'[v].left /\ callers'[v].left + Price(v) <= slotIn'
    <3>1. v # c /\ First(v) /\ callers'[v] = callers[v]
      BY <1>7, <1>8, <2>4
    <3>2. CASE First(c)
      <4>1. debt' = Price(c) /\ c \in Workers
        BY <1>9, <1>10, <3>2
      <4>2. 0 + Price(c) <= callers[v].left \/ callers[v].left + Price(v) <= 0
        BY <1>2, <2>1, <3>1, <3>2, <4>1
      <4>3. callers[v].left \in Nat /\ Price(v) \in Nat \ {0} /\ Price(c) \in Nat
        BY <1>10, <2>2, <3>1, <3>2
      <4>4. Price(c) <= callers[v].left
        BY <4>2, <4>3
      <4> QED
        BY <1>5, <2>1, <3>1, <4>1, <4>4
    <3>3. CASE ~First(c)
      BY <1>5, <2>1, <3>1, <3>3
    <3> QED
      BY <3>2, <3>3
  <2>5. \A v, u \in Workers : First(v)' /\ First(u)' /\ v # u =>
           callers'[v].left + Price(v) <= callers'[u].left \/ callers'[u].left + Price(u) <= callers'[v].left
    BY <1>7, <1>8, <2>1
  <2> QED
    BY <2>3, <2>4, <2>5 DEF Spaced, PaidAt, Price
<1>14. OutOfCooldown'
  BY <1>5, <1>7 DEF IInv, OutOfCooldown
<1> QED
  BY <1>6, <1>12, <1>13, <1>14 DEF IInv

\* A person's call takes a free slot or queues.
LEMMA PersonCallsKeeps ==
    ASSUME IInv, NEW c \in People, PersonCalls(c)
    PROVE  IInv'
<1>1. /\ Governed /\ callers \in [Callers -> CallType] /\ c \in Callers /\ c \notin Workers
      /\ gapIn \in Nat /\ inFlight \in 0 .. MaxConcurrent /\ waiting \in Seq(People)
      /\ MaxConcurrent \in Nat /\ MinInterval \in Nat
  BY TypedParts, ConstantFacts DEF IInv, Callers
<1>2. callers[c].pc = "idle"
  BY DEF PersonCalls, Busy, Idle
<1>3. /\ floor' = floor /\ coolIn' = coolIn /\ refusals' = refusals /\ successes' = successes
      /\ refusing' = refusing /\ told' = told /\ slotIn' = slotIn /\ debt' = debt
  BY DEF PersonCalls, governor, history
<1>4. /\ callers' \in [Callers -> CallType]
      /\ \A d \in Callers : d # c => callers'[d] = callers[d]
      /\ gapIn' \in Nat /\ inFlight' \in 0 .. MaxConcurrent /\ waiting' \in Seq(People)
      /\ callers'[c].pc \in {"paced", "queued"}
      /\ Counted'
  <2>1. CASE HasRoom
    <3> DEFINE call == [pc |-> "paced", left |-> gapIn]
    <3>1. call \in CallType /\ call.pc = "paced"
      BY <1>1, CallsMade
    <3>2. Becomes(c, call) /\ gapIn' = gapIn + MinInterval /\ inFlight' = inFlight + 1 /\ waiting' = waiting
      BY <2>1 DEF PersonCalls, Paced
    <3> HIDE DEF call
    <3>3. /\ callers' \in [Callers -> CallType] /\ callers'[c] = call
          /\ \A d \in Callers : d # c => callers'[d] = callers[d]
      BY <1>1, <3>1, <3>2, Becoming
    <3>4. Holding' = Holding \cup {c} /\ c \notin Holding
      BY <1>2, <3>1, <3>3 DEF Holding, Callers
    <3>5. IsFiniteSet(Holding') /\ Cardinality(Holding') = Cardinality(Holding) + 1
      BY <3>4, FS_AddElement DEF IInv, Counted
    <3>6. {d \in People : callers'[d].pc = "queued"} = {d \in People : callers[d].pc = "queued"}
      BY <1>2, <3>1, <3>3 DEF Callers
    <3>7. inFlight' \in 0 .. MaxConcurrent /\ gapIn' \in Nat /\ waiting = <<>>
      BY <1>1, <2>1, <3>2 DEF HasRoom, IInv, Counted
    <3>8. Counted'
      BY <3>2, <3>5, <3>6, <3>7 DEF IInv, Counted
    <3> QED
      BY <1>1, <3>1, <3>2, <3>3, <3>7, <3>8
  <2>2. CASE ~HasRoom
    <3> DEFINE call == [pc |-> "queued"]
    <3>1. call \in CallType /\ call.pc = "queued"
      BY CallsMade
    <3>2. Becomes(c, call) /\ gapIn' = gapIn /\ inFlight' = inFlight /\ waiting' = Append(waiting, c)
      BY <2>2 DEF PersonCalls
    <3> HIDE DEF call
    <3>3. /\ callers' \in [Callers -> CallType] /\ callers'[c] = call
          /\ \A d \in Callers : d # c => callers'[d] = callers[d]
      BY <1>1, <3>1, <3>2, Becoming
    <3>4. Holding' = Holding
      BY <1>2, <3>1, <3>3 DEF Holding, Callers
    <3>5. inFlight' = MaxConcurrent
      BY <1>1, <2>2, <3>2 DEF HasRoom
    <3>6. {d \in People : callers'[d].pc = "queued"} = {d \in People : callers[d].pc = "queued"} \cup {c}
      BY <3>1, <3>3 DEF Callers
    <3>7. /\ waiting' \in Seq(People) /\ Len(waiting') = Len(waiting) + 1 /\ Len(waiting) \in Nat
          /\ waiting'[Len(waiting) + 1] = c /\ \A i \in 1 .. Len(waiting) : waiting'[i] = waiting[i]
          /\ DOMAIN waiting = 1 .. Len(waiting) /\ DOMAIN waiting' = 1 .. Len(waiting) + 1
      BY <1>1, <3>2
    <3>8. c \notin {waiting[i] : i \in DOMAIN waiting}
      BY <1>2 DEF IInv, Counted
    <3>9. {waiting'[i] : i \in DOMAIN waiting'} = {waiting[i] : i \in DOMAIN waiting} \cup {c}
      BY <3>7
    <3>10. \A i, j \in DOMAIN waiting' : waiting'[i] = waiting'[j] => i = j
      BY <3>7, <3>8 DEF IInv, Counted
    <3>11. Counted'
      BY <3>2, <3>4, <3>5, <3>6, <3>9, <3>10 DEF IInv, Counted
    <3> QED
      BY <1>1, <3>1, <3>2, <3>3, <3>7, <3>11
  <2> QED
    BY <2>1, <2>2
<1>5. /\ \A w \in Workers : callers'[w] = callers[w]
      /\ \A d \in People : d = c \/ callers'[d] = callers[d]
  BY <1>1, <1>4 DEF Callers
<1>6. Governed'
  BY <1>1, <1>3 DEF Governed
<1>7. Typed'
  BY <1>4, <1>5, <1>6, TypedParts, TypedPartsNext DEF IInv
<1>8. Spaced' /\ OutOfCooldown'
  BY <1>3, <1>5, SlotsKept, CooldownKept DEF IInv
<1> QED
  BY <1>4, <1>7, <1>8 DEF IInv

\* What an answer does to the governor does not move the slots that are claimed.
LEMMA AfterAnswer ==
    ASSUME IInv, ClientAfter, Governed', slotIn' = slotIn, debt' = debt,
           \/ coolIn' = coolIn /\ told' = told
           \/ told' = {w \in Workers : First(w)}
    PROVE  IInv'
<1>1. Typed'
  BY TypedPartsNext DEF ClientAfter
<1>2. Spaced'
  BY SlotsKept DEF IInv, ClientAfter
<1>3. OutOfCooldown'
  <2>1. CASE coolIn' = coolIn /\ told' = told
    BY <2>1, CooldownKept DEF IInv, ClientAfter
  <2>2. CASE told' = {w \in Workers : First(w)}
    BY <2>2 DEF OutOfCooldown, First, ClientAfter
  <2> QED
    BY <2>1, <2>2
<1> QED
  BY <1>1, <1>2, <1>3 DEF IInv, ClientAfter

LEMMA AnsweredKeeps ==
    ASSUME IInv, NEW c \in Callers, Answered(c)
    PROVE  IInv'
<1>1. /\ Governed /\ Typed /\ Counted
      /\ Base \in Nat \ {0} /\ MaxFloor \in Nat /\ Base <= MaxFloor /\ MaxCooldown \in Nat
      /\ RetryAfters \subseteq Nat /\ RecoverAfter \in Nat \ {0}
  BY TypedParts, ConstantFacts DEF IInv
<1>2. CASE Served(c)
  <2>1. callers[c].pc = "out" /\ Ends(c)
    BY <1>2 DEF Served
  <2>2. /\ slotIn' = slotIn /\ coolIn' = coolIn /\ refusing' = refusing
        /\ debt' = debt /\ told' = told /\ refusals' = 0
    BY <1>2 DEF Served, history
  <2>3. successes' \in 0 .. (RecoverAfter - 1)
    <3>1. successes' = IF successes + 1 >= RecoverAfter THEN 0 ELSE successes + 1
      BY <1>2 DEF Served
    <3> QED
      BY <1>1, <3>1 DEF Governed
  <2>4. floor' \in Base .. MaxFloor
    <3>1. floor' = IF successes + 1 >= RecoverAfter THEN Most(Base, Narrowed(floor)) ELSE floor
      BY <1>2 DEF Served
    <3> QED
      BY <1>1, <3>1, Recovers DEF Governed
  <2>5. Governed'
    BY <1>1, <2>2, <2>3, <2>4 DEF Governed
  <2> QED
    BY <1>1, <2>1, <2>2, <2>5, EndsKeeps, AfterAnswer
<1>3. CASE Refused(c)
  <2> PICK after \in RetryAfters \cup {0} :
         LET pause == IF after > 0 THEN after ELSE Doubled(refusals)
         IN  /\ coolIn' = Most(coolIn, Least(pause, MaxCooldown))
             /\ Retry(c, after)
    BY <1>3 DEF Refused
  <2>1. callers[c].pc = "out" /\ after \in Nat /\ Retry(c, after)
    BY <1>1, <1>3 DEF Refused
  <2>2. /\ slotIn' = slotIn /\ refusing' = refusing /\ debt' = debt /\ successes' = 0
        /\ told' = {w \in Workers : First(w)}
        /\ floor' = Least(2 * floor, MaxFloor) /\ refusals' = Least(refusals + 1, MaxCooldown)
    BY <1>3 DEF Refused
  <2>3. coolIn' \in 0 .. MaxCooldown
    <3>1. (IF after > 0 THEN after ELSE Doubled(refusals)) \in Nat
      BY <1>1, <2>1, DoubledNat DEF Governed
    <3>2. coolIn' = Most(coolIn, Least(IF after > 0 THEN after ELSE Doubled(refusals), MaxCooldown))
      OBVIOUS
    <3> QED
      BY <1>1, <3>1, <3>2 DEF Governed, Most, Least
  <2>4. floor' \in Base .. MaxFloor /\ refusals' \in Nat /\ 0 \in 0 .. RecoverAfter - 1
    BY <1>1, <2>2 DEF Governed, Least
  <2>5. Governed'
    BY <1>1, <2>2, <2>3, <2>4 DEF Governed
  <2>6. ClientAfter
    BY <1>1, <2>1, RetryKeeps
  <2> QED
    BY <2>2, <2>5, <2>6, AfterAnswer
<1>4. CASE Unreached(c) \/ Fails(c)
  <2>1. ClientAfter
    BY <1>1, <1>4, RetryKeeps, EndsKeeps DEF Unreached, Fails
  <2>2. /\ floor' = floor /\ slotIn' = slotIn /\ coolIn' = coolIn /\ refusals' = refusals
        /\ successes' = successes /\ refusing' = refusing /\ debt' = debt /\ told' = told
    BY <1>4 DEF Unreached, Fails, governor, history
  <2>3. Governed'
    BY <1>1, <2>2 DEF Governed
  <2> QED
    BY <2>1, <2>2, <2>3, AfterAnswer
<1> QED
  BY <1>2, <1>3, <1>4 DEF Answered

LEMMA SoonerFacts ==
    ASSUME NEW n \in Nat
    PROVE  Sooner(n) \in Nat /\ Sooner(n) <= n /\ (n > 0 => Sooner(n) = n - 1)
BY DEF Sooner, Most

\* Time passes alike for whoever sleeps, for the next slot and for what is paid for.
LEMMA TickKeeps ==
    ASSUME IInv, Tick
    PROVE  IInv'
<1>1. Governed /\ callers \in [Callers -> CallType] /\ gapIn \in Nat
  BY TypedParts DEF IInv
<1>2. /\ slotIn' = Sooner(slotIn) /\ coolIn' = Sooner(coolIn) /\ gapIn' = Sooner(gapIn) /\ debt' = Sooner(debt)
      /\ floor' = floor /\ refusals' = refusals /\ successes' = successes /\ inFlight' = inFlight
      /\ waiting' = waiting /\ refusing' = refusing /\ told' = told
  BY DEF Tick
<1>3. \A c \in Callers : callers'[c] = IF Asleep(c) THEN [callers[c] EXCEPT !.left = @ - 1] ELSE callers[c]
  BY DEF Tick
<1>4. ASSUME NEW c \in Callers
      PROVE  /\ callers'[c] \in CallType /\ callers'[c].pc = callers[c].pc
             /\ Asleep(c) => callers[c].left \in Nat \ {0} /\ callers'[c].left = callers[c].left - 1
  <2>1. CASE Asleep(c)
    <3>1. callers[c].left \in Nat /\ callers[c].left # 0
      BY <1>1, <2>1, CallFacts DEF Asleep, Due, Tick
    <3>2. callers[c].left - 1 \in Nat
      BY <3>1
    <3>3. callers'[c] = [callers[c] EXCEPT !.left = callers[c].left - 1]
      BY <1>3, <2>1
    <3>4. callers[c] \in CallType /\ callers[c].pc \in {"cooling", "slot", "paced", "backoff"}
      BY <1>1, <2>1 DEF Asleep
    <3>5. CASE callers[c] \in [pc : {"cooling", "slot", "paced"}, left : Nat]
      BY <3>1, <3>2, <3>3, <3>5 DEF CallType
    <3>6. CASE callers[c] \in [pc : {"backoff"}, left : Nat, attempt : 0 .. MaxRetries]
      BY <3>1, <3>2, <3>3, <3>6 DEF CallType
    <3> QED
      BY <3>4, <3>5, <3>6 DEF CallType
  <2>2. CASE ~Asleep(c)
    BY <1>1, <1>3, <2>2
  <2> QED
    BY <2>1, <2>2
<1>5. callers' \in [Callers -> CallType]
  <2>1. callers' = [c \in Callers |-> callers'[c]]
    BY DEF Tick
  <2> QED
    BY <1>4, <2>1
<1>6. /\ slotIn \in Nat /\ coolIn \in 0 .. MaxCooldown /\ debt \in Nat /\ MaxCooldown \in Nat
      /\ slotIn' \in Nat /\ gapIn' \in Nat /\ debt' \in Nat /\ debt' <= debt
  BY <1>1, <1>2, SoonerFacts, ConstantFacts DEF Governed
<1>7. coolIn' \in 0 .. MaxCooldown /\ (coolIn = 0 => coolIn' = 0)
  BY <1>2, <1>6 DEF Sooner, Most
<1>8. Typed'
  <2>1. Governed'
    BY <1>1, <1>2, <1>6, <1>7 DEF Governed
  <2> QED
    BY <1>2, <1>4, <1>5, <1>6, <2>1, TypedParts, TypedPartsNext DEF IInv, Callers
<1>9. Counted'
  <2>1. \A c \in People : callers'[c].pc = callers[c].pc
    BY <1>4 DEF Callers
  <2> QED
    BY <1>2, <2>1, ClientKept DEF IInv
<1>10. \A w \in Workers : First(w)' <=> First(w)
  BY <1>4 DEF First, Callers
<1>11. \A w \in Workers : First(w) =>
          callers[w].left \in Nat \ {0} /\ callers'[w].left = callers[w].left - 1 /\ Price(w) \in Nat \ {0}
  BY <1>4, Prices DEF First, Asleep, Callers
<1>12. Spaced'
  <2>1. /\ \A v \in Workers : First(v) => debt <= callers[v].left /\ callers[v].left + Price(v) <= slotIn
        /\ \A v, u \in Workers : First(v) /\ First(u) /\ v # u =>
               callers[v].left + Price(v) <= callers[u].left \/ callers[u].left + Price(u) <= callers[v].left
        /\ debt <= slotIn
    BY DEF IInv, Spaced, PaidAt
  <2>2. debt' <= slotIn'
    BY <1>2, <1>6, <2>1 DEF Sooner, Most
  <2>3. ASSUME NEW v \in Workers, First(v)
        PROVE  debt' <= callers'[v].left /\ callers'[v].left + Price(v) <= slotIn'
    <3>1. callers[v].left \in Nat \ {0} /\ callers'[v].left = callers[v].left - 1 /\ Price(v) \in Nat \ {0}
      BY <1>11, <2>3
    <3>2. debt <= callers[v].left /\ callers[v].left + Price(v) <= slotIn
      BY <2>1, <2>3
    <3>3. slotIn' = slotIn - 1
      BY <1>2, <1>6, <3>1, <3>2 DEF Sooner, Most
    <3>4. debt' = IF debt - 1 > 0 THEN debt - 1 ELSE 0
      BY <1>2, <1>6 DEF Sooner, Most
    <3> QED
      BY <1>6, <3>1, <3>2, <3>3, <3>4
  <2>4. ASSUME NEW v \in Workers, NEW u \in Workers, First(v), First(u), v # u
        PROVE  callers'[v].left + Price(v) <= callers'[u].left \/ callers'[u].left + Price(u) <= callers'[v].left
    <3>1. callers[v].left + Price(v) <= callers[u].left \/ callers[u].left + Price(u) <= callers[v].left
      BY <2>1, <2>4
    <3> QED
      BY <1>11, <2>4, <3>1
  <2> QED
    BY <1>10, <2>2, <2>3, <2>4 DEF Spaced, PaidAt, Price
<1>13. OutOfCooldown'
  BY <1>2, <1>7, <1>10 DEF IInv, OutOfCooldown
<1> QED
  BY <1>8, <1>9, <1>12, <1>13 DEF IInv

LEMMA Preserved == IInv /\ [Next]_vars => IInv'
<1> SUFFICES ASSUME IInv, [Next]_vars PROVE IInv'
  OBVIOUS
<1>1. ASSUME NEW w \in Workers, WorkerCalls(w) PROVE IInv'
  <2>1. callers[w].pc = "idle" /\ UNCHANGED <<client, refusing, debt>>
    BY <1>1 DEF WorkerCalls, Busy, Idle
  <2> QED
    BY <1>1, <2>1, ClaimKeeps, CoolDownKeeps DEF WorkerCalls
<1>2. ASSUME NEW w \in Workers, CooldownEnds(w) PROVE IInv'
  <2>1. callers[w].pc = "cooling" /\ UNCHANGED <<client, refusing, debt>>
    BY <1>2 DEF CooldownEnds
  <2> QED
    BY <1>2, <2>1, ClaimKeeps, CoolDownKeeps DEF CooldownEnds, Cooled
<1>3. CASE EndpointChanges
  <2>1. /\ callers' = callers /\ inFlight' = inFlight /\ waiting' = waiting /\ gapIn' = gapIn
        /\ floor' = floor /\ slotIn' = slotIn /\ coolIn' = coolIn /\ refusals' = refusals
        /\ successes' = successes /\ debt' = debt /\ told' = told /\ refusing' = ~refusing
    BY <1>3 DEF EndpointChanges, governor, client, history
  <2>2. Governed'
    BY <2>1, TypedParts DEF IInv, Governed
  <2>3. Typed'
    BY <2>1, <2>2, TypedParts, TypedPartsNext DEF IInv
  <2>4. Counted'
    BY <2>1, ClientKept DEF IInv
  <2>5. Spaced' /\ OutOfCooldown'
    BY <2>1, SlotsKept, CooldownKept DEF IInv
  <2> QED
    BY <2>3, <2>4, <2>5 DEF IInv
<1>4. CASE UNCHANGED vars
  <2>1. /\ callers' = callers /\ inFlight' = inFlight /\ waiting' = waiting /\ gapIn' = gapIn
        /\ floor' = floor /\ slotIn' = slotIn /\ coolIn' = coolIn /\ refusals' = refusals
        /\ successes' = successes /\ debt' = debt /\ told' = told /\ refusing' = refusing
    BY <1>4 DEF vars, governor, client, history
  <2>2. Governed'
    BY <2>1, TypedParts DEF IInv, Governed
  <2>3. Typed'
    BY <2>1, <2>2, TypedParts, TypedPartsNext DEF IInv
  <2>4. Counted'
    BY <2>1, ClientKept DEF IInv
  <2>5. Spaced' /\ OutOfCooldown'
    BY <2>1, SlotsKept, CooldownKept DEF IInv
  <2> QED
    BY <2>3, <2>4, <2>5 DEF IInv
<1> QED
  BY <1>1, <1>2, <1>3, <1>4, PersonCallsKeeps, SendsKeeps, AnsweredKeeps, TickKeeps DEF Next

------------------------------------------------------------------------------
(***************************************************************************)
(* RPC budget: theorems                                                    *)
(***************************************************************************)

\* The invariant above holds of every behaviour.
THEOREM Invariance == Spec => []IInv
<1>1. Init => IInv
  BY Initially
<1>2. IInv /\ [Next]_vars => IInv'
  BY Preserved
<1> QED
  BY <1>1, <1>2, PTL DEF Spec

\* The shared client (rpc.ts:172-194) never has more calls in flight than its ceiling, counts
\* them exactly, and lets nobody queue below it, for any number of people and any ceiling.
THEOREM CeilingIsHeld == Spec => []CeilingHeld
<1>1. IInv => CeilingHeld
  <2> SUFFICES ASSUME IInv PROVE CeilingHeld
    OBVIOUS
  <2>1. inFlight \in 0 .. MaxConcurrent /\ MaxConcurrent \in Nat
    BY ConstantFacts DEF IInv, Typed
  <2> QED
    BY <2>1 DEF IInv, Typed, Counted, CeilingHeld
<1> QED
  BY <1>1, Invariance, PTL

\* A worker's first attempt (governor.ts:177-206) leaves only when all that left before is
\* paid for at the rate of the plan, and only out of a cooldown it had not yet been told of,
\* for any workers, any prices and any history of refusals.
THEOREM BudgetIsKept == Spec => BudgetKept
<1>1. IInv /\ [Next]_vars =>
         [\A w \in Workers : First(w) /\ Sends(w) => debt = 0 /\ (coolIn = 0 \/ w \in told)]_vars
  <2> SUFFICES ASSUME IInv, NEW w \in Workers, First(w), Sends(w)
               PROVE  debt = 0 /\ (coolIn = 0 \/ w \in told)
    OBVIOUS
  <2>1. callers[w].left = 0 /\ debt \in Nat
    BY TypedParts DEF IInv, Governed, Sends, Due
  <2>2. debt <= 0
    BY <2>1 DEF IInv, Spaced
  <2>3. coolIn = 0 \/ w \in told
    BY DEF IInv, OutOfCooldown
  <2> QED
    BY <2>1, <2>2, <2>3
<1> QED
  BY <1>1, Invariance, PTL DEF Spec, BudgetKept

------------------------------------------------------------------------------
(***************************************************************************)
(* Pushed prices: the inductive invariant                                  *)
(***************************************************************************)

AddressesOf(m) == Vaults(m) \cup {Curve(m)}
Restings == {Resting}
Reads == [pc : {"read", "pool"}, mint : Mints, todo : SUBSET Mints]
Answers == [pc : {"apply"}, mint : Mints, todo : SUBSET Mints, found : SUBSET Addresses, swap : Nat \ {0}]

StreamTyped ==
    /\ viewed \subseteq Mints /\ graduated \subseteq Mints /\ swaps \in [Mints -> 1 .. SwapBound]
    /\ DOMAIN watching \subseteq Mints /\ DOMAIN reserves \subseteq Mints /\ DOMAIN latest \subseteq Mints
    /\ passes \in [Passes -> Restings \cup Reads \cup Answers]
    /\ \A p \in Passes : passes[p].pc = "apply" => passes[p].found \subseteq AddressesOf(passes[p].mint)
    /\ views \in 0 .. ViewBound /\ faults \in 0 .. FaultBound

\* A slot that is known is that of the swap that left the reserve; without any, both sides
\* are of one read.
ReserveTypes == [sol : Nat, token : Nat, solSlot : Nat, tokenSlot : Nat, offset : BOOLEAN]
OfItsSwap(held) ==
    /\ held \in ReserveTypes
    /\ held.solSlot > 0 => held.sol = held.solSlot
    /\ held.tokenSlot > 0 => held.token = held.tokenSlot
    /\ held.solSlot = 0 /\ held.tokenSlot = 0 => held.sol = held.token

ReservesHold ==
    /\ \A m \in DOMAIN watching : watching[m] # {} => m \in DOMAIN reserves
    /\ \A m \in DOMAIN reserves : OfItsSwap(reserves[m]) /\ (reserves[m].offset \/ m \in dropped)

\* A pass under way holds the claim of its mint, and alone, unless the mint was dropped.
Resolves(p, m) == passes[p] # Resting /\ passes[p].mint = m
ClaimsHold ==
    \A p \in Passes, m \in Mints : Resolves(p, m) /\ m \notin dropped =>
        /\ m \in DOMAIN watching /\ watching[m] = {}
        /\ \A q \in Passes : Resolves(q, m) => p = q

\* What travels between the client and the node.
RequestIds == [address : Addresses, n : Nat]
Subscribes == [kind : {"subscribe"}, id : RequestIds]
Unsubscribes == [kind : {"unsubscribe"}, sub : Nat]
NodeMessages == Subscribes \cup Unsubscribes
Replies == [kind : {"reply"}, id : RequestIds, sub : Nat]
Updates == [kind : {"update"}, sub : Nat, address : Addresses, swap : Nat \ {0}, complete : BOOLEAN]
ClientMessages == Replies \cup Updates

WireTyped ==
    /\ open \in BOOLEAN
    /\ wanted \subseteq Addresses /\ refused \subseteq Addresses
    /\ pending \subseteq RequestIds /\ IsFiniteSet(pending)
    /\ DOMAIN live \subseteq Nat /\ \A sub \in DOMAIN live : live[sub] \in Addresses
    /\ toNode \in Seq(NodeMessages) /\ toClient \in Seq(ClientMessages)
    /\ DOMAIN node \subseteq Nat /\ IsFiniteSet(DOMAIN node)
    /\ \A sub \in DOMAIN node : node[sub] \in Addresses
    /\ ~open => toNode = <<>> /\ toClient = <<>> /\ node = None

\* On an open socket each wanted address is pending or live, once, and nothing else is.
AskedOnce ==
    open =>
        /\ \A id \in pending : id.address \in wanted
        /\ \A sub \in DOMAIN live : live[sub] \in wanted
        /\ \A a \in wanted : \/ \E id \in pending : id.address = a
                             \/ \E sub \in DOMAIN live : live[sub] = a
        /\ \A id, other \in pending : id.address = other.address => id = other
        /\ \A sub, other \in DOMAIN live : live[sub] = live[other] => sub = other
        /\ \A id \in pending, sub \in DOMAIN live : id.address # live[sub]

Leaving(sub) == \E i \in DOMAIN toNode : toNode[i].kind = "unsubscribe" /\ toNode[i].sub = sub

\* The node knows a live subscription by the same address; an id that was let go of, or that
\* is on its way to the client, is not yet or no longer live; and no id names two addresses.
NodeAgrees ==
    open =>
        /\ \A sub \in DOMAIN live : sub \in DOMAIN node /\ live[sub] = node[sub] /\ ~Leaving(sub)
        /\ \A i \in DOMAIN toClient : toClient[i].kind = "reply" =>
              /\ toClient[i].sub \in DOMAIN node /\ node[toClient[i].sub] = toClient[i].id.address
              /\ toClient[i].sub \notin DOMAIN live /\ ~Leaving(toClient[i].sub)
              /\ \A j \in DOMAIN toClient :
                    toClient[j].kind = "reply" /\ toClient[j].sub = toClient[i].sub => i = j
        /\ \A i \in DOMAIN toClient : toClient[i].kind = "update" /\ toClient[i].sub \in DOMAIN node =>
              node[toClient[i].sub] = toClient[i].address

TablesHold ==
    StreamTyped /\ ReservesHold /\ ClaimsHold /\ PriceIsOfOneSwap /\ NothingWatchedUnowned
SocketHolds == WireTyped /\ AskedOnce /\ NodeAgrees
StreamInvariant == TablesHold /\ SocketHolds

(***************************************************************************)
(* Pushed prices: sequences, maps and addresses                            *)
(***************************************************************************)

LEMMA TailFacts ==
    ASSUME NEW S, NEW s \in Seq(S), s # <<>>
    PROVE  /\ Tail(s) \in Seq(S) /\ 1 \in DOMAIN s /\ Head(s) = s[1] /\ Head(s) \in S
           /\ \A i \in DOMAIN Tail(s) : i + 1 \in DOMAIN s /\ i + 1 # 1 /\ Tail(s)[i] = s[i + 1]
           /\ DOMAIN Tail(s) \subseteq Nat
<1>1. /\ Tail(s) \in Seq(S) /\ Len(Tail(s)) = Len(s) - 1 /\ Head(s) = s[1] /\ Head(s) \in S
      /\ \A i \in 1 .. Len(s) - 1 : Tail(s)[i] = s[i + 1]
  BY HeadTailProperties
<1>2. /\ Len(s) \in Nat /\ Len(s) # 0 /\ DOMAIN s = 1 .. Len(s)
      /\ DOMAIN Tail(s) = 1 .. Len(Tail(s))
  BY <1>1, EmptySeq
<1> QED
  BY ONLY <1>1, <1>2

LEMMA AppendFacts ==
    ASSUME NEW S, NEW s \in Seq(S), NEW e \in S
    PROVE  /\ Append(s, e) \in Seq(S)
           /\ \A i \in DOMAIN Append(s, e) : \/ i \in DOMAIN s /\ Append(s, e)[i] = s[i]
                                             \/ i = Len(s) + 1 /\ Append(s, e)[i] = e
<1>1. /\ Append(s, e) \in Seq(S) /\ Len(Append(s, e)) = Len(s) + 1
      /\ \A i \in 1 .. Len(s) : Append(s, e)[i] = s[i]
      /\ Append(s, e)[Len(s) + 1] = e
  BY AppendProperties
<1>2. /\ Len(s) \in Nat /\ DOMAIN s = 1 .. Len(s)
      /\ DOMAIN Append(s, e) = 1 .. Len(Append(s, e))
  BY <1>1
<1> QED
  BY ONLY <1>1, <1>2

LEMMA ConcatFacts ==
    ASSUME NEW S, NEW s \in Seq(S), NEW t \in Seq(S)
    PROVE  /\ s \o t \in Seq(S)
           /\ \A i \in DOMAIN (s \o t) : \/ i \in DOMAIN s /\ (s \o t)[i] = s[i]
                                         \/ \E j \in DOMAIN t : (s \o t)[i] = t[j]
           /\ \A i \in DOMAIN (s \o t) : i \notin DOMAIN s => \E j \in DOMAIN t : (s \o t)[i] = t[j]
<1>1. /\ s \o t \in Seq(S) /\ Len(s \o t) = Len(s) + Len(t)
      /\ \A i \in 1 .. Len(s) + Len(t) : (s \o t)[i] = IF i <= Len(s) THEN s[i] ELSE t[i - Len(s)]
  BY ConcatProperties
<1>2. /\ Len(s) \in Nat /\ DOMAIN s = 1 .. Len(s) /\ Len(t) \in Nat /\ DOMAIN t = 1 .. Len(t)
      /\ DOMAIN (s \o t) = 1 .. Len(s \o t)
  BY <1>1
<1>3. ASSUME NEW i \in DOMAIN (s \o t)
      PROVE  \/ i \in DOMAIN s /\ (s \o t)[i] = s[i]
             \/ i \notin DOMAIN s /\ i - Len(s) \in DOMAIN t /\ (s \o t)[i] = t[i - Len(s)]
  BY ONLY <1>1, <1>2, i \in DOMAIN (s \o t)
<1> QED
  BY <1>1, <1>3

LEMMA ListOfSet ==
    ASSUME NEW S, IsFiniteSet(S)
    PROVE  SetToSeq(S) \in Seq(S) /\ \A i \in DOMAIN SetToSeq(S) : SetToSeq(S)[i] \in S
<1> DEFINE n == Cardinality(S)
<1>1. n \in Nat /\ ExistsBijection(1 .. n, S)
  BY FS_CardinalityType
<1>2. \E f \in [1 .. n -> S] : IsInjective(f)
  BY <1>1 DEF ExistsBijection, Bijection, Injection, IsInjective
<1>3. SetToSeq(S) \in [1 .. n -> S]
  BY <1>2 DEF SetToSeq
<1> HIDE DEF n
<1>4. SetToSeq(S) \in Seq(S)
  BY ONLY <1>1, <1>3
<1> QED
  BY ONLY <1>3, <1>4

LEMMA PutFacts ==
    ASSUME NEW f, NEW k, NEW v
    PROVE  /\ DOMAIN Put(f, k, v) = DOMAIN f \cup {k} /\ Put(f, k, v)[k] = v
           /\ \A x \in DOMAIN f : x # k => Put(f, k, v)[x] = f[x]
BY DEF Put

LEMMA WithoutFacts ==
    ASSUME NEW f, NEW K
    PROVE  /\ DOMAIN Without(f, K) = DOMAIN f \ K
           /\ \A x \in DOMAIN f \ K : Without(f, K)[x] = f[x]
BY DEF Without, Restrict

LEMMA AddressFacts ==
    /\ \A a \in Addresses : a \in AddressesOf(a.mint) /\ a.mint \in Mints /\ a.side \in {"curve", "base", "quote"}
    /\ \A m \in Mints : /\ AddressesOf(m) \subseteq Addresses /\ AccountsOf(m) \subseteq AddressesOf(m)
                        /\ Vaults(m) \subseteq AddressesOf(m) /\ Curve(m) \in AddressesOf(m)
                        /\ \A a \in AddressesOf(m) : a.mint = m
<1>1. ASSUME NEW m \in Mints
      PROVE  /\ AccountsOf(m) \subseteq AddressesOf(m)
             /\ Vaults(m) \subseteq AddressesOf(m) /\ Curve(m) \in AddressesOf(m)
  BY DEF AddressesOf, AccountsOf
<1>2. ASSUME NEW m \in Mints, NEW a \in AddressesOf(m)
      PROVE  a.mint = m /\ a.side \in {"curve", "base", "quote"}
  <2>1. PICK s \in {"curve", "base", "quote"} : a = [mint |-> m, side |-> s]
    BY DEF AddressesOf, Vaults, Curve
  <2> QED
    BY <2>1
<1>3. \A a : a \in Addresses <=> \E m \in Mints : a \in AddressesOf(m)
  BY DEF Addresses, AddressesOf
<1>4. ASSUME NEW a \in Addresses
      PROVE  a \in AddressesOf(a.mint) /\ a.mint \in Mints /\ a.side \in {"curve", "base", "quote"}
  <2> PICK m \in Mints : a \in AddressesOf(m)
    BY <1>3
  <2> QED
    BY <1>2
<1> QED
  BY <1>1, <1>2, <1>3, <1>4

LEMMA AddressesFinite == IsFiniteSet(Addresses)
<1> DEFINE Sides == {"curve", "base", "quote"}
           T == Mints \X Sides
           f == [x \in T |-> [mint |-> x[1], side |-> x[2]]]
<1>1. IsFiniteSet(Sides)
  <2>1. IsFiniteSet({"curve"})
    BY FS_Singleton
  <2>2. IsFiniteSet({"curve"} \cup {"base"})
    BY ONLY <2>1, FS_AddElement
  <2>3. IsFiniteSet({"curve"} \cup {"base"} \cup {"quote"})
    BY ONLY <2>2, FS_AddElement
  <2>4. Sides = {"curve"} \cup {"base"} \cup {"quote"}
    OBVIOUS
  <2> QED
    BY ONLY <2>3, <2>4
<1>2. IsFiniteSet(T)
  BY <1>1, FS_Product, StreamAssumption
<1>3. \A x \in T : f[x] \in Addresses
  <2> SUFFICES ASSUME NEW m \in Mints, NEW s \in Sides PROVE [mint |-> m, side |-> s] \in Addresses
    OBVIOUS
  <2>1. [mint |-> m, side |-> s] \in AddressesOf(m)
    BY DEF AddressesOf, Vaults, Curve
  <2> QED
    BY <2>1, AddressFacts
<1>4. \A a \in Addresses : \E x \in T : f[x] = a
  <2> SUFFICES ASSUME NEW a \in Addresses PROVE \E x \in T : f[x] = a
    OBVIOUS
  <2> PICK m \in Mints : a \in AddressesOf(m)
    BY AddressFacts
  <2>1. PICK s \in Sides : a = [mint |-> m, side |-> s]
    BY DEF AddressesOf, Vaults, Curve
  <2>2. <<m, s>> \in T /\ f[<<m, s>>] = a
    BY <2>1
  <2> QED
    BY <2>2
<1> HIDE DEF T, f
<1> QED
  BY ONLY <1>2, <1>3, <1>4, ImageNoLarger

LEMMA LowestIsFree ==
    ASSUME NEW used, IsFiniteSet(used)
    PROVE  Lowest(used) \in Nat /\ Lowest(used) \notin used
<1> DEFINE n == Cardinality(used)
<1>1. n \in Nat
  BY FS_CardinalityType
<1>2. \E i \in 1 .. n + 1 : i \notin used
  <2> SUFFICES ASSUME 1 .. n + 1 \subseteq used PROVE FALSE
    OBVIOUS
  <2>1. Cardinality(1 .. n + 1) <= n
    BY FS_Subset
  <2> HIDE DEF n
  <2>2. n + 1 \in Int /\ 1 \in Int /\ n + 1 >= 1 /\ n + 1 - 1 + 1 = n + 1
    BY ONLY <1>1
  <2>3. Cardinality(1 .. n + 1) = n + 1
    <3>1. Cardinality(1 .. n + 1) = IF 1 > n + 1 THEN 0 ELSE (n + 1) - 1 + 1
      BY ONLY <2>2, FS_Interval
    <3> QED
      BY ONLY <3>1, <1>1
  <2> QED
    BY ONLY <1>1, <2>1, <2>3
<1>3. Lowest(used) \in 1 .. n + 1 /\ Lowest(used) \notin used
  BY <1>2 DEF Lowest
<1> HIDE DEF n
<1> QED
  BY ONLY <1>1, <1>3

(***************************************************************************)
(* Pushed prices: the tables                                               *)
(***************************************************************************)

\* A step that leaves the tables of the reconciler alone.
LEMMA TablesKept ==
    ASSUME TablesHold, UNCHANGED <<tables, wanted>>,
           viewed' \subseteq Mints, graduated' \subseteq Mints, swaps' \in [Mints -> 1 .. SwapBound],
           views' \in 0 .. ViewBound, faults' \in 0 .. FaultBound
    PROVE  TablesHold'
<1>1. UNCHANGED <<watching, accounts, reserves, latest, passes, dropped, wanted>>
  BY DEF tables
<1>2. \A p, m : Resolves(p, m)' = Resolves(p, m)
  BY <1>1 DEF Resolves
<1>3. \A m : WatchedFor(m)' = WatchedFor(m)
  BY <1>1 DEF WatchedFor
<1>4. StreamTyped'
  BY <1>1 DEF TablesHold, StreamTyped, Restings, Reads, Answers, Addresses, AddressesOf, Vaults, Curve
<1>5. ReservesHold' /\ PriceIsOfOneSwap'
  BY <1>1 DEF TablesHold, ReservesHold, OfItsSwap, ReserveTypes, PriceIsOfOneSwap
<1>6. ClaimsHold'
  BY <1>1, <1>2 DEF TablesHold, ClaimsHold
<1>7. NothingWatchedUnowned'
  BY <1>1, <1>3 DEF TablesHold, NothingWatchedUnowned
<1> QED
  BY <1>4, <1>5, <1>6, <1>7 DEF TablesHold

\* A pass goes on to its next claim, or rests.
LEMMA NextClaim ==
    ASSUME TablesHold, NEW p \in Passes, NEW todo \in SUBSET Mints, NEW w, DOMAIN w \subseteq Mints,
           Onwards(p, todo, w),
           \A q \in Passes \ {p}, m \in Mints : Resolves(q, m) /\ m \notin dropped' =>
               /\ m \in DOMAIN w /\ w[m] = {}
               /\ \A r \in Passes \ {p} : Resolves(r, m) => q = r
    PROVE  /\ passes' \in [Passes -> Restings \cup Reads \cup Answers]
           /\ \A q \in Passes : passes'[q].pc = "apply" => q # p /\ passes'[q] = passes[q]
           /\ DOMAIN watching' \subseteq Mints
           /\ \A m \in DOMAIN w : m \in DOMAIN watching' /\ watching'[m] = w[m]
           /\ \A m \in DOMAIN watching' : watching'[m] # {} => m \in DOMAIN w
           /\ ClaimsHold'
<1>0. PICK claim \in SUBSET Mints :
          /\ DOMAIN watching' = DOMAIN w \cup claim /\ claim \cap DOMAIN w = {}
          /\ \A m \in DOMAIN w : watching'[m] = w[m]
          /\ \A m \in claim : watching'[m] = {}
          /\ \E pass : /\ passes' = [passes EXCEPT ![p] = pass]
                       /\ \/ pass = Resting
                          \/ \E m \in claim : pass = [pc |-> "read", mint |-> m, todo |-> todo \ {m}]
  <2>1. CASE todo \subseteq DOMAIN w
    <3>1. passes' = [passes EXCEPT ![p] = Resting] /\ watching' = w
      BY <2>1 DEF Onwards
    <3> QED
      BY <3>1
  <2>2. CASE ~(todo \subseteq DOMAIN w)
    <3>1. PICK m \in todo \ DOMAIN w :
              /\ passes' = [passes EXCEPT ![p] = [pc |-> "read", mint |-> m, todo |-> todo \ {m}]]
              /\ watching' = ClaimedIn(w, m)
      BY <2>2 DEF Onwards
    <3>2. /\ DOMAIN watching' = DOMAIN w \cup {m} /\ watching'[m] = {}
          /\ \A x \in DOMAIN w : x # m => watching'[x] = w[x]
      <4>1. watching' = Put(w, m, {})
        BY <3>1 DEF ClaimedIn
      <4> QED
        BY ONLY <4>1 DEF Put
    <3>3. {m} \in SUBSET Mints /\ {m} \cap DOMAIN w = {}
      BY <3>1
    <3> QED
      BY <3>1, <3>2, <3>3
  <2> QED
    BY <2>1, <2>2
<1>1. PICK pass :
          /\ DOMAIN watching' = DOMAIN w \cup claim /\ claim \cap DOMAIN w = {}
          /\ \A m \in DOMAIN w : watching'[m] = w[m]
          /\ \A m \in claim : watching'[m] = {}
          /\ passes' = [passes EXCEPT ![p] = pass]
          /\ \/ pass = Resting
             \/ \E m \in claim : pass = [pc |-> "read", mint |-> m, todo |-> todo \ {m}]
  BY <1>0
<1>2. passes \in [Passes -> Restings \cup Reads \cup Answers]
  BY DEF TablesHold, StreamTyped
<1>3. /\ pass \in Restings \cup Reads \cup Answers /\ pass.pc \in {"rest", "read"}
      /\ pass # Resting => pass.mint \in claim
  BY <1>1 DEF Restings, Resting, Reads
<1>4. /\ passes' \in [Passes -> Restings \cup Reads \cup Answers]
      /\ passes'[p] = pass /\ \A q \in Passes \ {p} : passes'[q] = passes[q]
  <2> HIDE DEF Restings, Reads, Answers
  <2> QED
    BY ONLY <1>1, <1>2, <1>3, p \in Passes
<1>5. \A q \in Passes \ {p}, m \in Mints : Resolves(q, m)' <=> Resolves(q, m)
  BY <1>4 DEF Resolves
<1>6. \A m \in Mints : Resolves(p, m)' => m \in claim
  BY <1>3, <1>4 DEF Resolves
<1>7. ASSUME NEW q \in Passes, NEW m \in Mints, Resolves(q, m)', m \notin dropped'
      PROVE  /\ m \in DOMAIN watching' /\ watching'[m] = {}
             /\ \A r \in Passes : Resolves(r, m)' => q = r
  <2>1. CASE q = p
    <3>1. m \in claim
      BY <1>6, <1>7, <2>1
    <3>2. ASSUME NEW r \in Passes, Resolves(r, m)' PROVE r = p
      <4> SUFFICES ASSUME r # p PROVE FALSE
        OBVIOUS
      <4>1. m \in DOMAIN w
        BY <1>5, <1>7, <3>2
      <4> QED
        BY <1>1, <3>1, <4>1
    <3> QED
      BY <1>1, <2>1, <3>1, <3>2
  <2>2. CASE q # p
    <3>1. /\ m \in DOMAIN w /\ w[m] = {}
          /\ \A r \in Passes \ {p} : Resolves(r, m) => q = r
      BY <1>5, <1>7, <2>2
    <3>2. ~Resolves(p, m)'
      BY <1>1, <1>6, <3>1
    <3> QED
      BY <1>1, <1>5, <3>1, <3>2
  <2> QED
    BY <2>1, <2>2
<1>8. ClaimsHold'
  BY <1>7 DEF ClaimsHold
<1>9. \A q \in Passes : passes'[q].pc = "apply" => q # p /\ passes'[q] = passes[q]
  BY <1>3, <1>4
<1> QED
  BY <1>1, <1>4, <1>8, <1>9

\* A step of a pass up to its next await.
LEMMA PassMoves ==
    ASSUME TablesHold, NEW p \in Passes, NEW todo \in SUBSET Mints, NEW w, DOMAIN w \subseteq Mints,
           Onwards(p, todo, w), UNCHANGED <<viewed, graduated, swaps, views>>, faults' \in 0 .. FaultBound,
           \A q \in Passes \ {p}, m \in Mints : Resolves(q, m) /\ m \notin dropped' =>
               /\ m \in DOMAIN w /\ w[m] = {}
               /\ \A r \in Passes \ {p} : Resolves(r, m) => q = r,
           DOMAIN reserves' \subseteq Mints, DOMAIN latest' \subseteq Mints,
           \A m \in DOMAIN w : w[m] # {} => m \in DOMAIN reserves',
           \A m \in DOMAIN reserves' : OfItsSwap(reserves'[m]) /\ (reserves'[m].offset \/ m \in dropped'),
           PriceIsOfOneSwap', accounts' = wanted',
           \A a \in accounts' : a.mint \in dropped' \/ (a.mint \in DOMAIN w /\ a \in w[a.mint])
    PROVE  TablesHold'
<1>1. /\ passes' \in [Passes -> Restings \cup Reads \cup Answers]
      /\ \A q \in Passes : passes'[q].pc = "apply" => q # p /\ passes'[q] = passes[q]
      /\ DOMAIN watching' \subseteq Mints
      /\ \A m \in DOMAIN w : m \in DOMAIN watching' /\ watching'[m] = w[m]
      /\ \A m \in DOMAIN watching' : watching'[m] # {} => m \in DOMAIN w
      /\ ClaimsHold'
  BY NextClaim
<1>2. \A q \in Passes : passes'[q].pc = "apply" => passes'[q].found \subseteq AddressesOf(passes'[q].mint)
  BY <1>1 DEF TablesHold, StreamTyped
<1>3. StreamTyped'
  <2>1. /\ (Restings \cup Reads \cup Answers)' = Restings \cup Reads \cup Answers
        /\ \A m : AddressesOf(m)' = AddressesOf(m)
    BY DEF Restings, Reads, Answers, Addresses, AddressesOf, Vaults, Curve
  <2>2. viewed' \subseteq Mints /\ graduated' \subseteq Mints /\ swaps' \in [Mints -> 1 .. SwapBound]
        /\ views' \in 0 .. ViewBound
    BY DEF TablesHold, StreamTyped
  <2> QED
    BY <1>1, <1>2, <2>1, <2>2 DEF StreamTyped
<1>4. ReservesHold'
  <2>1. \A h : OfItsSwap(h)' = OfItsSwap(h)
    BY DEF OfItsSwap, ReserveTypes
  <2> QED
    BY <1>1, <2>1 DEF ReservesHold
<1>5. NothingWatchedUnowned'
  BY <1>1 DEF NothingWatchedUnowned, WatchedFor
<1> QED
  BY <1>1, <1>3, <1>4, <1>5 DEF TablesHold

LEMMA FaultBounded ==
    ASSUME Fault, faults \in 0 .. FaultBound
    PROVE  faults' \in 0 .. FaultBound
<1>1. faults < FaultBound /\ faults' = faults + 1 /\ FaultBound \in Nat
  BY StreamAssumption DEF Fault
<1> QED
  BY ONLY <1>1, faults \in 0 .. FaultBound

\* A published price is of one swap if the reserves are.
LEMMA PriceHolds ==
    ASSUME PriceIsOfOneSwap, DOMAIN latest \subseteq Mints, NEW m \in Mints, NEW held, OfItsSwap(held),
           held.offset \/ m \in dropped', latest' = Priced(m, held), dropped \subseteq dropped'
    PROVE  PriceIsOfOneSwap' /\ DOMAIN latest' \subseteq Mints
<1>1. CASE latest' = latest
  BY <1>1 DEF PriceIsOfOneSwap
<1>2. CASE /\ SameSlot(held)
           /\ latest' = Put(latest, m, [sol |-> held.sol, token |-> held.token, offset |-> held.offset])
  <2>1. held.sol = held.token
    <3>1. /\ held.solSlot \in Nat /\ held.tokenSlot \in Nat /\ held.solSlot = held.tokenSlot
          /\ held.solSlot > 0 => held.sol = held.solSlot
          /\ held.tokenSlot > 0 => held.token = held.tokenSlot
          /\ held.solSlot = 0 /\ held.tokenSlot = 0 => held.sol = held.token
      BY <1>2 DEF OfItsSwap, ReserveTypes, SameSlot
    <3> QED
      BY ONLY <3>1
  <2>2. /\ DOMAIN latest' = DOMAIN latest \cup {m}
        /\ latest'[m] = [sol |-> held.sol, token |-> held.token, offset |-> held.offset]
        /\ \A x \in DOMAIN latest : x # m => latest'[x] = latest[x]
    <3>1. latest' = Put(latest, m, [sol |-> held.sol, token |-> held.token, offset |-> held.offset])
      BY <1>2
    <3> QED
      BY ONLY <3>1 DEF Put
  <2>3. /\ latest'[m].sol = held.sol /\ latest'[m].token = held.token /\ latest'[m].offset = held.offset
    BY ONLY <2>2
  <2> QED
    BY <2>1, <2>2, <2>3 DEF PriceIsOfOneSwap
<1> QED
  BY <1>1, <1>2 DEF Priced

\* An update changes what is known of a mint that is watched, or was dropped.
LEMMA UpdateHolds ==
    ASSUME TablesHold, wanted \subseteq Addresses, NEW a, NEW swap \in Nat \ {0}, NEW complete,
           HandleUpdate(a, swap, complete),
           UNCHANGED <<people, chain, watching, accounts, passes, dropped, wanted, faults>>
    PROVE  TablesHold'
<1>1. CASE UNCHANGED <<reserves, latest>>
  BY <1>1, TablesKept DEF tables, people, chain, TablesHold, StreamTyped
<1>2. CASE ~UNCHANGED <<reserves, latest>>
  <2> DEFINE m == a.mint
             before == IF m \in DOMAIN reserves THEN reserves[m] ELSE Unread
  <2>1. a \in accounts /\ m \in Mints /\ a.side \in {"curve", "base", "quote"} /\ accounts = wanted
    BY <1>2, AddressFacts DEF HandleUpdate, TablesHold, NothingWatchedUnowned
  <2>2. OfItsSwap(before) /\ (before.offset \/ m \in dropped)
    <3>1. CASE m \in DOMAIN reserves
      BY <3>1 DEF TablesHold, ReservesHold
    <3>2. CASE m \notin DOMAIN reserves
      <4>1. OfItsSwap(Unread)
        BY DEF OfItsSwap, ReserveTypes, Unread
      <4>2. m \in dropped
        BY <2>1, <3>2 DEF TablesHold, NothingWatchedUnowned, WatchedFor, ReservesHold
      <4> QED
        BY <3>2, <4>1, <4>2
    <3> QED
      BY <3>1, <3>2
  <2>3. PICK held : /\ held \in {[sol |-> swap, token |-> swap, solSlot |-> swap, tokenSlot |-> swap, offset |-> TRUE],
                                 [before EXCEPT !.sol = swap, !.solSlot = swap],
                                 [before EXCEPT !.token = swap, !.tokenSlot = swap]}
                    /\ reserves' = Put(reserves, m, held) /\ latest' = Priced(m, held)
    BY <1>2, <2>1 DEF HandleUpdate
  <2> HIDE DEF before, m
  <2>4. OfItsSwap(held) /\ (held.offset \/ m \in dropped)
    <3>1. before \in ReserveTypes /\ swap \in Nat /\ swap > 0
      BY <2>2 DEF OfItsSwap
    <3>2. CASE held = [sol |-> swap, token |-> swap, solSlot |-> swap, tokenSlot |-> swap, offset |-> TRUE]
      BY ONLY <3>1, <3>2 DEF OfItsSwap, ReserveTypes
    <3>3. CASE held = [before EXCEPT !.sol = swap, !.solSlot = swap]
      BY ONLY <2>2, <3>1, <3>3 DEF OfItsSwap, ReserveTypes
    <3>4. CASE held = [before EXCEPT !.token = swap, !.tokenSlot = swap]
      BY ONLY <2>2, <3>1, <3>4 DEF OfItsSwap, ReserveTypes
    <3> QED
      BY <2>3, <3>2, <3>3, <3>4
  <2>5. /\ DOMAIN reserves' = DOMAIN reserves \cup {m} /\ reserves'[m] = held
        /\ \A x \in DOMAIN reserves : x # m => reserves'[x] = reserves[x]
    <3>1. reserves' = Put(reserves, m, held)
      BY <2>3
    <3> QED
      BY ONLY <3>1 DEF Put
  <2>6. m \in Mints
    BY <2>1 DEF m
  <2>7. DOMAIN reserves \subseteq Mints /\ DOMAIN latest \subseteq Mints /\ PriceIsOfOneSwap
    BY DEF TablesHold, StreamTyped
  <2>8. PriceIsOfOneSwap' /\ DOMAIN latest' \subseteq Mints
    BY ONLY <2>3, <2>4, <2>6, <2>7, PriceHolds, dropped' = dropped
  <2>9. UNCHANGED <<viewed, views, graduated, swaps, watching, accounts, passes, dropped, wanted, faults>>
    BY DEF people, chain
  <2>10. StreamTyped'
    <3>1. /\ (Restings \cup Reads \cup Answers)' = Restings \cup Reads \cup Answers
          /\ \A x : AddressesOf(x)' = AddressesOf(x)
      BY DEF Restings, Reads, Answers, Addresses, AddressesOf, Vaults, Curve
    <3> QED
      BY <2>5, <2>6, <2>7, <2>8, <2>9, <3>1 DEF TablesHold, StreamTyped
  <2>11. ReservesHold'
    <3>1. \A h : OfItsSwap(h)' = OfItsSwap(h)
      BY DEF OfItsSwap, ReserveTypes
    <3>2. /\ \A x \in DOMAIN watching : watching[x] # {} => x \in DOMAIN reserves
          /\ \A x \in DOMAIN reserves : OfItsSwap(reserves[x]) /\ (reserves[x].offset \/ x \in dropped)
      BY DEF TablesHold, ReservesHold
    <3> QED
      BY ONLY <2>4, <2>5, <2>9, <3>1, <3>2 DEF ReservesHold
  <2>12. ClaimsHold' /\ NothingWatchedUnowned'
    BY <2>9 DEF TablesHold, ClaimsHold, Resolves, NothingWatchedUnowned, WatchedFor
  <2> QED
    BY <2>8, <2>10, <2>11, <2>12 DEF TablesHold
<1> QED
  BY <1>1, <1>2

LEMMA PassFields ==
    ASSUME TablesHold, NEW p \in Passes
    PROVE  /\ passes \in [Passes -> Restings \cup Reads \cup Answers]
           /\ passes[p].pc \in {"rest", "read", "pool", "apply"}
           /\ passes[p].pc = "rest" => passes[p] = Resting
           /\ passes[p].pc # "rest" => /\ passes[p] # Resting
                                       /\ passes[p].mint \in Mints /\ passes[p].todo \subseteq Mints
           /\ passes[p].pc \in {"read", "pool"} => passes[p] \in Reads
           /\ passes[p].pc = "apply" => /\ passes[p].found \subseteq AddressesOf(passes[p].mint)
                                        /\ passes[p].swap \in Nat
<1>1. /\ passes \in [Passes -> Restings \cup Reads \cup Answers]
      /\ passes[p].pc = "apply" => passes[p].found \subseteq AddressesOf(passes[p].mint)
  BY DEF TablesHold, StreamTyped
<1>2. passes[p] \in Restings \/ passes[p] \in Reads \/ passes[p] \in Answers
  <2> HIDE DEF Restings, Reads, Answers
  <2> QED
    BY <1>1
<1>3. CASE passes[p] \in Restings
  BY <1>1, <1>3 DEF Restings, Resting
<1>4. CASE passes[p] \in Reads
  BY <1>1, <1>4 DEF Reads, Resting
<1>5. CASE passes[p] \in Answers
  BY <1>1, <1>5 DEF Answers, Resting
<1> QED
  BY <1>2, <1>3, <1>4, <1>5

\* A read of the chain: the claim and its mint stay as they are.
LEMMA ReadHolds ==
    ASSUME TablesHold, NEW p \in Passes, ReadsCurve(p) \/ ReadsPool(p)
    PROVE  TablesHold'
<1>1. /\ UNCHANGED <<viewed, views, graduated, swaps, watching, accounts, reserves, latest, dropped, wanted, faults>>
      /\ passes[p].pc \in {"read", "pool"}
  BY DEF ReadsCurve, ReadsPool, people, chain, subscription
<1> PICK pass \in Reads : pass = passes[p]
  BY <1>1, PassFields
<1>2. swaps \in [Mints -> 1 .. SwapBound] /\ passes \in [Passes -> Restings \cup Reads \cup Answers]
  BY DEF TablesHold, StreamTyped
<1>3. pass.mint \in Mints /\ pass.todo \subseteq Mints /\ swaps[pass.mint] \in Nat \ {0}
  BY <1>2 DEF Reads
<1>4. PICK next : /\ passes' = [passes EXCEPT ![p] = next]
                  /\ \/ next = [pass EXCEPT !.pc = "pool"]
                     \/ \E found \in {{Curve(pass.mint)}, Vaults(pass.mint)} :
                           next = [pc |-> "apply", mint |-> pass.mint, todo |-> pass.todo,
                                   found |-> found, swap |-> swaps[pass.mint]]
  <2>1. CASE passes' = [passes EXCEPT ![p].pc = "pool"]
    BY <2>1
  <2>2. CASE Resolved(p, {Curve(pass.mint)}) \/ Resolved(p, Vaults(pass.mint))
    BY <2>2 DEF Resolved
  <2> QED
    BY <2>1, <2>2 DEF ReadsCurve, ReadsPool
<1>5. /\ next \in Reads \cup Answers /\ next.mint = pass.mint /\ next # Resting
      /\ next.pc = "apply" => next.found \subseteq AddressesOf(next.mint)
  <2>1. CASE next = [pass EXCEPT !.pc = "pool"]
    <3>1. next \in Reads /\ next.mint = pass.mint /\ next.pc = "pool"
      BY <2>1 DEF Reads
    <3> QED
      BY <3>1 DEF Resting
  <2>2. CASE \E found \in {{Curve(pass.mint)}, Vaults(pass.mint)} :
                next = [pc |-> "apply", mint |-> pass.mint, todo |-> pass.todo,
                        found |-> found, swap |-> swaps[pass.mint]]
    <3>1. PICK found \in {{Curve(pass.mint)}, Vaults(pass.mint)} :
              next = [pc |-> "apply", mint |-> pass.mint, todo |-> pass.todo,
                      found |-> found, swap |-> swaps[pass.mint]]
      BY <2>2
    <3>2. found \subseteq AddressesOf(pass.mint) /\ AddressesOf(pass.mint) \subseteq Addresses
      BY <1>3, AddressFacts
    <3>3. next \in Answers
      BY <1>3, <3>1, <3>2 DEF Answers
    <3> QED
      BY <3>1, <3>2, <3>3 DEF Resting
  <2> QED
    BY <1>4, <2>1, <2>2
<1>6. /\ passes' \in [Passes -> Restings \cup Reads \cup Answers]
      /\ passes'[p] = next /\ \A q \in Passes \ {p} : passes'[q] = passes[q]
  <2> HIDE DEF Restings, Reads, Answers
  <2> QED
    BY ONLY <1>2, <1>4, <1>5, p \in Passes
<1>7. \A q \in Passes : \A m : Resolves(q, m)' = Resolves(q, m)
  <2>1. pass # Resting
    BY DEF Reads, Resting
  <2> QED
    BY <1>5, <1>6, <2>1 DEF Resolves
<1>8. StreamTyped'
  <2>1. /\ (Restings \cup Reads \cup Answers)' = Restings \cup Reads \cup Answers
        /\ \A m : AddressesOf(m)' = AddressesOf(m)
    BY DEF Restings, Reads, Answers, Addresses, AddressesOf, Vaults, Curve
  <2>2. \A q \in Passes : passes'[q].pc = "apply" => passes'[q].found \subseteq AddressesOf(passes'[q].mint)
    BY <1>5, <1>6, PassFields
  <2> QED
    BY <1>1, <1>6, <2>1, <2>2 DEF TablesHold, StreamTyped
<1>9. ClaimsHold'
  BY <1>1, <1>7 DEF TablesHold, ClaimsHold
<1>10. ReservesHold' /\ PriceIsOfOneSwap' /\ NothingWatchedUnowned'
  BY <1>1 DEF TablesHold, ReservesHold, OfItsSwap, ReserveTypes, PriceIsOfOneSwap,
              NothingWatchedUnowned, WatchedFor
<1> QED
  BY <1>8, <1>9, <1>10 DEF TablesHold

\* The claims of the other passes, when this one gives up or keeps its own.
LEMMA OtherClaims ==
    ASSUME TablesHold, NEW p \in Passes, passes[p] # Resting, passes[p].mint \in Mints,
           NEW q \in Passes \ {p}, NEW m \in Mints, Resolves(q, m), m \notin dropped
    PROVE  /\ m # passes[p].mint /\ m \in DOMAIN watching /\ watching[m] = {}
           /\ \A r \in Passes : Resolves(r, m) => q = r
BY DEF TablesHold, ClaimsHold, Resolves

LEMMA FailureHolds ==
    ASSUME TablesHold, NEW p \in Passes, ReadFails(p)
    PROVE  TablesHold'
<1>1. /\ UNCHANGED <<viewed, views, graduated, swaps, accounts, reserves, latest, dropped, wanted>>
      /\ passes[p].pc \in {"read", "pool"} /\ Fault
      /\ Onwards(p, passes[p].todo, GivenUp(watching, passes[p].mint))
  BY DEF ReadFails, people, chain, subscription
<1> PICK m \in Mints, todo \in SUBSET Mints : m = passes[p].mint /\ todo = passes[p].todo
  BY <1>1, PassFields
<1> PICK w : w = Without(watching, {m})
  OBVIOUS
<1>2. passes[p] # Resting /\ Onwards(p, todo, w)
  BY <1>1, PassFields DEF GivenUp
<1>3. DOMAIN w = DOMAIN watching \ {m} /\ \A x \in DOMAIN watching \ {m} : w[x] = watching[x]
  BY ONLY w = Without(watching, {m}) DEF Without, Restrict
<1>4. /\ DOMAIN watching \subseteq Mints /\ DOMAIN reserves \subseteq Mints /\ DOMAIN latest \subseteq Mints
      /\ faults' \in 0 .. FaultBound
  BY <1>1, FaultBounded DEF TablesHold, StreamTyped
<1>5. \A q \in Passes \ {p}, x \in Mints : Resolves(q, x) /\ x \notin dropped' =>
           /\ x \in DOMAIN w /\ w[x] = {}
           /\ \A r \in Passes \ {p} : Resolves(r, x) => q = r
  BY <1>1, <1>2, <1>3, OtherClaims
<1>6. /\ \A x \in DOMAIN w : w[x] # {} => x \in DOMAIN reserves'
      /\ \A x \in DOMAIN reserves' : OfItsSwap(reserves'[x]) /\ (reserves'[x].offset \/ x \in dropped')
      /\ PriceIsOfOneSwap' /\ accounts' = wanted'
  BY <1>1, <1>3 DEF TablesHold, ReservesHold, PriceIsOfOneSwap, NothingWatchedUnowned
<1>7. ASSUME NEW a \in accounts'
      PROVE  a.mint \in dropped' \/ (a.mint \in DOMAIN w /\ a \in w[a.mint])
  <2>1. a.mint \in dropped \/ (a.mint \in DOMAIN watching /\ a \in watching[a.mint])
    BY <1>1 DEF TablesHold, NothingWatchedUnowned, WatchedFor
  <2>2. a.mint = m => a.mint \in dropped
    BY <1>2, <2>1 DEF TablesHold, ClaimsHold, Resolves
  <2> QED
    BY <1>1, <1>3, <2>1, <2>2
<1>8. /\ DOMAIN w \subseteq Mints /\ DOMAIN reserves' \subseteq Mints /\ DOMAIN latest' \subseteq Mints
      /\ UNCHANGED <<viewed, graduated, swaps, views>>
  BY <1>1, <1>3, <1>4
<1> QED
  BY ONLY TablesHold, p \in Passes, todo \in SUBSET Mints, <1>2, <1>4, <1>5, <1>6, <1>7, <1>8, PassMoves

LEMMA ApplyHolds ==
    ASSUME TablesHold, NEW p \in Passes, Applies(p), wanted \subseteq Addresses
    PROVE  TablesHold'
<1>1. /\ UNCHANGED <<viewed, views, graduated, swaps, dropped, faults>> /\ passes[p].pc = "apply"
      /\ passes[p] # Resting
  BY PassFields DEF Applies, people, chain, Resting
<1> PICK m \in Mints, todo \in SUBSET Mints, found \in SUBSET AddressesOf(passes[p].mint), swap \in Nat :
        m = passes[p].mint /\ todo = passes[p].todo /\ found = passes[p].found /\ swap = passes[p].swap
  BY <1>1, PassFields
<1> DEFINE held == [sol |-> swap, token |-> swap, solSlot |-> 0, tokenSlot |-> 0, offset |-> TRUE]
<1>2. /\ reserves' = Put(reserves, m, held) /\ accounts' = accounts \cup found
      /\ latest' = Priced(m, held) /\ wanted' = wanted \cup found
      /\ Onwards(p, todo, Put(watching, m, found))
  BY DEF Applies, Watch
<1>3. OfItsSwap(held) /\ held.offset
  BY DEF OfItsSwap, ReserveTypes
<1> HIDE DEF held
<1>4. /\ DOMAIN reserves' = DOMAIN reserves \cup {m} /\ reserves'[m] = held
      /\ \A x \in DOMAIN reserves : x # m => reserves'[x] = reserves[x]
  BY ONLY <1>2 DEF Put
<1> PICK w : w = Put(watching, m, found)
  OBVIOUS
<1>5. /\ DOMAIN w = DOMAIN watching \cup {m} /\ w[m] = found
      /\ \A x \in DOMAIN watching : x # m => w[x] = watching[x]
  BY ONLY w = Put(watching, m, found) DEF Put
<1>6. /\ DOMAIN watching \subseteq Mints /\ DOMAIN reserves \subseteq Mints /\ DOMAIN latest \subseteq Mints
      /\ faults' \in 0 .. FaultBound /\ PriceIsOfOneSwap /\ accounts = wanted
  BY <1>1 DEF TablesHold, StreamTyped, NothingWatchedUnowned
<1>7. PriceIsOfOneSwap' /\ DOMAIN latest' \subseteq Mints
  BY <1>1, <1>2, <1>3, <1>6, PriceHolds
<1>8. \A q \in Passes \ {p}, x \in Mints : Resolves(q, x) /\ x \notin dropped' =>
           /\ x \in DOMAIN w /\ w[x] = {}
           /\ \A r \in Passes \ {p} : Resolves(r, x) => q = r
  BY <1>1, <1>5, OtherClaims
<1>9. /\ \A x \in DOMAIN w : w[x] # {} => x \in DOMAIN reserves'
      /\ \A x \in DOMAIN reserves' : OfItsSwap(reserves'[x]) /\ (reserves'[x].offset \/ x \in dropped')
  BY <1>1, <1>3, <1>4, <1>5 DEF TablesHold, ReservesHold
<1>10. ASSUME NEW a \in accounts'
       PROVE  a.mint \in dropped' \/ (a.mint \in DOMAIN w /\ a \in w[a.mint])
  <2>1. CASE a \in found
    <3>1. a.mint = m
      BY <2>1, AddressFacts
    <3> QED
      BY <1>5, <2>1, <3>1
  <2>2. CASE a \in accounts
    <3>1. a.mint \in dropped \/ (a.mint \in DOMAIN watching /\ a \in watching[a.mint])
      BY <2>2 DEF TablesHold, NothingWatchedUnowned, WatchedFor
    <3>2. a.mint = m => a.mint \in dropped
      BY <1>1, <3>1 DEF TablesHold, ClaimsHold, Resolves
    <3> QED
      BY <1>1, <1>5, <3>1, <3>2
  <2> QED
    BY <1>2, <2>1, <2>2
<1>11. Onwards(p, todo, w) /\ DOMAIN w \subseteq Mints /\ DOMAIN reserves' \subseteq Mints /\ accounts' = wanted'
  BY <1>2, <1>4, <1>5, <1>6
<1> QED
  BY <1>1, <1>6, <1>7, <1>8, <1>9, <1>10, <1>11, PassMoves

LEMMA StartHolds ==
    ASSUME TablesHold, NEW p \in Passes, StartPass(p)
    PROVE  TablesHold'
<1>1. UNCHANGED <<viewed, views, graduated, swaps, faults>> /\ passes[p] = Resting /\ viewed \subseteq Mints
  BY DEF StartPass, people, chain, TablesHold, StreamTyped
<1>2. PICK todo \in SUBSET Mints, unseen \in SUBSET DOMAIN watching :
          /\ Unwatch(UNION {watching[m] : m \in unseen})
          /\ accounts' = accounts \ UNION {watching[m] : m \in unseen}
          /\ reserves' = Without(reserves, unseen) /\ latest' = Without(latest, unseen)
          /\ dropped' = dropped \cup {m \in unseen : \E q \in Passes : passes[q] # Resting /\ passes[q].mint = m}
          /\ Onwards(p, todo, Without(watching, unseen))
  <2>1. PICK todo \in FirstOf(viewed) :
            LET unseen == DOMAIN watching \ todo
                gone == UNION {watching[m] : m \in unseen}
            IN  /\ Unwatch(gone) /\ accounts' = accounts \ gone
                /\ reserves' = Without(reserves, unseen) /\ latest' = Without(latest, unseen)
                /\ dropped' = dropped \cup {m \in unseen : \E q \in Passes : passes[q] # Resting /\ passes[q].mint = m}
                /\ Onwards(p, todo, Without(watching, unseen))
    BY DEF StartPass
  <2>2. todo \in SUBSET Mints
    BY <1>1, <2>1 DEF FirstOf
  <2> QED
    BY <2>1, <2>2
<1> PICK gone : gone = UNION {watching[m] : m \in unseen}
  OBVIOUS
<1> PICK w : w = Without(watching, unseen)
  OBVIOUS
<1>3. /\ DOMAIN w = DOMAIN watching \ unseen /\ \A m \in DOMAIN watching \ unseen : w[m] = watching[m]
      /\ DOMAIN reserves' = DOMAIN reserves \ unseen
      /\ \A m \in DOMAIN reserves \ unseen : reserves'[m] = reserves[m]
      /\ DOMAIN latest' = DOMAIN latest \ unseen
      /\ \A m \in DOMAIN latest \ unseen : latest'[m] = latest[m]
  BY <1>2, WithoutFacts
<1>4. \A m \in unseen : \A a \in watching[m] : a \in gone
  OBVIOUS
<1>5. wanted' = wanted \ gone /\ accounts' = accounts \ gone /\ accounts = wanted
  BY <1>2 DEF Unwatch, TablesHold, NothingWatchedUnowned
<1>6. /\ DOMAIN watching \subseteq Mints /\ DOMAIN reserves \subseteq Mints /\ DOMAIN latest \subseteq Mints
      /\ faults' \in 0 .. FaultBound
  BY <1>1 DEF TablesHold, StreamTyped
<1>7. dropped \subseteq dropped' /\ \A q \in Passes, m \in unseen : Resolves(q, m) => m \in dropped'
  BY <1>2 DEF Resolves
<1>8. \A q \in Passes \ {p}, m \in Mints : Resolves(q, m) /\ m \notin dropped' =>
           /\ m \in DOMAIN w /\ w[m] = {}
           /\ \A r \in Passes \ {p} : Resolves(r, m) => q = r
  BY <1>3, <1>7 DEF TablesHold, ClaimsHold
<1>9. /\ \A m \in DOMAIN w : w[m] # {} => m \in DOMAIN reserves'
      /\ \A m \in DOMAIN reserves' : OfItsSwap(reserves'[m]) /\ (reserves'[m].offset \/ m \in dropped')
      /\ PriceIsOfOneSwap'
  BY <1>3, <1>7 DEF TablesHold, ReservesHold, PriceIsOfOneSwap
<1>10. ASSUME NEW a \in accounts'
       PROVE  a.mint \in dropped' \/ (a.mint \in DOMAIN w /\ a \in w[a.mint])
  <2>1. a.mint \in dropped \/ (a.mint \in DOMAIN watching /\ a \in watching[a.mint])
    BY <1>5 DEF TablesHold, NothingWatchedUnowned, WatchedFor
  <2>2. a \notin gone
    BY <1>5
  <2> QED
    BY <1>3, <1>4, <1>7, <2>1, <2>2
<1> QED
  BY <1>1, <1>2, <1>3, <1>5, <1>6, <1>8, <1>9, <1>10, PassMoves

(***************************************************************************)
(* Pushed prices: what is on the wire                                      *)
(***************************************************************************)

LEMMA MessageFacts ==
    /\ \A x \in NodeMessages : /\ x.kind \in {"subscribe", "unsubscribe"}
                               /\ x.kind = "subscribe" => x.id \in RequestIds
                               /\ x.kind = "unsubscribe" => x.sub \in Nat
    /\ \A x \in ClientMessages : /\ x.kind \in {"reply", "update"} /\ x.sub \in Nat
                                 /\ x.kind = "reply" => x.id \in RequestIds
                                 /\ x.kind = "update" => x.swap \in Nat \ {0}
    /\ \A x \in RequestIds : x.address \in Addresses /\ x.n \in Nat
<1>1. \A x \in Subscribes : x.kind = "subscribe" /\ x.id \in RequestIds
  BY DEF Subscribes
<1>2. \A x \in Unsubscribes : x.kind = "unsubscribe" /\ x.sub \in Nat
  BY DEF Unsubscribes
<1>3. \A x \in Replies : x.kind = "reply" /\ x.id \in RequestIds /\ x.sub \in Nat
  BY DEF Replies
<1>4. \A x \in Updates : x.kind = "update" /\ x.sub \in Nat /\ x.swap \in Nat \ {0}
  BY DEF Updates
<1>5. \A x \in RequestIds : x.address \in Addresses /\ x.n \in Nat
  BY DEF RequestIds
<1> QED
  BY <1>1, <1>2, <1>3, <1>4, <1>5 DEF NodeMessages, ClientMessages

\* Requests for each of a set of addresses, once.
OneEach(ids, addresses) ==
    /\ ids \subseteq RequestIds /\ IsFiniteSet(ids)
    /\ \A id \in ids : id.address \in addresses
    /\ \A a \in addresses : \E id \in ids : id.address = a
    /\ \A id, other \in ids : id.address = other.address => id = other

LEMMA FiniteImage ==
    ASSUME NEW S, IsFiniteSet(S), NEW f
    PROVE  IsFiniteSet({f[x] : x \in S})
<1> DEFINE T == {f[x] : x \in S}
<1>1. (\A x \in S : f[x] \in T) /\ \A y \in T : \E x \in S : f[x] = y
  OBVIOUS
<1> HIDE DEF T
<1>2. IsFiniteSet(T)
  BY ONLY <1>1, IsFiniteSet(S), ImageNoLarger
<1> QED
  BY <1>2 DEF T

LEMMA AskEach ==
    ASSUME NEW A \in SUBSET Addresses, NEW f, \A a \in A : f[a] \in RequestIds /\ f[a].address = a,
           NEW ids, ids = {f[a] : a \in A}
    PROVE  OneEach(ids, A)
<1>1. IsFiniteSet(A)
  BY AddressesFinite, FS_Subset
<1>2. IsFiniteSet(ids)
  BY <1>1, FiniteImage
<1> QED
  BY <1>2 DEF OneEach

LEMMA IndexedFinite ==
    ASSUME NEW S, NEW s \in Seq(S), NEW J \in SUBSET DOMAIN s
    PROVE  IsFiniteSet(J)
<1>1. Len(s) \in Nat /\ DOMAIN s = 1 .. Len(s)
  BY LenProperties
<1>2. IsFiniteSet(1 .. Len(s))
  BY ONLY <1>1, 1 \in Int, Len(s) \in Int, FS_Interval
<1> QED
  BY <1>1, <1>2, FS_Subset

LEMMA InFlightFinite ==
    ASSUME WireTyped
    PROVE  IsFiniteSet(InFlight)
<1> DEFINE J == {j \in DOMAIN toNode : toNode[j].kind = "subscribe"}
           K == {j \in DOMAIN toClient : toClient[j].kind = "reply"}
           f == [i \in J |-> toNode[i].id]
           g == [i \in K |-> toClient[i].id]
<1>1. IsFiniteSet(J) /\ IsFiniteSet(K)
  BY IndexedFinite DEF WireTyped
<1>2. IsFiniteSet({f[i] : i \in J}) /\ IsFiniteSet({g[i] : i \in K})
  <2> HIDE DEF J, K, f, g
  <2> QED
    BY <1>1, FiniteImage
<1>3. {f[i] : i \in J} = {toNode[i].id : i \in J} /\ {g[i] : i \in K} = {toClient[i].id : i \in K}
  OBVIOUS
<1>4. IsFiniteSet(pending \cup {toNode[i].id : i \in J})
  BY <1>2, <1>3, FS_Union DEF WireTyped
<1>5. IsFiniteSet(pending \cup {toNode[i].id : i \in J} \cup {toClient[i].id : i \in K})
  BY <1>2, <1>3, <1>4, FS_Union
<1> QED
  BY <1>5 DEF InFlight

LEMMA NextIdFacts ==
    ASSUME WireTyped, NEW a \in Addresses
    PROVE  NextId(a) \in RequestIds /\ NextId(a).address = a
<1> DEFINE X == {x \in InFlight : x.address = a}
           f == [x \in X |-> x.n]
<1>1. IsFiniteSet(X)
  BY InFlightFinite, FS_Subset
<1>2. IsFiniteSet({f[x] : x \in X})
  <2> HIDE DEF X, f
  <2> QED
    BY <1>1, FiniteImage
<1>3. {f[x] : x \in X} = {id.n : id \in X}
  OBVIOUS
<1>4. Lowest({id.n : id \in X}) \in Nat
  BY <1>2, <1>3, LowestIsFree
<1> QED
  BY <1>4 DEF NextId, RequestIds

LEMMA SubscribeFacts ==
    ASSUME WireTyped, NEW A \in SUBSET Addresses
    PROVE  OneEach(Subscribe(A), A)
<1> DEFINE f == [a \in A |-> NextId(a)]
<1>1. \A a \in A : f[a] \in RequestIds /\ f[a].address = a
  BY NextIdFacts
<1>2. Subscribe(A) = {f[a] : a \in A}
  BY DEF Subscribe
<1> HIDE DEF f
<1> QED
  BY <1>1, <1>2, AskEach

LEMMA RequestsFacts ==
    ASSUME NEW ids, ids \subseteq RequestIds, IsFiniteSet(ids)
    PROVE  /\ Requests(ids) \in Seq(NodeMessages)
           /\ \A i \in DOMAIN Requests(ids) : Requests(ids)[i].kind = "subscribe"
           /\ ids = {} => Requests(ids) = <<>>
<1> DEFINE f == [id \in ids |-> [kind |-> "subscribe", id |-> id]]
           R == {[kind |-> "subscribe", id |-> id] : id \in ids}
<1>1. R = {f[id] : id \in ids}
  OBVIOUS
<1>2. IsFiniteSet({f[id] : id \in ids})
  <2> HIDE DEF f
  <2> QED
    BY FiniteImage
<1>3. R \subseteq NodeMessages /\ \A x \in R : x.kind = "subscribe"
  BY DEF NodeMessages, Subscribes
<1>4. Requests(ids) = SetToSeq(R)
  BY DEF Requests
<1>5. ids = {} => R = {}
  OBVIOUS
<1>6. IsFiniteSet(R)
  BY <1>1, <1>2
<1> HIDE DEF R, f
<1>7. SetToSeq(R) \in Seq(R) /\ \A i \in DOMAIN SetToSeq(R) : SetToSeq(R)[i] \in R
  BY ONLY <1>6, ListOfSet
<1>8. SetToSeq(R) \in Seq(NodeMessages)
  BY ONLY <1>3, <1>7, SeqMonotonic
<1>9. ASSUME R = {} PROVE SetToSeq(R) = <<>>
  <2>1. DOMAIN SetToSeq(R) = {}
    BY <1>7, <1>9
  <2>2. DOMAIN SetToSeq(R) = 1 .. Len(SetToSeq(R)) /\ Len(SetToSeq(R)) \in Nat
    BY ONLY <1>7, LenProperties
  <2>3. ~(SetToSeq(R) # <<>>)
    <3> SUFFICES ASSUME SetToSeq(R) # <<>> PROVE FALSE
      OBVIOUS
    <3>1. Len(SetToSeq(R)) \in Nat \ {0}
      BY ONLY <1>7, EmptySeq, SetToSeq(R) # <<>>
    <3> QED
      BY ONLY <2>1, <2>2, <3>1
  <2> QED
    BY <2>3
<1> QED
  BY ONLY <1>3, <1>4, <1>5, <1>7, <1>8, <1>9

(***************************************************************************)
(* Pushed prices: the subscription                                         *)
(***************************************************************************)

LEMMA WireSets ==
    /\ Addresses' = Addresses /\ RequestIds' = RequestIds
    /\ NodeMessages' = NodeMessages /\ ClientMessages' = ClientMessages
BY DEF Addresses, Vaults, Curve, RequestIds, NodeMessages, Subscribes, Unsubscribes, ClientMessages, Replies, Updates

\* A step that leaves the socket and the subscription alone.
LEMMA SocketKept ==
    ASSUME SocketHolds, UNCHANGED <<wanted, pending, live, open, toNode, toClient, node>>,
           refused' \subseteq Addresses
    PROVE  SocketHolds'
<1>1. WireTyped'
  BY WireSets DEF SocketHolds, WireTyped
<1>2. AskedOnce' /\ NodeAgrees'
  BY DEF SocketHolds, AskedOnce, NodeAgrees, Leaving
<1> QED
  BY <1>1, <1>2 DEF SocketHolds

\* More is wanted: what is new is asked for, once, on a socket that is open.
LEMMA WatchHolds ==
    ASSUME SocketHolds, NEW A \in SUBSET Addresses, Watch(A), UNCHANGED <<open, toClient, node, refused>>
    PROVE  SocketHolds'
<1> PICK new \in SUBSET Addresses : new = A \ wanted
  OBVIOUS
<1> PICK ids : ids = IF open THEN Subscribe(new) ELSE {}
  OBVIOUS
<1>1. /\ wanted' = wanted \cup A /\ pending' = pending \cup ids
      /\ toNode' = toNode \o Requests(ids) /\ live' = live
  BY DEF Watch
<1>2. /\ WireTyped /\ AskedOnce /\ NodeAgrees
      /\ toNode \in Seq(NodeMessages) /\ toClient \in Seq(ClientMessages)
      /\ pending \subseteq RequestIds /\ IsFiniteSet(pending) /\ open \in BOOLEAN
  BY DEF SocketHolds, WireTyped
<1>3. /\ ids \subseteq RequestIds /\ IsFiniteSet(ids)
      /\ open => OneEach(ids, new)
      /\ ~open => ids = {}
  BY <1>2, SubscribeFacts, FS_EmptySet DEF OneEach
<1>4. /\ Requests(ids) \in Seq(NodeMessages)
      /\ ids = {} => Requests(ids) = <<>>
      /\ \A i \in DOMAIN Requests(ids) : Requests(ids)[i].kind = "subscribe"
  BY <1>3, RequestsFacts
<1>5. /\ toNode' \in Seq(NodeMessages)
      /\ \A i \in DOMAIN toNode' : \/ i \in DOMAIN toNode /\ toNode'[i] = toNode[i]
                                   \/ toNode'[i].kind = "subscribe"
  <2> PICK s \in Seq(NodeMessages) : s = Requests(ids)
    BY <1>4
  <2>1. toNode' = toNode \o s /\ \A i \in DOMAIN s : s[i].kind = "subscribe"
    BY <1>1, <1>4
  <2>2. /\ toNode \o s \in Seq(NodeMessages)
        /\ \A i \in DOMAIN (toNode \o s) : \/ i \in DOMAIN toNode /\ (toNode \o s)[i] = toNode[i]
                                           \/ \E j \in DOMAIN s : (toNode \o s)[i] = s[j]
    BY ONLY <1>2, s \in Seq(NodeMessages), ConcatFacts
  <2> QED
    BY ONLY <2>1, <2>2
<1>6. \A sub : Leaving(sub)' => Leaving(sub)
  BY <1>5 DEF Leaving
<1>7. IsFiniteSet(pending') /\ pending' \subseteq RequestIds
  BY <1>1, <1>2, <1>3, FS_Union
<1>8. ~open => toNode' = <<>>
  <2> SUFFICES ASSUME ~open PROVE toNode' = <<>>
    OBVIOUS
  <2>1. toNode = <<>> /\ Requests(ids) = <<>>
    BY <1>2, <1>3, <1>4 DEF WireTyped
  <2> QED
    BY <1>1, <2>1
<1>9. WireTyped'
  BY <1>1, <1>2, <1>5, <1>7, <1>8, WireSets DEF WireTyped
<1>10. AskedOnce'
  <2> SUFFICES ASSUME open PROVE AskedOnce'
    BY DEF AskedOnce
  <2>1. /\ \A id \in pending : id.address \in wanted
        /\ \A sub \in DOMAIN live : live[sub] \in wanted
        /\ \A a \in wanted : \/ \E id \in pending : id.address = a
                             \/ \E sub \in DOMAIN live : live[sub] = a
        /\ \A id, other \in pending : id.address = other.address => id = other
        /\ \A sub, other \in DOMAIN live : live[sub] = live[other] => sub = other
        /\ \A id \in pending, sub \in DOMAIN live : id.address # live[sub]
    BY <1>2 DEF AskedOnce
  <2>2. /\ \A id \in ids : id.address \in A /\ id.address \notin wanted
        /\ \A a \in A \ wanted : \E id \in ids : id.address = a
        /\ \A id, other \in ids : id.address = other.address => id = other
    BY <1>3 DEF OneEach
  <2> QED
    BY ONLY <1>1, <2>1, <2>2 DEF AskedOnce
<1>11. NodeAgrees'
  BY <1>1, <1>2, <1>6 DEF NodeAgrees
<1> QED
  BY <1>9, <1>10, <1>11 DEF SocketHolds

\* Less is wanted: what is let go of is neither pending nor live.
LEMMA UnwatchHolds ==
    ASSUME SocketHolds, NEW A, Unwatch(A), UNCHANGED <<open, toClient, node, refused>>
    PROVE  SocketHolds'
<1> PICK gone : gone = A \cap wanted
  OBVIOUS
<1> PICK subs : subs = {sub \in DOMAIN live : live[sub] \in gone}
  OBVIOUS
<1> PICK leave : leave = {[kind |-> "unsubscribe", sub |-> sub] : sub \in subs}
  OBVIOUS
<1>1. /\ wanted' = wanted \ gone /\ live' = Without(live, subs)
      /\ pending' = {id \in pending : id.address \notin gone}
      /\ toNode' = IF open THEN toNode \o SetToSeq(leave) ELSE toNode
  BY DEF Unwatch
<1>2. /\ WireTyped /\ AskedOnce /\ NodeAgrees
      /\ toNode \in Seq(NodeMessages) /\ toClient \in Seq(ClientMessages)
      /\ pending \subseteq RequestIds /\ IsFiniteSet(pending) /\ open \in BOOLEAN
      /\ DOMAIN live \subseteq Nat
  BY DEF SocketHolds, WireTyped
<1>3. DOMAIN live' = DOMAIN live \ subs /\ \A sub \in DOMAIN live \ subs : live'[sub] = live[sub]
  <2>1. live' = Without(live, subs)
    BY <1>1
  <2> QED
    BY ONLY <2>1 DEF Without, Restrict
<1>4. ASSUME open
      PROVE  /\ SetToSeq(leave) \in Seq(NodeMessages)
             /\ \A i \in DOMAIN SetToSeq(leave) : SetToSeq(leave)[i] \in leave
  <2>1. IsFiniteSet(subs)
    <3>1. subs \subseteq DOMAIN node
      BY <1>2, <1>4 DEF NodeAgrees
    <3> QED
      BY <1>2, <3>1, FS_Subset DEF WireTyped
  <2>2. IsFiniteSet(leave)
    <3> DEFINE f == [sub \in subs |-> [kind |-> "unsubscribe", sub |-> sub]]
    <3>1. leave = {f[sub] : sub \in subs}
      OBVIOUS
    <3> HIDE DEF f
    <3> QED
      BY <2>1, <3>1, FiniteImage
  <2>3. leave \subseteq NodeMessages
    BY <1>2 DEF NodeMessages, Unsubscribes
  <2>4. SetToSeq(leave) \in Seq(leave) /\ \A i \in DOMAIN SetToSeq(leave) : SetToSeq(leave)[i] \in leave
    BY ONLY <2>2, ListOfSet
  <2> QED
    BY ONLY <2>3, <2>4, SeqMonotonic
<1>5. /\ toNode' \in Seq(NodeMessages)
      /\ \A i \in DOMAIN toNode' : \/ i \in DOMAIN toNode /\ toNode'[i] = toNode[i]
                                   \/ toNode'[i] \in leave
  <2>1. CASE open
    <3> PICK s : s = SetToSeq(leave)
      OBVIOUS
    <3>1. toNode' = toNode \o s /\ s \in Seq(NodeMessages) /\ \A i \in DOMAIN s : s[i] \in leave
      BY <1>1, <1>4, <2>1
    <3>2. /\ toNode \o s \in Seq(NodeMessages)
          /\ \A i \in DOMAIN (toNode \o s) : \/ i \in DOMAIN toNode /\ (toNode \o s)[i] = toNode[i]
                                             \/ \E j \in DOMAIN s : (toNode \o s)[i] = s[j]
      BY ONLY <1>2, <3>1, ConcatFacts
    <3> QED
      BY ONLY <3>1, <3>2
  <2>2. CASE ~open
    BY <1>1, <1>2, <2>2
  <2> QED
    BY <2>1, <2>2
<1>6. \A sub : Leaving(sub)' => Leaving(sub) \/ sub \in subs
  <2>1. \A x \in leave : x.sub \in subs
    OBVIOUS
  <2> QED
    BY <1>5, <2>1 DEF Leaving
<1>7. IsFiniteSet(pending') /\ pending' \subseteq RequestIds
  BY <1>1, <1>2, FS_Subset
<1>8. WireTyped'
  <2>1. ~open => toNode' = <<>>
    BY <1>1, <1>2 DEF WireTyped
  <2>2. wanted' \subseteq Addresses /\ DOMAIN live' \subseteq Nat /\ \A sub \in DOMAIN live' : live'[sub] \in Addresses
    BY <1>1, <1>2, <1>3 DEF WireTyped
  <2> QED
    BY <1>2, <1>5, <1>7, <2>1, <2>2, WireSets DEF WireTyped
<1>9. AskedOnce'
  <2> SUFFICES ASSUME open PROVE AskedOnce'
    BY DEF AskedOnce
  <2>1. /\ \A id \in pending : id.address \in wanted
        /\ \A sub \in DOMAIN live : live[sub] \in wanted
        /\ \A a \in wanted : \/ \E id \in pending : id.address = a
                             \/ \E sub \in DOMAIN live : live[sub] = a
        /\ \A id, other \in pending : id.address = other.address => id = other
        /\ \A sub, other \in DOMAIN live : live[sub] = live[other] => sub = other
        /\ \A id \in pending, sub \in DOMAIN live : id.address # live[sub]
    BY <1>2 DEF AskedOnce
  <2>2. \A sub \in DOMAIN live' : live'[sub] = live[sub] /\ live[sub] \notin gone
    BY <1>3
  <2>3. \A sub \in DOMAIN live : live[sub] \notin gone => sub \in DOMAIN live'
    BY <1>3
  <2> QED
    BY ONLY <1>1, <1>3, <2>1, <2>2, <2>3 DEF AskedOnce
<1>10. NodeAgrees'
  <2> SUFFICES ASSUME open PROVE NodeAgrees'
    BY DEF NodeAgrees
  <2>1. /\ \A sub \in DOMAIN live : sub \in DOMAIN node /\ live[sub] = node[sub] /\ ~Leaving(sub)
        /\ \A i \in DOMAIN toClient : toClient[i].kind = "reply" =>
              /\ toClient[i].sub \in DOMAIN node /\ node[toClient[i].sub] = toClient[i].id.address
              /\ toClient[i].sub \notin DOMAIN live /\ ~Leaving(toClient[i].sub)
              /\ \A j \in DOMAIN toClient :
                    toClient[j].kind = "reply" /\ toClient[j].sub = toClient[i].sub => i = j
        /\ \A i \in DOMAIN toClient : toClient[i].kind = "update" /\ toClient[i].sub \in DOMAIN node =>
              node[toClient[i].sub] = toClient[i].address
    BY <1>2 DEF NodeAgrees
  <2>2. subs \subseteq DOMAIN live
    OBVIOUS
  <2> QED
    BY ONLY <1>3, <1>6, <2>1, <2>2, UNCHANGED <<open, toClient, node, refused>> DEF NodeAgrees
<1> QED
  BY <1>8, <1>9, <1>10 DEF SocketHolds

LEMMA OpensHolds ==
    ASSUME TablesHold, SocketHolds, Opens
    PROVE  TablesHold' /\ SocketHolds'
<1> PICK ids : ids = {[address |-> a, n |-> 1] : a \in wanted}
  OBVIOUS
<1>1. /\ ~open /\ open' = TRUE /\ live' = None /\ pending' = ids /\ toNode' = Requests(ids)
      /\ UNCHANGED <<viewed, views, graduated, swaps, watching, accounts, reserves, latest, passes, dropped>>
      /\ UNCHANGED <<wanted, toClient, node, refused, faults>>
  BY DEF Opens, AskedAgain, people, chain, tables
<1>2. /\ WireTyped /\ wanted \subseteq Addresses
      /\ toClient = <<>> /\ node = None
  BY <1>1 DEF SocketHolds, WireTyped
<1>3. OneEach(ids, wanted)
  <2> DEFINE f == [a \in wanted |-> [address |-> a, n |-> 1]]
  <2>1. \A a \in wanted : f[a] \in RequestIds /\ f[a].address = a
    BY <1>2 DEF RequestIds
  <2>2. ids = {f[a] : a \in wanted}
    OBVIOUS
  <2> HIDE DEF f
  <2> QED
    BY ONLY <1>2, <2>1, <2>2, AskEach
<1>4. toNode' \in Seq(NodeMessages)
  BY <1>1, <1>3, RequestsFacts DEF OneEach
<1>5. DOMAIN live' = {}
  BY <1>1 DEF None
<1>6. WireTyped'
  BY <1>1, <1>2, <1>3, <1>4, <1>5, WireSets DEF WireTyped, OneEach
<1>7. AskedOnce'
  <2>1. /\ \A id \in ids : id.address \in wanted
        /\ \A a \in wanted : \E id \in ids : id.address = a
        /\ \A id, other \in ids : id.address = other.address => id = other
    BY <1>3 DEF OneEach
  <2> QED
    BY ONLY <1>1, <1>5, <2>1 DEF AskedOnce
<1>8. NodeAgrees'
  <2>1. DOMAIN toClient' = {}
    BY <1>1, <1>2
  <2> QED
    BY ONLY <1>5, <2>1 DEF NodeAgrees
<1>9. TablesHold'
  BY <1>1, TablesKept DEF tables, TablesHold, StreamTyped
<1> QED
  BY <1>6, <1>7, <1>8, <1>9 DEF SocketHolds

LEMMA ClosesHolds ==
    ASSUME TablesHold, SocketHolds, Closes
    PROVE  TablesHold' /\ SocketHolds'
<1>1. /\ open' = FALSE /\ toNode' = <<>> /\ toClient' = <<>> /\ node' = None /\ refused' = {} /\ Fault
      /\ UNCHANGED <<viewed, views, graduated, swaps, watching, accounts, reserves, latest, passes, dropped>>
      /\ UNCHANGED <<wanted, pending, live>>
  BY DEF Closes, people, chain, tables
<1>2. DOMAIN node' = {} /\ IsFiniteSet(DOMAIN node')
  BY <1>1, FS_EmptySet DEF None
<1>3. toNode' \in Seq(NodeMessages) /\ toClient' \in Seq(ClientMessages)
  BY <1>1
<1>4. WireTyped'
  BY <1>1, <1>2, <1>3, WireSets DEF SocketHolds, WireTyped
<1>5. AskedOnce' /\ NodeAgrees'
  BY <1>1 DEF AskedOnce, NodeAgrees
<1>6. TablesHold'
  BY <1>1, TablesKept, FaultBounded DEF tables, TablesHold, StreamTyped
<1> QED
  BY <1>4, <1>5, <1>6 DEF SocketHolds

\* A reply makes what was asked for live, if it is still wanted; an update is priced.
LEMMA DeliveryHolds ==
    ASSUME TablesHold, SocketHolds, Delivers
    PROVE  TablesHold' /\ SocketHolds'
<1>1. /\ toClient # <<>> /\ toClient' = Tail(toClient)
      /\ UNCHANGED <<viewed, views, graduated, swaps, watching, accounts, passes, dropped>>
      /\ UNCHANGED <<wanted, open, toNode, node, refused, faults>>
  BY DEF Delivers, people, chain
<1>2. /\ WireTyped /\ AskedOnce /\ NodeAgrees /\ toClient \in Seq(ClientMessages)
      /\ open /\ wanted \subseteq Addresses
  BY <1>1 DEF SocketHolds, WireTyped
<1> PICK message : message = Head(toClient)
  OBVIOUS
<1>3. /\ toClient' \in Seq(ClientMessages) /\ 1 \in DOMAIN toClient /\ message = toClient[1]
      /\ message \in ClientMessages
      /\ \A i \in DOMAIN toClient' : /\ i + 1 \in DOMAIN toClient /\ i + 1 # 1
                                     /\ toClient'[i] = toClient[i + 1] /\ i \in Nat
  BY <1>1, <1>2, TailFacts
<1>4. \A sub : Leaving(sub)' = Leaving(sub)
  BY <1>1 DEF Leaving
<1>5. /\ \A sub \in DOMAIN live : sub \in DOMAIN node /\ live[sub] = node[sub] /\ ~Leaving(sub)
      /\ \A i \in DOMAIN toClient : toClient[i].kind = "reply" =>
            /\ toClient[i].sub \in DOMAIN node /\ node[toClient[i].sub] = toClient[i].id.address
            /\ toClient[i].sub \notin DOMAIN live /\ ~Leaving(toClient[i].sub)
            /\ \A j \in DOMAIN toClient :
                  toClient[j].kind = "reply" /\ toClient[j].sub = toClient[i].sub => i = j
      /\ \A i \in DOMAIN toClient : toClient[i].kind = "update" /\ toClient[i].sub \in DOMAIN node =>
            node[toClient[i].sub] = toClient[i].address
  BY <1>2 DEF NodeAgrees
<1>6. CASE message.kind = "update"
  <2>1. /\ IF message.sub \in DOMAIN live
           THEN HandleUpdate(live[message.sub], message.swap, message.complete)
           ELSE UNCHANGED <<reserves, latest>>
        /\ UNCHANGED <<pending, live>>
    BY <1>6 DEF Delivers
  <2>2. TablesHold'
    <3>1. CASE message.sub \in DOMAIN live
      <4>1. HandleUpdate(live[message.sub], message.swap, message.complete) /\ message.swap \in Nat \ {0}
        BY <1>3, <1>6, <2>1, <3>1, MessageFacts
      <4>2. UNCHANGED <<people, chain, watching, accounts, passes, dropped, wanted, faults>>
        BY <1>1 DEF people, chain
      <4> QED
        BY <1>2, <4>1, <4>2, UpdateHolds
    <3>2. CASE message.sub \notin DOMAIN live
      BY <1>1, <2>1, <3>2, TablesKept DEF tables, TablesHold, StreamTyped
    <3> QED
      BY <3>1, <3>2
  <2>3. WireTyped'
    BY <1>1, <1>2, <1>3, <2>1, WireSets DEF WireTyped
  <2>4. AskedOnce'
    BY <1>1, <1>2, <2>1 DEF AskedOnce
  <2>5. NodeAgrees'
    BY ONLY <1>1, <1>3, <1>4, <1>5, <2>1 DEF NodeAgrees
  <2> QED
    BY <2>2, <2>3, <2>4, <2>5 DEF SocketHolds
<1>7. CASE message.kind = "reply"
  <2> PICK id \in RequestIds, sub \in Nat : id = message.id /\ sub = message.sub
    BY <1>3, <1>7, MessageFacts
  <2>1. Replied(id, sub) /\ UNCHANGED <<reserves, latest>>
    BY <1>7 DEF Delivers
  <2>2. TablesHold'
    BY <1>1, <2>1, TablesKept DEF tables, TablesHold, StreamTyped
  <2>3. /\ sub \in DOMAIN node /\ node[sub] = id.address /\ sub \notin DOMAIN live /\ ~Leaving(sub)
        /\ \A j \in DOMAIN toClient : toClient[j].kind = "reply" /\ toClient[j].sub = sub => j = 1
    BY <1>3, <1>5, <1>7
  <2>4. /\ \A x \in pending : x.address \in wanted
        /\ \A s \in DOMAIN live : live[s] \in wanted
        /\ \A a \in wanted : \/ \E x \in pending : x.address = a
                             \/ \E s \in DOMAIN live : live[s] = a
        /\ \A x, other \in pending : x.address = other.address => x = other
        /\ \A s, other \in DOMAIN live : live[s] = live[other] => s = other
        /\ \A x \in pending, s \in DOMAIN live : x.address # live[s]
    BY <1>2 DEF AskedOnce
  <2>5. pending' = pending \ {id} /\ pending' \subseteq pending
    BY <2>1 DEF Replied
  <2>6. \/ id \notin pending /\ live' = live
        \/ /\ id \in pending /\ DOMAIN live' = DOMAIN live \cup {sub} /\ live'[sub] = id.address
           /\ \A s \in DOMAIN live : live'[s] = live[s]
    <3>1. CASE id \in pending
      <4>1. live' = Put(live, sub, id.address)
        BY <2>1, <2>4, <3>1 DEF Replied
      <4> QED
        BY ONLY <2>3, <3>1, <4>1 DEF Put
    <3>2. CASE id \notin pending
      BY <2>1, <3>2 DEF Replied
    <3> QED
      BY <3>1, <3>2
  <2>7. AskedOnce'
    BY ONLY <1>1, <2>4, <2>5, <2>6 DEF AskedOnce
  <2>8. WireTyped'
    <3>1. IsFiniteSet(pending')
      BY <1>2, <2>5, FS_Subset DEF WireTyped
    <3>2. DOMAIN live' \subseteq Nat /\ \A s \in DOMAIN live' : live'[s] \in Addresses
      BY <1>2, <2>6, MessageFacts DEF WireTyped
    <3> QED
      BY <1>1, <1>2, <1>3, <2>5, <3>1, <3>2, WireSets DEF WireTyped
  <2>9. NodeAgrees'
    BY ONLY <1>1, <1>3, <1>4, <1>5, <2>3, <2>6 DEF NodeAgrees
  <2> QED
    BY <2>2, <2>7, <2>8, <2>9 DEF SocketHolds
<1> QED
  BY <1>3, <1>6, <1>7, MessageFacts

\* An id that is given out names nothing that is known or on the wire.
LEMMA FreshId ==
    ASSUME WireTyped
    PROVE  LET sub == Lowest(DOMAIN node \cup OnTheWire)
           IN  /\ sub \in Nat /\ sub \notin DOMAIN node
               /\ \A i \in DOMAIN toClient : toClient[i].sub # sub
               /\ ~Leaving(sub)
<1> DEFINE J == {j \in DOMAIN toNode : toNode[j].kind = "unsubscribe"}
           K == DOMAIN toClient
           f == [i \in J |-> toNode[i].sub]
           g == [i \in K |-> toClient[i].sub]
<1>1. IsFiniteSet(J) /\ IsFiniteSet(K)
  BY IndexedFinite DEF WireTyped
<1>2. IsFiniteSet({f[i] : i \in J}) /\ IsFiniteSet({g[i] : i \in K})
  <2> HIDE DEF J, K, f, g
  <2> QED
    BY <1>1, FiniteImage
<1>3. {f[i] : i \in J} = {toNode[i].sub : i \in J} /\ {g[i] : i \in K} = {toClient[i].sub : i \in K}
  OBVIOUS
<1>4. OnTheWire = {toClient[i].sub : i \in K} \cup {toNode[i].sub : i \in J}
  BY DEF OnTheWire
<1>5. IsFiniteSet(OnTheWire)
  <2>1. IsFiniteSet({toClient[i].sub : i \in K}) /\ IsFiniteSet({toNode[i].sub : i \in J})
    BY <1>2, <1>3
  <2> QED
    BY ONLY <1>4, <2>1, FS_Union
<1>6. IsFiniteSet(DOMAIN node \cup OnTheWire)
  <2>1. IsFiniteSet(DOMAIN node)
    BY DEF WireTyped
  <2> QED
    BY ONLY <1>5, <2>1, FS_Union
<1>7. PICK sub : sub = Lowest(DOMAIN node \cup OnTheWire)
  OBVIOUS
<1>8. sub \in Nat /\ sub \notin DOMAIN node /\ sub \notin OnTheWire
  BY <1>6, <1>7, LowestIsFree
<1>9. (\A i \in DOMAIN toClient : toClient[i].sub # sub) /\ ~Leaving(sub)
  BY <1>4, <1>8 DEF Leaving
<1> QED
  BY <1>7, <1>8, <1>9

LEMMA AnswerHolds ==
    ASSUME TablesHold, SocketHolds, NodeAnswers
    PROVE  TablesHold' /\ SocketHolds'
<1>1. /\ toNode # <<>> /\ toNode' = Tail(toNode)
      /\ UNCHANGED <<viewed, views, graduated, swaps, watching, accounts, reserves, latest, passes, dropped>>
      /\ UNCHANGED <<wanted, pending, live, open>>
  BY DEF NodeAnswers, people, chain, tables, subscription
<1>2. /\ WireTyped /\ AskedOnce /\ NodeAgrees /\ toNode \in Seq(NodeMessages)
      /\ toClient \in Seq(ClientMessages) /\ open /\ refused \subseteq Addresses
      /\ DOMAIN node \subseteq Nat /\ IsFiniteSet(DOMAIN node)
      /\ \A s \in DOMAIN node : node[s] \in Addresses
  BY <1>1 DEF SocketHolds, WireTyped
<1> PICK request : request = Head(toNode)
  OBVIOUS
<1> PICK sub : sub = Lowest(DOMAIN node \cup OnTheWire)
  OBVIOUS
<1>3. /\ toNode' \in Seq(NodeMessages) /\ 1 \in DOMAIN toNode /\ request = toNode[1]
      /\ request \in NodeMessages
      /\ \A i \in DOMAIN toNode' : i + 1 \in DOMAIN toNode /\ toNode'[i] = toNode[i + 1]
  BY <1>1, <1>2, TailFacts
<1>4. \A s : Leaving(s)' => Leaving(s)
  BY <1>3 DEF Leaving
<1>5. /\ \A s \in DOMAIN live : s \in DOMAIN node /\ live[s] = node[s] /\ ~Leaving(s)
      /\ \A i \in DOMAIN toClient : toClient[i].kind = "reply" =>
            /\ toClient[i].sub \in DOMAIN node /\ node[toClient[i].sub] = toClient[i].id.address
            /\ toClient[i].sub \notin DOMAIN live /\ ~Leaving(toClient[i].sub)
            /\ \A j \in DOMAIN toClient :
                  toClient[j].kind = "reply" /\ toClient[j].sub = toClient[i].sub => i = j
      /\ \A i \in DOMAIN toClient : toClient[i].kind = "update" /\ toClient[i].sub \in DOMAIN node =>
            node[toClient[i].sub] = toClient[i].address
  BY <1>2 DEF NodeAgrees
<1>6. AskedOnce'
  BY <1>1, <1>2 DEF AskedOnce
<1>7. faults' \in 0 .. FaultBound => TablesHold'
  BY <1>1, TablesKept DEF tables, TablesHold, StreamTyped
<1>8. faults \in 0 .. FaultBound
  BY DEF TablesHold, StreamTyped
<1>9. CASE /\ request.kind = "subscribe"
           /\ node' = Put(node, sub, request.id.address)
           /\ toClient' = Append(toClient, [kind |-> "reply", id |-> request.id, sub |-> sub])
           /\ UNCHANGED <<refused, faults>>
  <2> PICK id \in RequestIds : id = request.id
    BY <1>3, <1>9, MessageFacts
  <2> DEFINE reply == [kind |-> "reply", id |-> id, sub |-> sub]
  <2>1. /\ sub \in Nat /\ sub \notin DOMAIN node /\ ~Leaving(sub)
        /\ \A i \in DOMAIN toClient : toClient[i].sub # sub
    BY <1>2, FreshId
  <2>2. /\ DOMAIN node' = DOMAIN node \cup {sub} /\ node'[sub] = id.address
        /\ \A s \in DOMAIN node : node'[s] = node[s]
    <3>1. node' = Put(node, sub, id.address)
      BY <1>9
    <3> QED
      BY ONLY <2>1, <3>1 DEF Put
  <2>3. reply \in ClientMessages
    BY <2>1 DEF ClientMessages, Replies
  <2>4. reply.kind = "reply" /\ reply.id = id /\ reply.sub = sub
    OBVIOUS
  <2> HIDE DEF reply
  <2>5. /\ toClient' \in Seq(ClientMessages) /\ Len(toClient) + 1 \notin DOMAIN toClient
        /\ \A i \in DOMAIN toClient' : \/ i \in DOMAIN toClient /\ toClient'[i] = toClient[i]
                                       \/ i = Len(toClient) + 1 /\ toClient'[i] = reply
    <3>1. toClient' = Append(toClient, reply)
      BY <1>9 DEF reply
    <3>2. Len(toClient) \in Nat /\ DOMAIN toClient = 1 .. Len(toClient)
      BY ONLY <1>2, LenProperties
    <3>3. Len(toClient) + 1 \notin DOMAIN toClient
      BY ONLY <3>2
    <3>4. /\ Append(toClient, reply) \in Seq(ClientMessages)
          /\ \A i \in DOMAIN Append(toClient, reply) :
                \/ i \in DOMAIN toClient /\ Append(toClient, reply)[i] = toClient[i]
                \/ i = Len(toClient) + 1 /\ Append(toClient, reply)[i] = reply
      BY ONLY <1>2, <2>3, AppendFacts
    <3> QED
      BY ONLY <3>1, <3>3, <3>4
  <2>6. WireTyped'
    <3>1. IsFiniteSet(DOMAIN node')
      <4>1. IsFiniteSet(DOMAIN node) /\ DOMAIN node' = DOMAIN node \cup {sub}
        BY <1>2, <2>2
      <4> QED
        BY ONLY <4>1, FS_AddElement
    <3>2. DOMAIN node' \subseteq Nat /\ \A s \in DOMAIN node' : node'[s] \in Addresses
      BY <1>2, <2>1, <2>2, MessageFacts
    <3>3. UNCHANGED <<wanted, pending, live, open, refused>>
      BY <1>1, <1>9
    <3>4. toClient' \in Seq(ClientMessages)
      BY <2>5
    <3> QED
      BY ONLY <1>2, <1>3, <3>1, <3>2, <3>3, <3>4, WireSets DEF WireTyped
  <2>7. NodeAgrees'
    <3>1. \A s \in DOMAIN live : s \in DOMAIN node' /\ live[s] = node'[s] /\ ~Leaving(s)'
      BY ONLY <1>4, <1>5, <2>2
    <3>2. ASSUME NEW i \in DOMAIN toClient', toClient'[i].kind = "reply", NEW s, s = toClient'[i].sub
          PROVE  /\ s \in DOMAIN node' /\ node'[s] = toClient'[i].id.address
                 /\ s \notin DOMAIN live /\ ~Leaving(s)'
      <4>1. CASE i \in DOMAIN toClient /\ toClient'[i] = toClient[i]
        BY ONLY <1>4, <1>5, <2>2, <3>2, <4>1
      <4>2. CASE toClient'[i] = reply
        BY ONLY <1>4, <1>5, <2>1, <2>2, <2>4, <3>2, <4>2
      <4> QED
        BY ONLY <2>5, <4>1, <4>2, i \in DOMAIN toClient'
    <3>3. \A i, j \in DOMAIN toClient' :
             toClient'[i].kind = "reply" /\ toClient'[j].kind = "reply"
             /\ toClient'[j].sub = toClient'[i].sub => i = j
      BY ONLY <1>5, <2>1, <2>4, <2>5
    <3>4. \A i \in DOMAIN toClient' : toClient'[i].kind = "update" /\ toClient'[i].sub \in DOMAIN node' =>
             node'[toClient'[i].sub] = toClient'[i].address
      BY ONLY <1>5, <2>1, <2>2, <2>4, <2>5
    <3> QED
      BY ONLY <1>1, <3>1, <3>2, <3>3, <3>4 DEF NodeAgrees
  <2> QED
    BY <1>6, <1>7, <1>8, <1>9, <2>6, <2>7 DEF SocketHolds
<1>10. CASE /\ request.kind = "subscribe" /\ Fault
            /\ refused' = refused \cup {request.id.address}
            /\ UNCHANGED <<node, toClient>>
  <2>1. request.id.address \in Addresses
    BY <1>3, <1>10, MessageFacts
  <2>2. WireTyped'
    <3>1. UNCHANGED <<wanted, pending, live, open, toClient, node>> /\ refused' = refused \cup {request.id.address}
      BY <1>1, <1>10
    <3> QED
      BY ONLY <1>2, <1>3, <2>1, <3>1, WireSets DEF WireTyped
  <2>3. NodeAgrees'
    BY ONLY <1>1, <1>4, <1>5, <1>10 DEF NodeAgrees
  <2>4. faults' \in 0 .. FaultBound
    BY <1>8, <1>10, FaultBounded
  <2> QED
    BY <1>6, <1>7, <2>2, <2>3, <2>4 DEF SocketHolds
<1>11. CASE /\ request.kind = "unsubscribe"
            /\ node' = Without(node, {request.sub})
            /\ UNCHANGED <<toClient, refused, faults>>
  <2>1. Leaving(request.sub)
    BY <1>3, <1>11 DEF Leaving
  <2>2. /\ DOMAIN node' = DOMAIN node \ {request.sub}
        /\ \A s \in DOMAIN node \ {request.sub} : node'[s] = node[s]
    <3>1. node' = Without(node, {request.sub})
      BY <1>11
    <3> QED
      BY ONLY <3>1 DEF Without, Restrict
  <2>3. WireTyped'
    <3>1. IsFiniteSet(DOMAIN node')
      BY <1>2, <2>2, FS_Subset
    <3>2. DOMAIN node' \subseteq Nat /\ \A s \in DOMAIN node' : node'[s] \in Addresses
      BY <1>2, <2>2
    <3>3. UNCHANGED <<wanted, pending, live, open, toClient, refused>>
      BY <1>1, <1>11
    <3> QED
      BY ONLY <1>2, <1>3, <3>1, <3>2, <3>3, WireSets DEF WireTyped
  <2>4. NodeAgrees'
    <3>1. UNCHANGED <<live, open, toClient>>
      BY <1>1, <1>11
    <3>2. \A s : s \in DOMAIN node /\ ~Leaving(s) => s \in DOMAIN node' /\ node'[s] = node[s]
      BY ONLY <2>1, <2>2
    <3>3. \A s \in DOMAIN node' : s \in DOMAIN node /\ node'[s] = node[s]
      BY ONLY <2>2
    <3> QED
      BY ONLY <1>4, <1>5, <3>1, <3>2, <3>3 DEF NodeAgrees
  <2> QED
    BY <1>6, <1>7, <1>8, <1>11, <2>3, <2>4 DEF SocketHolds
<1> QED
  BY <1>9, <1>10, <1>11 DEF NodeAnswers

\* A swap is sent under each subscription to an account it changed.
LEMMA SwapHolds ==
    ASSUME TablesHold, SocketHolds, NEW m \in Mints, NEW graduates \in BOOLEAN, Swaps(m, graduates)
    PROVE  TablesHold' /\ SocketHolds'
<1> PICK addresses, swap : addresses = AccountsOf(m) /\ swap = swaps[m] + 1
  OBVIOUS
<1>1. /\ swaps[m] < SwapBound /\ swaps' = [swaps EXCEPT ![m] = @ + 1]
      /\ graduated' = IF graduates THEN graduated \cup {m} ELSE graduated
      /\ toClient' = toClient \o Notified(addresses, swap, graduates)
      /\ UNCHANGED <<viewed, views, watching, accounts, reserves, latest, passes, dropped, faults>>
      /\ UNCHANGED <<wanted, pending, live, open, toNode, node, refused>>
  BY DEF Swaps, people, tables, subscription
<1>2. /\ WireTyped /\ AskedOnce /\ NodeAgrees /\ open \in BOOLEAN
      /\ toClient \in Seq(ClientMessages) /\ refused \subseteq Addresses
      /\ DOMAIN node \subseteq Nat /\ IsFiniteSet(DOMAIN node)
      /\ \A s \in DOMAIN node : node[s] \in Addresses
      /\ ~open => toClient = <<>> /\ node = None
  BY DEF SocketHolds, WireTyped
<1>3. swaps \in [Mints -> 1 .. SwapBound] /\ graduated \subseteq Mints
  BY DEF TablesHold, StreamTyped
<1>4. swap \in Nat \ {0} /\ swaps' \in [Mints -> 1 .. SwapBound] /\ graduated' \subseteq Mints
  <2>1. SwapBound \in Nat /\ swaps[m] \in 1 .. SwapBound
    BY <1>3, StreamAssumption
  <2>2. swap \in 1 .. SwapBound
    BY ONLY <1>1, <2>1, swap = swaps[m] + 1
  <2> QED
    BY <1>1, <1>3, <2>1, <2>2
<1> DEFINE S == {s \in DOMAIN node : node[s] \in addresses}
           f == [s \in S |-> [kind |-> "update", sub |-> s, address |-> node[s], swap |-> swap, complete |-> graduates]]
           U == {f[s] : s \in S}
<1>5. \A x \in U : /\ x \in ClientMessages /\ x.kind = "update" /\ x.sub \in DOMAIN node
                   /\ x.address = node[x.sub]
  <2>0. (\A x \in U : \E s \in S : x = f[s]) /\ S \subseteq DOMAIN node
    OBVIOUS
  <2> HIDE DEF U
  <2>1. ASSUME NEW s \in S
        PROVE  /\ f[s] \in ClientMessages /\ f[s].kind = "update" /\ f[s].sub = s
               /\ f[s].address = node[s]
    <3>1. s \in Nat /\ node[s] \in Addresses
      BY <1>2, <2>0
    <3>2. f[s] = [kind |-> "update", sub |-> s, address |-> node[s], swap |-> swap, complete |-> graduates]
      OBVIOUS
    <3> HIDE DEF f
    <3>3. f[s] \in Updates
      BY ONLY <1>4, <3>1, <3>2, graduates \in BOOLEAN DEF Updates
    <3> QED
      BY ONLY <3>2, <3>3 DEF ClientMessages
  <2> HIDE DEF S, f
  <2> QED
    BY ONLY <2>0, <2>1
<1>6. Notified(addresses, swap, graduates) = SetToSeq(U)
  <2>1. U = {[kind |-> "update", sub |-> s, address |-> node[s], swap |-> swap, complete |-> graduates] : s \in S}
    OBVIOUS
  <2> HIDE DEF U
  <2> QED
    BY <2>1 DEF Notified
<1>7. IsFiniteSet(U)
  <2>1. IsFiniteSet(S)
    BY <1>2, FS_Subset
  <2> HIDE DEF S, f
  <2> QED
    BY <2>1, FiniteImage
<1>8. ~open => U = {}
  BY <1>2 DEF None
<1> HIDE DEF U, S, f
<1> PICK s : s = SetToSeq(U)
  OBVIOUS
<1>9. s \in Seq(U) /\ \A i \in DOMAIN s : s[i] \in U
  BY ONLY <1>7, s = SetToSeq(U), ListOfSet
<1>10. s \in Seq(ClientMessages) /\ (U = {} => s = <<>>)
  <2>1. s \in Seq(ClientMessages)
    BY ONLY <1>5, <1>9, SeqMonotonic
  <2>2. ASSUME U = {}, s # <<>> PROVE FALSE
    <3>1. Len(s) \in Nat \ {0} /\ DOMAIN s = 1 .. Len(s)
      BY ONLY <1>9, <2>2, EmptySeq, LenProperties
    <3>2. 1 \in DOMAIN s
      BY ONLY <3>1
    <3> QED
      BY ONLY <1>9, <2>2, <3>2
  <2> QED
    BY <2>1, <2>2
<1>11. toClient' = toClient \o s
  BY <1>1, <1>6
<1>12. /\ toClient' \in Seq(ClientMessages)
       /\ \A i \in DOMAIN toClient' : \/ i \in DOMAIN toClient /\ toClient'[i] = toClient[i]
                                      \/ toClient'[i] \in U
  <2>1. /\ toClient \o s \in Seq(ClientMessages)
        /\ \A i \in DOMAIN (toClient \o s) : \/ i \in DOMAIN toClient /\ (toClient \o s)[i] = toClient[i]
                                             \/ \E j \in DOMAIN s : (toClient \o s)[i] = s[j]
    BY ONLY <1>2, <1>10, ConcatFacts
  <2> QED
    BY ONLY <1>9, <1>11, <2>1
<1>13. ~open => toClient' = <<>>
  <2> SUFFICES ASSUME ~open PROVE toClient' = <<>>
    OBVIOUS
  <2>1. toClient = <<>> /\ s = <<>>
    BY <1>2, <1>8, <1>10
  <2> QED
    BY <1>11, <2>1
<1>14. WireTyped'
  BY <1>1, <1>2, <1>12, <1>13, WireSets DEF WireTyped
<1>15. AskedOnce'
  BY <1>1, <1>2 DEF AskedOnce
<1>16. NodeAgrees'
  <2> SUFFICES ASSUME open PROVE NodeAgrees'
    BY <1>1 DEF NodeAgrees
  <2>1. \A x : Leaving(x)' = Leaving(x)
    BY <1>1 DEF Leaving
  <2>2. /\ \A x \in DOMAIN live : x \in DOMAIN node /\ live[x] = node[x] /\ ~Leaving(x)
        /\ \A i \in DOMAIN toClient : toClient[i].kind = "reply" =>
              /\ toClient[i].sub \in DOMAIN node /\ node[toClient[i].sub] = toClient[i].id.address
              /\ toClient[i].sub \notin DOMAIN live /\ ~Leaving(toClient[i].sub)
              /\ \A j \in DOMAIN toClient :
                    toClient[j].kind = "reply" /\ toClient[j].sub = toClient[i].sub => i = j
        /\ \A i \in DOMAIN toClient : toClient[i].kind = "update" /\ toClient[i].sub \in DOMAIN node =>
              node[toClient[i].sub] = toClient[i].address
    BY <1>2 DEF NodeAgrees
  <2>3. \A i \in DOMAIN toClient' : toClient'[i].kind = "reply" =>
            i \in DOMAIN toClient /\ toClient'[i] = toClient[i]
    BY ONLY <1>5, <1>12
  <2>4. \A i \in DOMAIN toClient' : toClient'[i].kind = "update" /\ toClient'[i].sub \in DOMAIN node =>
            node[toClient'[i].sub] = toClient'[i].address
    BY ONLY <1>5, <1>12, <2>2
  <2> QED
    BY ONLY <1>1, <2>1, <2>2, <2>3, <2>4 DEF NodeAgrees
<1>17. TablesHold'
  BY <1>1, <1>4, TablesKept DEF tables, TablesHold, StreamTyped
<1> QED
  BY <1>14, <1>15, <1>16, <1>17 DEF SocketHolds

LEMMA ViewHolds ==
    ASSUME TablesHold, SocketHolds, NEW m \in Mints, Views(m)
    PROVE  TablesHold' /\ SocketHolds'
<1>1. /\ views < ViewBound /\ views' = views + 1
      /\ viewed' = IF m \in viewed THEN viewed \ {m} ELSE viewed \cup {m}
      /\ UNCHANGED <<graduated, swaps, watching, accounts, reserves, latest, passes, dropped, faults>>
      /\ UNCHANGED <<wanted, pending, live, open, toNode, toClient, node, refused>>
  BY DEF Views, chain, tables, subscription, wire
<1>2. ViewBound \in Nat
  BY StreamAssumption
<1>3. views' \in 0 .. ViewBound
  <2>1. views \in 0 .. ViewBound
    BY DEF TablesHold, StreamTyped
  <2> QED
    BY ONLY <1>1, <1>2, <2>1
<1>4. TablesHold'
  BY <1>1, <1>3, TablesKept DEF tables, TablesHold, StreamTyped
<1>5. SocketHolds'
  BY <1>1, SocketKept DEF SocketHolds, WireTyped
<1> QED
  BY <1>4, <1>5

(***************************************************************************)
(* Pushed prices: the step                                                 *)
(***************************************************************************)

LEMMA AtFirst ==
    ASSUME StreamInit
    PROVE  StreamInvariant
<1>1. /\ viewed = {} /\ views = 0 /\ faults = 0 /\ graduated \subseteq Mints /\ swaps = [m \in Mints |-> 1]
      /\ watching = None /\ accounts = {} /\ reserves = None /\ latest = None
      /\ passes = [p \in Passes |-> Resting] /\ dropped = {}
      /\ wanted = {} /\ pending = {} /\ live = None /\ open = FALSE
      /\ toNode = <<>> /\ toClient = <<>> /\ node = None /\ refused = {}
  BY DEF StreamInit
<1>2. DOMAIN None = {}
  BY DEF None
<1>3. StreamTyped
  <2>1. SwapBound \in Nat /\ SwapBound > 0 /\ ViewBound \in Nat /\ FaultBound \in Nat
    BY StreamAssumption
  <2>2. swaps \in [Mints -> 1 .. SwapBound] /\ views \in 0 .. ViewBound /\ faults \in 0 .. FaultBound
    BY ONLY <1>1, <2>1
  <2>3. \A p \in Passes : passes[p] = Resting /\ Resting.pc # "apply"
    BY <1>1 DEF Resting
  <2>4. passes \in [Passes -> Restings \cup Reads \cup Answers]
    BY <1>1 DEF Restings
  <2> QED
    BY <1>1, <1>2, <2>2, <2>3, <2>4 DEF StreamTyped
<1>4. ReservesHold /\ PriceIsOfOneSwap /\ NothingWatchedUnowned
  BY <1>1, <1>2 DEF ReservesHold, PriceIsOfOneSwap, NothingWatchedUnowned
<1>5. ClaimsHold
  BY <1>1 DEF ClaimsHold, Resolves
<1>6. WireTyped
  <2>1. IsFiniteSet(pending) /\ IsFiniteSet(DOMAIN node)
    BY ONLY <1>1, <1>2, FS_EmptySet
  <2>2. toNode \in Seq(NodeMessages) /\ toClient \in Seq(ClientMessages)
    BY <1>1
  <2> QED
    BY <1>1, <1>2, <2>1, <2>2 DEF WireTyped
<1>7. AskedOnce /\ NodeAgrees
  BY <1>1 DEF AskedOnce, NodeAgrees
<1> QED
  BY <1>3, <1>4, <1>5, <1>6, <1>7 DEF StreamInvariant, TablesHold, SocketHolds

LEMMA PassHolds ==
    ASSUME TablesHold, SocketHolds, NEW p \in Passes, StartPass(p) \/ PassStep(p) \/ ReadFails(p)
    PROVE  TablesHold' /\ SocketHolds'
<1>1. refused \subseteq Addresses /\ wanted \subseteq Addresses
  BY DEF SocketHolds, WireTyped
<1>2. CASE StartPass(p)
  <2>1. UNCHANGED <<open, toClient, node, refused>>
    BY <1>2 DEF StartPass
  <2>2. \E A : Unwatch(A)
    BY <1>2 DEF StartPass
  <2> QED
    BY <1>2, <2>1, <2>2, StartHolds, UnwatchHolds
<1>3. CASE Applies(p)
  <2>1. UNCHANGED <<open, toClient, node, refused>> /\ Watch(passes[p].found) /\ passes[p].pc = "apply"
    BY <1>3 DEF Applies
  <2>2. passes[p].found \subseteq Addresses
    BY <2>1, PassFields, AddressFacts DEF Resting
  <2> QED
    BY <1>1, <1>3, <2>1, <2>2, ApplyHolds, WatchHolds
<1>4. CASE ReadsCurve(p) \/ ReadsPool(p)
  <2>1. UNCHANGED <<wanted, pending, live, open, toNode, toClient, node, refused>>
    BY <1>4 DEF ReadsCurve, ReadsPool, subscription, wire
  <2> QED
    BY <1>1, <1>4, <2>1, ReadHolds, SocketKept
<1>5. CASE ReadFails(p)
  <2>1. UNCHANGED <<wanted, pending, live, open, toNode, toClient, node, refused>>
    BY <1>5 DEF ReadFails, subscription, wire
  <2> QED
    BY <1>1, <1>5, <2>1, FailureHolds, SocketKept
<1> QED
  BY <1>2, <1>3, <1>4, <1>5 DEF PassStep

LEMMA StreamStep ==
    ASSUME StreamInvariant, [StreamNext]_streamVars
    PROVE  StreamInvariant'
<1> USE DEF StreamInvariant
<1>1. CASE UNCHANGED streamVars
  <2>1. /\ UNCHANGED <<tables, wanted>> /\ UNCHANGED <<viewed, graduated, swaps, views, faults>>
        /\ UNCHANGED <<wanted, pending, live, open, toNode, toClient, node, refused>>
    BY <1>1 DEF streamVars, people, chain, subscription, wire
  <2>2. TablesHold'
    BY <2>1, TablesKept DEF TablesHold, StreamTyped
  <2>3. SocketHolds'
    BY <2>1, SocketKept DEF SocketHolds, WireTyped
  <2> QED
    BY <2>2, <2>3
<1>2. CASE StreamNext
  <2>1. CASE Opens
    BY <2>1, OpensHolds
  <2>2. CASE Closes
    BY <2>2, ClosesHolds
  <2>3. CASE Delivers
    BY <2>3, DeliveryHolds
  <2>4. CASE NodeAnswers
    BY <2>4, AnswerHolds
  <2>5. CASE \E p \in Passes : StartPass(p) \/ PassStep(p) \/ ReadFails(p)
    BY <2>5, PassHolds
  <2>6. CASE \E m \in Mints : Views(m)
    BY <2>6, ViewHolds
  <2>7. CASE \E m \in Mints : \E graduates \in BOOLEAN : Swaps(m, graduates)
    BY <2>7, SwapHolds
  <2> QED
    BY <1>2, <2>1, <2>2, <2>3, <2>4, <2>5, <2>6, <2>7 DEF StreamNext
<1> QED
  BY <1>1, <1>2

\* What the invariant says of the socket, in the words of the run.
LEMMA SocketServes ==
    ASSUME StreamInvariant
    PROVE  SocketServesTheWanted
<1>1. TablesHold /\ WireTyped /\ AskedOnce /\ NodeAgrees
  BY DEF StreamInvariant, SocketHolds
<1> PICK asked : asked = {id.address : id \in pending}
  OBVIOUS
<1>2. StreamTypeOK
  <2>1. accounts = wanted
    BY <1>1 DEF TablesHold, NothingWatchedUnowned
  <2>2. \A p \in Passes : passes[p].pc \in {"rest", "read", "pool", "apply"}
    BY <1>1, PassFields
  <2>3. Range(live) \cup Range(node) \cup {id.address : id \in pending} \subseteq Addresses
    <3>1. \A id \in pending : id.address \in Addresses
      BY <1>1, MessageFacts DEF WireTyped
    <3> QED
      BY <1>1, <3>1 DEF WireTyped, Range
  <2>4. /\ viewed \subseteq Mints /\ graduated \subseteq Mints /\ swaps \in [Mints -> 1 .. SwapBound]
        /\ DOMAIN watching \cup DOMAIN reserves \cup DOMAIN latest \subseteq Mints
        /\ views \in 0 .. ViewBound /\ faults \in 0 .. FaultBound
    BY <1>1 DEF TablesHold, StreamTyped
  <2>5. wanted \subseteq Addresses /\ refused \subseteq Addresses /\ open \in BOOLEAN
    BY <1>1 DEF WireTyped
  <2> QED
    BY <2>1, <2>2, <2>3, <2>4, <2>5 DEF StreamTypeOK
<1>3. ASSUME NEW i \in DOMAIN toClient, toClient[i].kind = "update", toClient[i].sub \in DOMAIN live
      PROVE  live[toClient[i].sub] = toClient[i].address
  <2>1. open
    BY <1>1 DEF WireTyped
  <2> QED
    BY <1>1, <1>3, <2>1 DEF NodeAgrees
<1>4. ASSUME open
      PROVE  /\ wanted = {id.address : id \in pending} \cup Range(live)
             /\ Cardinality(wanted) = Cardinality(pending) + Cardinality(DOMAIN live)
  <2>1. /\ \A id \in pending : id.address \in wanted
        /\ \A sub \in DOMAIN live : live[sub] \in wanted
        /\ \A a \in wanted : \/ \E id \in pending : id.address = a
                             \/ \E sub \in DOMAIN live : live[sub] = a
        /\ \A id, other \in pending : id.address = other.address => id = other
        /\ \A sub, other \in DOMAIN live : live[sub] = live[other] => sub = other
        /\ \A id \in pending, sub \in DOMAIN live : id.address # live[sub]
    BY <1>1, <1>4 DEF AskedOnce
  <2>2. /\ \A a : a \in asked <=> \E id \in pending : id.address = a
        /\ \A a : a \in Range(live) <=> \E sub \in DOMAIN live : live[sub] = a
    BY DEF Range
  <2>3. wanted = asked \cup Range(live) /\ asked \cap Range(live) = {}
    BY ONLY <2>1, <2>2
  <2>4. IsFiniteSet(pending) /\ IsFiniteSet(DOMAIN live)
    <3>1. DOMAIN live \subseteq DOMAIN node /\ IsFiniteSet(DOMAIN node) /\ IsFiniteSet(pending)
      BY <1>1, <1>4 DEF WireTyped, NodeAgrees
    <3> QED
      BY ONLY <3>1, FS_Subset
  <2>5. IsFiniteSet(asked) /\ Cardinality(asked) = Cardinality(pending)
    <3> DEFINE f == [id \in pending |-> id.address]
    <3>1. \A id \in pending : f[id] = id.address
      OBVIOUS
    <3> HIDE DEF f
    <3>2. /\ \A id \in pending : f[id] \in asked
          /\ \A a \in asked : \E id \in pending : f[id] = a
          /\ \A id, other \in pending : f[id] = f[other] => id = other
      BY ONLY <2>1, <2>2, <3>1
    <3> QED
      BY ONLY <2>4, <3>2, ImageSameSize
  <2>6. IsFiniteSet(Range(live)) /\ Cardinality(Range(live)) = Cardinality(DOMAIN live)
    <3>1. /\ \A sub \in DOMAIN live : live[sub] \in Range(live)
          /\ \A a \in Range(live) : \E sub \in DOMAIN live : live[sub] = a
          /\ \A sub, other \in DOMAIN live : live[sub] = live[other] => sub = other
      BY ONLY <2>1, <2>2
    <3> QED
      BY ONLY <2>4, <3>1, ImageSameSize
  <2>7. Cardinality(wanted) = Cardinality(asked) + Cardinality(Range(live)) - Cardinality({})
    BY ONLY <2>3, <2>5, <2>6, FS_Union
  <2>8. Cardinality({}) = 0 /\ Cardinality(pending) \in Nat /\ Cardinality(DOMAIN live) \in Nat
    BY ONLY <2>4, FS_EmptySet, FS_CardinalityType
  <2>9. Cardinality(wanted) = Cardinality(pending) + Cardinality(DOMAIN live)
    BY ONLY <2>5, <2>6, <2>7, <2>8
  <2> QED
    BY <2>3, <2>9
<1> QED
  BY <1>2, <1>3, <1>4 DEF SocketServesTheWanted

(***************************************************************************)
(* Pushed prices: theorems                                                 *)
(***************************************************************************)

\* The invariant above holds of every behaviour.
THEOREM StreamHolds == StreamSpec => []StreamInvariant
<1>1. StreamInit => StreamInvariant
  BY AtFirst
<1>2. StreamInvariant /\ [StreamNext]_streamVars => StreamInvariant'
  BY StreamStep
<1> QED
  BY <1>1, <1>2, PTL DEF StreamSpec

\* A published price (price-stream.ts:197) is of the two reserves one swap left, with the offset
\* of its pool unless a pass lost the mint while resolving it: for any mints, any number of
\* overlapping passes and any losses of the socket.
THEOREM PricesAreReal == StreamSpec => []PriceIsOfOneSwap
<1>1. StreamInvariant => PriceIsOfOneSwap
  BY DEF StreamInvariant, TablesHold
<1> QED
  BY <1>1, StreamHolds, PTL

\* What is subscribed is what some mint is watched for (price-stream.ts:324), so that it is let
\* go of with the mint, unless the mint was dropped while a pass was resolving it.
THEOREM NothingLeaks == StreamSpec => []NothingWatchedUnowned
<1>1. StreamInvariant => NothingWatchedUnowned
  BY DEF StreamInvariant, TablesHold
<1> QED
  BY <1>1, StreamHolds, PTL

\* On an open socket (accounts.ts:19) every wanted address is asked for or confirmed, once, and
\* nothing else is; an update is told under the address it is about, although ids are used again
\* by each connection: for any number of addresses, messages and reconnects.
THEOREM SocketServesAll == StreamSpec => []SocketServesTheWanted
<1>1. StreamInvariant => SocketServesTheWanted
  BY SocketServes
<1> QED
  BY <1>1, StreamHolds, PTL
==============================================================================
