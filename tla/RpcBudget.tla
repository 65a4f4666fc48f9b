------------------------------ MODULE RpcBudget ------------------------------
(***************************************************************************)
(* Calls to one RPC endpoint: RpcClient (packages/pools/src/rpc.ts) with   *)
(* its ceiling on calls in flight, its pacing and its retries, and the     *)
(* RpcGovernor (packages/pools/src/governor.ts) that the clients of the    *)
(* endpoint share.  Requests of people go through one client with a        *)
(* ceiling (app/lib/rpc.ts); each worker has a client of its own without   *)
(* one, whose pacing the governor's exceeds on the default plan (432 ms a  *)
(* credit, against 400 ms a call at most).                                 *)
(*                                                                         *)
(* Time is what is left of each wait, in gaps of a credit.  Timers are     *)
(* punctual: time passes only when none is due.                            *)
(***************************************************************************)
EXTENDS Integers, Sequences, FiniteSets

CONSTANTS
    Workers,       \* background callers
    People,        \* callers of the shared client
    Credits,       \* Credits[w]: what a call of the worker costs
    Base,          \* #baseMs: the gap of a credit the plan affords
    MaxFloor,      \* MAX_FLOOR_MS
    MaxCooldown,   \* MAX_COOLDOWN_MS
    RetryAfters,   \* values of the Retry-After header
    RecoverAfter,  \* RECOVER_AFTER
    MaxHold,       \* the most a call sleeps because of a Retry-After
    MaxConcurrent,
    MinInterval,   \* of the shared client
    MaxRetries

ASSUME CallerAssumption == Workers \cap People = {} /\ Credits \in [Workers -> Nat \ {0}]
ASSUME PaceAssumption ==
    /\ Base \in Nat \ {0} /\ MaxFloor \in Nat /\ Base <= MaxFloor /\ {MaxCooldown, MaxHold} \subseteq Nat
    /\ RetryAfters \subseteq Nat /\ RecoverAfter \in Nat \ {0}
    /\ MaxConcurrent \in Nat \ {0} /\ MinInterval \in Nat /\ MaxRetries \in Nat

VARIABLES
    floor,      \* #floorMs
    slotIn,     \* #nextSlotAt, from now
    coolIn,     \* #cooldownUntil, from now
    refusals,   \* #consecutiveRefusals, as far as the backoff tells them apart
    successes,  \* #consecutiveSuccesses
    callers,    \* the call each caller is in
    inFlight,   \* #inFlight of the shared client
    waiting,    \*   its #waiting
    gapIn,      \*   and its #nextSlotAt, from now
    refusing,   \* whether the endpoint may refuse
    debt,       \* history: what is left of the time that pays for workers' first attempts,
    told        \* history: workers whose slot was claimed before the last refusal

governor == <<floor, slotIn, coolIn, refusals, successes>>
client == <<inFlight, waiting, gapIn>>
history == <<debt, told>>
vars == <<governor, callers, client, refusing, history>>

Callers == Workers \cup People
Idle == [pc |-> "idle"]
Least(a, b) == IF a < b THEN a ELSE b
Most(a, b) == IF a > b THEN a ELSE b
Narrowed(n) == (8 * n) \div 10       \* Math.floor(floor * RECOVER_FACTOR)
Doubled(n) ==                        \* 2 ** n
    LET doubled[k \in 0..n] == IF k = 0 THEN 1 ELSE 2 * doubled[k - 1]
    IN  doubled[n]

Init ==
    /\ floor = Base /\ slotIn = 0 /\ coolIn = 0 /\ refusals = 0 /\ successes = 0
    /\ callers = [c \in Callers |-> Idle]
    /\ inFlight = 0 /\ waiting = <<>> /\ gapIn = 0
    /\ refusing = FALSE /\ debt = 0 /\ told = {}

Asleep(c) == callers[c].pc \in {"cooling", "slot", "paced", "backoff"}
Due(c) == Asleep(c) /\ callers[c].left = 0
Busy(c) == callers[c] # Idle
Becomes(c, call) == callers' = [callers EXCEPT ![c] = call]

------------------------------------------------------------------------------
(***************************************************************************)
(* admit                                                                   *)
(***************************************************************************)

\* The slot is claimed before the sleep; a call of n credits takes n gaps.
Claimed(w) == slotIn + floor * Credits[w]

Claim(w) ==
    /\ slotIn' = Claimed(w)
    /\ Becomes(w, [pc |-> "slot", left |-> slotIn])
    /\ told' = told \ {w}
    /\ UNCHANGED <<floor, coolIn, refusals, successes>>

\* The cooldown is waited out in a loop, since it may have been extended.
SleptOnce == TRUE
Cooled == coolIn = 0

CoolDown(w) ==
    /\ Becomes(w, [pc |-> "cooling", left |-> coolIn])
    /\ UNCHANGED <<governor, told>>

WorkerCalls(w) ==
    /\ ~Busy(w)
    /\ IF coolIn = 0 THEN Claim(w) ELSE CoolDown(w)
    /\ UNCHANGED <<client, refusing, debt>>

CooldownEnds(w) ==
    /\ callers[w].pc = "cooling" /\ Due(w)
    /\ IF Cooled THEN Claim(w) ELSE CoolDown(w)
    /\ UNCHANGED <<client, refusing, debt>>

------------------------------------------------------------------------------
(***************************************************************************)
(* The shared client: #acquire, pacing, #release                           *)
(***************************************************************************)

HasRoomForOneMore == inFlight <= MaxConcurrent
HasRoom == inFlight < MaxConcurrent

\* Pacing claims its slot before it sleeps.
Paced(c) ==
    /\ Becomes(c, [pc |-> "paced", left |-> gapIn])
    /\ gapIn' = gapIn + MinInterval

PersonCalls(c) ==
    /\ ~Busy(c)
    /\ IF HasRoom THEN inFlight' = inFlight + 1 /\ Paced(c) /\ UNCHANGED waiting
       ELSE waiting' = Append(waiting, c) /\ Becomes(c, [pc |-> "queued"]) /\ UNCHANGED <<inFlight, gapIn>>
    /\ UNCHANGED <<governor, refusing, history>>

\* A slot that is released goes straight to the next caller, the count unchanged.
ReleaseFreed(c) ==
    /\ inFlight' = inFlight - 1 /\ UNCHANGED <<waiting, gapIn>>
    /\ callers' = [callers EXCEPT ![c] = Idle]

HandedOver(c) ==
    /\ callers' = [callers EXCEPT ![c] = Idle, ![Head(waiting)] = [pc |-> "paced", left |-> gapIn]]
    /\ waiting' = Tail(waiting) /\ gapIn' = gapIn + MinInterval
    /\ UNCHANGED inFlight

Release(c) == IF waiting # <<>> THEN HandedOver(c) ELSE ReleaseFreed(c)

Ends(c) == IF c \in People THEN Release(c) ELSE Becomes(c, Idle) /\ UNCHANGED client

------------------------------------------------------------------------------
(***************************************************************************)
(* Attempts                                                                *)
(***************************************************************************)

\* What the budget pays for is a worker's first attempt: a retry is not admitted again.
First(c) == callers[c].pc = "slot"

Sends(c) ==
    /\ callers[c].pc \in {"slot", "paced", "backoff"} /\ Due(c)
    /\ Becomes(c, [pc |-> "out", attempt |-> IF callers[c].pc = "backoff" THEN callers[c].attempt ELSE 0])
    /\ debt' = IF First(c) THEN debt + Base * Credits[c] ELSE debt
    /\ UNCHANGED <<governor, client, refusing, told>>

\* served: whether the body holds a result or an error, the call is over.  The body is
\* taken to come with its header.
Served(c) ==
    /\ callers[c].pc = "out"
    /\ LET recovers == successes + 1 >= RecoverAfter
       IN  /\ successes' = IF recovers THEN 0 ELSE successes + 1
           /\ floor' = IF recovers THEN Most(Base, Narrowed(floor)) ELSE floor
    /\ refusals' = 0
    /\ Ends(c)
    /\ UNCHANGED <<slotIn, coolIn, refusing, history>>

\* The next attempt waits as long as it was told to, a backoff and its jitter.
Retry(c, after) ==
    IF callers[c].attempt = MaxRetries THEN Ends(c)
    ELSE /\ \E jitter \in 0..1 :
               Becomes(c, [pc |-> "backoff", attempt |-> callers[c].attempt + 1,
                           left |-> Least(after, MaxHold) + Doubled(callers[c].attempt) + jitter])
         /\ UNCHANGED client

\* refused: everybody backs off, but for those who sleep towards a slot they have claimed.
Refused(c) ==
    /\ callers[c].pc = "out" /\ refusing
    /\ floor' = Least(2 * floor, MaxFloor)
    /\ \E after \in RetryAfters \cup {0} :
          LET pause == IF after > 0 THEN after ELSE Doubled(refusals)
          IN  /\ coolIn' = Most(coolIn, Least(pause, MaxCooldown))
              /\ Retry(c, after)
    /\ refusals' = Least(refusals + 1, MaxCooldown)
    /\ successes' = 0
    /\ told' = {w \in Workers : First(w)}
    /\ UNCHANGED <<slotIn, refusing, debt>>

\* The endpoint cannot be reached or takes too long, which the governor is not told.
Unreached(c) ==
    /\ callers[c].pc = "out" /\ refusing
    /\ Retry(c, 0)
    /\ UNCHANGED <<governor, refusing, history>>

\* An answer that is not worth another attempt.
Fails(c) ==
    /\ callers[c].pc = "out" /\ refusing
    /\ Ends(c)
    /\ UNCHANGED <<governor, refusing, history>>

------------------------------------------------------------------------------
(***************************************************************************)
(* Time and the endpoint                                                   *)
(***************************************************************************)

Sooner(n) == Most(0, n - 1)

Tick ==
    /\ \A c \in Callers : ~Due(c)
    /\ slotIn' = Sooner(slotIn) /\ coolIn' = Sooner(coolIn)
    /\ gapIn' = Sooner(gapIn) /\ debt' = Sooner(debt)
    /\ callers' = [c \in Callers |-> IF Asleep(c) THEN [callers[c] EXCEPT !.left = @ - 1] ELSE callers[c]]
    /\ UNCHANGED <<floor, refusals, successes, inFlight, waiting, refusing, told>>

EndpointChanges == refusing' = ~refusing /\ UNCHANGED <<governor, callers, client, history>>

Answered(c) == Served(c) \/ Refused(c) \/ Unreached(c) \/ Fails(c)

Next ==
    \/ \E w \in Workers : WorkerCalls(w) \/ CooldownEnds(w)
    \/ \E c \in People : PersonCalls(c)
    \/ \E c \in Callers : Sends(c) \/ Answered(c)
    \/ Tick \/ EndpointChanges

\* Time passes however many calls come and go, timers fire, and every request is
\* answered or given up: by the client for the header, by fetch for the body.
Fairness ==
    /\ SF_vars(Tick)
    /\ \A w \in Workers : WF_vars(CooldownEnds(w))
    /\ \A c \in Callers : WF_vars(Sends(c)) /\ WF_vars(Answered(c))

Spec == Init /\ [][Next]_vars /\ Fairness

------------------------------------------------------------------------------
(***************************************************************************)
(* Properties                                                              *)
(***************************************************************************)

Holding == {c \in People : callers[c].pc \in {"paced", "out", "backoff"}}

TypeOK ==
    /\ floor \in Base..MaxFloor /\ coolIn \in 0..MaxCooldown /\ successes \in 0..(RecoverAfter - 1)
    /\ {slotIn, gapIn, debt, refusals} \subseteq Nat
    /\ refusing \in BOOLEAN /\ told \subseteq Workers

\* rpc.ts:180: a slot is passed over without the count changing, so that nothing can slip
\* in between.  Whoever calls while another's slot changes hands, those who hold one are
\* as many as are counted and never above the ceiling, and nobody queues below it.
CeilingHeld ==
    /\ TypeOK
    /\ inFlight = Cardinality(Holding) /\ inFlight <= MaxConcurrent
    /\ waiting # <<>> => inFlight = MaxConcurrent
    /\ {c \in People : callers[c].pc = "queued"} = {waiting[i] : i \in DOMAIN waiting}

\* What a worker first sends is paid for (governor.ts:177): whoever claimed first and
\* however the gap widens and narrows meanwhile, it goes out when all that went out before
\* it is paid for at the rate of the plan.  And it respects the cooldown, also one that was
\* extended while the worker slept (governor.ts:183): only a slot claimed before the last
\* refusal still sends.
BudgetKept ==
    [][\A w \in Workers : First(w) /\ Sends(w) => debt = 0 /\ (coolIn = 0 \/ w \in told)]_vars

\* Nobody queues or sleeps for ever: a person's call ends whatever the endpoint does,
\* a worker's if the endpoint does not go on refusing.
EveryCallEnds ==
    /\ \A c \in People : Busy(c) ~> ~Busy(c)
    /\ <>[]~refusing => \A w \in Workers : Busy(w) ~> ~Busy(w)
==============================================================================
