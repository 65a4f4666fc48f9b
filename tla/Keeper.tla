------------------------------- MODULE Keeper -------------------------------
(***************************************************************************)
(* The keeper (packages/keeper, db/commits.ts, app/lib/keeper.ts): one     *)
(* process that batches recorded trades and commits their roots to a chain *)
(* it cannot write atomically with its database.  Between any two awaits   *)
(* trades are recorded, transactions land or expire, a season closes, the  *)
(* process dies.                                                           *)
(*                                                                         *)
(* What the model abstracts:                                               *)
(*   - a record is one trader in one season, numbered in the order         *)
(*     (season, trader) in which uncommittedTrades returns them;           *)
(*   - a merkle root is the list of trade ids under it, an accumulator the *)
(*     sequence of batches folded (sha256 is collision free);              *)
(*   - a commit row's id keeps only its order among the rows that exist;   *)
(*     attempts, failed_reason, signatures and slots are left out;         *)
(*   - a record whose season was finalized or voided is "closed": the      *)
(*     program rejects every commit to it (module SeasonProgram).          *)
(***************************************************************************)
EXTENDS Integers, Sequences, FiniteSets, SequencesExt, Ordering

CONSTANTS
    RecordCount,    \* records are 1 .. RecordCount
    Versions,       \* engine versions a trade may run under
    MaxBatch,       \* trades in one batch (DEFAULT_MAX_BATCH)
    PassLimit,      \* trades considered in one pass (maxTrades)
    LateLanding,    \* may a transaction still be in flight at the next pass?
    TradeBound,     \* bound of the model: trades ever recorded
    FaultBound,     \* bound: crashes, lost answers, failed calls, expiries
    ForeignBound,   \* bound: commits somebody else signs with the keeper's key
    MayClose        \* may seasons end on chain while trades are uncommitted?

Records == 1 .. RecordCount

ASSUME RecordAssumption == RecordCount \in Nat \ {0}
ASSUME VersionAssumption == Versions \subseteq Nat
ASSUME BatchAssumption == MaxBatch \in Nat \ {0} /\ PassLimit \in Nat \ {0}
ASSUME FaultAssumption ==
    /\ LateLanding \in BOOLEAN /\ MayClose \in BOOLEAN
    /\ TradeBound \in Nat /\ FaultBound \in Nat /\ ForeignBound \in Nat

VARIABLES
    \* the database
    trades,     \* table trades in id order: [record, version, sound]
    commits,    \* table commits: intents and confirmed commits
    \* the chain
    chain,      \* chain[r]: the accumulator of r's TraderRecord
    closed,     \* records of finalized or voided seasons
    inflight,   \* transactions sent and not yet settled
    \* the keeper process
    pc,         \* where the pass stands
    todo,       \* reconcile: rows still to resolve
    seen,       \* the accumulator last read from the chain
    batches,    \* batches planned and not yet done with
    blocked,    \* traders held back for the rest of the pass
    awaiting,   \* what became of the transaction being confirmed
    halted,     \* Keeper.#halted
    \* the model's bounds
    faults,     \* faults so far
    foreign     \* foreign commits so far

database == <<trades, commits>>
solana == <<chain, closed, inflight>>
pass == <<todo, seen, batches, blocked, awaiting>>
bounds == <<faults, foreign>>
vars == <<database, solana, pc, pass, halted, bounds>>

\* A batch [ids, version] as folded into an accumulator; nobody else's batch
\* has the ids of recorded trades.
ForeignBatch == [ids |-> <<>>, version |-> 0]

IdsOf(acc) == UNION {ToSet(acc[i].ids) : i \in DOMAIN acc}

Row == [id : Nat, record : Records, batch : [ids : Seq(Nat), version : Versions],
        previous : Seq([ids : Seq(Nat), version : Nat]),
        predicted : Seq([ids : Seq(Nat), version : Nat]), confirmed : BOOLEAN]

Init ==
    /\ trades = <<>> /\ commits = {}
    /\ chain = [r \in Records |-> <<>>] /\ closed = {} /\ inflight = {}
    /\ pc = "idle" /\ todo = <<>> /\ seen = <<>> /\ batches = <<>>
    /\ blocked = {} /\ awaiting = "nothing" /\ halted = FALSE
    /\ faults = 0 /\ foreign = 0

------------------------------------------------------------------------------
(***************************************************************************)
(* Reading the commits table                                               *)
(***************************************************************************)

Pending == {c \in commits : ~c.confirmed}
PendingInOrder == OrderedBy(Pending, {p \in Pending \X Pending : p[1].id < p[2].id})

Confirmed(r) == {c \in commits : c.confirmed /\ c.record = r}
Newest(rows) == CHOOSE c \in rows : \A d \in rows : d.id <= c.id

OldestAccumulator(r) ==
    IF Confirmed(r) = {} THEN <<>>
    ELSE (CHOOSE c \in Confirmed(r) : \A d \in Confirmed(r) : c.id <= d.id).predicted

\* The predicted accumulator of the last confirmed commit.
LocalAccumulator(r) ==
    IF Confirmed(r) = {} THEN <<>> ELSE Newest(Confirmed(r)).predicted

NextRowId == IF commits = {} THEN 1 ELSE Newest(commits).id + 1

\* t.id BETWEEN c.from_trade_id AND c.to_trade_id, for some row of its record,
\* confirmed or not.
Covered(i) ==
    \E c \in commits : /\ c.record = trades[i].record
                       /\ Head(c.batch.ids) <= i /\ i <= Last(c.batch.ids)

FirstOf(ids) == SubSeq(ids, 1, IF Len(ids) < PassLimit THEN Len(ids) ELSE PassLimit)
Uncovered == {i \in DOMAIN trades : ~Covered(i)}

UncommittedByVersion ==
    FirstOf(OrderedBy(Uncovered,
        {p \in Uncovered \X Uncovered :
            LET t == trades[p[1]]
                u == trades[p[2]]
            IN  \/ t.record < u.record
                \/ t.record = u.record /\ t.version < u.version
                \/ t.record = u.record /\ t.version = u.version /\ p[1] < p[2]}))

\* ORDER BY season, trader, id LIMIT maxTrades.
Before == {p \in Uncovered \X Uncovered :
              \/ trades[p[1]].record < trades[p[2]].record
              \/ trades[p[1]].record = trades[p[2]].record /\ p[1] < p[2]}
UncommittedTrades == FirstOf(OrderedBy(Uncovered, Before))

BreaksIgnoringVersion(ids, i) ==
    trades[Head(ids)].record # trades[i].record \/ Len(ids) >= MaxBatch

\* planBatches: cut where the record or the version changes or a batch is full.
Breaks(ids, i) ==
    \/ trades[Head(ids)].record # trades[i].record
    \/ trades[Head(ids)].version # trades[i].version
    \/ Len(ids) >= MaxBatch

Place(plan, i) ==
    IF plan # <<>> /\ ~Breaks(Last(plan), i)
    THEN Append(Front(plan), Append(Last(plan), i))
    ELSE Append(plan, <<i>>)
PlanBatches(ids) ==
    LET plan[n \in 0 .. Len(ids)] == IF n = 0 THEN <<>> ELSE Place(plan[n - 1], ids[n])
    IN  plan[Len(ids)]

------------------------------------------------------------------------------
(***************************************************************************)
(* The world around the keeper                                             *)
(***************************************************************************)

RecordTrade(r, version, sound) ==
    /\ Len(trades) < TradeBound
    /\ trades' = Append(trades, [record |-> r, version |-> version, sound |-> sound])
    /\ UNCHANGED <<commits, solana, pc, pass, halted, bounds>>

CloseRecord(r) ==
    /\ MayClose /\ r \notin closed
    /\ closed' = closed \cup {r}
    /\ UNCHANGED <<database, chain, inflight, pc, pass, halted, bounds>>

CommitForeign(r) ==
    /\ foreign < ForeignBound /\ r \notin closed
    /\ foreign' = foreign + 1
    /\ chain' = [chain EXCEPT ![r] = Append(@, ForeignBatch)]
    /\ UNCHANGED <<database, closed, inflight, pc, pass, halted, faults>>

\* A transaction leaves the mempool; the keeper hears of it if it still asks.
Settled(tx, outcome) ==
    /\ inflight' = inflight \ {tx}
    /\ awaiting' = IF tx.awaited THEN outcome ELSE awaiting
    /\ UNCHANGED <<database, closed, pc, todo, seen, batches, blocked, halted, foreign>>

Land(tx) ==
    /\ tx.record \notin closed
    /\ chain' = [chain EXCEPT ![tx.record] = Append(@, tx.batch)]
    /\ Settled(tx, "landed")
    /\ UNCHANGED faults

\* The program refuses it: the season is finalized or voided by now.
FailOnChain(tx) ==
    /\ tx.record \in closed
    /\ Settled(tx, "failed")
    /\ UNCHANGED <<chain, faults>>

\* Its blockhash ran out before any leader took it.
Expire(tx) ==
    /\ faults < FaultBound /\ faults' = faults + 1
    /\ Settled(tx, "failed")
    /\ UNCHANGED chain

------------------------------------------------------------------------------
(***************************************************************************)
(* One pass of runOnce.  app/lib/keeper.ts starts one a minute and never   *)
(* two at once; a halted keeper starts none.                               *)
(***************************************************************************)

StartPass ==
    /\ pc = "idle" /\ ~halted
    /\ LateLanding \/ inflight = {}
    /\ pc' = "reconcile"
    /\ todo' = PendingInOrder
    /\ blocked' = {}
    /\ UNCHANGED <<database, solana, seen, batches, awaiting, halted, bounds>>

ReconcileRead ==
    /\ pc = "reconcile" /\ todo # <<>>
    /\ seen' = chain[Head(todo).record]
    /\ pc' = "settle"
    /\ UNCHANGED <<database, solana, todo, batches, blocked, awaiting, halted, bounds>>

\* The chain still holds what the intent started from.
NeverLanded(row) == seen # row.predicted /\ seen = row.previous

\* Confirm, discard or halt, by what the chain held when it was read.
SettleIntent ==
    LET row == Head(todo) IN
    /\ pc = "settle"
    /\ \/ /\ seen = row.predicted
          /\ commits' = (commits \ {row}) \cup {[row EXCEPT !.confirmed = TRUE]}
          /\ pc' = "reconcile" /\ UNCHANGED halted
       \/ /\ NeverLanded(row)
          /\ commits' = commits \ {row}
          /\ pc' = "reconcile" /\ UNCHANGED halted
       \/ /\ seen # row.predicted /\ ~NeverLanded(row)
          /\ pc' = "idle" /\ halted' = TRUE /\ UNCHANGED commits
    /\ todo' = IF halted' THEN <<>> ELSE Tail(todo)
    /\ seen' = <<>>
    /\ UNCHANGED <<trades, solana, batches, blocked, awaiting, bounds>>

Plan ==
    /\ pc = "reconcile" /\ todo = <<>>
    /\ batches' = PlanBatches(UncommittedTrades)
    /\ pc' = "commit"
    /\ UNCHANGED <<database, solana, todo, seen, blocked, awaiting, halted, bounds>>

NextRecord == trades[Head(Head(batches))].record

SkipBatch ==
    /\ pc = "commit" /\ batches # <<>>
    /\ NextRecord \in blocked
    /\ batches' = Tail(batches)
    /\ UNCHANGED <<database, solana, pc, todo, seen, blocked, awaiting, halted, bounds>>

RefusePass ==
    /\ pc = "commit" /\ batches # <<>>
    /\ NextRecord \notin blocked
    /\ \E i \in ToSet(Head(batches)) : ~trades[i].sound
    /\ batches' = <<>>
    /\ UNCHANGED <<database, solana, pc, todo, seen, blocked, awaiting, halted, bounds>>

\* rootFor throws LeafMismatchError: a stored trade does not rebuild its leaf.
RefuseBatch ==
    /\ pc = "commit" /\ batches # <<>>
    /\ NextRecord \notin blocked
    /\ \E i \in ToSet(Head(batches)) : ~trades[i].sound
    /\ blocked' = blocked \cup {NextRecord}
    /\ batches' = Tail(batches)
    /\ UNCHANGED <<database, solana, pc, todo, seen, awaiting, halted, bounds>>

RecordIntent ==
    /\ pc = "commit" /\ batches # <<>>
    /\ NextRecord \notin blocked
    /\ \A i \in ToSet(Head(batches)) : trades[i].sound
    /\ LET batch == [ids |-> Head(batches), version |-> trades[Head(Head(batches))].version]
           previous == LocalAccumulator(NextRecord)
       IN  commits' = commits \cup
             {[id |-> NextRowId, record |-> NextRecord, batch |-> batch,
               previous |-> previous, predicted |-> Append(previous, batch),
               confirmed |-> FALSE]}
    /\ pc' = "send"
    /\ UNCHANGED <<trades, solana, pass, halted, bounds>>

\* The row written last is the one being committed.
Current == Newest(commits)

Send ==
    /\ pc = "send" /\ Current.record \notin closed
    /\ LET copy == CHOOSE n \in 1 .. Cardinality(inflight) + 1 :
                      \A tx \in inflight : tx.copy # n
       IN  inflight' = inflight \cup {[record |-> Current.record, batch |-> Current.batch,
                                       awaited |-> TRUE, copy |-> copy]}
    /\ awaiting' = "inflight" /\ pc' = "confirm"
    /\ UNCHANGED <<database, chain, closed, todo, seen, batches, blocked, halted, bounds>>

Orphaned == {[tx EXCEPT !.awaited = FALSE] : tx \in inflight}

ForgetFailure ==
    /\ batches' = Tail(batches)
    /\ inflight' = Orphaned
    /\ awaiting' = "nothing" /\ pc' = "commit"
    /\ UNCHANGED <<database, chain, closed, todo, seen, blocked, halted, foreign>>

\* commitRoot rejected: markFailed leaves the intent for reconcile and holds the
\* trader's later batches back.
HoldBack ==
    /\ blocked' = blocked \cup {NextRecord}
    /\ batches' = Tail(batches)
    /\ inflight' = Orphaned
    /\ awaiting' = "nothing" /\ pc' = "commit"
    /\ UNCHANGED <<database, chain, closed, todo, seen, halted, foreign>>

CommitRefused ==
    /\ \/ pc = "send" /\ Current.record \in closed
       \/ pc = "confirm" /\ awaiting = "failed"
    /\ HoldBack
    /\ UNCHANGED faults

\* The call fails before it is sent, the answer is lost, or sixty seconds pass:
\* the outcome is unknown.
CommitUnknown ==
    /\ faults < FaultBound /\ faults' = faults + 1
    /\ \/ pc = "send"
       \/ pc = "confirm" /\ awaiting \in {"inflight", "landed"}
    /\ HoldBack

ConfirmLanded ==
    /\ pc = "confirm" /\ awaiting = "landed"
    /\ awaiting' = "nothing" /\ pc' = "verify"
    /\ UNCHANGED <<database, solana, todo, seen, batches, blocked, halted, bounds>>

ReadsBack == chain[Current.record] = Current.predicted

\* The chain is read back: confirm the row, or halt on anything unexpected.
VerifyCommit ==
    /\ pc = "verify"
    /\ IF ReadsBack
       THEN /\ commits' = (commits \ {Current}) \cup {[Current EXCEPT !.confirmed = TRUE]}
            /\ batches' = Tail(batches)
            /\ pc' = "commit" /\ UNCHANGED halted
       ELSE /\ halted' = TRUE
            /\ batches' = <<>>
            /\ pc' = "idle" /\ UNCHANGED commits
    /\ UNCHANGED <<trades, solana, todo, seen, blocked, awaiting, bounds>>

EndPass ==
    /\ pc = "commit" /\ batches = <<>>
    /\ pc' = "idle" /\ blocked' = {}
    /\ UNCHANGED <<database, solana, todo, seen, batches, awaiting, halted, bounds>>

AbandonPass ==
    /\ pc' = "idle" /\ todo' = <<>> /\ seen' = <<>> /\ batches' = <<>>
    /\ blocked' = {} /\ awaiting' = "nothing"
    /\ inflight' = Orphaned
    /\ faults < FaultBound /\ faults' = faults + 1
    /\ UNCHANGED <<database, chain, closed, foreign>>

\* readRecord throws: the error leaves runOnce and the cycle ends.
ReadFails ==
    /\ \/ pc = "reconcile" /\ todo # <<>>
       \/ pc = "verify"
    /\ AbandonPass
    /\ UNCHANGED halted

\* The process dies between two awaits and is restarted; a halt is in memory only.
Crash ==
    /\ pc # "idle" \/ halted
    /\ AbandonPass
    /\ halted' = FALSE

KeeperStep ==
    \/ StartPass \/ ReconcileRead \/ SettleIntent \/ Plan
    \/ SkipBatch \/ RefuseBatch \/ RecordIntent \/ Send
    \/ CommitRefused \/ ConfirmLanded \/ VerifyCommit \/ EndPass

Next ==
    \/ \E r \in Records, version \in Versions, sound \in BOOLEAN :
          RecordTrade(r, version, sound)
    \/ \E r \in Records : CloseRecord(r) \/ CommitForeign(r)
    \/ \E tx \in inflight : Land(tx) \/ FailOnChain(tx) \/ Expire(tx)
    \/ StartPass \/ ReconcileRead \/ SettleIntent \/ Plan
    \/ SkipBatch \/ RefuseBatch \/ RecordIntent \/ Send
    \/ CommitRefused \/ CommitUnknown \/ ConfirmLanded \/ VerifyCommit
    \/ EndPass \/ ReadFails \/ Crash

Spec == Init /\ [][Next]_vars

\* The timer keeps firing and every await returns; a sent transaction is either
\* taken or refused while its blockhash lasts.
Fairness ==
    /\ WF_vars(KeeperStep)
    /\ WF_vars(\E tx \in inflight : Land(tx) \/ FailOnChain(tx))
FairSpec == Spec /\ Fairness

------------------------------------------------------------------------------
(***************************************************************************)
(* Correctness                                                             *)
(***************************************************************************)

\* Every row, transaction and cursor has the shape the code gives it, and the
\* pass counts only rows it holds: `commits`, `inflight` and the runner's locals.
TypeOK ==
    /\ trades \in Seq([record : Records, version : Versions, sound : BOOLEAN])
    /\ commits \subseteq Row
    /\ DOMAIN chain = Records /\ closed \subseteq Records
    /\ \A tx \in inflight : tx.record \in Records /\ tx.awaited \in BOOLEAN
    /\ pc \in {"idle", "reconcile", "settle", "commit", "send", "confirm", "verify"}
    /\ ToSet(todo) \subseteq Pending
    /\ \A i \in DOMAIN batches : batches[i] # <<>> /\ ToSet(batches[i]) \subseteq DOMAIN trades
    /\ blocked \subseteq Records
    /\ awaiting \in {"nothing", "inflight", "landed", "failed"}
    /\ halted \in BOOLEAN
    /\ faults \in 0 .. FaultBound /\ foreign \in 0 .. ForeignBound
    /\ \A tx1, tx2 \in inflight : tx1.awaited /\ tx2.awaited => tx1 = tx2

\* The chain is always accounted for (keeper.ts:94-97): a trader's accumulator is
\* what our last confirmed row predicted, unless exactly one intent is open, and
\* then it is what that intent started from or what it predicted (records written
\* to by somebody else apart).  A confirmed row is on the chain even next to foreign
\* writes: a replay of his record gives a trader all he is shown as sealed.
Intents(r) == {c \in Pending : c.record = r}
Accounted(r) ==
    /\ Intents(r) = {} => chain[r] = LocalAccumulator(r)
    /\ \A c \in Intents(r) : /\ Intents(r) = {c}
                             /\ c.previous = LocalAccumulator(r)
                             /\ chain[r] \in {c.previous, c.predicted}
ChainAccounted ==
    /\ TypeOK
    /\ \A r \in Records : ForeignBatch \notin ToSet(chain[r]) => Accounted(r)
    /\ \A c \in commits : c.confirmed => IsPrefix(c.predicted, chain[c.record])

\* A row claims a range of ids (commits.ts:33-36, leaves.ts:144-159): every trade
\* of the trader inside the range is in the batch, so the range neither hides a
\* trade from later passes nor adds a leaf when the batch is rebuilt for an audit.
RangeIsBatch ==
    \A c \in commits : \A i \in Head(c.batch.ids) .. Last(c.batch.ids) :
        trades[i].record = c.record => i \in ToSet(c.batch.ids)

\* Across crashes, lost answers, retries and foreign writes the batches the keeper
\* itself lands are what SealedLog promises: each trade at most once, in order,
\* without a gap, one engine version a batch, nothing that does not rebuild.
Own(acc) ==
    LET own[n \in 0 .. Len(acc)] ==
            IF n = 0 THEN <<>>
            ELSE IF acc[n] = ForeignBatch THEN own[n - 1] ELSE Append(own[n - 1], acc[n])
    IN  own[Len(acc)]
OwnChain == [r \in Records |-> Own(chain[r])]
Sealed == INSTANCE SealedLog WITH chain <- OwnChain
ImplementsSealedLog == Sealed!Spec

\* A foreign write stops the keeper and nothing else does (keeper.ts:131-134).  Crashes,
\* lost answers and expired transactions alone never halt it; after a foreign write to
\* a trader's record it adds at most one batch of its own, the one it may have had on
\* its way, however often it is restarted.
HaltsForForeignOnly ==
    /\ halted => foreign > 0
    /\ \A r \in Records : \A i, j, k \in DOMAIN chain[r] :
          i < j /\ j < k /\ chain[r][i] = ForeignBatch =>
              ForeignBatch \in {chain[r][j], chain[r][k]}

\* Every sound trade of a record that stays open is sealed in the end, whatever
\* happens to the others; only an unsound trade of the same trader may hold it up
\* (runner.ts:116-118: a bad record does not stall every other trader), and only a
\* foreign write may stop the keeper.
HeldUp(i) == \E j \in DOMAIN trades : trades[j].record = trades[i].record /\ ~trades[j].sound
Excused(i) == trades[i].record \in closed \/ HeldUp(i) \/ foreign > 0
SealsEverything ==
    \A i \in 1 .. TradeBound :
        i \in DOMAIN trades ~>
            i \in DOMAIN trades /\ (Excused(i) \/ i \in IdsOf(chain[trades[i].record]))

\* "so the batch can be safely planned again" (keeper.ts:126): no trade is folded
\* into a trader's accumulator twice.
NothingSealedTwice ==
    \A r \in Records : \A i, j \in DOMAIN chain[r] :
        i # j => ToSet(chain[r][i].ids) \cap ToSet(chain[r][j].ids) = {}
==============================================================================
