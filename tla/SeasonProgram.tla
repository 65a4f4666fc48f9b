---------------------------- MODULE SeasonProgram ----------------------------
(***************************************************************************)
(* The Anchor program src/program/programs/probatio: one ranked season,    *)
(* its vault, the entries paid into it and the trade records committed to  *)
(* it.  Each instruction handler is one action; its account constraints    *)
(* and require! lines are the action's guard, and a transaction that fails *)
(* one of them changes nothing, so it is no step at all.                   *)
(*                                                                         *)
(* What the model abstracts:                                               *)
(*   - a public key is a model value, and an instruction that has_one      *)
(*     authority is simply taken by the authority;                         *)
(*   - sha256 is collision free, so a trader's accumulator is the sequence *)
(*     of batches folded into it and a results root is determined by the   *)
(*     set of claims that some merkle path proves against it;              *)
(*   - the unix clock is a small integer that advances by Tick;            *)
(*   - the parameters that no handler reads back (balances, latency, the   *)
(*     formula hash, the finalized_at and voided_at stamps) are left out.  *)
(***************************************************************************)
EXTENDS Integers, Sequences, FiniteSets

LOCAL INSTANCE SequencesExt       \* FoldLeft
LOCAL INSTANCE FiniteSetsExt      \* MapThenSumSet

CONSTANTS
    Keys,           \* keys that may be the admin, an authority or a keeper
    NoKey,          \* "no such account yet"
    Traders,
    SeasonParams,   \* the parameters an admin may pass to init_season
    Batches,        \* batches a keeper may commit, empty ones included
    Roots,          \* results roots an authority may publish
    ZeroRoot,       \* thirty-two zero bytes: results_root before finalization
    Claims,         \* every result anybody may try to claim
    LeavesOf,       \* LeavesOf[root]: the claims some path proves against root
    Rent,           \* minimum_balance(0)
    Deposits,       \* amounts an outsider may send straight to the vault
    MaxU64,         \* the largest lamport amount an account can hold
    MaxCount,       \* the largest u32
    MaxTime,        \* bound of the model: the clock stops here
    MaxCommits      \* bound of the model: batches per record

FreePlayOrdinal == -1
MaxBps == 10000

Param == [ordinal : Int, keeper : Keys, startsAt : Int, entryClosesAt : Int,
          endsAt : Int, entryCost : Nat, houseBps : Nat, slippageBps : Nat]
Batch == [root : STRING, leaves : Nat, engineVersion : Nat]
Claim == [trader : Traders, rank : Nat, payout : Nat]

ASSUME KeyAssumption == NoKey \notin Keys
ASSUME TraderAssumption == IsFiniteSet(Traders)
ASSUME ParamAssumption == SeasonParams \subseteq Param
ASSUME BatchAssumption == Batches \subseteq Batch
ASSUME ClaimAssumption == Claims \subseteq Claim
ASSUME RootAssumption ==
    /\ ZeroRoot \notin Roots
    /\ LeavesOf \in [Roots -> SUBSET Claims]
ASSUME AmountAssumption ==
    /\ Rent \in Nat /\ MaxU64 \in Nat /\ Rent <= MaxU64
    /\ Deposits \subseteq Nat
    /\ MaxCount \in Nat \ {0} /\ MaxTime \in Nat /\ MaxCommits \in Nat
    /\ Cardinality(Traders) <= MaxCount

VARIABLES
    admin,      \* Config.admin, or NoKey before init_config
    season,     \* the Season account
    entries,    \* the Entry account of each trader
    records,    \* the TraderRecord account of each trader
    vault,      \* lamports held by the vault
    now,        \* Clock::unix_timestamp
    payouts,    \* history: what the vault has paid each trader, in order
    prizesPaid  \* history: total lamports paid out as prizes

vars == <<admin, season, entries, records, vault, now, payouts, prizesPaid>>

Statuses == {"Absent", "Pending", "EntryOpen", "Running", "Closed",
             "Finalized", "Voided"}
Terminal == {"Finalized", "Voided"}

Season == [status : Statuses, authority : Keys \cup {NoKey},
           keeper : Keys \cup {NoKey}, ordinal : Int, entryClosesAt : Int,
           endsAt : Int, entryCost : Nat, entryCount : 0 .. MaxCount,
           pot : 0 .. MaxU64, resultsRoot : Roots \cup {ZeroRoot},
           awardable : 0 .. MaxU64]
Entry == [state : {"absent", "unclaimed", "claimed"}, paid : Nat]
TraderRecord == [accumulator : Seq(Batches), commitCount : 0 .. MaxCount,
                 leafCount : 0 .. MaxU64]
Payout == [kind : {"prize", "refund"}, amount : Nat]

NoSeason == [status |-> "Absent", authority |-> NoKey, keeper |-> NoKey,
             ordinal |-> 0, entryClosesAt |-> 0, endsAt |-> 0, entryCost |-> 0,
             entryCount |-> 0, pot |-> 0, resultsRoot |-> ZeroRoot,
             awardable |-> 0]
NoEntry == [state |-> "absent", paid |-> 0]
NoRecord == [accumulator |-> <<>>, commitCount |-> 0, leafCount |-> 0]

SaturatingAdd(a, b, max) == IF a + b > max THEN max ELSE a + b
SaturatingSub(a, b) == IF a < b THEN 0 ELSE a - b

Entered == {t \in Traders : entries[t].state # "absent"}
Unclaimed == {t \in Traders : entries[t].state = "unclaimed"}

\* What a claim or a refund may take: the vault stays rent exempt.
Available == SaturatingSub(vault, Rent)

\* The states in which a season still takes commits, keepers and a void.
FinalizedOnlyIsOver == season.status \notin {"Absent", "Finalized"}
StillOpen == season.status \notin Terminal \cup {"Absent"}

------------------------------------------------------------------------------
Init ==
    /\ admin = NoKey
    /\ season = NoSeason
    /\ entries = [t \in Traders |-> NoEntry]
    /\ records = [t \in Traders |-> NoRecord]
    /\ vault = 0
    /\ now = 0
    /\ payouts = [t \in Traders |-> <<>>]
    /\ prizesPaid = 0

\* init_config: `init` refuses a second call, so the first caller names the admin.
InitConfig(key) ==
    /\ admin = NoKey
    /\ admin' = key
    /\ UNCHANGED <<season, entries, records, vault, now, payouts, prizesPaid>>

\* The rent the vault starts with is the authority's, not the entrants'.
NoTopUp == vault
ToppedUp == IF vault < Rent THEN Rent ELSE vault

\* init_season: the admin becomes the authority, and tops the vault up to its
\* rent whatever was already sent to that address.
InitSeason(p) ==
    /\ admin # NoKey
    /\ season.status = "Absent"
    /\ p.endsAt > p.startsAt
    /\ p.entryClosesAt >= p.startsAt /\ p.entryClosesAt <= p.endsAt
    /\ p.houseBps <= MaxBps /\ p.slippageBps <= MaxBps
    /\ season' = [status |-> "Pending", authority |-> admin, keeper |-> p.keeper,
                  ordinal |-> p.ordinal, entryClosesAt |-> p.entryClosesAt,
                  endsAt |-> p.endsAt, entryCost |-> p.entryCost,
                  entryCount |-> 0, pot |-> 0, resultsRoot |-> ZeroRoot,
                  awardable |-> 0]
    /\ vault' = ToppedUp
    /\ UNCHANGED <<admin, entries, records, now, payouts, prizesPaid>>

OpenEntries ==
    /\ season.status = "Pending"
    /\ season' = [season EXCEPT !.status = "EntryOpen"]
    /\ UNCHANGED <<admin, entries, records, vault, now, payouts, prizesPaid>>

EntryUnpriced == [season EXCEPT !.entryCount = SaturatingAdd(@, 1, MaxCount)]
EntryCounted ==
    [season EXCEPT !.entryCount = SaturatingAdd(@, 1, MaxCount),
                   !.pot = SaturatingAdd(@, season.entryCost, MaxU64)]

\* record_entry: the runtime refuses a transfer the vault cannot hold, before
\* the saturating additions are reached.
RecordEntry(t) ==
    /\ season.status = "EntryOpen"
    /\ season.ordinal # FreePlayOrdinal
    /\ now <= season.entryClosesAt
    /\ entries[t].state = "absent"
    /\ vault + season.entryCost <= MaxU64
    /\ vault' = vault + season.entryCost
    /\ entries' = [entries EXCEPT ![t] = [state |-> "unclaimed",
                                          paid |-> season.entryCost]]
    /\ season' = EntryCounted
    /\ UNCHANGED <<admin, records, now, payouts, prizesPaid>>

StartTrading ==
    /\ season.status = "EntryOpen"
    /\ now >= season.entryClosesAt
    /\ season' = [season EXCEPT !.status = "Running"]
    /\ UNCHANGED <<admin, entries, records, vault, now, payouts, prizesPaid>>

SetKeeper(key) ==
    /\ StillOpen
    /\ season' = [season EXCEPT !.keeper = key]
    /\ UNCHANGED <<admin, entries, records, vault, now, payouts, prizesPaid>>

FoldedAfresh(record, b) ==
    [accumulator |-> Append(IF record.commitCount <= 1 THEN <<>>
                            ELSE record.accumulator, b),
     commitCount |-> SaturatingAdd(record.commitCount, 1, MaxCount),
     leafCount |-> SaturatingAdd(record.leafCount, b.leaves, MaxU64)]

\* The fold of commit_root: a first commit starts from the zero accumulator.
Folded(record, b) ==
    LET start == IF record.commitCount = 0 THEN <<>> ELSE record.accumulator
    IN  [accumulator |-> Append(start, b),
         commitCount |-> SaturatingAdd(record.commitCount, 1, MaxCount),
         leafCount |-> SaturatingAdd(record.leafCount, b.leaves, MaxU64)]

CommitRoot(signer, t, b) ==
    /\ StillOpen
    /\ signer = season.keeper
    /\ b.leaves > 0
    /\ Len(records[t].accumulator) < MaxCommits
    /\ records' = [records EXCEPT ![t] = Folded(@, b)]
    /\ UNCHANGED <<admin, season, entries, vault, now, payouts, prizesPaid>>

\* finalize_season: the pot as it stands is all there is to award.
FinalizeSeason(root) ==
    /\ root # ZeroRoot
    /\ season.status \in {"Running", "Closed"}
    /\ now >= season.endsAt
    /\ season' = [season EXCEPT !.status = "Finalized", !.resultsRoot = root,
                                !.awardable = season.pot]
    /\ UNCHANGED <<admin, entries, records, vault, now, payouts, prizesPaid>>

\* The two budgets of a claim: the pot as finalized, and the vault over its rent.
VaultOnly(amount) == Available >= amount
BudgetStrict(amount) == season.awardable > amount /\ Available >= amount
WithinBudget(amount) == season.awardable >= amount /\ Available >= amount

\* The transfer of claim_prize and refund_entry, which marks the entry claimed.
PayOutUnmarked(t, kind, amount) ==
    /\ vault' = vault - amount
    /\ entries' = entries
    /\ payouts' = [payouts EXCEPT ![t] = Append(@, [kind |-> kind, amount |-> amount])]
PayOut(t, kind, amount) ==
    /\ vault' = vault - amount
    /\ entries' = [entries EXCEPT ![t].state = "claimed"]
    /\ payouts' = [payouts EXCEPT ![t] = Append(@, [kind |-> kind, amount |-> amount])]

\* claim_prize: anybody submits, the trader named in the entry is paid.  The
\* merkle path of at most 32 steps stands for membership in LeavesOf.
ClaimPrize(c) ==
    /\ season.status = "Finalized"
    /\ entries[c.trader].state = "unclaimed"
    /\ c.rank >= 1 /\ c.payout > 0
    /\ c \in LeavesOf[season.resultsRoot]
    /\ c.payout <= MaxU64
    /\ WithinBudget(c.payout)
    /\ PayOut(c.trader, "prize", c.payout)
    /\ season' = [season EXCEPT !.awardable = SaturatingSub(@, c.payout)]
    /\ prizesPaid' = prizesPaid + c.payout
    /\ UNCHANGED <<admin, records, now>>

VoidSeason ==
    /\ StillOpen
    /\ season' = [season EXCEPT !.status = "Voided"]
    /\ UNCHANGED <<admin, entries, records, vault, now, payouts, prizesPaid>>

\* refund_entry: anybody submits, and the amount is what the entry says was paid.
RefundEntry(t) ==
    LET refund == entries[t].paid IN
    /\ season.status = "Voided"
    /\ entries[t].state = "unclaimed"
    /\ refund > 0
    /\ Available >= refund
    /\ PayOut(t, "refund", refund)
    /\ season' = [season EXCEPT !.pot = SaturatingSub(@, refund)]
    /\ UNCHANGED <<admin, records, now, prizesPaid>>

\* The system program lets anybody send lamports to the vault's address, even
\* before the season exists.
Deposit(amount) ==
    /\ vault + amount <= MaxU64
    /\ vault' = vault + amount
    /\ UNCHANGED <<admin, season, entries, records, now, payouts, prizesPaid>>

Tick ==
    /\ now < MaxTime
    /\ now' = now + 1
    /\ UNCHANGED <<admin, season, entries, records, vault, payouts, prizesPaid>>

Next ==
    \/ \E key \in Keys : InitConfig(key)
    \/ \E p \in SeasonParams : InitSeason(p)
    \/ OpenEntries
    \/ \E t \in Traders : RecordEntry(t)
    \/ StartTrading
    \/ \E key \in Keys : SetKeeper(key)
    \/ \E key \in Keys, t \in Traders, b \in Batches : CommitRoot(key, t, b)
    \/ \E root \in Roots \cup {ZeroRoot} : FinalizeSeason(root)
    \/ \E c \in Claims : ClaimPrize(c)
    \/ VoidSeason
    \/ \E t \in Traders : RefundEntry(t)
    \/ \E amount \in Deposits : Deposit(amount)
    \/ Tick

Spec == Init /\ [][Next]_vars

------------------------------------------------------------------------------
(***************************************************************************)
(* Properties                                                              *)
(***************************************************************************)

\* Every account holds what its struct declares, and no sum ever leaves u64.
TypeOK ==
    /\ admin \in Keys \cup {NoKey}
    /\ season \in Season
    /\ entries \in [Traders -> Entry]
    /\ records \in [Traders -> TraderRecord]
    /\ vault \in 0 .. MaxU64
    /\ now \in 0 .. MaxTime
    /\ payouts \in [Traders -> Seq(Payout)]
    /\ prizesPaid \in Nat

\* What the season still owes: the fees nobody was given back while it may yet
\* be voided, the unawarded part of the pot once it is finalized.
Owed == IF season.status = "Finalized" THEN season.awardable ELSE season.pot

\* The vault always holds its rent and everything the season still owes, in
\* whatever order entries, gifts, prizes and refunds arrive (init_season tops
\* the vault up; claim_prize and refund_entry draw it down).
Solvent == season.status # "Absent" => vault >= Rent + Owed

\* The two counters of the season agree with the entry accounts they summarise:
\* entry_count with who entered, pot_lamports with the fees not given back.
\* Neither saturation of record_entry nor that of refund_entry ever bites.
CountersMatchEntries ==
    /\ season.entryCount = Cardinality(Entered)
    /\ \A t \in Entered : entries[t].paid = season.entryCost
    /\ season.status # "Finalized" =>
          season.pot = season.entryCost * Cardinality(Unclaimed)

\* Prizes come out of a fixed pot: whatever the results root says, what was paid
\* and what may still be paid add up to what the entrants put in.
PrizesWithinPot ==
    prizesPaid + (IF season.status = "Finalized" THEN season.awardable ELSE season.pot)
        = season.pot

\* An entry is paid out at most once, as a prize of a finalized season or as a
\* refund of exactly what it paid into a voided one, and the claimed flag says
\* whether it was: no order of claim_prize and refund_entry pays it twice.
PaidAtMostOnce ==
    \A t \in Traders :
        /\ Len(payouts[t]) = IF entries[t].state = "claimed" THEN 1 ELSE 0
        /\ \A i \in DOMAIN payouts[t] :
              \/ payouts[t][i].kind = "prize" /\ season.status = "Finalized"
              \/ /\ payouts[t][i] = [kind |-> "refund", amount |-> entries[t].paid]
                 /\ season.status = "Voided"

\* docs/void-policy.md, "Every entrant is refunded exactly what they paid": in a
\* voided season refund_entry is open to every paying entrant still waiting,
\* whatever was refunded before; the vault is never the reason it fails.
RefundNeverBlocked ==
    \A t \in Traders :
        season.status = "Voided" /\ entries[t].state = "unclaimed"
            /\ entries[t].paid > 0
        => ENABLED RefundEntry(t)

\* A root the operator's own payout code could publish: at most one claim per
\* trader, every claimant an entrant, and no more awarded than the pot.
HonestRoot(root) ==
    LET claims == LeavesOf[root] IN
    /\ \A c \in claims : c.rank >= 1 /\ c.trader \in Entered
    /\ \A c, d \in claims : c.trader = d.trader => c = d
    /\ MapThenSumSet(LAMBDA c : c.payout, claims) <= season.pot

\* Under such a root nobody can be crowded out: each prize not yet taken can be
\* claimed, whoever claimed first and whatever else entered the vault.
HonestPrizeNeverBlocked ==
    season.status = "Finalized" /\ HonestRoot(season.resultsRoot) =>
        \A c \in LeavesOf[season.resultsRoot] :
            entries[c.trader].state = "unclaimed" /\ c.payout > 0
                => ENABLED ClaimPrize(c)

\* Nobody waits for money in vain: no order of gifts, claims and refunds leaves the vault
\* unable to give the next one what docs/void-policy.md and the published results say.
NobodyCrowdedOut == RefundNeverBlocked /\ HonestPrizeNeverBlocked

\* A record only grows: a step leaves a chain as it is or appends one batch, so
\* no keeper, old or new, rewrites a batch already committed.
ExtendsRecords ==
    \A t \in Traders :
        \/ records'[t] = records[t]
        \/ \E b \in Batches :
              records'[t].accumulator = Append(records[t].accumulator, b)
RecordOnlyExtends == [][ExtendsRecords]_vars

\* After results are published or the season is voided nothing they rest on can
\* move: not the status, the root, the cohort or any record, and the one cannot
\* become the other.
KeepsTerminal ==
    season.status \in Terminal =>
        /\ season'.status = season.status
        /\ season'.resultsRoot = season.resultsRoot
        /\ season'.keeper = season.keeper
        /\ Entered' = Entered
        /\ records' = records
TerminalIsFrozen == [][KeepsTerminal]_vars

==============================================================================
