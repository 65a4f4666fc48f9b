---------------------------- MODULE SeasonProofs ----------------------------
(***************************************************************************)
(* What the two halves of a season's money promise, for every set of       *)
(* traders, every amount and every schedule of prizes: the on-chain        *)
(* program that holds it (SeasonProgram) and the worker that pays it out   *)
(* (SeasonPayout).  Proofs checked by TLAPS.                               *)
(***************************************************************************)
EXTENDS SeasonProgram, SeasonPayout, BasicLemmas, SequenceTheorems

-----------------------------------------------------------------------------
(***************************************************************************)
(* The season program: what it holds and records                           *)
(***************************************************************************)

(***************************************************************************)
(* Typing.  A step of any instruction keeps every account within its       *)
(* declared type; the vault stays within u64 because the runtime checks    *)
(* every transfer.                                                         *)
(***************************************************************************)
LEMMA SaturatingAddFacts ==
    \A a, b, max \in Nat :
        /\ SaturatingAdd(a, b, max) \in 0 .. max
        /\ a + b <= max => SaturatingAdd(a, b, max) = a + b
BY DEF SaturatingAdd

LEMMA SaturatingSubFacts ==
    \A a, b \in Nat :
        /\ SaturatingSub(a, b) \in Nat
        /\ SaturatingSub(a, b) <= a
        /\ b <= a => SaturatingSub(a, b) = a - b
        /\ SaturatingSub(a, b) >= b /\ b > 0 => a >= b
BY DEF SaturatingSub

\* The fields of the accounts, spelled out for the leaves that compute with them.
LEMMA FieldTypes ==
    ASSUME TypeOK
    PROVE  /\ season.status \in Statuses
           /\ season.entryCost \in Nat
           /\ season.entryCount \in Nat /\ season.entryCount <= MaxCount
           /\ season.pot \in Nat /\ season.pot <= MaxU64
           /\ season.awardable \in Nat /\ season.awardable <= MaxU64
           /\ vault \in Nat /\ vault <= MaxU64
           /\ \A t \in Traders : entries[t].paid \in Nat
BY AmountAssumption DEF TypeOK, Season, Entry

LEMMA TypeInit == Init => TypeOK
BY AmountAssumption
   DEF Init, TypeOK, Season, Entry, TraderRecord, Payout, NoSeason, NoEntry,
       NoRecord, Statuses

LEMMA FoldedType ==
    ASSUME NEW r \in TraderRecord, NEW b \in Batches
    PROVE  Folded(r, b) \in TraderRecord
<1>1. b.leaves \in Nat
  BY BatchAssumption DEF Batch
<1> DEFINE start == IF r.commitCount = 0 THEN <<>> ELSE r.accumulator
<1>2. start \in Seq(Batches)
  BY DEF TraderRecord
<1>3. Append(start, b) \in Seq(Batches)
  BY <1>2
<1>4. /\ SaturatingAdd(r.commitCount, 1, MaxCount) \in 0 .. MaxCount
      /\ SaturatingAdd(r.leafCount, b.leaves, MaxU64) \in 0 .. MaxU64
  <2>1. r.commitCount \in Nat /\ r.leafCount \in Nat
    BY AmountAssumption DEF TraderRecord
  <2> QED
    BY <1>1, <2>1, SaturatingAddFacts, AmountAssumption
<1> QED
  BY <1>3, <1>4 DEF Folded, TraderRecord

LEMMA TypeStep == TypeOK /\ [Next]_vars => TypeOK'
<1> SUFFICES ASSUME TypeOK, [Next]_vars PROVE TypeOK'
  OBVIOUS
<1> USE DEF TypeOK
<1>1. ASSUME NEW key \in Keys, InitConfig(key) PROVE TypeOK'
  BY <1>1 DEF InitConfig
<1>2. ASSUME NEW p \in SeasonParams, InitSeason(p) PROVE TypeOK'
  <2>1. p \in Param
    BY ParamAssumption
  <2>2. season' \in Season
    <3>1. admin \in Keys
      BY <1>2 DEF InitSeason
    <3>2. 0 \in 0 .. MaxU64 /\ 0 \in 0 .. MaxCount
      BY AmountAssumption
    <3> QED
      BY <1>2, <2>1, <3>1, <3>2 DEF InitSeason, Season, Statuses, Param
  <2> QED
    BY <1>2, <2>2, AmountAssumption DEF InitSeason, ToppedUp
<1>3. CASE OpenEntries
  BY <1>3 DEF OpenEntries, Season, Statuses
<1>4. ASSUME NEW t \in Traders, RecordEntry(t) PROVE TypeOK'
  <2>1. season' \in Season
    <3>1. /\ SaturatingAdd(season.entryCount, 1, MaxCount) \in 0 .. MaxCount
          /\ SaturatingAdd(season.pot, season.entryCost, MaxU64) \in 0 .. MaxU64
      BY FieldTypes, SaturatingAddFacts, AmountAssumption
    <3> QED
      BY <1>4, <3>1 DEF RecordEntry, EntryCounted, Season
  <2>2. entries' \in [Traders -> Entry]
    BY <1>4 DEF RecordEntry, Season, Entry
  <2>3. vault' \in 0 .. MaxU64
    <3>1. season.entryCost \in Nat
      BY FieldTypes
    <3> QED
      BY <1>4, <3>1, AmountAssumption DEF RecordEntry
  <2> QED
    BY <1>4, <2>1, <2>2, <2>3 DEF RecordEntry
<1>5. CASE StartTrading
  BY <1>5 DEF StartTrading, Season, Statuses
<1>6. ASSUME NEW key \in Keys, SetKeeper(key) PROVE TypeOK'
  BY <1>6 DEF SetKeeper, StillOpen, Season
<1>7. ASSUME NEW key \in Keys, NEW t \in Traders, NEW b \in Batches,
             CommitRoot(key, t, b)
      PROVE  TypeOK'
  BY <1>7, FoldedType DEF CommitRoot, StillOpen
<1>8. ASSUME NEW root \in Roots \cup {ZeroRoot}, FinalizeSeason(root) PROVE TypeOK'
  BY <1>8 DEF FinalizeSeason, Season, Statuses
<1>9. ASSUME NEW c \in Claims, ClaimPrize(c) PROVE TypeOK'
  <2>1. c.trader \in Traders /\ c.payout \in Nat
    BY ClaimAssumption DEF Claim
  <2>2. season' \in Season
    <3>1. SaturatingSub(season.awardable, c.payout) \in 0 .. MaxU64
      <4>1. /\ SaturatingSub(season.awardable, c.payout) \in Nat
            /\ SaturatingSub(season.awardable, c.payout) <= season.awardable
        BY <2>1, FieldTypes, SaturatingSubFacts
      <4> QED
        BY <4>1, FieldTypes, AmountAssumption
    <3> QED
      BY <1>9, <3>1 DEF ClaimPrize, PayOut, WithinBudget, Season
  <2>3. entries' \in [Traders -> Entry]
    BY <1>9, <2>1 DEF ClaimPrize, PayOut, WithinBudget, Entry
  <2>4. payouts' \in [Traders -> Seq(Payout)]
    BY <1>9, <2>1 DEF ClaimPrize, PayOut, WithinBudget, Payout
  <2>5. vault' \in 0 .. MaxU64
    BY <1>9, <2>1, AmountAssumption, SMTT(30) DEF ClaimPrize, PayOut, WithinBudget, Available, SaturatingSub
  <2> QED
    BY <1>9, <2>1, <2>2, <2>3, <2>4, <2>5 DEF ClaimPrize, PayOut, WithinBudget
<1>10. CASE VoidSeason
  BY <1>10 DEF VoidSeason, StillOpen, Season, Statuses
<1>11. ASSUME NEW t \in Traders, RefundEntry(t) PROVE TypeOK'
  <2>1. entries[t].paid \in Nat
    BY DEF Entry
  <2>2. season' \in Season
    <3>1. SaturatingSub(season.pot, entries[t].paid) \in 0 .. MaxU64
      <4>1. /\ SaturatingSub(season.pot, entries[t].paid) \in Nat
            /\ SaturatingSub(season.pot, entries[t].paid) <= season.pot
        BY <2>1, FieldTypes, SaturatingSubFacts
      <4> QED
        BY <4>1, FieldTypes, AmountAssumption
    <3> QED
      BY <1>11, <3>1 DEF RefundEntry, PayOut, Season
  <2>3. entries' \in [Traders -> Entry]
    BY <1>11 DEF RefundEntry, PayOut, Entry
  <2>4. payouts' \in [Traders -> Seq(Payout)]
    BY <1>11, <2>1 DEF RefundEntry, PayOut, Payout
  <2>5. vault' \in 0 .. MaxU64
    BY <1>11, <2>1, AmountAssumption DEF RefundEntry, PayOut, Available, SaturatingSub
  <2> QED
    BY <1>11, <2>1, <2>2, <2>3, <2>4, <2>5 DEF RefundEntry, PayOut
<1>12. ASSUME NEW amount \in Deposits, Deposit(amount) PROVE TypeOK'
  BY <1>12, AmountAssumption DEF Deposit
<1>13. CASE Tick
  BY <1>13, AmountAssumption DEF Tick
<1>14. CASE UNCHANGED vars
  BY <1>14 DEF vars
<1> QED
  BY <1>1, <1>2, <1>3, <1>4, <1>5, <1>6, <1>7, <1>8, <1>9, <1>10, <1>11,
     <1>12, <1>13, <1>14 DEF Next

\* Every reachable state is well typed: no instruction overflows a field or
\* leaves a status or a record outside its struct (state.rs).
THEOREM TypeCorrect == Spec => []TypeOK
BY TypeInit, TypeStep, PTL DEF Spec

------------------------------------------------------------------------------
(***************************************************************************)
(* The money.  Solvency alone is not inductive: that a refund leaves the   *)
(* vault able to pay the next one needs the pot to be exactly the fees not *)
(* yet given back, and that a claim does needs the prizes to be counted    *)
(* against the pot.  The four ledger invariants are inductive together,    *)
(* with the fact that nobody enters a season that does not exist yet.      *)
(***************************************************************************)
NoEntryBeforeSeason == season.status = "Absent" => Entered = {}

Ledger ==
    /\ Solvent
    /\ CountersMatchEntries
    /\ PrizesWithinPot
    /\ PaidAtMostOnce
    /\ NoEntryBeforeSeason

LEMMA EntrantsFinite ==
    /\ IsFiniteSet(Entered) /\ Cardinality(Entered) \in Nat
    /\ IsFiniteSet(Unclaimed) /\ Cardinality(Unclaimed) \in Nat
    /\ Cardinality(Entered) <= Cardinality(Traders)
    /\ Cardinality(Traders) \in Nat
<1>1. Entered \in SUBSET Traders /\ Unclaimed \in SUBSET Traders
  BY DEF Entered, Unclaimed
<1> QED
  BY <1>1, TraderAssumption, FS_Subset, FS_CardinalityType

LEMMA FirstPayout ==
    ASSUME NEW pays \in Seq(Payout), Len(pays) = 0, NEW p \in Payout
    PROVE  /\ Len(Append(pays, p)) = 1
           /\ DOMAIN Append(pays, p) = {1}
           /\ Append(pays, p)[1] = p
<1>1. Len(Append(pays, p)) = 1 /\ Append(pays, p)[1] = p
  OBVIOUS
<1>2. DOMAIN Append(pays, p) = 1 .. Len(Append(pays, p))
  OBVIOUS
<1> QED
  BY <1>1, <1>2

LEMMA OneMoreFee == \A c, n \in Nat : c * (n + 1) = c * n + c
OBVIOUS

LEMMA LedgerInit == Init => Ledger
<1> SUFFICES ASSUME Init PROVE Ledger
  OBVIOUS
<1>1. Entered = {} /\ Unclaimed = {}
  BY DEF Init, Entered, Unclaimed, NoEntry
<1>2. Cardinality(Entered) = 0
  BY <1>1, FS_EmptySet
<1> QED
  BY <1>1, <1>2
     DEF Init, Ledger, Solvent, CountersMatchEntries, PrizesWithinPot,
         PaidAtMostOnce, NoEntryBeforeSeason, NoSeason, NoEntry

\* A step that leaves the entries, the payouts and the season's money alone, and
\* takes nothing out of the vault, keeps the ledger unless it ends the season.
LEMMA LedgerQuiet ==
    ASSUME TypeOK, TypeOK', Ledger,
           entries' = entries, payouts' = payouts, prizesPaid' = prizesPaid,
           season'.pot = season.pot, season'.entryCost = season.entryCost,
           season'.entryCount = season.entryCount,
           season'.awardable = season.awardable,
           vault' >= vault,
           \/ season'.status = season.status
           \/ /\ season.status \notin Terminal \cup {"Absent"}
              /\ season'.status \notin {"Absent", "Finalized"}
    PROVE  Ledger'
<1>1. Entered' = Entered /\ Unclaimed' = Unclaimed
  BY DEF Entered, Unclaimed
<1>2. CountersMatchEntries'
  BY <1>1 DEF Ledger, CountersMatchEntries, Terminal
<1>3. PrizesWithinPot'
  BY DEF Ledger, PrizesWithinPot, Terminal
<1>4. Solvent'
  <2>1. Owed' = Owed
    BY DEF Owed, Terminal
  <2>2. Owed \in Nat /\ vault \in Nat /\ vault' \in Nat /\ Rent \in Nat
    BY FieldTypes, AmountAssumption DEF Owed, TypeOK
  <2> QED
    BY <2>1, <2>2 DEF Ledger, Solvent, Terminal
<1>5. PaidAtMostOnce'
  BY DEF Ledger, PaidAtMostOnce, Terminal
<1>6. NoEntryBeforeSeason'
  BY <1>1 DEF Ledger, NoEntryBeforeSeason
<1> QED
  BY <1>2, <1>3, <1>4, <1>5, <1>6 DEF Ledger

LEMMA LedgerInitSeason ==
    ASSUME TypeOK, TypeOK', Ledger, NEW p \in SeasonParams, InitSeason(p)
    PROVE  Ledger'
<1>1. /\ season.status = "Absent" /\ entries' = entries
      /\ payouts' = payouts /\ prizesPaid' = prizesPaid
  BY DEF InitSeason, ToppedUp
<1>2. /\ season'.status = "Pending" /\ season'.pot = 0
      /\ season'.entryCount = 0 /\ season'.awardable = 0
      /\ season'.entryCost \in Nat
  BY FieldTypes DEF InitSeason, TypeOK, Season
<1>3. Entered' = {} /\ Unclaimed' = {} /\ Unclaimed = {}
  BY <1>1 DEF Ledger, NoEntryBeforeSeason, Entered, Unclaimed
<1>4. CountersMatchEntries'
  <2>1. Cardinality(Entered') = 0 /\ Cardinality(Unclaimed') = 0
    BY <1>3, FS_EmptySet
  <2>2. season'.entryCost * Cardinality(Unclaimed') = 0
    BY <2>1, <1>2
  <2> QED
    BY <1>2, <1>3, <2>1, <2>2 DEF CountersMatchEntries
<1>5. prizesPaid = 0
  BY <1>1, FieldTypes DEF Ledger, PrizesWithinPot, TypeOK
<1>6. PrizesWithinPot'
  BY <1>1, <1>2, <1>5 DEF PrizesWithinPot
<1>7. Solvent'
  BY <1>2, AmountAssumption, FieldTypes DEF InitSeason, ToppedUp, Solvent, Owed
<1>8. PaidAtMostOnce'
  BY <1>1, <1>2 DEF Ledger, PaidAtMostOnce
<1> QED
  BY <1>2, <1>4, <1>6, <1>7, <1>8 DEF Ledger, NoEntryBeforeSeason

LEMMA LedgerRecordEntry ==
    ASSUME TypeOK, TypeOK', Ledger, NEW t \in Traders, RecordEntry(t)
    PROVE  Ledger'
<1> DEFINE cost == season.entryCost
<1>1. /\ t \notin Entered /\ t \notin Unclaimed
      /\ Entered' = Entered \cup {t} /\ Unclaimed' = Unclaimed \cup {t}
  BY DEF RecordEntry, TypeOK, Entered, Unclaimed
<1>2. /\ Cardinality(Entered') = Cardinality(Entered) + 1
      /\ Cardinality(Unclaimed') = Cardinality(Unclaimed) + 1
      /\ Cardinality(Entered') <= Cardinality(Traders)
  <2>1. Entered' \in SUBSET Traders
    BY DEF Entered
  <2> QED
    BY <1>1, <2>1, EntrantsFinite, TraderAssumption, FS_AddElement, FS_Subset
<1>3. /\ season.pot = cost * Cardinality(Unclaimed)
      /\ season.entryCount = Cardinality(Entered)
      /\ vault >= Rent + season.pot
  BY DEF RecordEntry, Ledger, CountersMatchEntries, Solvent, Owed
<1>4. /\ season.pot + cost <= MaxU64
      /\ season.entryCount + 1 <= MaxCount
  BY <1>2, <1>3, EntrantsFinite, FieldTypes, AmountAssumption DEF RecordEntry
<1>5. /\ season'.pot = season.pot + cost
      /\ season'.entryCount = season.entryCount + 1
      /\ season'.entryCost = cost
      /\ season'.status = "EntryOpen" /\ season.status = "EntryOpen"
      /\ vault' = vault + cost
  <2>1. /\ SaturatingAdd(season.pot, cost, MaxU64) = season.pot + cost
        /\ SaturatingAdd(season.entryCount, 1, MaxCount) = season.entryCount + 1
    BY <1>4, FieldTypes, SaturatingAddFacts, AmountAssumption
  <2> QED
    BY <2>1 DEF RecordEntry, EntryCounted, TypeOK, Season
<1>6. CountersMatchEntries'
  <2>1. cost * (Cardinality(Unclaimed) + 1) = cost * Cardinality(Unclaimed) + cost
    BY OneMoreFee, EntrantsFinite, FieldTypes
  <2>2. \A s \in Entered' : entries'[s].paid = cost
    BY <1>1 DEF RecordEntry, TypeOK, Entered, Ledger, CountersMatchEntries
  <2> QED
    BY <1>2, <1>3, <1>5, <2>1, <2>2 DEF CountersMatchEntries
<1>7. Solvent'
  BY <1>3, <1>5, FieldTypes, AmountAssumption DEF Solvent, Owed
<1>8. PrizesWithinPot'
  BY <1>5, FieldTypes DEF RecordEntry, Ledger, PrizesWithinPot, TypeOK
<1>9. PaidAtMostOnce'
  BY <1>5 DEF RecordEntry, TypeOK, Ledger, PaidAtMostOnce
<1> QED
  BY <1>5, <1>6, <1>7, <1>8, <1>9 DEF Ledger, NoEntryBeforeSeason

LEMMA LedgerFinalizeSeason ==
    ASSUME TypeOK, TypeOK', Ledger, NEW root, FinalizeSeason(root)
    PROVE  Ledger'
<1>1. /\ season.status \in {"Running", "Closed"} /\ season'.status = "Finalized"
      /\ season'.pot = season.pot /\ season'.awardable = season.pot
      /\ season'.entryCount = season.entryCount
      /\ season'.entryCost = season.entryCost
      /\ entries' = entries /\ payouts' = payouts /\ prizesPaid' = prizesPaid
      /\ vault' = vault
  BY DEF FinalizeSeason, TypeOK, Season
<1>2. Entered' = Entered
  BY <1>1 DEF Entered
<1>3. CountersMatchEntries'
  BY <1>1, <1>2 DEF Ledger, CountersMatchEntries
<1>4. PrizesWithinPot' /\ Solvent'
  BY <1>1, FieldTypes DEF Ledger, PrizesWithinPot, Solvent, Owed, TypeOK
<1>5. PaidAtMostOnce'
  BY <1>1 DEF Ledger, PaidAtMostOnce
<1> QED
  BY <1>1, <1>3, <1>4, <1>5 DEF Ledger, NoEntryBeforeSeason

LEMMA LedgerClaimPrize ==
    ASSUME TypeOK, TypeOK', Ledger, NEW c \in Claims, ClaimPrize(c)
    PROVE  Ledger'
<1> DEFINE t == c.trader
<1>1. t \in Traders /\ c.payout \in Nat /\ c.payout > 0
  BY ClaimAssumption DEF ClaimPrize, PayOut, WithinBudget, Claim
<1>2. Entered' = Entered
  BY <1>1 DEF ClaimPrize, PayOut, WithinBudget, TypeOK, Entered
<1>3. /\ season.status = "Finalized" /\ season'.status = "Finalized"
      /\ season'.pot = season.pot
      /\ season'.entryCount = season.entryCount
      /\ season'.entryCost = season.entryCost
      /\ season'.awardable = season.awardable - c.payout
      /\ prizesPaid' = prizesPaid + c.payout
      /\ vault' = vault - c.payout
  <2>1. SaturatingSub(season.awardable, c.payout) = season.awardable - c.payout
    BY <1>1, FieldTypes, SaturatingSubFacts DEF ClaimPrize, PayOut, WithinBudget
  <2> QED
    BY <2>1 DEF ClaimPrize, PayOut, WithinBudget, TypeOK, Season
<1>4. CountersMatchEntries'
  <2>1. \A s \in Entered' : entries'[s].paid = season.entryCost
    BY <1>1, <1>2 DEF ClaimPrize, PayOut, WithinBudget, TypeOK, Entry, Entered, Ledger, CountersMatchEntries
  <2> QED
    BY <1>2, <1>3, <2>1 DEF Ledger, CountersMatchEntries
<1>5. Solvent'
  BY <1>1, <1>3, FieldTypes, AmountAssumption DEF Ledger, Solvent, Owed
<1>6. PrizesWithinPot'
  BY <1>1, <1>3, FieldTypes, SMTT(30) DEF Ledger, PrizesWithinPot, TypeOK
<1>7. PaidAtMostOnce'
  <2>1. payouts[t] \in Seq(Payout) /\ Len(payouts[t]) = 0
    BY <1>1 DEF ClaimPrize, PayOut, WithinBudget, TypeOK, Ledger, PaidAtMostOnce
  <2> DEFINE p == [kind |-> "prize", amount |-> c.payout]
  <2>2. /\ payouts'[t] = Append(payouts[t], p)
        /\ entries'[t].state = "claimed"
        /\ \A s \in Traders \ {t} :
              payouts'[s] = payouts[s] /\ entries'[s] = entries[s]
    BY <1>1, <2>1 DEF ClaimPrize, PayOut, WithinBudget, TypeOK, Entry
  <2>3. /\ Len(payouts'[t]) = 1 /\ DOMAIN payouts'[t] = {1}
        /\ payouts'[t][1].kind = "prize"
    <3>1. p \in Payout /\ p.kind = "prize"
      BY <1>1 DEF Payout
    <3> HIDE DEF p
    <3> QED
      BY <2>1, <2>2, <3>1, FirstPayout
  <2> SUFFICES ASSUME NEW s \in Traders
               PROVE  /\ Len(payouts'[s]) = IF entries'[s].state = "claimed" THEN 1 ELSE 0
                      /\ \A i \in DOMAIN payouts'[s] :
                            \/ payouts'[s][i].kind = "prize" /\ season'.status = "Finalized"
                            \/ /\ payouts'[s][i] = [kind |-> "refund",
                                                    amount |-> entries'[s].paid]
                               /\ season'.status = "Voided"
    BY DEF PaidAtMostOnce
  <2>4. CASE s = t
    BY <2>2, <2>3, <2>4, <1>3
  <2>5. CASE s # t
    BY <2>2, <2>5, <1>3 DEF Ledger, PaidAtMostOnce
  <2> QED
    BY <2>4, <2>5
<1> QED
  BY <1>3, <1>4, <1>5, <1>6, <1>7 DEF Ledger, NoEntryBeforeSeason

LEMMA LedgerRefundEntry ==
    ASSUME TypeOK, TypeOK', Ledger, NEW t \in Traders, RefundEntry(t)
    PROVE  Ledger'
<1> DEFINE cost == season.entryCost
<1>1. /\ t \in Unclaimed /\ t \in Entered
      /\ Entered' = Entered /\ Unclaimed' = Unclaimed \ {t}
  BY DEF RefundEntry, PayOut, TypeOK, Entered, Unclaimed
<1>2. entries[t].paid = cost /\ cost \in Nat /\ cost > 0
  BY <1>1, FieldTypes DEF RefundEntry, PayOut, Ledger, CountersMatchEntries
<1>3. /\ Cardinality(Unclaimed') \in Nat
      /\ Cardinality(Unclaimed) = Cardinality(Unclaimed') + 1
  <2>1. IsFiniteSet(Unclaimed) /\ Cardinality(Unclaimed) \in Nat
    BY EntrantsFinite
  <2>2. /\ IsFiniteSet(Unclaimed \ {t})
        /\ Cardinality(Unclaimed \ {t}) = Cardinality(Unclaimed) - 1
    BY <1>1, <2>1, FS_RemoveElement
  <2>3. Cardinality(Unclaimed \ {t}) \in Nat
    BY <2>2, FS_CardinalityType
  <2> QED
    BY <1>1, <2>1, <2>2, <2>3
<1>4. season.pot = cost * Cardinality(Unclaimed') + cost
  <2>1. season.pot = cost * Cardinality(Unclaimed)
    BY DEF RefundEntry, PayOut, Ledger, CountersMatchEntries
  <2> QED
    BY <2>1, <1>2, <1>3, OneMoreFee
<1>5. cost * Cardinality(Unclaimed') \in Nat
  BY <1>2, <1>3
<1>6. /\ season.status = "Voided" /\ season'.status = "Voided"
      /\ season'.pot = cost * Cardinality(Unclaimed')
      /\ season.pot = season'.pot + cost
      /\ season'.entryCount = season.entryCount
      /\ season'.entryCost = cost
      /\ prizesPaid' = prizesPaid
      /\ vault' = vault - cost
  <2>1. SaturatingSub(season.pot, cost) = cost * Cardinality(Unclaimed')
    BY <1>2, <1>4, <1>5, FieldTypes, SaturatingSubFacts
  <2> QED
    BY <1>2, <1>4, <2>1 DEF RefundEntry, PayOut, TypeOK, Season
<1>7. CountersMatchEntries'
  <2>1. \A s \in Entered' : entries'[s].paid = cost
    BY <1>1 DEF RefundEntry, PayOut, TypeOK, Entry, Entered, Ledger, CountersMatchEntries
  <2> QED
    BY <1>1, <1>6, <2>1 DEF Ledger, CountersMatchEntries
<1>8. Solvent'
  BY <1>2, <1>5, <1>6, FieldTypes, AmountAssumption DEF Ledger, Solvent, Owed
<1>9. PrizesWithinPot'
  <2>1. prizesPaid = 0
    BY <1>6, FieldTypes DEF Ledger, PrizesWithinPot, TypeOK
  <2>2. season'.pot \in Nat
    BY <1>5, <1>6
  <2> QED
    BY <1>6, <2>1, <2>2 DEF PrizesWithinPot
<1>10. PaidAtMostOnce'
  <2>1. payouts[t] \in Seq(Payout) /\ Len(payouts[t]) = 0
    BY DEF RefundEntry, PayOut, TypeOK, Ledger, PaidAtMostOnce
  <2> DEFINE p == [kind |-> "refund", amount |-> cost]
  <2>2. /\ payouts'[t] = Append(payouts[t], p)
        /\ entries'[t].state = "claimed" /\ entries'[t].paid = cost
        /\ \A s \in Traders \ {t} :
              payouts'[s] = payouts[s] /\ entries'[s] = entries[s]
    BY <1>2, <2>1 DEF RefundEntry, PayOut, TypeOK, Entry
  <2>3. Len(payouts'[t]) = 1 /\ DOMAIN payouts'[t] = {1} /\ payouts'[t][1] = p
    BY <1>2, <2>1, <2>2, FirstPayout DEF Payout
  <2> SUFFICES ASSUME NEW s \in Traders
               PROVE  /\ Len(payouts'[s]) = IF entries'[s].state = "claimed" THEN 1 ELSE 0
                      /\ \A i \in DOMAIN payouts'[s] :
                            \/ payouts'[s][i].kind = "prize" /\ season'.status = "Finalized"
                            \/ /\ payouts'[s][i] = [kind |-> "refund",
                                                    amount |-> entries'[s].paid]
                               /\ season'.status = "Voided"
    BY DEF PaidAtMostOnce
  <2>4. CASE s = t
    BY <2>2, <2>3, <2>4, <1>6
  <2>5. CASE s # t
    BY <2>2, <2>5, <1>6 DEF Ledger, PaidAtMostOnce
  <2> QED
    BY <2>4, <2>5
<1> QED
  BY <1>6, <1>7, <1>8, <1>9, <1>10 DEF Ledger, NoEntryBeforeSeason

LEMMA LedgerStep == TypeOK /\ TypeOK' /\ Ledger /\ [Next]_vars => Ledger'
<1> SUFFICES ASSUME TypeOK, TypeOK', Ledger, [Next]_vars PROVE Ledger'
  OBVIOUS
<1>1. ASSUME NEW key \in Keys, InitConfig(key) PROVE Ledger'
  BY <1>1, FieldTypes, LedgerQuiet DEF InitConfig
<1>2. ASSUME NEW p \in SeasonParams, InitSeason(p) PROVE Ledger'
  BY <1>2, LedgerInitSeason
<1>3. CASE OpenEntries
  BY <1>3, FieldTypes, LedgerQuiet, SMTT(30) DEF OpenEntries, TypeOK, Season, Terminal
<1>4. ASSUME NEW t \in Traders, RecordEntry(t) PROVE Ledger'
  BY <1>4, LedgerRecordEntry
<1>5. CASE StartTrading
  BY <1>5, FieldTypes, LedgerQuiet, SMTT(30) DEF StartTrading, TypeOK, Season, Terminal
<1>6. ASSUME NEW key \in Keys, SetKeeper(key) PROVE Ledger'
  BY <1>6, FieldTypes, LedgerQuiet, SMTT(30) DEF SetKeeper, StillOpen, TypeOK, Season
<1>7. ASSUME NEW key \in Keys, NEW t \in Traders, NEW b \in Batches,
             CommitRoot(key, t, b)
      PROVE  Ledger'
  BY <1>7, FieldTypes, LedgerQuiet DEF CommitRoot, StillOpen
<1>8. ASSUME NEW root \in Roots \cup {ZeroRoot}, FinalizeSeason(root) PROVE Ledger'
  BY <1>8, LedgerFinalizeSeason
<1>9. ASSUME NEW c \in Claims, ClaimPrize(c) PROVE Ledger'
  BY <1>9, LedgerClaimPrize
<1>10. CASE VoidSeason
  BY <1>10, FieldTypes, LedgerQuiet, SMTT(30) DEF VoidSeason, StillOpen, TypeOK, Season
<1>11. ASSUME NEW t \in Traders, RefundEntry(t) PROVE Ledger'
  BY <1>11, LedgerRefundEntry
<1>12. ASSUME NEW amount \in Deposits, Deposit(amount) PROVE Ledger'
  BY <1>12, FieldTypes, LedgerQuiet, AmountAssumption DEF Deposit
<1>13. CASE Tick
  BY <1>13, FieldTypes, LedgerQuiet DEF Tick
<1>14. CASE UNCHANGED vars
  BY <1>14, FieldTypes, LedgerQuiet DEF vars
<1> QED
  BY <1>1, <1>2, <1>3, <1>4, <1>5, <1>6, <1>7, <1>8, <1>9, <1>10, <1>11,
     <1>12, <1>13, <1>14 DEF Next

LEMMA LedgerInvariant == Spec => [](TypeOK /\ Ledger)
<1>1. Init => TypeOK /\ Ledger
  BY TypeInit, LedgerInit
<1>2. TypeOK /\ Ledger /\ [Next]_vars => (TypeOK /\ Ledger)'
  BY TypeStep, LedgerStep
<1> QED
  BY <1>1, <1>2, PTL DEF Spec

\* Whoever enters, whatever is sent to the vault and whatever was already
\* claimed or refunded, the vault holds its rent and all the season still owes.
THEOREM SolvencyHolds == Spec => []Solvent
<1>1. TypeOK /\ Ledger => Solvent
  BY DEF Ledger
<1> QED
  BY <1>1, LedgerInvariant, PTL

\* entry_count and pot_lamports are exactly what the entry accounts say, for any
\* number of traders and any entry cost.
THEOREM CountersHold == Spec => []CountersMatchEntries
<1>1. TypeOK /\ Ledger => CountersMatchEntries
  BY DEF Ledger
<1> QED
  BY <1>1, LedgerInvariant, PTL

\* Total prizes never exceed the pot, whatever results root was published.
THEOREM PrizesHold == Spec => []PrizesWithinPot
<1>1. TypeOK /\ Ledger => PrizesWithinPot
  BY DEF Ledger
<1> QED
  BY <1>1, LedgerInvariant, PTL

\* No entry is ever paid twice, and none takes both a prize and a refund.
THEOREM PaidOnceHolds == Spec => []PaidAtMostOnce
<1>1. TypeOK /\ Ledger => PaidAtMostOnce
  BY DEF Ledger
<1> QED
  BY <1>1, LedgerInvariant, PTL

------------------------------------------------------------------------------
(***************************************************************************)
(* The records.  commit_root starts a chain over when commit_count is      *)
(* zero, so that a chain is never rewritten needs the count of a chain     *)
(* with a batch in it never to be zero again: it saturates, never wraps.   *)
(***************************************************************************)
StartedRecords ==
    \A t \in Traders : records[t].commitCount = 0 => records[t].accumulator = <<>>

LEMMA StartedInit == Init => StartedRecords
BY DEF Init, StartedRecords, NoRecord

LEMMA FoldedStarted ==
    ASSUME NEW r \in TraderRecord, NEW b \in Batches,
           r.commitCount = 0 => r.accumulator = <<>>
    PROVE  /\ Folded(r, b).accumulator = Append(r.accumulator, b)
           /\ Folded(r, b).commitCount # 0
<1>1. SaturatingAdd(r.commitCount, 1, MaxCount) # 0
  BY AmountAssumption DEF SaturatingAdd, TraderRecord
<1> QED
  BY <1>1 DEF Folded

LEMMA RecordStep ==
    TypeOK /\ StartedRecords /\ [Next]_vars => StartedRecords' /\ ExtendsRecords
<1> SUFFICES ASSUME TypeOK, StartedRecords, [Next]_vars
             PROVE  StartedRecords' /\ ExtendsRecords
  OBVIOUS
<1>1. ASSUME NEW key \in Keys, NEW t \in Traders, NEW b \in Batches,
             CommitRoot(key, t, b)
      PROVE  StartedRecords' /\ ExtendsRecords
  <2>1. /\ records'[t] = Folded(records[t], b)
        /\ \A s \in Traders \ {t} : records'[s] = records[s]
    BY <1>1 DEF CommitRoot, StillOpen, TypeOK
  <2>2. /\ records'[t].accumulator = Append(records[t].accumulator, b)
        /\ records'[t].commitCount # 0
    BY <2>1, FoldedStarted DEF TypeOK, StartedRecords
  <2> QED
    BY <2>1, <2>2 DEF StartedRecords, ExtendsRecords
<1>2. CASE records' = records
  BY <1>2 DEF StartedRecords, ExtendsRecords
<1>3. CASE UNCHANGED vars
  BY <1>2, <1>3 DEF vars
<1> QED
  BY <1>1, <1>2, <1>3
     DEF Next, InitConfig, InitSeason, OpenEntries, RecordEntry, StartTrading,
         SetKeeper, FinalizeSeason, ClaimPrize, VoidSeason, RefundEntry,
         Deposit, Tick

\* A committed batch is never rewritten: every step of the program leaves each
\* record alone or appends one batch to it, under any sequence of keepers.
THEOREM RecordsOnlyExtend == Spec => RecordOnlyExtends
<1>1. Init => TypeOK /\ StartedRecords
  BY TypeInit, StartedInit
<1>2. TypeOK /\ StartedRecords /\ [Next]_vars
          => (TypeOK /\ StartedRecords)' /\ [ExtendsRecords]_vars
  BY TypeStep, RecordStep
<1> QED
  BY <1>1, <1>2, PTL DEF Spec, RecordOnlyExtends

LEMMA TerminalStep == TypeOK /\ [Next]_vars => KeepsTerminal
<1> SUFFICES ASSUME TypeOK, [Next]_vars, season.status \in Terminal
             PROVE  KeepsTerminal
  BY DEF KeepsTerminal
<1> USE DEF Terminal
<1>1. ASSUME NEW c \in Claims, ClaimPrize(c) PROVE KeepsTerminal
  <2>1. Entered' = Entered
    BY <1>1, ClaimAssumption DEF ClaimPrize, PayOut, WithinBudget, TypeOK, Entered, Claim
  <2> QED
    BY <1>1, <2>1 DEF ClaimPrize, PayOut, WithinBudget, TypeOK, Season, KeepsTerminal
<1>2. ASSUME NEW t \in Traders, RefundEntry(t) PROVE KeepsTerminal
  <2>1. Entered' = Entered
    BY <1>2 DEF RefundEntry, PayOut, TypeOK, Entered
  <2> QED
    BY <1>2, <2>1 DEF RefundEntry, PayOut, TypeOK, Season, KeepsTerminal
<1>3. CASE UNCHANGED <<season, entries, records>>
  BY <1>3 DEF KeepsTerminal, Entered
<1>4. CASE UNCHANGED vars
  BY <1>3, <1>4 DEF vars
<1> QED
  BY <1>1, <1>2, <1>3, <1>4
     DEF Next, InitConfig, InitSeason, OpenEntries, RecordEntry, StartTrading,
         SetKeeper, CommitRoot, FinalizeSeason, VoidSeason, StillOpen, Deposit, Tick

\* Finalized and voided are one-way doors for every season: the status, the
\* results root, the cohort and the records stand from then on.
THEOREM TerminalHolds == Spec => TerminalIsFrozen
<1>1. TypeOK /\ [Next]_vars => [KeepsTerminal]_vars
  BY TerminalStep
<1> QED
  BY <1>1, TypeCorrect, PTL DEF Spec, TerminalIsFrozen

-----------------------------------------------------------------------------
(***************************************************************************)
(* The season payout: the arithmetic of the prizes, then the worker        *)
(***************************************************************************)

(***************************************************************************)
(* Extremes                                                                *)
(***************************************************************************)

LEMMA MaxFacts ==
    ASSUME NEW S \in SUBSET Nat, IsFiniteSet(S), S # {}
    PROVE  Max(S) \in S /\ \A y \in S : Max(S) >= y
<1> DEFINE R == {pair \in S \X S : pair[1] < pair[2]}
<1>1. StrictOrder(S, R)
  BY DEF StrictOrder
<1>2. PICK x \in S : \A y \in S : y = x \/ <<y, x>> \in R
  <2> HIDE DEF R
  <2> QED
    BY <1>1, Greatest
<1>3. \A y \in S : x >= y
  <2> SUFFICES ASSUME NEW y \in S PROVE x >= y
    OBVIOUS
  <2>1. y = x \/ <<y, x>> \in R
    BY <1>2
  <2> QED
    BY <2>1, x \in Nat, y \in Nat
<1> QED
  BY <1>3 DEF Max

LEMMA MinFacts ==
    ASSUME NEW S \in SUBSET Nat, S # {}
    PROVE  Min(S) \in S /\ \A y \in S : Min(S) <= y
<1>1. PICK x \in S : \A y \in S : x <= y
  BY LeastNat
<1> QED
  BY <1>1 DEF Min

\* A total of natural numbers is one, and at least each of them.
LEMMA TotalNat ==
    ASSUME NEW S, IsFiniteSet(S), NEW w, \A x \in S : w[x] \in Nat
    PROVE  Total(w, S) \in Nat /\ \A x \in S : w[x] <= Total(w, S)
<1>1. \A x \in S : w[x] \in Int
  OBVIOUS
<1> PICK f \in [SUBSET S -> Int] : Sums(w, S, f) /\ Total(w, S) = f[S]
  BY <1>1, TotalIs
<1>2. /\ f[{}] = 0
      /\ \A r \in SUBSET S : r # {} => f[r] = w[Member(r)] + f[r \ {Member(r)}]
  <2>1. {} \in SUBSET S
    OBVIOUS
  <2> QED
    BY <2>1 DEF Sums
<1> DEFINE T == {n \in Nat : \A r \in SUBSET S : Cardinality(r) <= n => f[r] \in Nat}
<1>3. 0 \in T
  <2> SUFFICES ASSUME NEW r \in SUBSET S, Cardinality(r) <= 0 PROVE f[r] \in Nat
    OBVIOUS
  <2>1. r = {}
    BY MemberFacts
  <2> QED
    BY <1>2, <2>1
<1>4. ASSUME NEW n \in Nat, n \in T PROVE n + 1 \in T
  <2> SUFFICES ASSUME NEW r \in SUBSET S, Cardinality(r) <= n + 1 PROVE f[r] \in Nat
    OBVIOUS
  <2>1. CASE r = {}
    BY <1>2, <2>1
  <2>2. CASE r # {}
    <3>1. /\ Member(r) \in r /\ Cardinality(r) \in Nat /\ r \ {Member(r)} \in SUBSET S
          /\ Cardinality(r \ {Member(r)}) = Cardinality(r) - 1
      BY <2>2, MemberFacts
    <3>2. f[r \ {Member(r)}] \in Nat /\ w[Member(r)] \in Nat
      BY <1>4, <3>1
    <3> QED
      BY <1>2, <2>2, <3>2
  <2> QED
    BY <2>1, <2>2
<1>5. Nat \subseteq T
  <2> HIDE DEF T
  <2> QED
    BY <1>3, <1>4, Induction
<1>6. \A r \in SUBSET S : f[r] \in Nat
  <2> SUFFICES ASSUME NEW r \in SUBSET S PROVE f[r] \in Nat
    OBVIOUS
  <2>1. Cardinality(r) \in Nat
    BY MemberFacts
  <2> QED
    BY <1>5, <2>1
<1>7. ASSUME NEW x \in S PROVE w[x] <= f[S]
  <2>1. AllInts(w, S) /\ Tallies(w, S, f) /\ S \in SUBSET S
    BY <1>1 DEF AllInts, Tallies
  <2>2. f[S] = w[x] + f[S \ {x}]
    BY <2>1, SumOfRest
  <2>3. f[S \ {x}] \in Nat
    BY <1>6
  <2> QED
    BY <2>2, <2>3
<1> QED
  BY <1>6, <1>7

\* The community modules' sum of a function's values is that total.
LEMMA SumIs == ASSUME NEW w, NEW S PROVE SumFunctionOnSet(w, S) = Total(w, S)
BY DEF SumFunctionOnSet, FoldFunctionOnSet, Total

(***************************************************************************)
(* What the places are paid                                                *)
(***************************************************************************)

LEMMA SumFunctionIs == ASSUME NEW w PROVE SumFunction(w) = Total(w, DOMAIN w)
BY DEF SumFunction, SumFunctionOnSet, FoldFunctionOnSet, Total

\* What one more place adds to a total over the places.
LEMMA TotalOfPlaces ==
    ASSUME NEW w, NEW j \in Nat, \A i \in 1 .. j + 1 : w[i] \in Nat
    PROVE  /\ IsFiniteSet(1 .. j) /\ Total(w, 1 .. j) \in Nat
           /\ Total(w, 1 .. j + 1) = Total(w, 1 .. j) + w[j + 1]
<1> DEFINE S == 1 .. j
<1>1. IsFiniteSet(S) /\ j + 1 \notin S /\ 1 .. j + 1 = S \cup {j + 1}
  BY FS_Interval
<1>2. (\A i \in S \cup {j + 1} : w[i] \in Int) /\ \A i \in S : w[i] \in Nat
  OBVIOUS
<1> HIDE DEF S
<1> PICK x : x = j + 1
  OBVIOUS
<1>3. Total(w, S \cup {x}) = Total(w, S) + w[x]
  <2>1. IsFiniteSet(S) /\ x \notin S /\ \A y \in S \cup {x} : w[y] \in Int
    BY ONLY <1>1, <1>2, x = j + 1
  <2> QED
    BY ONLY <2>1, TotalOfMore
<1>4. Total(w, S) \in Nat
  BY ONLY <1>1, <1>2, TotalNat
<1>5. Total(w, 1 .. j + 1) = Total(w, S) + w[j + 1]
  BY ONLY <1>1, <1>3, x = j + 1
<1> QED
  BY ONLY <1>1, <1>4, <1>5 DEF S

\* If no place takes more than its share, all of them together do not.
LEMMA SharesKept ==
    ASSUME NEW m \in Nat, NEW v, NEW w, NEW c \in Nat, NEW d \in Nat,
           \A i \in 1 .. m : v[i] \in Nat /\ w[i] \in Nat /\ c * v[i] <= d * w[i]
    PROVE  /\ Total(v, 1 .. m) \in Nat /\ Total(w, 1 .. m) \in Nat
           /\ c * Total(v, 1 .. m) <= d * Total(w, 1 .. m)
<1> DEFINE Good(j) == /\ Total(v, 1 .. j) \in Nat /\ Total(w, 1 .. j) \in Nat
                      /\ c * Total(v, 1 .. j) <= d * Total(w, 1 .. j)
           T == {j \in Nat : j <= m => Good(j)}
<1>1. 0 \in T
  <2>1. 1 .. 0 = {}
    OBVIOUS
  <2>2. Total(v, 1 .. 0) = 0 /\ Total(w, 1 .. 0) = 0
    BY <2>1, TotalOfNone
  <2> QED
    BY <2>2
<1>2. ASSUME NEW j \in Nat, j \in T, j + 1 <= m PROVE Good(j + 1)
  <2>1. /\ Total(v, 1 .. j) \in Nat /\ Total(w, 1 .. j) \in Nat
        /\ c * Total(v, 1 .. j) <= d * Total(w, 1 .. j)
    BY <1>2
  <2>2. /\ v[j + 1] \in Nat /\ w[j + 1] \in Nat /\ c * v[j + 1] <= d * w[j + 1]
    BY <1>2
  <2>3. /\ Total(v, 1 .. j + 1) = Total(v, 1 .. j) + v[j + 1]
        /\ Total(w, 1 .. j + 1) = Total(w, 1 .. j) + w[j + 1]
    BY <1>2, TotalOfPlaces
  <2> PICK a, b, x, y : /\ a = Total(v, 1 .. j) /\ b = Total(w, 1 .. j)
                        /\ x = v[j + 1] /\ y = w[j + 1]
    OBVIOUS
  <2>4. /\ a \in Nat /\ b \in Nat /\ x \in Nat /\ y \in Nat
        /\ c * a <= d * b /\ c * x <= d * y
    BY <2>1, <2>2
  <2>5. c * (a + x) = c * a + c * x /\ d * (b + y) = d * b + d * y
    BY ONLY <2>4, c \in Nat, d \in Nat, Z3
  <2>6. /\ c * a \in Nat /\ c * x \in Nat /\ d * b \in Nat /\ d * y \in Nat
    BY ONLY <2>4, c \in Nat, d \in Nat, Z3
  <2>7. c * (a + x) <= d * (b + y)
    BY ONLY <2>4, <2>5, <2>6
  <2>8. a + x \in Nat /\ b + y \in Nat
    BY ONLY <2>4
  <2> QED
    BY ONLY <2>3, <2>7, <2>8, a = Total(v, 1 .. j), b = Total(w, 1 .. j), x = v[j + 1], y = w[j + 1]
<1>3. Nat \subseteq T
  <2>1. \A j \in Nat : j \in T => j + 1 \in T
    BY <1>2
  <2> HIDE DEF T
  <2> QED
    BY <1>1, <2>1, Induction
<1>4. m \in T
  BY <1>3
<1> QED
  BY <1>4

\* What changing the first place's share does to a total.
LEMMA TotalChanged ==
    ASSUME NEW m \in Nat, 1 \in 1 .. m, NEW v, NEW w,
           \A i \in 1 .. m : v[i] \in Int /\ w[i] \in Int /\ (i # 1 => v[i] = w[i])
    PROVE  /\ Total(v, 1 .. m) \in Int /\ v[1] \in Int /\ w[1] \in Int
           /\ Total(w, 1 .. m) = Total(v, 1 .. m) - v[1] + w[1]
<1> DEFINE R == (1 .. m) \ {1}
<1>1. R \in SUBSET (1 .. m) /\ 1 \notin R /\ 1 .. m = R \cup {1}
  OBVIOUS
<1>2. IsFiniteSet(R)
  <2>1. IsFiniteSet(1 .. m)
    BY FS_Interval
  <2> HIDE DEF R
  <2> QED
    BY <1>1, <2>1, FS_Subset
<1>3. \A i \in R : v[i] \in Int /\ v[i] = w[i]
  OBVIOUS
<1> HIDE DEF R
<1>4. Total(v, R) = Total(w, R)
  BY <1>2, <1>3, TotalAgrees
<1>5. \A i \in R \cup {1} : v[i] \in Int /\ w[i] \in Int
  BY <1>1
<1>6. Total(v, R) \in Int /\ Total(v, R \cup {1}) = Total(v, R) + v[1]
  BY ONLY <1>1, <1>2, <1>5, TotalOfMore
<1>7. Total(w, R \cup {1}) = Total(w, R) + w[1]
  BY ONLY <1>1, <1>2, <1>5, TotalOfMore
<1>8. v[1] \in Int /\ w[1] \in Int
  BY <1>5
<1> PICK a, b, c, d, e : /\ a = Total(v, R) /\ b = v[1] /\ c = w[1]
                         /\ d = Total(v, 1 .. m) /\ e = Total(w, 1 .. m)
  OBVIOUS
<1>9. a \in Int /\ b \in Int /\ c \in Int /\ d = a + b /\ e = a + c
  BY ONLY <1>1, <1>4, <1>6, <1>7, <1>8, a = Total(v, R), b = v[1], c = w[1],
     d = Total(v, 1 .. m), e = Total(w, 1 .. m)
<1>10. d \in Int /\ e = d - b + c
  BY ONLY <1>9
<1> QED
  BY ONLY <1>9, <1>10, b = v[1], c = w[1], d = Total(v, 1 .. m), e = Total(w, 1 .. m)

\* The cut is no more than the fees.
LEMMA HouseCutFacts ==
    ASSUME NEW pot \in Nat, NEW fees \in Nat
    PROVE  HouseCut(pot, fees) \in 0 .. fees
<1>1. HouseBps \in Nat /\ HouseBps <= Bps /\ Bps \in Nat \ {0}
  BY RulesetAssumption DEF Bps
<1> HIDE DEF Bps
<1>2. fees * HouseBps \in Nat /\ fees * HouseBps <= fees * Bps
  BY <1>1, Z3
<1> PICK a, q : a = fees * HouseBps /\ q = a \div Bps
  OBVIOUS
<1>3. q \in Nat /\ Bps * q <= a
  BY <1>1, <1>2, FloorFacts
<1>4. q <= fees
  <2>1. q * Bps <= fees * Bps
    BY <1>1, <1>2, <1>3, Z3
  <2> QED
    BY <1>1, <1>3, <2>1, ProductOrder
<1> QED
  BY <1>3, <1>4 DEF HouseCut

LEMMA BandFacts ==
    ASSUME NEW pot \in Nat
    PROVE  LET band == BandFor(pot).shares
           IN  /\ band \in Seq(Nat \ {0}) /\ Len(band) \in Nat \ {0}
               /\ \A p, q \in 1 .. Len(band) : p < q => band[p] >= band[q]
<1> DEFINE fit == {i \in DOMAIN Bands : pot >= Bands[i].minPot}
<1>1. /\ Bands \in Seq([minPot : Nat, shares : Seq(Nat \ {0})]) /\ Bands # <<>>
      /\ Bands[1].minPot = 0
  BY RulesetAssumption
<1>2. fit \in SUBSET Nat /\ IsFiniteSet(fit) /\ 1 \in fit
  <2>1. DOMAIN Bands = 1 .. Len(Bands) /\ Len(Bands) \in Nat /\ Len(Bands) >= 1
    BY <1>1
  <2>2. IsFiniteSet(1 .. Len(Bands))
    BY <2>1, FS_Interval
  <2>3. fit \in SUBSET (1 .. Len(Bands)) /\ 1 \in fit
    BY <1>1, <2>1
  <2> QED
    BY <2>1, <2>2, <2>3, FS_Subset
<1> PICK i : i = Max(fit)
  OBVIOUS
<1>3. i \in fit
  <2> HIDE DEF fit
  <2> QED
    BY <1>2, MaxFacts
<1>4. i \in DOMAIN Bands /\ BandFor(pot) = Bands[i]
  BY <1>3 DEF BandFor
<1> PICK band : band = Bands[i].shares
  OBVIOUS
<1>5. band \in Seq(Nat \ {0})
  <2> DEFINE Records == [minPot : Nat, shares : Seq(Nat \ {0})]
  <2>0. Bands \in Seq(Records) /\ i \in DOMAIN Bands
    BY ONLY <1>1, <1>4
  <2> HIDE DEF Records
  <2>1. Bands[i] \in Records
    BY ONLY <2>0
  <2> USE DEF Records
  <2> QED
    BY ONLY <2>1, band = Bands[i].shares
<1>6. Len(band) # 0
  <2>1. SumFunction(band) = Bps
    BY <1>4, RulesetAssumption
  <2>2. Total(band, DOMAIN band) = Bps
    BY <2>1, SumFunctionIs
  <2>3. Total(band, {}) = 0
    BY TotalOfNone
  <2>4. DOMAIN band # {}
    BY ONLY <2>2, <2>3 DEF Bps
  <2> QED
    BY ONLY <1>5, <2>4
<1>7. \A p, q \in DOMAIN band : p < q => band[p] >= band[q]
  BY <1>4, BandsAssumption
<1> QED
  BY ONLY <1>4, <1>5, <1>6, <1>7, band = Bands[i].shares

\* distribute pays the pot out whole but for the house's cut, to the lamport, to no more
\* places than there are entrants, and no place gets more than one before it (payout.ts).
THEOREM DividesThePot ==
    ASSUME NEW pot \in Nat, NEW fees \in 0 .. pot, NEW k \in Nat,
           NEW split, split = Distribute(pot, fees, k)
    PROVE  /\ split \in Seq(Nat) /\ Len(split) <= k
           /\ \A i, j \in 1 .. Len(split) : i < j => split[i] >= split[j]
           /\ Total(split, 1 .. Len(split)) = IF k = 0 THEN 0 ELSE pot - HouseCut(pot, fees)
<1> PICK house : house = HouseCut(pot, fees)
  OBVIOUS
<1>1. house \in 0 .. fees
  BY HouseCutFacts
<1>2. CASE k = 0 \/ pot = 0
  <2>1. split = <<>>
    BY <1>2 DEF Distribute
  <2>2. split \in Seq(Nat) /\ Len(split) = 0 /\ 1 .. Len(split) = {}
    BY <2>1
  <2>3. Total(split, 1 .. Len(split)) = 0
    BY <2>2, TotalOfNone
  <2>4. k = 0 \/ pot - house = 0
    BY <1>1, <1>2
  <2> QED
    BY <2>2, <2>3, <2>4
<1>3. CASE k > 0 /\ pot > 0
  <2> PICK band : band = BandFor(pot).shares
    OBVIOUS
  <2>1. /\ band \in Seq(Nat \ {0}) /\ Len(band) \in Nat \ {0}
        /\ \A p, q \in 1 .. Len(band) : p < q => band[p] >= band[q]
    BY BandFacts
  <2> PICK m : m = Min({Len(band), k})
    OBVIOUS
  <2>2. m \in 1 .. Len(band) /\ m <= k /\ m \in Nat /\ 1 \in 1 .. m
    <3>1. {Len(band), k} \in SUBSET Nat
      BY <2>1
    <3>2. m \in {Len(band), k} /\ \A y \in {Len(band), k} : m <= y
      BY <3>1, MinFacts
    <3> QED
      BY <1>3, <2>1, <3>2
  <2> PICK shares : shares = SubSeq(band, 1, m)
    OBVIOUS
  <2>3. /\ shares \in Seq(Nat \ {0}) /\ DOMAIN shares = 1 .. m
        /\ \A p \in 1 .. m : shares[p] = band[p] /\ shares[p] \in Nat \ {0}
    BY ONLY <2>1, <2>2, shares = SubSeq(band, 1, m)
  <2> PICK total : total = SumFunction(shares)
    OBVIOUS
  <2>4. total = Total(shares, 1 .. m) /\ total \in Nat \ {0}
    <3>1. total = Total(shares, 1 .. m)
      BY <2>3, SumFunctionIs
    <3>2. IsFiniteSet(1 .. m) /\ \A p \in 1 .. m : shares[p] \in Nat
      <4>1. IsFiniteSet(1 .. m)
        BY ONLY <2>2, FS_Interval
      <4> QED
        BY ONLY <2>3, <4>1
    <3>3. Total(shares, 1 .. m) \in Nat /\ shares[1] <= Total(shares, 1 .. m)
      BY ONLY <2>2, <3>2, TotalNat
    <3> QED
      BY ONLY <2>2, <2>3, <3>1, <3>3
  <2> PICK prizes : prizes = pot - house
    OBVIOUS
  <2>5. prizes \in Nat
    BY <1>1
  <2> PICK floored : floored = [p \in 1 .. m |-> (prizes * shares[p]) \div total]
    OBVIOUS
  <2>6. ASSUME NEW p \in 1 .. m
        PROVE  /\ prizes * shares[p] \in Nat /\ floored[p] \in Nat
               /\ total * floored[p] <= prizes * shares[p]
    <3>1. shares[p] \in Nat
      BY ONLY <2>3, p \in 1 .. m
    <3>2. prizes * shares[p] \in Nat
      BY ONLY <2>5, <3>1, Z3
    <3>3. floored[p] = (prizes * shares[p]) \div total
      OBVIOUS
    <3> QED
      BY ONLY <2>4, <3>2, <3>3, FloorFacts
  <2> PICK rest : rest = Total(floored, 1 .. m)
    OBVIOUS
  <2>7. rest \in Nat /\ rest <= prizes
    <3>1. \A p \in 1 .. m : /\ floored[p] \in Nat /\ shares[p] \in Nat
                            /\ total * floored[p] <= prizes * shares[p]
      BY ONLY <2>3, <2>6
    <3>2. total \in Nat
      BY ONLY <2>4
    <3>3. /\ Total(floored, 1 .. m) \in Nat
          /\ total * Total(floored, 1 .. m) <= prizes * Total(shares, 1 .. m)
      BY ONLY <2>2, <2>5, <3>1, <3>2, SharesKept
    <3>0. rest \in Nat /\ total * rest <= prizes * total
      BY ONLY <2>4, <3>3, rest = Total(floored, 1 .. m)
    <3>4. rest * total <= prizes * total
      BY ONLY <2>4, <3>0, Z3
    <3> QED
      BY ONLY <2>4, <2>5, <3>0, <3>4, ProductOrder
  <2>8. split = [floored EXCEPT ![1] = @ + prizes - rest]
    <3>1. SumFunction(floored) = rest
      <4>1. DOMAIN floored = 1 .. m
        OBVIOUS
      <4> QED
        BY <4>1, SumFunctionIs
    <3>2. k # 0 /\ pot # 0
      BY <1>3
    <3>3. floored = [p \in DOMAIN shares |-> (prizes * shares[p]) \div SumFunction(shares)]
      BY <2>3
    <3> QED
      BY <3>1, <3>2, <3>3 DEF Distribute
  <2>9. /\ DOMAIN split = 1 .. m /\ split[1] = floored[1] + prizes - rest
        /\ \A p \in 1 .. m : p # 1 => split[p] = floored[p]
        /\ floored[1] \in Nat /\ split[1] >= floored[1]
    <3>1. DOMAIN floored = 1 .. m
      OBVIOUS
    <3>2. floored[1] \in Nat
      BY ONLY <2>2, <2>6
    <3> QED
      BY ONLY <2>2, <2>5, <2>7, <2>8, <3>1, <3>2
  <2>10. \A p \in 1 .. m : split[p] \in Nat
    BY ONLY <2>5, <2>6, <2>7, <2>9
  <2>11. split \in Seq(Nat) /\ Len(split) = m
    <3>1. split \in [1 .. m -> Nat]
      <4>1. split = [p \in 1 .. m |-> split[p]]
        BY ONLY <2>8, <2>9
      <4> QED
        BY ONLY <2>10, <4>1
    <3> QED
      BY ONLY <2>2, <3>1
  <2>12. ASSUME NEW i \in 1 .. m, NEW j \in 1 .. m, i < j
         PROVE  split[i] >= split[j]
    <3>1. shares[i] >= shares[j] /\ shares[i] \in Nat /\ shares[j] \in Nat
      <4>1. i \in 1 .. Len(band) /\ j \in 1 .. Len(band)
        BY ONLY <2>1, <2>2, i \in 1 .. m, j \in 1 .. m
      <4>2. band[i] >= band[j]
        BY ONLY <2>1, <2>12, <4>1
      <4> QED
        BY ONLY <2>3, <4>2, i \in 1 .. m, j \in 1 .. m
    <3> PICK a, b : a = prizes * shares[j] /\ b = prizes * shares[i]
      OBVIOUS
    <3>2. a \in Nat /\ b \in Nat /\ a <= b
      BY ONLY <2>5, <3>1, a = prizes * shares[j], b = prizes * shares[i], Z3
    <3>3. a * total <= b * total
      BY <2>4, <3>2, ProductOrder
    <3>4. a \div total <= b \div total
      BY <2>4, <3>2, <3>3, FloorOrder
    <3>5. floored[j] <= floored[i]
      BY <3>4
    <3>6. split[j] = floored[j] /\ split[i] >= floored[i]
      <4>1. j # 1 /\ floored[i] \in Nat
        BY ONLY <2>6, <2>12, i \in 1 .. m, j \in 1 .. m
      <4> QED
        BY ONLY <2>9, <4>1, i \in 1 .. m, j \in 1 .. m
    <3>7. /\ floored[i] \in Nat /\ floored[j] \in Nat
          /\ split[i] \in Nat /\ split[j] \in Nat
      BY ONLY <2>6, <2>10, i \in 1 .. m, j \in 1 .. m
    <3> QED
      BY ONLY <3>5, <3>6, <3>7
  <2>13. Total(split, 1 .. m) = prizes
    <3>1. \A p \in 1 .. m : /\ floored[p] \in Int /\ split[p] \in Int
                            /\ p # 1 => floored[p] = split[p]
      BY ONLY <2>6, <2>9, <2>10
    <3>2. Total(split, 1 .. m) = rest - floored[1] + split[1] /\ floored[1] \in Int /\ split[1] \in Int
      <4>1. /\ Total(split, 1 .. m) = Total(floored, 1 .. m) - floored[1] + split[1]
            /\ floored[1] \in Int /\ split[1] \in Int
        BY ONLY <2>2, <3>1, TotalChanged
      <4> QED
        BY ONLY <4>1, rest = Total(floored, 1 .. m)
    <3> QED
      BY ONLY <2>5, <2>7, <2>9, <3>2
  <2> QED
    BY ONLY <1>1, <1>3, <2>2, <2>11, <2>12, <2>13, prizes = pot - house, house = HouseCut(pot, fees)
<1> QED
  BY <1>2, <1>3

(***************************************************************************)
(* Who is ahead of whom                                                    *)
(***************************************************************************)

LEMMA TruncatedFacts ==
    ASSUME NEW a \in Int, NEW b \in Int, NEW d \in Nat \ {0}
    PROVE  TruncatedDiv(a, d) \in Int /\ (a <= b => TruncatedDiv(a, d) <= TruncatedDiv(b, d))
<1>1. ASSUME NEW x \in Int
      PROVE  /\ TruncatedDiv(x, d) \in Int
             /\ x >= 0 => TruncatedDiv(x, d) >= 0
             /\ x < 0 => TruncatedDiv(x, d) <= 0
  <2>1. CASE x >= 0
    <3>1. x \div d \in Nat
      BY <2>1, FloorFacts
    <3> QED
      BY <2>1, <3>1 DEF TruncatedDiv
  <2>2. CASE x < 0
    <3> PICK y, q : y = -x /\ q = y \div d
      OBVIOUS
    <3>1. y \in Nat /\ q \in Nat
      BY <2>2, FloorFacts
    <3>2. TruncatedDiv(x, d) = -q
      BY <2>2 DEF TruncatedDiv
    <3> QED
      BY ONLY <2>2, <3>1, <3>2
  <2> QED
    BY <2>1, <2>2
<1>2. ASSUME NEW x \in Nat, NEW y \in Nat, x <= y PROVE x \div d <= y \div d
  <2>1. x * d <= y * d
    BY <1>2, ProductOrder
  <2> QED
    BY <2>1, FloorOrder
<1>3. ASSUME a <= b PROVE TruncatedDiv(a, d) <= TruncatedDiv(b, d)
  <2>1. CASE a >= 0
    <3>1. a \in Nat /\ b \in Nat
      BY <1>3, <2>1
    <3> QED
      BY <1>2, <1>3, <3>1 DEF TruncatedDiv
  <2>2. CASE b < 0
    <3> PICK x, y, p, q : x = -a /\ y = -b /\ p = x \div d /\ q = y \div d
      OBVIOUS
    <3>1. x \in Nat /\ y \in Nat /\ y <= x
      BY ONLY <1>3, <2>2, x = -a, y = -b, a \in Int, b \in Int
    <3>2. q <= p /\ q \in Nat /\ p \in Nat
      BY <1>2, <3>1, FloorFacts
    <3>3. a < 0 /\ b < 0
      BY <1>3, <2>2
    <3>4. TruncatedDiv(a, d) = -p /\ TruncatedDiv(b, d) = -q
      BY <3>3 DEF TruncatedDiv
    <3> QED
      BY ONLY <3>2, <3>4
  <2>3. CASE a < 0 /\ b >= 0
    <3> PICK p, q : p = TruncatedDiv(a, d) /\ q = TruncatedDiv(b, d)
      OBVIOUS
    <3>1. p \in Int /\ q \in Int /\ p <= 0 /\ q >= 0
      BY <1>1, <2>3
    <3>2. p <= q
      BY ONLY <3>1
    <3> QED
      BY <3>2
  <2> QED
    BY <2>1, <2>2, <2>3
<1> QED
  BY <1>1, <1>3

\* The rows rankSeason sorts: accounts that began alike, of different traders.
Entries(S) ==
    /\ \A x \in S : /\ x.trader \in Nat /\ x.enteredAt \in Nat
                    /\ x.startingBalance = StartingBalance /\ x.finalEquity \in Nat
    /\ \A x, y \in S : x.trader = y.trader => x = y

\* compareStandings puts any two rows in exactly one order, whatever ties they have, and
\* never the one that ended with less ahead (rank.ts).
THEOREM RankingIsStrict ==
    ASSUME NEW S, Entries(S)
    PROVE  /\ StrictOrder(S, {pair \in S \X S : Ahead(pair[1], pair[2])})
           /\ \A x, y \in S : Ahead(x, y) => x.finalEquity >= y.finalEquity
<1>1. ASSUME NEW x \in S
      PROVE  Gain(x) \in Int /\ ReturnBps(x) \in Int /\ Gain(x) = x.finalEquity - StartingBalance
  <2>1. Gain(x) = x.finalEquity - StartingBalance
    BY DEF Entries, Gain
  <2>2. Gain(x) \in Int
    BY <2>1, PayoutAssumption DEF Entries
  <2>3. Gain(x) * Bps \in Int
    BY <2>2 DEF Bps
  <2>4. ReturnBps(x) = TruncatedDiv(Gain(x) * Bps, StartingBalance)
    BY DEF Entries, ReturnBps
  <2> QED
    BY <2>1, <2>2, <2>3, <2>4, TruncatedFacts, PayoutAssumption
<1>2. \A x \in S : x.trader \in Nat /\ x.enteredAt \in Nat /\ x.finalEquity \in Nat
  BY DEF Entries
<1>3. ASSUME NEW x \in S, NEW y \in S, Gain(x) <= Gain(y)
      PROVE  ReturnBps(x) <= ReturnBps(y)
  <2> PICK a, b : a = Gain(x) /\ b = Gain(y)
    OBVIOUS
  <2>1. a \in Int /\ b \in Int /\ a <= b
    BY <1>1, <1>3
  <2>2. a * Bps \in Int /\ b * Bps \in Int /\ a * Bps <= b * Bps
    BY ONLY <2>1 DEF Bps
  <2>3. TruncatedDiv(a * Bps, StartingBalance) <= TruncatedDiv(b * Bps, StartingBalance)
    BY <2>2, TruncatedFacts, PayoutAssumption
  <2> QED
    BY <2>3 DEF Entries, ReturnBps
<1>4. ASSUME NEW x \in S, NEW y \in S, Ahead(x, y)
      PROVE  x.finalEquity >= y.finalEquity
  <2>1. Gain(x) >= Gain(y)
    <3>1. SUFFICES ASSUME Gain(x) < Gain(y) PROVE FALSE
      BY <1>1
    <3>2. ReturnBps(x) <= ReturnBps(y)
      BY <1>1, <1>3, <3>1
    <3> QED
      BY <1>1, <1>4, <3>1, <3>2 DEF Ahead
  <2>2. StartingBalance \in Nat
    BY PayoutAssumption
  <2> QED
    BY <1>1, <1>2, <2>1, <2>2
<1> DEFINE R == {pair \in S \X S : Ahead(pair[1], pair[2])}
<1>5. \A x, y \in S : <<x, y>> \in R <=> Ahead(x, y)
  OBVIOUS
<1> HIDE DEF R
<1>6. \A x \in S : <<x, x>> \notin R
  BY <1>1, <1>2, <1>5 DEF Ahead
<1>7. \A x, y, z \in S : <<x, y>> \in R /\ <<y, z>> \in R => <<x, z>> \in R
  <2> SUFFICES ASSUME NEW x \in S, NEW y \in S, NEW z \in S, Ahead(x, y), Ahead(y, z)
               PROVE  Ahead(x, z)
    BY <1>5
  <2>1. /\ ReturnBps(x) \in Int /\ ReturnBps(y) \in Int /\ ReturnBps(z) \in Int
        /\ Gain(x) \in Int /\ Gain(y) \in Int /\ Gain(z) \in Int
        /\ x.enteredAt \in Nat /\ y.enteredAt \in Nat /\ z.enteredAt \in Nat
        /\ x.trader \in Nat /\ y.trader \in Nat /\ z.trader \in Nat
    BY <1>1, <1>2
  <2> QED
    BY ONLY <2>1, Ahead(x, y), Ahead(y, z) DEF Ahead
<1>8. \A x, y \in S : x = y \/ <<x, y>> \in R \/ <<y, x>> \in R
  <2> SUFFICES ASSUME NEW x \in S, NEW y \in S, ~Ahead(x, y), ~Ahead(y, x) PROVE x = y
    BY <1>5
  <2>1. /\ ReturnBps(x) \in Int /\ ReturnBps(y) \in Int /\ Gain(x) \in Int /\ Gain(y) \in Int
        /\ x.enteredAt \in Nat /\ y.enteredAt \in Nat /\ x.trader \in Nat /\ y.trader \in Nat
    BY <1>1, <1>2
  <2>2. x.trader = y.trader
    BY ONLY <2>1, ~Ahead(x, y), ~Ahead(y, x) DEF Ahead
  <2> QED
    BY <2>2 DEF Entries
<1>9. StrictOrder(S, R)
  BY ONLY <1>6, <1>7, <1>8 DEF StrictOrder
<1> QED
  BY <1>4, <1>9 DEF R

\* The board of a season: each of its entrants once, and nobody behind one who ended with less.
LEMMA StandingsFacts ==
    ASSUME NEW n \in 1 .. SeasonBound, NEW equity \in MarksOf(n),
           NEW ranked, ranked = Standings(n, equity), NEW k, k = Cardinality(Entrants[n])
    PROVE  /\ k \in Nat /\ Entrants[n] \subseteq Nat
           /\ \A i \in 1 .. k : ranked[i].trader \in Entrants[n]
           /\ \A i, j \in 1 .. k : ranked[i].trader = ranked[j].trader => i = j
           /\ \A t \in Entrants[n] : \E i \in 1 .. k : ranked[i].trader = t
           /\ \A i, j \in 1 .. k : i < j => equity[ranked[i].trader] >= equity[ranked[j].trader]
<1> DEFINE row(t) == [trader |-> t, enteredAt |-> EnteredAt[t], startingBalance |-> StartingBalance,
                      finalEquity |-> equity[t]]
           E == Entrants[n]
           S == {row(t) : t \in E}
           R == {pair \in S \X S : Ahead(pair[1], pair[2])}
<1>1. E \subseteq Nat /\ IsFiniteSet(E) /\ E \subseteq Contestants
  <2>1. SeasonBound = Len(Entrants) /\ Entrants \in Seq(SUBSET Nat)
    BY EntrantsAssumption DEF SeasonBound
  <2> QED
    BY <2>1, EntrantsAssumption DEF Contestants
<1>2. \A t \in E : equity[t] \in Nat /\ EnteredAt[t] \in Nat
  BY <1>1, EntrantsAssumption DEF MarksOf
<1>3. \A t \in E : /\ row(t).trader = t /\ row(t).enteredAt = EnteredAt[t]
                   /\ row(t).startingBalance = StartingBalance /\ row(t).finalEquity = equity[t]
  OBVIOUS
<1>4. ranked = OrderedBy(S, R)
  BY DEF Standings, RankSeason
<1>5. IsFiniteSet(S) /\ Cardinality(S) = k
  <2> DEFINE f == [t \in E |-> row(t)]
  <2>1. f \in [E -> S] /\ (\A x \in S : \E t \in E : f[t] = x)
    OBVIOUS
  <2>2. \A t, u \in E : f[t] = f[u] => t = u
    BY <1>3
  <2> HIDE DEF f, S, row
  <2>3. \A t \in E : f[t] \in S
    BY ONLY <2>1
  <2>4. IsFiniteSet(E) /\ Cardinality(E) = k
    BY <1>1
  <2> HIDE DEF E
  <2> QED
    BY ONLY <2>1, <2>2, <2>3, <2>4, ImageSameSize
<1> HIDE DEF row
<1>6. \A x \in S : \E t \in E : x = row(t)
  OBVIOUS
<1>7. Entries(S)
  <2> HIDE DEF S
  <2> QED
    BY <1>1, <1>2, <1>3, <1>6 DEF Entries
<1> HIDE DEF S
<1>8. StrictOrder(S, R) /\ \A x, y \in S : Ahead(x, y) => x.finalEquity >= y.finalEquity
  BY <1>7, RankingIsStrict
<1> HIDE DEF R
<1>9. /\ k \in Nat /\ ranked \in Seq(S) /\ Len(ranked) = k
      /\ \A x \in S : \E i \in 1 .. k : ranked[i] = x
      /\ \A i, j \in 1 .. k : i < j <=> <<ranked[i], ranked[j]>> \in R
  BY <1>4, <1>5, <1>8, OrderedBySorts
<1>10. \A i \in 1 .. k : ranked[i] \in S /\ ranked[i].trader \in E
                         /\ ranked[i].finalEquity = equity[ranked[i].trader]
  <2>1. \A i \in 1 .. k : ranked[i] \in S
    BY <1>9
  <2> QED
    BY <1>3, <1>6, <2>1
<1>11. ASSUME NEW i \in 1 .. k, NEW j \in 1 .. k, ranked[i].trader = ranked[j].trader
       PROVE  i = j
  <2>1. ranked[i] = ranked[j]
    BY <1>7, <1>10, <1>11 DEF Entries
  <2>2. <<ranked[i], ranked[i]>> \notin R
    BY <1>8, <1>10 DEF StrictOrder
  <2>3. ~(i < j) /\ ~(j < i)
    BY <1>9, <2>1, <2>2
  <2> QED
    BY <1>9, <2>3
<1>12. ASSUME NEW t \in E
       PROVE  \E i \in 1 .. k : ranked[i].trader = t
  <2>1. row(t) \in S
    BY DEF S
  <2> QED
    BY <1>3, <1>9, <2>1
<1>13. ASSUME NEW i \in 1 .. k, NEW j \in 1 .. k, i < j
       PROVE  equity[ranked[i].trader] >= equity[ranked[j].trader]
  <2>1. <<ranked[i], ranked[j]>> \in R
    BY <1>9, <1>13
  <2>2. Ahead(ranked[i], ranked[j])
    BY <2>1 DEF R
  <2> QED
    BY <1>8, <1>10, <2>2
<1> QED
  BY <1>1, <1>9, <1>10, <1>11, <1>12, <1>13

(***************************************************************************)
(* The prizes of a board                                                   *)
(***************************************************************************)

\* One record for each of the places that is paid something.
PaidPlaces(rec, split, m) == {rec[p] : p \in {q \in 1 .. m : split[q] > 0}}

LEMMA TotalOfPrizes ==
    ASSUME NEW m \in Nat, NEW split, \A p \in 1 .. m : split[p] \in Nat,
           NEW rec, \A p \in 1 .. m : rec[p].place = p /\ rec[p].lamports = split[p],
           NEW paid, paid = PaidPlaces(rec, split, m),
           NEW worth, worth = [p \in paid |-> p.lamports]
    PROVE  IsFiniteSet(paid) /\ SumFunction(worth) = Total(split, 1 .. m)
<1> DEFINE P(j) == {rec[p] : p \in {q \in 1 .. j : split[q] > 0}}
           Good(j) == IsFiniteSet(P(j)) /\ P(j) \subseteq paid /\ Total(worth, P(j)) = Total(split, 1 .. j)
           T == {j \in Nat : j <= m => Good(j)}
<1>1. 0 \in T
  <2>1. 1 .. 0 = {}
    OBVIOUS
  <2>2. P(0) = {}
    BY <2>1
  <2>3. Total(worth, {}) = 0 /\ Total(split, {}) = 0
    BY TotalOfNone
  <2> HIDE DEF P
  <2> QED
    BY <2>1, <2>2, <2>3, FS_EmptySet
<1>2. ASSUME NEW j \in Nat, j \in T, j + 1 <= m PROVE Good(j + 1)
  <2>1. Good(j)
    BY <1>2
  <2> PICK x : x = j + 1
    OBVIOUS
  <2>2. x \in 1 .. m /\ x \in Nat /\ 1 .. x = (1 .. j) \cup {x} /\ x \notin 1 .. j
    BY <1>2
  <2>3. Total(split, 1 .. x) = Total(split, 1 .. j) + split[x] /\ Total(split, 1 .. j) \in Nat
    BY <1>2, TotalOfPlaces
  <2>4. split[x] \in Nat /\ rec[x].place = x /\ rec[x].lamports = split[x]
    BY <2>2
  <2>5. CASE split[x] = 0
    <3>1. P(x) = P(j)
      BY <2>2, <2>5
    <3> HIDE DEF P
    <3>2. Total(split, 1 .. x) = Total(split, 1 .. j)
      BY ONLY <2>3, <2>5
    <3> QED
      BY <2>1, <3>1, <3>2
  <2>6. CASE split[x] > 0
    <3>1. P(x) = P(j) \cup {rec[x]} /\ rec[x] \in paid
      BY <2>2, <2>6 DEF PaidPlaces
    <3>2. rec[x] \notin P(j)
      <4>1. \A p \in 1 .. j : rec[p].place = p
        BY <1>2
      <4> QED
        BY <2>2, <2>4, <4>1
    <3>3. worth[rec[x]] = split[x]
      BY <2>4, <3>1
    <3>4. \A y \in paid : worth[y] \in Int
      <4>1. \A y \in paid : \E p \in 1 .. m : y = rec[p]
        BY DEF PaidPlaces
      <4>2. \A y \in paid : y.lamports \in Nat
        BY <4>1
      <4> QED
        BY ONLY <4>2, worth = [p \in paid |-> p.lamports]
    <3> PICK A, B, z : A = P(j) /\ B = P(x) /\ z = rec[x]
      OBVIOUS
    <3> HIDE DEF P
    <3>5. /\ IsFiniteSet(A) /\ A \subseteq paid /\ Total(worth, A) = Total(split, 1 .. j)
          /\ B = A \cup {z} /\ z \in paid /\ z \notin A
      BY <2>1, <3>1, <3>2
    <3>6. Total(worth, B) = Total(worth, A) + worth[z]
      <4>1. \A y \in A \cup {z} : worth[y] \in Int
        BY ONLY <3>4, <3>5
      <4> QED
        BY ONLY <3>5, <4>1, TotalOfMore
    <3>7. IsFiniteSet(B) /\ B \subseteq paid
      BY ONLY <3>5, FS_AddElement
    <3>8. Total(worth, B) = Total(split, 1 .. x)
      BY ONLY <2>3, <3>3, <3>5, <3>6, z = rec[x]
    <3> QED
      BY <3>7, <3>8
  <2> HIDE DEF P
  <2> QED
    BY <2>4, <2>5, <2>6
<1>3. Nat \subseteq T
  <2> HIDE DEF Good
  <2>1. \A j \in Nat : j \in T => j + 1 \in T
    BY <1>2
  <2> HIDE DEF T
  <2> QED
    BY <1>1, <2>1, Induction
<1>4. Good(m)
  <2> HIDE DEF Good
  <2>1. m \in T
    BY <1>3
  <2> QED
    BY <2>1
<1>5. P(m) = paid /\ DOMAIN worth = paid
  BY DEF PaidPlaces
<1>6. SumFunction(worth) = Total(worth, paid)
  BY <1>5, SumFunctionIs
<1> HIDE DEF P
<1> QED
  BY <1>4, <1>5, <1>6

\* What a board of a season pays: the pot without the house's cut, to a trader each, and to
\* nobody more than to one who ended with more.
PaysBoard(n, equity, paid) ==
    LET winners == {p.trader : p \in paid}
    IN  /\ SumFunction([p \in paid |-> p.lamports]) =
               IF Entrants[n] = {} THEN 0 ELSE Pot(n) - HouseCut(Pot(n), Fees(n))
        /\ Cardinality(winners) = Cardinality(paid)
        /\ \A p \in paid :
              /\ \A t \in Entrants[n] \ winners : equity[p.trader] >= equity[t]
              /\ \A q \in paid : p.lamports > q.lamports => equity[p.trader] >= equity[q.trader]

PayoutRecords == [place : Nat, trader : Nat, lamports : Nat]

LEMMA PrizesFacts ==
    ASSUME NEW n \in 1 .. SeasonBound, NEW equity \in MarksOf(n)
    PROVE  /\ IsFiniteSet(Prizes(n, equity)) /\ Prizes(n, equity) \subseteq PayoutRecords
           /\ \A p \in Prizes(n, equity) : p.trader \in Entrants[n] /\ p.lamports > 0
           /\ \A p, q \in Prizes(n, equity) : p.place = q.place \/ p.trader = q.trader => p = q
           /\ PaysBoard(n, equity, Prizes(n, equity))
<1> PICK k, pot, fees, ranked, split, paid :
        /\ k = Cardinality(Entrants[n]) /\ pot = Pot(n) /\ fees = Fees(n)
        /\ ranked = Standings(n, equity) /\ split = Distribute(pot, fees, k)
        /\ paid = Prizes(n, equity)
  OBVIOUS
<1>1. /\ k \in Nat /\ Entrants[n] \subseteq Nat
      /\ \A i \in 1 .. k : ranked[i].trader \in Entrants[n]
      /\ \A i, j \in 1 .. k : ranked[i].trader = ranked[j].trader => i = j
      /\ \A t \in Entrants[n] : \E i \in 1 .. k : ranked[i].trader = t
      /\ \A i, j \in 1 .. k : i < j => equity[ranked[i].trader] >= equity[ranked[j].trader]
  BY StandingsFacts
<1>2. fees \in Nat /\ pot \in Nat /\ fees \in 0 .. pot
  <2>1. EntryCost \in Nat /\ Sponsor \in Nat /\ fees = EntryCost * k /\ pot = fees + Sponsor
    BY PayoutAssumption DEF Fees, Pot
  <2>2. fees \in Nat
    BY ONLY <1>1, <2>1, ProductOrder
  <2> QED
    BY ONLY <2>1, <2>2
<1>3. /\ split \in Seq(Nat) /\ Len(split) <= k
      /\ \A i, j \in 1 .. Len(split) : i < j => split[i] >= split[j]
      /\ Total(split, 1 .. Len(split)) = IF k = 0 THEN 0 ELSE pot - HouseCut(pot, fees)
  BY ONLY <1>1, <1>2, split = Distribute(pot, fees, k), DividesThePot
<1> PICK m : m = Len(split)
  OBVIOUS
<1>4. m \in Nat /\ DOMAIN split = 1 .. m /\ m <= k /\ \A p \in 1 .. m : split[p] \in Nat /\ p \in 1 .. k
  BY ONLY <1>1, <1>3, m = Len(split)
<1> PICK rec : rec = [p \in 1 .. m |-> [place |-> p, trader |-> ranked[p].trader, lamports |-> split[p]]]
  OBVIOUS
<1>5. paid = {rec[p] : p \in {q \in 1 .. m : split[q] > 0}}
  BY <1>4 DEF Prizes
<1>6. \A p \in 1 .. m : /\ rec[p].place = p /\ rec[p].trader = ranked[p].trader
                        /\ rec[p].lamports = split[p]
  OBVIOUS
<1> PICK worth : worth = [p \in paid |-> p.lamports]
  OBVIOUS
<1>7. IsFiniteSet(paid) /\ SumFunction(worth) = Total(split, 1 .. m)
  <2>1. /\ \A p \in 1 .. m : split[p] \in Nat
        /\ \A p \in 1 .. m : rec[p].place = p /\ rec[p].lamports = split[p]
    BY ONLY <1>4, <1>6
  <2>2. paid = PaidPlaces(rec, split, m)
    BY <1>5 DEF PaidPlaces
  <2> QED
    BY ONLY <1>4, <2>1, <2>2, worth = [p \in paid |-> p.lamports], TotalOfPrizes
<1>8. ASSUME NEW x \in paid
      PROVE  \E p \in 1 .. m : x = rec[p] /\ split[p] > 0
  BY ONLY <1>5, x \in paid
<1>9. paid \subseteq PayoutRecords
  <2> SUFFICES ASSUME NEW p \in 1 .. m PROVE rec[p] \in PayoutRecords
    BY <1>8
  <2>1. p \in Nat /\ ranked[p].trader \in Nat /\ split[p] \in Nat
    <3>1. p \in 1 .. k /\ split[p] \in Nat
      BY ONLY <1>4, p \in 1 .. m
    <3>2. ranked[p].trader \in Nat
      BY ONLY <1>1, <3>1
    <3> QED
      BY ONLY <3>1, <3>2
  <2>2. rec[p] = [place |-> p, trader |-> ranked[p].trader, lamports |-> split[p]]
    OBVIOUS
  <2> QED
    BY ONLY <2>1, <2>2 DEF PayoutRecords
<1>10. \A x \in paid : x.trader \in Entrants[n] /\ x.lamports > 0
  <2> SUFFICES ASSUME NEW x \in paid PROVE x.trader \in Entrants[n] /\ x.lamports > 0
    OBVIOUS
  <2>1. PICK p \in 1 .. m : x = rec[p] /\ split[p] > 0
    BY <1>8
  <2>2. p \in 1 .. k
    BY ONLY <1>4, p \in 1 .. m
  <2>3. ranked[p].trader \in Entrants[n]
    BY ONLY <1>1, <2>2
  <2> QED
    BY ONLY <1>6, <2>1, <2>3, p \in 1 .. m
<1>11. \A x, y \in paid : x.place = y.place \/ x.trader = y.trader => x = y
  <2> SUFFICES ASSUME NEW x \in paid, NEW y \in paid, x.place = y.place \/ x.trader = y.trader
               PROVE  x = y
    OBVIOUS
  <2>1. PICK p \in 1 .. m : x = rec[p]
    BY <1>8
  <2>2. PICK q \in 1 .. m : y = rec[q]
    BY <1>8
  <2>3. p \in 1 .. k /\ q \in 1 .. k
    BY ONLY <1>4, p \in 1 .. m, q \in 1 .. m
  <2>4. p = q
    <3>1. CASE x.place = y.place
      BY ONLY <1>6, <2>1, <2>2, <3>1, p \in 1 .. m, q \in 1 .. m
    <3>2. CASE x.trader = y.trader
      <4>1. ranked[p].trader = ranked[q].trader
        BY ONLY <1>6, <2>1, <2>2, <3>2, p \in 1 .. m, q \in 1 .. m
      <4> QED
        BY ONLY <1>1, <2>3, <4>1
    <3> QED
      BY <3>1, <3>2
  <2> QED
    BY ONLY <2>1, <2>2, <2>4
<1>12. Cardinality({x.trader : x \in paid}) = Cardinality(paid)
  <2> DEFINE winners == {x.trader : x \in paid}
             f == [x \in paid |-> x.trader]
  <2>1. f \in [paid -> winners] /\ \A w \in winners : \E x \in paid : f[x] = w
    OBVIOUS
  <2>2. \A x, y \in paid : f[x] = f[y] => x = y
    BY <1>11
  <2> HIDE DEF f, winners
  <2>3. \A x \in paid : f[x] \in winners
    BY ONLY <2>1
  <2>4. IsFiniteSet(paid)
    BY <1>7
  <2>5. Cardinality(winners) = Cardinality(paid)
    BY ONLY <2>1, <2>2, <2>3, <2>4, ImageSameSize
  <2> QED
    BY <2>5 DEF winners
<1>13. ASSUME NEW x \in paid, NEW t \in Entrants[n], t \notin {y.trader : y \in paid}
       PROVE  equity[x.trader] >= equity[t]
  <2>1. PICK p \in 1 .. m : x = rec[p] /\ split[p] > 0
    BY <1>8
  <2>2. PICK i \in 1 .. k : ranked[i].trader = t
    BY <1>1
  <2>3. ~(i \in 1 .. m /\ split[i] > 0)
    <3>1. SUFFICES ASSUME i \in 1 .. m, split[i] > 0 PROVE FALSE
      OBVIOUS
    <3>2. rec[i] \in paid /\ rec[i].trader = t
      BY ONLY <1>5, <1>6, <2>2, <3>1
    <3> QED
      BY ONLY <1>13, <3>2
  <2>4. p < i
    <3>1. SUFFICES ASSUME i <= p PROVE FALSE
      BY ONLY <1>1, <1>4, <3>1, p \in 1 .. m, i \in 1 .. k
    <3>2. i \in 1 .. m /\ (i = p \/ i < p)
      BY ONLY <1>1, <1>4, <3>1, p \in 1 .. m, i \in 1 .. k
    <3>3. split[i] >= split[p]
      <4>1. i < p => split[i] >= split[p]
        BY ONLY <1>3, <3>2, p \in 1 .. m, m = Len(split)
      <4>2. split[p] \in Nat
        BY ONLY <1>4, p \in 1 .. m
      <4> QED
        BY ONLY <3>2, <4>1, <4>2
    <3>4. split[i] \in Nat /\ split[p] \in Nat
      BY ONLY <1>4, <3>2, p \in 1 .. m
    <3> QED
      BY ONLY <2>1, <2>3, <3>2, <3>3, <3>4
  <2> QED
    BY ONLY <1>1, <1>4, <1>6, <2>1, <2>2, <2>4, p \in 1 .. m, i \in 1 .. k
<1>14. ASSUME NEW x \in paid, NEW y \in paid, x.lamports > y.lamports
       PROVE  equity[x.trader] >= equity[y.trader]
  <2>1. PICK p \in 1 .. m : x = rec[p]
    BY <1>8
  <2>2. PICK q \in 1 .. m : y = rec[q]
    BY <1>8
  <2>3. split[p] > split[q]
    BY ONLY <1>6, <1>14, <2>1, <2>2, p \in 1 .. m, q \in 1 .. m
  <2>4. p < q
    BY ONLY <1>3, <1>4, <2>3, p \in 1 .. m, q \in 1 .. m, m = Len(split)
  <2> QED
    BY ONLY <1>1, <1>4, <1>6, <2>1, <2>2, <2>4, p \in 1 .. m, q \in 1 .. m
<1>15. k = 0 <=> Entrants[n] = {}
  <2>1. IsFiniteSet(Entrants[n])
    BY EntrantsAssumption
  <2> QED
    BY ONLY <2>1, k = Cardinality(Entrants[n]), FS_EmptySet
<1>16. PaysBoard(n, equity, paid)
  <2>1. SumFunction([p \in paid |-> p.lamports]) =
            IF Entrants[n] = {} THEN 0 ELSE Pot(n) - HouseCut(Pot(n), Fees(n))
    BY ONLY <1>3, <1>7, <1>15, m = Len(split), pot = Pot(n), fees = Fees(n),
       worth = [p \in paid |-> p.lamports]
  <2> QED
    BY ONLY <1>12, <1>13, <1>14, <2>1 DEF PaysBoard
<1> QED
  BY <1>7, <1>9, <1>10, <1>11, <1>16

(***************************************************************************)
(* What is left of a walk over the places                                  *)
(***************************************************************************)
LEMMA RestFacts ==
    ASSUME NEW S, NEW s \in Seq(S), NEW k \in 0 .. Len(s), NEW todo,
           todo = SubSeq(s, k + 1, Len(s))
    PROVE  /\ todo \in Seq(S) /\ Len(todo) = Len(s) - k
           /\ \A i \in 1 .. Len(todo) : todo[i] = s[k + i]
           /\ todo # <<>> => /\ k + 1 \in 1 .. Len(s) /\ Head(todo) = s[k + 1]
                             /\ Tail(todo) = SubSeq(s, k + 2, Len(s))
<1>1. todo \in Seq(S) /\ Len(todo) = Len(s) - k /\ \A i \in 1 .. Len(todo) : todo[i] = s[k + i]
  OBVIOUS
<1>2. ASSUME todo # <<>>
      PROVE  /\ k + 1 \in 1 .. Len(s) /\ Head(todo) = s[k + 1]
             /\ Tail(todo) = SubSeq(s, k + 2, Len(s))
  <2>1. Len(todo) > 0
    BY <1>1, <1>2
  <2>2. k + 1 \in 1 .. Len(s) /\ Head(todo) = s[k + 1]
    BY <1>1, <2>1
  <2>3. Tail(todo) = SubSeq(s, k + 2, Len(s))
    <3>1. Tail(todo) \in Seq(S) /\ Len(Tail(todo)) = Len(s) - k - 1
      <4>1. todo \in Seq(S) /\ todo # <<>> /\ Len(todo) = Len(s) - k
        BY ONLY <1>1, <1>2
      <4>2. Tail(todo) \in Seq(S) /\ Len(Tail(todo)) = Len(todo) - 1
        BY ONLY <4>1, HeadTailProperties
      <4> QED
        BY ONLY <4>1, <4>2
    <3>2. \A i \in 1 .. Len(Tail(todo)) : Tail(todo)[i] = s[k + 1 + i]
      BY <1>1, <2>1
    <3>3. SubSeq(s, k + 2, Len(s)) \in Seq(S) /\ Len(SubSeq(s, k + 2, Len(s))) = Len(s) - k - 1
      BY <2>2
    <3>4. \A i \in 1 .. Len(SubSeq(s, k + 2, Len(s))) : SubSeq(s, k + 2, Len(s))[i] = s[k + 1 + i]
      BY <2>2
    <3>5. \A i \in 1 .. Len(Tail(todo)) : Tail(todo)[i] = SubSeq(s, k + 2, Len(s))[i]
      BY <3>1, <3>2, <3>3, <3>4
    <3> QED
      BY <3>1, <3>3, <3>5, SeqEqual
  <2> QED
    BY <2>2, <2>3
<1> QED
  BY <1>1, <1>2

\* Nothing is left at the end only.
LEMMA RestEnds ==
    ASSUME NEW S, NEW s \in Seq(S), NEW k \in 0 .. Len(s), NEW todo,
           todo = SubSeq(s, k + 1, Len(s)), todo = <<>>
    PROVE  k = Len(s)
<1>1. Len(s) \in Nat
  OBVIOUS
<1>2. SUFFICES ASSUME k # Len(s) PROVE FALSE
  OBVIOUS
<1>3. k + 1 \in 1 .. Len(s)
  BY <1>1, <1>2
<1>4. Len(SubSeq(s, k + 1, Len(s))) = Len(s) - k
  BY ONLY <1>1, <1>3, k \in 0 .. Len(s), s \in Seq(S)
<1>5. Len(<<>>) = Len(s) - k
  BY <1>4
<1>6. Len(<<>>) = 0
  OBVIOUS
<1> QED
  BY ONLY <1>1, <1>2, <1>5, <1>6, k \in 0 .. Len(s)

\* The places are walked in order, and all of them.
LEMMA PayoutsFacts ==
    ASSUME NEW n \in 1 .. SeasonBound, NEW equity \in MarksOf(n)
    PROVE  /\ Payouts[n][equity] \in Seq(Prizes(n, equity))
           /\ Payouts[n][equity] \in Seq(PayoutRecords)
           /\ \A p \in Prizes(n, equity) :
                 \E i \in 1 .. Len(Payouts[n][equity]) : Payouts[n][equity][i] = p
           /\ \A i, j \in 1 .. Len(Payouts[n][equity]) :
                 i < j => Payouts[n][equity][i].place < Payouts[n][equity][j].place
<1> DEFINE prizes == Prizes(n, equity)
           R == {pair \in prizes \X prizes : pair[1].place < pair[2].place}
<1>1. /\ IsFiniteSet(prizes) /\ prizes \subseteq PayoutRecords
      /\ \A p, q \in prizes : p.place = q.place => p = q
  BY PrizesFacts
<1>2. \A p \in prizes : p.place \in Nat
  BY <1>1 DEF PayoutRecords
<1>3. Payouts[n][equity] = OrderedBy(prizes, R)
  BY DEF Payouts, ByPlace
<1>4. StrictOrder(prizes, R)
  <2> HIDE DEF prizes
  <2> QED
    BY <1>1, <1>2 DEF StrictOrder
<1>5. /\ Cardinality(prizes) \in Nat
      /\ OrderedBy(prizes, R) \in Seq(prizes) /\ Len(OrderedBy(prizes, R)) = Cardinality(prizes)
      /\ \A x \in prizes : \E k \in 1 .. Cardinality(prizes) : OrderedBy(prizes, R)[k] = x
      /\ \A j, k \in 1 .. Cardinality(prizes) :
            j < k <=> <<OrderedBy(prizes, R)[j], OrderedBy(prizes, R)[k]>> \in R
  <2> HIDE DEF prizes, R
  <2> QED
    BY <1>1, <1>4, OrderedBySorts
<1>6. OrderedBy(prizes, R) \in Seq(PayoutRecords)
  BY <1>1, <1>5, SeqOfMore
<1>7. \A j, k \in 1 .. Cardinality(prizes) :
         j < k => OrderedBy(prizes, R)[j].place < OrderedBy(prizes, R)[k].place
  BY <1>5
<1> HIDE DEF R
<1> QED
  BY <1>3, <1>5, <1>6, <1>7

(***************************************************************************)
(* The payout worker: what holds between its steps                         *)
(***************************************************************************)

\* The boards a season may have been paid from, and all that is owed by one of them.
Boards(n) == IF remarked[n] = 0 THEN {marks[n]} ELSE MarksOf(n)
MayPay(n) == UNION {Prizes(n, equity) : equity \in Boards(n)}

\* What a tick still has to pay of one board: everybody before it is on record.
Remains(n, equity, todo) ==
    \E k \in 0 .. Len(Payouts[n][equity]) :
        /\ todo = SubSeq(Payouts[n][equity], k + 1, Len(Payouts[n][equity]))
        /\ \A i \in 1 .. k : Payouts[n][equity][i].trader \in recorded[n]

PaidTo(n, t) == \E l \in DOMAIN landed : l.season = n /\ l.payout.trader = t

Pcs == {"idle", "board", "pay", "confirm", "record", "failed"}
TickRecords == [pc : Pcs, season : Nat, todo : Seq(PayoutRecords)]
Transfers == [season : Nat, payout : PayoutRecords, by : Nat, blockhash : Nat \X Nat]
Landings == [season : Nat, payout : PayoutRecords]

PayoutTyped ==
    /\ clock \in Clock
    /\ status \in Seq({"pending", "finalized"}) /\ Len(status) \in 1 .. SeasonBound
    /\ recorded \in Seq(SUBSET Contestants) /\ Len(recorded) = Len(status)
    /\ remarked \in Seq(Nat) /\ Len(remarked) = Len(status)
    /\ marks \in Seq(UNION {MarksOf(n) : n \in 1 .. SeasonBound}) /\ Len(marks) = Len(status)
    /\ ticks \in [Workers -> TickRecords]
    /\ inflight \subseteq Transfers /\ IsFiniteSet(inflight)
    /\ landed \in [DOMAIN landed -> Nat \ {0}]
    /\ DOMAIN landed \subseteq Landings /\ IsFiniteSet(DOMAIN landed)
    /\ faults \in 0 .. FaultBound /\ lost \in Nat

\* A mark is of its season, and a tick walks one of its season's boards.
BoardsHold ==
    /\ \A n \in Seasons : marks[n] \in MarksOf(n)
    /\ \A w \in Workers :
        /\ ticks[w].season \in Seasons \cup {0}
        /\ ticks[w].pc \in {"idle", "board"} => ticks[w].todo = <<>>
        /\ ticks[w].pc # "idle" => ticks[w].season \in Seasons
        /\ ticks[w].pc \in {"confirm", "record", "failed"} => ticks[w].todo # <<>>

TicksWalk ==
    \A w \in Workers : ticks[w].pc \notin {"idle", "board"} =>
        \E equity \in Boards(ticks[w].season) : Remains(ticks[w].season, equity, ticks[w].todo)

\* A transfer is owed, and somebody waits for it or nobody ever will.
TransfersHold ==
    /\ \A tx \in inflight :
        /\ tx.season \in Seasons /\ tx.payout \in MayPay(tx.season) /\ tx.by \in Workers \cup {0}
        /\ tx.by # 0 => /\ At(tx.by, "confirm") /\ ticks[tx.by].season = tx.season
                        /\ Head1(tx.by) = tx.payout
    /\ \A tx, ty \in inflight : tx.by # 0 /\ tx.by = ty.by => tx = ty

LandingsHold == \A l \in DOMAIN landed : l.season \in Seasons /\ l.payout \in MayPay(l.season)

RecordsHold ==
    /\ \A w \in Workers : At(w, "record") => PaidTo(ticks[w].season, Head1(w).trader)
    /\ \A n \in Seasons : \A t \in recorded[n] : PaidTo(n, t)

FinalsHold ==
    \A n \in Seasons : status[n] = "finalized" =>
        \E equity \in Boards(n) : \A payout \in Prizes(n, equity) : payout.trader \in recorded[n]

\* A trader without a record was paid as often as an outcome was lost; each further
\* transfer to him has a worker of its own that waits for it or records it.
Flying(n, t) == {tx \in inflight : tx.season = n /\ tx.payout.trader = t}
Waiting(n, t) ==
    {w \in Workers : /\ At(w, "confirm") \/ At(w, "record")
                     /\ ticks[w].season = n /\ Head1(w).trader = t}
PaymentsCounted ==
    \A n \in Seasons : \A t \in Nat :
        TimesPaid(n, t) + Cardinality(Flying(n, t)) <=
            lost + IF t \in recorded[n] THEN MaxTicks ELSE Cardinality(Waiting(n, t))

Walking == PayoutTyped /\ BoardsHold /\ TicksWalk

(***************************************************************************)
(* Steps only add: seasons, boards that may have been paid, records and    *)
(* landings.                                                               *)
(***************************************************************************)
Grows ==
    /\ Seasons \subseteq Seasons'
    /\ \A n \in Seasons : Boards(n) \subseteq Boards(n)' /\ recorded[n] \subseteq recorded'[n]

LEMMA SeasonFacts ==
    ASSUME PayoutTyped
    PROVE  /\ Len(status) \in Nat /\ Seasons = 1 .. Len(status) /\ Seasons \subseteq 1 .. SeasonBound
           /\ SeasonBound \in Nat
           /\ Seasons = DOMAIN recorded /\ Seasons = DOMAIN marks /\ Seasons = DOMAIN remarked
           /\ \A n \in Seasons : /\ recorded[n] \subseteq Contestants /\ remarked[n] \in Nat
                                 /\ status[n] \in {"pending", "finalized"}
<1>1. SeasonBound \in Nat
  BY EntrantsAssumption DEF SeasonBound
<1> QED
  BY <1>1 DEF PayoutTyped, Seasons

LEMMA TickFacts ==
    ASSUME PayoutTyped, NEW w \in Workers
    PROVE  /\ ticks[w] \in TickRecords /\ ticks[w].pc \in Pcs /\ ticks[w].season \in Nat
           /\ ticks[w].todo \in Seq(PayoutRecords)
           /\ ticks[w].todo # <<>> => /\ Head1(w) \in PayoutRecords
                                      /\ Tail(ticks[w].todo) \in Seq(PayoutRecords)
<1>1. ticks[w] \in TickRecords
  BY DEF PayoutTyped
<1> QED
  BY <1>1 DEF TickRecords, Head1

LEMMA StepGrows ==
    ASSUME PayoutTyped, BoardsHold, [PayoutNext]_payoutVars
    PROVE  Grows
<1> USE SeasonFacts
<1>1. ASSUME NEW n \in Seasons, UNCHANGED board, recorded[n] \subseteq recorded'[n]
      PROVE  Boards(n) \subseteq Boards(n)' /\ recorded[n] \subseteq recorded'[n]
  BY <1>1 DEF Boards, board, MarksOf
<1>2. CASE Rollover
  <2>1. /\ Seasons' = 1 .. Len(status) + 1 /\ \A n \in Seasons : recorded'[n] = recorded[n]
        /\ \A n \in Seasons : remarked'[n] = remarked[n] /\ marks'[n] = marks[n]
    <3>1. PICK equity : marks' = Append(marks, equity)
      BY <1>2 DEF Rollover
    <3> QED
      <4>1. /\ status' = Append(status, "pending") /\ recorded' = Append(recorded, {})
            /\ remarked' = Append(remarked, 0)
        BY <1>2 DEF Rollover
      <4>2. Seasons' = 1 .. Len(status) + 1
        BY <4>1 DEF Seasons, PayoutTyped
      <4>3. \A n \in Seasons : recorded'[n] = recorded[n]
        BY <4>1 DEF PayoutTyped, Seasons
      <4>4. \A n \in Seasons : remarked'[n] = remarked[n]
        BY <4>1 DEF PayoutTyped, Seasons
      <4>5. \A n \in Seasons : marks'[n] = marks[n]
        BY <3>1 DEF PayoutTyped, Seasons
      <4> QED
        BY ONLY <4>2, <4>3, <4>4, <4>5
  <2> QED
    BY <2>1 DEF Grows, Boards, MarksOf
<1>3. ASSUME NEW w \in Workers, ReadBoard(w)
      PROVE  Grows
  <2>1. PICK equity \in MarksOf(ticks[w].season) :
          /\ marks' = [marks EXCEPT ![ticks[w].season] = equity]
          /\ remarked' = [remarked EXCEPT ![ticks[w].season] = IF equity = marks[ticks[w].season] THEN @ ELSE @ + 1]
    BY <1>3 DEF ReadBoard, BoardsHold, At
  <2>2. ticks[w].season \in Seasons
    BY <1>3 DEF ReadBoard, BoardsHold, At
  <2>3. ASSUME NEW n \in Seasons
        PROVE  Boards(n) \subseteq Boards(n)'
    <3>1. CASE n # ticks[w].season
      BY <2>1, <3>1 DEF Boards, MarksOf
    <3>2. CASE n = ticks[w].season /\ remarked'[n] = 0
      <4>1. equity = marks[n] /\ remarked[n] = 0
        BY <2>1, <2>2, <3>2
      <4> QED
        BY <4>1, <2>1, <2>2, <3>2 DEF Boards
    <3>3. CASE n = ticks[w].season /\ remarked'[n] # 0
      <4>1. Boards(n)' = MarksOf(n)
        BY <3>3 DEF Boards, MarksOf
      <4> QED
        BY <4>1 DEF Boards, BoardsHold
    <3> QED
      BY <3>1, <3>2, <3>3
  <2> QED
    BY <2>3, <1>3 DEF Grows, ReadBoard, Seasons
<1>4. ASSUME NEW w \in Workers, Record(w)
      PROVE  Grows
  <2>1. \A n \in Seasons : recorded[n] \subseteq recorded'[n]
    BY <1>4 DEF Record
  <2> QED
    BY <1>1, <1>4, <2>1 DEF Grows, Record, Seasons
<1>5. CASE UNCHANGED <<status, recorded, board>>
  BY <1>1, <1>5 DEF Grows, Seasons
<1>6. CASE PassTime
  BY <1>5, <1>6 DEF PassTime
<1>7. ASSUME NEW w \in Workers,
             StartTick(w) \/ SkipPaid(w) \/ Send(w) \/ PayoutFailed(w) \/ PayoutUnknown(w)
      PROVE  Grows
  BY <1>5, <1>7 DEF StartTick, SkipPaid, Send, PayoutFailed, PayoutUnknown
<1>8. ASSUME NEW w \in Workers, FinishTick(w)
      PROVE  Grows
  <2>1. Seasons' = Seasons
    BY <1>8 DEF FinishTick, Seasons, PayoutTyped
  <2> QED
    BY <1>1, <1>8, <2>1 DEF Grows, FinishTick
<1>9. ASSUME NEW tx \in inflight, Land(tx) \/ Expire(tx)
      PROVE  Grows
  BY <1>5, <1>9 DEF Land, Expire
<1>10. CASE Crash
  BY <1>5, <1>10 DEF Crash
<1>11. CASE UNCHANGED payoutVars
  BY <1>5, <1>11 DEF payoutVars, board
<1> QED
  BY <1>2, <1>3, <1>4, <1>6, <1>7, <1>8, <1>9, <1>10, <1>11 DEF PayoutNext

LEMMA GrowthKeeps ==
    ASSUME Grows, NEW n \in Seasons
    PROVE  /\ n \in Seasons' /\ MayPay(n) \subseteq MayPay(n)'
           /\ \A equity, todo : Remains(n, equity, todo) => Remains(n, equity, todo)'
<1>1. n \in Seasons' /\ Boards(n) \subseteq Boards(n)' /\ recorded[n] \subseteq recorded'[n]
  BY DEF Grows
<1>2. MayPay(n) \subseteq MayPay(n)'
  BY <1>1 DEF MayPay
<1>3. ASSUME NEW equity, NEW todo, Remains(n, equity, todo)
      PROVE  Remains(n, equity, todo)'
  BY <1>1, <1>3 DEF Remains
<1> QED
  BY <1>1, <1>2, <1>3

(***************************************************************************)
(* Typing                                                                  *)
(***************************************************************************)
LEMMA CurrentFacts ==
    ASSUME PayoutTyped
    PROVE  CurrentSeason \in Seasons
<1>1. Len(status) \in Nat /\ Len(status) \in Seasons /\ Seasons \subseteq Nat /\ IsFiniteSet(Seasons)
  <2>1. Seasons = 1 .. Len(status) /\ Len(status) \in Nat /\ Len(status) >= 1
    BY SeasonFacts DEF PayoutTyped
  <2> QED
    BY <2>1, FS_Interval
<1>2. Running # {} => Max(Running) \in Running
  <2>1. Running \in SUBSET Seasons /\ Running \in SUBSET Nat
    BY <1>1 DEF Running
  <2> QED
    BY <1>1, <2>1, FS_Subset, MaxFacts
<1>3. Upcoming # {} => Min(Upcoming) \in Upcoming
  <2>1. Upcoming \in SUBSET Nat
    BY <1>1 DEF Upcoming
  <2> QED
    BY <2>1, MinFacts
<1> QED
  BY <1>1, <1>2, <1>3 DEF CurrentSeason, Running, Upcoming

LEMMA PayoutInitTyped == PayoutInit => PayoutTyped /\ BoardsHold
<1> SUFFICES ASSUME PayoutInit PROVE PayoutTyped /\ BoardsHold
  OBVIOUS
<1>1. SeasonBound \in Nat /\ SeasonBound >= 1
  BY EntrantsAssumption DEF SeasonBound
<1>2. PICK equity \in MarksOf(1) : marks = <<equity>>
  BY DEF PayoutInit
<1>3. clock \in Clock
  BY <1>1 DEF PayoutInit, Clock, EndsAt
<1>4. landed = <<>> /\ DOMAIN landed = {}
  BY DEF PayoutInit, EmptyBag, SetToBag
<1>5. ticks \in [Workers -> TickRecords]
  BY DEF PayoutInit, Idle, TickRecords, Pcs
<1>6. equity \in UNION {MarksOf(n) : n \in 1 .. SeasonBound}
  BY <1>1
<1>7. FaultBound \in Nat
  BY PayoutAssumption
<1>8. /\ status \in Seq({"pending", "finalized"}) /\ Len(status) = 1
      /\ recorded \in Seq(SUBSET Contestants) /\ Len(recorded) = 1
      /\ remarked \in Seq(Nat) /\ Len(remarked) = 1
      /\ marks \in Seq(UNION {MarksOf(n) : n \in 1 .. SeasonBound}) /\ Len(marks) = 1
  BY <1>2, <1>6 DEF PayoutInit
<1>9. PayoutTyped
  BY <1>1, <1>3, <1>4, <1>5, <1>7, <1>8, FS_EmptySet DEF PayoutTyped, PayoutInit
<1>10. BoardsHold
  BY <1>2 DEF BoardsHold, PayoutInit, Idle, Seasons
<1> QED
  BY <1>9, <1>10

\* What a step does to one tick.
LEMMA TickTyped ==
    ASSUME PayoutTyped, NEW w \in Workers, NEW tick \in TickRecords, Moves(w, tick)
    PROVE  /\ ticks' \in [Workers -> TickRecords] /\ ticks'[w] = tick
           /\ \A v \in Workers : v # w => ticks'[v] = ticks[v]
BY DEF PayoutTyped, Moves

LEMMA OrphanedTyped ==
    ASSUME PayoutTyped, NEW T, NEW f \in [inflight -> T], T = {f[tx] : tx \in inflight}
    PROVE  IsFiniteSet(T) /\ Cardinality(T) <= Cardinality(inflight)
<1>1. \A ty \in T : \E tx \in inflight : f[tx] = ty
  OBVIOUS
<1>2. IsFiniteSet(inflight) /\ \A tx \in inflight : f[tx] \in T
  BY DEF PayoutTyped
<1> QED
  BY ONLY <1>1, <1>2, ImageNoLarger

\* The head of what a tick has left is a place of one of its season's boards.
LEMMA WalkFacts ==
    ASSUME PayoutTyped, BoardsHold, TicksWalk, NEW w \in Workers,
           ticks[w].pc \notin {"idle", "board"}, ticks[w].todo # <<>>
    PROVE  /\ ticks[w].season \in Seasons
           /\ \E equity \in Boards(ticks[w].season) :
                 /\ equity \in MarksOf(ticks[w].season)
                 /\ Head1(w) \in Prizes(ticks[w].season, equity)
           /\ Head1(w) \in MayPay(ticks[w].season)
           /\ Head1(w).trader \in Contestants
<1> DEFINE n == ticks[w].season
<1>1. n \in Seasons /\ n \in 1 .. SeasonBound
  BY SeasonFacts DEF BoardsHold
<1>2. PICK equity \in Boards(n) : Remains(n, equity, ticks[w].todo)
  BY DEF TicksWalk
<1>3. equity \in MarksOf(n)
  BY <1>1 DEF Boards, BoardsHold
<1>4. Payouts[n][equity] \in Seq(Prizes(n, equity))
  BY <1>1, <1>3, PayoutsFacts
<1>5. PICK k \in 0 .. Len(Payouts[n][equity]) :
         ticks[w].todo = SubSeq(Payouts[n][equity], k + 1, Len(Payouts[n][equity]))
  BY <1>2 DEF Remains
<1>6. Head1(w) \in Prizes(n, equity)
  <2> HIDE DEF n
  <2>1. Head(ticks[w].todo) = Payouts[n][equity][k + 1] /\ k + 1 \in 1 .. Len(Payouts[n][equity])
    BY <1>4, <1>5, RestFacts
  <2> QED
    BY <1>4, <2>1 DEF Head1
<1>7. Head1(w).trader \in Contestants
  <2>1. Head1(w).trader \in Entrants[n]
    BY <1>1, <1>3, <1>6, PrizesFacts
  <2> QED
    BY <1>1, <2>1 DEF Contestants
<1> QED
  BY <1>1, <1>2, <1>3, <1>6, <1>7 DEF MayPay

LEMMA PayoutTypedStep == Walking /\ [PayoutNext]_payoutVars => PayoutTyped'
<1> SUFFICES ASSUME PayoutTyped, BoardsHold, TicksWalk, [PayoutNext]_payoutVars PROVE PayoutTyped'
  BY DEF Walking
<1> USE SeasonFacts, TickFacts
<1>1. CASE PassTime
  BY <1>1 DEF PassTime, PayoutTyped, bounds, board, MarksOf
<1>2. CASE Rollover
  <2>1. PICK equity \in MarksOf(Len(status) + 1) : marks' = Append(marks, equity)
    BY <1>2 DEF Rollover
  <2>2. Len(status) + 1 \in 1 .. SeasonBound
    BY <1>2 DEF Rollover
  <2>3. equity \in UNION {MarksOf(n) : n \in 1 .. SeasonBound}
    BY <2>2
  <2>4. /\ status' \in Seq({"pending", "finalized"}) /\ Len(status') = Len(status) + 1
        /\ recorded' \in Seq(SUBSET Contestants) /\ Len(recorded') = Len(status) + 1
        /\ remarked' \in Seq(Nat) /\ Len(remarked') = Len(status) + 1
    BY <1>2 DEF Rollover, PayoutTyped
  <2>5. marks' \in Seq(UNION {MarksOf(n) : n \in 1 .. SeasonBound}) /\ Len(marks') = Len(status) + 1
    <3> DEFINE All == UNION {MarksOf(n) : n \in 1 .. SeasonBound}
    <3>1. marks \in Seq(All) /\ Len(marks) = Len(status)
      BY DEF PayoutTyped
    <3> HIDE DEF All
    <3>2. marks' \in Seq(All) /\ Len(marks') = Len(marks) + 1
      BY ONLY <2>1, <2>3, <3>1, AppendProperties DEF All
    <3> QED
      BY ONLY <3>1, <3>2 DEF All
  <2> QED
    BY <1>2, <2>2, <2>4, <2>5 DEF Rollover, PayoutTyped, bounds, MarksOf
<1>3. ASSUME NEW w \in Workers, StartTick(w) PROVE PayoutTyped'
  <2>1. [pc |-> "board", season |-> CurrentSeason, todo |-> <<>>] \in TickRecords
    BY CurrentFacts DEF TickRecords, Pcs
  <2> QED
    BY <1>3, <2>1, TickTyped DEF StartTick, PayoutTyped, bounds, board, MarksOf
<1>4. ASSUME NEW w \in Workers, ReadBoard(w) PROVE PayoutTyped'
  <2> DEFINE n == ticks[w].season
  <2>1. n \in Seasons /\ n \in 1 .. SeasonBound
    BY <1>4 DEF ReadBoard, BoardsHold, At
  <2>2. PICK equity \in MarksOf(n) :
          /\ Moves(w, [ticks[w] EXCEPT !.pc = "pay", !.todo = Payouts[n][equity]])
          /\ marks' = [marks EXCEPT ![n] = equity]
          /\ remarked' = [remarked EXCEPT ![n] = IF equity = marks[n] THEN @ ELSE @ + 1]
    BY <1>4, <2>1 DEF ReadBoard, BoardsHold
  <2>3. [ticks[w] EXCEPT !.pc = "pay", !.todo = Payouts[n][equity]] \in TickRecords
    <3>1. Payouts[n][equity] \in Seq(PayoutRecords) /\ ticks[w] \in TickRecords
      BY <2>1, PayoutsFacts
    <3> QED
      BY ONLY <3>1 DEF TickRecords, Pcs
  <2>4. ticks' \in [Workers -> TickRecords]
    BY <2>2, <2>3, TickTyped
  <2>5. /\ marks' \in Seq(UNION {MarksOf(m) : m \in 1 .. SeasonBound}) /\ Len(marks') = Len(status)
        /\ remarked' \in Seq(Nat) /\ Len(remarked') = Len(status)
    <3>1. equity \in UNION {MarksOf(m) : m \in 1 .. SeasonBound}
      BY <2>1
    <3>2. /\ marks \in Seq(UNION {MarksOf(m) : m \in 1 .. SeasonBound}) /\ Len(marks) = Len(status)
          /\ n \in 1 .. Len(status) /\ remarked \in Seq(Nat) /\ Len(remarked) = Len(status)
          /\ remarked[n] \in Nat
      BY <2>1 DEF PayoutTyped
    <3> DEFINE count == IF equity = marks[n] THEN remarked[n] ELSE remarked[n] + 1
    <3>3. count \in Nat /\ remarked' = [remarked EXCEPT ![n] = count]
      BY <2>2, <3>2
    <3>4. marks' = [marks EXCEPT ![n] = equity]
      BY <2>2
    <3> HIDE DEF n, count
    <3> QED
      BY ONLY <3>1, <3>2, <3>3, <3>4, ExceptSeq
  <2> QED
    BY <1>4, <2>4, <2>5 DEF ReadBoard, PayoutTyped, bounds, MarksOf
<1>5. ASSUME NEW w \in Workers, SkipPaid(w) PROVE PayoutTyped'
  <2>1. [ticks[w] EXCEPT !.todo = Tail(@)] \in TickRecords
    BY <1>5 DEF SkipPaid, TickRecords
  <2> QED
    BY <1>5, <2>1, TickTyped DEF SkipPaid, PayoutTyped, bounds, board, MarksOf
<1>6. ASSUME NEW w \in Workers, Send(w) PROVE PayoutTyped'
  <2>1. [ticks[w] EXCEPT !.pc = "confirm"] \in TickRecords
    BY DEF TickRecords, Pcs
  <2>2. Transfer(w) \in Transfers
    <3>1. ticks[w].season \in Nat /\ Head1(w) \in PayoutRecords
      BY <1>6 DEF Send
    <3>2. w \in Nat /\ faults \in Nat
      BY PayoutAssumption DEF Workers, PayoutTyped
    <3> QED
      BY ONLY <3>1, <3>2 DEF Transfer, Transfers
  <2>3. inflight' \subseteq Transfers /\ IsFiniteSet(inflight')
    BY <1>6, <2>2, FS_AddElement DEF Send, PayoutTyped
  <2> QED
    BY <1>6, <2>1, <2>3, TickTyped DEF Send, PayoutTyped, bounds, board, MarksOf
<1>7. ASSUME NEW tx \in inflight, NEW pc \in Pcs, Heard(tx, pc)
      PROVE  ticks' \in [Workers -> TickRecords]
  <2>1. \A w \in Workers : [ticks[w] EXCEPT !.pc = pc] \in TickRecords
    BY DEF TickRecords
  <2> QED
    BY <1>7, <2>1 DEF Heard
<1>8. ASSUME NEW tx \in inflight, Land(tx) PROVE PayoutTyped'
  <2> DEFINE l == [season |-> tx.season, payout |-> tx.payout]
  <2>1. ticks' \in [Workers -> TickRecords]
    BY <1>7, <1>8 DEF Land, Pcs
  <2>2. inflight' \subseteq Transfers /\ IsFiniteSet(inflight')
    BY <1>8, FS_RemoveElement DEF Land, PayoutTyped
  <2>3. l \in Landings
    BY DEF Landings, Transfers, PayoutTyped
  <2>4. /\ DOMAIN landed' = DOMAIN landed \cup {l}
        /\ \A m \in DOMAIN landed' : landed'[m] \in Nat \ {0}
        /\ landed' \in [DOMAIN landed' -> Nat \ {0}]
    <3> HIDE DEF l
    <3>1. landed' = landed (+) SetToBag({l})
      BY <1>8 DEF Land, l
    <3>2. DOMAIN landed' = DOMAIN landed \cup {l}
      BY <3>1 DEF (+), SetToBag
    <3>3. \A m \in DOMAIN landed : landed[m] \in Nat \ {0}
      BY DEF PayoutTyped
    <3> QED
      BY <3>1, <3>2, <3>3 DEF (+), SetToBag
  <2>5. DOMAIN landed' \subseteq Landings /\ IsFiniteSet(DOMAIN landed')
    <3> HIDE DEF l
    <3>1. IsFiniteSet(DOMAIN landed) /\ DOMAIN landed \subseteq Landings
      BY DEF PayoutTyped
    <3>2. DOMAIN landed' = DOMAIN landed \cup {l}
      BY <2>4
    <3> QED
      BY ONLY <2>3, <3>1, <3>2, FS_AddElement
  <2> QED
    BY <1>8, <2>1, <2>2, <2>4, <2>5 DEF Land, PayoutTyped, bounds, board, MarksOf
<1>9. ASSUME NEW tx \in inflight, Expire(tx) PROVE PayoutTyped'
  <2>1. ticks' \in [Workers -> TickRecords]
    BY <1>7, <1>9 DEF Expire, Pcs
  <2>2. inflight' \subseteq Transfers /\ IsFiniteSet(inflight')
    <3>1. inflight' = inflight \ {tx} /\ inflight \subseteq Transfers /\ IsFiniteSet(inflight)
      BY <1>9 DEF Expire, PayoutTyped
    <3> QED
      BY ONLY <3>1, FS_RemoveElement
  <2>3. faults' \in 0 .. FaultBound
    <3>1. faults' = faults + 1 /\ faults < FaultBound
      BY <1>9 DEF Expire, Fault
    <3>2. faults \in 0 .. FaultBound /\ FaultBound \in Nat
      BY PayoutAssumption DEF PayoutTyped
    <3> QED
      BY ONLY <3>1, <3>2
  <2> QED
    BY <1>9, <2>1, <2>2, <2>3 DEF Expire, PayoutTyped, board, MarksOf
<1>10. ASSUME NEW w \in Workers, Record(w) PROVE PayoutTyped'
  <2>1. ticks[w].todo # <<>> /\ ticks[w].season \in Seasons
    BY <1>10 DEF Record, BoardsHold, At
  <2>2. [ticks[w] EXCEPT !.pc = "pay", !.todo = Tail(@)] \in TickRecords
    BY <2>1 DEF TickRecords, Pcs
  <2>3. recorded' \in Seq(SUBSET Contestants) /\ Len(recorded') = Len(status)
    <3>1. Head1(w).trader \in Contestants
      BY <1>10, <2>1, WalkFacts DEF Record, At
    <3> QED
      BY <1>10, <2>1, <3>1 DEF Record, PayoutTyped, RecordOne
  <2> QED
    BY <1>10, <2>2, <2>3, TickTyped DEF Record, PayoutTyped, bounds, board, MarksOf
<1>11. Idle \in TickRecords
  BY DEF Idle, TickRecords, Pcs
<1>12. ASSUME Fault PROVE faults' \in 0 .. FaultBound
  BY <1>12, PayoutAssumption DEF Fault, PayoutTyped
<1>13. ASSUME NEW w \in Workers, PayoutFailed(w) PROVE PayoutTyped'
  <2>1. faults' \in 0 .. FaultBound
    BY <1>12, <1>13 DEF PayoutFailed, PayoutTyped
  <2> QED
    BY <1>11, <1>13, <2>1, TickTyped DEF PayoutFailed, GiveUp, PayoutTyped, board, MarksOf
<1>14. \A tx \in inflight : [tx EXCEPT !.by = 0] \in Transfers /\ tx \in Transfers
  BY DEF PayoutTyped, Transfers
<1>15. ASSUME NEW w \in Workers, PayoutUnknown(w) PROVE PayoutTyped'
  <2> DEFINE f == [tx \in inflight |-> [tx EXCEPT !.by = IF @ = w THEN 0 ELSE @]]
  <2>1. inflight' = {f[tx] : tx \in inflight}
    BY <1>15 DEF PayoutUnknown, Orphaned
  <2>2. IsFiniteSet(inflight')
    <3>1. f \in [inflight -> inflight']
      BY <2>1
    <3> HIDE DEF f
    <3> QED
      BY <2>1, <3>1, OrphanedTyped
  <2>3. inflight' \subseteq Transfers
    <3>1. ASSUME NEW tx \in inflight PROVE f[tx] \in Transfers
      <4>1. tx.by \in Nat
        BY <1>14 DEF Transfers
      <4>2. f[tx] = [tx EXCEPT !.by = 0] \/ f[tx] = tx
        BY <1>14 DEF Transfers
      <4> QED
        BY <1>14, <4>2
    <3> QED
      BY <2>1, <3>1
  <2>4. faults' \in 0 .. FaultBound /\ lost' \in Nat
    BY <1>12, <1>15 DEF PayoutUnknown, PayoutTyped
  <2> QED
    BY <1>11, <1>15, <2>2, <2>3, <2>4, TickTyped DEF PayoutUnknown, GiveUp, PayoutTyped, board, MarksOf
<1>16. ASSUME NEW w \in Workers, FinishTick(w) PROVE PayoutTyped'
  <2>1. ticks[w].season \in Seasons
    BY <1>16 DEF FinishTick, BoardsHold, At
  <2>2. status' \in Seq({"pending", "finalized"}) /\ Len(status') = Len(status)
    <3>1. status' = [status EXCEPT ![ticks[w].season] = "finalized"]
      BY <1>16 DEF FinishTick
    <3>2. status \in Seq({"pending", "finalized"}) /\ ticks[w].season \in 1 .. Len(status)
      BY <2>1 DEF PayoutTyped
    <3> QED
      BY ONLY <3>1, <3>2, ExceptSeq
  <2> QED
    BY <1>11, <1>16, <2>2, TickTyped DEF FinishTick, PayoutTyped, bounds, board, MarksOf
<1>17. CASE Crash
  <2> DEFINE f == [tx \in inflight |-> [tx EXCEPT !.by = 0]]
             gone == {w \in Workers : At(w, "confirm") \/ At(w, "record")}
  <2>1. inflight' = {f[tx] : tx \in inflight}
    BY <1>17 DEF Crash
  <2>2. IsFiniteSet(inflight')
    <3>1. f \in [inflight -> inflight']
      BY <2>1
    <3> HIDE DEF f
    <3> QED
      BY <2>1, <3>1, OrphanedTyped
  <2>3. inflight' \subseteq Transfers
    BY <1>14, <2>1
  <2>4. faults' \in 0 .. FaultBound
    BY <1>12, <1>17 DEF Crash
  <2>5. lost' \in Nat
    <3>1. IsFiniteSet(Workers)
      BY PayoutAssumption, FS_Interval DEF Workers
    <3>2. Cardinality(gone) \in Nat
      BY <3>1, FS_Subset, FS_CardinalityType
    <3> QED
      BY <1>17, <3>2 DEF Crash, PayoutTyped
  <2>6. ticks' \in [Workers -> TickRecords]
    BY <1>11, <1>17 DEF Crash
  <2> QED
    BY <1>17, <2>2, <2>3, <2>4, <2>5, <2>6 DEF Crash, PayoutTyped, board, MarksOf
<1>18. CASE UNCHANGED payoutVars
  BY <1>18 DEF payoutVars, PayoutTyped, MarksOf
<1> QED
  BY <1>1, <1>2, <1>3, <1>4, <1>5, <1>6, <1>8, <1>9, <1>10, <1>13, <1>15, <1>16, <1>17, <1>18
     DEF PayoutNext

(***************************************************************************)
(* What a step does to a tick: nothing, or it begins or ends, or it reads  *)
(* its board, or turns to the next thing to do about the place it is at,   *)
(* or goes on to the next place.                                           *)
(***************************************************************************)
Rests(w) ==
    /\ ticks'[w].pc \in {"idle", "board"} /\ ticks'[w].todo = <<>>
    /\ ticks'[w].season \in Seasons \cup {0}
    /\ ticks'[w].pc = "board" => ticks'[w].season \in Seasons
Reads(w) ==
    LET n == ticks[w].season
    IN  /\ n \in Seasons /\ ticks'[w].season = n /\ ticks'[w].pc = "pay"
        /\ \E equity \in MarksOf(n) :
              /\ ticks'[w].todo = Payouts[n][equity] /\ equity = marks'[n]
Turns(w) ==
    /\ ticks[w].pc \in {"pay", "confirm"} /\ ticks[w].todo # <<>>
    /\ ticks'[w].season = ticks[w].season /\ ticks'[w].todo = ticks[w].todo
    /\ ticks'[w].pc \in {"confirm", "record", "failed"}
Advances(w) ==
    /\ ticks[w].pc \in {"pay", "record"} /\ ticks[w].todo # <<>>
    /\ ticks'[w].season = ticks[w].season /\ ticks'[w].todo = Tail(ticks[w].todo)
    /\ ticks'[w].pc = "pay"
    /\ Head1(w).trader \in recorded'[ticks[w].season]
Stays(w) == ticks'[w] = ticks[w]

LEMMA TickCases ==
    ASSUME Walking, [PayoutNext]_payoutVars, NEW v \in Workers
    PROVE  Stays(v) \/ Rests(v) \/ Reads(v) \/ Turns(v) \/ Advances(v)
<1> USE DEF Walking
<1>1. ASSUME UNCHANGED ticks PROVE Stays(v)
  BY <1>1 DEF Stays
<1>2. CASE PassTime \/ Rollover \/ UNCHANGED payoutVars
  BY <1>1, <1>2 DEF PassTime, Rollover, payoutVars
<1>3. ASSUME NEW w \in Workers, NEW tick \in TickRecords, Moves(w, tick), v # w
      PROVE  Stays(v)
  BY <1>3, TickTyped DEF Stays
<1>4. Idle \in TickRecords
  BY DEF Idle, TickRecords, Pcs
<1>5. ticks[v] \in TickRecords /\ ticks \in [Workers -> TickRecords]
  BY TickFacts DEF PayoutTyped
<1>6. ASSUME NEW w \in Workers, Moves(w, Idle)
      PROVE  Stays(v) \/ Rests(v)
  <2>1. CASE v = w
    <3>1. ticks'[v] = Idle
      BY <1>4, <1>6, <2>1, TickTyped
    <3> QED
      BY <3>1 DEF Rests, Idle
  <2> QED
    BY <1>3, <1>4, <1>6, <2>1
<1>7. ASSUME NEW w \in Workers, StartTick(w)
      PROVE  Stays(v) \/ Rests(v)
  <2>1. CurrentSeason \in Seasons
    BY CurrentFacts
  <2>2. ticks' = [ticks EXCEPT ![w] = [pc |-> "board", season |-> CurrentSeason, todo |-> <<>>]]
    BY <1>7 DEF StartTick, Moves
  <2> QED
    BY <1>5, <2>1, <2>2 DEF Stays, Rests
<1>8. ASSUME NEW w \in Workers, ReadBoard(w)
      PROVE  Stays(v) \/ Reads(v)
  <2> DEFINE n == ticks[w].season
  <2>1. n \in Seasons /\ marks[n] \in MarksOf(n)
    BY <1>8 DEF ReadBoard, BoardsHold, At
  <2>2. PICK equity \in MarksOf(n) :
          /\ ticks' = [ticks EXCEPT ![w] = [ticks[w] EXCEPT !.pc = "pay", !.todo = Payouts[n][equity]]]
          /\ marks' = [marks EXCEPT ![n] = equity]
    BY <1>8, <2>1 DEF ReadBoard, Moves
  <2>3. CASE v = w
    <3>1. /\ ticks'[v].season = n /\ ticks'[v].pc = "pay" /\ ticks'[v].todo = Payouts[n][equity]
      BY <1>5, <2>2, <2>3 DEF TickRecords
    <3>2. marks'[n] = equity
      BY <2>1, <2>2, SeasonFacts
    <3> QED
      BY <2>1, <2>3, <3>1, <3>2 DEF Reads
  <2> QED
    BY <1>5, <2>2, <2>3 DEF Stays
<1>9. ASSUME NEW w \in Workers, SkipPaid(w)
      PROVE  Stays(v) \/ Advances(v)
  <2>1. ticks' = [ticks EXCEPT ![w] = [ticks[w] EXCEPT !.todo = Tail(@)]]
    BY <1>9 DEF SkipPaid, Moves
  <2> QED
    BY <1>5, <1>9, <2>1 DEF SkipPaid, Stays, Advances, At, AlreadyPaid, TickRecords
<1>10. ASSUME NEW w \in Workers, Send(w)
       PROVE  Stays(v) \/ Turns(v)
  <2>1. ticks' = [ticks EXCEPT ![w] = [ticks[w] EXCEPT !.pc = "confirm"]]
    BY <1>10 DEF Send, Moves
  <2> QED
    BY <1>5, <1>10, <2>1 DEF Send, Stays, Turns, At, TickRecords
<1>11. ASSUME NEW tx \in inflight, Land(tx) \/ Expire(tx)
       PROVE  Stays(v) \/ Turns(v)
  <2>1. PICK pc \in {"record", "failed"} : Heard(tx, pc)
    BY <1>11 DEF Land, Expire
  <2>2. ticks'[v] = IF tx.by = v /\ At(v, "confirm") THEN [ticks[v] EXCEPT !.pc = pc] ELSE ticks[v]
    BY <2>1 DEF Heard
  <2>3. At(v, "confirm") => ticks[v].todo # <<>>
    BY DEF BoardsHold, At
  <2> QED
    BY <1>5, <2>1, <2>2, <2>3 DEF Stays, Turns, At, TickRecords
<1>12. ASSUME NEW w \in Workers, Record(w)
       PROVE  Stays(v) \/ Advances(v)
  <2>1. /\ ticks' = [ticks EXCEPT ![w] = [ticks[w] EXCEPT !.pc = "pay", !.todo = Tail(@)]]
        /\ recorded' = [recorded EXCEPT ![ticks[w].season] = @ \cup {Head1(w).trader}]
    BY <1>12 DEF Record, Moves, RecordOne
  <2>2. ticks[w].season \in Seasons /\ ticks[w].todo # <<>>
    BY <1>12 DEF Record, BoardsHold, At
  <2>3. Head1(w).trader \in recorded'[ticks[w].season]
    BY <2>1, <2>2, SeasonFacts
  <2> QED
    BY <1>5, <1>12, <2>1, <2>2, <2>3 DEF Record, Stays, Advances, At, TickRecords
<1>13. ASSUME NEW w \in Workers, PayoutFailed(w) \/ PayoutUnknown(w) \/ FinishTick(w)
       PROVE  Stays(v) \/ Rests(v)
  BY <1>6, <1>13 DEF PayoutFailed, PayoutUnknown, FinishTick, GiveUp
<1>14. CASE Crash
  BY <1>14 DEF Crash, Rests, Idle
<1> QED
  BY <1>2, <1>7, <1>8, <1>9, <1>10, <1>11, <1>12, <1>13, <1>14 DEF PayoutNext

LEMMA BoardsStep == Walking /\ [PayoutNext]_payoutVars => BoardsHold'
<1> SUFFICES ASSUME Walking, [PayoutNext]_payoutVars PROVE BoardsHold'
  OBVIOUS
<1> USE DEF Walking
<1>1. \A n \in Seasons' : marks'[n] \in MarksOf(n)
  <2>1. CASE UNCHANGED <<status, marks>> \/ (Seasons' = Seasons /\ UNCHANGED marks)
    BY <2>1 DEF BoardsHold, Seasons
  <2>2. CASE Rollover
    <3>1. PICK equity \in MarksOf(Len(status) + 1) : marks' = Append(marks, equity)
      BY <2>2 DEF Rollover
    <3>2. Seasons' = 1 .. Len(status) + 1 /\ Seasons = 1 .. Len(status)
      BY <2>2 DEF Rollover, Seasons, PayoutTyped
    <3> QED
      BY <3>1, <3>2 DEF PayoutTyped, BoardsHold
  <2>3. ASSUME NEW w \in Workers, ReadBoard(w)
        PROVE  \A n \in Seasons' : marks'[n] \in MarksOf(n)
    <3>1. PICK equity \in MarksOf(ticks[w].season) : marks' = [marks EXCEPT ![ticks[w].season] = equity]
      BY <2>3 DEF ReadBoard, BoardsHold, At
    <3>2. Seasons' = Seasons /\ Seasons = DOMAIN marks
      BY <2>3, SeasonFacts DEF ReadBoard, Seasons
    <3> QED
      BY <3>1, <3>2 DEF BoardsHold
  <2>4. ASSUME NEW w \in Workers, FinishTick(w)
        PROVE  Seasons' = Seasons
    BY <2>4 DEF FinishTick, Seasons, PayoutTyped
  <2> QED
    BY <2>1, <2>2, <2>3, <2>4
       DEF PayoutNext, PassTime, StartTick, SkipPaid, Send, Record, PayoutFailed, PayoutUnknown,
           FinishTick, Land, Expire, Crash, payoutVars, board
<1>2. ASSUME NEW w \in Workers
      PROVE  /\ ticks'[w].season \in Seasons' \cup {0}
             /\ ticks'[w].pc \in {"idle", "board"} => ticks'[w].todo = <<>>
             /\ ticks'[w].pc # "idle" => ticks'[w].season \in Seasons'
             /\ ticks'[w].pc \in {"confirm", "record", "failed"} => ticks'[w].todo # <<>>
  <2>1. Seasons \subseteq Seasons'
    BY StepGrows DEF Grows
  <2>2. /\ ticks[w].season \in Seasons \cup {0}
        /\ ticks[w].pc \in {"idle", "board"} => ticks[w].todo = <<>>
        /\ ticks[w].pc # "idle" => ticks[w].season \in Seasons
        /\ ticks[w].pc \in {"confirm", "record", "failed"} => ticks[w].todo # <<>>
    BY DEF BoardsHold
  <2> QED
    BY <2>1, <2>2, TickCases DEF Stays, Rests, Reads, Turns, Advances
<1> QED
  BY <1>1, <1>2 DEF BoardsHold

LEMMA TicksWalkStep == Walking /\ [PayoutNext]_payoutVars => TicksWalk'
<1> SUFFICES ASSUME Walking, [PayoutNext]_payoutVars, NEW w \in Workers,
                    ticks'[w].pc \notin {"idle", "board"},
                    NEW m, NEW rest, m = ticks'[w].season, rest = ticks'[w].todo
             PROVE  \E equity \in Boards(m)' : Remains(m, equity, rest)'
  <2> SUFFICES ASSUME Walking, [PayoutNext]_payoutVars, NEW w \in Workers,
                      ticks'[w].pc \notin {"idle", "board"}
               PROVE  (\E equity \in Boards(ticks[w].season) :
                          Remains(ticks[w].season, equity, ticks[w].todo))'
    BY DEF TicksWalk
  <2>1. PICK m, rest : m = ticks'[w].season /\ rest = ticks'[w].todo
    OBVIOUS
  <2>2. \E equity \in Boards(m)' : Remains(m, equity, rest)'
    BY <2>1
  <2> QED
    BY <2>1, <2>2 DEF Boards, Remains
<1> USE DEF Walking
<1> PICK n, todo : n = ticks[w].season /\ todo = ticks[w].todo
  OBVIOUS
<1>1. Grows /\ BoardsHold' /\ PayoutTyped'
  BY StepGrows, BoardsStep, PayoutTypedStep
<1>2. ASSUME ticks[w].pc \notin {"idle", "board"}
      PROVE  /\ n \in Seasons /\ n \in 1 .. SeasonBound
             /\ \E equity \in Boards(n) :
                  /\ equity \in MarksOf(n) /\ equity \in Boards(n)'
                  /\ Remains(n, equity, todo)'
  <2>1. n \in Seasons /\ n \in 1 .. SeasonBound
    BY <1>2, SeasonFacts DEF BoardsHold
  <2>2. PICK equity \in Boards(n) : Remains(n, equity, todo)
    BY <1>2 DEF TicksWalk
  <2>3. equity \in MarksOf(n)
    BY <2>1 DEF Boards, BoardsHold
  <2>4. equity \in Boards(n)'
    BY <1>1, <2>1 DEF Grows
  <2>5. Remains(n, equity, todo)'
    BY <1>1, <2>1, <2>2, GrowthKeeps
  <2> QED
    BY <2>1, <2>3, <2>4, <2>5
<1>3. CASE Stays(w) \/ Turns(w)
  <2>1. ticks'[w].season = n /\ ticks'[w].todo = todo /\ ticks[w].pc \notin {"idle", "board"}
    BY <1>3 DEF Stays, Turns
  <2> QED
    BY <1>2, <2>1
<1>4. CASE Reads(w)
  <2>1. PICK equity \in MarksOf(n) : ticks'[w].todo = Payouts[n][equity] /\ equity = marks'[n]
    BY <1>4 DEF Reads
  <2>2. n \in Seasons /\ n \in 1 .. SeasonBound /\ ticks'[w].season = n
    BY <1>4, SeasonFacts DEF Reads
  <2>3. equity \in Boards(n)'
    BY <2>1 DEF Boards, MarksOf
  <2>4. Payouts[n][equity] \in Seq(PayoutRecords)
    BY <2>2, PayoutsFacts
  <2>5. SubSeq(Payouts[n][equity], 0 + 1, Len(Payouts[n][equity])) = Payouts[n][equity]
    BY <2>4, SubSeqFull
  <2>6. Remains(n, equity, Payouts[n][equity])'
    <3>1. 0 \in 0 .. Len(Payouts[n][equity]) /\ 1 .. 0 = {}
      BY <2>4
    <3> QED
      BY <2>5, <3>1 DEF Remains
  <2> QED
    BY <2>1, <2>2, <2>3, <2>6
<1>5. CASE Advances(w)
  <2>1. ticks[w].pc \notin {"idle", "board"} /\ todo # <<>>
    BY <1>5 DEF Advances
  <2>2. PICK equity \in Boards(n) :
          /\ equity \in MarksOf(n) /\ equity \in Boards(n)' /\ n \in 1 .. SeasonBound
          /\ Remains(n, equity, todo)'
    BY <1>2, <2>1
  <2> PICK s : s = Payouts[n][equity]
    OBVIOUS
  <2>3. s \in Seq(PayoutRecords)
    BY <2>2, PayoutsFacts
  <2>4. PICK k \in 0 .. Len(s) : /\ todo = SubSeq(s, k + 1, Len(s))
                                 /\ \A i \in 1 .. k : s[i].trader \in recorded'[n]
    BY <2>2 DEF Remains
  <2>5. /\ k + 1 \in 1 .. Len(s) /\ Head(todo) = s[k + 1]
        /\ Tail(todo) = SubSeq(s, k + 2, Len(s))
    <3>1. todo = SubSeq(s, k + 1, Len(s)) /\ todo # <<>>
      BY <2>1, <2>4
    <3> QED
      BY ONLY <2>3, <3>1, k \in 0 .. Len(s), RestFacts
  <2>6. \A i \in 1 .. k + 1 : s[i].trader \in recorded'[n]
    <3>1. s[k + 1].trader \in recorded'[n]
      BY <1>5, <2>5 DEF Advances, Head1
    <3>2. \A i \in 1 .. k + 1 : i \in 1 .. k \/ i = k + 1
      OBVIOUS
    <3> QED
      <4>1. \A i \in 1 .. k : s[i].trader \in recorded'[n]
        BY <2>4
      <4> QED
        BY ONLY <3>1, <3>2, <4>1
  <2>7. k + 1 \in 0 .. Len(s) /\ Tail(todo) = SubSeq(s, (k + 1) + 1, Len(s))
    <3>1. (k + 1) + 1 = k + 2 /\ k + 1 \in 0 .. Len(s)
      BY ONLY <2>5, k \in 0 .. Len(s)
    <3> QED
      BY ONLY <2>5, <3>1
  <2>8. Remains(n, equity, Tail(todo))'
    <3>1. \E j \in 0 .. Len(s) : /\ Tail(todo) = SubSeq(s, j + 1, Len(s))
                                 /\ \A i \in 1 .. j : s[i].trader \in recorded'[n]
      BY <2>6, <2>7
    <3> QED
      BY <3>1 DEF Remains
  <2>9. ticks'[w].season = n /\ ticks'[w].todo = Tail(todo)
    BY <1>5 DEF Advances
  <2> QED
    BY <2>2, <2>8, <2>9
<1>6. ~Rests(w)
  BY DEF Rests
<1> QED
  BY <1>3, <1>4, <1>5, <1>6, TickCases

(***************************************************************************)
(* Transfers and landings                                                  *)
(***************************************************************************)
LEMMA MayPayGrows ==
    ASSUME Walking, [PayoutNext]_payoutVars, NEW n \in Seasons
    PROVE  n \in Seasons' /\ MayPay(n) \subseteq MayPay(n)'
BY StepGrows, GrowthKeeps DEF Walking

LEMMA TransfersStep == Walking /\ TransfersHold /\ [PayoutNext]_payoutVars => TransfersHold'
<1> SUFFICES ASSUME Walking, TransfersHold, [PayoutNext]_payoutVars PROVE TransfersHold'
  OBVIOUS
<1> USE DEF Walking
<1>1. ASSUME NEW tx \in inflight
      PROVE  /\ tx.season \in Seasons' /\ tx.by \in Workers \cup {0}
             /\ \E n : n = tx.season /\ tx.payout \in MayPay(n)'
  <2>1. tx.season \in Seasons /\ tx.payout \in MayPay(tx.season) /\ tx.by \in Workers \cup {0}
    BY DEF TransfersHold
  <2> QED
    BY <2>1, MayPayGrows
\* It is enough to follow who waits for what.
<1> DEFINE Owned == \A tx \in inflight' :
               /\ tx.season \in Seasons' /\ tx.by \in Workers \cup {0}
               /\ \E n : n = tx.season /\ tx.payout \in MayPay(n)'
           Awaited == \A tx \in inflight' :
               tx.by # 0 => /\ ticks'[tx.by].pc = "confirm" /\ ticks'[tx.by].season = tx.season
                            /\ Head(ticks'[tx.by].todo) = tx.payout
           Apart == \A tx, ty \in inflight' : tx.by # 0 /\ tx.by = ty.by => tx = ty
<1>2. ASSUME Owned, Awaited, Apart PROVE TransfersHold'
  <2>1. \A tx \in inflight' : tx.payout \in MayPay(tx.season)'
    BY <1>2 DEF MayPay, Boards
  <2> QED
    BY <1>2, <2>1 DEF TransfersHold, At, Head1
<1>3. ASSUME NEW tx \in inflight, tx.by # 0
      PROVE  /\ tx.by \in Workers /\ ticks[tx.by].pc = "confirm" /\ ticks[tx.by].season = tx.season
             /\ Head(ticks[tx.by].todo) = tx.payout
  BY <1>3 DEF TransfersHold, At, Head1
<1>4. \A tx, ty \in inflight : tx.by # 0 /\ tx.by = ty.by => tx = ty
  BY DEF TransfersHold
<1>5. ASSUME inflight' \subseteq inflight,
             \A tx \in inflight' : tx.by # 0 => ticks'[tx.by] = ticks[tx.by]
      PROVE  TransfersHold'
  <2>1. Owned
    BY <1>1, <1>5
  <2>2. Awaited
    BY <1>3, <1>5
  <2>3. Apart
    BY <1>4, <1>5
  <2> QED
    BY <1>2, <2>1, <2>2, <2>3
<1>7. CASE PassTime \/ Rollover \/ UNCHANGED payoutVars
  BY <1>5, <1>7 DEF PassTime, Rollover, payoutVars
<1>8. ASSUME NEW w \in Workers, UNCHANGED inflight, ~At(w, "confirm"),
             \E X : ticks' = [ticks EXCEPT ![w] = X]
      PROVE  TransfersHold'
  <2>1. \A tx \in inflight : tx.by # 0 => tx.by # w
    BY <1>3, <1>8 DEF At
  <2>2. \A tx \in inflight' : tx.by # 0 => ticks'[tx.by] = ticks[tx.by]
    BY <1>3, <1>8, <2>1 DEF PayoutTyped
  <2> QED
    BY <1>5, <1>8, <2>2
<1>9. ASSUME NEW w \in Workers,
             \/ StartTick(w) \/ ReadBoard(w) \/ SkipPaid(w) \/ Record(w)
             \/ PayoutFailed(w) \/ FinishTick(w)
      PROVE  TransfersHold'
  <2>1. UNCHANGED inflight /\ ~At(w, "confirm") /\ \E X : ticks' = [ticks EXCEPT ![w] = X]
    BY <1>9 DEF StartTick, ReadBoard, SkipPaid, Record, PayoutFailed, FinishTick, At, Moves
  <2> QED
    BY <1>8, <2>1
<1>10. ASSUME NEW w \in Workers, Send(w) PROVE TransfersHold'
  <2> DEFINE new == Transfer(w)
  <2>1. /\ new.season = ticks[w].season /\ new.payout = Head1(w) /\ new.by = w
        /\ inflight' = inflight \cup {new} /\ w # 0
    BY <1>10, PayoutAssumption DEF Transfer, Send, Workers
  <2>2. /\ ticks'[w].pc = "confirm" /\ ticks'[w].season = ticks[w].season
        /\ ticks'[w].todo = ticks[w].todo /\ \A v \in Workers : v # w => ticks'[v] = ticks[v]
    <3>1. ticks' = [ticks EXCEPT ![w] = [ticks[w] EXCEPT !.pc = "confirm"]]
      BY <1>10 DEF Send, Moves
    <3> QED
      BY <3>1, TickFacts DEF PayoutTyped, TickRecords
  <2>3. \A tx \in inflight : tx.by # w
    BY <1>3, <1>10 DEF Send, At, Workers
  <2>4. ticks[w].season \in Seasons /\ Head1(w) \in MayPay(ticks[w].season)
    BY <1>10, WalkFacts DEF Send, At
  <2>5. ticks[w].season \in Seasons' /\ \E n : n = ticks[w].season /\ Head1(w) \in MayPay(n)'
    BY <2>4, MayPayGrows
  <2> HIDE DEF new
  <2>6. Owned
    BY <1>1, <2>1, <2>5
  <2>7. Awaited
    BY <1>3, <2>1, <2>2, <2>3 DEF Head1
  <2>8. Apart
    BY <1>4, <2>1, <2>3
  <2> QED
    BY <1>2, <2>6, <2>7, <2>8
<1>11. ASSUME NEW tx \in inflight, Land(tx) \/ Expire(tx) PROVE TransfersHold'
  <2>1. inflight' = inflight \ {tx}
    BY <1>11 DEF Land, Expire
  <2>2. \A w \in Workers : w # tx.by => ticks'[w] = ticks[w]
    BY <1>11 DEF Land, Expire, Heard
  <2>3. \A ty \in inflight' : ty.by # 0 => ty.by # tx.by
    BY <1>4, <2>1
  <2> QED
    BY <1>3, <1>5, <2>1, <2>2, <2>3
<1>12. ASSUME NEW w \in Workers, PayoutUnknown(w) PROVE TransfersHold'
  <2>1. \A tx \in inflight' : \E ty \in inflight :
           tx = [ty EXCEPT !.by = IF @ = w THEN 0 ELSE @]
    BY <1>12 DEF PayoutUnknown, Orphaned
  <2>2. \A tx \in inflight : tx \in Transfers
    BY DEF PayoutTyped
  <2>3. ASSUME NEW tx \in inflight'
        PROVE  \/ tx \in inflight /\ tx.by # w
               \/ tx.by = 0 /\ \E ty \in inflight : tx.season = ty.season /\ tx.payout = ty.payout
    <3>1. PICK ty \in inflight : tx = [ty EXCEPT !.by = IF @ = w THEN 0 ELSE @]
      BY <2>1
    <3>2. ty \in Transfers
      BY <2>2
    <3> QED
      BY <3>1, <3>2 DEF Transfers
  <2>4. \A v \in Workers : v # w => ticks'[v] = ticks[v]
    BY <1>12 DEF PayoutUnknown, Moves, PayoutTyped
  <2>5. Owned
    BY <1>1, <2>3
  <2>6. Awaited
    BY <1>3, <2>3, <2>4
  <2>7. Apart
    BY <1>4, <2>3
  <2> QED
    BY <1>2, <2>5, <2>6, <2>7
<1>13. CASE Crash
  <2>1. \A tx \in inflight' : \E ty \in inflight : tx = [ty EXCEPT !.by = 0]
    BY <1>13 DEF Crash
  <2>2. \A tx \in inflight : tx \in Transfers
    BY DEF PayoutTyped
  <2>3. \A tx \in inflight' :
           tx.by = 0 /\ \E ty \in inflight : tx.season = ty.season /\ tx.payout = ty.payout
    BY <2>1, <2>2 DEF Transfers
  <2>4. Owned
    BY <1>1, <2>3
  <2>5. Awaited /\ Apart
    BY <2>3
  <2> QED
    BY <1>2, <2>4, <2>5
<1> QED
  BY <1>7, <1>9, <1>10, <1>11, <1>12, <1>13 DEF PayoutNext

LEMMA LandFacts ==
    ASSUME PayoutTyped, NEW tx \in inflight, Land(tx)
    PROVE  \E l \in Landings :
              /\ l = [season |-> tx.season, payout |-> tx.payout]
              /\ l.season = tx.season /\ l.payout = tx.payout
              /\ DOMAIN landed' = DOMAIN landed \cup {l}
              /\ \A m \in DOMAIN landed : m # l => landed'[m] = landed[m]
              /\ landed'[l] = IF l \in DOMAIN landed THEN landed[l] + 1 ELSE 1
<1>1. PICK l : l = [season |-> tx.season, payout |-> tx.payout]
  OBVIOUS
<1>2. l \in Landings /\ l.season = tx.season /\ l.payout = tx.payout
  BY <1>1 DEF Landings, Transfers, PayoutTyped
<1>3. landed' = landed (+) SetToBag({l})
  BY <1>1 DEF Land
<1>4. \A m \in DOMAIN landed : landed[m] \in Nat
  BY DEF PayoutTyped
<1>5. DOMAIN landed' = DOMAIN landed \cup {l}
  BY ONLY <1>3 DEF (+), SetToBag
<1>6. \A m \in DOMAIN landed : m # l => landed'[m] = landed[m]
  BY ONLY <1>3, <1>4 DEF (+), SetToBag
<1>7. landed'[l] = IF l \in DOMAIN landed THEN landed[l] + 1 ELSE 1
  BY ONLY <1>3, <1>4 DEF (+), SetToBag
<1> QED
  BY ONLY <1>1, <1>2, <1>5, <1>6, <1>7

LEMMA LandingsGrow ==
    ASSUME PayoutTyped, [PayoutNext]_payoutVars
    PROVE  /\ DOMAIN landed \subseteq DOMAIN landed'
           /\ UNCHANGED landed \/ \E tx \in inflight : Land(tx)
<1>1. UNCHANGED landed \/ \E tx \in inflight : Land(tx)
  BY DEF PayoutNext, PassTime, Rollover, StartTick, ReadBoard, SkipPaid, Send, Record, PayoutFailed,
         PayoutUnknown, FinishTick, Expire, Crash, payoutVars
<1> QED
  BY <1>1, LandFacts

LEMMA LandingsStep ==
    Walking /\ TransfersHold /\ LandingsHold /\ [PayoutNext]_payoutVars => LandingsHold'
<1> SUFFICES ASSUME Walking, TransfersHold, LandingsHold, [PayoutNext]_payoutVars PROVE LandingsHold'
  OBVIOUS
<1> USE DEF Walking
<1>1. \A l \in DOMAIN landed' : l.season \in Seasons /\ l.payout \in MayPay(l.season)
  <2>1. CASE UNCHANGED landed
    BY <2>1 DEF LandingsHold
  <2>2. ASSUME NEW tx \in inflight, Land(tx)
        PROVE  \A l \in DOMAIN landed' : l.season \in Seasons /\ l.payout \in MayPay(l.season)
    <3>1. PICK l : /\ l.season = tx.season /\ l.payout = tx.payout
                   /\ DOMAIN landed' = DOMAIN landed \cup {l}
      BY <2>2, LandFacts
    <3>2. l.season \in Seasons /\ l.payout \in MayPay(l.season)
      BY <3>1 DEF TransfersHold
    <3> QED
      BY <3>1, <3>2 DEF LandingsHold
  <2> QED
    BY <2>1, <2>2, LandingsGrow
<1>2. ASSUME NEW l \in DOMAIN landed'
      PROVE  l.season \in Seasons' /\ l.payout \in MayPay(l.season)'
  BY <1>1, MayPayGrows
<1> QED
  BY <1>2 DEF LandingsHold, MayPay, Boards

LEMMA PaidStays ==
    ASSUME PayoutTyped, [PayoutNext]_payoutVars, NEW n, NEW t, PaidTo(n, t)
    PROVE  PaidTo(n, t)'
BY LandingsGrow DEF PaidTo

LEMMA RecordsStep ==
    Walking /\ TransfersHold /\ RecordsHold /\ [PayoutNext]_payoutVars => RecordsHold'
<1> SUFFICES ASSUME Walking, TransfersHold, RecordsHold, [PayoutNext]_payoutVars PROVE RecordsHold'
  OBVIOUS
<1> USE DEF Walking
<1>1. ASSUME NEW n \in Seasons', NEW t \in recorded'[n]
      PROVE  PaidTo(n, t)'
  <2>1. CASE n \in Seasons /\ t \in recorded[n]
    BY <2>1, PaidStays DEF RecordsHold
  <2>2. ASSUME NEW w \in Workers, Record(w)
        PROVE  PaidTo(n, t)'
    <3>1. n \in Seasons /\ recorded' = [recorded EXCEPT ![ticks[w].season] = @ \cup {Head1(w).trader}]
      BY <2>2 DEF Record, RecordOne, Seasons
    <3>2. CASE n = ticks[w].season /\ t = Head1(w).trader
      <4>1. PaidTo(n, t)
        BY <2>2, <3>2 DEF RecordsHold, Record
      <4> QED
        BY <4>1, PaidStays
    <3>3. CASE t \in recorded[n]
      BY <2>1, <3>1, <3>3
    <3> QED
      BY <3>1, <3>2, <3>3, SeasonFacts
  <2>3. CASE Rollover
    <3>1. recorded' = Append(recorded, {}) /\ Seasons' = 1 .. Len(status) + 1
      BY <2>3 DEF Rollover, Seasons, PayoutTyped
    <3>2. n \in Seasons /\ recorded'[n] = recorded[n]
      BY <3>1, SeasonFacts DEF PayoutTyped
    <3> QED
      BY <2>1, <3>2
  <2>4. CASE UNCHANGED recorded /\ Seasons' = Seasons
    BY <2>1, <2>4
  <2>5. ASSUME NEW w \in Workers, FinishTick(w)
        PROVE  Seasons' = Seasons
    BY <2>5 DEF FinishTick, Seasons, PayoutTyped
  <2>6. UNCHANGED status => Seasons' = Seasons
    BY DEF Seasons
  <2> QED
    BY <2>2, <2>3, <2>4, <2>5, <2>6
       DEF PayoutNext, PassTime, StartTick, ReadBoard, SkipPaid, Send, PayoutFailed, PayoutUnknown,
           FinishTick, Land, Expire, Crash, payoutVars
<1>2. ASSUME NEW w \in Workers, ticks'[w].pc = "record",
             NEW n, NEW t, n = ticks'[w].season, t = Head(ticks'[w].todo).trader
      PROVE  PaidTo(n, t)'
  <2>1. CASE Stays(w)
    <3>1. PaidTo(n, t)
      BY <1>2, <2>1 DEF RecordsHold, Stays, At, Head1
    <3> QED
      BY <3>1, PaidStays
  <2>2. CASE Turns(w)
    <3>1. ~Stays(w)
      BY <1>2, <2>2 DEF Turns, Stays
    <3>2. ASSUME NEW v \in Workers,
                 \/ StartTick(v) \/ ReadBoard(v) \/ SkipPaid(v) \/ Send(v) \/ Record(v)
                 \/ PayoutFailed(v) \/ PayoutUnknown(v) \/ FinishTick(v)
          PROVE  FALSE
      <4>1. ticks[v] \in TickRecords
        BY TickFacts
      <4>2. ticks'[v].pc # "record" /\ \A u \in Workers : u # v => ticks'[u] = ticks[u]
        <5> USE <4>1
        <5>0. ticks \in [Workers -> TickRecords]
          BY DEF PayoutTyped
        <5>1. CASE StartTick(v)
          <6>1. ticks' = [ticks EXCEPT ![v] = [pc |-> "board", season |-> CurrentSeason, todo |-> <<>>]]
            BY <5>1 DEF StartTick, Moves
          <6> QED
            BY <5>0, <5>1, <6>1 DEF StartTick, At, TickRecords
        <5>2. CASE SkipPaid(v)
          <6>1. ticks' = [ticks EXCEPT ![v] = [ticks[v] EXCEPT !.todo = Tail(@)]]
            BY <5>2 DEF SkipPaid, Moves
          <6> QED
            BY <5>0, <5>2, <6>1 DEF SkipPaid, At, TickRecords
        <5>3. CASE Send(v)
          <6>1. ticks' = [ticks EXCEPT ![v] = [ticks[v] EXCEPT !.pc = "confirm"]]
            BY <5>3 DEF Send, Moves
          <6> QED
            BY <5>0, <5>3, <6>1 DEF Send, At, TickRecords
        <5>4. CASE Record(v)
          <6>1. ticks' = [ticks EXCEPT ![v] = [ticks[v] EXCEPT !.pc = "pay", !.todo = Tail(@)]]
            BY <5>4 DEF Record, Moves
          <6> QED
            BY <5>0, <5>4, <6>1 DEF Record, At, TickRecords
        <5>5. CASE ReadBoard(v)
          <6>1. PICK todo : ticks' = [ticks EXCEPT ![v] = [ticks[v] EXCEPT !.pc = "pay", !.todo = todo]]
            BY <5>5 DEF ReadBoard, Moves
          <6> QED
            BY <5>0, <6>1 DEF TickRecords
        <5>6. CASE PayoutFailed(v) \/ PayoutUnknown(v) \/ FinishTick(v)
          <6>1. ticks' = [ticks EXCEPT ![v] = Idle]
            BY <5>6 DEF PayoutFailed, PayoutUnknown, FinishTick, GiveUp, Moves
          <6> QED
            BY <5>0, <6>1 DEF Idle
        <5> QED
          BY <3>2, <5>1, <5>2, <5>3, <5>4, <5>5, <5>6
      <4> QED
        BY <1>2, <3>1, <4>2 DEF Stays
    <3>3. PICK tx \in inflight : Land(tx) \/ Expire(tx)
      BY <1>2, <3>1, <3>2 DEF PayoutNext, PassTime, Rollover, Crash, Idle, payoutVars, Stays
    <3>4. Heard(tx, "failed") \/ Heard(tx, "record")
      BY <3>3 DEF Land, Expire
    <3>5. tx.by = w /\ At(w, "confirm") /\ Land(tx)
      BY <1>2, <3>1, <3>3, TickFacts DEF Land, Expire, Heard, Stays, TickRecords
    <3>6. PICK l : l.season = tx.season /\ l.payout = tx.payout /\ l \in DOMAIN landed'
      BY <3>5, LandFacts
    <3>7. n = tx.season /\ t = tx.payout.trader
      <4>1. w # 0
        BY PayoutAssumption DEF Workers
      <4> QED
        BY <1>2, <2>2, <3>5, <4>1 DEF TransfersHold, Turns, Head1
    <3> QED
      BY <3>6, <3>7 DEF PaidTo
  <2> QED
    BY <1>2, <2>1, <2>2, TickCases DEF Rests, Reads, Advances
<1>3. ASSUME NEW w \in Workers, ticks'[w].pc = "record"
      PROVE  (PaidTo(ticks[w].season, Head1(w).trader))'
  <2>1. PICK n, t : n = ticks'[w].season /\ t = Head(ticks'[w].todo).trader
    OBVIOUS
  <2>2. PaidTo(n, t)'
    BY <1>2, <1>3, <2>1
  <2> QED
    BY <2>1, <2>2 DEF PaidTo, Head1
<1> QED
  BY <1>1, <1>3 DEF RecordsHold, At, PaidTo

LEMMA FinalsStep == Walking /\ FinalsHold /\ [PayoutNext]_payoutVars => FinalsHold'
<1> SUFFICES ASSUME Walking, FinalsHold, [PayoutNext]_payoutVars,
                    NEW n \in Seasons', status'[n] = "finalized"
             PROVE  \E equity \in Boards(n)' :
                       \A payout \in Prizes(n, equity) : payout.trader \in recorded'[n]
  BY DEF FinalsHold
<1> USE DEF Walking
<1>1. ASSUME n \in Seasons, status[n] = "finalized"
      PROVE  \E equity \in Boards(n)' :
                \A payout \in Prizes(n, equity) : payout.trader \in recorded'[n]
  <2>1. PICK equity \in Boards(n) : \A payout \in Prizes(n, equity) : payout.trader \in recorded[n]
    BY <1>1 DEF FinalsHold
  <2>2. equity \in Boards(n)' /\ recorded[n] \subseteq recorded'[n]
    BY <1>1, StepGrows DEF Grows
  <2> QED
    BY <2>1, <2>2
<1>2. ASSUME NEW w \in Workers, FinishTick(w), n = ticks[w].season
      PROVE  \E equity \in Boards(n)' :
                \A payout \in Prizes(n, equity) : payout.trader \in recorded'[n]
  <2>1. n \in Seasons /\ n \in 1 .. SeasonBound
    BY <1>2, SeasonFacts DEF FinishTick, At, BoardsHold
  <2>2. PICK equity \in Boards(n) : Remains(n, equity, ticks[w].todo)
    BY <1>2 DEF FinishTick, At, TicksWalk
  <2>3. equity \in MarksOf(n) /\ equity \in Boards(n)'
    BY <2>1, StepGrows DEF Boards, BoardsHold, Grows
  <2> PICK s : s = Payouts[n][equity]
    OBVIOUS
  <2>4. /\ s \in Seq(PayoutRecords) /\ \A p \in Prizes(n, equity) : \E i \in 1 .. Len(s) : s[i] = p
    BY <2>1, <2>3, PayoutsFacts
  <2> PICK rest : rest = ticks[w].todo
    OBVIOUS
  <2>5. PICK k \in 0 .. Len(s) : /\ rest = SubSeq(s, k + 1, Len(s))
                                 /\ \A i \in 1 .. k : s[i].trader \in recorded[n]
    BY <2>2 DEF Remains
  <2>6. k = Len(s)
    <3>1. rest = <<>>
      BY <1>2 DEF FinishTick
    <3> QED
      BY <2>4, <2>5, <3>1, RestEnds
  <2>7. \A p \in Prizes(n, equity) : p.trader \in recorded[n]
    BY <2>4, <2>5, <2>6
  <2>8. recorded' = recorded
    BY <1>2 DEF FinishTick
  <2> QED
    BY <2>3, <2>7, <2>8
<1>3. CASE UNCHANGED status
  BY <1>1, <1>3 DEF Seasons
<1>4. CASE Rollover
  <2>1. status' = Append(status, "pending") /\ status \in Seq({"pending", "finalized"})
    BY <1>4 DEF Rollover, PayoutTyped
  <2>2. n \in Seasons /\ status[n] = "finalized"
    BY <2>1, SeasonFacts DEF Seasons
  <2> QED
    BY <1>1, <2>2
<1>5. ASSUME NEW w \in Workers, FinishTick(w)
      PROVE  n \in Seasons /\ (status[n] = "finalized" \/ n = ticks[w].season)
  BY <1>5 DEF FinishTick, Seasons, PayoutTyped
<1> QED
  BY <1>1, <1>2, <1>3, <1>4, <1>5
     DEF PayoutNext, PassTime, StartTick, ReadBoard, SkipPaid, Send, Record, PayoutFailed,
         PayoutUnknown, Land, Expire, Crash, payoutVars

(***************************************************************************)
(* Counting payments                                                       *)
(***************************************************************************)

PaymentsTo(n, t) == {l \in DOMAIN landed : l.season = n /\ l.payout.trader = t}

LEMMA TimesFacts ==
    ASSUME PayoutTyped, NEW n, NEW t
    PROVE  /\ IsFiniteSet(PaymentsTo(n, t)) /\ \A l \in PaymentsTo(n, t) : landed[l] \in Nat \ {0}
           /\ TimesPaid(n, t) = Total(landed, PaymentsTo(n, t))
           /\ TimesPaid(n, t) \in Nat
           /\ TimesPaid(n, t) > 0 <=> PaidTo(n, t)
           /\ TimesPaid(n, t) = 0 <=> PaymentsTo(n, t) = {}
<1>1. IsFiniteSet(PaymentsTo(n, t))
  <2>1. PaymentsTo(n, t) \in SUBSET DOMAIN landed
    BY DEF PaymentsTo
  <2> QED
    BY <2>1, FS_Subset DEF PayoutTyped
<1>2. \A l \in PaymentsTo(n, t) : landed[l] \in Nat \ {0}
  BY DEF PaymentsTo, PayoutTyped
<1>3. TimesPaid(n, t) = Total(landed, PaymentsTo(n, t))
  <2>1. {l \in Of(n) : l.payout.trader = t} = PaymentsTo(n, t)
    BY DEF Of, BagToSet, PaymentsTo
  <2> QED
    BY <2>1, SumIs DEF TimesPaid
<1>4. /\ Total(landed, PaymentsTo(n, t)) \in Nat
      /\ \A l \in PaymentsTo(n, t) : landed[l] <= Total(landed, PaymentsTo(n, t))
  BY <1>1, <1>2, TotalNat
<1>5. PaymentsTo(n, t) = {} => Total(landed, PaymentsTo(n, t)) = 0
  BY TotalOfNone
<1>6. \A l \in PaymentsTo(n, t) : Total(landed, PaymentsTo(n, t)) > 0
  BY <1>2, <1>4
<1>7. PaidTo(n, t) <=> PaymentsTo(n, t) # {}
  BY DEF PaidTo, PaymentsTo
<1> QED
  BY <1>1, <1>2, <1>3, <1>4, <1>5, <1>6, <1>7

\* A transfer that lands is one payment more, to one trader.
LEMMA LandTimes ==
    ASSUME PayoutTyped, PayoutTyped', NEW n, NEW t, NEW tx \in inflight, Land(tx)
    PROVE  TimesPaid(n, t)' = TimesPaid(n, t) +
               IF tx.season = n /\ tx.payout.trader = t THEN 1 ELSE 0
<1> PICK l : /\ l.season = tx.season /\ l.payout = tx.payout
             /\ DOMAIN landed' = DOMAIN landed \cup {l}
             /\ \A m \in DOMAIN landed : m # l => landed'[m] = landed[m]
             /\ landed'[l] = IF l \in DOMAIN landed THEN landed[l] + 1 ELSE 1
  BY LandFacts
<1> PICK S, T : S = PaymentsTo(n, t) /\ T = PaymentsTo(n, t)'
  OBVIOUS
<1>1. /\ IsFiniteSet(S) /\ \A m \in S : landed[m] \in Nat \ {0}
      /\ TimesPaid(n, t) = Total(landed, S)
  BY TimesFacts
<1>2. TimesPaid(n, t)' = Total(landed', T)
  <2>1. {m \in Of(n)' : m.payout.trader = t} = T
    BY DEF Of, BagToSet, PaymentsTo
  <2> QED
    BY <2>1, SumIs DEF TimesPaid
<1>3. CASE ~(tx.season = n /\ tx.payout.trader = t)
  <2>1. T = S /\ l \notin S
    BY <1>3 DEF PaymentsTo
  <2>2. \A m \in S : landed[m] \in Int /\ landed[m] = landed'[m]
    BY <1>1, <2>1 DEF PaymentsTo
  <2>3. Total(landed, S) = Total(landed', S)
    BY <1>1, <2>2, TotalAgrees
  <2>4. TimesPaid(n, t) \in Nat
    BY TimesFacts
  <2> QED
    BY <1>1, <1>2, <1>3, <2>1, <2>3, <2>4
<1>4. CASE tx.season = n /\ tx.payout.trader = t
  <2> DEFINE R == S \ {l}
  <2>1. T = R \cup {l} /\ l \notin R /\ (l \in S <=> l \in DOMAIN landed)
    BY <1>4 DEF PaymentsTo
  <2>2. IsFiniteSet(R)
    BY <1>1, FS_Subset
  <2>3. \A m \in R : landed[m] \in Int /\ landed[m] = landed'[m]
    BY <1>1 DEF PaymentsTo
  <2>4. landed'[l] \in Int
    BY <1>1, <2>1
  <2> HIDE DEF R
  <2>5. Total(landed, R) = Total(landed', R)
    BY <2>2, <2>3, TotalAgrees
  <2>6. Total(landed', R) \in Int /\ Total(landed', T) = Total(landed', R) + landed'[l]
    <3>1. \A m \in R \cup {l} : landed'[m] \in Int
      BY <2>3, <2>4
    <3> QED
      BY <2>1, <2>2, <3>1, TotalOfMore
  <2>7. CASE l \in S
    <3>1. S = R \cup {l} /\ landed[l] \in Nat /\ landed'[l] = landed[l] + 1
      BY <1>1, <2>1, <2>7 DEF R
    <3>2. \A m \in R \cup {l} : landed[m] \in Int
      BY <2>3, <3>1
    <3>3. Total(landed, S) = Total(landed, R) + landed[l]
      BY <2>1, <2>2, <3>1, <3>2, TotalOfMore
    <3> QED
      BY <1>1, <1>2, <1>4, <2>5, <2>6, <3>1, <3>3
  <2>8. CASE l \notin S
    <3>1. S = R /\ landed'[l] = 1
      BY <2>1, <2>8 DEF R
    <3> QED
      BY <1>1, <1>2, <1>4, <2>5, <2>6, <3>1
  <2> QED
    BY <2>7, <2>8
<1> QED
  BY <1>3, <1>4

LEMMA WorkersFinite == IsFiniteSet(Workers) /\ Cardinality(Workers) = MaxTicks /\ MaxTicks \in Nat
<1>1. MaxTicks \in Nat \ {0}
  BY PayoutAssumption
<1>2. IsFiniteSet(1 .. MaxTicks) /\ Cardinality(1 .. MaxTicks) = MaxTicks
  BY ONLY <1>1, FS_Interval
<1> QED
  BY ONLY <1>1, <1>2 DEF Workers

LEMMA FlightFacts ==
    ASSUME PayoutTyped, NEW n, NEW t
    PROVE  /\ IsFiniteSet(Flying(n, t)) /\ Cardinality(Flying(n, t)) \in Nat
           /\ IsFiniteSet(Waiting(n, t)) /\ Cardinality(Waiting(n, t)) \in 0 .. MaxTicks
<1>1. IsFiniteSet(Flying(n, t))
  <2>1. Flying(n, t) \in SUBSET inflight
    BY DEF Flying
  <2> QED
    BY <2>1, FS_Subset DEF PayoutTyped
<1>2. IsFiniteSet(Workers) /\ Cardinality(Workers) = MaxTicks /\ MaxTicks \in Nat
  BY WorkersFinite
<1>3. Waiting(n, t) \in SUBSET Workers
  BY DEF Waiting
<1>4. IsFiniteSet(Waiting(n, t)) /\ Cardinality(Waiting(n, t)) <= MaxTicks
  BY <1>2, <1>3, FS_Subset
<1> QED
  BY <1>1, <1>2, <1>4, FS_CardinalityType

\* Some of it is no more of it than all.
LEMMA FewerOf ==
    ASSUME NEW S, IsFiniteSet(S), NEW T, T \subseteq S
    PROVE  IsFiniteSet(T) /\ Cardinality(T) \in Nat /\ Cardinality(T) <= Cardinality(S)
<1>1. T \in SUBSET S
  OBVIOUS
<1> QED
  BY <1>1, FS_Subset, FS_CardinalityType

LEMMA OneMoreOf ==
    ASSUME NEW S, IsFiniteSet(S), NEW T, NEW x, T \subseteq S \cup {x}
    PROVE  Cardinality(T) \in Nat /\ Cardinality(S) \in Nat /\ Cardinality(T) <= Cardinality(S) + 1
<1> DEFINE more == S \cup {x}
<1>0. Cardinality(S) \in Nat
  BY FS_CardinalityType
<1>1. IsFiniteSet(more) /\ Cardinality(S) \in Nat /\ Cardinality(more) <= Cardinality(S) + 1
  <2>1. IsFiniteSet(more)
    BY FS_AddElement
  <2>2. CASE x \in S
    <3>1. more = S
      BY <2>2
    <3> HIDE DEF more
    <3> QED
      BY <1>0, <2>1, <3>1
  <2>3. CASE x \notin S
    <3>1. Cardinality(more) = Cardinality(S) + 1
      BY <2>3, FS_AddElement
    <3> HIDE DEF more
    <3> QED
      BY <1>0, <2>1, <3>1
  <2> QED
    BY <2>2, <2>3
<1> HIDE DEF more
<1>2. Cardinality(T) \in Nat /\ Cardinality(T) <= Cardinality(more) /\ Cardinality(more) \in Nat
  <2>1. T \subseteq more
    BY DEF more
  <2> QED
    BY <1>1, <2>1, FewerOf, FS_CardinalityType
<1> QED
  BY <1>1, <1>2

\* Who stops waiting for a transfer: he records it, loses its outcome, or hears of its end.
LEMMA WaitingEnds ==
    ASSUME Walking, TransfersHold, [PayoutNext]_payoutVars, NEW n, NEW t,
           NEW w \in Waiting(n, t), w \notin Waiting(n, t)'
    PROVE  \/ Crash \/ Record(w) \/ PayoutUnknown(w)
           \/ \E tx \in Flying(n, t) : Expire(tx) /\ tx.by = w
<1> USE DEF Walking
<1>1. /\ w \in Workers /\ ticks[w].pc \in {"confirm", "record"}
      /\ ticks[w].season = n /\ Head(ticks[w].todo).trader = t
  BY DEF Waiting, At, Head1
<1>2. ~(/\ ticks'[w].pc \in {"confirm", "record"}
        /\ ticks'[w].season = n /\ Head(ticks'[w].todo).trader = t)
  BY <1>1 DEF Waiting, At, Head1
<1>3. ticks'[w] # ticks[w]
  BY <1>1, <1>2
<1>4. ticks \in [Workers -> TickRecords] /\ ticks[w] \in TickRecords
  BY <1>1 DEF PayoutTyped
<1>5. ASSUME NEW v \in Workers,
             \/ StartTick(v) \/ ReadBoard(v) \/ SkipPaid(v) \/ Send(v)
             \/ PayoutFailed(v) \/ FinishTick(v)
      PROVE  FALSE
  <2>1. v # w
    BY <1>1, <1>5 DEF StartTick, ReadBoard, SkipPaid, Send, PayoutFailed, FinishTick, At
  <2>2. \E tick : ticks' = [ticks EXCEPT ![v] = tick]
    BY <1>5 DEF StartTick, ReadBoard, SkipPaid, Send, PayoutFailed, FinishTick, Moves
  <2> QED
    BY <1>1, <1>3, <1>4, <2>1, <2>2
<1>6. ASSUME NEW v \in Workers, Record(v) \/ PayoutUnknown(v)
      PROVE  v = w
  <2>1. \E tick : ticks' = [ticks EXCEPT ![v] = tick]
    BY <1>6 DEF Record, PayoutUnknown, Moves
  <2> QED
    BY <1>1, <1>3, <1>4, <2>1
<1>7. ASSUME NEW tx \in inflight, Land(tx)
      PROVE  FALSE
  <2>1. ticks'[w] = [ticks[w] EXCEPT !.pc = "record"]
    BY <1>1, <1>3, <1>7 DEF Land, Heard
  <2> QED
    BY <1>1, <1>2, <1>4, <2>1 DEF TickRecords
<1>8. ASSUME NEW tx \in inflight, Expire(tx)
      PROVE  tx \in Flying(n, t) /\ tx.by = w
  <2>1. tx.by = w
    BY <1>1, <1>3, <1>8 DEF Expire, Heard
  <2>2. w # 0
    BY <1>1, PayoutAssumption DEF Workers
  <2> QED
    BY <1>1, <2>1, <2>2 DEF TransfersHold, Flying, Head1
<1>9. ~(PassTime \/ Rollover \/ UNCHANGED payoutVars)
  BY <1>3 DEF PassTime, Rollover, payoutVars
<1> QED
  BY <1>5, <1>6, <1>7, <1>8, <1>9 DEF PayoutNext

\* Transfers that are left alone, or lose their worker, become no more.
LEMMA FlyingShrinks ==
    ASSUME PayoutTyped, NEW n, NEW t,
           \/ inflight' \subseteq inflight
           \/ Crash
           \/ \E w \in Workers : PayoutUnknown(w)
    PROVE  Cardinality(Flying(n, t)') \in Nat /\ Cardinality(Flying(n, t)') <= Cardinality(Flying(n, t))
<1>1. CASE inflight' \subseteq inflight
  <2>1. Flying(n, t)' \subseteq Flying(n, t)
    BY <1>1 DEF Flying
  <2> QED
    BY <2>1, FlightFacts, FewerOf
<1>2. ASSUME NEW f \in [inflight -> Transfers], inflight' = {f[tx] : tx \in inflight},
             \A tx \in inflight : f[tx].season = tx.season /\ f[tx].payout = tx.payout
      PROVE  Cardinality(Flying(n, t)') \in Nat /\ Cardinality(Flying(n, t)') <= Cardinality(Flying(n, t))
  <2> PICK S, T : S = Flying(n, t) /\ T = Flying(n, t)'
    OBVIOUS
  <2>1. \A tx \in S : f[tx] \in T
    BY <1>2 DEF Flying
  <2>2. \A ty \in T : \E tx \in S : f[tx] = ty
    BY <1>2 DEF Flying
  <2>3. IsFiniteSet(S)
    BY FlightFacts
  <2>4. IsFiniteSet(T) /\ Cardinality(T) <= Cardinality(S)
    BY ONLY <2>1, <2>2, <2>3, ImageNoLarger
  <2> QED
    BY <2>4, FS_CardinalityType
<1>3. \A tx \in inflight : tx \in Transfers
  BY DEF PayoutTyped
<1>4. CASE Crash
  <2> DEFINE f == [tx \in inflight |-> [tx EXCEPT !.by = 0]]
  <2>1. inflight' = {f[tx] : tx \in inflight}
    BY <1>4 DEF Crash
  <2>2. \A tx \in inflight :
           f[tx] \in Transfers /\ f[tx].season = tx.season /\ f[tx].payout = tx.payout
    BY <1>3 DEF Transfers
  <2>3. f \in [inflight -> Transfers]
    BY <2>2
  <2> HIDE DEF f
  <2> QED
    BY <1>2, <2>1, <2>2, <2>3
<1>5. ASSUME NEW w \in Workers, PayoutUnknown(w)
      PROVE  Cardinality(Flying(n, t)') \in Nat /\ Cardinality(Flying(n, t)') <= Cardinality(Flying(n, t))
  <2> DEFINE f == [tx \in inflight |-> [tx EXCEPT !.by = IF @ = w THEN 0 ELSE @]]
  <2>1. inflight' = {f[tx] : tx \in inflight}
    BY <1>5 DEF PayoutUnknown, Orphaned
  <2>2. ASSUME NEW tx \in inflight
        PROVE  f[tx] \in Transfers /\ f[tx].season = tx.season /\ f[tx].payout = tx.payout
    <3>1. tx \in Transfers /\ tx.by \in Nat
      BY <1>3 DEF Transfers
    <3>2. f[tx] = [tx EXCEPT !.by = IF tx.by = w THEN 0 ELSE tx.by]
      OBVIOUS
    <3>3. (IF tx.by = w THEN 0 ELSE tx.by) \in Nat
      BY <3>1
    <3> HIDE DEF f
    <3> QED
      BY <3>1, <3>2, <3>3 DEF Transfers
  <2>3. f \in [inflight -> Transfers]
    BY <2>2
  <2> HIDE DEF f
  <2> QED
    BY <1>2, <2>1, <2>2, <2>3
<1> QED
  BY <1>1, <1>4, <1>5

Paying(n, t) == TimesPaid(n, t) + Cardinality(Flying(n, t))

\* Only a transfer that is sent brings a trader nearer to being paid, and one that expires
\* takes him away from it.
LEMMA PayingStep ==
    ASSUME Walking, [PayoutNext]_payoutVars, NEW n, NEW t
    PROVE  /\ Paying(n, t) \in Nat /\ Paying(n, t)' \in Nat
           /\ \/ Paying(n, t)' <= Paying(n, t)
              \/ /\ Paying(n, t)' <= Paying(n, t) + 1
                 /\ \E w \in Workers : Send(w) /\ ticks[w].season = n /\ Head1(w).trader = t
           /\ \A tx \in Flying(n, t) : Expire(tx) => Paying(n, t)' + 1 <= Paying(n, t)
<1> USE DEF Walking
<1> PICK S, T, p, q :
        /\ S = Flying(n, t) /\ T = Flying(n, t)'
        /\ p = TimesPaid(n, t) /\ q = TimesPaid(n, t)'
  OBVIOUS
<1>1. PayoutTyped'
  BY PayoutTypedStep
<1>2. p \in Nat /\ IsFiniteSet(S) /\ Cardinality(S) \in Nat
  BY TimesFacts, FlightFacts
<1>3. UNCHANGED landed => q = p
  BY DEF TimesPaid, Of
<1>4. /\ Paying(n, t) = p + Cardinality(S)
      /\ Paying(n, t)' = q + Cardinality(T)
  BY DEF Paying
<1>5. CASE /\ UNCHANGED landed
           /\ \/ inflight' \subseteq inflight
              \/ Crash
              \/ \E w \in Workers : PayoutUnknown(w)
  <2>1. Cardinality(T) \in Nat /\ Cardinality(T) <= Cardinality(S)
    BY <1>5, FlyingShrinks
  <2>2. ASSUME NEW tx \in S, Expire(tx)
        PROVE  Cardinality(T) + 1 <= Cardinality(S)
    <3>1. T \subseteq S \ {tx}
      BY <2>2 DEF Expire, Flying
    <3>2. IsFiniteSet(S \ {tx}) /\ Cardinality(S \ {tx}) = Cardinality(S) - 1
      BY <1>2, FS_RemoveElement
    <3>3. Cardinality(T) <= Cardinality(S \ {tx})
      BY <3>1, <3>2, FewerOf
    <3> QED
      BY <1>2, <2>1, <3>2, <3>3
  <2> QED
    BY <1>2, <1>3, <1>4, <1>5, <2>1, <2>2
<1>6. ASSUME NEW w \in Workers, Send(w)
      PROVE  /\ Paying(n, t) \in Nat /\ Paying(n, t)' \in Nat
             /\ \/ Paying(n, t)' <= Paying(n, t)
                \/ /\ Paying(n, t)' <= Paying(n, t) + 1
                   /\ ticks[w].season = n /\ Head1(w).trader = t
             /\ ~ \E tx \in S : Expire(tx)
  <2>1. /\ UNCHANGED <<landed, faults>> /\ inflight' = inflight \cup {Transfer(w)}
        /\ Transfer(w).season = ticks[w].season /\ Transfer(w).payout = Head1(w)
    BY <1>6 DEF Send, Transfer, bounds
  <2>2. T \subseteq S \cup {Transfer(w)}
    BY <2>1 DEF Flying
  <2>3. Cardinality(T) \in Nat /\ Cardinality(T) <= Cardinality(S) + 1
    BY <1>2, <2>2, OneMoreOf
  <2>0. q = p
    BY <1>3, <2>1
  <2>5. ~ \E tx \in S : Expire(tx)
    <3>1. faults \in Nat /\ faults' = faults
      BY <2>1 DEF PayoutTyped
    <3> QED
      BY ONLY <3>1 DEF Expire, Fault
  <2>4. CASE ~(ticks[w].season = n /\ Head1(w).trader = t)
    <3>1. T \subseteq S
      BY <2>1, <2>4 DEF Flying
    <3>2. Cardinality(T) <= Cardinality(S)
      BY <1>2, <3>1, FewerOf
    <3> QED
      BY ONLY <1>2, <1>4, <2>0, <2>3, <2>5, <3>2
  <2> QED
    BY ONLY <1>2, <1>4, <2>0, <2>3, <2>4, <2>5
<1>7. ASSUME NEW tx \in inflight, Land(tx)
      PROVE  /\ Paying(n, t) \in Nat /\ Paying(n, t)' \in Nat /\ Paying(n, t)' <= Paying(n, t)
             /\ ~ \E ty \in S : Expire(ty)
  <2>1. inflight' = inflight \ {tx} /\ UNCHANGED faults
    BY <1>7 DEF Land, bounds
  <2>2. ~ \E ty \in S : Expire(ty)
    BY <2>1 DEF Expire, Fault, PayoutTyped
  <2>3. q = p + IF tx.season = n /\ tx.payout.trader = t THEN 1 ELSE 0
    BY <1>1, <1>7, LandTimes
  <2>4. T \subseteq S
    BY <2>1 DEF Flying
  <2>5. Cardinality(T) \in Nat /\ Cardinality(T) <= Cardinality(S)
    BY <1>2, <2>4, FewerOf
  <2>6. CASE tx.season = n /\ tx.payout.trader = t
    <3>1. tx \in S /\ T \subseteq S \ {tx}
      BY <2>1, <2>6 DEF Flying
    <3>2. IsFiniteSet(S \ {tx}) /\ Cardinality(S \ {tx}) = Cardinality(S) - 1
      BY <1>2, <3>1, FS_RemoveElement
    <3>3. Cardinality(T) <= Cardinality(S \ {tx})
      BY <3>1, <3>2, FewerOf
    <3> QED
      BY <1>2, <1>4, <2>2, <2>3, <2>5, <2>6, <3>2, <3>3
  <2> QED
    BY <1>2, <1>4, <2>2, <2>3, <2>5, <2>6
<1>8. \/ UNCHANGED landed /\ inflight' \subseteq inflight
      \/ UNCHANGED landed /\ Crash
      \/ UNCHANGED landed /\ \E w \in Workers : PayoutUnknown(w)
      \/ \E w \in Workers : Send(w)
      \/ \E tx \in inflight : Land(tx)
  BY DEF PayoutNext, PassTime, Rollover, StartTick, ReadBoard, SkipPaid, Record, PayoutFailed,
         PayoutUnknown, FinishTick, Expire, Crash, payoutVars
<1> QED
  BY <1>5, <1>6, <1>7, <1>8

LEMMA PaymentsStep ==
    Walking /\ TransfersHold /\ LandingsHold /\ PaymentsCounted /\ [PayoutNext]_payoutVars
        => PaymentsCounted'
<1> SUFFICES ASSUME Walking, TransfersHold, LandingsHold, PaymentsCounted, [PayoutNext]_payoutVars,
                    NEW n \in Seasons', NEW t \in Nat
             PROVE  Paying(n, t)' <=
                        lost' + IF t \in recorded'[n] THEN MaxTicks ELSE Cardinality(Waiting(n, t)')
  BY DEF PaymentsCounted, Paying
<1> USE DEF Walking
<1> PICK W, V, p, q : /\ W = Waiting(n, t) /\ V = Waiting(n, t)'
                      /\ p = Paying(n, t) /\ q = Paying(n, t)'
  OBVIOUS
<1>1. PayoutTyped'
  BY PayoutTypedStep
<1>2. /\ p \in Nat /\ q \in Nat /\ MaxTicks \in Nat
      /\ IsFiniteSet(W) /\ Cardinality(W) \in 0 .. MaxTicks
      /\ lost \in Nat
  BY PayingStep, FlightFacts, PayoutAssumption DEF PayoutTyped
<1>3. IsFiniteSet(V) /\ Cardinality(V) \in 0 .. MaxTicks
  <2>1. V \subseteq Workers
    BY DEF Waiting, Workers
  <2> QED
    BY <1>2, <2>1, WorkersFinite, FewerOf
<1>4. lost' \in Nat /\ lost <= lost'
  <2>1. UNCHANGED lost \/ Crash \/ lost' = lost + 1
    BY DEF PayoutNext, PassTime, Rollover, StartTick, ReadBoard, SkipPaid, Send, Record, PayoutFailed,
           PayoutUnknown, FinishTick, Land, Expire, payoutVars, bounds
  <2>2. CASE Crash
    <3> DEFINE gone == {w \in Workers : At(w, "confirm") \/ At(w, "record")}
    <3>1. IsFiniteSet(Workers) /\ gone \subseteq Workers
      BY WorkersFinite
    <3>2. Cardinality(gone) \in Nat /\ lost' = lost + Cardinality(gone)
      BY <2>2, <3>1, FewerOf DEF Crash
    <3> HIDE DEF gone
    <3> QED
      BY <1>2, <3>2
  <2> QED
    BY <1>2, <2>1, <2>2
<1>5. CASE n \notin Seasons
  <2>1. p = 0
    <3>1. PaymentsTo(n, t) = {} /\ Flying(n, t) = {}
      BY <1>5 DEF LandingsHold, TransfersHold, PaymentsTo, Flying
    <3>2. TimesPaid(n, t) = 0 /\ Cardinality(Flying(n, t)) = 0
      BY <3>1, TimesFacts, FS_EmptySet
    <3> QED
      BY <3>2 DEF Paying
  <2>2. ~ \E w \in Workers : Send(w)
    <3>1. ASSUME NEW w \in Workers, Send(w) PROVE FALSE
      BY <1>5, <3>1 DEF Send, Seasons
    <3> QED
      BY <3>1
  <2>3. q <= p
    BY <2>2, PayingStep
  <2> QED
    BY <1>2, <1>3, <1>4, <2>1, <2>3
<1>6. CASE n \in Seasons
  <2>1. p <= lost + IF t \in recorded[n] THEN MaxTicks ELSE Cardinality(W)
    BY <1>6 DEF PaymentsCounted, Paying
  <2>2. p <= lost + MaxTicks
    BY <1>2, <2>1
  <2>3. recorded[n] \subseteq recorded'[n]
    BY <1>6, StepGrows DEF Grows
  <2>4. CASE q <= p /\ t \in recorded'[n]
    BY <1>2, <1>4, <2>2, <2>4
  \* The places a tick sends a transfer for are not on record.
  <2>5. ASSUME NEW w \in Workers, Send(w), ticks[w].season = n, Head1(w).trader = t, q <= p + 1
        PROVE  q <= lost' + IF t \in recorded'[n] THEN MaxTicks ELSE Cardinality(V)
    <3>1. t \notin recorded[n] /\ UNCHANGED <<recorded, lost>>
      BY <2>5 DEF Send, AlreadyPaid, bounds
    <3>2. w \notin W
      BY <2>5 DEF Waiting, Send, At
    <3>3. V = W \cup {w}
      <4>1. /\ ticks'[w].pc = "confirm" /\ ticks'[w].season = n /\ Head(ticks'[w].todo).trader = t
            /\ \A v \in Workers : v # w => ticks'[v] = ticks[v]
        <5>1. ticks' = [ticks EXCEPT ![w] = [ticks[w] EXCEPT !.pc = "confirm"]]
          BY <2>5 DEF Send, Moves
        <5>2. ticks \in [Workers -> TickRecords] /\ ticks[w] \in TickRecords
          BY DEF PayoutTyped
        <5> QED
          BY <2>5, <5>1, <5>2 DEF TickRecords, Head1
      <4> QED
        BY <4>1 DEF Waiting, At, Head1
    <3>4. Cardinality(V) = Cardinality(W) + 1
      BY <1>2, <3>2, <3>3, FS_AddElement
    <3> QED
      BY <1>2, <1>3, <2>1, <2>5, <3>1, <3>4
  <2>6. ASSUME q <= p, t \notin recorded'[n]
        PROVE  q <= lost' + Cardinality(V)
    <3>1. p <= lost + Cardinality(W)
      BY <2>1, <2>3, <2>6
    <3>2. CASE W \subseteq V
      <4>1. Cardinality(W) <= Cardinality(V)
        BY <1>3, <3>2, FewerOf
      <4> QED
        BY <1>2, <1>3, <1>4, <2>6, <3>1, <4>1
    <3>3. ASSUME NEW w \in W, w \notin V
          PROVE  \/ Crash \/ PayoutUnknown(w)
                 \/ \E tx \in Flying(n, t) : Expire(tx) /\ tx.by = w
      <4>1. w \in Workers
        BY DEF Waiting
      <4>2. ~Record(w)
        <5>1. ticks[w].season = n /\ Head1(w).trader = t
          BY DEF Waiting
        <5>2. recorded \in Seq(SUBSET Contestants) /\ n \in DOMAIN recorded
          BY <1>6, SeasonFacts DEF PayoutTyped
        <5> QED
          BY <2>6, <5>1, <5>2 DEF Record, RecordOne
      <4> QED
        BY <3>3, <4>2, WaitingEnds
    <3>4. CASE Crash
      <4> DEFINE gone == {w \in Workers : At(w, "confirm") \/ At(w, "record")}
      <4>1. IsFiniteSet(Workers) /\ gone \subseteq Workers
        BY WorkersFinite
      <4>2. W \subseteq gone
        BY DEF Waiting
      <4>3. IsFiniteSet(gone) /\ lost' = lost + Cardinality(gone)
        BY <3>4, <4>1, FewerOf DEF Crash
      <4> HIDE DEF gone
      <4>4. Cardinality(gone) \in Nat /\ Cardinality(W) <= Cardinality(gone)
        BY <4>2, <4>3, FewerOf, FS_CardinalityType
      <4> QED
        BY <1>2, <1>3, <2>6, <3>1, <4>3, <4>4
    <3>5. ASSUME NEW w \in W, ~Crash, PayoutUnknown(w)
          PROVE  q <= lost' + Cardinality(V)
      <4>1. w \in Workers
        BY DEF Waiting
      <4>2. lost' = lost + 1 /\ \A v \in Workers : v # w => ticks'[v] = ticks[v]
        BY <3>5, <4>1 DEF PayoutUnknown, Moves, PayoutTyped
      <4>3. W \subseteq V \cup {w}
        BY <4>2 DEF Waiting, At, Head1
      <4>4. Cardinality(W) <= Cardinality(V) + 1
        BY <1>3, <4>3, OneMoreOf
      <4> QED
        BY <1>2, <1>3, <2>6, <3>1, <4>2, <4>4
    <3>6. ASSUME NEW w \in W, NEW tx \in Flying(n, t), Expire(tx), tx.by = w
          PROVE  q <= lost' + Cardinality(V)
      <4>1. q + 1 <= p
        BY <3>6, PayingStep
      <4>2. \A v \in Workers : v # w => ticks'[v] = ticks[v]
        BY <3>6 DEF Expire, Heard
      <4>3. W \subseteq V \cup {w}
        BY <4>2 DEF Waiting, At, Head1
      <4>4. Cardinality(W) <= Cardinality(V) + 1
        BY <1>3, <4>3, OneMoreOf
      <4> QED
        BY <1>2, <1>3, <1>4, <3>1, <4>1, <4>4
    <3> QED
      BY <3>2, <3>3, <3>4, <3>5, <3>6
  <2>7. q <= p \/ \E w \in Workers : /\ Send(w) /\ ticks[w].season = n /\ Head1(w).trader = t
                                     /\ q <= p + 1
    BY PayingStep
  <2> QED
    BY <2>4, <2>5, <2>6, <2>7
<1> QED
  BY <1>5, <1>6

(***************************************************************************)
(* The invariant                                                           *)
(***************************************************************************)
PayoutInvariant ==
    /\ Walking /\ TransfersHold /\ LandingsHold /\ RecordsHold /\ FinalsHold
    /\ PaymentsCounted

LEMMA PayoutInvariantInit == PayoutInit => PayoutInvariant
<1> SUFFICES ASSUME PayoutInit PROVE PayoutInvariant
  OBVIOUS
<1>1. PayoutTyped /\ BoardsHold
  BY PayoutInitTyped
<1>2. Seasons = {1} /\ recorded[1] = {} /\ status[1] = "pending"
  BY DEF PayoutInit, Seasons
<1>3. /\ \A w \in Workers : ticks[w].pc = "idle"
      /\ inflight = {} /\ DOMAIN landed = {} /\ lost = 0
  BY DEF PayoutInit, Idle, EmptyBag, SetToBag
<1>4. TicksWalk /\ TransfersHold /\ LandingsHold /\ RecordsHold /\ FinalsHold
  BY <1>2, <1>3 DEF TicksWalk, TransfersHold, LandingsHold, RecordsHold, FinalsHold, At
<1>5. ASSUME NEW n \in Seasons, NEW t \in Nat
      PROVE  TimesPaid(n, t) + Cardinality(Flying(n, t)) <=
                 lost + IF t \in recorded[n] THEN MaxTicks ELSE Cardinality(Waiting(n, t))
  <2>1. PaymentsTo(n, t) = {} /\ Flying(n, t) = {}
    BY <1>3 DEF PaymentsTo, Flying
  <2>2. TimesPaid(n, t) = 0 /\ Cardinality(Flying(n, t)) = 0
    BY <1>1, <2>1, TimesFacts, FS_EmptySet
  <2>3. t \notin recorded[n] /\ Cardinality(Waiting(n, t)) \in 0 .. MaxTicks /\ MaxTicks \in Nat
    BY <1>1, <1>2, FlightFacts, WorkersFinite
  <2> QED
    BY <1>3, <2>2, <2>3
<1>6. PaymentsCounted
  BY <1>5 DEF PaymentsCounted
<1> QED
  BY <1>1, <1>4, <1>6 DEF PayoutInvariant, Walking

LEMMA PayoutInvariantStep == PayoutInvariant /\ [PayoutNext]_payoutVars => PayoutInvariant'
<1> SUFFICES ASSUME PayoutInvariant, [PayoutNext]_payoutVars PROVE PayoutInvariant'
  OBVIOUS
<1>1. Walking /\ TransfersHold /\ LandingsHold /\ RecordsHold /\ FinalsHold /\ PaymentsCounted
  BY DEF PayoutInvariant
<1>2. Walking'
  BY <1>1, PayoutTypedStep, BoardsStep, TicksWalkStep DEF Walking
<1>3. TransfersHold' /\ LandingsHold' /\ RecordsHold' /\ FinalsHold' /\ PaymentsCounted'
  BY <1>1, TransfersStep, LandingsStep, RecordsStep, FinalsStep, PaymentsStep
<1> QED
  BY <1>2, <1>3 DEF PayoutInvariant

\* No order of overlapping ticks, failures, restarts and seasons leads a worker off one
\* board's places, records a trader who was not paid, or finalizes a season before
\* everybody on a board is on record (season-payout.ts).
THEOREM PayoutHolds == PayoutSpec => []PayoutInvariant
<1>1. PayoutInit => PayoutInvariant
  BY PayoutInvariantInit
<1>2. PayoutInvariant /\ [PayoutNext]_payoutVars => PayoutInvariant'
  BY PayoutInvariantStep
<1> QED
  BY <1>1, <1>2, PTL DEF PayoutSpec

LEMMA PayoutShapes == PayoutInvariant => PayoutTypeOK
<1> SUFFICES ASSUME PayoutInvariant PROVE PayoutTypeOK
  OBVIOUS
<1>1. PayoutTyped /\ BoardsHold /\ TicksWalk /\ TransfersHold
  BY DEF PayoutInvariant, Walking
<1>2. /\ clock \in Clock /\ Len(status) \in 1 .. SeasonBound /\ faults \in 0 .. FaultBound
      /\ {Len(status)} = {Len(recorded), Len(marks), Len(remarked)}
  BY <1>1 DEF PayoutTyped
<1>3. \A n \in Seasons : status[n] \in {"pending", "finalized"} /\ recorded[n] \subseteq Contestants
  BY <1>1, SeasonFacts
<1>4. ASSUME NEW w \in Workers
      PROVE  /\ ticks[w].pc \in {"idle", "board", "pay", "confirm", "record", "failed"}
             /\ ticks[w].season \in Seasons \cup {0}
             /\ \A i, j \in DOMAIN ticks[w].todo :
                   /\ ticks[w].todo[i].trader \in Entrants[ticks[w].season]
                   /\ ticks[w].todo[i].lamports > 0
                   /\ i < j => ticks[w].todo[i].place < ticks[w].todo[j].place
             /\ ticks[w].pc \in {"confirm", "record", "failed"} => ticks[w].todo # <<>>
  <2> PICK n, todo : n = ticks[w].season /\ todo = ticks[w].todo
    OBVIOUS
  <2>1. /\ ticks[w].pc \in Pcs /\ n \in Seasons \cup {0}
        /\ ticks[w].pc \in {"idle", "board"} => todo = <<>>
        /\ ticks[w].pc # "idle" => n \in Seasons
        /\ ticks[w].pc \in {"confirm", "record", "failed"} => todo # <<>>
    BY <1>1, TickFacts DEF BoardsHold
  <2>2. CASE ticks[w].pc \in {"idle", "board"}
    BY <2>1, <2>2 DEF Pcs
  <2>3. CASE ticks[w].pc \notin {"idle", "board"}
    <3>1. n \in Seasons /\ n \in 1 .. SeasonBound
      BY <1>1, <2>1, <2>3, SeasonFacts
    <3>2. PICK equity \in Boards(n) : Remains(n, equity, todo)
      BY <1>1, <2>3 DEF TicksWalk
    <3>3. equity \in MarksOf(n)
      BY <1>1, <3>1 DEF Boards, BoardsHold
    <3> PICK s : s = Payouts[n][equity]
      OBVIOUS
    <3>4. /\ s \in Seq(Prizes(n, equity))
          /\ \A i, j \in 1 .. Len(s) : i < j => s[i].place < s[j].place
      BY ONLY <3>1, <3>3, s = Payouts[n][equity], PayoutsFacts
    <3>5. PICK k \in 0 .. Len(s) : todo = SubSeq(s, k + 1, Len(s))
      BY <3>2 DEF Remains
    <3>6. /\ Len(todo) = Len(s) - k /\ DOMAIN todo = 1 .. Len(todo)
          /\ \A i \in 1 .. Len(todo) : todo[i] = s[k + i]
      BY ONLY <3>4, <3>5, k \in 0 .. Len(s), RestFacts
    <3>7. ASSUME NEW i \in DOMAIN todo, NEW j \in DOMAIN todo
          PROVE  /\ todo[i].trader \in Entrants[n] /\ todo[i].lamports > 0
                 /\ i < j => todo[i].place < todo[j].place
      <4>1. /\ todo[i] = s[k + i] /\ todo[j] = s[k + j] /\ i \in Nat /\ j \in Nat
            /\ k + i \in 1 .. Len(s) /\ k + j \in 1 .. Len(s) /\ k \in Nat
        BY ONLY <3>4, <3>6, k \in 0 .. Len(s), i \in DOMAIN todo, j \in DOMAIN todo
      <4>2. todo[i] \in Prizes(n, equity)
        BY ONLY <3>4, <4>1
      <4>3. todo[i].trader \in Entrants[n] /\ todo[i].lamports > 0
        BY ONLY <3>1, <3>3, <4>2, PrizesFacts
      <4>4. i < j => k + i < k + j
        BY ONLY <4>1
      <4> QED
        BY ONLY <3>4, <4>1, <4>3, <4>4
    <3> QED
      BY <2>1, <3>7 DEF Pcs
  <2> QED
    BY <2>2, <2>3
<1>5. \A tx \in inflight : tx.season \in Seasons /\ tx.by \in Workers \cup {0}
  BY <1>1 DEF TransfersHold
<1> QED
  BY <1>2, <1>3, <1>4, <1>5 DEF PayoutTypeOK

\* What a season was paid, once it is finalized and if its marks never moved, is its board.
LEMMA FinalIsBoard ==
    ASSUME PayoutInvariant, NEW n \in Seasons, status[n] = "finalized", remarked[n] = 0
    PROVE  PaidInFull(n)
<1>1. PayoutTyped /\ BoardsHold /\ LandingsHold /\ RecordsHold /\ FinalsHold
  BY DEF PayoutInvariant, Walking
<1> PICK equity, prizes, paid :
        equity = marks[n] /\ prizes = Prizes(n, equity) /\ paid = {l.payout : l \in Of(n)}
  OBVIOUS
<1>2. n \in 1 .. SeasonBound /\ equity \in MarksOf(n)
  BY <1>1, SeasonFacts DEF BoardsHold
<1>3. Boards(n) = {equity} /\ MayPay(n) = prizes
  BY DEF Boards, MayPay
<1>4. Of(n) = {l \in DOMAIN landed : l.season = n}
  BY DEF Of, BagToSet
<1>5. paid \subseteq prizes
  BY <1>1, <1>3, <1>4 DEF LandingsHold
<1>6. ASSUME NEW p \in prizes PROVE p \in paid
  <2>1. p.trader \in recorded[n]
    BY <1>1, <1>3 DEF FinalsHold
  <2>2. PICK l \in DOMAIN landed : l.season = n /\ l.payout.trader = p.trader
    BY <1>1, <2>1 DEF RecordsHold, PaidTo
  <2>3. l.payout \in paid
    BY <1>4, <2>2
  <2>4. l.payout = p
    BY <1>2, <1>5, <2>2, <2>3, PrizesFacts
  <2> QED
    BY <2>3, <2>4
<1>7. paid = prizes
  BY <1>5, <1>6
<1>8. PaysBoard(n, equity, paid)
  <2>1. PaysBoard(n, equity, Prizes(n, equity))
    BY ONLY <1>2, PrizesFacts
  <2> QED
    BY <1>7, <2>1
<1> QED
  BY <1>8 DEF PaysBoard, PaidInFull

\* A finalized season has paid the pot without the house's tenth of the fees, to the
\* lamport, and in the order of the board, if its marks did not move between two ticks;
\* and who is on record was paid.
THEOREM SplitIsPaid == PayoutSpec => []PaysTheSplit
<1>1. PayoutInvariant => PaysTheSplit
  <2> SUFFICES ASSUME PayoutInvariant PROVE PaysTheSplit
    OBVIOUS
  <2>1. PayoutTypeOK
    BY PayoutShapes
  <2>2. RecordedIsPaid
    <3>1. PayoutTyped /\ RecordsHold
      BY DEF PayoutInvariant, Walking
    <3> QED
      BY <3>1, TimesFacts DEF RecordedIsPaid, RecordsHold
  <2>3. \A n \in Seasons : status[n] = "finalized" /\ remarked[n] = 0 => PaidInFull(n)
    BY FinalIsBoard
  <2> QED
    BY <2>1, <2>2, <2>3 DEF PaysTheSplit
<1> QED
  BY <1>1, PayoutHolds, PTL

\* Who is paid more than once was paid by ticks that overlapped or after an outcome was
\* lost: no refused, expired or recorded transfer is followed by a second one.
THEOREM DuplicatesNeedLosses == PayoutSpec => []DuplicateNeedsLoss
<1>1. PayoutInvariant => DuplicateNeedsLoss
  <2> SUFFICES ASSUME PayoutInvariant, NEW n \in Seasons, NEW t \in Contestants
               PROVE  TimesPaid(n, t) <= MaxTicks + lost
    BY DEF DuplicateNeedsLoss
  <2>1. PayoutTyped /\ PaymentsCounted
    BY DEF PayoutInvariant, Walking
  <2>2. t \in Nat
    BY EntrantsAssumption DEF Contestants, SeasonBound
  <2>3. /\ TimesPaid(n, t) \in Nat /\ Cardinality(Flying(n, t)) \in Nat
        /\ Cardinality(Waiting(n, t)) \in 0 .. MaxTicks /\ MaxTicks \in Nat /\ lost \in Nat
    BY <2>1, TimesFacts, FlightFacts, WorkersFinite DEF PayoutTyped
  <2>4. TimesPaid(n, t) + Cardinality(Flying(n, t)) <=
            lost + IF t \in recorded[n] THEN MaxTicks ELSE Cardinality(Waiting(n, t))
    BY <2>1, <2>2 DEF PaymentsCounted
  <2> QED
    BY ONLY <2>3, <2>4
<1> QED
  BY <1>1, PayoutHolds, PTL
=============================================================================
