---------------------------- MODULE KeeperProofs -----------------------------
(***************************************************************************)
(* What Keeper promises for any number of traders, trades, faults and      *)
(* foreign writes, as long as no transaction outlives the pass that sent   *)
(* it: proofs checked by TLAPS.                                            *)
(***************************************************************************)
EXTENDS Keeper, BasicLemmas, SequenceTheorems, TLAPS

(***************************************************************************)
(* The inductive invariant                                                 *)
(***************************************************************************)

Trade == [record : Records, version : Versions, sound : BOOLEAN]
Batch == [ids : Seq(Nat), version : Versions]
Link == Batch \cup {ForeignBatch}
CommitRow ==
    [id : Nat, record : Records, batch : Batch, previous : Seq(Batch), predicted : Seq(Batch),
     confirmed : BOOLEAN]
Steps == {"idle", "reconcile", "settle", "commit", "send", "confirm", "verify"}

TxShaped(tx) == tx \in [record : Records, batch : Batch, awaited : BOOLEAN, copy : {tx.copy}]

WellTyped ==
    /\ trades \in Seq(Trade)
    /\ commits \subseteq CommitRow /\ IsFiniteSet(commits)
    /\ chain \in [Records -> Seq(Link)]
    /\ closed \subseteq Records
    /\ \A tx \in inflight : TxShaped(tx)
    /\ pc \in Steps
    /\ todo \in Seq(CommitRow)
    /\ seen \in Seq(Link)
    /\ batches \in Seq(Seq(Nat))
    /\ blocked \subseteq Records
    /\ awaiting \in {"nothing", "inflight", "landed", "failed"}
    /\ halted \in BOOLEAN
    /\ faults \in 0 .. FaultBound /\ foreign \in 0 .. ForeignBound

\* The trades of one record and one version, in order.
Uniform(ids) ==
    /\ ids # <<>>
    /\ \A j, k \in 1 .. Len(ids) : j < k => ids[j] < ids[k]
    /\ \A k \in 1 .. Len(ids) :
          /\ ids[k] \in DOMAIN trades
          /\ trades[ids[k]].record = trades[ids[1]].record
          /\ trades[ids[k]].version = trades[ids[1]].version

Spans(ids, i) == ids[1] <= i /\ i <= ids[Len(ids)]

\* A row holds sound trades, all of its record's in its range, on top of an
\* accumulator of all that came before.
RowSane(c) ==
    /\ Uniform(c.batch.ids)
    /\ c.record = trades[c.batch.ids[1]].record /\ c.batch.version = trades[c.batch.ids[1]].version
    /\ \A k \in 1 .. Len(c.batch.ids) : trades[c.batch.ids[k]].sound
    /\ \A i \in DOMAIN trades :
          trades[i].record = c.record /\ Spans(c.batch.ids, i) => i \in ToSet(c.batch.ids)
    /\ c.predicted = Append(c.previous, c.batch)
    /\ ForeignBatch \notin ToSet(c.previous)
    /\ IdsOf(c.previous) = {i \in DOMAIN trades : trades[i].record = c.record /\ i < c.batch.ids[1]}
RowsSane == \A c \in commits : RowSane(c)

\* Rows of one record follow one another, and only the newest may be an intent.
RowsOrdered ==
    /\ \A c, d \in commits : c.id = d.id => c = d
    /\ \A c, d \in commits : c.record = d.record /\ c.id < d.id =>
          /\ c.confirmed
          /\ c.batch.ids[Len(c.batch.ids)] < d.batch.ids[1]

\* No trade is passed over.
CoveredInOrder ==
    \A i, j \in DOMAIN trades :
        trades[i].record = trades[j].record /\ i < j /\ Covered(j) => Covered(i)

\* The keeper's own batches are what its rows say.
OwnAccounted ==
    \A r \in Records :
        /\ Intents(r) = {} => Own(chain[r]) = LocalAccumulator(r)
        /\ \A c \in Intents(r) :
              /\ c.previous = LocalAccumulator(r)
              /\ Own(chain[r]) \in {c.previous, c.predicted}

ConfirmedOnChain == \A c \in commits : c.confirmed => IsPrefix(c.predicted, chain[c.record])

\* A batch of ours came after somebody else's.
Mixed(r) ==
    \E i, j \in DOMAIN chain[r] : i < j /\ chain[r][i] = ForeignBatch /\ chain[r][j] # ForeignBatch
ForeignSane ==
    /\ foreign = 0 => /\ \A r \in Records : ForeignBatch \notin ToSet(chain[r])
                      /\ ForeignBatch \notin ToSet(seen)
    /\ halted => foreign > 0 /\ pc = "idle"
    /\ \A r \in Records : Mixed(r) => \E c \in Intents(r) : Own(chain[r]) = c.predicted
    /\ \A r \in Records : \A i, j, k \in DOMAIN chain[r] :
          i < j /\ j < k /\ chain[r][i] = ForeignBatch =>
              chain[r][j] = ForeignBatch \/ chain[r][k] = ForeignBatch

\* A transaction on its way carries an intent that has not landed.
Underway == {"send", "confirm", "verify"}
FlightSane ==
    /\ \A tx \in inflight :
          /\ \E c \in Intents(tx.record) : c.batch = tx.batch /\ Own(chain[tx.record]) = c.previous
          /\ tx.awaited => pc = "confirm" /\ tx.record = Current.record
    /\ \A tx, other \in inflight : tx.record = other.record => tx = other
    /\ pc = "send" => /\ \A tx \in inflight : tx.record # Current.record
                      /\ Own(chain[Current.record]) = Current.previous
    /\ pc = "verify" \/ (pc = "confirm" /\ awaiting = "landed") =>
          Own(chain[Current.record]) = Current.predicted

\* Reconcile works through the intents, while nothing is on its way.
ReconcileSane ==
    /\ pc \in {"idle", "reconcile", "settle"} => batches = <<>>
    /\ pc \notin {"reconcile", "settle"} => todo = <<>>
    /\ pc \in {"reconcile", "settle"} => /\ inflight = {} /\ blocked = {}
                                         /\ \A c \in Pending : \E k \in 1 .. Len(todo) : todo[k] = c
                                         /\ \A k \in 1 .. Len(todo) : todo[k] \in Pending
                                         /\ \A j, k \in 1 .. Len(todo) : todo[j] = todo[k] => j = k
    /\ pc = "settle" => /\ todo # <<>>
                        /\ ForeignBatch \notin ToSet(seen) =>
                              /\ Own(chain[todo[1].record]) = seen
                              /\ IsPrefix(seen, chain[todo[1].record])
                              /\ ~Mixed(todo[1].record)

\* Past reconcile, an open intent is the one being committed or blocks its record.
CommitSane ==
    /\ pc = "commit" => \A c \in Pending : c.record \in blocked
    /\ pc \in Underway =>
          /\ batches # <<>> /\ Current \in Pending
          /\ Current.record \notin blocked /\ Current.batch.ids = batches[1]
          /\ \A c \in Pending : c.record \in blocked \/ c = Current

\* The batches planned and not yet written are, record by record, the first
\* trades that no row covers, in order and without a gap.
Rest(k) == k \in 1 .. Len(batches) /\ (pc \in Underway => k > 1)
RecordOf(k) == trades[batches[k][1]].record
BatchesUniform == \A k \in 1 .. Len(batches) : Uniform(batches[k])
BatchesOrdered ==
    \A j, k \in 1 .. Len(batches) : j < k /\ RecordOf(j) = RecordOf(k) =>
        batches[j][Len(batches[j])] < batches[k][1]
BatchesGapless ==
    \A k \in 1 .. Len(batches) : Rest(k) =>
        /\ \A i \in ToSet(batches[k]) : ~Covered(i)
        /\ RecordOf(k) \notin blocked => \A i \in DOMAIN trades :
              trades[i].record = RecordOf(k) /\ i <= batches[k][Len(batches[k])] /\ ~Covered(i) =>
                  \E j \in 1 .. k : Rest(j) /\ i \in ToSet(batches[j])
PlanSane == BatchesUniform /\ BatchesOrdered /\ BatchesGapless

IInv ==
    /\ WellTyped /\ RowsSane /\ RowsOrdered /\ CoveredInOrder /\ OwnAccounted /\ ConfirmedOnChain
    /\ ForeignSane /\ FlightSane /\ ReconcileSane /\ CommitSane /\ PlanSane

(***************************************************************************)
(* Lemmas about the operators                                              *)
(***************************************************************************)

\* The recursion of Own, up to n.
OwnUpTo(acc, n, own) ==
    own = [k \in 0 .. n |->
              IF k = 0 THEN <<>>
              ELSE IF acc[k] = ForeignBatch THEN own[k - 1] ELSE Append(own[k - 1], acc[k])]

LEMMA OwnDefined ==
    ASSUME NEW acc, NEW n \in Nat
    PROVE  \E own : OwnUpTo(acc, n, own)
<1> DEFINE T == {k \in Nat : \E own : OwnUpTo(acc, k, own)}
<1>1. 0 \in T
  <2> DEFINE own == [k \in 0 .. 0 |-> <<>>]
  <2>1. OwnUpTo(acc, 0, own)
    BY DEF OwnUpTo
  <2> QED
    BY <2>1
<1>2. ASSUME NEW k \in Nat, k \in T PROVE k + 1 \in T
  <2> PICK own : OwnUpTo(acc, k, own)
    BY <1>2
  <2> DEFINE last == IF acc[k + 1] = ForeignBatch THEN own[k] ELSE Append(own[k], acc[k + 1])
             more == [j \in 0 .. k + 1 |-> IF j = k + 1 THEN last ELSE own[j]]
  <2>1. \A j \in 0 .. k : own[j] = IF j = 0 THEN <<>>
                                   ELSE IF acc[j] = ForeignBatch THEN own[j - 1] ELSE Append(own[j - 1], acc[j])
    BY DEF OwnUpTo
  <2> HIDE DEF last
  <2>2. \A j \in 0 .. k : more[j] = own[j]
    OBVIOUS
  <2>3. more[k + 1] = last
    OBVIOUS
  <2>4. \A j \in 0 .. k + 1 : more[j] = IF j = 0 THEN <<>>
                                       ELSE IF acc[j] = ForeignBatch THEN more[j - 1] ELSE Append(more[j - 1], acc[j])
    <3> SUFFICES ASSUME NEW j \in 0 .. k + 1
                 PROVE  more[j] = IF j = 0 THEN <<>>
                                  ELSE IF acc[j] = ForeignBatch THEN more[j - 1] ELSE Append(more[j - 1], acc[j])
      OBVIOUS
    <3>1. CASE j \in 0 .. k
      <4>1. more[j] = own[j] /\ (j # 0 => more[j - 1] = own[j - 1])
        BY <2>2, <3>1
      <4> QED
        BY <2>1, <3>1, <4>1
    <3>2. CASE j = k + 1
      <4>1. more[j - 1] = own[k]
        BY <2>2, <3>2
      <4> QED
        BY <2>3, <3>2, <4>1 DEF last
    <3> QED
      BY <3>1, <3>2
  <2>5. more = [j \in 0 .. k + 1 |-> more[j]]
    OBVIOUS
  <2> HIDE DEF more
  <2>6. OwnUpTo(acc, k + 1, more)
    BY <2>4, <2>5 DEF OwnUpTo
  <2> QED
    BY <2>6
<1> HIDE DEF T
<1>3. Nat \subseteq T
  BY <1>1, <1>2, Induction
<1> QED
  BY <1>3 DEF T

LEMMA OwnIs ==
    ASSUME NEW acc, Len(acc) \in Nat
    PROVE  \E own : /\ Own(acc) = own[Len(acc)] /\ own[0] = <<>>
                    /\ \A k \in 1 .. Len(acc) :
                          own[k] = IF acc[k] = ForeignBatch THEN own[k - 1] ELSE Append(own[k - 1], acc[k])
<1> DEFINE own == CHOOSE f : OwnUpTo(acc, Len(acc), f)
<1>1. OwnUpTo(acc, Len(acc), own)
  BY OwnDefined
<1>2. Own(acc) = own[Len(acc)]
  BY DEF Own, OwnUpTo
<1> HIDE DEF own
<1>3. \A k \in 0 .. Len(acc) : own[k] = IF k = 0 THEN <<>>
          ELSE IF acc[k] = ForeignBatch THEN own[k - 1] ELSE Append(own[k - 1], acc[k])
  BY <1>1 DEF OwnUpTo
<1>4. own[0] = <<>>
  BY <1>3
<1>5. \A k \in 1 .. Len(acc) : own[k] = IF acc[k] = ForeignBatch THEN own[k - 1] ELSE Append(own[k - 1], acc[k])
  BY <1>3
<1> QED
  BY <1>2, <1>4, <1>5

LEMMA OwnEmpty == Own(<<>>) = <<>>
BY OwnIs

\* One more link adds itself if it is the keeper's and nothing if it is not.
LEMMA OwnAppend ==
    ASSUME NEW S, NEW acc \in Seq(S), NEW b \in S
    PROVE  Own(Append(acc, b)) = IF b = ForeignBatch THEN Own(acc) ELSE Append(Own(acc), b)
<1> DEFINE more == Append(acc, b)
           n == Len(acc)
<1>1. /\ n \in Nat /\ Len(more) = n + 1 /\ more[n + 1] = b
      /\ \A k \in 1 .. n : more[k] = acc[k]
  OBVIOUS
<1> HIDE DEF more, n
<1> PICK f : /\ Own(acc) = f[n] /\ f[0] = <<>>
             /\ \A k \in 1 .. n : f[k] = IF acc[k] = ForeignBatch THEN f[k - 1] ELSE Append(f[k - 1], acc[k])
  BY <1>1, OwnIs DEF n
<1> PICK g : /\ Own(more) = g[n + 1] /\ g[0] = <<>>
             /\ \A k \in 1 .. n + 1 : g[k] = IF more[k] = ForeignBatch THEN g[k - 1] ELSE Append(g[k - 1], more[k])
  <2>1. Len(more) \in Nat
    BY <1>1
  <2>2. \E g : /\ Own(more) = g[Len(more)] /\ g[0] = <<>>
                /\ \A k \in 1 .. Len(more) :
                      g[k] = IF more[k] = ForeignBatch THEN g[k - 1] ELSE Append(g[k - 1], more[k])
    BY <2>1, OwnIs
  <2> QED
    BY <1>1, <2>2
<1> DEFINE T == {k \in Nat : k <= n => f[k] = g[k]}
<1>2. Nat \subseteq T
  <2>1. 0 \in T
    OBVIOUS
  <2>2. ASSUME NEW k \in Nat, k \in T PROVE k + 1 \in T
    <3> SUFFICES ASSUME k + 1 <= n PROVE f[k + 1] = g[k + 1]
      OBVIOUS
    <3>1. k + 1 \in 1 .. n /\ (k + 1) - 1 = k /\ f[k] = g[k]
      BY <1>1, <2>2
    <3> QED
      BY <1>1, <3>1
  <2> HIDE DEF T
  <2> QED
    BY <2>1, <2>2, Induction
<1>3. f[n] = g[n]
  BY <1>1, <1>2
<1>4. n + 1 \in 1 .. n + 1 /\ (n + 1) - 1 = n
  BY <1>1
<1>5. Own(more) = IF b = ForeignBatch THEN Own(acc) ELSE Append(Own(acc), b)
  BY <1>1, <1>3, <1>4
<1> QED
  BY <1>5 DEF more

\* The keeper's batches of an accumulator nobody else wrote to are all of it.
LEMMA OwnPure ==
    ASSUME NEW acc \in Seq(Link), ForeignBatch \notin ToSet(acc)
    PROVE  Own(acc) = acc
<1> DEFINE T == {n \in Nat : n <= Len(acc) => Own(SubSeq(acc, 1, n)) = SubSeq(acc, 1, n)}
<1>1. 0 \in T
  <2>1. SubSeq(acc, 1, 0) = <<>>
    OBVIOUS
  <2> QED
    BY <2>1, OwnEmpty
<1>2. ASSUME NEW n \in Nat, n \in T PROVE n + 1 \in T
  <2> SUFFICES ASSUME n + 1 <= Len(acc) PROVE Own(SubSeq(acc, 1, n + 1)) = SubSeq(acc, 1, n + 1)
    OBVIOUS
  <2> DEFINE s == SubSeq(acc, 1, n)
             b == acc[n + 1]
  <2>1. SubSeq(acc, 1, n + 1) = Append(s, b) /\ s \in Seq(Link) /\ b \in Link
    OBVIOUS
  <2>2. b # ForeignBatch
    BY DEF ToSet
  <2>3. Own(s) = s
    BY <1>2
  <2> HIDE DEF s, b
  <2> QED
    BY <2>1, <2>2, <2>3, OwnAppend
<1> HIDE DEF T
<1>3. Nat \subseteq T
  BY <1>1, <1>2, Induction
<1>4. Own(SubSeq(acc, 1, Len(acc))) = SubSeq(acc, 1, Len(acc))
  BY <1>3 DEF T
<1>5. SubSeq(acc, 1, Len(acc)) = acc
  OBVIOUS
<1> QED
  BY <1>4, <1>5

\* Whatever is in it, they are a sequence of batches.
LEMMA OwnType ==
    ASSUME NEW acc \in Seq(Link)
    PROVE  Own(acc) \in Seq(Link) /\ ForeignBatch \notin ToSet(Own(acc))
<1> DEFINE T == {n \in Nat : n <= Len(acc) => /\ Own(SubSeq(acc, 1, n)) \in Seq(Link)
                                              /\ ForeignBatch \notin ToSet(Own(SubSeq(acc, 1, n)))}
<1>1. 0 \in T
  <2>1. SubSeq(acc, 1, 0) = <<>>
    OBVIOUS
  <2>2. Own(SubSeq(acc, 1, 0)) = <<>>
    BY <2>1, OwnEmpty
  <2>3. <<>> \in Seq(Link) /\ ForeignBatch \notin ToSet(<<>>)
    BY DEF ToSet
  <2> QED
    BY <2>2, <2>3
<1>2. ASSUME NEW n \in Nat, n \in T PROVE n + 1 \in T
  <2> SUFFICES ASSUME n + 1 <= Len(acc)
               PROVE  /\ Own(SubSeq(acc, 1, n + 1)) \in Seq(Link)
                      /\ ForeignBatch \notin ToSet(Own(SubSeq(acc, 1, n + 1)))
    OBVIOUS
  <2> DEFINE s == SubSeq(acc, 1, n)
             b == acc[n + 1]
  <2>1. SubSeq(acc, 1, n + 1) = Append(s, b) /\ s \in Seq(Link) /\ b \in Link
    OBVIOUS
  <2>2. Own(s) \in Seq(Link) /\ ForeignBatch \notin ToSet(Own(s))
    BY <1>2
  <2>3. Own(Append(s, b)) = IF b = ForeignBatch THEN Own(s) ELSE Append(Own(s), b)
    BY <2>1, OwnAppend
  <2> HIDE DEF s, b
  <2>4. CASE b = ForeignBatch
    BY <2>1, <2>2, <2>3, <2>4
  <2>5. CASE b # ForeignBatch
    <3> DEFINE o == Own(s)
    <3> HIDE DEF o
    <3>1. o \in Seq(Link) /\ ForeignBatch \notin ToSet(o)
      BY <2>2 DEF o
    <3>2. Append(o, b) \in Seq(Link) /\ ForeignBatch \notin ToSet(Append(o, b))
      BY <2>1, <2>5, <3>1 DEF ToSet
    <3> QED
      BY <2>1, <2>3, <2>5, <3>2 DEF o
  <2> QED
    BY <2>4, <2>5
<1> HIDE DEF T
<1>3. Nat \subseteq T
  BY <1>1, <1>2, Induction
<1>4. SubSeq(acc, 1, Len(acc)) = acc /\ Len(acc) \in Nat
  OBVIOUS
<1>5. Len(acc) \in T /\ Len(acc) <= Len(acc)
  BY <1>3, <1>4
<1>6. /\ Own(SubSeq(acc, 1, Len(acc))) \in Seq(Link)
      /\ ForeignBatch \notin ToSet(Own(SubSeq(acc, 1, Len(acc))))
  BY <1>5 DEF T
<1> QED
  BY <1>4, <1>6

LEMMA PrefixIs ==
    ASSUME NEW S, NEW s \in Seq(S), NEW t \in Seq(S)
    PROVE  IsPrefix(s, t) <=> Len(s) <= Len(t) /\ \A k \in 1 .. Len(s) : s[k] = t[k]
<1>1. /\ Len(s) \in Nat /\ Len(t) \in Nat /\ SubSeq(s, 1, Len(s)) = s
  OBVIOUS
<1>2. CASE Len(s) <= Len(t)
  <2> DEFINE u == SubSeq(t, 1, Len(s))
  <2>1. u \in Seq(S) /\ Len(u) = Len(s) /\ \A k \in 1 .. Len(s) : u[k] = t[k]
    BY <1>1, <1>2
  <2> HIDE DEF u
  <2>2. s = u <=> \A k \in 1 .. Len(s) : s[k] = u[k]
    BY <2>1, SeqEqual
  <2>3. IsPrefix(s, t) <=> s = u
    BY <1>1, <1>2 DEF IsPrefix, u
  <2> QED
    BY <1>2, <2>1, <2>2, <2>3
<1>3. CASE ~ (Len(s) <= Len(t))
  BY <1>3 DEF IsPrefix
<1> QED
  BY <1>2, <1>3

\* A sequence that is continued: what it was, and one more.
LEMMA AppendFacts ==
    ASSUME NEW S, NEW s \in Seq(S), NEW x \in S
    PROVE  /\ Len(s) \in Nat /\ Len(Append(s, x)) = Len(s) + 1
           /\ Append(s, x) \in Seq(S)
           /\ \A k \in 1 .. Len(s) : Append(s, x)[k] = s[k]
           /\ Append(s, x)[Len(s) + 1] = x
           /\ ToSet(Append(s, x)) = ToSet(s) \cup {x}
           /\ \A t \in Seq(S) : IsPrefix(t, s) => IsPrefix(t, Append(s, x))
           /\ s # Append(s, x)
<1>1. /\ Len(s) \in Nat /\ Len(Append(s, x)) = Len(s) + 1
      /\ Append(s, x) \in Seq(S)
      /\ \A k \in 1 .. Len(s) : Append(s, x)[k] = s[k]
      /\ Append(s, x)[Len(s) + 1] = x
  OBVIOUS
<1>2. ToSet(Append(s, x)) = ToSet(s) \cup {x}
  <2> DEFINE more == Append(s, x)
  <2>1. DOMAIN s = 1 .. Len(s) /\ DOMAIN more = 1 .. Len(s) + 1
    BY <1>1
  <2> HIDE DEF more
  <2>2. \A k \in 1 .. Len(s) : more[k] = s[k]
    BY <1>1 DEF more
  <2>3. more[Len(s) + 1] = x /\ Len(s) \in Nat
    BY <1>1 DEF more
  <2>4. ToSet(more) = ToSet(s) \cup {x}
    BY <2>1, <2>2, <2>3 DEF ToSet
  <2> QED
    BY <2>4 DEF more
<1>3. s # Append(s, x)
  <2>1. Len(s) # Len(Append(s, x))
    BY <1>1
  <2> QED
    BY <2>1
<1> DEFINE more == Append(s, x)
<1> HIDE DEF more
<1>4. ASSUME NEW t \in Seq(S), IsPrefix(t, s) PROVE IsPrefix(t, more)
  <2>1. Len(t) <= Len(s) /\ \A k \in 1 .. Len(t) : t[k] = s[k]
    BY <1>4, PrefixIs
  <2>2. Len(t) \in Nat /\ more \in Seq(S) /\ Len(more) = Len(s) + 1 /\ \A k \in 1 .. Len(s) : more[k] = s[k]
    BY <1>1 DEF more
  <2>3. Len(t) <= Len(more) /\ \A k \in 1 .. Len(t) : t[k] = more[k]
    BY <1>1, <2>1, <2>2
  <2> QED
    BY <2>2, <2>3, PrefixIs
<1> QED
  BY <1>1, <1>2, <1>3, <1>4 DEF more

LEMMA NewestRow ==
    ASSUME NEW rows, IsFiniteSet(rows), rows # {}, \A c \in rows : c.id \in Nat,
           \A c, d \in rows : c.id = d.id => c = d
    PROVE  /\ Newest(rows) \in rows
           /\ \A d \in rows : d = Newest(rows) \/ d.id < Newest(rows).id
<1> DEFINE R == {p \in rows \X rows : p[1].id < p[2].id}
<1>1. StrictOrder(rows, R)
  BY DEF StrictOrder
<1>2. \E x \in rows : \A y \in rows : y = x \/ <<y, x>> \in R
  <2> HIDE DEF R
  <2> QED
    BY <1>1, Greatest
<1>3. \E x \in rows : \A y \in rows : y.id <= x.id
  <2> PICK x \in rows : \A y \in rows : y = x \/ <<y, x>> \in R
    BY <1>2
  <2>1. ASSUME NEW y \in rows PROVE y.id <= x.id
    <3>1. CASE y = x
      <4>1. x.id \in Nat
        OBVIOUS
      <4> QED
        BY <3>1, <4>1
    <3>2. CASE <<y, x>> \in R
      <4>1. y.id < x.id /\ y.id \in Nat /\ x.id \in Nat
        BY <3>2
      <4> QED
        BY <4>1
    <3> QED
      BY <3>1, <3>2
  <2> QED
    BY <2>1
<1>4. Newest(rows) \in rows /\ \A y \in rows : y.id <= Newest(rows).id
  BY <1>3 DEF Newest
<1>5. ASSUME NEW d \in rows, d # Newest(rows) PROVE d.id < Newest(rows).id
  BY <1>4, <1>5
<1> QED
  BY <1>4, <1>5

LEMMA NewestUnique ==
    ASSUME NEW rows, \A c \in rows : c.id \in Nat, \A c, d \in rows : c.id = d.id => c = d,
           NEW m \in rows, \A d \in rows : d.id <= m.id
    PROVE  Newest(rows) = m
<1>1. \E x \in rows : \A y \in rows : y.id <= x.id
  OBVIOUS
<1>2. Newest(rows) \in rows /\ \A y \in rows : y.id <= Newest(rows).id
  BY <1>1 DEF Newest
<1> QED
  BY <1>2

(***************************************************************************)
(* Cutting batches                                                         *)
(***************************************************************************)

PlanUpTo(ids, n, plan) ==
    plan = [k \in 0 .. n |-> IF k = 0 THEN <<>> ELSE Place(plan[k - 1], ids[k])]

LEMMA PlanDefined ==
    ASSUME NEW ids, NEW n \in Nat
    PROVE  \E plan : PlanUpTo(ids, n, plan)
<1> DEFINE T == {k \in Nat : \E plan : PlanUpTo(ids, k, plan)}
<1>1. 0 \in T
  <2> DEFINE plan == [k \in 0 .. 0 |-> <<>>]
  <2>1. PlanUpTo(ids, 0, plan)
    BY DEF PlanUpTo
  <2> QED
    BY <2>1
<1>2. ASSUME NEW k \in Nat, k \in T PROVE k + 1 \in T
  <2> PICK plan : PlanUpTo(ids, k, plan)
    BY <1>2
  <2> DEFINE more == [j \in 0 .. k + 1 |-> IF j = k + 1 THEN Place(plan[k], ids[k + 1]) ELSE plan[j]]
  <2>1. \A j \in 0 .. k : plan[j] = IF j = 0 THEN <<>> ELSE Place(plan[j - 1], ids[j])
    BY DEF PlanUpTo
  <2>2. \A j \in 0 .. k : more[j] = plan[j]
    OBVIOUS
  <2>3. more[k + 1] = Place(plan[k], ids[k + 1])
    OBVIOUS
  <2>4. \A j \in 0 .. k + 1 : more[j] = IF j = 0 THEN <<>> ELSE Place(more[j - 1], ids[j])
    <3> SUFFICES ASSUME NEW j \in 0 .. k + 1
                 PROVE  more[j] = IF j = 0 THEN <<>> ELSE Place(more[j - 1], ids[j])
      OBVIOUS
    <3>1. CASE j \in 0 .. k
      <4>1. more[j] = plan[j] /\ (j # 0 => more[j - 1] = plan[j - 1])
        BY <2>2, <3>1
      <4> QED
        BY <2>1, <3>1, <4>1
    <3>2. CASE j = k + 1
      <4>1. more[j - 1] = plan[k] /\ j # 0
        BY <2>2, <3>2
      <4> QED
        BY <2>3, <3>2, <4>1
    <3> QED
      BY <3>1, <3>2
  <2>5. more = [j \in 0 .. k + 1 |-> more[j]]
    OBVIOUS
  <2> HIDE DEF more
  <2>6. PlanUpTo(ids, k + 1, more)
    BY <2>4, <2>5 DEF PlanUpTo
  <2> QED
    BY <2>6
<1> HIDE DEF T
<1>3. Nat \subseteq T
  BY <1>1, <1>2, Induction
<1> QED
  BY <1>3 DEF T

LEMMA PlanIs ==
    ASSUME NEW ids, Len(ids) \in Nat
    PROVE  \E plan : /\ PlanBatches(ids) = plan[Len(ids)] /\ plan[0] = <<>>
                     /\ \A k \in 1 .. Len(ids) : plan[k] = Place(plan[k - 1], ids[k])
<1> DEFINE plan == CHOOSE f : PlanUpTo(ids, Len(ids), f)
<1>1. PlanUpTo(ids, Len(ids), plan)
  BY PlanDefined
<1>2. PlanBatches(ids) = plan[Len(ids)]
  BY DEF PlanBatches, PlanUpTo
<1> HIDE DEF plan
<1>3. \A k \in 0 .. Len(ids) : plan[k] = IF k = 0 THEN <<>> ELSE Place(plan[k - 1], ids[k])
  BY <1>1 DEF PlanUpTo
<1>4. plan[0] = <<>>
  BY <1>3
<1>5. \A k \in 1 .. Len(ids) : plan[k] = Place(plan[k - 1], ids[k])
  BY <1>3
<1> QED
  BY <1>2, <1>4, <1>5

\* A plan of the trades S, each batch before the next.
PlanOf(plan, S) ==
    /\ plan \in Seq(Seq(Nat))
    /\ \A k \in 1 .. Len(plan) : Uniform(plan[k])
    /\ \A k \in 1 .. Len(plan) : \A m \in 1 .. Len(plan[k]) : plan[k][m] \in S
    /\ \A i \in S : \E k \in 1 .. Len(plan) : \E m \in 1 .. Len(plan[k]) : plan[k][m] = i
    /\ \A j, k \in 1 .. Len(plan) : j < k =>
          \A m \in 1 .. Len(plan[j]), n \in 1 .. Len(plan[k]) : <<plan[j][m], plan[k][n]>> \in Before

\* Place keeps a plan a plan, when the trade comes after all those planned.
LEMMA PlacePlans ==
    ASSUME NEW plan, NEW S, PlanOf(plan, S), S \subseteq Uncovered,
           NEW i \in Uncovered, \A x \in S : <<x, i>> \in Before, trades \in Seq(Trade)
    PROVE  PlanOf(Place(plan, i), S \cup {i})
<1> DEFINE n == Len(plan)
<1>1. /\ plan \in Seq(Seq(Nat)) /\ n \in Nat
      /\ \A k \in 1 .. n : plan[k] \in Seq(Nat) /\ Len(plan[k]) \in Nat
  BY DEF PlanOf
<1>2. /\ \A k \in 1 .. n : Uniform(plan[k])
      /\ \A k \in 1 .. n : \A m \in 1 .. Len(plan[k]) : plan[k][m] \in S
      /\ \A x \in S : \E k \in 1 .. n : \E m \in 1 .. Len(plan[k]) : plan[k][m] = x
      /\ \A j, k \in 1 .. n : j < k =>
            \A m \in 1 .. Len(plan[j]), l \in 1 .. Len(plan[k]) : <<plan[j][m], plan[k][l]>> \in Before
  BY DEF PlanOf
<1>3. i \in Nat /\ i \in DOMAIN trades
  BY DEF Uncovered
<1>8. \A x \in DOMAIN trades : trades[x].record \in Int /\ x \in Nat
  <2>1. \A x \in DOMAIN trades : trades[x] \in Trade /\ x \in Nat
    OBVIOUS
  <2>2. \A t \in Trade : t.record \in Int
    BY RecordAssumption DEF Trade, Records
  <2> QED
    BY <2>1, <2>2
<1>4. CASE plan # <<>> /\ ~Breaks(Last(plan), i)
  <2> DEFINE p == plan[n]
             q == Append(p, i)
             new == Append(Front(plan), q)
  <2>1. n \in 1 .. n /\ p \in Seq(Nat) /\ Uniform(p)
    BY <1>1, <1>2, <1>4
  <2>2. /\ Len(q) = Len(p) + 1 /\ q \in Seq(Nat) /\ Len(p) \in Nat
        /\ \A m \in 1 .. Len(p) : q[m] = p[m]
        /\ q[Len(p) + 1] = i
    BY <1>3, <2>1
  <2>3. /\ new \in Seq(Seq(Nat)) /\ Len(new) = n /\ new[n] = q
        /\ \A k \in 1 .. n - 1 : new[k] = plan[k]
    <3> HIDE DEF n
    <3>1. SubSeq(plan, 1, n - 1) \in Seq(Seq(Nat)) /\ Len(SubSeq(plan, 1, n - 1)) = n - 1
          /\ \A k \in 1 .. n - 1 : SubSeq(plan, 1, n - 1)[k] = plan[k]
      BY <1>1, <2>1
    <3>2. Front(plan) = SubSeq(plan, 1, n - 1)
      BY DEF Front, n
    <3>3. /\ Front(plan) \in Seq(Seq(Nat)) /\ Len(Front(plan)) = n - 1
          /\ \A k \in 1 .. n - 1 : Front(plan)[k] = plan[k]
      BY <3>1, <3>2
    <3> HIDE DEF p, q
    <3> QED
      BY <1>1, <2>1, <2>2, <3>3
  <2>4. Place(plan, i) = new
    BY <1>4 DEF Place, Last
  <2>5. /\ p # <<>> /\ Len(p) >= 1
        /\ trades[p[1]].record = trades[i].record /\ trades[p[1]].version = trades[i].version
    <3>1. p # <<>>
      BY <2>1 DEF Uniform
    <3>2. Head(p) = p[1] /\ Len(p) >= 1
      BY <2>1, <3>1
    <3>3. Last(plan) = p
      BY DEF Last
    <3> QED
      BY <1>4, <3>1, <3>2, <3>3 DEF Breaks
  <2>6. ASSUME NEW m \in 1 .. Len(p) PROVE p[m] < i /\ p[m] \in DOMAIN trades
    <3>1. <<p[m], i>> \in Before /\ p[m] \in Uncovered
      BY <1>2, <2>1
    <3>2. trades[p[m]].record = trades[p[1]].record /\ p[m] \in DOMAIN trades
      BY <2>1 DEF Uniform
    <3>3. trades[p[m]].record = trades[i].record
      BY <2>5, <3>2
    <3>4. \/ trades[p[m]].record < trades[i].record
          \/ p[m] < i
      BY <3>1 DEF Before
    <3> QED
      BY <1>3, <1>8, <3>2, <3>3, <3>4
  <2> HIDE DEF q, new, n, p
  <2>7. \A x \in S : <<x, i>> \in Before
    OBVIOUS
  <2>8. Uniform(q)
    <3>1. q # <<>>
      BY <2>2
    <3>2. \A j, k \in 1 .. Len(p) : j < k => p[j] < p[k]
      BY <2>1 DEF Uniform
    <3>3. \A k \in 1 .. Len(p) : /\ p[k] \in DOMAIN trades
                                  /\ trades[p[k]].record = trades[p[1]].record
                                  /\ trades[p[k]].version = trades[p[1]].version
      BY <2>1 DEF Uniform
    <3>4. ASSUME NEW j \in 1 .. Len(q), NEW k \in 1 .. Len(q), j < k PROVE q[j] < q[k]
      <4>1. CASE k = Len(p) + 1
        BY <2>2, <2>6, <3>4, <4>1, SMTT(30)
      <4>2. CASE k \in 1 .. Len(p)
        BY <2>2, <3>2, <3>4, <4>2
      <4> QED
        BY <2>2, <4>1, <4>2
    <3>5. q[1] = p[1]
      BY <2>2, <2>5
    <3>6. \A k \in 1 .. Len(q) : /\ q[k] \in DOMAIN trades
                                  /\ trades[q[k]].record = trades[q[1]].record
                                  /\ trades[q[k]].version = trades[q[1]].version
      BY <1>3, <2>2, <2>5, <3>3, <3>5
    <3> QED
      BY <3>1, <3>4, <3>6 DEF Uniform
  <2>9. ASSUME NEW k \in 1 .. n PROVE Uniform(new[k]) /\ \A m \in 1 .. Len(new[k]) : new[k][m] \in S \cup {i}
    <3>1. CASE k = n
      <4>1. \A m \in 1 .. Len(q) : q[m] \in S \cup {i}
        <5>1. \A m \in 1 .. Len(p) : p[m] \in S
          BY <1>2, <2>1 DEF p
        <5>2. \A m \in 1 .. Len(q) : m \in 1 .. Len(p) \/ m = Len(p) + 1
          BY <2>2
        <5> QED
          BY <2>2, <5>1, <5>2
      <4> QED
        BY <2>3, <2>8, <3>1, <4>1
    <3>2. CASE k \in 1 .. n - 1
      BY <1>2, <2>3, <3>2
    <3> QED
      BY <1>1, <3>1, <3>2
  <2>10. ASSUME NEW x \in S \cup {i} PROVE \E k \in 1 .. n : \E m \in 1 .. Len(new[k]) : new[k][m] = x
    <3>1. CASE x = i
      <4>1. n \in 1 .. n /\ Len(p) + 1 \in 1 .. Len(new[n]) /\ new[n][Len(p) + 1] = i
        BY <2>1, <2>2, <2>3
      <4> QED
        BY <3>1, <4>1
    <3>2. CASE x \in S
      <4> PICK k \in 1 .. n : \E m \in 1 .. Len(plan[k]) : plan[k][m] = x
        BY <1>2, <3>2
      <4>1. CASE k = n
        <5> PICK m \in 1 .. Len(p) : p[m] = x
          BY <4>1 DEF p
        <5>1. m \in 1 .. Len(new[n]) /\ new[n][m] = x
          BY <2>2, <2>3, SMTT(30)
        <5> QED
          BY <2>1, <5>1
      <4>2. CASE k \in 1 .. n - 1
        BY <2>3, <4>2
      <4> QED
        BY <1>1, <4>1, <4>2
    <3> QED
      BY <3>1, <3>2
  <2>11. ASSUME NEW j \in 1 .. n, NEW k \in 1 .. n, j < k, NEW m \in 1 .. Len(new[j]), NEW l \in 1 .. Len(new[k])
         PROVE  <<new[j][m], new[k][l]>> \in Before
    <3>1. j \in 1 .. n - 1 /\ new[j] = plan[j] /\ plan[j][m] \in S
      <4>1. j \in 1 .. n - 1
        BY <1>1, <2>11
      <4>2. new[j] = plan[j]
        BY <2>3, <4>1
      <4> QED
        BY <1>2, <4>1, <4>2
    <3>2. CASE k \in 1 .. n - 1
      BY <1>2, <2>3, <2>11, <3>1, <3>2
    <3>3. CASE k = n /\ l \in 1 .. Len(p)
      BY <1>2, <2>2, <2>3, <2>11, <3>1, <3>3 DEF p
    <3>4. CASE k = n /\ l = Len(p) + 1
      BY <2>2, <2>3, <2>7, <3>1, <3>4
    <3>5. k \in 1 .. n - 1 \/ k = n
      BY <1>1
    <3>6. k = n => l \in 1 .. Len(p) \/ l = Len(p) + 1
      <4>1. k = n => new[k] = q
        BY <2>3
      <4>2. k = n => l \in 1 .. Len(p) + 1
        BY <2>2, <4>1
      <4> QED
        BY <2>2, <4>2
    <3> QED
      BY <3>2, <3>3, <3>4, <3>5, <3>6
  <2>12. PlanOf(new, S \cup {i})
    BY <2>3, <2>9, <2>10, <2>11 DEF PlanOf
  <2> QED
    BY <2>4, <2>12
<1>5. CASE ~ (plan # <<>> /\ ~Breaks(Last(plan), i))
  <2> DEFINE q == <<i>>
             new == Append(plan, q)
  <2>1. Place(plan, i) = new
    BY <1>5 DEF Place
  <2>2. q \in Seq(Nat) /\ Len(q) = 1 /\ q[1] = i /\ q # <<>>
    BY <1>3
  <2> HIDE DEF q
  <2>3. /\ new \in Seq(Seq(Nat)) /\ Len(new) = n + 1 /\ new[n + 1] = q
        /\ \A k \in 1 .. n : new[k] = plan[k]
    BY <1>1, <2>2
  <2> HIDE DEF new, n
  <2>4. Uniform(q)
    <3>1. \A k \in 1 .. Len(q) : k = 1
      BY <2>2
    <3> QED
      BY <1>3, <2>2, <3>1 DEF Uniform
  <2>5. ASSUME NEW k \in 1 .. n + 1 PROVE Uniform(new[k]) /\ \A m \in 1 .. Len(new[k]) : new[k][m] \in S \cup {i}
    <3>1. CASE k = n + 1
      <4>1. \A m \in 1 .. Len(q) : q[m] = i
        BY <2>2
      <4> QED
        BY <2>3, <2>4, <3>1, <4>1
    <3>2. CASE k \in 1 .. n
      BY <1>2, <2>3, <3>2
    <3> QED
      BY <1>1, <3>1, <3>2
  <2>6. ASSUME NEW x \in S \cup {i} PROVE \E k \in 1 .. n + 1 : \E m \in 1 .. Len(new[k]) : new[k][m] = x
    <3>1. CASE x = i
      <4>1. n + 1 \in 1 .. n + 1 /\ 1 \in 1 .. Len(new[n + 1]) /\ new[n + 1][1] = i
        BY <1>1, <2>2, <2>3
      <4> QED
        BY <3>1, <4>1
    <3>2. CASE x \in S
      <4> PICK k \in 1 .. n : \E m \in 1 .. Len(plan[k]) : plan[k][m] = x
        BY <1>2, <3>2
      <4> QED
        BY <1>1, <2>3, SMTT(30)
    <3> QED
      BY <3>1, <3>2
  <2>7. ASSUME NEW j \in 1 .. n + 1, NEW k \in 1 .. n + 1, j < k,
               NEW m \in 1 .. Len(new[j]), NEW l \in 1 .. Len(new[k])
        PROVE  <<new[j][m], new[k][l]>> \in Before
    <3>1. j \in 1 .. n /\ new[j] = plan[j] /\ plan[j][m] \in S
      <4>1. j \in 1 .. n
        BY <1>1, <2>7
      <4>2. new[j] = plan[j]
        BY <2>3, <4>1
      <4> QED
        BY <1>2, <4>1, <4>2
    <3>2. CASE k \in 1 .. n
      <4>1. new[k] = plan[k]
        BY <2>3, <3>2
      <4> QED
        BY <1>2, <2>7, <3>1, <3>2, <4>1
    <3>3. CASE k = n + 1
      BY <2>2, <2>3, <3>1, <3>3
    <3> QED
      BY <1>1, <3>2, <3>3
  <2>8. PlanOf(new, S \cup {i})
    BY <2>3, <2>5, <2>6, <2>7 DEF PlanOf
  <2> QED
    BY <2>1, <2>8
<1> QED
  BY <1>4, <1>5

LEMMA PlanPlans ==
    ASSUME trades \in Seq(Trade), NEW ids \in Seq(Uncovered),
           \A j, k \in 1 .. Len(ids) : j < k => <<ids[j], ids[k]>> \in Before
    PROVE  PlanOf(PlanBatches(ids), {ids[k] : k \in 1 .. Len(ids)})
<1>1. Len(ids) \in Nat
  OBVIOUS
<1> PICK plan : /\ PlanBatches(ids) = plan[Len(ids)] /\ plan[0] = <<>>
                /\ \A k \in 1 .. Len(ids) : plan[k] = Place(plan[k - 1], ids[k])
  BY <1>1, PlanIs
<1> DEFINE First(n) == {ids[k] : k \in 1 .. n}
           T == {n \in Nat : n <= Len(ids) => PlanOf(plan[n], First(n))}
<1>2. 0 \in T
  <2>1. First(0) = {} /\ Len(<<>>) = 0 /\ <<>> \in Seq(Seq(Nat))
    OBVIOUS
  <2>2. PlanOf(<<>>, {})
    BY <2>1 DEF PlanOf
  <2> QED
    BY <2>1, <2>2
<1>3. ASSUME NEW n \in Nat, n \in T PROVE n + 1 \in T
  <2> SUFFICES ASSUME n + 1 <= Len(ids) PROVE PlanOf(plan[n + 1], First(n + 1))
    OBVIOUS
  <2>1. n + 1 \in 1 .. Len(ids) /\ (n + 1) - 1 = n
    BY <1>1
  <2>2. PlanOf(plan[n], First(n)) /\ plan[n + 1] = Place(plan[n], ids[n + 1])
    BY <1>1, <1>3, <2>1
  <2>3. First(n) \subseteq Uncovered /\ ids[n + 1] \in Uncovered
    BY <2>1
  <2>4. \A x \in First(n) : <<x, ids[n + 1]>> \in Before
    <3>1. \A k \in 1 .. n : k \in 1 .. Len(ids) /\ k < n + 1
      BY <2>1
    <3> QED
      BY <2>1, <3>1
  <2>5. First(n) \cup {ids[n + 1]} = First(n + 1)
    OBVIOUS
  <2> HIDE DEF First
  <2> QED
    BY <2>2, <2>3, <2>4, <2>5, PlacePlans
<1> HIDE DEF T
<1>4. Nat \subseteq T
  BY <1>2, <1>3, Induction
<1>5. Len(ids) \in T /\ Len(ids) <= Len(ids)
  BY <1>1, <1>4
<1>6. PlanOf(plan[Len(ids)], First(Len(ids)))
  BY <1>5 DEF T
<1> QED
  BY <1>6

\* The trades a pass considers: uncovered, in order, and none left out before the last.
LEMMA UncommittedFacts ==
    ASSUME trades \in Seq(Trade)
    PROVE  /\ UncommittedTrades \in Seq(Uncovered)
           /\ \A j, k \in 1 .. Len(UncommittedTrades) :
                 j < k => <<UncommittedTrades[j], UncommittedTrades[k]>> \in Before
           /\ \A i \in Uncovered : \/ \E k \in 1 .. Len(UncommittedTrades) : UncommittedTrades[k] = i
                                   \/ \A k \in 1 .. Len(UncommittedTrades) : <<UncommittedTrades[k], i>> \in Before
<1>1. \A x \in DOMAIN trades : trades[x].record \in Int /\ x \in Nat
  <2>1. \A x \in DOMAIN trades : trades[x] \in Trade /\ x \in Nat
    OBVIOUS
  <2>2. \A t \in Trade : t.record \in Int
    BY RecordAssumption DEF Trade, Records
  <2> QED
    BY <2>1, <2>2
<1>2. Uncovered \subseteq 1 .. Len(trades) /\ Len(trades) \in Nat /\ \A x \in Uncovered : trades[x].record \in Int
  BY <1>1 DEF Uncovered
<1>3. IsFiniteSet(Uncovered)
  <2>1. IsFiniteSet(1 .. Len(trades))
    BY <1>2, FS_Interval
  <2> QED
    BY <1>2, <2>1, FS_Subset
<1>4. StrictOrder(Uncovered, Before)
  <2>1. \A x \in Uncovered : <<x, x>> \notin Before
    BY <1>2 DEF Before
  <2>2. \A x, y, z \in Uncovered : <<x, y>> \in Before /\ <<y, z>> \in Before => <<x, z>> \in Before
    <3>1. ASSUME NEW x \in Uncovered, NEW y \in Uncovered, NEW z \in Uncovered,
                 <<x, y>> \in Before, <<y, z>> \in Before
          PROVE  <<x, z>> \in Before
      <4>1. /\ trades[x].record < trades[y].record \/ (trades[x].record = trades[y].record /\ x < y)
            /\ trades[y].record < trades[z].record \/ (trades[y].record = trades[z].record /\ y < z)
        BY <3>1 DEF Before
      <4>2. trades[x].record < trades[z].record \/ (trades[x].record = trades[z].record /\ x < z)
        BY <1>2, <4>1
      <4> QED
        BY <4>2 DEF Before
    <3> QED
      BY <3>1
  <2>3. \A x, y \in Uncovered : x = y \/ <<x, y>> \in Before \/ <<y, x>> \in Before
    BY <1>2 DEF Before
  <2> QED
    BY <2>1, <2>2, <2>3 DEF StrictOrder
<1> DEFINE u == OrderedBy(Uncovered, Before)
           n == Cardinality(Uncovered)
           m == IF n < PassLimit THEN n ELSE PassLimit
<1>5. /\ n \in Nat /\ u \in Seq(Uncovered) /\ Len(u) = n
      /\ \A x \in Uncovered : \E k \in 1 .. n : u[k] = x
      /\ \A j, k \in 1 .. n : j < k <=> <<u[j], u[k]>> \in Before
  BY <1>3, <1>4, OrderedBySorts
<1> HIDE DEF u, n
<1>6. UncommittedTrades = SubSeq(u, 1, m)
  BY <1>5 DEF UncommittedTrades, FirstOf, u
<1>7. m \in 0 .. n
  BY <1>5, BatchAssumption
<1> HIDE DEF m
<1>8. /\ UncommittedTrades \in Seq(Uncovered) /\ Len(UncommittedTrades) = m
      /\ \A k \in 1 .. m : UncommittedTrades[k] = u[k]
  BY <1>5, <1>6, <1>7
<1>9. ASSUME NEW i \in Uncovered, ~ \E k \in 1 .. m : UncommittedTrades[k] = i, NEW k \in 1 .. m
      PROVE  <<UncommittedTrades[k], i>> \in Before
  <2> PICK l \in 1 .. n : u[l] = i
    BY <1>5
  <2>1. k < l /\ k \in 1 .. n
    BY <1>5, <1>7, <1>8, <1>9
  <2> QED
    BY <1>5, <1>8, <2>1
<1>10. ASSUME NEW j \in 1 .. m, NEW k \in 1 .. m, j < k PROVE <<UncommittedTrades[j], UncommittedTrades[k]>> \in Before
  <2>1. j \in 1 .. n /\ k \in 1 .. n
    BY <1>5, <1>7
  <2> QED
    BY <1>5, <1>8, <1>10, <2>1
<1> QED
  BY <1>8, <1>9, <1>10

\* Reconcile is given every intent, once.
LEMMA PendingFacts ==
    ASSUME commits \subseteq CommitRow, IsFiniteSet(commits),
           \A c, d \in commits : c.id = d.id => c = d
    PROVE  /\ PendingInOrder \in Seq(Pending)
           /\ \A c \in Pending : \E k \in 1 .. Len(PendingInOrder) : PendingInOrder[k] = c
           /\ \A j, k \in 1 .. Len(PendingInOrder) : PendingInOrder[j] = PendingInOrder[k] => j = k
<1> DEFINE R == {p \in Pending \X Pending : p[1].id < p[2].id}
           n == Cardinality(Pending)
           s == PendingInOrder
<1>1. Pending \subseteq commits /\ IsFiniteSet(Pending)
  BY FS_Subset DEF Pending
<1>2. \A c \in Pending : c.id \in Nat
  BY <1>1 DEF CommitRow
<1>3. StrictOrder(Pending, R)
  BY <1>1, <1>2 DEF StrictOrder
<1>4. s = OrderedBy(Pending, R)
  BY DEF PendingInOrder
<1>5. /\ n \in Nat /\ s \in Seq(Pending) /\ Len(s) = n
      /\ \A x \in Pending : \E k \in 1 .. n : s[k] = x
      /\ \A j, k \in 1 .. n : j < k <=> <<s[j], s[k]>> \in R
  <2> HIDE DEF R, s
  <2> QED
    BY <1>1, <1>3, <1>4, OrderedBySorts
<1> HIDE DEF s, n
<1>6. ASSUME NEW j \in 1 .. n, NEW k \in 1 .. n, s[j] = s[k] PROVE j = k
  <2>1. s[j] \in Pending /\ s[k] \in Pending
    BY <1>5
  <2>2. <<s[j], s[k]>> \notin R /\ <<s[k], s[j]>> \notin R
    BY <1>2, <1>6, <2>1
  <2>3. ~ (j < k) /\ ~ (k < j)
    BY <1>5, <2>2
  <2> QED
    BY <2>3, <1>5
<1> QED
  BY <1>5, <1>6 DEF s

(***************************************************************************)
(* What the invariant says of the rows                                     *)
(***************************************************************************)

LEMMA BatchesDiffer == \A b \in Batch : b \in Link /\ (b.ids # <<>> => b # ForeignBatch)
BY DEF Batch, Link, ForeignBatch

LEMMA IdsOfAppend ==
    ASSUME NEW s \in Seq(Batch), NEW b \in Batch
    PROVE  IdsOf(Append(s, b)) = IdsOf(s) \cup ToSet(b.ids)
<1> DEFINE more == Append(s, b)
<1>1. /\ Len(s) \in Nat /\ DOMAIN s = 1 .. Len(s) /\ DOMAIN more = 1 .. Len(s) + 1
      /\ more[Len(s) + 1] = b /\ \A k \in 1 .. Len(s) : more[k] = s[k]
  OBVIOUS
<1> HIDE DEF more
<1>2. 1 .. Len(s) + 1 = 1 .. Len(s) \cup {Len(s) + 1}
  BY <1>1
<1>3. \A x : x \in IdsOf(more) <=> x \in IdsOf(s) \/ x \in ToSet(b.ids)
  BY <1>1, <1>2 DEF IdsOf
<1>4. IdsOf(more) = IdsOf(s) \cup ToSet(b.ids)
  BY <1>3
<1> QED
  BY <1>4 DEF more

\* Trades in ascending order lie between the first and the last.
LEMMA UniformFacts ==
    ASSUME NEW ids \in Seq(Nat), Uniform(ids)
    PROVE  /\ Len(ids) \in Nat /\ 1 \in 1 .. Len(ids) /\ Len(ids) \in 1 .. Len(ids)
           /\ Head(ids) = ids[1] /\ Last(ids) = ids[Len(ids)]
           /\ ids[1] \in DOMAIN trades /\ ids[Len(ids)] \in DOMAIN trades
           /\ trades[ids[Len(ids)]].record = trades[ids[1]].record
           /\ ids[1] <= ids[Len(ids)]
           /\ ToSet(ids) = {ids[k] : k \in 1 .. Len(ids)}
           /\ \A k \in 1 .. Len(ids) : /\ ids[k] \in DOMAIN trades /\ ids[k] \in Nat
                                       /\ trades[ids[k]].record = trades[ids[1]].record
                                       /\ Spans(ids, ids[k])
<1>1. ids # <<>> /\ Len(ids) \in Nat /\ \A k \in 1 .. Len(ids) : ids[k] \in Nat
  BY DEF Uniform
<1>2. 1 \in 1 .. Len(ids) /\ Len(ids) \in 1 .. Len(ids) /\ Head(ids) = ids[1]
  BY <1>1
<1>3. \A k \in 1 .. Len(ids) : ids[1] <= ids[k] /\ ids[k] <= ids[Len(ids)]
  <2> SUFFICES ASSUME NEW k \in 1 .. Len(ids) PROVE ids[1] <= ids[k] /\ ids[k] <= ids[Len(ids)]
    OBVIOUS
  <2>1. k = 1 \/ 1 < k
    OBVIOUS
  <2>2. k = Len(ids) \/ k < Len(ids)
    OBVIOUS
  <2>3. k = 1 \/ ids[1] < ids[k]
    BY <1>2, <2>1 DEF Uniform
  <2>4. k = Len(ids) \/ ids[k] < ids[Len(ids)]
    BY <1>2, <2>2 DEF Uniform
  <2> QED
    BY <1>1, <1>2, <2>3, <2>4
<1>4. ToSet(ids) = {ids[k] : k \in 1 .. Len(ids)}
  BY DEF ToSet
<1> QED
  BY <1>1, <1>2, <1>3, <1>4 DEF Uniform, Last, Spans

LEMMA RowFacts ==
    ASSUME WellTyped, RowsSane, NEW c \in commits
    PROVE  /\ c \in CommitRow /\ c.id \in Nat /\ c.record \in Records
           /\ c.batch \in Batch /\ c.batch.ids \in Seq(Nat) /\ c.batch.ids # <<>> /\ c.batch # ForeignBatch
           /\ c.previous \in Seq(Batch) /\ c.previous \in Seq(Link)
           /\ c.predicted \in Seq(Batch) /\ c.predicted \in Seq(Link)
           /\ c.predicted = Append(c.previous, c.batch) /\ c.predicted # c.previous
           /\ ForeignBatch \notin ToSet(c.previous) /\ ForeignBatch \notin ToSet(c.predicted)
           /\ Own(c.previous) = c.previous /\ Own(c.predicted) = c.predicted
<1>1. /\ c \in CommitRow /\ c.id \in Nat /\ c.record \in Records
      /\ c.batch \in Batch /\ c.batch.ids \in Seq(Nat) /\ c.previous \in Seq(Batch) /\ c.predicted \in Seq(Batch)
  BY DEF WellTyped, CommitRow, Batch
<1>2. /\ c.batch.ids # <<>> /\ c.predicted = Append(c.previous, c.batch)
      /\ ForeignBatch \notin ToSet(c.previous)
  BY DEF RowsSane, RowSane, Uniform
<1>3. c.batch # ForeignBatch
  BY <1>1, <1>2, BatchesDiffer
<1>4. c.predicted # c.previous /\ ForeignBatch \notin ToSet(c.predicted)
  BY <1>1, <1>2, <1>3, AppendFacts
<1>5. c.previous \in Seq(Link) /\ c.predicted \in Seq(Link)
  BY <1>1, BatchesDiffer, SeqOfMore
<1>6. Own(c.previous) = c.previous /\ Own(c.predicted) = c.predicted
  BY <1>2, <1>4, <1>5, OwnPure
<1> QED
  BY <1>1, <1>2, <1>3, <1>4, <1>5, <1>6

LEMMA CoveredIs ==
    ASSUME WellTyped, RowsSane
    PROVE  \A i : Covered(i) <=> \E c \in commits : c.record = trades[i].record /\ Spans(c.batch.ids, i)
<1>1. \A c \in commits : Head(c.batch.ids) = c.batch.ids[1] /\ Last(c.batch.ids) = c.batch.ids[Len(c.batch.ids)]
  BY RowFacts, UniformFacts DEF RowsSane, RowSane
<1> QED
  BY <1>1 DEF Covered, Spans

\* The last confirmed row of a record is where its next batch starts from.
LEMMA LocalFacts ==
    ASSUME WellTyped, RowsSane, RowsOrdered, NEW r \in Records
    PROVE  /\ LocalAccumulator(r) \in Seq(Batch) /\ LocalAccumulator(r) \in Seq(Link)
           /\ ForeignBatch \notin ToSet(LocalAccumulator(r))
           /\ Confirmed(r) = {} => LocalAccumulator(r) = <<>>
           /\ Confirmed(r) # {} => \E m \in Confirmed(r) : /\ LocalAccumulator(r) = m.predicted
                                                           /\ \A d \in Confirmed(r) : d = m \/ d.id < m.id
<1>1. CASE Confirmed(r) = {}
  <2>1. LocalAccumulator(r) = <<>>
    BY <1>1 DEF LocalAccumulator
  <2>2. <<>> \in Seq(Batch) /\ <<>> \in Seq(Link) /\ ForeignBatch \notin ToSet(<<>>)
    BY DEF ToSet
  <2> QED
    BY <1>1, <2>1, <2>2
<1>2. CASE Confirmed(r) # {}
  <2> DEFINE m == Newest(Confirmed(r))
  <2>1. Confirmed(r) \subseteq commits /\ IsFiniteSet(Confirmed(r))
    BY FS_Subset DEF Confirmed, WellTyped
  <2>2. \A c \in Confirmed(r) : c.id \in Nat
    BY <2>1, RowFacts
  <2>3. \A c, d \in Confirmed(r) : c.id = d.id => c = d
    BY <2>1 DEF RowsOrdered
  <2>4. m \in Confirmed(r) /\ \A d \in Confirmed(r) : d = m \/ d.id < m.id
    BY <1>2, <2>1, <2>2, <2>3, NewestRow
  <2>5. LocalAccumulator(r) = m.predicted
    BY <1>2 DEF LocalAccumulator
  <2> HIDE DEF m
  <2> QED
    BY <1>2, <2>1, <2>4, <2>5, RowFacts
<1> QED
  BY <1>1, <1>2

\* A record's intent is its only one and comes after all its other rows.
LEMMA IntentFacts ==
    ASSUME WellTyped, RowsSane, RowsOrdered, NEW c \in Pending
    PROVE  /\ c \in commits /\ ~c.confirmed /\ c.record \in Records
           /\ Intents(c.record) = {c}
           /\ \A d \in commits : d.record = c.record /\ d # c =>
                 /\ d.id < c.id /\ d.confirmed
                 /\ d.batch.ids[Len(d.batch.ids)] < c.batch.ids[1]
<1>1. c \in commits /\ ~c.confirmed /\ c.record \in Records
  BY RowFacts DEF Pending
<1>2. ASSUME NEW d \in commits, d.record = c.record, d # c
      PROVE  d.id < c.id /\ d.confirmed /\ d.batch.ids[Len(d.batch.ids)] < c.batch.ids[1]
  <2>1. c.id \in Nat /\ d.id \in Nat /\ c.id # d.id
    BY <1>1, <1>2, RowFacts DEF RowsOrdered
  <2>2. ~ (c.id < d.id)
    BY <1>1, <1>2 DEF RowsOrdered
  <2>3. d.id < c.id
    BY <2>1, <2>2
  <2> QED
    BY <1>1, <1>2, <2>3 DEF RowsOrdered
<1>3. Intents(c.record) = {c}
  <2>1. \A d \in Intents(c.record) : d = c
    BY <1>2 DEF Intents, Pending
  <2>2. c \in Intents(c.record)
    BY DEF Intents
  <2> QED
    BY <2>1, <2>2
<1> QED
  BY <1>1, <1>2, <1>3

LEMMA IntentsOf == ASSUME NEW r, NEW c \in Intents(r) PROVE c \in Pending /\ c.record = r
BY DEF Intents

LEMMA CurrentFacts ==
    ASSUME WellTyped, RowsSane, RowsOrdered, commits # {}
    PROVE  /\ Current \in commits
           /\ \A d \in commits : d = Current \/ d.id < Current.id
<1>1. \A c \in commits : c.id \in Nat
  BY RowFacts
<1>2. \A c, d \in commits : c.id = d.id => c = d
  BY DEF RowsOrdered
<1>3. IsFiniteSet(commits)
  BY DEF WellTyped
<1> QED
  BY <1>1, <1>2, <1>3, NewestRow DEF Current

\* A step that leaves the trades, the rows and the chain alone.
LEMMA SameData ==
    ASSUME IInv, UNCHANGED <<trades, commits, chain>>
    PROVE  /\ RowsSane' /\ RowsOrdered' /\ CoveredInOrder' /\ OwnAccounted' /\ ConfirmedOnChain'
           /\ Pending' = Pending /\ Current' = Current
           /\ \A r : Intents(r)' = Intents(r)
           /\ \A r : Mixed(r)' <=> Mixed(r)
           /\ \A i : Covered(i)' <=> Covered(i)
           /\ \A ids : Uniform(ids)' <=> Uniform(ids)
<1>1. Pending' = Pending /\ Current' = Current /\ \A r : Intents(r)' = Intents(r)
  BY DEF Pending, Current, Newest, Intents
<1>2. \A i : Covered(i)' <=> Covered(i)
  BY DEF Covered
<1>3. \A ids : Uniform(ids)' <=> Uniform(ids)
  BY DEF Uniform
<1>4. \A r : Mixed(r)' <=> Mixed(r)
  BY DEF Mixed
<1>5. \A c : RowSane(c)' <=> RowSane(c)
  BY <1>3 DEF RowSane
<1>6. \A r : LocalAccumulator(r)' = LocalAccumulator(r)
  BY DEF LocalAccumulator, Confirmed, Newest
<1>7. RowsSane'
  BY <1>5 DEF IInv, RowsSane
<1>8. RowsOrdered' /\ ConfirmedOnChain'
  BY DEF IInv, RowsOrdered, ConfirmedOnChain
<1>9. CoveredInOrder'
  BY <1>2 DEF IInv, CoveredInOrder
<1>10. OwnAccounted'
  BY <1>1, <1>6 DEF IInv, OwnAccounted
<1> QED
  BY <1>1, <1>2, <1>3, <1>4, <1>7, <1>8, <1>9, <1>10

(***************************************************************************)
(* What the invariant says of the plan                                     *)
(***************************************************************************)

LEMMA SamePlan ==
    ASSUME IInv, UNCHANGED <<trades, commits, chain, batches, blocked>>,
           pc' \in Underway <=> pc \in Underway
    PROVE  PlanSane'
<1>1. /\ \A i : Covered(i)' <=> Covered(i)
      /\ \A ids : Uniform(ids)' <=> Uniform(ids)
  BY SameData
<1>2. \A k : Rest(k)' <=> Rest(k)
  BY DEF Rest
<1>3. \A k : RecordOf(k)' = RecordOf(k)
  BY DEF RecordOf
<1> QED
  BY <1>1, <1>2, <1>3 DEF IInv, PlanSane, BatchesUniform, BatchesOrdered, BatchesGapless

LEMMA NoPlan == ASSUME batches' = <<>> PROVE PlanSane'
<1>1. 1 .. Len(batches') = {}
  OBVIOUS
<1>2. \A k \in 1 .. Len(batches') : FALSE
  BY <1>1
<1> QED
  BY <1>2 DEF PlanSane, BatchesUniform, BatchesOrdered, BatchesGapless

\* The first batch is written, or its record is held back, and the next one's turn comes.
LEMMA PlanShift ==
    ASSUME WellTyped, PlanSane, UNCHANGED trades, \A i : Covered(i)' <=> Covered(i),
           batches # <<>>, batches' = Tail(batches), pc' \notin Underway, blocked \subseteq blocked',
           pc \in Underway \/ RecordOf(1) \in blocked'
    PROVE  PlanSane'
<1> DEFINE n == Len(batches)
<1>1. n \in Nat /\ n >= 1 /\ batches \in Seq(Seq(Nat))
  BY DEF WellTyped
<1>2. /\ Len(batches') = n - 1
      /\ \A k \in 1 .. n - 1 : batches'[k] = batches[k + 1]
  BY <1>1
<1> HIDE DEF n
<1>3. \A ids : Uniform(ids)' <=> Uniform(ids)
  BY DEF Uniform
<1>4. \A k \in 1 .. n - 1 : k + 1 \in 1 .. n /\ Rest(k + 1) /\ RecordOf(k)' = RecordOf(k + 1)
  BY <1>1, <1>2 DEF Rest, RecordOf, n
<1>5. \A k : Rest(k)' <=> k \in 1 .. n - 1
  BY <1>2 DEF Rest
<1>6. BatchesUniform'
  BY <1>2, <1>3, <1>4 DEF PlanSane, BatchesUniform, n
<1>7. ASSUME NEW j \in 1 .. Len(batches'), NEW k \in 1 .. Len(batches'), j < k, RecordOf(j)' = RecordOf(k)'
      PROVE  batches'[j][Len(batches'[j])] < batches'[k][1]
  <2>1. j + 1 \in 1 .. n /\ k + 1 \in 1 .. n /\ j + 1 < k + 1 /\ RecordOf(j + 1) = RecordOf(k + 1)
    BY <1>2, <1>4, <1>7
  <2>2. batches'[j] = batches[j + 1] /\ batches'[k] = batches[k + 1]
    BY <1>2
  <2> QED
    BY <2>1, <2>2 DEF PlanSane, BatchesOrdered, n
<1>8. ASSUME NEW k \in 1 .. n - 1
      PROVE  /\ \A i \in ToSet(batches'[k]) : ~Covered(i)'
             /\ RecordOf(k)' \notin blocked' => \A i \in DOMAIN trades' :
                   trades'[i].record = RecordOf(k)' /\ i <= batches'[k][Len(batches'[k])] /\ ~Covered(i)' =>
                       \E j \in 1 .. k : Rest(j)' /\ i \in ToSet(batches'[j])
  <2>1. batches'[k] = batches[k + 1] /\ k + 1 \in 1 .. n /\ Rest(k + 1) /\ RecordOf(k)' = RecordOf(k + 1)
    BY <1>2, <1>4
  <2>2. /\ \A i \in ToSet(batches[k + 1]) : ~Covered(i)
        /\ RecordOf(k + 1) \notin blocked => \A i \in DOMAIN trades :
              trades[i].record = RecordOf(k + 1) /\ i <= batches[k + 1][Len(batches[k + 1])] /\ ~Covered(i) =>
                  \E j \in 1 .. k + 1 : Rest(j) /\ i \in ToSet(batches[j])
    BY <2>1 DEF PlanSane, BatchesGapless, n
  <2>3. ASSUME RecordOf(k)' \notin blocked', NEW i \in DOMAIN trades',
               trades'[i].record = RecordOf(k)', i <= batches'[k][Len(batches'[k])], ~Covered(i)'
        PROVE  \E j \in 1 .. k : Rest(j)' /\ i \in ToSet(batches'[j])
    <3>1. RecordOf(k + 1) \notin blocked
      BY <2>1, <2>3
    <3>2. i \in DOMAIN trades /\ trades[i].record = RecordOf(k + 1) /\ i <= batches[k + 1][Len(batches[k + 1])]
          /\ ~Covered(i)
      BY <2>1, <2>3
    <3> PICK j \in 1 .. k + 1 : Rest(j) /\ i \in ToSet(batches[j])
      BY <2>2, <3>1, <3>2
    <3>3. j # 1
      <4> SUFFICES ASSUME j = 1 PROVE FALSE
        OBVIOUS
      <4>1. RecordOf(1) \in blocked'
        BY DEF Rest
      <4>2. Uniform(batches[1]) /\ batches[1] \in Seq(Nat)
        BY <1>1 DEF PlanSane, BatchesUniform, n
      <4>3. trades[i].record = RecordOf(1)
        BY <4>2, UniformFacts DEF RecordOf
      <4> QED
        BY <2>1, <2>3, <3>2, <4>1, <4>3
    <3>4. j - 1 \in 1 .. k /\ batches'[j - 1] = batches[j] /\ Rest(j - 1)'
      <4>1. j - 1 \in 1 .. k /\ (j - 1) + 1 = j
        BY <3>3
      <4>2. j - 1 \in 1 .. n - 1
        BY <1>1, <4>1
      <4> QED
        BY <1>2, <1>5, <4>1, <4>2
    <3> QED
      BY <3>4
  <2> QED
    BY <2>1, <2>2, <2>3
<1> QED
  <2>1. BatchesOrdered'
    BY <1>7 DEF BatchesOrdered
  <2>2. BatchesGapless'
    BY <1>2, <1>5, <1>8 DEF BatchesGapless
  <2> QED
    BY <1>6, <2>1, <2>2 DEF PlanSane

(***************************************************************************)
(* The world around the keeper                                             *)
(***************************************************************************)

LEMMA CloseRecordKeeps == ASSUME IInv, NEW r \in Records, CloseRecord(r) PROVE IInv'
<1>1. UNCHANGED <<trades, commits, chain>>
  BY DEF CloseRecord, database
<1>2. WellTyped'
  BY DEF CloseRecord, IInv, WellTyped, database, pass, bounds
<1>3. ForeignSane'
  BY <1>1, SameData DEF CloseRecord, IInv, ForeignSane, pass, bounds
<1>4. FlightSane'
  BY <1>1, SameData DEF CloseRecord, IInv, FlightSane, pass
<1>5. ReconcileSane'
  BY <1>1, SameData DEF CloseRecord, IInv, ReconcileSane, pass
<1>6. CommitSane'
  BY <1>1, SameData DEF CloseRecord, IInv, CommitSane, pass
<1>7. PlanSane'
  BY <1>1, SamePlan DEF CloseRecord, pass
<1> QED
  BY <1>1, <1>2, <1>3, <1>4, <1>5, <1>6, <1>7, SameData DEF IInv

LEMMA FailOnChainKeeps == ASSUME IInv, NEW tx \in inflight, FailOnChain(tx) PROVE IInv'
<1>1. UNCHANGED <<trades, commits, chain>>
  BY DEF FailOnChain, Settled, database
<1>2. WellTyped'
  BY DEF FailOnChain, Settled, IInv, WellTyped, database
<1>3. ForeignSane'
  BY <1>1, SameData DEF FailOnChain, Settled, IInv, ForeignSane
<1>4. FlightSane'
  BY <1>1, SameData DEF FailOnChain, Settled, IInv, FlightSane
<1>5. ReconcileSane'
  BY <1>1, SameData DEF FailOnChain, Settled, IInv, ReconcileSane
<1>6. CommitSane'
  BY <1>1, SameData DEF FailOnChain, Settled, IInv, CommitSane
<1>7. PlanSane'
  BY <1>1, SamePlan DEF FailOnChain, Settled
<1> QED
  BY <1>1, <1>2, <1>3, <1>4, <1>5, <1>6, <1>7, SameData DEF IInv

LEMMA ExpireKeeps == ASSUME IInv, NEW tx \in inflight, Expire(tx) PROVE IInv'
<1>1. UNCHANGED <<trades, commits, chain>>
  BY DEF Expire, Settled, database
<1>2. WellTyped'
  BY FaultAssumption DEF Expire, Settled, IInv, WellTyped, database
<1>3. ForeignSane'
  BY <1>1, SameData DEF Expire, Settled, IInv, ForeignSane
<1>4. FlightSane'
  BY <1>1, SameData DEF Expire, Settled, IInv, FlightSane
<1>5. ReconcileSane'
  BY <1>1, SameData DEF Expire, Settled, IInv, ReconcileSane
<1>6. CommitSane'
  BY <1>1, SameData DEF Expire, Settled, IInv, CommitSane
<1>7. PlanSane'
  BY <1>1, SamePlan DEF Expire, Settled
<1> QED
  BY <1>1, <1>2, <1>3, <1>4, <1>5, <1>6, <1>7, SameData DEF IInv

(***************************************************************************)
(* Steps of a pass that write neither the table nor the chain              *)
(***************************************************************************)

LEMMA StartPassKeeps == ASSUME IInv, StartPass, ~LateLanding PROVE IInv'
<1>1. UNCHANGED <<trades, commits, chain>>
  BY DEF StartPass, database, solana
<1>2. /\ PendingInOrder \in Seq(Pending)
      /\ \A c \in Pending : \E k \in 1 .. Len(PendingInOrder) : PendingInOrder[k] = c
      /\ \A j, k \in 1 .. Len(PendingInOrder) : PendingInOrder[j] = PendingInOrder[k] => j = k
  BY PendingFacts DEF IInv, WellTyped, RowsOrdered
<1>3. todo' = PendingInOrder /\ inflight = {} /\ inflight' = inflight /\ batches = <<>>
      /\ pc = "idle" /\ pc' = "reconcile"
  BY DEF StartPass, solana, IInv, ReconcileSane
<1>4. WellTyped'
  <2>1. Pending \subseteq CommitRow
    BY DEF Pending, IInv, WellTyped
  <2>2. todo' \in Seq(CommitRow)
    BY <1>2, <1>3, <2>1, SeqOfMore
  <2> QED
    BY <2>2 DEF StartPass, IInv, WellTyped, database, solana, bounds, Steps
<1>5. ForeignSane'
  BY <1>1, SameData DEF StartPass, IInv, ForeignSane, bounds
<1>6. FlightSane'
  BY <1>3 DEF FlightSane, Underway
<1>7. ReconcileSane'
  BY <1>1, <1>2, <1>3, SameData DEF StartPass, IInv, ReconcileSane
<1>8. CommitSane'
  BY <1>3 DEF CommitSane, Underway
<1>9. PlanSane'
  BY <1>3, NoPlan DEF StartPass
<1> QED
  BY <1>1, <1>4, <1>5, <1>6, <1>7, <1>8, <1>9, SameData DEF IInv

LEMMA ReconcileReadKeeps == ASSUME IInv, ReconcileRead PROVE IInv'
<1>1. UNCHANGED <<trades, commits, chain>>
  BY DEF ReconcileRead, database, solana
<1>2. todo # <<>> /\ todo \in Seq(CommitRow) /\ Head(todo) = todo[1] /\ todo[1] \in CommitRow
  <2>1. todo # <<>> /\ todo \in Seq(CommitRow)
    BY DEF ReconcileRead, IInv, WellTyped
  <2> QED
    BY <2>1
<1> PICK r \in Records : r = todo[1].record
  BY <1>2 DEF CommitRow
<1>3. chain[r] \in Seq(Link)
  BY DEF IInv, WellTyped
<1>4. seen' = chain[r] /\ pc = "reconcile" /\ pc' = "settle" /\ UNCHANGED <<todo, inflight, batches, blocked>>
  BY <1>2 DEF ReconcileRead, solana
<1>5. WellTyped'
  BY <1>3, <1>4 DEF ReconcileRead, IInv, WellTyped, database, solana, bounds, Steps
<1>6. ForeignSane'
  BY <1>1, <1>4, SameData DEF ReconcileRead, IInv, ForeignSane, bounds
<1>7. FlightSane'
  BY <1>4 DEF IInv, FlightSane, ReconcileSane, Underway
<1>8. ReconcileSane'
  <2>1. ASSUME ForeignBatch \notin ToSet(seen')
        PROVE  Own(chain[r]) = chain[r] /\ IsPrefix(chain[r], chain[r]) /\ ~Mixed(r)
    <3>1. Own(chain[r]) = chain[r]
      BY <1>3, <1>4, <2>1, OwnPure
    <3>2. IsPrefix(chain[r], chain[r])
      BY <1>3, PrefixIs
    <3>3. ~Mixed(r)
      BY <1>4, <2>1 DEF Mixed, ToSet
    <3> QED
      BY <3>1, <3>2, <3>3
  <2>2. Mixed(todo[1].record)' <=> Mixed(r)
    BY <1>1, <1>4 DEF Mixed
  <2> QED
    BY <1>1, <1>2, <1>4, <2>1, <2>2, SameData DEF IInv, ReconcileSane
<1>9. CommitSane'
  BY <1>4 DEF CommitSane, Underway
<1>10. PlanSane'
  BY <1>4, NoPlan DEF IInv, ReconcileSane
<1> QED
  BY <1>1, <1>5, <1>6, <1>7, <1>8, <1>9, <1>10, SameData DEF IInv

LEMMA SkipBatchKeeps == ASSUME IInv, SkipBatch PROVE IInv'
<1>1. UNCHANGED <<trades, commits, chain>>
  BY DEF SkipBatch, database, solana
<1>2. batches \in Seq(Seq(Nat)) /\ batches # <<>> /\ batches' = Tail(batches) /\ pc = "commit" /\ pc' = "commit"
  BY DEF SkipBatch, IInv, WellTyped
<1>3. WellTyped'
  BY <1>2 DEF SkipBatch, IInv, WellTyped, database, solana, bounds
<1>4. ForeignSane'
  BY <1>1, SameData DEF SkipBatch, IInv, ForeignSane, bounds
<1>5. FlightSane'
  BY <1>1, SameData DEF SkipBatch, IInv, FlightSane, solana
<1>6. ReconcileSane'
  BY <1>1, <1>2, SameData DEF SkipBatch, IInv, ReconcileSane, solana
<1>7. CommitSane'
  BY <1>1, <1>2, SameData DEF SkipBatch, IInv, CommitSane, Underway
<1>8. PlanSane'
  <2>1. RecordOf(1) \in blocked'
    <3>1. Uniform(batches[1]) /\ batches[1] \in Seq(Nat) /\ Head(batches) = batches[1]
      BY <1>2 DEF IInv, PlanSane, BatchesUniform
    <3>2. NextRecord = RecordOf(1)
      BY <3>1, UniformFacts DEF NextRecord, RecordOf
    <3> QED
      BY <3>2 DEF SkipBatch
  <2> QED
    BY <1>1, <1>2, <2>1, SameData, PlanShift DEF SkipBatch, IInv, Underway
<1> QED
  BY <1>1, <1>3, <1>4, <1>5, <1>6, <1>7, <1>8, SameData DEF IInv

\* The batch whose turn it is is its record's next.
LEMMA NextRecordIs ==
    ASSUME IInv, batches # <<>>
    PROVE  /\ Head(batches) = batches[1] /\ batches[1] \in Seq(Nat) /\ Uniform(batches[1])
           /\ NextRecord = RecordOf(1) /\ NextRecord \in Records
<1>1. batches \in Seq(Seq(Nat))
  BY DEF IInv, WellTyped
<1>2. 1 \in 1 .. Len(batches) /\ batches[1] \in Seq(Nat) /\ Head(batches) = batches[1]
  BY <1>1
<1>3. Uniform(batches[1])
  BY <1>2 DEF IInv, PlanSane, BatchesUniform
<1>4. NextRecord = RecordOf(1) /\ batches[1][1] \in DOMAIN trades
  BY <1>2, <1>3, UniformFacts DEF NextRecord, RecordOf
<1>5. RecordOf(1) \in Records
  <2>1. trades \in Seq(Trade)
    BY DEF IInv, WellTyped
  <2>2. trades[batches[1][1]] \in Trade
    BY <1>4, <2>1
  <2> QED
    BY <2>2 DEF RecordOf, Trade
<1> QED
  BY <1>2, <1>3, <1>4, <1>5

LEMMA RefuseBatchKeeps == ASSUME IInv, RefuseBatch PROVE IInv'
<1>1. UNCHANGED <<trades, commits, chain>>
  BY DEF RefuseBatch, database, solana
<1>2. batches \in Seq(Seq(Nat)) /\ batches # <<>> /\ batches' = Tail(batches) /\ pc = "commit" /\ pc' = "commit"
      /\ blocked' = blocked \cup {NextRecord}
  BY DEF RefuseBatch, IInv, WellTyped
<1>3. NextRecord = RecordOf(1) /\ NextRecord \in Records
  BY <1>2, NextRecordIs
<1>4. WellTyped'
  BY <1>2, <1>3 DEF RefuseBatch, IInv, WellTyped, database, solana, bounds
<1>5. ForeignSane'
  BY <1>1, SameData DEF RefuseBatch, IInv, ForeignSane, bounds
<1>6. FlightSane'
  BY <1>1, SameData DEF RefuseBatch, IInv, FlightSane, solana
<1>7. ReconcileSane'
  BY <1>1, <1>2, SameData DEF RefuseBatch, IInv, ReconcileSane, solana
<1>8. CommitSane'
  BY <1>1, <1>2, SameData DEF RefuseBatch, IInv, CommitSane, Underway
<1>9. PlanSane'
  BY <1>1, <1>2, <1>3, SameData, PlanShift DEF IInv, Underway
<1> QED
  BY <1>1, <1>4, <1>5, <1>6, <1>7, <1>8, <1>9, SameData DEF IInv

LEMMA EndPassKeeps == ASSUME IInv, EndPass PROVE IInv'
<1>1. UNCHANGED <<trades, commits, chain>>
  BY DEF EndPass, database, solana
<1>2. WellTyped'
  BY DEF EndPass, IInv, WellTyped, database, solana, bounds, Steps
<1>3. ForeignSane'
  BY <1>1, SameData DEF EndPass, IInv, ForeignSane, bounds
<1>4. FlightSane'
  BY <1>1, SameData DEF EndPass, IInv, FlightSane, solana, Underway
<1>5. ReconcileSane'
  BY <1>1, SameData DEF EndPass, IInv, ReconcileSane, solana
<1>6. CommitSane'
  BY DEF EndPass, CommitSane, Underway
<1>7. PlanSane'
  BY NoPlan DEF EndPass
<1> QED
  BY <1>1, <1>2, <1>3, <1>4, <1>5, <1>6, <1>7, SameData DEF IInv

\* Transactions nobody waits for any more are otherwise what they were.
LEMMA OrphanedFacts ==
    ASSUME \A tx \in inflight : TxShaped(tx)
    PROVE  \A ox \in Orphaned : /\ TxShaped(ox) /\ ~ox.awaited
                                /\ \E tx \in inflight : /\ ox = [tx EXCEPT !.awaited = FALSE]
                                                        /\ ox.record = tx.record /\ ox.batch = tx.batch
<1> SUFFICES ASSUME NEW tx \in inflight
             PROVE  LET ox == [tx EXCEPT !.awaited = FALSE]
                    IN  TxShaped(ox) /\ ~ox.awaited /\ ox.record = tx.record /\ ox.batch = tx.batch
  BY DEF Orphaned
<1> DEFINE ox == [tx EXCEPT !.awaited = FALSE]
<1>1. tx \in [record : Records, batch : Batch, awaited : BOOLEAN, copy : {tx.copy}]
  BY DEF TxShaped
<1>2. /\ ox \in [record : Records, batch : Batch, awaited : BOOLEAN, copy : {tx.copy}]
      /\ ox.awaited = FALSE /\ ox.record = tx.record /\ ox.batch = tx.batch /\ ox.copy = tx.copy
  BY <1>1
<1>3. TxShaped(ox)
  BY <1>2 DEF TxShaped
<1> QED
  BY <1>2, <1>3

LEMMA OrphanedSane ==
    ASSUME IInv, UNCHANGED <<trades, commits, chain>>, inflight' = Orphaned, pc' \notin Underway
    PROVE  FlightSane' /\ \A tx \in inflight' : TxShaped(tx)
<1>1. \A ox \in inflight' : /\ TxShaped(ox) /\ ~ox.awaited
                            /\ \E tx \in inflight : /\ ox = [tx EXCEPT !.awaited = FALSE]
                                                    /\ ox.record = tx.record /\ ox.batch = tx.batch
  BY OrphanedFacts DEF IInv, WellTyped
<1>2. ASSUME NEW ox \in inflight'
      PROVE  \E c \in Intents(ox.record)' : c.batch = ox.batch /\ Own(chain'[ox.record]) = c.previous
  <2> PICK tx \in inflight : ox.record = tx.record /\ ox.batch = tx.batch
    BY <1>1
  <2> PICK c \in Intents(tx.record) : c.batch = tx.batch /\ Own(chain[tx.record]) = c.previous
    BY DEF IInv, FlightSane
  <2>1. Intents(ox.record)' = Intents(tx.record)
    BY SameData
  <2> QED
    BY <2>1
<1>3. ASSUME NEW ox \in inflight', NEW other \in inflight', ox.record = other.record PROVE ox = other
  <2> PICK tx \in inflight : ox = [tx EXCEPT !.awaited = FALSE] /\ ox.record = tx.record
    BY <1>1
  <2> PICK tx2 \in inflight : other = [tx2 EXCEPT !.awaited = FALSE] /\ other.record = tx2.record
    BY <1>1
  <2>1. tx = tx2
    BY <1>3 DEF IInv, FlightSane
  <2> QED
    BY <2>1
<1>4. pc' # "send" /\ pc' # "verify" /\ pc' # "confirm"
  BY DEF Underway
<1> QED
  BY <1>1, <1>2, <1>3, <1>4 DEF FlightSane

LEMMA HoldBackKeeps ==
    ASSUME IInv, HoldBack, pc \in Underway, faults' \in 0 .. FaultBound
    PROVE  IInv'
<1>1. UNCHANGED <<trades, commits, chain>> /\ inflight' = Orphaned /\ pc' = "commit" /\ batches' = Tail(batches)
      /\ blocked' = blocked \cup {NextRecord} /\ UNCHANGED <<closed, todo, seen, halted, foreign>>
      /\ awaiting' = "nothing"
  BY DEF HoldBack, database
<1>2. batches \in Seq(Seq(Nat)) /\ batches # <<>>
  BY DEF IInv, WellTyped, CommitSane
<1>3. NextRecord = RecordOf(1) /\ NextRecord \in Records
  BY <1>2, NextRecordIs
<1>4. FlightSane' /\ \A tx \in inflight' : TxShaped(tx)
  BY <1>1, OrphanedSane DEF Underway
<1>5. WellTyped'
  BY <1>1, <1>2, <1>3, <1>4 DEF IInv, WellTyped, Steps
<1>6. ForeignSane'
  BY <1>1, SameData DEF IInv, ForeignSane, Underway
<1>7. ReconcileSane'
  BY <1>1, SameData DEF IInv, ReconcileSane, Underway
<1>8. CommitSane'
  <2>1. Current.record = NextRecord
    <3>1. Current \in Pending /\ Current.batch.ids = batches[1]
      BY DEF IInv, CommitSane
    <3>2. Current.record = trades[Current.batch.ids[1]].record
      BY <3>1 DEF Pending, IInv, RowsSane, RowSane
    <3> QED
      BY <1>3, <3>1, <3>2 DEF RecordOf
  <2>2. \A c \in Pending : c.record \in blocked'
    BY <1>1, <2>1 DEF IInv, CommitSane
  <2> QED
    BY <1>1, <2>2, SameData DEF CommitSane, Underway
<1>9. PlanSane'
  BY <1>1, <1>2, SameData, PlanShift DEF IInv, Underway
<1> QED
  BY <1>1, <1>4, <1>5, <1>6, <1>7, <1>8, <1>9, SameData DEF IInv

LEMMA CommitRefusedKeeps == ASSUME IInv, CommitRefused PROVE IInv'
BY HoldBackKeeps DEF CommitRefused, IInv, WellTyped, Underway

LEMMA CommitUnknownKeeps == ASSUME IInv, CommitUnknown PROVE IInv'
<1>1. faults' \in 0 .. FaultBound
  BY FaultAssumption DEF CommitUnknown, IInv, WellTyped
<1>2. pc \in Underway /\ HoldBack
  BY DEF CommitUnknown, Underway
<1> QED
  BY <1>1, <1>2, HoldBackKeeps

LEMMA AbandonKeeps ==
    ASSUME IInv, AbandonPass, halted' \in BOOLEAN, halted' => halted
    PROVE  IInv'
<1>1. UNCHANGED <<trades, commits, chain>> /\ inflight' = Orphaned /\ pc' = "idle" /\ batches' = <<>>
      /\ todo' = <<>> /\ seen' = <<>> /\ blocked' = {} /\ awaiting' = "nothing" /\ UNCHANGED <<closed, foreign>>
      /\ faults < FaultBound /\ faults' = faults + 1
  BY DEF AbandonPass, database
<1>2. faults' \in 0 .. FaultBound
  BY <1>1, FaultAssumption DEF IInv, WellTyped
<1>3. FlightSane' /\ \A tx \in inflight' : TxShaped(tx)
  BY <1>1, OrphanedSane DEF Underway
<1>4. WellTyped'
  BY <1>1, <1>2, <1>3 DEF IInv, WellTyped, Steps
<1>5. ForeignSane'
  <2>1. ForeignBatch \notin ToSet(<<>>)
    BY DEF ToSet
  <2> QED
    BY <1>1, <2>1, SameData DEF IInv, ForeignSane
<1>6. ReconcileSane'
  BY <1>1 DEF ReconcileSane
<1>7. CommitSane'
  BY <1>1 DEF CommitSane, Underway
<1>8. PlanSane'
  BY <1>1, NoPlan
<1> QED
  BY <1>1, <1>3, <1>4, <1>5, <1>6, <1>7, <1>8, SameData DEF IInv

LEMMA ReadFailsKeeps == ASSUME IInv, ReadFails PROVE IInv'
BY AbandonKeeps DEF ReadFails, IInv, WellTyped

LEMMA CrashKeeps == ASSUME IInv, Crash PROVE IInv'
BY AbandonKeeps DEF Crash

LEMMA PlanKeeps == ASSUME IInv, Plan PROVE IInv'
<1>1. UNCHANGED <<trades, commits, chain>>
  BY DEF Plan, database, solana
<1>2. trades \in Seq(Trade) /\ trades' = trades
  BY <1>1 DEF IInv, WellTyped
<1> DEFINE u == UncommittedTrades
           S == {u[k] : k \in 1 .. Len(u)}
<1>3. /\ u \in Seq(Uncovered)
      /\ \A j, k \in 1 .. Len(u) : j < k => <<u[j], u[k]>> \in Before
      /\ \A i \in Uncovered : \/ \E k \in 1 .. Len(u) : u[k] = i
                              \/ \A k \in 1 .. Len(u) : <<u[k], i>> \in Before
  BY <1>2, UncommittedFacts
<1>4. PlanOf(batches', S)
  <2> HIDE DEF u
  <2>1. PlanOf(PlanBatches(u), S)
    BY <1>2, <1>3, PlanPlans
  <2> QED
    BY <2>1 DEF Plan, u
<1>5. S \subseteq Uncovered
  <2> HIDE DEF u
  <2> QED
    BY <1>3
<1>6. \A i \in Uncovered : i \in S \/ \A x \in S : <<x, i>> \in Before
  <2> HIDE DEF u
  <2> QED
    BY <1>3
<1> HIDE DEF S, u
<1>7. /\ batches' \in Seq(Seq(Nat)) /\ Len(batches') \in Nat
      /\ \A k \in 1 .. Len(batches') : Uniform(batches'[k]) /\ batches'[k] \in Seq(Nat)
      /\ \A k \in 1 .. Len(batches') : \A m \in 1 .. Len(batches'[k]) : batches'[k][m] \in S
      /\ \A i \in S : \E k \in 1 .. Len(batches') : \E m \in 1 .. Len(batches'[k]) : batches'[k][m] = i
      /\ \A j, k \in 1 .. Len(batches') : j < k =>
            \A m \in 1 .. Len(batches'[j]), n \in 1 .. Len(batches'[k]) : <<batches'[j][m], batches'[k][n]>> \in Before
  BY <1>4, SMTT(30) DEF PlanOf
<1>8. pc = "reconcile" /\ pc' = "commit" /\ todo = <<>> /\ UNCHANGED <<todo, seen, inflight, blocked, awaiting, halted>>
  BY DEF Plan, solana
<1>9. Pending = {} /\ blocked = {} /\ inflight = {}
  BY <1>8 DEF IInv, ReconcileSane
<1>10. WellTyped'
  BY <1>7, <1>8 DEF Plan, IInv, WellTyped, database, solana, bounds, Steps
<1>11. ForeignSane'
  BY <1>1, SameData DEF Plan, IInv, ForeignSane, bounds
<1>12. FlightSane'
  BY <1>8, <1>9 DEF FlightSane
<1>13. ReconcileSane'
  BY <1>8 DEF ReconcileSane
<1>14. CommitSane'
  BY <1>1, <1>8, <1>9, SameData DEF CommitSane, Underway
<1>15. BatchesUniform'
  BY <1>1, <1>7, SameData DEF BatchesUniform
<1>16. \A x, y \in Uncovered : /\ <<x, y>> \in Before /\ trades[x].record = trades[y].record => x < y
                               /\ x \in DOMAIN trades /\ x \in Nat /\ trades[x].record \in Int
  <2>1. \A x \in Uncovered : x \in DOMAIN trades /\ x \in Nat /\ trades[x] \in Trade
    BY <1>2 DEF Uncovered
  <2>2. \A t \in Trade : t.record \in Int
    BY RecordAssumption DEF Trade, Records
  <2> QED
    BY <2>1, <2>2 DEF Before
<1>17. \A k \in 1 .. Len(batches') :
          /\ 1 \in 1 .. Len(batches'[k]) /\ Len(batches'[k]) \in 1 .. Len(batches'[k])
          /\ RecordOf(k)' = trades[batches'[k][1]].record
          /\ \A m \in 1 .. Len(batches'[k]) : trades[batches'[k][m]].record = RecordOf(k)'
  <2>1. \A k : RecordOf(k)' = trades[batches'[k][1]].record
    BY <1>1 DEF RecordOf
  <2> QED
    BY <1>7, <2>1, UniformFacts
<1>18. BatchesOrdered'
  <2>1. ASSUME NEW j \in 1 .. Len(batches'), NEW k \in 1 .. Len(batches'), j < k, RecordOf(j)' = RecordOf(k)'
        PROVE  batches'[j][Len(batches'[j])] < batches'[k][1]
    <3>1. <<batches'[j][Len(batches'[j])], batches'[k][1]>> \in Before
      BY <1>7, <1>17, <2>1
    <3>2. batches'[j][Len(batches'[j])] \in Uncovered /\ batches'[k][1] \in Uncovered
      BY <1>5, <1>7, <1>17
    <3>3. trades[batches'[j][Len(batches'[j])]].record = trades[batches'[k][1]].record
      BY <1>17, <2>1
    <3> QED
      BY <1>16, <3>1, <3>2, <3>3
  <2> QED
    BY <2>1 DEF BatchesOrdered
<1>19. BatchesGapless'
  <2>1. \A k : Rest(k)' <=> k \in 1 .. Len(batches')
    BY <1>8 DEF Rest, Underway
  <2>2. ASSUME NEW k \in 1 .. Len(batches'), NEW i \in ToSet(batches'[k]) PROVE ~Covered(i)'
    <3>1. i \in Uncovered
      BY <1>5, <1>7, <2>2 DEF ToSet
    <3> QED
      BY <1>1, <3>1, SameData DEF Uncovered
  <2>3. ASSUME NEW k \in 1 .. Len(batches'), NEW i \in DOMAIN trades',
               trades'[i].record = RecordOf(k)', i <= batches'[k][Len(batches'[k])], ~Covered(i)'
        PROVE  \E j \in 1 .. k : Rest(j)' /\ i \in ToSet(batches'[j])
    <3> DEFINE last == batches'[k][Len(batches'[k])]
    <3>1. i \in Uncovered /\ trades[i].record = RecordOf(k)'
      BY <1>1, <2>3, SameData DEF Uncovered
    <3>2. last \in S /\ last \in Uncovered /\ trades[last].record = trades[i].record
      BY <1>5, <1>7, <1>17, <3>1
    <3>3. ~ (last < i)
      <4>1. i \in Nat /\ last \in Nat /\ i <= last
        BY <1>16, <2>3, <3>1, <3>2
      <4> HIDE DEF last
      <4> QED
        BY <4>1
    <3>4. i \in S
      BY <1>6, <1>16, <3>1, <3>2, <3>3
    <3> PICK j \in 1 .. Len(batches') : \E m \in 1 .. Len(batches'[j]) : batches'[j][m] = i
      BY <1>7, <3>4
    <3> PICK m \in 1 .. Len(batches'[j]) : batches'[j][m] = i
      OBVIOUS
    <3>5. ~ (k < j)
      <4> SUFFICES ASSUME k < j PROVE FALSE
        OBVIOUS
      <4>1. <<last, i>> \in Before
        BY <1>7, <1>17
      <4> QED
        BY <1>16, <3>1, <3>2, <3>3, <4>1
    <3>6. j \in 1 .. k /\ i \in ToSet(batches'[j])
      BY <1>7, <3>5, SMTT(30) DEF ToSet
    <3> QED
      BY <2>1, <3>6
  <2> QED
    BY <2>1, <2>2, <2>3 DEF BatchesGapless
<1>20. PlanSane'
  BY <1>15, <1>18, <1>19 DEF PlanSane
<1> QED
  BY <1>1, <1>10, <1>11, <1>12, <1>13, <1>14, <1>20, SameData DEF IInv

\* While a batch is under way its row is the newest and its record's only intent.
LEMMA UnderwayFacts ==
    ASSUME IInv, pc \in Underway
    PROVE  /\ commits # {} /\ Current \in Pending /\ Current \in commits /\ Current.record \in Records
           /\ batches # <<>> /\ Intents(Current.record) = {Current}
<1>1. Current \in Pending /\ batches # <<>>
  BY DEF IInv, CommitSane
<1> QED
  BY <1>1, IntentFacts DEF IInv

LEMMA SendKeeps == ASSUME IInv, Send PROVE IInv'
<1>1. UNCHANGED <<trades, commits, chain>>
  BY DEF Send, database
<1>2. pc = "send" /\ pc' = "confirm" /\ awaiting' = "inflight"
      /\ UNCHANGED <<closed, todo, seen, batches, blocked, halted, faults, foreign>>
  BY DEF Send, bounds
<1> PICK copy : inflight' = inflight \cup {[record |-> Current.record, batch |-> Current.batch,
                                           awaited |-> TRUE, copy |-> copy]}
  BY DEF Send
<1> DEFINE new == [record |-> Current.record, batch |-> Current.batch, awaited |-> TRUE, copy |-> copy]
<1>3. new.record = Current.record /\ new.batch = Current.batch /\ new.awaited
  OBVIOUS
<1>4. /\ Current \in Pending /\ Current \in commits /\ Current.record \in Records
      /\ Intents(Current.record) = {Current} /\ Current.batch \in Batch
  BY <1>2, UnderwayFacts, RowFacts DEF Underway, IInv
<1>5. TxShaped(new)
  BY <1>4 DEF TxShaped
<1> HIDE DEF new
<1>6. inflight' = inflight \cup {new}
  BY DEF new
<1>7. WellTyped'
  BY <1>1, <1>2, <1>5, <1>6 DEF IInv, WellTyped, Steps
<1>8. ForeignSane'
  BY <1>1, <1>2, SameData DEF IInv, ForeignSane
<1>9. FlightSane'
  <2>1. /\ \A tx \in inflight : /\ tx.record # Current.record /\ ~tx.awaited
                                /\ \E c \in Intents(tx.record) : c.batch = tx.batch /\ Own(chain[tx.record]) = c.previous
        /\ Own(chain[Current.record]) = Current.previous
        /\ \A tx, other \in inflight : tx.record = other.record => tx = other
    BY <1>2, <1>4 DEF IInv, FlightSane, WellTyped
  <2>2. Current' = Current /\ \A r : Intents(r)' = Intents(r)
    BY <1>1, SameData
  <2>3. ASSUME NEW tx \in inflight'
        PROVE  /\ \E c \in Intents(tx.record)' : c.batch = tx.batch /\ Own(chain'[tx.record]) = c.previous
               /\ tx.awaited => pc' = "confirm" /\ tx.record = Current'.record
    <3>1. CASE tx = new
      BY <1>1, <1>2, <1>3, <1>4, <2>1, <2>2, <3>1
    <3>2. CASE tx \in inflight
      BY <1>1, <2>1, <2>2, <3>2
    <3> QED
      BY <1>6, <3>1, <3>2
  <2>4. \A tx, other \in inflight' : tx.record = other.record => tx = other
    BY <1>3, <1>6, <2>1
  <2>5. pc' # "send" /\ pc' # "verify" /\ awaiting' # "landed"
    BY <1>2
  <2> QED
    BY <2>3, <2>4, <2>5 DEF FlightSane
<1>10. ReconcileSane'
  BY <1>1, <1>2, SameData DEF IInv, ReconcileSane
<1>11. CommitSane'
  BY <1>1, <1>2, SameData DEF IInv, CommitSane, Underway
<1>12. PlanSane'
  BY <1>1, <1>2, SamePlan DEF Underway
<1> QED
  BY <1>1, <1>7, <1>8, <1>9, <1>10, <1>11, <1>12, SameData DEF IInv

LEMMA ConfirmLandedKeeps == ASSUME IInv, ConfirmLanded PROVE IInv'
<1>1. UNCHANGED <<trades, commits, chain>>
  BY DEF ConfirmLanded, database, solana
<1>2. pc = "confirm" /\ awaiting = "landed" /\ awaiting' = "nothing" /\ pc' = "verify"
      /\ UNCHANGED <<inflight, closed, todo, seen, batches, blocked, halted, faults, foreign>>
  BY DEF ConfirmLanded, solana, bounds
<1>3. WellTyped'
  BY <1>1, <1>2 DEF IInv, WellTyped, Steps
<1>4. ForeignSane'
  BY <1>1, <1>2, SameData DEF IInv, ForeignSane
<1>5. FlightSane'
  <2>1. Own(chain[Current.record]) = Current.predicted
    BY <1>2 DEF IInv, FlightSane
  <2>2. Current \in commits /\ Intents(Current.record) = {Current} /\ Current.previous # Current.predicted
    BY <1>2, UnderwayFacts, RowFacts DEF IInv, Underway
  <2>3. \A tx \in inflight : tx.record # Current.record
    BY <2>1, <2>2 DEF IInv, FlightSane
  <2>4. Current' = Current /\ \A r : Intents(r)' = Intents(r)
    BY <1>1, SameData
  <2>5. \A tx \in inflight : ~tx.awaited
    BY <1>2, <2>3 DEF IInv, FlightSane
  <2> QED
    BY <1>1, <1>2, <2>1, <2>4, <2>5 DEF IInv, FlightSane
<1>6. ReconcileSane'
  BY <1>1, <1>2, SameData DEF IInv, ReconcileSane
<1>7. CommitSane'
  BY <1>1, <1>2, SameData DEF IInv, CommitSane, Underway
<1>8. PlanSane'
  BY <1>1, <1>2, SamePlan DEF Underway
<1> QED
  BY <1>1, <1>3, <1>4, <1>5, <1>6, <1>7, <1>8, SameData DEF IInv

(***************************************************************************)
(* Steps that write to the chain                                           *)
(***************************************************************************)

\* A step that leaves the trades and the rows alone.
LEMMA SameRows ==
    ASSUME IInv, UNCHANGED <<trades, commits>>
    PROVE  /\ RowsSane' /\ RowsOrdered' /\ CoveredInOrder'
           /\ Pending' = Pending /\ Current' = Current
           /\ \A r : Intents(r)' = Intents(r) /\ LocalAccumulator(r)' = LocalAccumulator(r)
           /\ \A i : Covered(i)' <=> Covered(i)
           /\ UNCHANGED <<batches, blocked>> /\ (pc' \in Underway <=> pc \in Underway) => PlanSane'
<1>1. Pending' = Pending /\ Current' = Current /\ \A r : Intents(r)' = Intents(r)
  BY DEF Pending, Current, Newest, Intents
<1>2. \A i : Covered(i)' <=> Covered(i)
  BY DEF Covered
<1>3. \A ids : Uniform(ids)' <=> Uniform(ids)
  BY DEF Uniform
<1>4. \A c : RowSane(c)' <=> RowSane(c)
  BY <1>3 DEF RowSane
<1>5. \A r : LocalAccumulator(r)' = LocalAccumulator(r)
  BY DEF LocalAccumulator, Confirmed, Newest
<1>6. RowsSane' /\ RowsOrdered' /\ CoveredInOrder'
  BY <1>2, <1>4 DEF IInv, RowsSane, RowsOrdered, CoveredInOrder
<1>7. ASSUME UNCHANGED <<batches, blocked>>, pc' \in Underway <=> pc \in Underway PROVE PlanSane'
  <2>1. \A k : (Rest(k)' <=> Rest(k)) /\ RecordOf(k)' = RecordOf(k)
    BY <1>7 DEF Rest, RecordOf
  <2> QED
    BY <1>2, <1>3, <1>7, <2>1 DEF IInv, PlanSane, BatchesUniform, BatchesOrdered, BatchesGapless
<1> QED
  BY <1>1, <1>2, <1>5, <1>6, <1>7

LEMMA CommitForeignKeeps == ASSUME IInv, NEW r \in Records, CommitForeign(r) PROVE IInv'
<1>1. /\ UNCHANGED <<trades, commits, closed, inflight, pc, todo, seen, batches, blocked, awaiting, halted, faults>>
      /\ foreign < ForeignBound /\ foreign' = foreign + 1
      /\ chain' = [chain EXCEPT ![r] = Append(@, ForeignBatch)]
  BY DEF CommitForeign, database, pass
<1>2. chain \in [Records -> Seq(Link)] /\ ForeignBatch \in Link /\ chain[r] \in Seq(Link)
  BY DEF IInv, WellTyped, Link
<1>3. /\ chain'[r] = Append(chain[r], ForeignBatch)
      /\ \A x \in Records : x # r => chain'[x] = chain[x]
      /\ chain' \in [Records -> Seq(Link)]
  <2>1. Append(chain[r], ForeignBatch) \in Seq(Link)
    BY <1>2
  <2> QED
    BY <1>1, <1>2, <2>1
<1>4. \A x \in Records : Own(chain'[x]) = Own(chain[x])
  BY <1>2, <1>3, OwnAppend
<1>5. foreign' \in 0 .. ForeignBound /\ foreign' # 0
  BY <1>1, FaultAssumption DEF IInv, WellTyped
<1>6. WellTyped'
  BY <1>1, <1>3, <1>5 DEF IInv, WellTyped
<1>7. /\ Len(chain[r]) \in Nat /\ Len(chain'[r]) = Len(chain[r]) + 1
      /\ \A k \in 1 .. Len(chain[r]) : chain'[r][k] = chain[r][k]
      /\ chain'[r][Len(chain[r]) + 1] = ForeignBatch
      /\ DOMAIN chain[r] = 1 .. Len(chain[r]) /\ DOMAIN chain'[r] = 1 .. Len(chain[r]) + 1
      /\ \A t \in Seq(Link) : IsPrefix(t, chain[r]) => IsPrefix(t, chain'[r])
  <2>1. chain'[r] \in Seq(Link)
    BY <1>3
  <2>2. Len(chain'[r]) = Len(chain[r]) + 1 /\ Len(chain[r]) \in Nat
    BY <1>2, <1>3, AppendFacts
  <2>3. DOMAIN chain[r] = 1 .. Len(chain[r]) /\ DOMAIN chain'[r] = 1 .. Len(chain[r]) + 1
    BY <1>2, <2>1, <2>2
  <2> QED
    BY <1>2, <1>3, <2>2, <2>3, AppendFacts
<1>8. \A x \in Records : Mixed(x)' => Mixed(x)
  <2>1. ASSUME Mixed(r)' PROVE Mixed(r)
    <3> PICK i, j \in DOMAIN chain'[r] : i < j /\ chain'[r][i] = ForeignBatch /\ chain'[r][j] # ForeignBatch
      BY <2>1 DEF Mixed
    <3>1. i \in DOMAIN chain[r] /\ j \in DOMAIN chain[r]
      BY <1>7
    <3>2. chain[r][i] = ForeignBatch /\ chain[r][j] # ForeignBatch
      BY <1>7, <3>1
    <3> QED
      BY <3>1, <3>2 DEF Mixed
  <2>2. ASSUME NEW x \in Records, x # r, Mixed(x)' PROVE Mixed(x)
    BY <1>3, <2>2 DEF Mixed
  <2> QED
    BY <2>1, <2>2
<1>9. \A t \in Seq(Link), x \in Records : IsPrefix(t, chain[x]) => IsPrefix(t, chain'[x])
  BY <1>3, <1>7
<1>10. OwnAccounted'
  BY <1>1, <1>4, SameRows DEF IInv, OwnAccounted
<1>11. ConfirmedOnChain'
  BY <1>1, <1>9, RowFacts DEF IInv, ConfirmedOnChain
<1>12. ForeignSane'
  <2>1. \A x \in Records : Mixed(x)' => \E c \in Intents(x)' : Own(chain'[x]) = c.predicted
    BY <1>1, <1>4, <1>8, SameRows DEF IInv, ForeignSane
  <2>2. ASSUME NEW x \in Records, NEW i \in DOMAIN chain'[x], NEW j \in DOMAIN chain'[x], NEW k \in DOMAIN chain'[x],
               i < j, j < k, chain'[x][i] = ForeignBatch
        PROVE  chain'[x][j] = ForeignBatch \/ chain'[x][k] = ForeignBatch
    <3>1. CASE x # r
      BY <1>3, <2>2, <3>1 DEF IInv, ForeignSane
    <3>2. CASE x = r /\ k = Len(chain[r]) + 1
      BY <1>7, <3>2
    <3>3. CASE x = r /\ k # Len(chain[r]) + 1
      <4>1. i \in DOMAIN chain[r] /\ j \in DOMAIN chain[r] /\ k \in DOMAIN chain[r]
        BY <1>7, <2>2, <3>3
      <4>2. chain'[r][i] = chain[r][i] /\ chain'[r][j] = chain[r][j] /\ chain'[r][k] = chain[r][k]
        BY <1>7, <4>1
      <4> QED
        BY <2>2, <3>3, <4>1, <4>2 DEF IInv, ForeignSane
    <3> QED
      BY <3>1, <3>2, <3>3
  <2>3. halted' => foreign' > 0 /\ pc' = "idle"
    BY <1>1, <1>5, FaultAssumption DEF IInv, ForeignSane
  <2> QED
    BY <1>5, <2>1, <2>2, <2>3 DEF ForeignSane
<1>13. FlightSane'
  <2>1. \A tx \in inflight : tx.record \in Records
    BY DEF IInv, WellTyped, TxShaped
  <2>2. pc \in Underway => Current.record \in Records
    BY UnderwayFacts
  <2>3. Current' = Current /\ \A x : Intents(x)' = Intents(x)
    BY <1>1, SameRows
  <2>4. \A tx \in inflight : \E c \in Intents(tx.record) : c.batch = tx.batch /\ Own(chain'[tx.record]) = c.previous
    BY <1>4, <2>1 DEF IInv, FlightSane
  <2>5. pc \in Underway => Own(chain'[Current.record]) = Own(chain[Current.record])
    BY <1>4, <2>2
  <2> QED
    BY <1>1, <2>3, <2>4, <2>5 DEF IInv, FlightSane, Underway
<1>14. ReconcileSane'
  <2>1. CASE pc # "settle"
    BY <1>1, <2>1, SameRows DEF IInv, ReconcileSane
  <2>2. CASE pc = "settle"
    <3>1. todo # <<>> /\ todo \in Seq(CommitRow) /\ seen \in Seq(Link)
      BY <2>2 DEF IInv, ReconcileSane, WellTyped
    <3>2. todo[1] \in CommitRow
      BY <3>1
    <3> PICK x \in Records : x = todo[1].record
      BY <3>2 DEF CommitRow
    <3>3. ForeignBatch \notin ToSet(seen) => Own(chain[x]) = seen /\ IsPrefix(seen, chain[x]) /\ ~Mixed(x)
      BY <2>2 DEF IInv, ReconcileSane
    <3>4. ForeignBatch \notin ToSet(seen) => Own(chain'[x]) = seen /\ IsPrefix(seen, chain'[x]) /\ ~Mixed(x)'
      BY <1>4, <1>8, <1>9, <3>1, <3>3
    <3>5. Mixed(todo[1].record)' <=> Mixed(x)'
      BY <1>1 DEF Mixed
    <3> QED
      BY <1>1, <3>1, <3>4, <3>5, SameRows DEF IInv, ReconcileSane
  <2> QED
    BY <2>1, <2>2
<1>15. CommitSane'
  BY <1>1, SameRows DEF IInv, CommitSane
<1> QED
  BY <1>1, <1>6, <1>10, <1>11, <1>12, <1>13, <1>14, <1>15, SameRows DEF IInv

\* A transaction that lands turns its intent's accumulator from what the intent
\* started from into what it predicted.
LEMMA LandFacts ==
    ASSUME IInv, NEW tx \in inflight, Land(tx)
    PROVE  \E c \in Intents(tx.record) :
              /\ c \in commits /\ c \in Pending /\ Intents(tx.record) = {c} /\ c.record = tx.record
              /\ tx.batch = c.batch /\ c.batch \in Batch /\ c.batch # ForeignBatch
              /\ tx.record \in Records /\ chain[tx.record] \in Seq(Link)
              /\ Own(chain[tx.record]) = c.previous /\ Own(chain'[tx.record]) = c.predicted
              /\ c.previous # c.predicted
              /\ chain'[tx.record] = Append(chain[tx.record], c.batch)
              /\ \A x \in Records : x # tx.record => chain'[x] = chain[x]
              /\ chain' \in [Records -> Seq(Link)]
<1> PICK c \in Intents(tx.record) : c.batch = tx.batch /\ Own(chain[tx.record]) = c.previous
  BY DEF IInv, FlightSane
<1>1. c \in Pending /\ c.record = tx.record
  BY IntentsOf
<1>2. c \in commits /\ Intents(tx.record) = {c} /\ tx.record \in Records
  BY <1>1, IntentFacts DEF IInv
<1>3. c.batch \in Batch /\ c.batch # ForeignBatch /\ c.predicted = Append(c.previous, c.batch) /\ c.previous # c.predicted
  BY <1>2, RowFacts DEF IInv
<1>4. c.batch \in Link
  BY <1>3, BatchesDiffer
<1>5. chain \in [Records -> Seq(Link)] /\ chain[tx.record] \in Seq(Link)
  BY <1>2 DEF IInv, WellTyped
<1>6. chain' = [chain EXCEPT ![tx.record] = Append(@, c.batch)]
  BY DEF Land
<1>7. /\ chain'[tx.record] = Append(chain[tx.record], c.batch)
      /\ \A x \in Records : x # tx.record => chain'[x] = chain[x]
      /\ chain' \in [Records -> Seq(Link)]
  <2>1. Append(chain[tx.record], c.batch) \in Seq(Link)
    BY <1>4, <1>5
  <2> QED
    BY <1>2, <1>5, <1>6, <2>1
<1>8. Own(chain'[tx.record]) = c.predicted
  BY <1>3, <1>4, <1>5, <1>7, OwnAppend
<1> QED
  BY <1>1, <1>2, <1>3, <1>5, <1>7, <1>8

LEMMA LandKeeps == ASSUME IInv, NEW tx \in inflight, Land(tx) PROVE IInv'
<1> PICK c \in Intents(tx.record) :
              /\ c \in commits /\ c \in Pending /\ Intents(tx.record) = {c} /\ c.record = tx.record
              /\ tx.batch = c.batch /\ c.batch \in Batch /\ c.batch # ForeignBatch
              /\ tx.record \in Records /\ chain[tx.record] \in Seq(Link)
              /\ Own(chain[tx.record]) = c.previous /\ Own(chain'[tx.record]) = c.predicted
              /\ c.previous # c.predicted
              /\ chain'[tx.record] = Append(chain[tx.record], c.batch)
              /\ \A x \in Records : x # tx.record => chain'[x] = chain[x]
              /\ chain' \in [Records -> Seq(Link)]
  BY LandFacts
<1> PICK r \in Records : r = tx.record
  OBVIOUS
<1>1. /\ UNCHANGED <<trades, commits, closed, pc, todo, seen, batches, blocked, halted, faults, foreign>>
      /\ inflight' = inflight \ {tx}
      /\ awaiting' = IF tx.awaited THEN "landed" ELSE awaiting
  BY DEF Land, Settled, database
<1>2. \A x \in Records : x # r => Own(chain'[x]) = Own(chain[x])
  OBVIOUS
<1>3. WellTyped'
  BY <1>1 DEF IInv, WellTyped
<1>4. pc \notin {"reconcile", "settle"}
  BY DEF IInv, ReconcileSane
<1>5. /\ Len(chain[r]) \in Nat /\ Len(chain'[r]) = Len(chain[r]) + 1
      /\ \A k \in 1 .. Len(chain[r]) : chain'[r][k] = chain[r][k]
      /\ chain'[r][Len(chain[r]) + 1] = c.batch
      /\ DOMAIN chain[r] = 1 .. Len(chain[r]) /\ DOMAIN chain'[r] = 1 .. Len(chain[r]) + 1
      /\ \A t \in Seq(Link) : IsPrefix(t, chain[r]) => IsPrefix(t, chain'[r])
      /\ ToSet(chain'[r]) = ToSet(chain[r]) \cup {c.batch}
  <2>1. chain[r] \in Seq(Link) /\ chain'[r] \in Seq(Link) /\ c.batch \in Link
        /\ chain'[r] = Append(chain[r], c.batch)
    BY BatchesDiffer
  <2>2. Len(chain'[r]) = Len(chain[r]) + 1 /\ Len(chain[r]) \in Nat
    BY <2>1, AppendFacts
  <2>3. DOMAIN chain[r] = 1 .. Len(chain[r]) /\ DOMAIN chain'[r] = 1 .. Len(chain[r]) + 1
    BY <2>1, <2>2
  <2> DEFINE more == Append(chain[r], c.batch)
  <2>4. /\ \A k \in 1 .. Len(chain[r]) : more[k] = chain[r][k]
        /\ more[Len(chain[r]) + 1] = c.batch
        /\ \A t \in Seq(Link) : IsPrefix(t, chain[r]) => IsPrefix(t, more)
        /\ ToSet(more) = ToSet(chain[r]) \cup {c.batch}
    BY <2>1, AppendFacts
  <2>5. chain'[r] = more
    BY <2>1
  <2> HIDE DEF more
  <2> QED
    BY <2>2, <2>3, <2>4, <2>5
<1>6. ~Mixed(r)
  BY DEF IInv, ForeignSane
<1>7. \A x \in Records : x # r => (Mixed(x)' <=> Mixed(x))
  BY DEF Mixed
<1>8. OwnAccounted'
  <2>1. \A x : Intents(x)' = Intents(x) /\ LocalAccumulator(x)' = LocalAccumulator(x)
    BY <1>1, SameRows
  <2>2. /\ Intents(r) = {} => Own(chain'[r]) = LocalAccumulator(r)
        /\ \A d \in Intents(r) : d.previous = LocalAccumulator(r) /\ Own(chain'[r]) \in {d.previous, d.predicted}
    <3>1. Intents(r) = {c} /\ c.previous = LocalAccumulator(r) /\ Own(chain'[r]) = c.predicted
      BY DEF IInv, OwnAccounted
    <3> QED
      BY <3>1
  <2>3. \A x \in Records : x # r =>
           /\ Intents(x) = {} => Own(chain'[x]) = LocalAccumulator(x)
           /\ \A d \in Intents(x) : d.previous = LocalAccumulator(x) /\ Own(chain'[x]) \in {d.previous, d.predicted}
    BY <1>2 DEF IInv, OwnAccounted
  <2> QED
    BY <2>1, <2>2, <2>3 DEF OwnAccounted
<1>9. ConfirmedOnChain'
  <2>1. \A t \in Seq(Link), x \in Records : IsPrefix(t, chain[x]) => IsPrefix(t, chain'[x])
    BY <1>5
  <2> QED
    BY <1>1, <2>1, RowFacts DEF IInv, ConfirmedOnChain
<1>10. ForeignSane'
  <2>1. \A x \in Records : Mixed(x)' => \E d \in Intents(x)' : Own(chain'[x]) = d.predicted
    <3>1. \A x : Intents(x)' = Intents(x)
      BY <1>1, SameRows
    <3>2. \E d \in Intents(r)' : Own(chain'[r]) = d.predicted
      BY <3>1
    <3>3. \A x \in Records : x # r /\ Mixed(x) => \E d \in Intents(x)' : Own(chain'[x]) = d.predicted
      BY <1>2, <3>1 DEF IInv, ForeignSane
    <3> QED
      BY <1>7, <3>2, <3>3
  <2>2. ASSUME NEW x \in Records, NEW i \in DOMAIN chain'[x], NEW j \in DOMAIN chain'[x], NEW k \in DOMAIN chain'[x],
               i < j, j < k, chain'[x][i] = ForeignBatch
        PROVE  chain'[x][j] = ForeignBatch \/ chain'[x][k] = ForeignBatch
    <3>1. CASE x # r
      BY <2>2, <3>1 DEF IInv, ForeignSane
    <3>2. CASE x = r
      <4>1. i \in DOMAIN chain[r] /\ j \in DOMAIN chain[r]
        BY <1>5, <2>2, <3>2
      <4>2. chain'[r][i] = chain[r][i] /\ chain'[r][j] = chain[r][j]
        BY <1>5, <4>1
      <4> QED
        BY <1>6, <2>2, <3>2, <4>1, <4>2 DEF Mixed
    <3> QED
      BY <3>1, <3>2
  <2>3. foreign' = 0 => (\A x \in Records : ForeignBatch \notin ToSet(chain'[x])) /\ ForeignBatch \notin ToSet(seen')
    BY <1>1, <1>5 DEF IInv, ForeignSane
  <2> QED
    BY <1>1, <2>1, <2>2, <2>3 DEF IInv, ForeignSane
<1>11. FlightSane'
  <2>1. Current' = Current /\ \A x : Intents(x)' = Intents(x)
    BY <1>1, SameRows
  <2>2. \A other \in inflight' : other \in inflight /\ other.record # r /\ other.record \in Records
    BY <1>1 DEF IInv, FlightSane, WellTyped, TxShaped
  <2>3. ASSUME NEW other \in inflight'
        PROVE  /\ \E d \in Intents(other.record)' : d.batch = other.batch /\ Own(chain'[other.record]) = d.previous
               /\ other.awaited => pc' = "confirm" /\ other.record = Current'.record
    BY <1>1, <1>2, <2>1, <2>2 DEF IInv, FlightSane
  <2>4. \A a, b \in inflight' : a.record = b.record => a = b
    BY <1>1 DEF IInv, FlightSane
  <2>5. ASSUME pc = "send"
        PROVE  /\ \A other \in inflight' : other.record # Current.record
               /\ Own(chain'[Current.record]) = Current.previous
    <3>1. Current.record # r /\ Current.record \in Records
      BY <2>5, UnderwayFacts DEF IInv, FlightSane, Underway
    <3> QED
      BY <1>2, <2>2, <2>5, <3>1 DEF IInv, FlightSane
  <2>6. ASSUME pc = "verify" \/ (pc = "confirm" /\ awaiting' = "landed")
        PROVE  Own(chain'[Current.record]) = Current.predicted
    <3>1. Current \in Pending /\ Current \in commits /\ Current.record \in Records /\ Intents(Current.record) = {Current}
      BY <2>6, UnderwayFacts DEF Underway
    <3>2. CASE Current.record = r
      BY <3>1, <3>2
    <3>3. CASE Current.record # r
      <4>1. ~tx.awaited
        BY <3>3 DEF IInv, FlightSane
      <4> QED
        BY <1>1, <1>2, <2>6, <3>1, <3>3, <4>1 DEF IInv, FlightSane
    <3> QED
      BY <3>2, <3>3
  <2> QED
    BY <1>1, <2>1, <2>3, <2>4, <2>5, <2>6 DEF FlightSane
<1>12. ReconcileSane'
  BY <1>1, <1>4 DEF IInv, ReconcileSane
<1>13. CommitSane'
  BY <1>1, SameRows DEF IInv, CommitSane
<1> QED
  BY <1>1, <1>3, <1>8, <1>9, <1>10, <1>11, <1>12, <1>13, SameRows DEF IInv

(***************************************************************************)
(* A trade is recorded                                                     *)
(***************************************************************************)

LEMMA RecordTradeKeeps ==
    ASSUME IInv, NEW r \in Records, NEW version \in Versions, NEW sound \in BOOLEAN,
           RecordTrade(r, version, sound)
    PROVE  IInv'
<1> DEFINE t == [record |-> r, version |-> version, sound |-> sound]
           n == Len(trades)
<1>1. /\ trades' = Append(trades, t)
      /\ UNCHANGED <<commits, chain, closed, inflight, pc, todo, seen, batches, blocked, awaiting, halted,
                     faults, foreign>>
  BY DEF RecordTrade, solana, pass, bounds
<1>2. trades \in Seq(Trade) /\ t \in Trade
  BY DEF IInv, WellTyped, Trade
<1>3. /\ n \in Nat /\ DOMAIN trades = 1 .. n /\ DOMAIN trades' = 1 .. n + 1
      /\ trades' \in Seq(Trade)
      /\ \A i \in 1 .. n : trades'[i] = trades[i]
  <2> HIDE DEF t
  <2> QED
    BY <1>1, <1>2
<1> HIDE DEF t, n
<1>4. ASSUME NEW ids \in Seq(Nat), Uniform(ids)
      PROVE  /\ Uniform(ids)' /\ 1 \in 1 .. Len(ids) /\ Len(ids) \in 1 .. Len(ids)
             /\ \A k \in 1 .. Len(ids) : ids[k] \in 1 .. n /\ trades'[ids[k]] = trades[ids[k]]
  <2>1. \A k \in 1 .. Len(ids) : ids[k] \in 1 .. n /\ trades'[ids[k]] = trades[ids[k]]
    BY <1>3, <1>4 DEF Uniform
  <2>2. 1 \in 1 .. Len(ids) /\ Len(ids) \in 1 .. Len(ids)
    BY <1>4 DEF Uniform
  <2>3. Uniform(ids)'
    <3>1. \A k \in 1 .. Len(ids) : /\ trades[ids[k]].record = trades[ids[1]].record
                                   /\ trades[ids[k]].version = trades[ids[1]].version
      BY <1>4 DEF Uniform
    <3>2. \A k \in 1 .. Len(ids) : /\ ids[k] \in DOMAIN trades'
                                   /\ trades'[ids[k]].record = trades'[ids[1]].record
                                   /\ trades'[ids[k]].version = trades'[ids[1]].version
      BY <1>3, <2>1, <2>2, <3>1
    <3>3. ids # <<>> /\ \A j, k \in 1 .. Len(ids) : j < k => ids[j] < ids[k]
      BY <1>4 DEF Uniform
    <3> QED
      BY <3>2, <3>3 DEF Uniform
  <2> QED
    BY <2>1, <2>2, <2>3
<1>5. WellTyped'
  BY <1>1, <1>3 DEF IInv, WellTyped
<1>6. /\ Pending' = Pending /\ Current' = Current
      /\ \A x : Intents(x)' = Intents(x) /\ LocalAccumulator(x)' = LocalAccumulator(x)
      /\ \A x : Mixed(x)' <=> Mixed(x)
  BY <1>1 DEF Pending, Current, Newest, Intents, LocalAccumulator, Confirmed, Mixed
<1>7. RowsSane'
  <2> SUFFICES ASSUME NEW c \in commits PROVE RowSane(c)'
    BY <1>1 DEF RowsSane
  <2> DEFINE ids == c.batch.ids
  <2>1. RowSane(c) /\ ids \in Seq(Nat) /\ Uniform(ids)
    BY RowFacts DEF IInv, RowsSane, RowSane
  <2>2. /\ Uniform(ids)' /\ 1 \in 1 .. Len(ids) /\ Len(ids) \in 1 .. Len(ids)
        /\ \A k \in 1 .. Len(ids) : ids[k] \in 1 .. n /\ trades'[ids[k]] = trades[ids[k]]
    BY <1>4, <2>1
  <2>3. \A i \in DOMAIN trades' : trades'[i].record = c.record /\ Spans(ids, i) => i \in ToSet(ids)
    <3>1. \A i \in DOMAIN trades' : Spans(ids, i) => i \in DOMAIN trades /\ trades'[i] = trades[i]
      BY <1>3, <2>2 DEF Spans
    <3> QED
      BY <2>1, <3>1 DEF RowSane
  <2>4. {i \in DOMAIN trades' : trades'[i].record = c.record /\ i < ids[1]}
          = {i \in DOMAIN trades : trades[i].record = c.record /\ i < ids[1]}
    BY <1>3, <2>2
  <2> QED
    BY <2>1, <2>2, <2>3, <2>4 DEF RowSane
<1>8. RowsOrdered' /\ ConfirmedOnChain' /\ OwnAccounted'
  <2>1. RowsOrdered' /\ ConfirmedOnChain'
    BY <1>1 DEF IInv, RowsOrdered, ConfirmedOnChain
  <2>2. OwnAccounted'
    BY <1>1, <1>6 DEF IInv, OwnAccounted
  <2> QED
    BY <2>1, <2>2
<1>9. \A i : /\ i \in 1 .. n => (Covered(i)' <=> Covered(i))
             /\ i \in 1 .. n + 1 /\ Covered(i)' => i \in 1 .. n
  <2> SUFFICES ASSUME NEW i
               PROVE  (i \in 1 .. n => (Covered(i)' <=> Covered(i))) /\ (i \in 1 .. n + 1 /\ Covered(i)' => i \in 1 .. n)
    OBVIOUS
  <2>1. i \in 1 .. n => trades'[i] = trades[i]
    BY <1>3
  <2>2. i \in 1 .. n => (Covered(i)' <=> Covered(i))
    BY <1>1, <2>1 DEF Covered
  <2>3. ASSUME i \in 1 .. n + 1, NEW c \in commits, i <= Last(c.batch.ids) PROVE i \in 1 .. n
    <3>1. Uniform(c.batch.ids) /\ c.batch.ids \in Seq(Nat)
      BY RowFacts DEF IInv, RowsSane, RowSane
    <3>2. Last(c.batch.ids) \in DOMAIN trades
      BY <3>1, UniformFacts
    <3> QED
      BY <1>3, <2>3, <3>2
  <2>4. i \in 1 .. n + 1 /\ Covered(i)' => i \in 1 .. n
    BY <1>1, <1>3, <2>3 DEF Covered
  <2> QED
    BY <2>2, <2>4
<1>10. CoveredInOrder'
  <2> SUFFICES ASSUME NEW i \in DOMAIN trades', NEW j \in DOMAIN trades',
                      trades'[i].record = trades'[j].record, i < j, Covered(j)'
               PROVE  Covered(i)'
    BY DEF CoveredInOrder
  <2>1. j \in 1 .. n + 1 /\ i \in 1 .. n + 1
    BY <1>3
  <2>2. j \in 1 .. n /\ Covered(j)
    BY <1>9, <2>1
  <2>3. i \in 1 .. n
    BY <1>3, <2>1, <2>2
  <2>4. Covered(i)
    BY <1>3, <2>2, <2>3 DEF IInv, CoveredInOrder
  <2> QED
    BY <1>9, <2>3, <2>4
<1>11. ForeignSane'
  BY <1>1, <1>6 DEF IInv, ForeignSane
<1>12. FlightSane'
  BY <1>1, <1>6 DEF IInv, FlightSane
<1>13. ReconcileSane'
  BY <1>1, <1>6 DEF IInv, ReconcileSane
<1>14. CommitSane'
  BY <1>1, <1>6 DEF IInv, CommitSane
<1>15. \A k \in 1 .. Len(batches) :
          /\ batches[k] \in Seq(Nat) /\ Uniform(batches[k]) /\ Uniform(batches[k])'
          /\ RecordOf(k)' = RecordOf(k)
          /\ \A m \in 1 .. Len(batches[k]) : batches[k][m] \in 1 .. n
          /\ batches[k][Len(batches[k])] \in 1 .. n
  <2> SUFFICES ASSUME NEW k \in 1 .. Len(batches)
               PROVE  /\ batches[k] \in Seq(Nat) /\ Uniform(batches[k]) /\ Uniform(batches[k])'
                      /\ RecordOf(k)' = RecordOf(k)
                      /\ \A m \in 1 .. Len(batches[k]) : batches[k][m] \in 1 .. n
                      /\ batches[k][Len(batches[k])] \in 1 .. n
    OBVIOUS
  <2> PICK ids : ids = batches[k]
    OBVIOUS
  <2>1. ids \in Seq(Nat) /\ Uniform(ids)
    BY DEF IInv, WellTyped, PlanSane, BatchesUniform
  <2>2. /\ Uniform(ids)' /\ 1 \in 1 .. Len(ids) /\ Len(ids) \in 1 .. Len(ids)
        /\ \A m \in 1 .. Len(ids) : ids[m] \in 1 .. n /\ trades'[ids[m]] = trades[ids[m]]
    BY <1>4, <2>1
  <2>3. RecordOf(k)' = RecordOf(k)
    BY <1>1, <2>2 DEF RecordOf
  <2>4. Uniform(batches[k])'
    BY <1>1, <2>2 DEF Uniform
  <2> QED
    BY <2>1, <2>2, <2>3, <2>4
<1>16. PlanSane'
  <2>1. \A k : Rest(k)' <=> Rest(k)
    BY <1>1 DEF Rest
  <2>2. BatchesUniform' /\ BatchesOrdered'
    BY <1>1, <1>15 DEF IInv, PlanSane, BatchesUniform, BatchesOrdered
  <2>3. ASSUME NEW k \in 1 .. Len(batches), Rest(k), NEW i \in ToSet(batches[k]) PROVE ~Covered(i)'
    <3>1. i \in 1 .. n /\ i \in 1 .. n + 1
      BY <1>3, <1>15, <2>3 DEF ToSet
    <3>2. ~Covered(i)
      BY <2>3 DEF IInv, PlanSane, BatchesGapless
    <3> QED
      BY <1>3, <1>9, <3>1, <3>2
  <2>4. ASSUME NEW k \in 1 .. Len(batches), Rest(k), RecordOf(k) \notin blocked, NEW i \in DOMAIN trades',
               trades'[i].record = RecordOf(k), i <= batches[k][Len(batches[k])], ~Covered(i)'
        PROVE  \E j \in 1 .. k : Rest(j) /\ i \in ToSet(batches[j])
    <3>1. i \in DOMAIN trades
      BY <1>3, <1>15, <2>4
    <3>2. trades[i].record = RecordOf(k) /\ ~Covered(i)
      BY <1>3, <1>9, <2>4, <3>1
    <3> QED
      BY <2>4, <3>1, <3>2 DEF IInv, PlanSane, BatchesGapless
  <2>5. BatchesGapless'
    BY <1>1, <1>15, <2>1, <2>3, <2>4 DEF BatchesGapless
  <2> QED
    BY <2>2, <2>5 DEF PlanSane
<1> QED
  BY <1>5, <1>7, <1>8, <1>10, <1>11, <1>12, <1>13, <1>14, <1>16 DEF IInv

(***************************************************************************)
(* Steps that write the commits table                                      *)
(***************************************************************************)

\* An intent whose batch is on the chain becomes a confirmed row.
LEMMA ConfirmFacts ==
    ASSUME IInv, UNCHANGED <<trades, chain>>, NEW row \in Pending,
           commits' = (commits \ {row}) \cup {[row EXCEPT !.confirmed = TRUE]},
           Own(chain[row.record]) = row.predicted, IsPrefix(row.predicted, chain[row.record]),
           ~Mixed(row.record)
    PROVE  /\ commits' \subseteq CommitRow /\ IsFiniteSet(commits')
           /\ RowsSane' /\ RowsOrdered' /\ CoveredInOrder' /\ OwnAccounted' /\ ConfirmedOnChain'
           /\ Pending' = Pending \ {row}
           /\ \A r : r # row.record => Intents(r)' = Intents(r)
           /\ \A i : Covered(i)' <=> Covered(i)
           /\ \A r \in Records : Mixed(r)' => \E c \in Intents(r)' : Own(chain'[r]) = c.predicted
<1> DEFINE done == [row EXCEPT !.confirmed = TRUE]
<1>1. /\ row \in commits /\ ~row.confirmed /\ row.record \in Records /\ row \in CommitRow
      /\ Intents(row.record) = {row}
      /\ \A d \in commits : d.record = row.record /\ d # row =>
            /\ d.id < row.id /\ d.confirmed
            /\ d.batch.ids[Len(d.batch.ids)] < row.batch.ids[1]
  BY IntentFacts, RowFacts DEF IInv
<1>2. /\ done \in CommitRow /\ done.confirmed
      /\ done.id = row.id /\ done.record = row.record /\ done.batch = row.batch
      /\ done.previous = row.previous /\ done.predicted = row.predicted
  BY <1>1 DEF CommitRow
<1> HIDE DEF done
<1>3. commits' = (commits \ {row}) \cup {done}
  BY DEF done
<1>4. commits \subseteq CommitRow /\ IsFiniteSet(commits)
  BY DEF IInv, WellTyped
<1>5. commits' \subseteq CommitRow /\ IsFiniteSet(commits')
  <2>1. IsFiniteSet(commits \ {row})
    BY <1>4, FS_RemoveElement
  <2>2. IsFiniteSet((commits \ {row}) \cup {done})
    BY <2>1, FS_AddElement
  <2> QED
    BY <1>2, <1>3, <1>4, <2>2
<1>6. \A c \in commits' :
         \/ c = done
         \/ c \in commits /\ c # row
  BY <1>3
<1>7. \A ids : Uniform(ids)' <=> Uniform(ids)
  BY DEF Uniform
<1>8. RowsSane'
  <2>1. \A c : RowSane(c)' <=> RowSane(c)
    BY <1>7 DEF RowSane
  <2>2. RowSane(row) /\ \A c \in commits : RowSane(c)
    BY <1>1 DEF IInv, RowsSane
  <2>3. RowSane(done)
    BY <1>2, <2>2 DEF RowSane
  <2> QED
    BY <1>6, <2>1, <2>2, <2>3, SMTT(30) DEF RowsSane
<1>9. RowsOrdered'
  <2>1. \A c, d \in commits : c.id = d.id => c = d
    BY DEF IInv, RowsOrdered
  <2>2. \A c, d \in commits' : c.id = d.id => c = d
    BY <1>1, <1>2, <1>6, <2>1
  <2>3. ASSUME NEW c \in commits', NEW d \in commits', c.record = d.record, c.id < d.id
        PROVE  c.confirmed /\ c.batch.ids[Len(c.batch.ids)] < d.batch.ids[1]
    <3>1. CASE c = done
      <4>1. d # done
        <5>1. done.id \in Nat
          BY <1>2 DEF CommitRow
        <5> QED
          BY <2>3, <3>1, <5>1
      <4>2. d \in commits /\ d # row /\ d.id < row.id
        BY <1>1, <1>2, <1>6, <2>3, <3>1, <4>1
      <4>3. row.id \in Nat /\ d.id \in Nat
        BY <1>1, <4>2, RowFacts DEF IInv
      <4> QED
        BY <1>2, <2>3, <3>1, <4>2, <4>3
    <3>2. CASE c # done /\ d = done
      BY <1>1, <1>2, <1>6, <3>2, <2>3
    <3>3. CASE c # done /\ d # done
      BY <1>6, <2>3, <3>3 DEF IInv, RowsOrdered
    <3> QED
      BY <3>1, <3>2, <3>3
  <2> QED
    BY <2>2, <2>3 DEF RowsOrdered
<1>10. \A i : Covered(i)' <=> Covered(i)
  BY <1>1, <1>2, <1>3 DEF Covered
<1>11. CoveredInOrder'
  BY <1>10 DEF IInv, CoveredInOrder
<1>12. Pending' = Pending \ {row}
  BY <1>2, <1>3 DEF Pending
<1>13. /\ Intents(row.record)' = {}
       /\ \A r : r # row.record => Intents(r)' = Intents(r)
  <2>1. \A r : Intents(r)' = {c \in Pending \ {row} : c.record = r}
    BY <1>12 DEF Intents
  <2> QED
    BY <1>1, <2>1 DEF Intents
<1>14. \A r : r # row.record => Confirmed(r)' = Confirmed(r)
  BY <1>1, <1>2, <1>3 DEF Confirmed
<1>15. LocalAccumulator(row.record)' = row.predicted
  <2> DEFINE rows == {c \in commits' : c.confirmed /\ c.record = row.record}
  <2>1. done \in rows
    BY <1>2, <1>3
  <2>2. \A c \in rows : c.id \in Nat /\ c \in commits'
    BY <1>5 DEF CommitRow
  <2>3. \A c, d \in rows : c.id = d.id => c = d
    BY <1>9 DEF RowsOrdered
  <2>4. \A d \in rows : d.id <= done.id
    BY <1>1, <1>2, <1>6, <2>2, <2>1
  <2>5. Newest(rows) = done
    <3> HIDE DEF rows
    <3> QED
      BY <2>1, <2>2, <2>3, <2>4, NewestUnique
  <2>6. LocalAccumulator(row.record)' = IF rows = {} THEN <<>> ELSE Newest(rows).predicted
    BY DEF LocalAccumulator, Confirmed, Newest
  <2> QED
    BY <1>2, <2>1, <2>5, <2>6
<1>16. OwnAccounted'
  <2>1. \A r : r # row.record => LocalAccumulator(r)' = LocalAccumulator(r)
    BY <1>14 DEF LocalAccumulator
  <2>2. \A r \in Records : r # row.record =>
           /\ Intents(r)' = {} => Own(chain'[r]) = LocalAccumulator(r)'
           /\ \A c \in Intents(r)' : c.previous = LocalAccumulator(r)' /\ Own(chain'[r]) \in {c.previous, c.predicted}
    BY <1>13, <2>1 DEF IInv, OwnAccounted
  <2>3. /\ Intents(row.record)' = {} => Own(chain'[row.record]) = LocalAccumulator(row.record)'
        /\ \A c \in Intents(row.record)' : FALSE
    BY <1>13, <1>15
  <2>4. \A r \in Records :
           /\ Intents(r)' = {} => Own(chain'[r]) = LocalAccumulator(r)'
           /\ \A c \in Intents(r)' : c.previous = LocalAccumulator(r)' /\ Own(chain'[r]) \in {c.previous, c.predicted}
    BY <2>2, <2>3
  <2> QED
    BY <2>4 DEF OwnAccounted
<1>17. ConfirmedOnChain'
  BY <1>2, <1>6 DEF IInv, ConfirmedOnChain
<1>18. \A r \in Records : Mixed(r)' => \E c \in Intents(r)' : Own(chain'[r]) = c.predicted
  <2>1. \A r : Mixed(r)' <=> Mixed(r)
    BY DEF Mixed
  <2> QED
    BY <1>13, <2>1 DEF IInv, ForeignSane
<1> QED
  BY <1>5, <1>8, <1>9, <1>10, <1>11, <1>12, <1>13, <1>16, <1>17, <1>18

\* An intent that never landed is dropped, and its trades are uncovered again.
LEMMA DiscardFacts ==
    ASSUME IInv, UNCHANGED <<trades, chain>>, NEW row \in Pending,
           commits' = commits \ {row},
           Own(chain[row.record]) = row.previous, ~Mixed(row.record)
    PROVE  /\ commits' \subseteq CommitRow /\ IsFiniteSet(commits')
           /\ RowsSane' /\ RowsOrdered' /\ CoveredInOrder' /\ OwnAccounted' /\ ConfirmedOnChain'
           /\ Pending' = Pending \ {row}
           /\ \A r \in Records : Mixed(r)' => \E c \in Intents(r)' : Own(chain'[r]) = c.predicted
<1>1. /\ row \in commits /\ ~row.confirmed /\ row.record \in Records /\ row \in CommitRow
      /\ Intents(row.record) = {row}
      /\ \A d \in commits : d.record = row.record /\ d # row =>
            /\ d.id < row.id /\ d.confirmed
            /\ d.batch.ids[Len(d.batch.ids)] < row.batch.ids[1]
  BY IntentFacts, RowFacts DEF IInv
<1>2. commits' \subseteq CommitRow /\ IsFiniteSet(commits')
  BY FS_RemoveElement DEF IInv, WellTyped
<1>3. RowsSane'
  <2>1. \A ids : Uniform(ids)' <=> Uniform(ids)
    BY DEF Uniform
  <2>2. \A c : RowSane(c)' <=> RowSane(c)
    BY <2>1 DEF RowSane
  <2> QED
    BY <2>2 DEF IInv, RowsSane
<1>4. RowsOrdered' /\ ConfirmedOnChain'
  BY DEF IInv, RowsOrdered, ConfirmedOnChain
<1>5. Pending' = Pending \ {row}
  BY DEF Pending
<1>6. /\ Intents(row.record)' = {}
      /\ \A r : r # row.record => Intents(r)' = Intents(r)
  <2>1. \A r : Intents(r)' = {c \in Pending \ {row} : c.record = r}
    BY <1>5 DEF Intents
  <2> QED
    BY <1>1, <2>1 DEF Intents
<1>7. \A r : LocalAccumulator(r)' = LocalAccumulator(r)
  <2>1. \A r : Confirmed(r)' = Confirmed(r)
    BY <1>1 DEF Confirmed
  <2> QED
    BY <2>1 DEF LocalAccumulator
<1>8. OwnAccounted'
  <2>1. row.previous = LocalAccumulator(row.record)
    BY <1>1 DEF IInv, OwnAccounted
  <2>2. \A r \in Records :
           /\ Intents(r)' = {} => Own(chain'[r]) = LocalAccumulator(r)'
           /\ \A c \in Intents(r)' : c.previous = LocalAccumulator(r)' /\ Own(chain'[r]) \in {c.previous, c.predicted}
    BY <1>6, <1>7, <2>1 DEF IInv, OwnAccounted
  <2> QED
    BY <2>2 DEF OwnAccounted
<1>9. CoveredInOrder'
  <2> SUFFICES ASSUME NEW i \in DOMAIN trades, NEW j \in DOMAIN trades,
                      trades[i].record = trades[j].record, i < j, Covered(j)'
               PROVE  Covered(i)'
    BY DEF CoveredInOrder
  <2>1. \A c \in commits : Head(c.batch.ids) = c.batch.ids[1] /\ Last(c.batch.ids) = c.batch.ids[Len(c.batch.ids)]
                           /\ c.batch.ids[1] \in Nat /\ Last(c.batch.ids) \in Nat
    BY RowFacts, UniformFacts DEF IInv, RowsSane, RowSane
  <2> PICK d \in commits' : d.record = trades[j].record /\ Head(d.batch.ids) <= j /\ j <= Last(d.batch.ids)
    BY DEF Covered
  <2>2. d \in commits /\ d # row
    OBVIOUS
  <2>3. Covered(j)
    BY <2>2 DEF Covered
  <2>4. Covered(i)
    BY <2>3 DEF IInv, CoveredInOrder
  <2> PICK c \in commits : c.record = trades[i].record /\ Head(c.batch.ids) <= i /\ i <= Last(c.batch.ids)
    BY <2>4 DEF Covered
  <2>5. c # row
    <3> SUFFICES ASSUME c = row PROVE FALSE
      OBVIOUS
    <3>1. d.batch.ids[Len(d.batch.ids)] < row.batch.ids[1]
      BY <1>1, <2>2
    <3>2. j <= Last(d.batch.ids) /\ Head(row.batch.ids) <= i /\ i \in Nat /\ j \in Nat
      BY DEF IInv, WellTyped
    <3> QED
      BY <1>1, <2>1, <2>2, <3>1, <3>2
  <2> QED
    BY <2>5 DEF Covered
<1>10. \A r \in Records : Mixed(r)' => \E c \in Intents(r)' : Own(chain'[r]) = c.predicted
  <2>1. \A r : Mixed(r)' <=> Mixed(r)
    BY DEF Mixed
  <2> QED
    BY <1>6, <2>1 DEF IInv, ForeignSane
<1> QED
  BY <1>2, <1>3, <1>4, <1>5, <1>8, <1>9, <1>10

LEMMA SettleIntentKeeps == ASSUME IInv, SettleIntent PROVE IInv'
<1>1. /\ UNCHANGED <<trades, chain, closed, inflight, batches, blocked, awaiting, faults, foreign>>
      /\ pc = "settle" /\ seen' = <<>> /\ batches = <<>> /\ inflight = {} /\ blocked = {} /\ halted = FALSE
  BY DEF SettleIntent, solana, bounds, IInv, ReconcileSane, ForeignSane, WellTyped
<1>2. /\ todo # <<>> /\ todo \in Seq(CommitRow) /\ Head(todo) = todo[1]
      /\ Len(todo) \in Nat /\ 1 \in 1 .. Len(todo) /\ seen \in Seq(Link)
  <2>1. todo # <<>> /\ todo \in Seq(CommitRow) /\ seen \in Seq(Link)
    BY <1>1 DEF IInv, ReconcileSane, WellTyped
  <2> QED
    BY <2>1
<1> PICK row \in Pending : row = todo[1]
  BY <1>1, <1>2 DEF IInv, ReconcileSane
<1>3. /\ row \in commits /\ row.record \in Records /\ Intents(row.record) = {row}
      /\ row.predicted # row.previous /\ row.previous \in Seq(Link) /\ row.predicted \in Seq(Link)
      /\ ForeignBatch \notin ToSet(row.previous) /\ ForeignBatch \notin ToSet(row.predicted)
  BY IntentFacts, RowFacts DEF IInv
<1>4. ForeignBatch \notin ToSet(seen) =>
         /\ Own(chain[row.record]) = seen
         /\ IsPrefix(seen, chain[row.record])
         /\ ~Mixed(row.record)
  BY <1>1 DEF IInv, ReconcileSane
<1>5. ForeignBatch \notin ToSet(seen')
  BY <1>1 DEF ToSet
<1>6. pc' # "settle" /\ pc' \in {"idle", "reconcile"}
  BY <1>1 DEF SettleIntent
<1>7. FlightSane' /\ CommitSane' /\ PlanSane'
  BY <1>1, <1>6, NoPlan DEF FlightSane, CommitSane, Underway
<1>8. ASSUME pc' = "reconcile", UNCHANGED halted, commits' \subseteq CommitRow, IsFiniteSet(commits'),
             todo' = Tail(todo), Pending' = Pending \ {row},
             \A r \in Records : Mixed(r)' => \E c \in Intents(r)' : Own(chain'[r]) = c.predicted
      PROVE  WellTyped' /\ ForeignSane' /\ ReconcileSane'
  <2>1. /\ todo' \in Seq(CommitRow) /\ Len(todo') = Len(todo) - 1
        /\ \A k \in 1 .. Len(todo) - 1 : todo'[k] = todo[k + 1]
    BY <1>2, <1>8
  <2>2. WellTyped'
    <3>1. seen' \in Seq(Link)
      BY <1>1
    <3> QED
      BY <1>1, <1>8, <2>1, <3>1 DEF IInv, WellTyped, Steps
  <2>3. ForeignSane'
    BY <1>1, <1>5, <1>8 DEF IInv, ForeignSane
  <2>4. /\ \A c \in Pending : \E k \in 1 .. Len(todo) : todo[k] = c
        /\ \A k \in 1 .. Len(todo) : todo[k] \in Pending
        /\ \A j, k \in 1 .. Len(todo) : todo[j] = todo[k] => j = k
    BY <1>1 DEF IInv, ReconcileSane
  <2>5. ASSUME NEW c \in Pending \ {row} PROVE \E k \in 1 .. Len(todo') : todo'[k] = c
    <3> PICK k \in 1 .. Len(todo) : todo[k] = c
      BY <2>4
    <3>1. k # 1 /\ k - 1 \in 1 .. Len(todo')
      BY <1>2, <2>1, <2>5
    <3>2. todo'[k - 1] = c
      BY <1>2, <2>1, <3>1
    <3> QED
      BY <3>1, <3>2
  <2>6. ASSUME NEW k \in 1 .. Len(todo') PROVE todo'[k] \in Pending \ {row}
    BY <1>2, <2>1, <2>4, <2>6
  <2>7. ASSUME NEW j \in 1 .. Len(todo'), NEW k \in 1 .. Len(todo'), todo'[j] = todo'[k] PROVE j = k
    <3>1. j + 1 \in 1 .. Len(todo) /\ k + 1 \in 1 .. Len(todo) /\ todo[j + 1] = todo[k + 1]
      BY <1>2, <2>1, <2>7
    <3>2. j + 1 = k + 1
      BY <2>4, <3>1
    <3> QED
      BY <3>2
  <2>8. ReconcileSane'
    BY <1>1, <1>8, <2>5, <2>6, <2>7 DEF ReconcileSane
  <2> QED
    BY <2>2, <2>3, <2>8
<1>9. CASE seen = row.predicted
  <2>1. /\ commits' = (commits \ {row}) \cup {[row EXCEPT !.confirmed = TRUE]}
        /\ pc' = "reconcile" /\ UNCHANGED halted /\ todo' = Tail(todo)
    BY <1>1, <1>2, <1>3, <1>9 DEF SettleIntent, NeverLanded
  <2>2. Own(chain[row.record]) = row.predicted /\ IsPrefix(row.predicted, chain[row.record]) /\ ~Mixed(row.record)
    BY <1>3, <1>4, <1>9
  <2>3. /\ commits' \subseteq CommitRow /\ IsFiniteSet(commits')
        /\ RowsSane' /\ RowsOrdered' /\ CoveredInOrder' /\ OwnAccounted' /\ ConfirmedOnChain'
        /\ Pending' = Pending \ {row}
        /\ \A r \in Records : Mixed(r)' => \E c \in Intents(r)' : Own(chain'[r]) = c.predicted
    BY <1>1, <2>1, <2>2, ConfirmFacts
  <2> QED
    BY <1>7, <1>8, <2>1, <2>3 DEF IInv
<1>10. CASE seen # row.predicted /\ seen = row.previous
  <2>1. commits' = commits \ {row} /\ pc' = "reconcile" /\ UNCHANGED halted /\ todo' = Tail(todo)
    BY <1>1, <1>2, <1>10 DEF SettleIntent, NeverLanded
  <2>2. Own(chain[row.record]) = row.previous /\ ~Mixed(row.record)
    BY <1>3, <1>4, <1>10
  <2>3. /\ commits' \subseteq CommitRow /\ IsFiniteSet(commits')
        /\ RowsSane' /\ RowsOrdered' /\ CoveredInOrder' /\ OwnAccounted' /\ ConfirmedOnChain'
        /\ Pending' = Pending \ {row}
        /\ \A r \in Records : Mixed(r)' => \E c \in Intents(r)' : Own(chain'[r]) = c.predicted
    BY <1>1, <2>1, <2>2, DiscardFacts
  <2> QED
    BY <1>7, <1>8, <2>1, <2>3 DEF IInv
<1>11. CASE seen # row.predicted /\ seen # row.previous
  <2>1. UNCHANGED commits /\ pc' = "idle" /\ halted' = TRUE /\ todo' = <<>>
    BY <1>1, <1>2, <1>11 DEF SettleIntent, NeverLanded
  <2>2. foreign > 0
    <3>1. foreign # 0
      <4> SUFFICES ASSUME foreign = 0 PROVE FALSE
        OBVIOUS
      <4>1. ForeignBatch \notin ToSet(seen)
        BY DEF IInv, ForeignSane
      <4>2. Own(chain[row.record]) \in {row.previous, row.predicted}
        BY <1>3 DEF IInv, OwnAccounted
      <4> QED
        BY <1>4, <1>11, <4>1, <4>2
    <3> QED
      BY <3>1, FaultAssumption DEF IInv, WellTyped
  <2>3. WellTyped'
    <3>1. seen' \in Seq(Link) /\ todo' \in Seq(CommitRow)
      BY <1>1, <2>1
    <3> QED
      BY <1>1, <2>1, <3>1 DEF IInv, WellTyped, Steps
  <2>4. ForeignSane'
    BY <1>1, <1>5, <2>1, <2>2, SameData DEF IInv, ForeignSane
  <2>5. ReconcileSane'
    BY <1>1, <2>1 DEF ReconcileSane
  <2> QED
    BY <1>1, <1>7, <2>1, <2>3, <2>4, <2>5, SameData DEF IInv
<1> QED
  BY <1>9, <1>10, <1>11

LEMMA VerifyCommitKeeps == ASSUME IInv, VerifyCommit PROVE IInv'
<1>1. /\ UNCHANGED <<trades, chain, closed, inflight, todo, seen, blocked, awaiting, faults, foreign>>
      /\ pc = "verify" /\ halted = FALSE
  BY DEF VerifyCommit, solana, bounds, IInv, ForeignSane, WellTyped
<1>2. /\ Current \in Pending /\ Current \in commits /\ Current.record \in Records
      /\ batches # <<>> /\ Intents(Current.record) = {Current}
      /\ Own(chain[Current.record]) = Current.predicted
      /\ Current.predicted # Current.previous /\ Current.predicted \in Seq(Link)
      /\ ForeignBatch \notin ToSet(Current.predicted)
  BY <1>1, UnderwayFacts, RowFacts DEF IInv, Underway, FlightSane
<1> PICK row \in Pending : row = Current
  BY <1>2
<1>3. batches \in Seq(Seq(Nat)) /\ chain[row.record] \in Seq(Link)
  BY <1>2 DEF IInv, WellTyped
<1>4. \A tx \in inflight : /\ ~tx.awaited /\ tx.record # row.record
                           /\ \E c \in Intents(tx.record) : c.batch = tx.batch /\ Own(chain[tx.record]) = c.previous
  <2>1. \A tx \in inflight : /\ ~tx.awaited
                             /\ \E c \in Intents(tx.record) : c.batch = tx.batch /\ Own(chain[tx.record]) = c.previous
    BY <1>1 DEF IInv, FlightSane, WellTyped, TxShaped
  <2> QED
    BY <1>2, <2>1
<1>5. CASE ReadsBack
  <2>1. /\ commits' = (commits \ {row}) \cup {[row EXCEPT !.confirmed = TRUE]}
        /\ batches' = Tail(batches) /\ pc' = "commit" /\ UNCHANGED halted
    BY <1>5 DEF VerifyCommit
  <2>2. chain[row.record] = row.predicted
    BY <1>5 DEF ReadsBack
  <2>3. Own(chain[row.record]) = row.predicted /\ IsPrefix(row.predicted, chain[row.record]) /\ ~Mixed(row.record)
    <3>1. IsPrefix(row.predicted, chain[row.record])
      BY <1>2, <2>2, PrefixIs
    <3>2. ~Mixed(row.record)
      BY <1>2, <2>2 DEF Mixed, ToSet
    <3> QED
      BY <1>2, <3>1, <3>2
  <2>4. /\ commits' \subseteq CommitRow /\ IsFiniteSet(commits')
        /\ RowsSane' /\ RowsOrdered' /\ CoveredInOrder' /\ OwnAccounted' /\ ConfirmedOnChain'
        /\ Pending' = Pending \ {row}
        /\ \A r : r # row.record => Intents(r)' = Intents(r)
        /\ \A i : Covered(i)' <=> Covered(i)
        /\ \A r \in Records : Mixed(r)' => \E c \in Intents(r)' : Own(chain'[r]) = c.predicted
    BY <1>1, <2>1, <2>3, ConfirmFacts
  <2>5. WellTyped'
    <3>1. batches' \in Seq(Seq(Nat))
      BY <1>2, <1>3, <2>1
    <3> QED
      BY <1>1, <2>1, <2>4, <3>1 DEF IInv, WellTyped, Steps
  <2>6. ForeignSane'
    BY <1>1, <2>1, <2>4 DEF IInv, ForeignSane
  <2>7. FlightSane'
    BY <1>1, <1>4, <2>1, <2>4 DEF IInv, FlightSane
  <2>8. ReconcileSane'
    BY <1>1, <2>1 DEF IInv, ReconcileSane
  <2>9. CommitSane'
    BY <1>1, <2>1, <2>4 DEF IInv, CommitSane, Underway
  <2>10. PlanSane'
    BY <1>1, <1>2, <2>1, <2>4, PlanShift DEF IInv, Underway
  <2> QED
    BY <2>4, <2>5, <2>6, <2>7, <2>8, <2>9, <2>10 DEF IInv
<1>6. CASE ~ReadsBack
  <2>1. UNCHANGED commits /\ halted' = TRUE /\ batches' = <<>> /\ pc' = "idle"
    BY <1>6 DEF VerifyCommit
  <2>2. foreign > 0
    <3>1. foreign # 0
      <4> SUFFICES ASSUME foreign = 0 PROVE FALSE
        OBVIOUS
      <4>1. ForeignBatch \notin ToSet(chain[Current.record])
        BY <1>2 DEF IInv, ForeignSane
      <4>2. Own(chain[Current.record]) = chain[Current.record]
        BY <1>3, <4>1, OwnPure
      <4> QED
        BY <1>2, <1>6, <4>2 DEF ReadsBack
    <3> QED
      BY <3>1, FaultAssumption DEF IInv, WellTyped
  <2>3. WellTyped'
    <3>1. batches' \in Seq(Seq(Nat))
      BY <2>1
    <3> QED
      BY <1>1, <2>1, <3>1 DEF IInv, WellTyped, Steps
  <2>4. ForeignSane'
    BY <1>1, <2>1, <2>2, SameData DEF IInv, ForeignSane
  <2>5. FlightSane'
    BY <1>1, <1>4, <2>1, SameData DEF IInv, FlightSane
  <2>6. ReconcileSane'
    BY <1>1, <2>1 DEF IInv, ReconcileSane
  <2>7. CommitSane'
    BY <2>1 DEF CommitSane, Underway
  <2> QED
    BY <1>1, <2>1, <2>3, <2>4, <2>5, <2>6, <2>7, NoPlan, SameData DEF IInv
<1> QED
  BY <1>5, <1>6

\* What a batch starts from holds exactly the trades of its record that rows cover,
\* all of them before the batch.
LEMMA FrontierFacts ==
    ASSUME IInv, pc = "commit", batches # <<>>, NextRecord \notin blocked
    PROVE  /\ Intents(NextRecord) = {}
           /\ Own(chain[NextRecord]) = LocalAccumulator(NextRecord)
           /\ \A i \in DOMAIN trades : trades[i].record = NextRecord /\ i <= batches[1][Len(batches[1])] =>
                 (Covered(i) <=> i < batches[1][1]) /\ (~Covered(i) => i \in ToSet(batches[1]))
           /\ \A c \in commits : c.record = NextRecord =>
                 c.confirmed /\ c.batch.ids[Len(c.batch.ids)] < batches[1][1]
           /\ IdsOf(LocalAccumulator(NextRecord))
                 = {i \in DOMAIN trades : trades[i].record = NextRecord /\ i < batches[1][1]}
<1> DEFINE r == NextRecord
           ids == batches[1]
<1>1. ids \in Seq(Nat) /\ Uniform(ids) /\ r = RecordOf(1) /\ r \in Records
  BY NextRecordIs
<1>2. /\ Len(ids) \in Nat /\ 1 \in 1 .. Len(ids) /\ Len(ids) \in 1 .. Len(ids)
      /\ ids[1] \in DOMAIN trades /\ ids[Len(ids)] \in DOMAIN trades
      /\ ids[1] <= ids[Len(ids)] /\ ids[1] \in Nat /\ ids[Len(ids)] \in Nat
      /\ ToSet(ids) = {ids[k] : k \in 1 .. Len(ids)}
      /\ \A k \in 1 .. Len(ids) : trades[ids[k]].record = r /\ ids[1] <= ids[k]
  BY <1>1, UniformFacts DEF RecordOf, Spans
<1>3. Intents(r) = {}
  BY DEF Intents, IInv, CommitSane
<1>4. Own(chain[r]) = LocalAccumulator(r)
  BY <1>1, <1>3 DEF IInv, OwnAccounted
<1>5. /\ \A i \in ToSet(ids) : ~Covered(i)
      /\ \A i \in DOMAIN trades : trades[i].record = r /\ i <= ids[Len(ids)] /\ ~Covered(i) => i \in ToSet(ids)
  <2>1. 1 \in 1 .. Len(batches) /\ Rest(1)
    BY DEF IInv, WellTyped, Rest, Underway
  <2>2. /\ \A i \in ToSet(ids) : ~Covered(i)
        /\ \A i \in DOMAIN trades : trades[i].record = r /\ i <= ids[Len(ids)] /\ ~Covered(i) =>
              \E j \in 1 .. 1 : Rest(j) /\ i \in ToSet(batches[j])
    BY <1>1, <2>1 DEF IInv, PlanSane, BatchesGapless
  <2> QED
    BY <2>2
<1> HIDE DEF r, ids
<1>6. ASSUME NEW i \in DOMAIN trades, trades[i].record = r, Covered(i) PROVE i < ids[1]
  <2>1. ids[1] \in ToSet(ids) /\ ~Covered(ids[1]) /\ trades[ids[1]].record = r
    BY <1>2, <1>5
  <2>2. i # ids[1] /\ ~ (ids[1] < i)
    BY <1>2, <1>6, <2>1 DEF IInv, CoveredInOrder
  <2>3. i \in Nat
    BY DEF IInv, WellTyped
  <2> QED
    BY <1>2, <2>2, <2>3
<1>7. ASSUME NEW i \in DOMAIN trades, trades[i].record = r, i <= ids[Len(ids)], ~Covered(i)
      PROVE  i \in ToSet(ids) /\ ~ (i < ids[1])
  <2>1. i \in ToSet(ids)
    BY <1>5, <1>7
  <2> PICK k \in 1 .. Len(ids) : i = ids[k]
    BY <1>2, <2>1
  <2>2. ids[1] <= i /\ i \in Nat
    BY <1>1, <1>2
  <2> QED
    BY <1>2, <2>1, <2>2
<1>8. \A c \in commits : /\ Uniform(c.batch.ids) /\ c.batch.ids \in Seq(Nat)
                         /\ c.record = trades[c.batch.ids[1]].record
                         /\ c.predicted = Append(c.previous, c.batch)
                         /\ c.previous \in Seq(Batch) /\ c.batch \in Batch
                         /\ IdsOf(c.previous)
                               = {i \in DOMAIN trades : trades[i].record = c.record /\ i < c.batch.ids[1]}
                         /\ \A i \in DOMAIN trades :
                               trades[i].record = c.record /\ Spans(c.batch.ids, i) => i \in ToSet(c.batch.ids)
  BY RowFacts DEF IInv, RowsSane, RowSane
<1>9. \A c \in commits : LET last == c.batch.ids[Len(c.batch.ids)]
                         IN  /\ last \in DOMAIN trades /\ trades[last].record = c.record /\ Covered(last)
                             /\ last \in Nat /\ c.batch.ids[1] \in Nat /\ c.batch.ids[1] <= last
  <2> SUFFICES ASSUME NEW c \in commits
               PROVE  LET last == c.batch.ids[Len(c.batch.ids)]
                      IN  /\ last \in DOMAIN trades /\ trades[last].record = c.record /\ Covered(last)
                          /\ last \in Nat /\ c.batch.ids[1] \in Nat /\ c.batch.ids[1] <= last
    OBVIOUS
  <2> DEFINE last == c.batch.ids[Len(c.batch.ids)]
  <2>1. /\ last \in DOMAIN trades /\ trades[last].record = c.record /\ last \in Nat
        /\ c.batch.ids[1] \in Nat /\ c.batch.ids[1] <= last
    BY <1>8, UniformFacts
  <2>2. Covered(last)
    BY <2>1, CoveredIs DEF IInv, Spans
  <2> QED
    BY <2>1, <2>2
<1>10. ASSUME NEW c \in commits, c.record = r
       PROVE  c.confirmed /\ c.batch.ids[Len(c.batch.ids)] < ids[1]
  <2>1. c.confirmed
    BY <1>3, <1>10 DEF Intents, Pending
  <2>2. c.batch.ids[Len(c.batch.ids)] < ids[1]
    BY <1>6, <1>9, <1>10
  <2> QED
    BY <2>1, <2>2
<1>11. IdsOf(LocalAccumulator(r)) = {i \in DOMAIN trades : trades[i].record = r /\ i < ids[1]}
  <2>1. \A i \in DOMAIN trades : trades[i].record = r /\ i < ids[1] =>
           \E c \in Confirmed(r) : Spans(c.batch.ids, i)
    <3> SUFFICES ASSUME NEW i \in DOMAIN trades, trades[i].record = r, i < ids[1]
                 PROVE  \E c \in Confirmed(r) : Spans(c.batch.ids, i)
      OBVIOUS
    <3>1. i \in Nat
      BY DEF IInv, WellTyped
    <3>2. i <= ids[Len(ids)]
      BY <1>2, <3>1
    <3>3. Covered(i)
      BY <1>7, <3>2
    <3> PICK c \in commits : c.record = trades[i].record /\ Spans(c.batch.ids, i)
      BY <3>3, CoveredIs DEF IInv
    <3>4. c \in Confirmed(r)
      BY <1>10 DEF Confirmed
    <3> QED
      BY <3>4
  <2>2. CASE Confirmed(r) = {}
    <3>1. LocalAccumulator(r) = <<>>
      BY <1>1, <2>2, LocalFacts DEF IInv
    <3>2. IdsOf(<<>>) = {}
      BY DEF IdsOf
    <3> QED
      BY <2>1, <2>2, <3>1, <3>2
  <2>3. CASE Confirmed(r) # {}
    <3> PICK m \in Confirmed(r) : LocalAccumulator(r) = m.predicted /\ \A d \in Confirmed(r) : d = m \/ d.id < m.id
      BY <1>1, <2>3, LocalFacts DEF IInv
    <3> DEFINE first == m.batch.ids[1]
               last == m.batch.ids[Len(m.batch.ids)]
    <3>1. /\ m \in commits /\ m.record = r
          /\ first \in Nat /\ last \in Nat /\ first <= last /\ last < ids[1]
          /\ last \in DOMAIN trades
      BY <1>9, <1>10 DEF Confirmed
    <3>2. IdsOf(LocalAccumulator(r)) = IdsOf(m.previous) \cup ToSet(m.batch.ids)
      <4>1. LocalAccumulator(r) = Append(m.previous, m.batch) /\ m.previous \in Seq(Batch) /\ m.batch \in Batch
        BY <1>8, <3>1
      <4>2. IdsOf(Append(m.previous, m.batch)) = IdsOf(m.previous) \cup ToSet(m.batch.ids)
        BY <4>1, IdsOfAppend
      <4> QED
        BY <4>1, <4>2
    <3>3. /\ IdsOf(m.previous) = {i \in DOMAIN trades : trades[i].record = r /\ i < first}
          /\ \A i \in DOMAIN trades : trades[i].record = r /\ first <= i /\ i <= last => i \in ToSet(m.batch.ids)
          /\ \A i \in ToSet(m.batch.ids) : i \in DOMAIN trades /\ trades[i].record = r /\ i <= last /\ i \in Nat
      <4>1. \A i \in ToSet(m.batch.ids) : i \in DOMAIN trades /\ trades[i].record = r /\ i <= last /\ i \in Nat
        BY <1>8, <3>1, UniformFacts DEF Spans
      <4> QED
        BY <1>8, <3>1, <4>1 DEF Spans
    <3> HIDE DEF first, last
    <3>4. \A i \in DOMAIN trades : trades[i].record = r /\ i < ids[1] => i <= last /\ i \in Nat
      <4> SUFFICES ASSUME NEW i \in DOMAIN trades, trades[i].record = r, i < ids[1] PROVE i <= last /\ i \in Nat
        OBVIOUS
      <4>1. i \in Nat
        BY DEF IInv, WellTyped
      <4> PICK c \in Confirmed(r) : Spans(c.batch.ids, i)
        BY <2>1
      <4>2. c \in commits /\ c.record = r
        BY DEF Confirmed
      <4>3. CASE c = m
        BY <4>1, <4>3 DEF Spans, last
      <4>4. CASE c.id < m.id
        <5>1. c.batch.ids[Len(c.batch.ids)] < first
          BY <3>1, <4>2, <4>4 DEF IInv, RowsOrdered, first
        <5>2. i <= c.batch.ids[Len(c.batch.ids)] /\ c.batch.ids[Len(c.batch.ids)] \in Nat
          BY <1>9, <4>2 DEF Spans
        <5> QED
          BY <3>1, <4>1, <5>1, <5>2
      <4> QED
        BY <4>3, <4>4
    <3>5. ASSUME NEW i PROVE i \in IdsOf(LocalAccumulator(r)) <=> i \in DOMAIN trades /\ trades[i].record = r /\ i < ids[1]
      <4>1. ASSUME i \in IdsOf(LocalAccumulator(r)) PROVE i \in DOMAIN trades /\ trades[i].record = r /\ i < ids[1]
        <5>1. i \in DOMAIN trades /\ trades[i].record = r /\ (i < first \/ i <= last)
          BY <3>2, <3>3, <4>1
        <5>2. i \in Nat
          BY <5>1 DEF IInv, WellTyped
        <5> QED
          BY <1>2, <3>1, <5>1, <5>2
      <4>2. ASSUME i \in DOMAIN trades, trades[i].record = r, i < ids[1] PROVE i \in IdsOf(LocalAccumulator(r))
        BY <3>1, <3>2, <3>3, <3>4, <4>2
      <4> QED
        BY <4>1, <4>2
    <3> QED
      BY <3>5
  <2> QED
    BY <2>2, <2>3
<1>12. \A i \in DOMAIN trades : trades[i].record = r /\ i <= ids[Len(ids)] =>
          (Covered(i) <=> i < ids[1]) /\ (~Covered(i) => i \in ToSet(ids))
  BY <1>6, <1>7
<1> QED
  BY <1>3, <1>4, <1>10, <1>11, <1>12 DEF r, ids

LEMMA RecordIntentKeeps == ASSUME IInv, RecordIntent PROVE IInv'
<1> PICK r : r = NextRecord
  OBVIOUS
<1> DEFINE ids == batches[1]
           batch == [ids |-> ids, version |-> trades[ids[1]].version]
           previous == LocalAccumulator(r)
           new == [id |-> NextRowId, record |-> r, batch |-> batch, previous |-> previous,
                   predicted |-> Append(previous, batch), confirmed |-> FALSE]
<1>1. /\ pc = "commit" /\ batches # <<>> /\ r \notin blocked /\ pc' = "send"
      /\ UNCHANGED <<trades, chain, closed, inflight, todo, seen, batches, blocked, awaiting, halted, faults, foreign>>
  BY DEF RecordIntent, solana, pass, bounds
<1>2. ids \in Seq(Nat) /\ Uniform(ids) /\ r = RecordOf(1) /\ r \in Records /\ Head(batches) = ids /\ Head(ids) = ids[1]
  BY <1>1, NextRecordIs, UniformFacts
<1>3. commits' = commits \cup {new} /\ \A i \in ToSet(ids) : trades[i].sound
  BY <1>2 DEF RecordIntent
<1>4. /\ Len(ids) \in Nat /\ 1 \in 1 .. Len(ids) /\ Len(ids) \in 1 .. Len(ids) /\ Last(ids) = ids[Len(ids)]
      /\ ids[1] \in DOMAIN trades /\ ids[Len(ids)] \in DOMAIN trades
      /\ ids[1] <= ids[Len(ids)] /\ ids[1] \in Nat /\ ids[Len(ids)] \in Nat
      /\ ToSet(ids) = {ids[k] : k \in 1 .. Len(ids)}
      /\ \A k \in 1 .. Len(ids) : trades[ids[k]].record = r /\ Spans(ids, ids[k]) /\ ids[k] \in DOMAIN trades
  BY <1>2, UniformFacts DEF RecordOf
<1>5. /\ Intents(r) = {}
      /\ Own(chain[r]) = previous
      /\ \A i \in DOMAIN trades : trades[i].record = r /\ i <= ids[Len(ids)] =>
            (Covered(i) <=> i < ids[1]) /\ (~Covered(i) => i \in ToSet(ids))
      /\ \A c \in commits : c.record = r => c.confirmed /\ c.batch.ids[Len(c.batch.ids)] < ids[1]
      /\ IdsOf(previous) = {i \in DOMAIN trades : trades[i].record = r /\ i < ids[1]}
  BY <1>1, FrontierFacts
<1>6. previous \in Seq(Batch) /\ ForeignBatch \notin ToSet(previous)
  BY <1>2, LocalFacts DEF IInv
<1>7. trades[ids[1]].version \in Versions
  <2>1. trades \in Seq(Trade)
    BY DEF IInv, WellTyped
  <2>2. trades[ids[1]] \in Trade
    BY <1>4, <2>1
  <2> QED
    BY <2>2 DEF Trade
<1>8. /\ NextRowId \in Nat /\ \A c \in commits : c.id \in Nat /\ c.id < NextRowId
  <2>1. CASE commits = {}
    BY <2>1 DEF NextRowId
  <2>2. CASE commits # {}
    <3>1. Current \in commits /\ \A d \in commits : d = Current \/ d.id < Current.id
      BY <2>2, CurrentFacts DEF IInv
    <3>2. NextRowId = Current.id + 1
      BY <2>2 DEF NextRowId, Current
    <3>3. \A c \in commits : c.id \in Nat
      BY RowFacts DEF IInv
    <3> QED
      BY <3>1, <3>2, <3>3
  <2> QED
    BY <2>1, <2>2
<1> HIDE DEF ids, previous
<1>9. /\ batch \in Batch /\ batch.ids = ids /\ batch.version = trades[ids[1]].version
      /\ Append(previous, batch) \in Seq(Batch)
  BY <1>2, <1>6, <1>7 DEF Batch
<1>10. /\ new.id = NextRowId /\ new.record = r /\ new.batch.ids = ids /\ new.batch = batch /\ new.previous = previous
       /\ new.predicted = Append(previous, batch) /\ ~new.confirmed /\ new \in CommitRow
  BY <1>2, <1>6, <1>8, <1>9 DEF CommitRow
<1> HIDE DEF new, batch
<1>11. WellTyped'
  <2>1. commits' \subseteq CommitRow /\ IsFiniteSet(commits')
    BY <1>3, <1>10, FS_AddElement DEF IInv, WellTyped
  <2> QED
    BY <1>1, <2>1 DEF IInv, WellTyped, Steps
<1>12. \A id : Uniform(id)' <=> Uniform(id)
  BY <1>1 DEF Uniform
<1>13. RowsSane'
  <2>1. \A c : RowSane(c)' <=> RowSane(c)
    BY <1>1, <1>12 DEF RowSane
  <2>2. RowSane(new)
    <3>1. \A i \in DOMAIN trades : trades[i].record = r /\ Spans(ids, i) => i \in ToSet(ids)
      <4> SUFFICES ASSUME NEW i \in DOMAIN trades, trades[i].record = r, Spans(ids, i) PROVE i \in ToSet(ids)
        OBVIOUS
      <4>1. i \in Nat
        BY DEF IInv, WellTyped
      <4>2. i <= ids[Len(ids)] /\ ~ (i < ids[1])
        BY <1>4, <4>1 DEF Spans
      <4> QED
        BY <1>5, <4>2
    <3>2. \A k \in 1 .. Len(ids) : trades[ids[k]].sound
      BY <1>3, <1>4
    <3>3. r = trades[ids[1]].record
      BY <1>4
    <3> QED
      BY <1>2, <1>5, <1>6, <1>9, <1>10, <3>1, <3>2, <3>3 DEF RowSane
  <2> QED
    BY <1>3, <2>1, <2>2 DEF IInv, RowsSane
<1>14. RowsOrdered'
  <2>1. ASSUME NEW c \in commits', NEW d \in commits', c.id = d.id PROVE c = d
    BY <1>3, <1>8, <1>10, <2>1 DEF IInv, RowsOrdered
  <2>2. ASSUME NEW c \in commits', NEW d \in commits', c.record = d.record, c.id < d.id
        PROVE  c.confirmed /\ c.batch.ids[Len(c.batch.ids)] < d.batch.ids[1]
    <3>1. CASE c = new
      <4>1. c.id \in Nat /\ d.id \in Nat /\ (d = new \/ d.id < c.id)
        BY <1>3, <1>8, <1>10, <3>1
      <4> QED
        BY <2>2, <3>1, <4>1
    <3>2. CASE c \in commits /\ d = new
      BY <1>5, <1>10, <2>2, <3>2
    <3>3. CASE c \in commits /\ d \in commits
      BY <2>2, <3>3 DEF IInv, RowsOrdered
    <3> QED
      BY <1>3, <3>1, <3>2, <3>3
  <2> QED
    BY <2>1, <2>2 DEF RowsOrdered
<1>15. \A i : Covered(i)' <=> Covered(i) \/ (trades[i].record = r /\ ids[1] <= i /\ i <= ids[Len(ids)])
  BY <1>1, <1>2, <1>3, <1>4, <1>10 DEF Covered
<1>16. CoveredInOrder'
  <2> SUFFICES ASSUME NEW i \in DOMAIN trades, NEW j \in DOMAIN trades,
                      trades[i].record = trades[j].record, i < j, Covered(j)'
               PROVE  Covered(i)'
    BY <1>1 DEF CoveredInOrder
  <2>1. i \in Nat /\ j \in Nat
    BY DEF IInv, WellTyped
  <2>2. CASE Covered(j)
    <3>1. Covered(i)
      BY <2>2 DEF IInv, CoveredInOrder
    <3> QED
      BY <1>15, <3>1
  <2>3. CASE trades[j].record = r /\ ids[1] <= j /\ j <= ids[Len(ids)]
    <3>1. trades[i].record = r /\ i <= ids[Len(ids)]
      BY <1>4, <2>1, <2>3
    <3>2. Covered(i) \/ ids[1] <= i
      BY <1>4, <1>5, <2>1, <3>1
    <3> QED
      BY <1>15, <3>1, <3>2
  <2> QED
    BY <1>15, <2>2, <2>3
<1>17. /\ Pending' = Pending \cup {new}
       /\ Intents(r)' = {new}
       /\ \A x : x # r => Intents(x)' = Intents(x)
       /\ \A x : LocalAccumulator(x)' = LocalAccumulator(x)
  <2>1. Pending' = Pending \cup {new}
    BY <1>3, <1>10 DEF Pending
  <2>2. \A x : Intents(x)' = {c \in Pending \cup {new} : c.record = x}
    BY <2>1 DEF Intents
  <2>3. Intents(r)' = {new}
    <3>1. Intents(r)' = {c \in Pending \cup {new} : c.record = r}
      BY <2>2
    <3>2. \A c \in Pending : c.record # r
      BY <1>5 DEF Intents
    <3> QED
      BY <1>10, <3>1, <3>2
  <2>6. ASSUME NEW x, x # r PROVE Intents(x)' = Intents(x)
    <3>1. Intents(x)' = {c \in Pending \cup {new} : c.record = x}
      BY <2>2
    <3> QED
      BY <1>10, <2>6, <3>1 DEF Intents
  <2>4. \A x : Confirmed(x)' = Confirmed(x)
    BY <1>3, <1>10 DEF Confirmed
  <2>5. \A x : LocalAccumulator(x)' = LocalAccumulator(x)
    BY <2>4 DEF LocalAccumulator
  <2> QED
    BY <2>1, <2>3, <2>5, <2>6
<1>18. OwnAccounted'
  <2>1. \A x \in Records :
           /\ Intents(x)' = {} => Own(chain'[x]) = LocalAccumulator(x)'
           /\ \A c \in Intents(x)' : c.previous = LocalAccumulator(x)' /\ Own(chain'[x]) \in {c.previous, c.predicted}
    <3>1. \A x \in Records : x # r =>
             /\ Intents(x)' = {} => Own(chain'[x]) = LocalAccumulator(x)'
             /\ \A c \in Intents(x)' : c.previous = LocalAccumulator(x)' /\ Own(chain'[x]) \in {c.previous, c.predicted}
      BY <1>1, <1>17 DEF IInv, OwnAccounted
    <3>2. new.previous = LocalAccumulator(r)' /\ Own(chain'[r]) = new.previous
      BY <1>1, <1>5, <1>10, <1>17 DEF previous
    <3> QED
      BY <1>17, <3>1, <3>2
  <2> QED
    BY <2>1 DEF OwnAccounted
<1>19. ConfirmedOnChain'
  BY <1>1, <1>3, <1>10 DEF IInv, ConfirmedOnChain
<1>20. ForeignSane'
  <2>1. \A x : Mixed(x)' <=> Mixed(x)
    BY <1>1 DEF Mixed
  <2>2. ~Mixed(r)
    BY <1>2, <1>5 DEF IInv, ForeignSane
  <2>3. \A x \in Records : Mixed(x)' => \E c \in Intents(x)' : Own(chain'[x]) = c.predicted
    BY <1>1, <1>17, <2>1, <2>2 DEF IInv, ForeignSane
  <2>4. halted' => foreign' > 0 /\ pc' = "idle"
    BY <1>1 DEF IInv, ForeignSane
  <2> QED
    BY <1>1, <2>3, <2>4 DEF IInv, ForeignSane
<1>21. Current' = new
  <2>1. \A c \in commits' : c.id \in Nat /\ c.id <= new.id
    BY <1>3, <1>8, <1>10
  <2>2. \A c, d \in commits' : c.id = d.id => c = d
    BY <1>14 DEF RowsOrdered
  <2>3. Newest(commits') = new
    BY <1>3, <2>1, <2>2, NewestUnique
  <2> QED
    BY <2>3 DEF Current
<1>22. FlightSane'
  <2>1. \A tx \in inflight : /\ \E c \in Intents(tx.record) : c.batch = tx.batch /\ Own(chain[tx.record]) = c.previous
                             /\ ~tx.awaited
    BY <1>1 DEF IInv, FlightSane, WellTyped, TxShaped
  <2>2. \A tx \in inflight : tx.record # r
    BY <1>5, <2>1
  <2>3. Own(chain[r]) = new.previous
    BY <1>5, <1>10
  <2> QED
    BY <1>1, <1>10, <1>17, <1>21, <2>1, <2>2, <2>3 DEF IInv, FlightSane
<1>23. ReconcileSane'
  BY <1>1 DEF IInv, ReconcileSane
<1>24. CommitSane'
  BY <1>1, <1>10, <1>17, <1>21 DEF IInv, CommitSane, Underway, ids
<1>25. BatchesUniform' /\ BatchesOrdered'
  <2>1. \A k : RecordOf(k)' = RecordOf(k)
    BY <1>1 DEF RecordOf
  <2> QED
    BY <1>1, <1>12, <2>1 DEF IInv, PlanSane, BatchesUniform, BatchesOrdered
<1>26. BatchesGapless'
  <2>1. \A k : (Rest(k)' <=> k \in 1 .. Len(batches) /\ k > 1) /\ (Rest(k) <=> k \in 1 .. Len(batches))
              /\ RecordOf(k)' = RecordOf(k)
    BY <1>1 DEF Rest, RecordOf, Underway
  <2>2. ASSUME NEW k \in 1 .. Len(batches), k > 1, NEW i \in ToSet(batches[k]) PROVE ~Covered(i)'
    <3>1. ~Covered(i)
      BY <2>1, <2>2 DEF IInv, PlanSane, BatchesGapless
    <3>2. trades[i].record = r => ids[Len(ids)] < i
      <4> SUFFICES ASSUME trades[i].record = r PROVE ids[Len(ids)] < i
        OBVIOUS
      <4>1. batches[k] \in Seq(Nat) /\ Uniform(batches[k])
        BY DEF IInv, WellTyped, PlanSane, BatchesUniform
      <4>2. /\ trades[i].record = trades[batches[k][1]].record
            /\ batches[k][1] <= i /\ i \in Nat /\ batches[k][1] \in Nat
        BY <4>1, UniformFacts DEF Spans
      <4>3. RecordOf(1) = RecordOf(k) /\ 1 \in 1 .. Len(batches) /\ 1 < k
        BY <1>2, <2>2, <4>2 DEF RecordOf
      <4>4. ids[Len(ids)] < batches[k][1]
        BY <4>3 DEF IInv, PlanSane, BatchesOrdered, ids
      <4> QED
        BY <1>4, <4>2, <4>4
    <3>3. i \in Nat
      <4>1. batches[k] \in Seq(Nat) /\ Uniform(batches[k])
        BY DEF IInv, WellTyped, PlanSane, BatchesUniform
      <4> QED
        BY <4>1, UniformFacts
    <3> QED
      BY <1>4, <1>15, <3>1, <3>2, <3>3
  <2>3. ASSUME NEW k \in 1 .. Len(batches), k > 1, RecordOf(k) \notin blocked, NEW i \in DOMAIN trades,
               trades[i].record = RecordOf(k), i <= batches[k][Len(batches[k])], ~Covered(i)'
        PROVE  \E j \in 1 .. k : j \in 1 .. Len(batches) /\ j > 1 /\ i \in ToSet(batches[j])
    <3>1. ~Covered(i)
      BY <1>15, <2>3
    <3> PICK j \in 1 .. k : i \in ToSet(batches[j])
      BY <2>1, <2>3, <3>1 DEF IInv, PlanSane, BatchesGapless
    <3>2. j # 1
      <4> SUFFICES ASSUME j = 1 PROVE FALSE
        OBVIOUS
      <4>1. i \in ToSet(ids)
        BY DEF ids
      <4>2. trades[i].record = r /\ ids[1] <= i /\ i <= ids[Len(ids)]
        BY <1>4, <4>1 DEF Spans
      <4> QED
        BY <1>15, <2>3, <4>2
    <3>3. j \in 1 .. Len(batches) /\ j > 1
      BY <3>2
    <3> QED
      BY <3>3
  <2> QED
    BY <1>1, <2>1, <2>2, <2>3 DEF BatchesGapless
<1> QED
  BY <1>11, <1>13, <1>14, <1>16, <1>18, <1>19, <1>20, <1>22, <1>23, <1>24, <1>25, <1>26 DEF IInv, PlanSane

LEMMA StutterKeeps == ASSUME IInv, UNCHANGED vars PROVE IInv'
<1>1. /\ UNCHANGED <<trades, commits, chain, closed, inflight, pc, todo, seen, batches, blocked>>
      /\ UNCHANGED <<awaiting, halted, faults, foreign>>
  BY DEF vars, database, solana, pass, bounds
<1>2. WellTyped'
  BY <1>1 DEF IInv, WellTyped, TxShaped
<1>3. ForeignSane' /\ FlightSane'
  BY <1>1, SameData DEF IInv, ForeignSane, FlightSane
<1>4. ReconcileSane' /\ CommitSane'
  BY <1>1, SameData DEF IInv, ReconcileSane, CommitSane
<1>5. PlanSane'
  BY <1>1, SameRows DEF IInv
<1> QED
  BY <1>1, <1>2, <1>3, <1>4, <1>5, SameData DEF IInv

LEMMA StartsSane == Init => IInv
<1> SUFFICES ASSUME Init PROVE IInv
  OBVIOUS
<1> USE DEF Init
<1>1. \A r \in Records : chain[r] = <<>>
  OBVIOUS
<1>2. WellTyped
  <2>1. trades \in Seq(Trade) /\ todo \in Seq(CommitRow) /\ seen \in Seq(Link) /\ batches \in Seq(Seq(Nat))
    OBVIOUS
  <2>2. chain \in [Records -> Seq(Link)]
    OBVIOUS
  <2>3. IsFiniteSet(commits)
    BY FS_EmptySet
  <2>4. commits \subseteq CommitRow /\ closed \subseteq Records /\ blocked \subseteq Records
        /\ (\A tx \in inflight : TxShaped(tx)) /\ halted \in BOOLEAN
    OBVIOUS
  <2>5. pc \in Steps /\ awaiting \in {"nothing", "inflight", "landed", "failed"}
    BY DEF Steps
  <2>6. faults \in 0 .. FaultBound /\ foreign \in 0 .. ForeignBound
    BY FaultAssumption
  <2> QED
    BY <2>1, <2>2, <2>3, <2>4, <2>5, <2>6 DEF WellTyped
<1>3. Pending = {} /\ \A r : Intents(r) = {} /\ Confirmed(r) = {} /\ LocalAccumulator(r) = <<>>
  BY DEF Pending, Intents, Confirmed, LocalAccumulator
<1>4. RowsSane /\ RowsOrdered /\ ConfirmedOnChain /\ CoveredInOrder
  BY DEF RowsSane, RowsOrdered, ConfirmedOnChain, CoveredInOrder
<1>5. OwnAccounted
  BY <1>1, <1>3, OwnEmpty DEF OwnAccounted
<1>6. ForeignSane
  <2>1. ToSet(<<>>) = {} /\ DOMAIN <<>> = {}
    BY DEF ToSet
  <2>2. \A r \in Records : ForeignBatch \notin ToSet(chain[r]) /\ DOMAIN chain[r] = {} /\ ForeignBatch \notin ToSet(seen)
    BY <1>1, <2>1
  <2> QED
    BY <2>1, <2>2 DEF ForeignSane, Mixed
<1>7. FlightSane /\ ReconcileSane /\ CommitSane
  BY <1>3 DEF FlightSane, ReconcileSane, CommitSane, Underway
<1>8. PlanSane
  BY DEF PlanSane, BatchesUniform, BatchesOrdered, BatchesGapless
<1> QED
  BY <1>2, <1>4, <1>5, <1>6, <1>7, <1>8 DEF IInv

\* While no transaction outlives the pass that sent it, every step of the keeper and of the
\* world around it keeps rows, chain and plan in agreement (keeper.ts, runner.ts).
THEOREM Invariance == ASSUME ~LateLanding PROVE Spec => []IInv
<1>1. IInv /\ [Next]_vars => IInv'
  <2> SUFFICES ASSUME IInv, [Next]_vars PROVE IInv'
    OBVIOUS
  <2>1. CASE \E r \in Records, version \in Versions, sound \in BOOLEAN : RecordTrade(r, version, sound)
    BY <2>1, RecordTradeKeeps
  <2>2. CASE \E r \in Records : CloseRecord(r) \/ CommitForeign(r)
    BY <2>2, CloseRecordKeeps, CommitForeignKeeps
  <2>3. CASE \E tx \in inflight : Land(tx) \/ FailOnChain(tx) \/ Expire(tx)
    BY <2>3, LandKeeps, FailOnChainKeeps, ExpireKeeps
  <2>4. CASE StartPass \/ ReconcileRead \/ SettleIntent \/ Plan
    BY <2>4, StartPassKeeps, ReconcileReadKeeps, SettleIntentKeeps, PlanKeeps
  <2>5. CASE SkipBatch \/ RefuseBatch \/ RecordIntent \/ Send
    BY <2>5, SkipBatchKeeps, RefuseBatchKeeps, RecordIntentKeeps, SendKeeps
  <2>6. CASE CommitRefused \/ CommitUnknown \/ ConfirmLanded \/ VerifyCommit
    BY <2>6, CommitRefusedKeeps, CommitUnknownKeeps, ConfirmLandedKeeps, VerifyCommitKeeps
  <2>7. CASE EndPass \/ ReadFails \/ Crash
    BY <2>7, EndPassKeeps, ReadFailsKeeps, CrashKeeps
  <2>8. CASE UNCHANGED vars
    BY <2>8, StutterKeeps
  <2> QED
    BY <2>1, <2>2, <2>3, <2>4, <2>5, <2>6, <2>7, <2>8 DEF Next
<1> QED
  BY <1>1, StartsSane, PTL DEF Spec

(***************************************************************************)
(* What it gives                                                           *)
(***************************************************************************)

LEMMA IInvTyped == IInv => TypeOK
<1> SUFFICES ASSUME IInv PROVE TypeOK
  OBVIOUS
<1> USE DEF IInv
<1>1. commits \subseteq Row
  <2> SUFFICES ASSUME NEW c \in commits PROVE c \in Row
    OBVIOUS
  <2> DEFINE Old == [ids : Seq(Nat), version : Nat]
  <2>1. Batch \subseteq Old
    BY VersionAssumption DEF Batch
  <2>2. c \in CommitRow
    BY DEF WellTyped
  <2>3. c.previous \in Seq(Batch) /\ c.predicted \in Seq(Batch)
    BY RowFacts
  <2> HIDE DEF Old
  <2>4. c.previous \in Seq(Old) /\ c.predicted \in Seq(Old)
    BY <2>1, <2>3, SeqOfMore
  <2> QED
    BY <2>2, <2>4 DEF CommitRow, Row, Batch, Old
<1>2. \A tx \in inflight : tx.record \in Records /\ tx.awaited \in BOOLEAN
  BY DEF WellTyped, TxShaped
<1>3. \A tx1, tx2 \in inflight : tx1.awaited /\ tx2.awaited => tx1 = tx2
  BY DEF FlightSane
<1>4. ToSet(todo) \subseteq Pending
  <2>1. ToSet(todo) = {todo[k] : k \in 1 .. Len(todo)}
    BY DEF ToSet, WellTyped
  <2>2. CASE pc \in {"reconcile", "settle"}
    BY <2>1, <2>2 DEF ReconcileSane
  <2>3. CASE pc \notin {"reconcile", "settle"}
    <3>1. todo = <<>> /\ ToSet(<<>>) = {}
      BY <2>3 DEF ReconcileSane, ToSet
    <3> QED
      BY <3>1
  <2> QED
    BY <2>2, <2>3
<1>5. \A k \in DOMAIN batches : batches[k] # <<>> /\ ToSet(batches[k]) \subseteq DOMAIN trades
  <2> SUFFICES ASSUME NEW k \in DOMAIN batches PROVE batches[k] # <<>> /\ ToSet(batches[k]) \subseteq DOMAIN trades
    OBVIOUS
  <2>0. batches \in Seq(Seq(Nat)) /\ k \in 1 .. Len(batches)
    BY DEF WellTyped
  <2>1. batches[k] \in Seq(Nat) /\ Uniform(batches[k])
    BY <2>0 DEF PlanSane, BatchesUniform
  <2>2. \A j \in 1 .. Len(batches[k]) : batches[k][j] \in DOMAIN trades
    BY <2>1, UniformFacts
  <2>3. ToSet(batches[k]) = {batches[k][j] : j \in 1 .. Len(batches[k])}
    BY <2>1, UniformFacts
  <2> QED
    BY <2>1, <2>2, <2>3 DEF Uniform
<1> QED
  BY <1>1, <1>2, <1>3, <1>4, <1>5 DEF TypeOK, WellTyped, Trade, Steps

\* A trader's accumulator is always what the keeper's rows predict (keeper.ts:94-97).
THEOREM AlwaysAccounted == ASSUME ~LateLanding PROVE Spec => []ChainAccounted
<1>1. IInv => ChainAccounted
  <2> SUFFICES ASSUME IInv PROVE ChainAccounted
    OBVIOUS
  <2>1. TypeOK
    BY IInvTyped
  <2>2. ASSUME NEW r \in Records, ForeignBatch \notin ToSet(chain[r]) PROVE Accounted(r)
    <3>1. chain[r] \in Seq(Link)
      BY DEF IInv, WellTyped
    <3>2. Own(chain[r]) = chain[r]
      BY <2>2, <3>1, OwnPure
    <3>3. \A c \in Intents(r) : Intents(r) = {c}
      BY IntentsOf, IntentFacts DEF IInv
    <3> QED
      BY <3>2, <3>3 DEF IInv, OwnAccounted, Accounted
  <2> QED
    BY <2>1, <2>2 DEF ChainAccounted, IInv, ConfirmedOnChain
<1> QED
  BY <1>1, Invariance, PTL

\* Only a foreign write stops the keeper, and it then adds at most the batch it may
\* have had on its way (keeper.ts:131-134).
THEOREM OnlyForeignHalts == ASSUME ~LateLanding PROVE Spec => []HaltsForForeignOnly
<1>1. IInv => HaltsForForeignOnly
  <2> SUFFICES ASSUME IInv PROVE HaltsForForeignOnly
    OBVIOUS
  <2>1. halted => foreign > 0
    BY DEF IInv, ForeignSane
  <2>2. ASSUME NEW r \in Records, NEW i \in DOMAIN chain[r], NEW j \in DOMAIN chain[r], NEW k \in DOMAIN chain[r],
               i < j, j < k, chain[r][i] = ForeignBatch
        PROVE  ForeignBatch \in {chain[r][j], chain[r][k]}
    BY <2>2 DEF IInv, ForeignSane
  <2> QED
    BY <2>1, <2>2 DEF HaltsForForeignOnly
<1> QED
  BY <1>1, Invariance, PTL

\* The range of ids a row claims is exactly its batch (commits.ts:33-36, leaves.ts:144-159).
THEOREM RangesAreBatches == ASSUME ~LateLanding PROVE Spec => []RangeIsBatch
<1>1. IInv => RangeIsBatch
  <2> SUFFICES ASSUME IInv, NEW c \in commits, NEW i \in Head(c.batch.ids) .. Last(c.batch.ids),
                      trades[i].record = c.record
               PROVE  i \in ToSet(c.batch.ids)
    BY DEF RangeIsBatch
  <2> DEFINE ids == c.batch.ids
  <2>1. RowSane(c) /\ ids \in Seq(Nat) /\ Uniform(ids)
    BY RowFacts DEF IInv, RowsSane, RowSane
  <2>2. /\ Head(ids) = ids[1] /\ Last(ids) = ids[Len(ids)]
        /\ ids[1] \in DOMAIN trades /\ ids[Len(ids)] \in DOMAIN trades
        /\ ids[1] \in Nat /\ ids[Len(ids)] \in Nat
    BY <2>1, UniformFacts
  <2>3. i \in DOMAIN trades /\ Spans(ids, i)
    BY <2>2 DEF IInv, WellTyped, Spans
  <2> QED
    BY <2>1, <2>3 DEF RowSane
<1> QED
  BY <1>1, Invariance, PTL

(***************************************************************************)
(* The keeper implements the sealed log                                    *)
(***************************************************************************)

LEMMA SealedAscending ==
    /\ \A S : Sealed!Ascending(S) = Ascending(S)
    /\ \A s : Sealed!ToSet(s) = ToSet(s)
<1>1. \A S : Sealed!Cardinality(S) = Cardinality(S)
  BY DEF Sealed!Cardinality, Cardinality
<1>2. \A S, R, x : Sealed!Below(S, R, x) = Below(S, R, x)
  BY DEF Sealed!Below, Below
<1>3. \A S, R : Sealed!OrderedBy(S, R) = OrderedBy(S, R)
  <2> SUFFICES ASSUME NEW S, NEW R PROVE Sealed!OrderedBy(S, R) = OrderedBy(S, R)
    OBVIOUS
  <2>1. Sealed!Cardinality(S) = Cardinality(S)
    BY <1>1
  <2>2. \A x : Sealed!Cardinality(Sealed!Below(S, R, x)) = Cardinality(Below(S, R, x))
    BY <1>1, <1>2
  <2> QED
    BY <2>1, <2>2 DEF Sealed!OrderedBy, OrderedBy
<1>4. \A S : Sealed!Ascending(S) = Ascending(S)
  BY <1>3 DEF Sealed!Ascending, Ascending
<1>5. \A s : Sealed!ToSet(s) = ToSet(s)
  BY DEF Sealed!ToSet, ToSet
<1> QED
  BY <1>4, <1>5

LEMMA NothingSealed == ASSUME UNCHANGED <<trades, chain>> PROVE UNCHANGED Sealed!vars
BY DEF Sealed!vars, OwnChain

\* Somebody else's write adds nothing to what the keeper sealed.
LEMMA ForeignSealsNothing ==
    ASSUME IInv, NEW r \in Records, CommitForeign(r)
    PROVE  UNCHANGED Sealed!vars
<1>1. /\ chain' = [chain EXCEPT ![r] = Append(chain[r], ForeignBatch)]
      /\ trades' = trades
  BY DEF CommitForeign, database
<1>2. chain \in [Records -> Seq(Link)] /\ ForeignBatch \in Link
  BY DEF IInv, WellTyped, Link
<1>3. Own(Append(chain[r], ForeignBatch)) = Own(chain[r])
  BY <1>2, OwnAppend
<1>4. \A x \in Records : Own(chain'[x]) = Own(chain[x])
  <2>1. \A x \in Records : chain'[x] = IF x = r THEN Append(chain[r], ForeignBatch) ELSE chain[x]
    BY <1>1, <1>2
  <2> QED
    BY <1>3, <2>1
<1> QED
  BY <1>1, <1>4 DEF Sealed!vars, OwnChain

\* A transaction that lands seals the first unsealed trades of its record.
LEMMA LandSeals == ASSUME IInv, NEW tx \in inflight, Land(tx) PROVE Sealed!Next
<1> PICK r : r = tx.record
  OBVIOUS
<1> PICK c \in Intents(r) :
           /\ c \in commits /\ c.record = r /\ c.batch \in Batch /\ c.batch # ForeignBatch
           /\ r \in Records /\ Own(chain[r]) = c.previous /\ Own(chain'[r]) = c.predicted
           /\ \A x \in Records : x # r => chain'[x] = chain[x]
  BY LandFacts
<1>1. /\ RowSane(c) /\ c.batch.ids \in Seq(Nat) /\ Uniform(c.batch.ids)
      /\ c.predicted = Append(c.previous, c.batch)
  BY RowFacts DEF IInv, RowsSane, RowSane
<1> PICK ids, n : ids = c.batch.ids /\ n = Len(ids)
  OBVIOUS
<1>2. /\ n \in Nat /\ 1 \in 1 .. n /\ n \in 1 .. n /\ Head(ids) = ids[1]
      /\ ToSet(ids) = {ids[k] : k \in 1 .. n}
      /\ \A k \in 1 .. n : /\ ids[k] \in DOMAIN trades /\ ids[k] \in Nat
                           /\ trades[ids[k]].record = trades[ids[1]].record /\ Spans(ids, ids[k])
      /\ \A j, k \in 1 .. n : j < k => ids[j] < ids[k]
      /\ ids \in Seq(Nat) /\ r = trades[ids[1]].record
  <2>1. r = trades[ids[1]].record
    BY <1>1 DEF RowSane
  <2> QED
    BY <1>1, <2>1, UniformFacts DEF Uniform
<1> DEFINE rest == {i \in DOMAIN trades : trades[i].record = r} \ Sealed!SealedIds(r)
<1>3. Sealed!SealedIds(r) = IdsOf(c.previous)
  <2>1. OwnChain[r] = c.previous
    BY DEF OwnChain
  <2> QED
    BY <2>1, SealedAscending DEF Sealed!SealedIds, IdsOf
<1>4. IdsOf(c.previous) = {i \in DOMAIN trades : trades[i].record = r /\ i < ids[1]}
  BY <1>1 DEF RowSane
<1>5. rest = {i \in DOMAIN trades : trades[i].record = r /\ ~ (i < ids[1])}
  BY <1>3, <1>4
<1>6. rest \in SUBSET Nat /\ IsFiniteSet(rest)
  <2>1. trades \in Seq(Trade)
    BY DEF IInv, WellTyped
  <2>2. rest \subseteq 1 .. Len(trades) /\ Len(trades) \in Nat
    BY <2>1
  <2>3. IsFiniteSet(1 .. Len(trades))
    BY <2>2, FS_Interval
  <2> HIDE DEF rest
  <2>4. rest \in SUBSET (1 .. Len(trades))
    BY <2>2
  <2>5. IsFiniteSet(rest)
    BY <2>3, <2>4, FS_Subset
  <2>6. rest \in SUBSET Nat
    BY <2>2
  <2> QED
    BY <2>5, <2>6
<1> HIDE DEF rest
<1>7. ASSUME NEW k \in 1 .. n PROVE ids[k] \in rest
  <2>1. ids[k] \in DOMAIN trades /\ trades[ids[k]].record = r
    BY <1>2
  <2>2. ids[1] \in Nat /\ ids[k] \in Nat /\ Spans(ids, ids[k])
    BY <1>2
  <2>3. ~ (ids[k] < ids[1])
    BY <2>2 DEF Spans
  <2> QED
    BY <1>5, <2>1, <2>3
<1>8. ASSUME NEW x \in rest PROVE (\E k \in 1 .. n : x = ids[k]) \/ (\A k \in 1 .. n : ids[k] < x)
  <2>0. x \in Nat /\ ids[1] \in Nat
    BY <1>2, <1>6
  <2>1. x \in Nat /\ x \in DOMAIN trades /\ trades[x].record = r /\ ids[1] <= x
    BY <1>5, <2>0
  <2>2. CASE x <= ids[n]
    <3>1. Spans(ids, x)
      BY <2>1, <2>2 DEF Spans
    <3>2. x \in ToSet(ids)
      BY <1>1, <2>1, <3>1 DEF RowSane
    <3> QED
      BY <1>2, <3>2
  <2>3. CASE ~ (x <= ids[n])
    <3>1. ids[n] \in Nat /\ \A k \in 1 .. n : ids[k] \in Nat
      BY <1>2
    <3>2. \A k \in 1 .. n : ids[k] <= ids[n]
      BY <1>2 DEF Spans
    <3> QED
      BY <2>1, <2>3, <3>1, <3>2
  <2> QED
    BY <2>2, <2>3
<1>9. Ascending(rest) \in Seq(rest) /\ n <= Len(Ascending(rest)) /\ SubSeq(Ascending(rest), 1, n) = ids
  <2>1. /\ \A k \in 1 .. Len(ids) : ids[k] \in rest
        /\ \A j, k \in 1 .. Len(ids) : j < k => ids[j] < ids[k]
        /\ \A x \in rest : (\E k \in 1 .. Len(ids) : x = ids[k]) \/ (\A k \in 1 .. Len(ids) : ids[k] < x)
    BY <1>2, <1>7, <1>8
  <2> QED
    BY <1>2, <1>6, <2>1, AscendingBegins
<1>10. Sealed!Unsealed(r) = Ascending(rest)
  BY SealedAscending DEF Sealed!Unsealed, rest
<1>11. n \in 1 .. Len(Sealed!Unsealed(r)) /\ SubSeq(Sealed!Unsealed(r), 1, n) = ids
  <2>1. Len(Ascending(rest)) \in Nat
    BY <1>9
  <2>2. n \in Nat /\ 1 <= n
    <3>1. n \in Nat /\ 1 \in 1 .. n
      BY <1>2
    <3> QED
      BY <3>1
  <2> PICK len : len = Len(Ascending(rest))
    OBVIOUS
  <2>3. len \in Nat /\ n <= len
    BY <1>9, <2>1
  <2>4. n \in 1 .. len
    BY <2>2, <2>3
  <2>5. SubSeq(Ascending(rest), 1, n) = ids
    BY <1>9
  <2> QED
    BY <1>10, <2>4, <2>5
<1>12. \A i \in ToSet(ids) : trades[i].version = trades[Head(ids)].version /\ trades[i].sound
  <2>1. \A k \in 1 .. n : trades[ids[k]].version = trades[ids[1]].version
    BY <1>1 DEF Uniform
  <2>2. \A k \in 1 .. n : trades[ids[k]].sound
    BY <1>1 DEF RowSane
  <2> SUFFICES ASSUME NEW i \in ToSet(ids)
               PROVE  trades[i].version = trades[Head(ids)].version /\ trades[i].sound
    OBVIOUS
  <2> PICK k \in 1 .. n : i = ids[k]
    BY <1>2
  <2>3. trades[i].version = trades[ids[1]].version /\ trades[i].sound
    BY <2>1, <2>2
  <2> QED
    BY <1>2, <2>3
<1>13. c.batch = [ids |-> ids, version |-> trades[Head(ids)].version]
  <2>1. c.batch.version = trades[ids[1]].version
    BY <1>1 DEF RowSane
  <2> QED
    BY <1>2, <2>1 DEF Batch
<1>14. OwnChain' = [OwnChain EXCEPT ![r] = Append(OwnChain[r], c.batch)]
  <2>1. OwnChain[r] = c.previous /\ OwnChain \in [Records -> {Own(chain[x]) : x \in Records}]
    BY DEF OwnChain
  <2>2. \A x \in Records : Own(chain'[x]) = IF x = r THEN Append(c.previous, c.batch) ELSE Own(chain[x])
    BY <1>1
  <2> QED
    BY <2>1, <2>2 DEF OwnChain
<1>15. trades' = trades
  BY DEF Land, Settled, database
<1>16. Sealed!Seal(r, n)
  <2>1. Sealed!ToSet(ids) = ToSet(ids)
    BY SealedAscending
  <2>2. OwnChain' = [OwnChain EXCEPT ![r] = Append(@, [ids |-> ids, version |-> trades[Head(ids)].version])]
    BY <1>13, <1>14
  <2>3. /\ n \in 1 .. Len(Sealed!Unsealed(r))
        /\ SubSeq(Sealed!Unsealed(r), 1, n) = ids
        /\ \A i \in Sealed!ToSet(ids) : trades[i].version = trades[Head(ids)].version /\ trades[i].sound
    BY <1>11, <1>12, <2>1
  <2> QED
    BY <1>15, <2>2, <2>3 DEF Sealed!Seal
<1> QED
  BY <1>11, <1>16 DEF Sealed!Next

\* Across crashes, lost answers, retries and foreign writes, the keeper lands each trade at
\* most once, in order, without a gap, one engine version a batch (runner.ts, commits.ts).
THEOREM KeeperSeals == ASSUME ~LateLanding PROVE Spec => ImplementsSealedLog
<1>1. Init => Sealed!Init
  BY OwnEmpty DEF Init, Sealed!Init, OwnChain
<1>2. IInv /\ [Next]_vars => [Sealed!Next]_(Sealed!vars)
  <2> SUFFICES ASSUME IInv, [Next]_vars PROVE Sealed!Next \/ UNCHANGED Sealed!vars
    OBVIOUS
  <2>1. CASE \E r \in Records, version \in Versions, sound \in BOOLEAN : RecordTrade(r, version, sound)
    <3> PICK r \in Records, version \in Versions, sound \in BOOLEAN : RecordTrade(r, version, sound)
      BY <2>1
    <3> DEFINE t == [record |-> r, version |-> version, sound |-> sound]
    <3>1. trades' = Append(trades, t) /\ chain' = chain /\ t \in Sealed!Trade
      BY DEF RecordTrade, solana, Sealed!Trade
    <3>2. OwnChain' = OwnChain
      BY <3>1 DEF OwnChain
    <3> HIDE DEF t
    <3> QED
      BY <3>1, <3>2 DEF Sealed!Next, Sealed!RecordTrade
  <2>2. CASE \E r \in Records : CommitForeign(r)
    BY <2>2, ForeignSealsNothing
  <2>3. CASE \E tx \in inflight : Land(tx)
    BY <2>3, LandSeals
  <2>4. CASE UNCHANGED <<trades, chain>>
    BY <2>4, NothingSealed
  <2>5. CASE \/ \E r \in Records : CloseRecord(r)
             \/ \E tx \in inflight : FailOnChain(tx) \/ Expire(tx)
             \/ StartPass \/ ReconcileRead \/ SettleIntent \/ Plan \/ SkipBatch \/ RefuseBatch
             \/ RecordIntent \/ Send \/ CommitRefused \/ CommitUnknown \/ ConfirmLanded \/ VerifyCommit
             \/ EndPass \/ ReadFails \/ Crash \/ UNCHANGED vars
    <3>1. UNCHANGED <<trades, chain>>
      BY <2>5 DEF CloseRecord, FailOnChain, Expire, Settled, StartPass, ReconcileRead, SettleIntent, Plan,
           SkipBatch, RefuseBatch, RecordIntent, Send, CommitRefused, CommitUnknown, HoldBack, ConfirmLanded,
           VerifyCommit, EndPass, ReadFails, Crash, AbandonPass, vars, database, solana
    <3> QED
      BY <3>1, <2>4, NothingSealed
  <2> QED
    BY <2>1, <2>2, <2>3, <2>5 DEF Next
<1> QED
  BY <1>1, <1>2, Invariance, PTL DEF Spec, ImplementsSealedLog, Sealed!Spec
==============================================================================
