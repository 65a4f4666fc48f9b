------------------------- MODULE TelegramBotProofs --------------------------
(***************************************************************************)
(* What TelegramBot promises for any number of chats, traders, updates,    *)
(* passes and faults: proofs checked by TLAPS.                             *)
(***************************************************************************)
EXTENDS TelegramBot, BasicLemmas, SequenceTheorems, TLAPS

(***************************************************************************)
(* The inductive invariant                                                 *)
(***************************************************************************)

Watch == [id : Nat, chat : Chats, trader : Traders, cursor : Nat, since : Nat]
Fill == [watch : Nat, chat : Chats, trade : Nat]
Steps == {"routed", "counted", "allowed", "read"}
Handler(h) == h \in [update : DOMAIN updates, step : Steps, count : {h.count}, newest : 0 .. Len(trades)]

Pass == [pc : {"idle"}] \cup [pc : {"send"}, owed : SUBSET Fill]
        \cup [pc : {"advance"}, owed : SUBSET Fill, marks : SUBSET Fill]

WellTyped ==
    /\ updates \in Seq(Updates) /\ blocked \subseteq Chats /\ gone \subseteq Chats
    /\ claimed \subseteq DOMAIN updates
    /\ watches \subseteq Watch /\ IsFiniteSet(watches) /\ nextWatch \in Nat
    /\ trades \in Seq([trader : Traders, update : Nat])
    /\ \A h \in handlers : Handler(h)
    /\ passes \in [Passes -> Pass]
    /\ told \subseteq [watch : Nat, trade : Nat]
    /\ faults \in Nat

\* One handler an update, and none once it has filled.
HandledOnce ==
    /\ \A h \in handlers : h.update \in claimed
    /\ \A h, g \in handlers : h.update = g.update => h = g
    /\ \A i \in DOMAIN trades : trades[i].update # 0 =>
          trades[i].update \in claimed /\ \A h \in handlers : h.update # trades[i].update
    /\ \A i, j \in DOMAIN trades :
          trades[i].update = trades[j].update /\ trades[i].update # 0 => i = j

WatchesSane ==
    /\ \A w \in watches : w.id < nextWatch /\ w.cursor <= Len(trades)
    /\ \A w, v \in watches : w.id = v.id => w = v
    /\ \A w, v \in watches : w.chat = v.chat /\ w.trader = v.trader => w = v

Told(w, i) == [watch |-> w.id, trade |-> i] \in told
ToldUpToCursor ==
    /\ \A x \in told : x.watch < nextWatch /\ x.trade \in DOMAIN trades
    /\ \A w \in watches : \A i \in FillsOf(w.trader) : w.since < i /\ i <= w.cursor => Told(w, i)

\* What a pass took with it is whole: below each of its fills everything was told or is
\* with it; and what it is about to mark was told up to the mark.
Whole(f, w, owed) ==
    /\ f.chat = w.chat /\ f.trade \in FillsOf(w.trader)
    /\ \A i \in FillsOf(w.trader) : w.since < i /\ i < f.trade =>
          Told(w, i) \/ [watch |-> w.id, chat |-> w.chat, trade |-> i] \in owed
Owes(owed) ==
    /\ IsFiniteSet(owed)
    /\ \A f \in owed : f.watch < nextWatch /\ f.trade \in DOMAIN trades
    /\ \A f \in owed : \A w \in watches : f.watch = w.id => Whole(f, w, owed)
Marked(m) ==
    /\ m.watch < nextWatch /\ m.trade \in DOMAIN trades
    /\ \A w \in watches : m.watch = w.id =>
          \A i \in FillsOf(w.trader) : w.since < i /\ i <= m.trade => Told(w, i)
PassesSane ==
    /\ \A p \in Passes : passes[p].pc # "idle" => Owes(passes[p].owed)
    /\ \A p \in Passes : passes[p].pc = "advance" => \A m \in passes[p].marks : Marked(m)

\* While nothing goes wrong, what was told past a cursor is about to be marked.
Accounted(w, i) ==
    \/ i <= w.cursor
    \/ \E p \in Passes : passes[p].pc = "advance" /\
          \E m \in passes[p].marks : m.watch = w.id /\ i <= m.trade
ToldIsMarked ==
    faults = 0 => \A w \in watches : \A i \in FillsOf(w.trader) : Told(w, i) => Accounted(w, i)

IInv == WellTyped /\ HandledOnce /\ WatchesSane /\ ToldUpToCursor /\ PassesSane /\ ToldIsMarked

(***************************************************************************)
(* Lemmas about the operators                                              *)
(***************************************************************************)

\* The first of the fills hold, with each of them, all that are older.
LEMMA FirstFacts ==
    ASSUME NEW fills \in SUBSET Fill, IsFiniteSet(fills), NEW n \in Nat
    PROVE  /\ First(fills, n) \subseteq fills
           /\ \A f \in First(fills, n) : \A g \in fills : g.trade < f.trade => g \in First(fills, n)
<1>1. First(fills, n) \subseteq fills
  BY DEF First
<1>2. ASSUME NEW f \in First(fills, n), NEW g \in fills, g.trade < f.trade PROVE g \in First(fills, n)
  <2> DEFINE Before(x) == {y \in fills : OldestFirst(y, x)}
  <2>1. f \in fills /\ Cardinality(Before(f)) < n
    BY DEF First
  <2>2. Before(g) \subseteq Before(f)
    BY <1>2, <2>1 DEF OldestFirst, Fill
  <2>3. IsFiniteSet(Before(f))
    BY FS_Subset
  <2>4. /\ Cardinality(Before(g)) <= Cardinality(Before(f))
        /\ Cardinality(Before(g)) \in Nat /\ Cardinality(Before(f)) \in Nat
    <3> HIDE DEF Before
    <3>1. Before(g) \in SUBSET Before(f)
      BY <2>2
    <3>2. IsFiniteSet(Before(g)) /\ Cardinality(Before(g)) <= Cardinality(Before(f))
      BY <2>3, <3>1, FS_Subset
    <3> QED
      BY <2>3, <3>2, FS_CardinalityType
  <2>5. Cardinality(Before(g)) < n
    BY <2>1, <2>4
  <2> QED
    BY <2>5 DEF First
<1> QED
  BY <1>1, <1>2

LEMMA MaxFacts ==
    ASSUME NEW S \in SUBSET Nat, IsFiniteSet(S), S # {}
    PROVE  Max(S) \in S /\ \A x \in S : x <= Max(S)
<1> DEFINE R == {p \in S \X S : p[1] < p[2]}
<1>1. StrictOrder(S, R)
  BY DEF StrictOrder
<1>2. \E x \in S : \A y \in S : y = x \/ <<y, x>> \in R
  <2> HIDE DEF R
  <2> QED
    BY <1>1, Greatest
<1>3. \E x \in S : \A y \in S : x >= y
  <2> PICK x \in S : \A y \in S : y = x \/ <<y, x>> \in R
    BY <1>2
  <2>1. ASSUME NEW y \in S PROVE x >= y
    <3>1. x \in Nat /\ y \in Nat
      OBVIOUS
    <3>2. CASE <<y, x>> \in R
      <4>1. y < x
        BY <3>2
      <4> QED
        BY <3>1, <4>1
    <3>3. CASE y = x
      BY <3>1, <3>3
    <3> QED
      BY <3>2, <3>3
  <2> QED
    BY <2>1
<1> QED
  BY <1>3 DEF Max

\* A pass that is not idle is sending or advancing.
LEMMA PassFacts ==
    ASSUME NEW pass \in Pass
    PROVE  /\ pass.pc \in {"idle", "send", "advance"}
           /\ pass.pc # "idle" => pass.owed \in SUBSET Fill
           /\ pass.pc = "advance" => pass.marks \in SUBSET Fill
           /\ pass = Idle <=> pass.pc = "idle"
BY DEF Pass, Idle

LEMMA FillTraders ==
    ASSUME NEW t
    PROVE  /\ FillsOf(t) \subseteq DOMAIN trades
           /\ trades' = trades => FillsOf(t)' = FillsOf(t)
BY DEF FillsOf

(***************************************************************************)
(* What a step leaves alone                                                *)
(***************************************************************************)

\* Watches may go and their cursors may move; more may be told.
SameWatch(w, v) == v.id = w.id /\ v.chat = w.chat /\ v.trader = w.trader /\ v.since = w.since

LEMMA SameFills ==
    ASSUME IInv, UNCHANGED <<trades, nextWatch>>, told \subseteq told',
           \A w \in watches' : \E v \in watches : SameWatch(w, v)
    PROVE  /\ \A owed : Owes(owed) => Owes(owed)'
           /\ \A m : Marked(m) => Marked(m)'
<1>1. \A w, i : Told(w, i) => Told(w, i)'
  BY DEF Told
<1>2. ASSUME NEW owed, Owes(owed) PROVE Owes(owed)'
  <2>1. ASSUME NEW f \in owed, NEW w \in watches', f.watch = w.id PROVE Whole(f, w, owed)'
    <3> PICK v \in watches : SameWatch(w, v)
      OBVIOUS
    <3>1. Whole(f, v, owed)
      BY <1>2, <2>1 DEF Owes, SameWatch
    <3>2. FillsOf(w.trader)' = FillsOf(v.trader)
      BY FillTraders DEF SameWatch
    <3>3. \A i : Told(v, i) <=> Told(w, i)
      BY DEF Told, SameWatch
    <3>4. \A i : [watch |-> w.id, chat |-> w.chat, trade |-> i] = [watch |-> v.id, chat |-> v.chat, trade |-> i]
      BY DEF SameWatch
    <3> QED
      BY <1>1, <3>1, <3>2, <3>3, <3>4 DEF Whole, SameWatch
  <2> QED
    BY <1>2, <2>1 DEF Owes
<1>3. ASSUME NEW m, Marked(m) PROVE Marked(m)'
  <2>1. ASSUME NEW w \in watches', m.watch = w.id, NEW i \in FillsOf(w.trader)', w.since < i, i <= m.trade
        PROVE  Told(w, i)'
    <3> PICK v \in watches : SameWatch(w, v)
      OBVIOUS
    <3>1. FillsOf(w.trader)' = FillsOf(v.trader)
      BY FillTraders DEF SameWatch
    <3>2. Told(v, i)
      BY <1>3, <2>1, <3>1 DEF Marked, SameWatch
    <3>3. Told(v, i) <=> Told(w, i)
      BY DEF Told, SameWatch
    <3> QED
      BY <1>1, <3>2, <3>3
  <2> QED
    BY <1>3, <2>1 DEF Marked
<1> QED
  BY <1>2, <1>3

\* Updates, their claims and handlers are not the notifier's business.
LEMMA NotifierApart ==
    ASSUME IInv, UNCHANGED <<watches, nextWatch, trades, passes, told>>,
           faults' = faults \/ (faults' \in Nat /\ faults' # 0)
    PROVE  WatchesSane' /\ ToldUpToCursor' /\ PassesSane' /\ ToldIsMarked'
<1>1. WatchesSane'
  BY DEF IInv, WatchesSane
<1>2. \A w \in watches : SameWatch(w, w)
  BY DEF SameWatch
<1>3. PassesSane'
  BY <1>2, SameFills DEF IInv, PassesSane
<1>4. \A t : FillsOf(t)' = FillsOf(t)
  BY FillTraders
<1>5. \A w, i : (Told(w, i)' <=> Told(w, i)) /\ (Accounted(w, i)' <=> Accounted(w, i))
  BY DEF Told, Accounted
<1>6. ToldUpToCursor'
  BY <1>4, <1>5 DEF IInv, ToldUpToCursor
<1>7. ToldIsMarked'
  BY <1>4, <1>5 DEF IInv, ToldIsMarked
<1> QED
  BY <1>1, <1>3, <1>6, <1>7

LEMMA HandlersApart ==
    ASSUME IInv, claimed \subseteq claimed', trades' = trades,
           \A h \in handlers' : \E g \in handlers : g.update = h.update,
           \A h, g \in handlers' : h.update = g.update => h = g
    PROVE  HandledOnce'
BY DEF IInv, HandledOnce

\* A trade recorded is newer than anything told, taken or marked.
LEMMA OneMoreTrade ==
    ASSUME IInv, NEW t \in Traders, NEW id \in Nat, Recorded(t, id),
           UNCHANGED <<watches, nextWatch, passes, told, faults>>
    PROVE  /\ WatchesSane' /\ ToldUpToCursor' /\ PassesSane' /\ ToldIsMarked'
           /\ trades' \in Seq([trader : Traders, update : Nat]) /\ Len(trades') = Len(trades) + 1
           /\ DOMAIN trades' = DOMAIN trades \cup {Len(trades) + 1} /\ DOMAIN trades = 1 .. Len(trades)
           /\ Len(trades) \in Nat /\ \A i \in DOMAIN trades : trades'[i] = trades[i]
           /\ trades'[Len(trades) + 1].update = id
<1> PICK n : n = Len(trades)
  OBVIOUS
<1> DEFINE new == [trader |-> t, update |-> id]
<1>1. /\ trades \in Seq([trader : Traders, update : Nat]) /\ new \in [trader : Traders, update : Nat]
      /\ trades' = Append(trades, new) /\ new.update = id /\ new.trader = t
  BY DEF IInv, WellTyped, Recorded
<1> HIDE DEF new
<1>2. /\ n \in Nat /\ Len(trades') = n + 1 /\ DOMAIN trades = 1 .. n /\ DOMAIN trades' = 1 .. n + 1
      /\ trades' \in Seq([trader : Traders, update : Nat])
      /\ \A i \in 1 .. n : trades'[i] = trades[i]
      /\ trades'[n + 1] = new
  BY <1>1
<1>3. 1 .. n + 1 = 1 .. n \cup {n + 1}
  BY <1>2
<1>4. \A x : FillsOf(x) \subseteq 1 .. n /\ FillsOf(x) \subseteq FillsOf(x)' /\ FillsOf(x)' \subseteq FillsOf(x) \cup {n + 1}
  BY <1>2, <1>3 DEF FillsOf
<1>5. \A w, i : (Told(w, i)' <=> Told(w, i)) /\ (Accounted(w, i)' <=> Accounted(w, i))
  BY DEF Told, Accounted
<1>6. WatchesSane'
  BY <1>2 DEF IInv, WatchesSane, WellTyped, Watch
<1>7. ToldUpToCursor'
  <2>1. \A w \in watches : w.cursor \in Nat /\ w.cursor <= n
    BY DEF IInv, WellTyped, Watch, WatchesSane
  <2>2. ASSUME NEW w \in watches, NEW i \in FillsOf(w.trader)', w.since < i, i <= w.cursor PROVE Told(w, i)
    <3>1. i \in FillsOf(w.trader)
      BY <1>2, <1>4, <2>1, <2>2
    <3> QED
      BY <2>2, <3>1 DEF IInv, ToldUpToCursor
  <2>3. \A x \in told' : x.watch < nextWatch' /\ x.trade \in DOMAIN trades'
    BY <1>2, <1>3 DEF IInv, ToldUpToCursor
  <2> QED
    BY <1>5, <2>2, <2>3 DEF ToldUpToCursor
<1>8. ASSUME NEW owed, Owes(owed) PROVE Owes(owed)'
  <2>1. ASSUME NEW f \in owed, NEW w \in watches, f.watch = w.id PROVE Whole(f, w, owed)'
    <3>1. Whole(f, w, owed)
      BY <1>8, <2>1 DEF Owes
    <3>2. f.trade \in 1 .. n
      BY <1>4, <3>1 DEF Whole
    <3>3. ASSUME NEW i \in FillsOf(w.trader)', w.since < i, i < f.trade
          PROVE  Told(w, i) \/ [watch |-> w.id, chat |-> w.chat, trade |-> i] \in owed
      <4>1. i \in FillsOf(w.trader)
        BY <1>2, <1>4, <3>2, <3>3
      <4> QED
        BY <3>1, <3>3, <4>1 DEF Whole
    <3> QED
      BY <1>4, <1>5, <3>1, <3>3 DEF Whole
  <2> QED
    BY <1>2, <1>3, <1>8, <2>1 DEF Owes
<1>9. ASSUME NEW m, Marked(m) PROVE Marked(m)'
  <2>1. m.trade \in 1 .. n
    BY <1>2, <1>9 DEF Marked
  <2>2. ASSUME NEW w \in watches, m.watch = w.id, NEW i \in FillsOf(w.trader)', w.since < i, i <= m.trade PROVE Told(w, i)
    <3>1. i \in FillsOf(w.trader)
      BY <1>2, <1>4, <2>1, <2>2
    <3> QED
      BY <1>9, <2>2, <3>1 DEF Marked
  <2> QED
    BY <1>2, <1>3, <1>5, <1>9, <2>2 DEF Marked
<1>10. PassesSane'
  BY <1>8, <1>9 DEF IInv, PassesSane
<1>11. ToldIsMarked'
  <2>1. ASSUME NEW w \in watches, NEW i \in FillsOf(w.trader)', Told(w, i) PROVE i \in FillsOf(w.trader)
    <3>1. i \in 1 .. n
      BY <1>2, <2>1 DEF IInv, ToldUpToCursor, Told
    <3> QED
      BY <1>2, <1>4, <2>1, <3>1
  <2> QED
    BY <1>5, <2>1 DEF IInv, ToldIsMarked
<1> QED
  BY <1>1, <1>2, <1>3, <1>6, <1>7, <1>10, <1>11

(***************************************************************************)
(* One lemma an action                                                     *)
(***************************************************************************)

\* The shape of what the webhook writes follows from the shape of its handlers.
LEMMA SaysKeeps == ASSUME IInv, NEW update \in Updates, Says(update) PROVE IInv'
<1>1. /\ updates' = Append(updates, update) /\ updates \in Seq(Updates)
      /\ UNCHANGED <<blocked, claimed, watches, nextWatch, trades, handlers, passes, gone, told, faults>>
  BY DEF Says, IInv, WellTyped
<1>2. updates' \in Seq(Updates) /\ DOMAIN updates \subseteq DOMAIN updates'
  BY <1>1
<1>3. WellTyped'
  BY <1>1, <1>2 DEF IInv, WellTyped, Handler
<1>4. HandledOnce'
  BY <1>1 DEF IInv, HandledOnce
<1> QED
  BY <1>1, <1>3, <1>4, NotifierApart DEF IInv

LEMMA BlocksKeeps == ASSUME IInv, NEW c \in Chats, Blocks(c) \/ Unblocks(c) PROVE IInv'
<1>1. /\ blocked' \in {blocked \cup {c}, blocked \ {c}}
      /\ UNCHANGED <<updates, claimed, watches, nextWatch, trades, handlers, passes, gone, told>>
      /\ faults' \in Nat /\ (faults' = faults \/ faults' # 0)
  BY DEF Blocks, Unblocks, Fault, IInv, WellTyped
<1>2. WellTyped'
  BY <1>1 DEF IInv, WellTyped, Handler
<1>3. HandledOnce'
  BY <1>1 DEF IInv, HandledOnce
<1> QED
  BY <1>1, <1>2, <1>3, NotifierApart DEF IInv

LEMMA TradesElsewhereKeeps == ASSUME IInv, NEW t \in Traders, TradesElsewhere(t) PROVE IInv'
<1>1. Recorded(t, 0) /\ UNCHANGED <<updates, blocked, claimed, watches, nextWatch, handlers, passes, gone, told, faults>>
  BY DEF TradesElsewhere, telegramSide
<1>2. /\ WatchesSane' /\ ToldUpToCursor' /\ PassesSane' /\ ToldIsMarked'
      /\ trades' \in Seq([trader : Traders, update : Nat]) /\ Len(trades') = Len(trades) + 1
      /\ DOMAIN trades' = DOMAIN trades \cup {Len(trades) + 1} /\ DOMAIN trades = 1 .. Len(trades)
      /\ Len(trades) \in Nat /\ \A i \in DOMAIN trades : trades'[i] = trades[i]
      /\ trades'[Len(trades) + 1].update = 0
  BY <1>1, OneMoreTrade
<1>3. WellTyped'
  BY <1>1, <1>2 DEF IInv, WellTyped, Handler
<1>4. HandledOnce'
  BY <1>1, <1>2 DEF IInv, HandledOnce
<1> QED
  BY <1>2, <1>3, <1>4 DEF IInv

LEMMA DeliversKeeps == ASSUME IInv, NEW id \in DOMAIN updates, Delivers(id) PROVE IInv'
<1> DEFINE new == [update |-> id, step |-> "routed", count |-> 0, newest |-> 0]
<1>1. /\ id \notin claimed /\ claimed' = claimed \cup {id} /\ handlers' = handlers \cup {new}
      /\ UNCHANGED <<updates, blocked, watches, nextWatch, trades, passes, gone, told, faults>>
  BY DEF Delivers, Claims, telegramSide
<1>2. new.update = id /\ Handler(new)
  BY DEF Handler, Steps, IInv, WellTyped
<1> HIDE DEF new
<1>3. WellTyped'
  BY <1>1, <1>2 DEF IInv, WellTyped, Handler
<1>4. HandledOnce'
  BY <1>1, <1>2 DEF IInv, HandledOnce
<1> QED
  BY <1>1, <1>3, <1>4, NotifierApart DEF IInv

\* A handler that ends, or goes on, leaves the other handlers alone.
LEMMA HandlerLeaves ==
    ASSUME IInv, NEW h \in handlers, handlers' = handlers \ {h}, UNCHANGED <<claimed, trades>>
    PROVE  HandledOnce'
BY DEF IInv, HandledOnce

LEMMA RepliesFacts ==
    ASSUME IInv, NEW h \in handlers, Replies(h)
    PROVE  /\ handlers' = handlers \ {h} /\ gone' \subseteq Chats
           /\ UNCHANGED <<updates, blocked, claimed, passes, told, faults>>
<1>1. h.update \in DOMAIN updates /\ updates \in Seq(Updates) /\ gone \subseteq Chats
  BY DEF IInv, WellTyped, Handler
<1>2. Asked(h).chat \in Chats /\ Asked(h).trader \in Traders
  <2>1. Asked(h) \in Updates
    BY <1>1 DEF Asked
  <2> QED
    BY <2>1 DEF Updates
<1> QED
  BY <1>1, <1>2 DEF Replies, telegramSide

LEMMA AskedFacts ==
    ASSUME IInv, NEW h \in handlers
    PROVE  /\ h.update \in DOMAIN updates /\ h.update \in Nat /\ h.update # 0
           /\ Asked(h).chat \in Chats /\ Asked(h).trader \in Traders
           /\ h.newest \in 0 .. Len(trades) /\ Len(trades) \in Nat
<1>1. h.update \in DOMAIN updates /\ updates \in Seq(Updates)
  BY DEF IInv, WellTyped, Handler
<1>2. Asked(h).chat \in Chats /\ Asked(h).trader \in Traders
  <2>1. Asked(h) \in Updates
    BY <1>1 DEF Asked
  <2> QED
    BY <2>1 DEF Updates
<1>3. h.newest \in 0 .. Len(trades) /\ Len(trades) \in Nat
  BY DEF IInv, WellTyped, Handler
<1> QED
  BY <1>1, <1>2, <1>3

LEMMA OrdersKeeps == ASSUME IInv, NEW h \in handlers, Orders(h) PROVE IInv'
<1>1. /\ handlers' = handlers \ {h} /\ gone' \subseteq Chats
      /\ UNCHANGED <<updates, blocked, claimed, watches, nextWatch, passes, told, faults>>
  BY RepliesFacts DEF Orders
<1>2. CASE Recorded(Asked(h).trader, h.update)
  <2> PICK t, id : t = Asked(h).trader /\ id = h.update
    OBVIOUS
  <2>0. t \in Traders /\ id \in Nat /\ id # 0 /\ Recorded(t, id)
    BY <1>2, AskedFacts
  <2>1. /\ WatchesSane' /\ ToldUpToCursor' /\ PassesSane' /\ ToldIsMarked'
        /\ trades' \in Seq([trader : Traders, update : Nat]) /\ Len(trades') = Len(trades) + 1
        /\ DOMAIN trades' = DOMAIN trades \cup {Len(trades) + 1} /\ DOMAIN trades = 1 .. Len(trades)
        /\ Len(trades) \in Nat /\ \A i \in DOMAIN trades : trades'[i] = trades[i]
        /\ trades'[Len(trades) + 1].update = id
    BY <1>1, <2>0, OneMoreTrade
  <2>2. WellTyped'
    BY <1>1, <2>1 DEF IInv, WellTyped, Handler
  <2>3. HandledOnce'
    <3>1. \A g \in handlers' : g \in handlers /\ g.update # id /\ g.update \in claimed
      BY <1>1 DEF IInv, HandledOnce
    <3>2. id \in claimed /\ \A i \in DOMAIN trades : trades[i].update # id
      BY <2>0 DEF IInv, HandledOnce
    <3>3. ASSUME NEW i \in DOMAIN trades', trades'[i].update # 0
          PROVE  trades'[i].update \in claimed' /\ \A g \in handlers' : g.update # trades'[i].update
      BY <1>1, <2>1, <3>1, <3>2, <3>3 DEF IInv, HandledOnce
    <3>4. ASSUME NEW i \in DOMAIN trades', NEW j \in DOMAIN trades', trades'[i].update = trades'[j].update,
                 trades'[i].update # 0
          PROVE  i = j
      BY <2>1, <3>2, <3>4 DEF IInv, HandledOnce
    <3>5. \A g, k \in handlers' : g.update = k.update => g = k
      BY <3>1 DEF IInv, HandledOnce
    <3> QED
      BY <1>1, <3>1, <3>3, <3>4, <3>5 DEF HandledOnce
  <2> QED
    BY <2>1, <2>2, <2>3 DEF IInv
<1>3. CASE trades' = trades
  <2>1. WellTyped'
    BY <1>1, <1>3 DEF IInv, WellTyped, Handler
  <2> QED
    BY <1>1, <1>3, <2>1, HandlerLeaves, NotifierApart DEF IInv
<1> QED
  BY <1>2, <1>3 DEF Orders

LEMMA ContinuesKeeps ==
    ASSUME IInv, NEW h \in handlers, NEW next, Continues(h, next), Handler(next), next.update = h.update
    PROVE  IInv'
<1>1. /\ handlers' = (handlers \ {h}) \cup {next}
      /\ UNCHANGED <<updates, blocked, claimed, watches, nextWatch, trades, passes, gone, told, faults>>
  BY DEF Continues, telegramSide
<1>2. WellTyped'
  BY <1>1 DEF IInv, WellTyped, Handler
<1>3. HandledOnce'
  BY <1>1 DEF IInv, HandledOnce
<1> QED
  BY <1>1, <1>2, <1>3, NotifierApart DEF IInv

LEMMA WatchStepsKeep ==
    ASSUME IInv, NEW h \in handlers, CountsWatches(h) \/ WatchAllowed(h) \/ ReadsNewest(h)
    PROVE  IInv'
<1>1. Handler(h)
  BY DEF IInv, WellTyped
<1>2. CASE CountsWatches(h)
  <2> DEFINE next == [h EXCEPT !.step = "counted", !.count = Cardinality(OfChat(Asked(h).chat))]
  <2>1. Handler(next) /\ next.update = h.update /\ Continues(h, next)
    BY <1>1, <1>2 DEF CountsWatches, Handler, Steps
  <2> QED
    BY <2>1, ContinuesKeeps
<1>3. CASE WatchAllowed(h)
  <2> DEFINE next == [h EXCEPT !.step = "allowed"]
  <2>1. Handler(next) /\ next.update = h.update /\ Continues(h, next)
    BY <1>1, <1>3 DEF WatchAllowed, Handler, Steps
  <2> QED
    BY <2>1, ContinuesKeeps
<1>4. CASE ReadsNewest(h)
  <2> DEFINE S == {0} \cup FillsOf(Asked(h).trader)
             next == [h EXCEPT !.step = "read", !.newest = Max(S)]
  <2>1. FillsOf(Asked(h).trader) \subseteq 1 .. Len(trades) /\ Len(trades) \in Nat
    BY DEF IInv, WellTyped, FillsOf
  <2>2. S \in SUBSET (0 .. Len(trades)) /\ S # {}
    BY <2>1
  <2>3. Max(S) \in 0 .. Len(trades)
    <3> HIDE DEF S
    <3>1. IsFiniteSet(0 .. Len(trades))
      BY <2>1, FS_Interval
    <3>2. IsFiniteSet(S)
      BY <2>2, <3>1, FS_Subset
    <3>3. S \in SUBSET Nat
      BY <2>1, <2>2
    <3>4. Max(S) \in S
      BY <2>2, <3>2, <3>3, MaxFacts
    <3> QED
      BY <2>2, <3>4
  <2>4. Continues(h, next)
    BY <1>4 DEF ReadsNewest
  <2> HIDE DEF S
  <2>5. Handler(next) /\ next.update = h.update
    BY <1>1, <2>3 DEF Handler, Steps
  <2> QED
    BY <2>4, <2>5, ContinuesKeeps
<1> QED
  BY <1>2, <1>3, <1>4

LEMMA HandlerFailsKeeps == ASSUME IInv, NEW h \in handlers, HandlerFails(h) PROVE IInv'
<1>1. /\ handlers' = handlers \ {h} /\ faults' \in Nat /\ faults' # 0
      /\ UNCHANGED <<updates, blocked, claimed, watches, nextWatch, trades, passes, gone, told>>
  BY DEF HandlerFails, Fault, telegramSide, IInv, WellTyped
<1>2. WellTyped'
  BY <1>1 DEF IInv, WellTyped, Handler
<1> QED
  BY <1>1, <1>2, HandlerLeaves, NotifierApart DEF IInv

LEMMA WatchRefusedKeeps == ASSUME IInv, NEW h \in handlers, WatchRefused(h) PROVE IInv'
<1>1. /\ handlers' = handlers \ {h} /\ gone' \subseteq Chats
      /\ UNCHANGED <<updates, blocked, claimed, watches, nextWatch, trades, passes, told, faults>>
  BY RepliesFacts DEF WatchRefused
<1>2. WellTyped'
  BY <1>1 DEF IInv, WellTyped, Handler
<1> QED
  BY <1>1, <1>2, HandlerLeaves, NotifierApart DEF IInv

\* Watches that are dropped take nothing from what the others were told.
LEMMA FewerWatches ==
    ASSUME IInv, watches' \subseteq watches, UNCHANGED <<nextWatch, trades, told>>
    PROVE  /\ WatchesSane' /\ ToldUpToCursor'
           /\ \A owed : Owes(owed) => Owes(owed)'
           /\ \A m : Marked(m) => Marked(m)'
           /\ IsFiniteSet(watches') /\ watches' \subseteq Watch
<1>1. \A w \in watches' : SameWatch(w, w)
  BY DEF SameWatch
<1>2. (\A owed : Owes(owed) => Owes(owed)') /\ (\A m : Marked(m) => Marked(m)')
  BY <1>1, SameFills
<1>3. WatchesSane'
  BY DEF IInv, WatchesSane
<1>4. \A t : FillsOf(t)' = FillsOf(t)
  BY FillTraders
<1>5. \A w, i : Told(w, i)' <=> Told(w, i)
  BY DEF Told
<1>6. ToldUpToCursor'
  BY <1>4, <1>5 DEF IInv, ToldUpToCursor
<1>7. IsFiniteSet(watches') /\ watches' \subseteq Watch
  BY FS_Subset DEF IInv, WellTyped
<1> QED
  BY <1>2, <1>3, <1>6, <1>7

LEMMA UnwatchesKeeps == ASSUME IInv, NEW h \in handlers, Unwatches(h) PROVE IInv'
<1>1. /\ handlers' = handlers \ {h} /\ gone' \subseteq Chats /\ watches' \subseteq watches
      /\ UNCHANGED <<updates, blocked, claimed, nextWatch, trades, passes, told, faults>>
  BY RepliesFacts DEF Unwatches
<1>2. /\ WatchesSane' /\ ToldUpToCursor' /\ IsFiniteSet(watches') /\ watches' \subseteq Watch
      /\ \A owed : Owes(owed) => Owes(owed)'
      /\ \A m : Marked(m) => Marked(m)'
  BY <1>1, FewerWatches
<1>3. WellTyped'
  BY <1>1, <1>2 DEF IInv, WellTyped, Handler
<1>4. PassesSane'
  BY <1>1, <1>2 DEF IInv, PassesSane
<1>5. ToldIsMarked'
  <2>1. \A t : FillsOf(t)' = FillsOf(t)
    BY <1>1, FillTraders
  <2>2. \A w, i : (Told(w, i)' <=> Told(w, i)) /\ (Accounted(w, i)' <=> Accounted(w, i))
    BY <1>1 DEF Told, Accounted
  <2> QED
    BY <1>1, <2>1, <2>2 DEF IInv, ToldIsMarked
<1> QED
  BY <1>1, <1>2, <1>3, <1>4, <1>5, HandlerLeaves DEF IInv

\* A new watch has an id nothing was told, taken or marked for.
LEMMA InsertsWatchKeeps == ASSUME IInv, NEW h \in handlers, InsertsWatch(h) PROVE IInv'
<1>1. /\ handlers' = handlers \ {h} /\ gone' \subseteq Chats
      /\ UNCHANGED <<updates, blocked, claimed, trades, passes, told, faults>>
  BY RepliesFacts DEF InsertsWatch
<1>2. HandledOnce'
  BY <1>1, HandlerLeaves
<1>3. CASE OfHis(h) # {}
  <2>1. UNCHANGED <<watches, nextWatch>>
    BY <1>3 DEF InsertsWatch
  <2>2. WellTyped'
    BY <1>1, <2>1 DEF IInv, WellTyped, Handler
  <2> QED
    BY <1>1, <1>2, <2>1, <2>2, NotifierApart DEF IInv
<1>4. CASE OfHis(h) = {}
  <2> DEFINE new == [id |-> nextWatch, chat |-> Asked(h).chat, trader |-> Asked(h).trader,
                     cursor |-> h.newest, since |-> h.newest]
  <2>1. watches' = watches \cup {new} /\ nextWatch' = nextWatch + 1 /\ nextWatch \in Nat
    BY <1>4 DEF InsertsWatch, IInv, WellTyped
  <2>2. /\ new \in Watch /\ new.id = nextWatch /\ new.cursor = new.since /\ new.cursor \in Nat
        /\ new.cursor <= Len(trades)
        /\ \A w \in watches : ~ (w.chat = new.chat /\ w.trader = new.trader)
    BY <1>4, <2>1, AskedFacts DEF Watch, OfHis, OfChat
  <2> HIDE DEF new
  <2>3. WellTyped'
    <3>1. IsFiniteSet(watches')
      BY <2>1, FS_AddElement DEF IInv, WellTyped
    <3> QED
      BY <1>1, <2>1, <2>2, <3>1 DEF IInv, WellTyped, Handler
  <2>4. \A w \in watches : w.id \in Nat /\ w.id < nextWatch
    BY DEF IInv, WellTyped, Watch, WatchesSane
  <2>5. WatchesSane'
    BY <1>1, <2>1, <2>2, <2>4 DEF IInv, WatchesSane
  <2>6. \A t : FillsOf(t)' = FillsOf(t) /\ \A i \in FillsOf(t) : i \in Nat
    BY <1>1 DEF FillsOf, IInv, WellTyped
  <2>7. \A w, i : (Told(w, i)' <=> Told(w, i)) /\ (Accounted(w, i)' <=> Accounted(w, i))
    BY <1>1 DEF Told, Accounted
  <2>8. \A x \in told : x.watch \in Nat /\ x.watch < nextWatch
    BY DEF IInv, WellTyped, ToldUpToCursor
  <2>9. ToldUpToCursor'
    <3>1. \A x \in told' : x.watch < nextWatch' /\ x.trade \in DOMAIN trades'
      BY <1>1, <2>1, <2>8 DEF IInv, ToldUpToCursor
    <3>2. ASSUME NEW w \in watches', NEW i \in FillsOf(w.trader), w.since < i, i <= w.cursor PROVE Told(w, i)
      <4>1. w # new
        BY <2>2, <2>6, <3>2
      <4> QED
        BY <2>1, <3>2, <4>1 DEF IInv, ToldUpToCursor
    <3> QED
      BY <2>6, <2>7, <3>1, <3>2 DEF ToldUpToCursor
  <2>10. ASSUME NEW owed, Owes(owed) PROVE Owes(owed)' \/ owed \notin SUBSET Fill
    <3> SUFFICES ASSUME owed \in SUBSET Fill PROVE Owes(owed)'
      OBVIOUS
    <3>1. ASSUME NEW f \in owed, NEW w \in watches', f.watch = w.id PROVE Whole(f, w, owed)'
      <4>1. w \in watches
        BY <2>1, <2>2, <2>10, <3>1 DEF Owes, Fill
      <4>2. Whole(f, w, owed)
        BY <2>10, <3>1, <4>1 DEF Owes
      <4> QED
        BY <2>6, <2>7, <4>2 DEF Whole
    <3>2. \A f \in owed : f.watch < nextWatch' /\ f.trade \in DOMAIN trades'
      BY <1>1, <2>1, <2>10 DEF Owes, Fill
    <3> QED
      BY <2>10, <3>1, <3>2 DEF Owes
  <2>11. ASSUME NEW m \in Fill, Marked(m) PROVE Marked(m)'
    <3>1. ASSUME NEW w \in watches', m.watch = w.id PROVE w \in watches
      BY <2>1, <2>2, <2>11, <3>1 DEF Marked, Fill
    <3>2. m.watch < nextWatch' /\ m.trade \in DOMAIN trades'
      BY <1>1, <2>1, <2>11 DEF Marked, Fill
    <3> QED
      BY <2>6, <2>7, <2>11, <3>1, <3>2 DEF Marked
  <2>12. PassesSane'
    <3>1. ASSUME NEW p \in Passes
          PROVE  /\ passes[p].pc # "idle" => passes[p].owed \in SUBSET Fill
                 /\ passes[p].pc = "advance" => passes[p].marks \in SUBSET Fill
      <4>1. passes[p] \in Pass
        BY DEF IInv, WellTyped
      <4> QED
        BY <4>1, PassFacts
    <3>2. ASSUME NEW p \in Passes, passes[p].pc # "idle" PROVE Owes(passes[p].owed)'
      <4> PICK owed : owed = passes[p].owed
        OBVIOUS
      <4>1. Owes(owed) /\ owed \in SUBSET Fill
        BY <3>1, <3>2 DEF IInv, PassesSane
      <4>2. Owes(owed)'
        BY <2>10, <4>1
      <4>3. passes[p].owed' = owed
        BY <1>1
      <4> QED
        BY <4>2, <4>3
    <3>3. ASSUME NEW p \in Passes, passes[p].pc = "advance", NEW m \in passes[p].marks PROVE Marked(m)'
      <4>1. m \in Fill /\ Marked(m)
        BY <3>1, <3>3 DEF IInv, PassesSane
      <4> QED
        BY <2>11, <4>1
    <3> QED
      BY <1>1, <3>2, <3>3 DEF PassesSane
  <2>13. ToldIsMarked'
    <3>1. ASSUME NEW i PROVE ~ Told(new, i)
      BY <2>1, <2>2, <2>8 DEF Told
    <3> QED
      BY <1>1, <2>1, <2>6, <2>7, <3>1 DEF IInv, ToldIsMarked
  <2> QED
    BY <1>2, <2>3, <2>5, <2>9, <2>12, <2>13 DEF IInv
<1> QED
  BY <1>3, <1>4

(***************************************************************************)
(* The notifier                                                            *)
(***************************************************************************)

\* One pass moves; what the others took with them stays whole.
LEMMA PassMoves ==
    ASSUME IInv, NEW p \in Passes, NEW pass \in Pass, Goes(p, pass),
           \A owed : Owes(owed) => Owes(owed)',
           \A m : Marked(m) => Marked(m)',
           pass.pc # "idle" => Owes(pass.owed)',
           pass.pc = "advance" => \A m \in pass.marks : Marked(m)'
    PROVE  /\ PassesSane' /\ passes' \in [Passes -> Pass]
           /\ passes'[p] = pass /\ \A q \in Passes : q # p => passes'[q] = passes[q]
<1>1. /\ passes \in [Passes -> Pass] /\ passes' = [passes EXCEPT ![p] = pass]
  BY DEF Goes, IInv, WellTyped
<1>2. /\ passes' \in [Passes -> Pass]
      /\ \A q \in Passes : passes'[q] = IF q = p THEN pass ELSE passes[q]
  BY <1>1
<1>3. ASSUME NEW q \in Passes, passes'[q].pc # "idle" PROVE Owes(passes[q].owed)'
  <2> PICK owed : owed = passes'[q].owed
    OBVIOUS
  <2>1. Owes(owed)'
    BY <1>2, <1>3 DEF IInv, PassesSane
  <2> QED
    BY <2>1
<1>4. ASSUME NEW q \in Passes, passes'[q].pc = "advance", NEW m \in passes'[q].marks PROVE Marked(m)'
  BY <1>2, <1>4 DEF IInv, PassesSane
<1>5. PassesSane'
  BY <1>3, <1>4 DEF PassesSane
<1> QED
  BY <1>2, <1>5

\* What is left for the other chats is whole as well.
LEMMA ThenNextFacts ==
    ASSUME IInv, NEW p \in Passes, passes[p].pc # "idle"
    PROVE  /\ ThenNext(p) \in Pass /\ ThenNext(p).pc \in {"idle", "send"}
           /\ ThenNext(p).pc # "idle" => Owes(ThenNext(p).owed)
<1> DEFINE rest == passes[p].owed \ FillsNow(p)
<1>1. passes[p] \in Pass
  BY DEF IInv, WellTyped
<1>2. passes[p].owed \in SUBSET Fill /\ Owes(passes[p].owed)
  BY <1>1, PassFacts DEF IInv, PassesSane
<1>3. rest = {f \in passes[p].owed : f.chat # NextChat(p)}
  BY DEF FillsNow
<1>4. rest \in SUBSET Fill
  BY <1>2
<1>5. IsFiniteSet(rest)
  BY <1>2, FS_Subset DEF Owes
<1>6. ThenNext(p) = IF rest = {} THEN Idle ELSE [pc |-> "send", owed |-> rest]
  BY DEF ThenNext
<1> HIDE DEF rest
<1>7. Owes(rest)
  <2>1. ASSUME NEW f \in rest, NEW w \in watches, f.watch = w.id PROVE Whole(f, w, rest)
    <3>1. f \in passes[p].owed /\ f.chat # NextChat(p) /\ Whole(f, w, passes[p].owed)
      BY <1>2, <1>3, <2>1 DEF Owes
    <3>2. ASSUME NEW i, [watch |-> w.id, chat |-> w.chat, trade |-> i] \in passes[p].owed
          PROVE  [watch |-> w.id, chat |-> w.chat, trade |-> i] \in rest
      BY <1>3, <3>1, <3>2 DEF Whole
    <3> QED
      BY <3>1, <3>2 DEF Whole
  <2> QED
    BY <1>2, <1>3, <1>5, <2>1 DEF Owes
<1>8. CASE rest = {}
  BY <1>6, <1>8 DEF Idle, Pass
<1>9. CASE rest # {}
  <2>1. ThenNext(p) = [pc |-> "send", owed |-> rest]
    BY <1>6, <1>9
  <2>2. ThenNext(p) \in Pass
    BY <1>4, <2>1 DEF Pass
  <2> QED
    BY <1>7, <2>1, <2>2
<1> QED
  BY <1>8, <1>9

\* What is owed to all watches is finite, and whole once its first fills are taken.
LEMMA PendingFacts ==
    ASSUME IInv
    PROVE  PendingFills \in SUBSET Fill /\ Owes(PendingFills)
<1> PICK n : n = Len(trades)
  OBVIOUS
<1> DEFINE all == UNION {FillsFor(w) : w \in watches}
           S == watches \X (1 .. n)
           f == [q \in S |-> [watch |-> q[1].id, chat |-> q[1].chat, trade |-> q[2]]]
           T == {f[q] : q \in S}
<1>1. n \in Nat /\ DOMAIN trades = 1 .. n /\ \A t : FillsOf(t) \subseteq 1 .. n
  BY DEF IInv, WellTyped, FillsOf
<1>2. watches \subseteq Watch /\ IsFiniteSet(watches)
  BY DEF IInv, WellTyped
<1>3. IsFiniteSet(S)
  <2>1. IsFiniteSet(1 .. n)
    BY <1>1, FS_Interval
  <2> QED
    BY <1>2, <2>1, FS_Product
<1>4. IsFiniteSet(T)
  <2>1. f \in Surjection(S, T)
    BY DEF Surjection
  <2> HIDE DEF f, S, T
  <2> QED
    BY <1>3, <2>1, FS_Surjection
<1>5. all \subseteq T /\ all \subseteq Fill
  <2> SUFFICES ASSUME NEW x \in all PROVE x \in T /\ x \in Fill
    OBVIOUS
  <2> PICK w \in watches : x \in FillsFor(w)
    OBVIOUS
  <2> PICK i \in Owed(w) : x = [watch |-> w.id, chat |-> w.chat, trade |-> i]
    BY DEF FillsFor
  <2>1. i \in 1 .. n
    BY <1>1 DEF Owed
  <2>2. <<w, i>> \in S /\ f[<<w, i>>] = x
    BY <2>1
  <2>3. x \in Fill
    BY <1>1, <1>2, <2>1 DEF Watch, Fill
  <2> QED
    BY <2>2, <2>3
<1>6. IsFiniteSet(all)
  <2> HIDE DEF all, T
  <2> QED
    BY <1>4, <1>5, FS_Subset
<1>7. \A x : x \in all <=> \E w \in watches : \E i \in Owed(w) : x = [watch |-> w.id, chat |-> w.chat, trade |-> i]
  BY DEF FillsFor
<1>8. PendingFills = First(all, PassLimit)
  BY DEF PendingFills
<1> HIDE DEF all, S, T, f
<1>9. /\ PendingFills \subseteq all
      /\ \A x \in PendingFills : \A y \in all : y.trade < x.trade => y \in PendingFills
  <2>1. PassLimit \in Nat /\ all \in SUBSET Fill
    BY <1>5, LimitAssumption
  <2> QED
    BY <1>6, <1>8, <2>1, FirstFacts
<1>10. IsFiniteSet(PendingFills) /\ PendingFills \in SUBSET Fill
  <2>1. IsFiniteSet(PendingFills)
    BY <1>6, <1>9, FS_Subset
  <2> QED
    BY <1>5, <1>9, <2>1
<1>11. ASSUME NEW x \in PendingFills PROVE x.watch < nextWatch /\ x.trade \in DOMAIN trades
  <2> PICK w \in watches : \E i \in Owed(w) : x = [watch |-> w.id, chat |-> w.chat, trade |-> i]
    BY <1>7, <1>9
  <2> PICK i \in Owed(w) : x = [watch |-> w.id, chat |-> w.chat, trade |-> i]
    OBVIOUS
  <2>1. i \in DOMAIN trades /\ w.id < nextWatch
    BY <1>1 DEF Owed, IInv, WatchesSane
  <2> QED
    BY <2>1
<1>12. ASSUME NEW x \in PendingFills, NEW w \in watches, x.watch = w.id PROVE Whole(x, w, PendingFills)
  <2> PICK v \in watches : \E j \in Owed(v) : x = [watch |-> v.id, chat |-> v.chat, trade |-> j]
    BY <1>7, <1>9
  <2> PICK j \in Owed(v) : x = [watch |-> v.id, chat |-> v.chat, trade |-> j]
    OBVIOUS
  <2>1. v = w
    BY <1>12 DEF IInv, WatchesSane
  <2>2. x.chat = w.chat /\ x.trade = j /\ j \in FillsOf(w.trader)
    BY <2>1 DEF Owed
  <2>3. ASSUME NEW i \in FillsOf(w.trader), w.since < i, i < x.trade
        PROVE  Told(w, i) \/ [watch |-> w.id, chat |-> w.chat, trade |-> i] \in PendingFills
    <3>1. w.cursor \in Nat /\ i \in Nat
      BY <1>1, <1>2 DEF Watch
    <3>2. CASE i <= w.cursor
      BY <2>3, <3>2 DEF IInv, ToldUpToCursor
    <3>3. CASE i > w.cursor
      <4> PICK y : y = [watch |-> w.id, chat |-> w.chat, trade |-> i]
        OBVIOUS
      <4>1. i \in Owed(w)
        BY <3>3 DEF Owed
      <4>2. y \in all
        BY <1>7, <4>1
      <4>3. y.trade < x.trade
        BY <2>3
      <4>4. y \in PendingFills
        BY <1>9, <4>2, <4>3
      <4> QED
        BY <4>4
    <3> QED
      BY <3>1, <3>2, <3>3
  <2> QED
    BY <2>2, <2>3 DEF Whole
<1> QED
  BY <1>10, <1>11, <1>12 DEF Owes

LEMMA StartsPassKeeps == ASSUME IInv, NEW p \in Passes, StartsPass(p) PROVE IInv'
<1> PICK owed : owed = PendingFills
  OBVIOUS
<1>1. /\ Goes(p, [pc |-> "send", owed |-> owed]) /\ passes[p] = Idle
      /\ UNCHANGED <<updates, blocked, claimed, nextWatch, trades, handlers, watches, gone, told, faults>>
  BY DEF StartsPass, webhookSide, telegramSide
<1> DEFINE pass == [pc |-> "send", owed |-> owed]
<1>2. pass \in Pass /\ pass.pc = "send" /\ pass.owed = owed /\ Owes(owed)
  BY PendingFacts DEF Pass
<1> HIDE DEF pass
<1>3. \A w \in watches : SameWatch(w, w)
  BY DEF SameWatch
<1>4. (\A o : Owes(o) => Owes(o)') /\ (\A m : Marked(m) => Marked(m)')
  BY <1>1, <1>3, SameFills
<1>5. /\ PassesSane' /\ passes' \in [Passes -> Pass]
      /\ passes'[p] = pass /\ \A q \in Passes : q # p => passes'[q] = passes[q]
  <2>1. Goes(p, pass)
    BY <1>1 DEF pass
  <2>2. Owes(pass.owed)'
    BY <1>2, <1>4
  <2> QED
    BY <1>2, <1>4, <2>1, <2>2, PassMoves
<1>6. WellTyped'
  BY <1>1, <1>5 DEF IInv, WellTyped, Handler
<1>7. \A t : FillsOf(t)' = FillsOf(t)
  BY <1>1, FillTraders
<1>8. \A w, i : (Told(w, i)' <=> Told(w, i)) /\ (Accounted(w, i) => Accounted(w, i)')
  <2>1. passes[p].pc = "idle"
    BY <1>1 DEF Idle
  <2> QED
    BY <1>1, <1>5, <2>1 DEF Told, Accounted
<1>9. WatchesSane' /\ ToldUpToCursor' /\ ToldIsMarked'
  BY <1>1, <1>7, <1>8 DEF IInv, WatchesSane, ToldUpToCursor, ToldIsMarked
<1>10. HandledOnce'
  BY <1>1 DEF IInv, HandledOnce
<1> QED
  BY <1>5, <1>6, <1>9, <1>10 DEF IInv

\* The lines shown are, with each of them, all older ones of the chat; and each watch
\* shown in them has a mark past them.
LEMMA ShownFacts ==
    ASSUME IInv, NEW p \in Passes, passes[p].pc # "idle"
    PROVE  /\ Shown(p) \subseteq passes[p].owed /\ Shown(p) \in SUBSET Fill /\ Owes(passes[p].owed)
           /\ passes[p].owed \in SUBSET Fill
           /\ \A f \in Shown(p) : \A g \in passes[p].owed : g.chat = f.chat /\ g.trade < f.trade => g \in Shown(p)
           /\ Marks(Shown(p)) \subseteq Shown(p)
           /\ \A f \in Shown(p) : \E m \in Marks(Shown(p)) : m.watch = f.watch /\ f.trade <= m.trade
<1>1. passes[p] \in Pass
  BY DEF IInv, WellTyped
<1>2. passes[p].owed \in SUBSET Fill /\ Owes(passes[p].owed)
  BY <1>1, PassFacts DEF IInv, PassesSane
<1>3. FillsNow(p) = {f \in passes[p].owed : f.chat = NextChat(p)}
  BY DEF FillsNow
<1>4. FillsNow(p) \in SUBSET Fill /\ IsFiniteSet(FillsNow(p))
  <2>1. FillsNow(p) \in SUBSET passes[p].owed
    BY <1>3
  <2>2. IsFiniteSet(FillsNow(p))
    BY <1>2, <2>1, FS_Subset DEF Owes
  <2> QED
    BY <1>2, <2>1, <2>2
<1>5. /\ Shown(p) \subseteq FillsNow(p)
      /\ \A f \in Shown(p) : \A g \in FillsNow(p) : g.trade < f.trade => g \in Shown(p)
  <2>1. MaxLines \in Nat
    BY LimitAssumption
  <2> QED
    BY <1>4, <2>1, FirstFacts DEF Shown
<1>6. \A f \in Shown(p) : \A g \in passes[p].owed : g.chat = f.chat /\ g.trade < f.trade => g \in Shown(p)
  BY <1>3, <1>5
<1>7. Marks(Shown(p)) \subseteq Shown(p)
  BY DEF Marks
<1>8. ASSUME NEW f \in Shown(p) PROVE \E m \in Marks(Shown(p)) : m.watch = f.watch /\ f.trade <= m.trade
  <2> DEFINE mine == {g \in Shown(p) : g.watch = f.watch}
             T == {g.trade : g \in mine}
  <2>1. \A g \in Shown(p) : g \in Fill /\ g.trade \in 1 .. Len(trades)
    BY <1>2, <1>3, <1>5 DEF Owes, IInv, WellTyped
  <2>2. T \in SUBSET (1 .. Len(trades)) /\ T # {} /\ f.trade \in T /\ Len(trades) \in Nat
    BY <2>1 DEF IInv, WellTyped
  <2> HIDE DEF T
  <2>3. IsFiniteSet(1 .. Len(trades))
    BY <2>2, FS_Interval
  <2>4. IsFiniteSet(T)
    BY <2>2, <2>3, FS_Subset
  <2>5. T \in SUBSET Nat
    BY <2>2
  <2>6. Max(T) \in T /\ \A x \in T : x <= Max(T)
    BY <2>2, <2>4, <2>5, MaxFacts
  <2> PICK m \in mine : m.trade = Max(T)
    BY <2>6 DEF T
  <2>7. \A g \in Shown(p) : g.watch = m.watch => g.trade <= m.trade
    BY <2>6 DEF T
  <2>8. m \in Marks(Shown(p)) /\ m.watch = f.watch
    BY <2>7 DEF Marks
  <2> QED
    BY <2>2, <2>6, <2>8
<1> QED
  BY <1>2, <1>3, <1>5, <1>6, <1>7, <1>8

LEMMA SendAcceptedKeeps == ASSUME IInv, NEW p \in Passes, SendAccepted(p) PROVE IInv'
<1> PICK owed, marks, shown : owed = passes[p].owed /\ shown = Shown(p) /\ marks = Marks(shown)
  OBVIOUS
<1> DEFINE pass == [pc |-> "advance", owed |-> owed, marks |-> marks]
<1>1. /\ passes[p].pc = "send" /\ Goes(p, pass)
      /\ told' = told \cup {[watch |-> f.watch, trade |-> f.trade] : f \in shown}
      /\ UNCHANGED <<updates, blocked, claimed, nextWatch, trades, handlers, watches, gone, faults>>
  BY DEF SendAccepted, webhookSide, telegramSide, ShownTo
<1>2. /\ shown \subseteq owed /\ shown \in SUBSET Fill /\ Owes(owed) /\ owed \in SUBSET Fill
      /\ \A f \in shown : \A g \in owed : g.chat = f.chat /\ g.trade < f.trade => g \in shown
      /\ marks \subseteq shown
      /\ \A f \in shown : \E m \in marks : m.watch = f.watch /\ f.trade <= m.trade
  BY <1>1, ShownFacts
<1>3. pass \in Pass /\ pass.pc = "advance" /\ pass.owed = owed /\ pass.marks = marks
  BY <1>2 DEF Pass
<1> HIDE DEF pass
<1>4. /\ \A w \in watches : SameWatch(w, w)
      /\ told \subseteq told' /\ \A t : FillsOf(t)' = FillsOf(t)
      /\ \A f \in shown : f \in Fill /\ f.watch < nextWatch /\ f.trade \in DOMAIN trades
  BY <1>1, <1>2, FillTraders DEF SameWatch, Owes
<1>5. (\A o : Owes(o) => Owes(o)') /\ (\A m : Marked(m) => Marked(m)')
  BY <1>1, <1>4, SameFills
<1>6. ASSUME NEW m \in marks PROVE Marked(m)'
  <2>1. ASSUME NEW w \in watches, m.watch = w.id, NEW i \in FillsOf(w.trader), w.since < i, i <= m.trade
        PROVE  [watch |-> w.id, trade |-> i] \in told'
    <3>1. Whole(m, w, owed) /\ m \in shown
      BY <1>2, <2>1 DEF Owes
    <3>2. i \in Nat /\ m.trade \in Nat
      BY <1>2 DEF Fill, FillsOf, IInv, WellTyped
    <3>3. CASE i = m.trade
      BY <1>1, <2>1, <3>1, <3>3
    <3>4. CASE i < m.trade
      <4>1. CASE Told(w, i)
        BY <1>4, <4>1 DEF Told
      <4>2. CASE [watch |-> w.id, chat |-> w.chat, trade |-> i] \in owed
        <5> PICK g : g = [watch |-> w.id, chat |-> w.chat, trade |-> i]
          OBVIOUS
        <5>1. g \in shown
          BY <1>2, <3>1, <3>4, <4>2 DEF Whole
        <5>2. g.watch = w.id /\ g.trade = i
          OBVIOUS
        <5>3. [watch |-> g.watch, trade |-> g.trade] \in told'
          BY <1>1, <5>1
        <5> QED
          BY <5>2, <5>3
      <4> QED
        BY <2>1, <3>1, <3>4, <4>1, <4>2 DEF Whole
    <3> QED
      BY <2>1, <3>2, <3>3, <3>4
  <2>2. m.watch < nextWatch' /\ m.trade \in DOMAIN trades'
    BY <1>1, <1>2, <1>4
  <2> QED
    BY <1>1, <1>4, <2>1, <2>2 DEF Marked, Told
<1>7. /\ PassesSane' /\ passes' \in [Passes -> Pass]
      /\ passes'[p] = pass /\ \A q \in Passes : q # p => passes'[q] = passes[q]
  <2>1. Owes(pass.owed)'
    BY <1>2, <1>3, <1>5
  <2> QED
    BY <1>1, <1>3, <1>5, <1>6, <2>1, PassMoves
<1>8. WellTyped'
  <2>1. told' \subseteq [watch : Nat, trade : Nat]
    BY <1>1, <1>4 DEF IInv, WellTyped, Fill
  <2> QED
    BY <1>1, <1>7, <2>1 DEF IInv, WellTyped, Handler
<1>9. WatchesSane' /\ HandledOnce'
  BY <1>1 DEF IInv, WatchesSane, HandledOnce
<1>10. ToldUpToCursor'
  BY <1>1, <1>4 DEF IInv, ToldUpToCursor, Told
<1>11. ToldIsMarked'
  <2>1. ASSUME NEW w, NEW i, Accounted(w, i) PROVE Accounted(w, i)'
    BY <1>1, <1>7, <2>1 DEF Accounted
  <2>2. ASSUME NEW w \in watches, NEW i \in FillsOf(w.trader), Told(w, i)', ~Told(w, i) PROVE Accounted(w, i)'
    <3> PICK f \in shown : [watch |-> w.id, trade |-> i] = [watch |-> f.watch, trade |-> f.trade]
      BY <1>1, <2>2 DEF Told
    <3>1. f.watch = w.id /\ f.trade = i
      OBVIOUS
    <3> PICK m \in marks : m.watch = f.watch /\ f.trade <= m.trade
      BY <1>2
    <3> QED
      BY <1>3, <1>7, <3>1 DEF Accounted
  <2> QED
    BY <1>1, <1>4, <2>1, <2>2 DEF IInv, ToldIsMarked
<1> QED
  BY <1>7, <1>8, <1>9, <1>10, <1>11 DEF IInv

\* A pass that was not advancing gives up a chat, or all.
LEMMA GivesUpKeeps ==
    ASSUME IInv, NEW p \in Passes, passes[p].pc # "idle", NEW pass \in {Idle, ThenNext(p)},
           Goes(p, pass), watches' \subseteq watches, gone' \subseteq Chats, faults' \in Nat,
           told \subseteq told', told' \subseteq told \cup ShownTo(p),
           UNCHANGED <<updates, blocked, claimed, nextWatch, trades, handlers>>,
           faults' # 0 \/ (passes[p].pc = "send" /\ told' = told /\ faults' = faults)
    PROVE  IInv'
<1>1. /\ pass \in Pass /\ pass.pc \in {"idle", "send"} /\ (pass.pc # "idle" => Owes(pass.owed))
  BY ThenNextFacts DEF Idle, Pass
<1>2. \A w \in watches' : SameWatch(w, w) /\ w \in watches
  BY DEF SameWatch
<1>3. (\A o : Owes(o) => Owes(o)') /\ (\A m : Marked(m) => Marked(m)')
  BY <1>2, SameFills
<1>4. /\ PassesSane' /\ passes' \in [Passes -> Pass]
      /\ passes'[p] = pass /\ \A q \in Passes : q # p => passes'[q] = passes[q]
  <2>1. pass.pc # "idle" => Owes(pass.owed)'
    <3> PICK owed : owed = pass.owed
      OBVIOUS
    <3> QED
      BY <1>1, <1>3
  <2> QED
    BY <1>1, <1>3, <2>1, PassMoves
<1>5. \A x \in told' : x \in [watch : Nat, trade : Nat] /\ x.watch < nextWatch /\ x.trade \in DOMAIN trades
  <2>1. \A f \in Shown(p) : f \in Fill /\ f.watch < nextWatch /\ f.trade \in DOMAIN trades
    BY ShownFacts DEF Owes
  <2>2. \A x \in ShownTo(p) : x \in [watch : Nat, trade : Nat] /\ x.watch < nextWatch /\ x.trade \in DOMAIN trades
    BY <2>1 DEF ShownTo, Fill
  <2> QED
    BY <2>2 DEF IInv, WellTyped, ToldUpToCursor
<1>6. WellTyped'
  <2>1. IsFiniteSet(watches') /\ watches' \subseteq Watch
    BY FS_Subset DEF IInv, WellTyped
  <2> QED
    BY <1>4, <1>5, <2>1 DEF IInv, WellTyped, Handler
<1>7. WatchesSane' /\ HandledOnce'
  BY DEF IInv, WatchesSane, HandledOnce
<1>8. \A t : FillsOf(t)' = FillsOf(t)
  BY FillTraders
<1>9. ToldUpToCursor'
  BY <1>2, <1>5, <1>8 DEF IInv, ToldUpToCursor, Told
<1>10. ToldIsMarked'
  <2> SUFFICES ASSUME faults' = 0 PROVE ToldIsMarked'
    BY DEF ToldIsMarked
  <2>1. passes[p].pc = "send" /\ told' = told /\ faults = 0
    OBVIOUS
  <2>2. ASSUME NEW w, NEW i, Accounted(w, i) PROVE Accounted(w, i)'
    BY <1>4, <2>1, <2>2 DEF Accounted
  <2> QED
    BY <1>2, <1>8, <2>1, <2>2 DEF IInv, ToldIsMarked, Told
<1> QED
  BY <1>4, <1>6, <1>7, <1>9, <1>10 DEF IInv

LEMMA SendForbiddenKeeps == ASSUME IInv, NEW p \in Passes, SendForbidden(p) \/ SendFails(p) PROVE IInv'
<1>1. /\ passes[p].pc = "send" /\ Goes(p, ThenNext(p)) /\ watches' \subseteq watches
      /\ UNCHANGED <<updates, blocked, claimed, nextWatch, trades, handlers>>
      /\ gone' = gone \ {NextChat(p)}
  BY DEF SendForbidden, SendFails, SendGivesNull, webhookSide, telegramSide
<1>2. gone' \subseteq Chats /\ faults \in Nat
  BY <1>1 DEF IInv, WellTyped
<1>3. CASE SendForbidden(p)
  <2>1. UNCHANGED <<told, faults>>
    BY <1>3 DEF SendForbidden
  <2> QED
    BY <1>1, <1>2, <2>1, GivesUpKeeps
<1>4. CASE SendFails(p)
  <2>1. told \subseteq told' /\ told' \subseteq told \cup ShownTo(p) /\ faults' \in Nat /\ faults' # 0
    BY <1>2, <1>4 DEF SendFails, Fault
  <2> QED
    BY <1>1, <1>2, <2>1, GivesUpKeeps
<1> QED
  BY <1>3, <1>4

LEMMA PassFailsKeeps == ASSUME IInv, NEW p \in Passes, PassFails(p) PROVE IInv'
<1>1. /\ Goes(p, Idle) /\ passes[p] # Idle /\ faults' = faults + 1
      /\ UNCHANGED <<updates, blocked, claimed, nextWatch, trades, handlers, watches, gone, told>>
  BY DEF PassFails, Fault, webhookSide, telegramSide
<1>2. passes[p] \in Pass /\ faults \in Nat /\ gone \subseteq Chats
  BY DEF IInv, WellTyped
<1>3. passes[p].pc # "idle" /\ faults' \in Nat /\ faults' # 0
  BY <1>1, <1>2, PassFacts
<1> QED
  BY <1>1, <1>2, <1>3, GivesUpKeeps

\* A cursor moves to a mark, up to which its chat was told everything.
LEMMA AdvancesKeeps == ASSUME IInv, NEW p \in Passes, Advances(p) PROVE IInv'
<1> DEFINE Moved(w, mark) == IF w.id = mark.watch THEN [w EXCEPT !.cursor = Forward(w.cursor, mark.trade)] ELSE w
           left(mark) == passes[p].marks \ {mark}
           next(mark) == IF left(mark) = {} THEN ThenNext(p) ELSE [passes[p] EXCEPT !.marks = left(mark)]
<1> PICK mark \in passes[p].marks : watches' = {Moved(w, mark) : w \in watches} /\ Goes(p, next(mark))
  BY DEF Advances
<1> PICK pass : pass = next(mark)
  OBVIOUS
<1>1. /\ passes[p].pc = "advance"
      /\ UNCHANGED <<updates, blocked, claimed, nextWatch, trades, handlers, gone, told, faults>>
  BY DEF Advances, webhookSide, telegramSide
<1>2. /\ passes[p] \in Pass /\ passes[p].owed \in SUBSET Fill /\ passes[p].marks \in SUBSET Fill
      /\ Owes(passes[p].owed) /\ \A m \in passes[p].marks : Marked(m)
  <2>1. passes[p] \in Pass
    BY DEF IInv, WellTyped
  <2> QED
    BY <1>1, <2>1, PassFacts DEF IInv, PassesSane
<1>3. /\ mark \in Fill /\ mark.trade \in Nat /\ Marked(mark) /\ mark.trade \in DOMAIN trades
      /\ mark.trade <= Len(trades)
  BY <1>2 DEF Fill, Marked, IInv, WellTyped
<1>4. ASSUME NEW w \in watches
      PROVE  /\ Moved(w, mark) \in Watch /\ SameWatch(Moved(w, mark), w)
             /\ Moved(w, mark).cursor \in Nat /\ w.cursor \in Nat /\ w.cursor <= Moved(w, mark).cursor
             /\ Moved(w, mark).cursor <= Len(trades)
             /\ w.id = mark.watch => mark.trade <= Moved(w, mark).cursor
             /\ Moved(w, mark).cursor = w.cursor \/ (w.id = mark.watch /\ Moved(w, mark).cursor = mark.trade)
  <2>1. w \in Watch /\ w.cursor \in Nat /\ w.cursor <= Len(trades)
    BY DEF IInv, WellTyped, Watch, WatchesSane
  <2>2. CASE w.id = mark.watch
    BY <1>3, <2>1, <2>2 DEF Watch, SameWatch, Forward
  <2>3. CASE w.id # mark.watch
    BY <2>1, <2>3 DEF Watch, SameWatch
  <2> QED
    BY <2>2, <2>3
<1>5. IsFiniteSet(watches') /\ watches' \subseteq Watch
  <2> DEFINE f == [w \in watches |-> Moved(w, mark)]
             T == {f[w] : w \in watches}
  <2>1. f \in Surjection(watches, T) /\ T = watches'
    BY DEF Surjection
  <2> HIDE DEF f, T, Moved
  <2>2. IsFiniteSet(watches)
    BY DEF IInv, WellTyped
  <2>3. IsFiniteSet(T)
    BY <2>1, <2>2, FS_Surjection
  <2> QED
    BY <1>4, <2>1, <2>3
<1> HIDE DEF Moved
<1>6. (\A o : Owes(o) => Owes(o)') /\ (\A m : Marked(m) => Marked(m)')
  <2>1. \A u \in watches' : \E w \in watches : SameWatch(u, w)
    BY <1>4
  <2> QED
    BY <1>1, <2>1, SameFills
<1>7. /\ pass \in Pass
      /\ pass.pc # "idle" => Owes(pass.owed)'
      /\ pass.pc = "advance" => \A m \in pass.marks : m \in passes[p].marks
      /\ left(mark) # {} => pass.pc = "advance" /\ pass.marks = left(mark)
  <2>1. CASE left(mark) = {}
    <3>1. pass \in Pass /\ pass.pc \in {"idle", "send"} /\ (pass.pc # "idle" => Owes(pass.owed))
      BY <1>1, <2>1, ThenNextFacts
    <3> PICK owed : owed = pass.owed
      OBVIOUS
    <3> QED
      BY <1>6, <2>1, <3>1
  <2>2. CASE left(mark) # {}
    <3>1. pass = [passes[p] EXCEPT !.marks = left(mark)]
      BY <2>2
    <3>2. passes[p] \in [pc : {"advance"}, owed : SUBSET Fill, marks : SUBSET Fill]
      BY <1>1, <1>2 DEF Pass
    <3>3. /\ pass \in [pc : {"advance"}, owed : SUBSET Fill, marks : SUBSET Fill]
          /\ pass.pc = "advance" /\ pass.owed = passes[p].owed /\ pass.marks = left(mark)
      BY <3>1, <3>2
    <3> PICK owed : owed = pass.owed
      OBVIOUS
    <3>4. Owes(owed)'
      BY <1>2, <1>6, <3>3
    <3> QED
      BY <3>3, <3>4 DEF Pass
  <2> QED
    BY <2>1, <2>2
<1>8. /\ PassesSane' /\ passes' \in [Passes -> Pass]
      /\ passes'[p] = pass /\ \A q \in Passes : q # p => passes'[q] = passes[q]
  BY <1>2, <1>6, <1>7, PassMoves
<1>9. WellTyped'
  BY <1>1, <1>5, <1>8 DEF IInv, WellTyped, Handler
<1>10. HandledOnce'
  BY <1>1 DEF IInv, HandledOnce
<1>11. WatchesSane'
  <2>1. ASSUME NEW u \in watches', NEW v \in watches'
        PROVE  /\ u.id < nextWatch /\ u.cursor <= Len(trades)
               /\ u.id = v.id => u = v
               /\ u.chat = v.chat /\ u.trader = v.trader => u = v
    <3> PICK w \in watches : u = Moved(w, mark)
      OBVIOUS
    <3> PICK x \in watches : v = Moved(x, mark)
      OBVIOUS
    <3>1. SameWatch(u, w) /\ SameWatch(v, x) /\ u.cursor <= Len(trades)
      BY <1>4
    <3> QED
      BY <3>1 DEF SameWatch, IInv, WatchesSane
  <2> QED
    BY <1>1, <2>1 DEF WatchesSane
<1>12. \A t : FillsOf(t)' = FillsOf(t) /\ \A i \in FillsOf(t) : i \in Nat
  BY <1>1 DEF FillsOf, IInv, WellTyped
<1>13. ToldUpToCursor'
  <2>1. ASSUME NEW u \in watches', NEW i \in FillsOf(u.trader), u.since < i, i <= u.cursor PROVE Told(u, i)
    <3> PICK w \in watches : u = Moved(w, mark)
      OBVIOUS
    <3>1. /\ SameWatch(u, w) /\ u.cursor \in Nat /\ w.cursor \in Nat /\ i \in Nat
          /\ u.cursor = w.cursor \/ (w.id = mark.watch /\ u.cursor = mark.trade)
      BY <1>4, <1>12
    <3>2. Told(w, i)
      BY <1>3, <2>1, <3>1 DEF IInv, ToldUpToCursor, Marked, SameWatch
    <3> QED
      BY <3>1, <3>2 DEF Told, SameWatch
  <2>2. \A x \in told' : x.watch < nextWatch' /\ x.trade \in DOMAIN trades'
    BY <1>1 DEF IInv, ToldUpToCursor
  <2> QED
    BY <1>1, <1>12, <2>1, <2>2 DEF ToldUpToCursor, Told
<1>14. ToldIsMarked'
  <2> SUFFICES ASSUME faults' = 0, NEW u \in watches', NEW i \in FillsOf(u.trader), Told(u, i)
               PROVE  Accounted(u, i)'
    BY <1>1, <1>12 DEF ToldIsMarked, Told
  <2> PICK w \in watches : u = Moved(w, mark)
    OBVIOUS
  <2>1. /\ SameWatch(u, w) /\ u.cursor \in Nat /\ w.cursor \in Nat /\ i \in Nat
        /\ w.cursor <= u.cursor /\ (w.id = mark.watch => mark.trade <= u.cursor)
    BY <1>4, <1>12
  <2>2. Accounted(w, i)
    BY <1>1, <2>1 DEF IInv, ToldIsMarked, Told, SameWatch
  <2>3. CASE i <= w.cursor
    BY <2>1, <2>3 DEF Accounted
  <2>4. CASE \E q \in Passes : passes[q].pc = "advance" /\ \E m \in passes[q].marks : m.watch = w.id /\ i <= m.trade
    <3> PICK q \in Passes : passes[q].pc = "advance" /\ \E m \in passes[q].marks : m.watch = w.id /\ i <= m.trade
      BY <2>4
    <3> PICK m \in passes[q].marks : m.watch = w.id /\ i <= m.trade
      OBVIOUS
    <3>1. u.id = w.id
      BY <2>1 DEF SameWatch
    <3>2. CASE q # p
      BY <1>8, <3>1, <3>2 DEF Accounted
    <3>3. CASE q = p /\ m # mark
      <4>1. m \in left(mark)
        BY <3>3
      <4>2. passes'[p].pc = "advance" /\ m \in passes'[p].marks
        BY <1>7, <1>8, <4>1
      <4> QED
        BY <3>1, <4>2 DEF Accounted
    <3>4. CASE m = mark
      <4>1. i <= u.cursor
        BY <1>3, <2>1, <3>4
      <4> QED
        BY <4>1 DEF Accounted
    <3> QED
      BY <3>2, <3>3, <3>4
  <2> QED
    BY <2>2, <2>3, <2>4 DEF Accounted
<1> QED
  BY <1>8, <1>9, <1>10, <1>11, <1>13, <1>14 DEF IInv

LEMMA CrashKeeps == ASSUME IInv, Crash PROVE IInv'
<1>1. /\ handlers' = {} /\ passes' = [q \in Passes |-> Idle] /\ gone' = {} /\ faults' = faults + 1
      /\ UNCHANGED <<updates, blocked, claimed, watches, nextWatch, trades, told>>
  BY DEF Crash, Fault, telegramSide
<1>2. passes' \in [Passes -> Pass] /\ \A q \in Passes : passes'[q].pc = "idle"
  BY <1>1 DEF Pass, Idle
<1>3. faults' \in Nat /\ faults' # 0
  BY <1>1 DEF IInv, WellTyped
<1>4. WellTyped'
  BY <1>1, <1>2, <1>3 DEF IInv, WellTyped
<1>5. HandledOnce' /\ WatchesSane'
  BY <1>1 DEF IInv, HandledOnce, WatchesSane
<1>6. ToldUpToCursor'
  BY <1>1 DEF IInv, ToldUpToCursor, Told, FillsOf
<1>7. PassesSane' /\ ToldIsMarked'
  BY <1>2, <1>3 DEF PassesSane, ToldIsMarked
<1> QED
  BY <1>4, <1>5, <1>6, <1>7 DEF IInv

LEMMA StutterKeeps == ASSUME IInv, UNCHANGED vars PROVE IInv'
<1>1. UNCHANGED <<updates, blocked, claimed, watches, nextWatch, trades, handlers, passes, gone, told, faults>>
  BY DEF vars, telegramSide
<1>2. WellTyped'
  BY <1>1 DEF IInv, WellTyped, Handler
<1>3. HandledOnce'
  BY <1>1 DEF IInv, HandledOnce
<1> QED
  BY <1>1, <1>2, <1>3, NotifierApart DEF IInv

LEMMA StartsSane == Init => IInv
<1> SUFFICES ASSUME Init PROVE IInv
  OBVIOUS
<1>1. passes \in [Passes -> Pass] /\ \A q \in Passes : passes[q].pc = "idle"
  BY DEF Init, Pass, Idle
<1>2. WellTyped
  <2>1. updates \in Seq(Updates) /\ trades \in Seq([trader : Traders, update : Nat])
    BY DEF Init
  <2>2. IsFiniteSet(watches)
    BY FS_EmptySet DEF Init
  <2> QED
    BY <1>1, <2>1, <2>2 DEF Init, WellTyped
<1>3. HandledOnce /\ WatchesSane /\ ToldUpToCursor
  BY DEF Init, HandledOnce, WatchesSane, ToldUpToCursor
<1>4. PassesSane /\ ToldIsMarked
  BY <1>1 DEF Init, PassesSane, ToldIsMarked
<1> QED
  BY <1>2, <1>3, <1>4 DEF IInv

\* Whatever is delivered twice, blocked, cut short or lost, and however passes overlap,
\* what the tables hold and what is on its way agree (router.ts, notify.ts).
THEOREM Invariance == Spec => []IInv
<1>1. IInv /\ [Next]_vars => IInv'
  <2> SUFFICES ASSUME IInv, [Next]_vars PROVE IInv'
    OBVIOUS
  <2>1. CASE \E update \in Updates : Says(update)
    BY <2>1, SaysKeeps
  <2>2. CASE \E c \in Chats : Blocks(c) \/ Unblocks(c)
    BY <2>2, BlocksKeeps
  <2>3. CASE \E t \in Traders : TradesElsewhere(t)
    BY <2>3, TradesElsewhereKeeps
  <2>4. CASE \E id \in DOMAIN updates : Delivers(id)
    BY <2>4, DeliversKeeps
  <2>5. CASE \E h \in handlers : HandlerStep(h) \/ HandlerFails(h)
    BY <2>5, OrdersKeeps, UnwatchesKeeps, WatchStepsKeep, WatchRefusedKeeps, InsertsWatchKeeps, HandlerFailsKeeps
       DEF HandlerStep
  <2>6. CASE \E p \in Passes : PassStep(p) \/ SendFails(p) \/ PassFails(p)
    BY <2>6, StartsPassKeeps, SendAcceptedKeeps, SendForbiddenKeeps, AdvancesKeeps, PassFailsKeeps DEF PassStep
  <2>7. CASE Crash
    BY <2>7, CrashKeeps
  <2>8. CASE UNCHANGED vars
    BY <2>8, StutterKeeps
  <2> QED
    BY <2>1, <2>2, <2>3, <2>4, <2>5, <2>6, <2>7, <2>8 DEF Next
<1> QED
  BY <1>1, StartsSane, PTL DEF Spec

\* However often an update is delivered, it fills at most once (db/telegram.ts:8).
THEOREM FillsOnce == Spec => []FilledOnce
<1>1. IInv => FilledOnce
  <2> SUFFICES ASSUME IInv PROVE FilledOnce
    OBVIOUS
  <2>1. \A w \in watches : w.id < nextWatch /\ w.chat \in Chats /\ w.trader \in Traders
    BY DEF IInv, WellTyped, Watch, WatchesSane
  <2>2. \A w, v \in watches : v.id = w.id \/ <<v.chat, v.trader>> = <<w.chat, w.trader>> => v = w
    BY DEF IInv, WatchesSane
  <2>3. ASSUME NEW i \in DOMAIN trades PROVE trades[i].trader \in Traders
    <3> DEFINE Trade == [trader : Traders, update : Nat]
    <3>1. trades \in Seq(Trade)
      BY DEF IInv, WellTyped
    <3> HIDE DEF Trade
    <3>2. trades[i] \in Trade
      BY <3>1
    <3> QED
      BY <3>2 DEF Trade
  <2>4. \A h \in handlers : h.update \in DOMAIN updates
    BY DEF IInv, WellTyped, Handler
  <2>5. TypeOK
    BY <2>1, <2>2, <2>3, <2>4 DEF TypeOK, IInv, WellTyped
  <2> QED
    BY <2>5 DEF FilledOnce, IInv, HandledOnce
<1> QED
  BY <1>1, Invariance, PTL

\* A cursor never passes a fill its chat was not shown; and while nothing goes wrong and no
\* pass is under way, nothing past it was shown (telegram-watch.ts:6).
THEOREM CursorsAreTrue == Spec => []CursorIsWhatWasTold
<1>1. IInv => CursorIsWhatWasTold
  <2> SUFFICES ASSUME IInv PROVE CursorIsWhatWasTold
    OBVIOUS
  <2>1. \A w \in watches : \A i \in FillsOf(w.trader) :
           w.since < i /\ i <= w.cursor => [watch |-> w.id, trade |-> i] \in told
    BY DEF IInv, ToldUpToCursor, Told
  <2>2. ASSUME faults = 0, \A p \in Passes : passes[p] = Idle, NEW w \in watches, NEW i \in Owed(w),
               [watch |-> w.id, trade |-> i] \in told
        PROVE  FALSE
    <3>1. i \in FillsOf(w.trader) /\ i > w.cursor /\ i \in Nat /\ w.cursor \in Nat
      BY DEF Owed, FillsOf, IInv, WellTyped, Watch
    <3>2. Accounted(w, i)
      BY <2>2, <3>1 DEF IInv, ToldIsMarked, Told
    <3>3. \A p \in Passes : passes[p].pc # "advance"
      BY <2>2 DEF Idle
    <3> QED
      BY <3>1, <3>2, <3>3 DEF Accounted
  <2> QED
    BY <2>1, <2>2 DEF CursorIsWhatWasTold
<1> QED
  BY <1>1, Invariance, PTL
==============================================================================
