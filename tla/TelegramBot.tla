----------------------------- MODULE TelegramBot -----------------------------
(***************************************************************************)
(* The Telegram bot (app/api/telegram/webhook, app/lib/telegram,           *)
(* db/telegram.ts, db/telegram-watch.ts).  Telegram may deliver an update   *)
(* any number of times, or never if the claim fails; the webhook claims it *)
(* and runs a command, one step per statement it awaits.  Every twenty     *)
(* seconds a pass of the notifier tells chats of the fills of the traders  *)
(* they watch, whether or not the last pass is done.                       *)
(*                                                                         *)
(* An update is a trade asked for, a watch or its end: the other commands  *)
(* only answer.  A trader stands for the wallet its owner has linked, and  *)
(* an order either fills or does not (module TradeLedger says which).      *)
(***************************************************************************)
EXTENDS Integers, Sequences, FiniteSets, SequencesExt

CONSTANTS
    Chats,
    Traders,        \* wallets
    Passes,         \* passes of the notifier that may overlap
    PassLimit,      \* PASS_LIMIT
    MaxLines,       \* MAX_LINES
    MaxWatches,     \* MAX_WATCHES_PER_CHAT
    UpdateBound,    \* bound of the model: updates sent
    FillBound,      \* bound of the model: trades recorded
    FaultBound      \* bound of the model: crashes, failures, lost answers, blocks

ASSUME LimitAssumption ==
    PassLimit \in Nat \ {0} /\ MaxLines \in Nat \ {0} /\ MaxWatches \in Nat
ASSUME BoundAssumption == UpdateBound \in Nat /\ FillBound \in Nat /\ FaultBound \in Nat

VARIABLES
    updates,     \* sent by people, in the order of their ids
    blocked,     \* chats that have thrown the bot out
    claimed,     \* the table telegram_updates
    watches,     \* the table telegram_watch
    nextWatch,   \* its AUTOINCREMENT
    trades,      \* the table trades; update 0 is an order placed elsewhere
    handlers,    \* webhook requests past their claim
    passes,      \* the notifier's passes
    gone,        \* HttpTelegram.#gone
    told,        \* history: which fills a watch's chat was shown
    faults

telegramSide == <<updates, blocked>>
vars == <<telegramSide, claimed, watches, nextWatch, trades, handlers, passes, gone, told, faults>>

Idle == [pc |-> "idle"]

Init ==
    /\ updates = <<>> /\ blocked = {}
    /\ claimed = {} /\ watches = {} /\ nextWatch = 1 /\ trades = <<>>
    /\ handlers = {} /\ passes = [p \in Passes |-> Idle]
    /\ gone = {} /\ told = {} /\ faults = 0

Fault == faults < FaultBound /\ faults' = faults + 1

------------------------------------------------------------------------------
(***************************************************************************)
(* People, and trades placed elsewhere                                     *)
(***************************************************************************)

Says(update) ==
    /\ Len(updates) < UpdateBound /\ update.chat \notin blocked
    /\ updates' = Append(updates, update)
    /\ UNCHANGED <<blocked, claimed, watches, nextWatch, trades, handlers, passes, gone, told, faults>>

Blocks(c) ==
    /\ c \notin blocked /\ Fault
    /\ blocked' = blocked \cup {c}
    /\ UNCHANGED <<updates, claimed, watches, nextWatch, trades, handlers, passes, gone, told>>

Unblocks(c) ==
    /\ c \in blocked /\ blocked' = blocked \ {c}
    /\ UNCHANGED <<updates, claimed, watches, nextWatch, trades, handlers, passes, gone, told, faults>>

Recorded(t, id) ==
    /\ Len(trades) < FillBound
    /\ trades' = Append(trades, [trader |-> t, update |-> id])

TradesElsewhere(t) ==
    /\ Recorded(t, 0)
    /\ UNCHANGED <<telegramSide, claimed, watches, nextWatch, handlers, passes, gone, told, faults>>

------------------------------------------------------------------------------
(***************************************************************************)
(* The webhook                                                             *)
(***************************************************************************)

\* The claim is the insert: an update claimed before is answered and nothing else.
ClaimsNothing(id) == claimed
Claims(id) == claimed \cup {id}

Delivers(id) ==
    /\ id \notin claimed
    /\ claimed' = Claims(id)
    /\ handlers' = handlers \cup {[update |-> id, step |-> "routed", count |-> 0, newest |-> 0]}
    /\ UNCHANGED <<telegramSide, watches, nextWatch, trades, passes, gone, told, faults>>

Asked(h) == updates[h.update]
OfChat(c) == {w \in watches : w.chat = c}
OfHis(h) == {w \in OfChat(Asked(h).chat) : w.trader = Asked(h).trader}

\* The handler says what came of it, which finds out whether its chat has blocked the
\* bot.
Replies(h) ==
    /\ handlers' = handlers \ {h}
    /\ gone' = IF Asked(h).chat \in blocked THEN gone \cup {Asked(h).chat} ELSE gone
    /\ UNCHANGED <<telegramSide, claimed, passes, told, faults>>

Continues(h, next) ==
    /\ handlers' = (handlers \ {h}) \cup {next}
    /\ UNCHANGED <<telegramSide, claimed, watches, nextWatch, trades, passes, gone, told, faults>>

At(h, kind, step) == Asked(h).kind = kind /\ h.step = step

\* buy, sell and a tap on a size: tradeFromChat.
Orders(h) ==
    /\ At(h, "order", "routed")
    /\ \/ Recorded(Asked(h).trader, h.update)
       \/ UNCHANGED trades
    /\ Replies(h)
    /\ UNCHANGED <<watches, nextWatch>>

Unwatches(h) ==
    /\ At(h, "unwatch", "routed")
    /\ watches' = watches \ OfHis(h)
    /\ Replies(h)
    /\ UNCHANGED <<nextWatch, trades>>

CountsWatches(h) ==
    /\ At(h, "watch", "routed")
    /\ Continues(h, [h EXCEPT !.step = "counted", !.count = Cardinality(OfChat(Asked(h).chat))])

\* already, or too_many
WatchRefused(h) ==
    /\ At(h, "watch", "counted")
    /\ OfHis(h) # {} \/ h.count >= MaxWatches
    /\ Replies(h)
    /\ UNCHANGED <<watches, nextWatch, trades>>

WatchAllowed(h) ==
    /\ At(h, "watch", "counted")
    /\ OfHis(h) = {} /\ h.count < MaxWatches
    /\ Continues(h, [h EXCEPT !.step = "allowed"])

FillsOf(t) == {i \in DOMAIN trades : trades[i].trader = t}

\* COALESCE(MAX(id), 0)
ReadsNewest(h) ==
    /\ At(h, "watch", "allowed")
    /\ Continues(h, [h EXCEPT !.step = "read",
                              !.newest = Max({0} \cup FillsOf(Asked(h).trader))])

\* ON CONFLICT DO NOTHING: one watch per trader per chat.
InsertsWatch(h) ==
    /\ At(h, "watch", "read")
    /\ IF OfHis(h) = {}
       THEN /\ watches' = watches \cup
                  {[id |-> nextWatch, chat |-> Asked(h).chat, trader |-> Asked(h).trader,
                    cursor |-> h.newest, since |-> h.newest]}
            /\ nextWatch' = nextWatch + 1
       ELSE UNCHANGED <<watches, nextWatch>>
    /\ Replies(h)
    /\ UNCHANGED trades

\* A statement throws: route logs it and the update counts as handled.
HandlerFails(h) ==
    /\ Fault
    /\ handlers' = handlers \ {h}
    /\ UNCHANGED <<telegramSide, claimed, watches, nextWatch, trades, passes, gone, told>>

------------------------------------------------------------------------------
(***************************************************************************)
(* The notifier                                                            *)
(***************************************************************************)

NewestFirst(f, g) == f.trade > g.trade \/ (f.trade = g.trade /\ f.watch < g.watch)
OldestFirst(f, g) == f.trade < g.trade \/ (f.trade = g.trade /\ f.watch < g.watch)

\* ORDER BY t.id LIMIT n: those that fewer than n others come before.
First(fills, n) == {f \in fills : Cardinality({g \in fills : OldestFirst(g, f)}) < n}

Owed(w) == {i \in FillsOf(w.trader) : i > w.cursor}
FillsFor(w) == {[watch |-> w.id, chat |-> w.chat, trade |-> i] : i \in Owed(w)}
PendingFills == First(UNION {FillsFor(w) : w \in watches}, PassLimit)

webhookSide == <<telegramSide, claimed, nextWatch, trades, handlers>>
Goes(p, pass) == passes' = [passes EXCEPT ![p] = pass]

StartsPass(p) ==
    /\ passes[p] = Idle /\ PendingFills # {}
    /\ Goes(p, [pc |-> "send", owed |-> PendingFills])
    /\ UNCHANGED <<webhookSide, watches, gone, told, faults>>

\* Chats in the order of their oldest fills.
NextChat(p) ==
    (CHOOSE f \in passes[p].owed : \A g \in passes[p].owed : g = f \/ OldestFirst(f, g)).chat
FillsNow(p) == {f \in passes[p].owed : f.chat = NextChat(p)}
Shown(p) == First(FillsNow(p), MaxLines)

ThenNext(p) ==
    LET rest == passes[p].owed \ FillsNow(p)
    IN  IF rest = {} THEN Idle ELSE [pc |-> "send", owed |-> rest]

ShownTo(p) == {[watch |-> f.watch, trade |-> f.trade] : f \in Shown(p)}

\* What each watch is advanced to: the newest fill it was told of.
Marks(fills) == {f \in fills : \A g \in fills : g.watch = f.watch => g.trade <= f.trade}

SendAccepted(p) ==
    /\ passes[p].pc = "send" /\ NextChat(p) \notin blocked
    /\ told' = told \cup ShownTo(p)
    /\ Goes(p, [pc |-> "advance", owed |-> passes[p].owed, marks |-> Marks(Shown(p))])
    /\ UNCHANGED <<webhookSide, watches, gone, faults>>

\* sendMessage gives null: the watches go if the chat is known to be gone, and are
\* otherwise owed the same fills.
SendGivesNull(p) ==
    /\ watches' = IF NextChat(p) \in gone \cup blocked THEN watches \ OfChat(NextChat(p)) ELSE watches
    /\ gone' = gone \ {NextChat(p)}
    /\ Goes(p, ThenNext(p))
    /\ UNCHANGED webhookSide

SendForbidden(p) ==
    /\ passes[p].pc = "send" /\ NextChat(p) \in blocked
    /\ SendGivesNull(p)
    /\ UNCHANGED <<told, faults>>

\* Refused for now, or accepted with the answer lost.
SendFails(p) ==
    /\ passes[p].pc = "send" /\ NextChat(p) \notin blocked /\ Fault
    /\ told' \in {told, told \cup ShownTo(p)}
    /\ SendGivesNull(p)

\* last_trade_id < ?
Rewound(cursor, trade) == trade
Forward(cursor, trade) == IF cursor < trade THEN trade ELSE cursor

Advances(p) ==
    /\ passes[p].pc = "advance"
    /\ \E mark \in passes[p].marks :
          /\ watches' = {IF w.id = mark.watch THEN [w EXCEPT !.cursor = Forward(@, mark.trade)] ELSE w
                           : w \in watches}
          /\ LET left == passes[p].marks \ {mark}
             IN  Goes(p, IF left = {} THEN ThenNext(p) ELSE [passes[p] EXCEPT !.marks = left])
    /\ UNCHANGED <<webhookSide, gone, told, faults>>

PassFails(p) ==
    /\ passes[p] # Idle /\ Fault
    /\ Goes(p, Idle)
    /\ UNCHANGED <<webhookSide, watches, gone, told>>

\* The process dies between two awaits and is restarted.
Crash ==
    /\ Fault
    /\ handlers' = {} /\ passes' = [p \in Passes |-> Idle] /\ gone' = {}
    /\ UNCHANGED <<telegramSide, claimed, watches, nextWatch, trades, told>>

PassStep(p) == StartsPass(p) \/ SendAccepted(p) \/ SendForbidden(p) \/ Advances(p)

HandlerStep(h) ==
    \/ Orders(h) \/ Unwatches(h)
    \/ CountsWatches(h) \/ WatchRefused(h) \/ WatchAllowed(h) \/ ReadsNewest(h) \/ InsertsWatch(h)

Updates == [kind : {"order", "watch", "unwatch"}, chat : Chats, trader : Traders]

Next ==
    \/ \E update \in Updates : Says(update)
    \/ \E c \in Chats : Blocks(c) \/ Unblocks(c)
    \/ \E t \in Traders : TradesElsewhere(t)
    \/ \E id \in DOMAIN updates : Delivers(id)
    \/ \E h \in handlers : HandlerStep(h) \/ HandlerFails(h)
    \/ \E p \in Passes : PassStep(p) \/ SendFails(p) \/ PassFails(p)
    \/ Crash

\* The timer fires as long as the process lives, and every await of a pass returns.
Fairness == \A p \in Passes : WF_vars(PassStep(p))

Spec == Init /\ [][Next]_vars /\ Fairness

------------------------------------------------------------------------------
(***************************************************************************)
(* Properties                                                              *)
(***************************************************************************)

\* Shape of the tables, with one watch per trader and chat.
TypeOK ==
    /\ updates \in Seq(Updates) /\ claimed \subseteq DOMAIN updates
    /\ blocked \cup gone \subseteq Chats
    /\ \A w \in watches : /\ w.id < nextWatch /\ w.chat \in Chats /\ w.trader \in Traders
                          /\ \A v \in watches : v.id = w.id \/ <<v.chat, v.trader>> = <<w.chat, w.trader>>
                                                             => v = w
    /\ \A i \in DOMAIN trades : trades[i].trader \in Traders
    /\ \A h \in handlers : h.update \in DOMAIN updates

\* "A retried update is a second trade, the same tap filled twice" (db/telegram.ts:8):
\* however often an update is delivered, while or after it is handled and across
\* restarts, it fills at most once.
FilledOnce ==
    /\ TypeOK
    /\ \A i, j \in DOMAIN trades :
          trades[i].update = trades[j].update /\ trades[i].update # 0 => i = j

\* The cursor is the whole design (telegram-watch.ts:6): a watch's cursor says what its
\* chat was shown.  No fill up to it was skipped, whatever passes overlap, lines are cut
\* and sends fail; and once no pass is under way and nothing was lost, no fill past it
\* was shown, so that nothing is shown again.
CursorIsWhatWasTold ==
    /\ \A w \in watches : \A i \in FillsOf(w.trader) :
          w.since < i /\ i <= w.cursor => [watch |-> w.id, trade |-> i] \in told
    /\ faults = 0 /\ (\A p \in Passes : passes[p] = Idle) =>
          \A w \in watches : \A i \in Owed(w) : [watch |-> w.id, trade |-> i] \notin told

\* "Whatever does not fit is still owed" (notify.ts:49): trades being bounded, chats are
\* in the end shown every fill since the watches they keep were set up.
EverythingTold ==
    []<>(\A w \in watches : \A i \in FillsOf(w.trader) :
             i > w.since => [watch |-> w.id, trade |-> i] \in told)
==============================================================================
