---------------------------- MODULE ReconcilePass ----------------------------
(***************************************************************************)
(* The passes of the reconciler over all bots: reconcile_once and          *)
(* run_forever of services/reconciler.py with the scanner queries of       *)
(* services/tradingview.py.                                                *)
(*                                                                         *)
(* A pass reads the bots' settings and whitelists concurrently, asks the   *)
(* scanner once per exchange for all bots that trade there, and then goes  *)
(* over the bots one at a time to decide about their entries.  Owners and  *)
(* administrators change the bots in the meantime; the synchronous routes  *)
(* of the administrators run in other threads and take no lock, so they    *)
(* may commit between the reading of a row and the decision about it.      *)
(* What a decision makes the bot do is the subject of TradingGuard.        *)
(***************************************************************************)
EXTENDS Evaluation, SequencesExt

CONSTANTS
    Bots, Pairs, Timeframes, Exchanges,
    Whitelists,  \* of each bot, the sets of pairs it may be found to trade
    Markets,     \* what the scanner may hold, by exchange, timeframe and pair
    Permits,     \* bots asked for their whitelist at the same time
    Events       \* what may happen around the passes in this instance

ASSUME PassAssumption ==
    /\ IsFiniteSet(Bots) /\ IsFiniteSet(Pairs) /\ IsFiniteSet(Timeframes)
    /\ Permits \in Nat \ {0}
    /\ Whitelists \in [Bots -> SUBSET SUBSET Pairs]
    /\ Timeframes # {} /\ Exchanges # {}

(* What the scanner may hold for a pair, and what counts as its rating. *)
RawTables == [Timeframes -> [Pairs -> Int \cup {Missing}]]
Tables == [Timeframes -> [Pairs -> -10..10 \cup {Missing}]]

ASSUME MarketsAssumption == Markets \subseteq [Exchanges -> RawTables]

ASSUME EventsAssumption ==
    Events \subseteq {"settings", "exchange", "not_running", "unreachable",
                      "scanner_fails", "undecryptable", "delete"}

VARIABLES
    row,        \* the stored settings of each bot, and its decision
    gone,       \* ids whose bot was deleted
    market,     \* what the scanner holds
    sealed,     \* bots whose stored API password cannot be decrypted
    stage,      \* of the pass
    waiting,    \* bots the pass has yet to ask
    snap,       \* what the pass has read of the bots it asked
    order,      \* bots still to decide about, in the order they answered
    copy,       \* the row of the bot under decision, as the session read it
    answer      \* the ratings of each exchange

vars == <<row, gone, market, sealed, stage, waiting, snap, order, copy, answer>>

-----------------------------------------------------------------------------
Rows == [guard : BOOLEAN, timeframe : Timeframes, exchange : Exchanges, paused : BOOLEAN]
Unread == [state |-> "unread"]
Snaps == {Unread} \cup
    [state : {"asked", "read"}, guard : BOOLEAN, timeframe : Timeframes,
     exchange : Exchanges, pairs : SUBSET Pairs]

NotAsked == [tf \in Timeframes |-> [p \in Pairs |-> Missing]]
Unanswered == <<>>

Default(S) == CHOOSE x \in S : TRUE

NoRow == [guard |-> FALSE, timeframe |-> Default(Timeframes),
          exchange |-> Default(Exchanges), paused |-> FALSE]

(* The type invariant. *)
TypeOK ==
    /\ row \in [Bots -> Rows]
    /\ gone \subseteq Bots
    /\ market \in Markets
    /\ sealed \subseteq Bots
    /\ stage \in {"idle", "collect", "fetch", "decide", "commit"}
    /\ waiting \subseteq Bots
    /\ snap \in [Bots -> Snaps]
    /\ order \in Seq(Bots)
    /\ copy \in Rows
    /\ answer \in [Exchanges -> {Unanswered} \cup Tables]

Asking == {b \in Bots : snap[b].state = "asked"}

-----------------------------------------------------------------------------
(* The request to the scanner and its answer. *)

(* The bots the scanner is asked about on an exchange, and their pairs. *)
Guarded(e) == {b \in ToSet(order) : snap[b].guard /\ snap[b].exchange = e}

AskedPairs(e, tf) == UNION {snap[b].pairs : b \in {x \in Guarded(e) : snap[x].timeframe = tf}}

(* One column for each timeframe in use. *)
Columns(e) == SetToSeq({snap[b].timeframe : b \in Guarded(e)})

(* The row of a symbol in the response: its rating in each column. *)
Response(e, p) == [i \in DOMAIN Columns(e) |-> market[e][Columns(e)[i]][p]]

(* Mutated form of Checked: whatever the response holds is a rating. *)
Unchecked(v) == v

(* A value out of range is no rating. *)
Checked(v) == IF v \in -10..10 THEN v ELSE Missing

(* Mutated form of Ratings: the first column is read for every timeframe. *)
RatingsOfFirst(e) ==
    [tf \in Timeframes |-> [p \in Pairs |->
        IF p \in AskedPairs(e, tf) THEN Checked(Response(e, p)[1]) ELSE Missing]]

(* Each response is read by the column of its timeframe. *)
Ratings(e) ==
    [tf \in Timeframes |-> [p \in Pairs |->
        IF p \in AskedPairs(e, tf)
        THEN Checked(Response(e, p)[CHOOSE i \in DOMAIN Columns(e) : Columns(e)[i] = tf])
        ELSE Missing]]

-----------------------------------------------------------------------------
(* The steps of a pass. *)

(* The rows are loaded and Docker says which containers run. *)
Begin(halted) ==
    /\ stage = "idle"
    /\ waiting' = Bots \ (halted \cup gone)
    /\ stage' = "collect"
    /\ UNCHANGED <<row, gone, market, sealed, snap, order, copy, answer>>

Start == Begin({})

StartWithout ==
    "not_running" \in Events /\ \E halted \in SUBSET Bots \ {{}} : Begin(halted)

Forget ==
    /\ waiting' = {}
    /\ snap' = [b \in Bots |-> Unread]
    /\ order' = <<>>
    /\ answer' = [e \in Exchanges |-> Unanswered]

(* The settings are read again, then the bot is asked for its whitelist.   *)
(* The proxy decrypts the bot's password to log in.                        *)
Ask(b) ==
    /\ stage = "collect" /\ b \in waiting
    /\ Cardinality(Asking) < Permits
    /\ b \notin gone \cup sealed
    /\ waiting' = waiting \ {b}
    /\ snap' = [snap EXCEPT ![b] =
          [state |-> "asked", guard |-> row[b].guard, timeframe |-> row[b].timeframe,
           exchange |-> row[b].exchange, pairs |-> {}]]
    /\ UNCHANGED <<row, gone, market, sealed, stage, order, copy, answer>>

(* Neither a row that is gone when it is read again nor a password that    *)
(* cannot be decrypted is handled by collect: the pass is over for all.    *)
Abort(b) ==
    /\ stage = "collect" /\ b \in waiting
    /\ Cardinality(Asking) < Permits
    /\ b \in gone \cup sealed
    /\ stage' = "idle"
    /\ Forget
    /\ UNCHANGED <<row, gone, market, sealed, copy>>

TellsPairs(b, pairs) ==
    /\ b \in Asking
    /\ snap' = [snap EXCEPT ![b].state = "read", ![b].pairs = pairs]
    /\ order' = Append(order, b)
    /\ UNCHANGED <<row, gone, market, sealed, stage, waiting, copy, answer>>

(* Freqtrade's pair list may choose other pairs at any time. *)
Told(b) == \E pairs \in Whitelists[b] : TellsPairs(b, pairs)

(* A bot that cannot be reached counts as one without pairs. *)
ToldNothing(b) ==
    /\ "unreachable" \in Events \/ b \in gone
    /\ TellsPairs(b, {})

Collected ==
    /\ stage = "collect" /\ waiting = {} /\ Asking = {}
    /\ stage' = "fetch"
    /\ UNCHANGED <<row, gone, market, sealed, waiting, snap, order, copy, answer>>

Fetch(e) ==
    /\ stage = "fetch" /\ answer[e] = Unanswered
    /\ answer' = [answer EXCEPT ![e] = Ratings(e)]
    /\ UNCHANGED <<row, gone, market, sealed, stage, waiting, snap, order, copy>>

FetchFails(e) ==
    /\ "scanner_fails" \in Events
    /\ stage = "fetch" /\ answer[e] = Unanswered
    /\ answer' = [answer EXCEPT ![e] = NotAsked]
    /\ UNCHANGED <<row, gone, market, sealed, stage, waiting, snap, order, copy>>

Fetched ==
    /\ stage = "fetch" /\ \A e \in Exchanges : answer[e] # Unanswered
    /\ stage' = "decide"
    /\ UNCHANGED <<row, gone, market, sealed, waiting, snap, order, copy, answer>>

(* Mutated form of Current: the settings read under the lock are trusted. *)
AlwaysCurrent(b) == b \notin gone

(* The bot still has the settings the pass has read. *)
Current(b) ==
    /\ b \notin gone
    /\ <<row[b].guard, row[b].timeframe, row[b].exchange>>
         = <<snap[b].guard, snap[b].timeframe, snap[b].exchange>>

Reason(b) == Verdict(snap[b].pairs, answer[snap[b].exchange][snap[b].timeframe])

(* The next bot's lock is taken, its row and exchange are read and         *)
(* compared with what was scanned; an outdated or missing one is skipped.  *)
Check ==
    /\ stage = "decide" /\ order # <<>>
    /\ LET b == Head(order)
       IN  IF Current(b) /\ row[b].guard
           THEN stage' = "commit" /\ copy' = row[b] /\ UNCHANGED order
           ELSE order' = Tail(order) /\ UNCHANGED <<stage, copy>>
    /\ UNCHANGED <<row, gone, market, sealed, waiting, snap, answer>>

(* The decision changes the session's copy, and what changed there is      *)
(* written to the row of that id, if there is one.  Whatever goes wrong    *)
(* when it is written or brought to the bot ends with that bot.            *)
Decide ==
    LET b == Head(order)
        paused == Decided(copy.paused, Reason(b))
    IN  /\ stage = "commit"
        /\ row' = IF b \notin gone /\ paused # copy.paused
                  THEN [row EXCEPT ![b].paused = paused]
                  ELSE row
        /\ stage' = "decide"
        /\ order' = Tail(order)
        /\ copy' = NoRow
        /\ UNCHANGED <<gone, market, sealed, waiting, snap, answer>>

Finish ==
    /\ stage = "decide" /\ order = <<>>
    /\ stage' = "idle"
    /\ Forget
    /\ UNCHANGED <<row, gone, market, sealed, copy>>

-----------------------------------------------------------------------------
(* What happens around the passes. *)

Unchanging == <<gone, market, sealed, stage, waiting, snap, order, copy, answer>>

(* Disabling the guard ends its pause. *)
Configured(r, guard, timeframe) ==
    [guard |-> guard, timeframe |-> timeframe, exchange |-> r.exchange,
     paused |-> r.paused /\ guard]

(* The pass holds the lock of the bot it decides about. *)
Held(b) == stage = "commit" /\ Head(order) = b

(* update_config commits new settings, under the bot's lock. *)
SettingsChange(b) ==
    /\ "settings" \in Events /\ b \notin gone /\ ~Held(b)
    /\ \E guard \in BOOLEAN, tf \in Timeframes :
          row' = [row EXCEPT ![b] = Configured(row[b], guard, tf)]
    /\ UNCHANGED Unchanging

(* An administrator stores credentials of another exchange. *)
ExchangeChange(b) ==
    /\ "exchange" \in Events /\ b \notin gone
    /\ \E e \in Exchanges : row' = [row EXCEPT ![b].exchange = e]
    /\ UNCHANGED Unchanging

(* The row is deleted; what stands for it says nothing. *)
Delete(b) ==
    /\ "delete" \in Events /\ b \notin gone
    /\ gone' = gone \cup {b}
    /\ row' = [row EXCEPT ![b] = NoRow]
    /\ sealed' = sealed \ {b}
    /\ UNCHANGED <<market, stage, waiting, snap, order, copy, answer>>

(* A bot's settings before its owner has saved any. *)
Fresh(e) == [guard |-> TRUE, timeframe |-> Default(Timeframes),
             exchange |-> e, paused |-> FALSE]

(* A bot is provisioned for a user of its own, with whatever exchange the   *)
(* user's credentials name, and SQLite gives it the id of a deleted bot.   *)
Provision(b) ==
    /\ "delete" \in Events /\ b \in gone
    /\ gone' = gone \ {b}
    /\ \E e \in Exchanges : row' = [row EXCEPT ![b] = Fresh(e)]
    /\ UNCHANGED <<market, sealed, stage, waiting, snap, order, copy, answer>>

-----------------------------------------------------------------------------
Init ==
    /\ row \in [Bots -> {r \in Rows : r.paused => r.guard}]
    /\ gone = {}
    /\ market \in Markets
    /\ IF "undecryptable" \in Events THEN sealed \in SUBSET Bots ELSE sealed = {}
    /\ stage = "idle"
    /\ waiting = {}
    /\ snap = [b \in Bots |-> Unread]
    /\ order = <<>>
    /\ copy = NoRow
    /\ answer = [e \in Exchanges |-> Unanswered]

Work ==
    \/ Start \/ Collected \/ Fetched \/ Check \/ Decide \/ Finish
    \/ \E b \in Bots : Ask(b) \/ Abort(b) \/ Told(b)
    \/ \E e \in Exchanges : Fetch(e)

Disturbance ==
    \/ \E b \in Bots : \/ SettingsChange(b) \/ ExchangeChange(b)
                       \/ Delete(b) \/ Provision(b) \/ ToldNothing(b)
    \/ \E e \in Exchanges : FetchFails(e)
    \/ StartWithout

Next == Work \/ Disturbance

Spec == Init /\ [][Next]_vars

(* run_forever starts the next pass whatever became of the last one, and   *)
(* every request of a pass is answered or times out.                       *)
FairSpec == Spec /\ WF_vars(Work)

-----------------------------------------------------------------------------
(* Properties. *)

(* What the market says of a pair, on the exchange and in the timeframe of *)
(* a row; and what it says of a set of pairs, in the words of the          *)
(* documentation and not of the code.                                      *)
Quote(r, p) == market[r.exchange][r.timeframe][p]
AllSelling(r, pairs) == pairs # {} /\ \A p \in pairs : Quote(r, p) \in -10..-1
MostBuying(r, pairs) ==
    /\ \A p \in pairs : Quote(r, p) \in -10..10
    /\ 2 * Cardinality({p \in pairs : Quote(r, p) \in 1..10}) > Cardinality(pairs)

(* A pass pauses a bot only when all its own pairs sell on its own market, *)
(* and lifts the pause only when none is unrated and more than half buy,   *)
(* whatever other bots share its exchange, its column or its pass, and     *)
(* whatever was changed or failed while the pass was under way.  Its       *)
(* market is the one the bot had when its lock was taken, and its pairs    *)
(* those the pass was told of under its id: if an administrator replaces   *)
(* the exchange in the instant before the commit, or the id has gone to    *)
(* another bot, the next pass puts the decision right (EveryBotDecided).   *)
VerdictIsOwn ==
    [][Decide => \A b \in Bots :
          /\ row'[b].paused /\ ~row[b].paused => AllSelling(copy, snap[b].pairs)
          /\ ~row'[b].paused /\ row[b].paused => MostBuying(copy, snap[b].pairs)]_vars

Decision(b) ==
    b \notin gone \cup sealed /\ row[b].guard =>
        /\ (\A pairs \in Whitelists[b] : AllSelling(row[b], pairs)) => row[b].paused
        /\ (\A pairs \in Whitelists[b] : MostBuying(row[b], pairs)) => ~row[b].paused

(* Once the bots are left alone and the scanner answers, every bot whose   *)
(* password can be decrypted is paused or released as its market says,     *)
(* whatever passes were abandoned before, and whoever had its id.          *)
EveryBotDecided == <>[][Work]_vars => <>[](\A b \in Bots : Decision(b))

=============================================================================
