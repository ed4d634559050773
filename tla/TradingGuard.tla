---------------------------- MODULE TradingGuard ----------------------------
(***************************************************************************)
(* One bot and everything that commands it: its owner through the guarded  *)
(* proxy (routers/user.py), the administrators (routers/admin.py), the     *)
(* settings endpoint, and the reconciler that restores the recorded intent *)
(* and evaluates the TradingView protection (services/reconciler.py,       *)
(* services/trading_guard.py).                                             *)
(*                                                                         *)
(* One API worker runs every handler on one event loop, so what a handler  *)
(* does between two awaits is one step.  A handler's task moves through    *)
(*                                                                         *)
(*   idle -> (scan) -> wait -> (checked) -> (get -> got) -> call           *)
(*        -> answered -> idle                                              *)
(*                                                                         *)
(* wait is the await on the per-bot lock; get and call are the awaits on   *)
(* an HTTP request to Freqtrade, or on the thread that talks to Docker;    *)
(* got and answered hold the answer until the handler is scheduled again.  *)
(* checked is no await: the reconciler has read the row and has yet to     *)
(* commit its decision, and the administrators' synchronous routes, which  *)
(* run in other threads and take no lock, may commit in between.           *)
(***************************************************************************)
EXTENDS Naturals

CONSTANTS
    Clients,    \* requests the worker may be handling at the same time
    OwnerOps,   \* commands the owner forwards to the bot
    AdminOps,   \* container operations of the administrators
    Payloads,   \* settings the owner may PUT
    Params,     \* values of the settings that need a new container
    Exchanges,  \* exchanges the bot may trade on
    Events      \* what may happen around the handlers in this instance

Reconciler == "reconciler"
NoOne == "no one"
Procs == Clients \cup {Reconciler}

ASSUME ClientsAssumption == {Reconciler, NoOne} \cap Clients = {}

ASSUME OpsAssumption ==
    /\ OwnerOps \subseteq {"start", "stop", "pause", "forceenter", "reload_config"}
    /\ AdminOps \subseteq {"admin_start", "admin_stop"}

ASSUME PayloadsAssumption ==
    Payloads \subseteq [keys : SUBSET {"guard", "params"}, guard : BOOLEAN, params : Params]

ASSUME ValuesAssumption == Params # {} /\ Exchanges # {}

ASSUME EventsAssumption ==
    Events \subseteq {"refuse", "lost_reply", "late", "crash",
                      "reboot", "external_pause", "recreate"}

VARIABLES
    row,       \* the committed BotInstance row
    bot,       \* the state of the bot's process, or of its container
    market,    \* the reason an evaluation made now would give
    lock,      \* the holder of trading_guard.bot_lock for this bot
    task,      \* what each handler is doing
    late,      \* commands the proxy gave up on that may still reach the bot
    pauser,    \* history: who put the bot in its present pause
    stopHeld   \* history: how far the last stop got, if no start was asked for since

vars == <<row, bot, market, lock, task, late, pauser, stopHeld>>

-----------------------------------------------------------------------------
(* The stored row and the values the variables take. *)

Configs == [guard : BOOLEAN, params : Params]

Rows == [trading_enabled : BOOLEAN, tradingview_paused : BOOLEAN,
         manual_paused : BOOLEAN, managed : BOOLEAN, pending : BOOLEAN,
         cfg : Configs, exchange : Exchanges]

FreshRow(params, exchange) ==
    [trading_enabled |-> FALSE, tradingview_paused |-> FALSE,
     manual_paused |-> FALSE, managed |-> FALSE, pending |-> FALSE,
     cfg |-> [guard |-> TRUE, params |-> params], exchange |-> exchange]

Up == {"running", "paused", "stopped"}
BotStates == Up \cup {"down", "halted"}

Reasons == {"all_sell", "majority_buy", "mixed", "missing_data"}

Orders == {"start", "stop", "pause", "reload_config", "forceenter"}
DockerOrders == {"docker_start", "docker_stop", "provision"}

Ops == OwnerOps \cup AdminOps \cup {"config", "reconcile"}
Holding == {"checked", "get", "got", "call", "answered"}

AnyParams == CHOOSE p \in Params : TRUE
AnyExchange == CHOOSE e \in Exchanges : TRUE
NoPayload == [keys |-> {}, guard |-> FALSE, params |-> AnyParams]

NoTask ==
    [pc |-> "idle", op |-> "none", cmd |-> "none", reply |-> "none",
     payload |-> NoPayload, cfg |-> [guard |-> FALSE, params |-> AnyParams],
     exchange |-> AnyExchange, seen |-> FreshRow(AnyParams, AnyExchange)]

Tasks ==
    [pc : {"idle", "scan", "wait"} \cup Holding,
     op : Ops \cup {"none"},
     cmd : Orders \cup DockerOrders \cup {"none"},
     reply : Up \cup Reasons \cup {"ok", "failed", "none"},
     payload : Payloads \cup {NoPayload}, cfg : Configs,
     exchange : Exchanges, seen : Rows]

(* The type invariant. *)
TypeOK ==
    /\ row \in Rows
    /\ bot \in BotStates
    /\ market \in Reasons
    /\ lock \in Procs \cup {NoOne}
    /\ task \in [Procs -> Tasks]
    /\ late \subseteq {"start", "stop", "pause"}
    /\ pauser \in {"nobody", "control_plane", "outsider"}
    /\ stopHeld \in {"no", "carried_out", "acknowledged"}

-----------------------------------------------------------------------------
(* What the row says, and the updates the handlers commit to it. *)

GuardPause(r) == r.cfg.guard /\ r.tradingview_paused

EntriesPaused(r) == r.manual_paused \/ GuardPause(r)

(* Mutated forms of SyncCommand: the wrong endpoint is called; any pause is *)
(* lifted; a stopped bot is not paused.                                    *)
SyncCommandResume(r, state) ==
    IF EntriesPaused(r) THEN "pause" ELSE IF state = "stopped" THEN "resume" ELSE "none"

SyncCommandLiftsAny(r, state) ==
    IF EntriesPaused(r) /\ state \in {"running", "stopped"} THEN "pause"
    ELSE IF ~EntriesPaused(r) /\ state # "running" THEN "start" ELSE "none"

SyncCommandPausesRunning(r, state) ==
    IF EntriesPaused(r) /\ state = "running" THEN "pause"
    ELSE IF ~EntriesPaused(r) /\ (state = "stopped" \/ (state = "paused" /\ r.managed))
         THEN "start"
         ELSE "none"

(* The command sync_state sends for a bot it reads in the given state. *)
SyncCommand(r, state) ==
    IF EntriesPaused(r) /\ state \in {"running", "stopped"} THEN "pause"
    ELSE IF ~EntriesPaused(r) /\ (state = "stopped" \/ (state = "paused" /\ r.managed))
         THEN "start"
         ELSE "none"

(* Mutated form of Claimed: the claim is not marked unconfirmed. *)
ClaimedAsDone(r) == [r EXCEPT !.managed = TRUE, !.pending = FALSE]

(* The claim of a pause, committed before the pause is requested. *)
Claimed(r) == [r EXCEPT !.managed = TRUE, !.pending = TRUE]

(* What sync_state settles when no command is needed. *)
Confirmed(r, state) ==
    IF r.managed /\ state = "running" /\ ~EntriesPaused(r)
    THEN [r EXCEPT !.managed = FALSE, !.pending = FALSE]
    ELSE IF r.pending /\ state = "paused" THEN [r EXCEPT !.pending = FALSE] ELSE r

Synced(r, cmd) == [r EXCEPT !.managed = (cmd = "pause"), !.pending = FALSE]

Evaluated(r, reason) ==
    [r EXCEPT !.tradingview_paused =
        (reason = "all_sell") \/ (@ /\ reason # "majority_buy")]

(* Mutated form of Configured: disabling the protection keeps its pause. *)
ConfiguredOnly(r, cfg) == [r EXCEPT !.cfg = cfg]

Configured(r, cfg) ==
    [r EXCEPT !.cfg = cfg, !.tradingview_paused = @ /\ cfg.guard]

Merge(current, payload) ==
    [guard |-> IF "guard" \in payload.keys THEN payload.guard ELSE current.guard,
     params |-> IF "params" \in payload.keys THEN payload.params ELSE current.params]

(* The command forwarded for an owner's command: a start is turned into a  *)
(* pause while the protection holds entries.                               *)
OwnerTarget(op, r) == IF op = "start" /\ GuardPause(r) THEN "pause" ELSE op

Refused(op, r) == op = "forceenter" /\ EntriesPaused(r)

OwnerRecorded(r, op, cmd) ==
    [r EXCEPT !.trading_enabled = (op # "stop"), !.manual_paused = (op = "pause"),
              !.managed = (cmd = "pause"), !.pending = FALSE]

AdminStarted(r) == [r EXCEPT !.trading_enabled = TRUE, !.manual_paused = FALSE]

(* Mutated form of AdminStopped: the pause stays owned. *)
AdminStoppedOwned(r) == [r EXCEPT !.trading_enabled = FALSE, !.manual_paused = FALSE]

AdminStopped(r) ==
    [r EXCEPT !.trading_enabled = FALSE, !.manual_paused = FALSE,
              !.managed = FALSE, !.pending = FALSE]

(* The row a handler commits when its command was accepted. *)
Committed(r, t) ==
    CASE t.op \in {"start", "stop", "pause"} -> OwnerRecorded(r, t.op, t.cmd)
      [] t.op = "admin_start" -> AdminStarted(r)
      [] t.op = "admin_stop" -> AdminStopped(r)
      [] t.op = "config" /\ t.cmd = "provision" -> Configured(r, t.cfg)
      [] t.op \in {"config", "reconcile"} /\ t.cmd # "provision" -> Synced(r, t.cmd)
      [] OTHER -> r

-----------------------------------------------------------------------------
(* Taking the lock and giving it back. *)

(* Mutated form of CanEnter: the handler does not take the lock. *)
EntersAnyway(p) == task[p].pc = "wait"

CanEnter(p) == task[p].pc = "wait" /\ lock = NoOne

(* Mutated form of Reread: no db.refresh. *)
SessionCopy(p) == task[p].seen

(* db.refresh under the lock: the handler sees the committed row and not   *)
(* the copy its session loaded when the request arrived.                   *)
Reread(p) == row

Put(p, t) == task' = [task EXCEPT ![p] = t]

HandBack(p) == lock' = NoOne /\ Put(p, NoTask)

(* What was read before the lock is not used after it. *)
Entered(t, pc, cmd) ==
    [t EXCEPT !.pc = pc, !.cmd = cmd, !.reply = "none", !.seen = NoTask.seen,
              !.exchange = AnyExchange]

Order(p, cmd) ==
    /\ lock' = p
    /\ Put(p, Entered(task[p], "call", cmd))

(* Mutated form of StartSync: the recorded intent is not looked at. *)
SyncAlways(p, r) ==
    lock' = p /\ Put(p, [Entered(task[p], "get", "none") EXCEPT !.cfg = NoTask.cfg])

(* sync_state: nothing to do unless trading is wanted, else ask the bot. *)
StartSync(p, r) ==
    IF r.trading_enabled
    THEN lock' = p /\ Put(p, [Entered(task[p], "get", "none") EXCEPT !.cfg = NoTask.cfg])
    ELSE HandBack(p)

-----------------------------------------------------------------------------
(* Requests of the owner and of the administrators. *)

Arrive(c) ==
    /\ task[c].pc = "idle"
    /\ \/ \E op \in OwnerOps \cup AdminOps :
            Put(c, [NoTask EXCEPT !.pc = "wait", !.op = op, !.seen = row])
       \/ \E pl \in Payloads :
            Put(c, [NoTask EXCEPT !.pc = "wait", !.op = "config", !.payload = pl, !.seen = row])
    /\ UNCHANGED <<row, bot, market, lock, late, pauser, stopHeld>>

OwnerBegins(c) ==
    /\ CanEnter(c)
    /\ task[c].op \in OwnerOps
    /\ IF Refused(task[c].op, Reread(c))
       THEN HandBack(c)
       ELSE Order(c, OwnerTarget(task[c].op, Reread(c)))
    /\ stopHeld' = IF task[c].op \in {"start", "pause"} THEN "no" ELSE stopHeld
    /\ UNCHANGED <<row, bot, market, late, pauser>>

AdminBegins(c) ==
    /\ CanEnter(c)
    /\ task[c].op \in AdminOps
    /\ Order(c, IF task[c].op = "admin_start" THEN "docker_start" ELSE "docker_stop")
    /\ stopHeld' = IF task[c].op = "admin_start" THEN "no" ELSE stopHeld
    /\ UNCHANGED <<row, bot, market, late, pauser>>

(* A change of the runtime settings recreates the container before it is   *)
(* committed; a change of the protection alone is committed at once and    *)
(* then brought to the bot.                                                *)
ConfigBegins(c) ==
    LET merged == Merge(Reread(c).cfg, task[c].payload)
    IN  /\ CanEnter(c)
        /\ task[c].op = "config"
        /\ IF merged.params # Reread(c).cfg.params
           THEN /\ lock' = c
                /\ Put(c, [Entered(task[c], "call", "provision") EXCEPT !.cfg = merged])
                /\ UNCHANGED row
           ELSE /\ row' = Configured(row, merged)
                /\ StartSync(c, row')
        /\ UNCHANGED <<bot, market, late, pauser, stopHeld>>

-----------------------------------------------------------------------------
(* A pass of the reconciler over this bot. *)

Snapshot ==
    /\ task[Reconciler].pc = "idle"
    /\ bot \in Up
    /\ Put(Reconciler, [NoTask EXCEPT !.pc = "scan", !.op = "reconcile",
                                      !.cfg = row.cfg, !.exchange = row.exchange])
    /\ UNCHANGED <<row, bot, market, lock, late, pauser, stopHeld>>

ScanDone ==
    /\ task[Reconciler].pc = "scan"
    /\ Put(Reconciler, [task[Reconciler] EXCEPT !.pc = "wait", !.reply = market])
    /\ UNCHANGED <<row, bot, market, lock, late, pauser, stopHeld>>

(* Mutated form of SameFingerprint: only the settings are compared. *)
SameSettings(t) == t.cfg = row.cfg

SameFingerprint(t) == t.cfg = row.cfg /\ t.exchange = row.exchange

(* The row and its exchange are read into a session of their own and       *)
(* compared with what was scanned.                                         *)
ReconcilerBegins ==
    LET t == task[Reconciler]
    IN  /\ CanEnter(Reconciler)
        /\ IF SameFingerprint(t)
           THEN /\ lock' = Reconciler
                /\ Put(Reconciler, [t EXCEPT !.pc = "checked", !.seen = row])
           ELSE HandBack(Reconciler)
        /\ UNCHANGED <<row, bot, market, late, pauser, stopHeld>>

(* The verdict is applied to the session's copy; the commit writes the one *)
(* column that changed.                                                    *)
ReconcilerDecides ==
    LET t == task[Reconciler]
        verdict == Evaluated(t.seen, t.reply).tradingview_paused
    IN  /\ t.pc = "checked"
        /\ row' = IF t.seen.cfg.guard
                  THEN [row EXCEPT !.tradingview_paused = verdict]
                  ELSE row
        /\ StartSync(Reconciler, row')
        /\ UNCHANGED <<bot, market, late, pauser, stopHeld>>

(* show_config answered with the state the bot had when it was asked. *)
SyncRead(p) ==
    /\ task[p].pc = "get"
    /\ bot \in Up
    /\ Put(p, [task[p] EXCEPT !.pc = "got", !.reply = bot])
    /\ UNCHANGED <<row, bot, market, lock, late, pauser, stopHeld>>

SyncDecide(p) ==
    LET cmd == SyncCommand(row, task[p].reply)
    IN  /\ task[p].pc = "got"
        /\ IF cmd = "none"
           THEN HandBack(p) /\ row' = Confirmed(row, task[p].reply)
           ELSE Order(p, cmd) /\ row' = IF cmd = "pause" THEN Claimed(row) ELSE row
        /\ UNCHANGED <<bot, market, late, pauser, stopHeld>>

-----------------------------------------------------------------------------
(* Freqtrade and Docker: what a command does, and how an answer gets lost. *)

After(cmd, b) ==
    CASE cmd = "start" -> "running"
      [] cmd = "pause" -> "paused"
      [] cmd \in {"stop", "reload_config", "provision"} -> "stopped"
      [] cmd = "docker_start" -> IF b \in Up THEN b ELSE "stopped"
      [] cmd = "docker_stop" -> "halted"
      [] OTHER -> b

Execute(cmd) ==
    /\ bot' = After(cmd, bot)
    /\ pauser' = IF After(cmd, bot) # "paused" THEN "nobody"
                 ELSE IF cmd = "pause" THEN "control_plane" ELSE pauser

Reachable(cmd) == cmd \in DockerOrders \/ bot \in Up

IsStop(t) == t.op \in {"stop", "admin_stop"}

Carry(p) ==
    /\ Reachable(task[p].cmd)
    /\ Execute(task[p].cmd)
    /\ stopHeld' = IF IsStop(task[p]) /\ stopHeld = "no" THEN "carried_out" ELSE stopHeld

Answer(p, reply) ==
    /\ task[p].pc = "call"
    /\ Put(p, [task[p] EXCEPT !.pc = "answered", !.reply = reply])
    /\ UNCHANGED <<row, market, lock>>

Accept(p) ==
    /\ Carry(p)
    /\ Answer(p, "ok")
    /\ UNCHANGED late

Unreachable(p) ==
    /\ ~Reachable(task[p].cmd)
    /\ Answer(p, "failed")
    /\ UNCHANGED <<bot, late, pauser, stopHeld>>

(* The command is answered with an error, or the request never arrives.    *)
(* Docker may fail after it removed the container it was to replace.       *)
Refuse(p) ==
    /\ "refuse" \in Events
    /\ Answer(p, "failed")
    /\ \/ UNCHANGED <<bot, pauser>>
       \/ task[p].cmd = "provision" /\ bot' = "halted" /\ pauser' = "nobody"
    /\ UNCHANGED <<late, stopHeld>>

LoseReply(p) ==
    /\ "lost_reply" \in Events
    /\ Carry(p)
    /\ Answer(p, "failed")
    /\ UNCHANGED late

TimeOut(p) ==
    /\ "late" \in Events
    /\ task[p].cmd \in {"start", "stop", "pause"}
    /\ Answer(p, "failed")
    /\ late' = late \cup {task[p].cmd}
    /\ UNCHANGED <<bot, pauser, stopHeld>>

(* show_config not answered, or not with 200: the handler gives up. *)
SyncUnread(p) ==
    /\ task[p].pc = "get"
    /\ bot \in Up => Events \cap {"refuse", "lost_reply", "late"} # {}
    /\ HandBack(p)
    /\ UNCHANGED <<row, bot, market, late, pauser, stopHeld>>

(* The handler resumes: it records what was accepted, and only that. *)
Finish(p) ==
    LET t == task[p]
    IN  /\ t.pc = "answered"
        /\ row' = IF t.reply = "ok" THEN Committed(row, t) ELSE row
        /\ stopHeld' = IF t.reply = "ok" /\ IsStop(t) THEN "acknowledged" ELSE stopHeld
        /\ HandBack(p)
        /\ UNCHANGED <<bot, market, late, pauser>>

-----------------------------------------------------------------------------
(* What happens around the handlers. *)

MarketMoves ==
    /\ market' \in Reasons \ {market}
    /\ UNCHANGED <<row, bot, lock, task, late, pauser, stopHeld>>

LateArrival ==
    /\ bot \in Up
    /\ \E cmd \in late : Execute(cmd) /\ late' = late \ {cmd}
    /\ UNCHANGED <<row, market, lock, task, stopHeld>>

ContainerDies ==
    /\ "reboot" \in Events
    /\ bot \in Up
    /\ bot' = "down" /\ pauser' = "nobody"
    /\ UNCHANGED <<row, market, lock, task, late, stopHeld>>

(* The restart policy brings the container back, in initial_state. *)
ContainerBoots ==
    /\ bot = "down"
    /\ bot' = "stopped"
    /\ UNCHANGED <<row, market, lock, task, late, pauser, stopHeld>>

ExternalPause ==
    /\ "external_pause" \in Events
    /\ bot = "running"
    /\ bot' = "paused" /\ pauser' = "outsider"
    /\ UNCHANGED <<row, market, lock, task, late, stopHeld>>

(* The administrators' synchronous routes recreate the container, and may  *)
(* change the exchange, without the lock; when Docker fails after removing *)
(* the old container there is none, and the row is rolled back.            *)
Recreate ==
    /\ "recreate" \in Events
    /\ \/ bot' = "stopped" /\ \E e \in Exchanges : row' = [row EXCEPT !.exchange = e]
       \/ bot' = "halted" /\ UNCHANGED row
    /\ pauser' = "nobody"
    /\ UNCHANGED <<market, lock, task, late, stopHeld>>

Crash ==
    /\ "crash" \in Events
    /\ task' = [p \in Procs |-> NoTask]
    /\ lock' = NoOne
    /\ UNCHANGED <<row, bot, market, late, pauser, stopHeld>>

-----------------------------------------------------------------------------
Init ==
    /\ \E p \in Params, e \in Exchanges : row = FreshRow(p, e)
    /\ bot = "stopped"
    /\ market = "missing_data"
    /\ lock = NoOne
    /\ task = [p \in Procs |-> NoTask]
    /\ late = {}
    /\ pauser = "nobody"
    /\ stopHeld = "no"

(* The steps of a handler that the event loop and the bot carry out. *)
Progress(p) ==
    \/ SyncRead(p) \/ SyncDecide(p) \/ Accept(p) \/ Unreachable(p) \/ Finish(p)
    \/ bot \notin Up /\ SyncUnread(p)

Begins(c) == OwnerBegins(c) \/ AdminBegins(c) \/ ConfigBegins(c)

Pass == Snapshot \/ ScanDone \/ ReconcilerBegins \/ ReconcilerDecides

(* The steps by which the control plane and Docker settle the bot. *)
Settling ==
    \/ \E c \in Clients : Begins(c)
    \/ \E p \in Procs : Progress(p)
    \/ Pass
    \/ ContainerBoots

(* New requests, faults, and changes of the market or of the bot from      *)
(* outside.                                                                *)
Disturbance ==
    \/ \E c \in Clients : Arrive(c)
    \/ \E p \in Procs : Refuse(p) \/ LoseReply(p) \/ TimeOut(p)
    \/ \E p \in Procs : bot \in Up /\ SyncUnread(p)
    \/ MarketMoves \/ LateArrival \/ ContainerDies \/ ExternalPause \/ Recreate \/ Crash

Next == Settling \/ Disturbance

(* The loop runs what is ready, run_forever never ends, every request of   *)
(* the proxy is answered or times out, and Docker restarts containers.     *)
Fairness ==
    /\ \A c \in Clients : WF_vars(Begins(c))
    /\ \A p \in Procs : WF_vars(Progress(p))
    /\ WF_vars(Pass)
    /\ WF_vars(ContainerBoots)

Spec == Init /\ [][Next]_vars

FairSpec == Spec /\ Fairness

-----------------------------------------------------------------------------
(* Properties. *)

Automatic(p) == task[p].op \in {"config", "reconcile"}

Sending(p, cmd) == task[p].pc = "call" /\ task[p].cmd = cmd

(* A command that sync_state has in flight is what the committed intent    *)
(* asks for at that moment: no automatic start of a bot whose owner        *)
(* stopped it or whose entries are paused, no automatic pause of a bot     *)
(* that should trade, whatever was requested while the scan was running.   *)
CommandMatchesIntent ==
    \A p \in Procs : Automatic(p) =>
        /\ Sending(p, "start") => row.trading_enabled /\ ~EntriesPaused(row)
        /\ Sending(p, "pause") => row.trading_enabled /\ EntriesPaused(row)

(* No command of the owner that opens entries is on its way to the bot     *)
(* while the protection, or for forced entries a manual pause, holds them. *)
NoBypass ==
    \A c \in Clients : ~Automatic(c) =>
        /\ Sending(c, "start") => ~GuardPause(row)
        /\ Sending(c, "forceenter") => ~EntriesPaused(row)

(* The control plane owns a pause only of a bot that should trade, and a   *)
(* pause is unconfirmed only when it is owned.                             *)
OwnershipHasIntent ==
    /\ row.managed => row.trading_enabled
    /\ row.pending => row.managed

(* The protection holds entries only while it is enabled. *)
GuardPauseNeedsGuard == row.tradingview_paused => row.cfg.guard

(* After a stop was acknowledged the bot does not trade or hold entries    *)
(* again before somebody asks for it: no reconciliation, settings change,  *)
(* reboot, crash or administrative recreation revives it.  (A stop the bot *)
(* carried out, whose answer was lost, is undone by the reconciler.)       *)
AckedStopHolds == stopHeld = "acknowledged" => bot \notin {"running", "paused"}

(* TradingViewGuardStatus: the condition under which the interface says    *)
(* that entries are paused by TradingView.                                 *)
PauseShown(r) ==
    GuardPause(r) /\ r.trading_enabled /\ ~r.manual_paused /\ r.managed /\ ~r.pending

(* The interface claims an automatic pause only of a bot that is not       *)
(* opening entries.                                                        *)
PauseShownHonestly == PauseShown(row) => bot # "running"

(* A pause somebody else made, and that sync_state read, is not lifted by  *)
(* an automatic start.                                                     *)
ExternalPauseLeftAlone ==
    [][\A p \in Procs :
          task[p].pc = "got" /\ task[p].reply = "paused" /\ task'[p].pc = "call"
            => pauser # "outsider"]_vars

(* Every move of the protection is either its end, when the owner switches *)
(* the guard off, or the reconciler's verdict for the settings the bot has *)
(* at that very moment.  The verdict is for the exchange of that moment    *)
(* too, unless a thread replaced the exchange after the lock was taken.    *)
FreshVerdict ==
    [][row'.tradingview_paused # row.tradingview_paused =>
          \/ ~row'.tradingview_paused /\ ~row'.cfg.guard
          \/ LET t == task[Reconciler]
             IN  /\ t.pc = "checked"
                 /\ t.cfg = row.cfg
                 /\ t.exchange = row.exchange \/ t.seen.exchange # row.exchange]_vars

(* A settings request changes no setting it did not carry, even when       *)
(* another request changed it while this one waited for the lock.          *)
SettingsKept ==
    [][\A c \in Clients :
          task[c].op = "config" /\ task[c].pc # task'[c].pc =>
             \A k \in {"guard", "params"} \ task[c].payload.keys :
                row'.cfg[k] = row.cfg[k]]_vars

(* The handlers of one bot take turns: from taking the lock to handing it  *)
(* back, across every await, no other handler of the bot is under way.     *)
Turns == INSTANCE Mutex WITH
    Tasks <- Procs,
    waiting <- {p \in Procs : task[p].pc = "wait"},
    inside <- {p \in Procs : task[p].pc \in Holding}

ImplementsMutex == Turns!Spec

(* A bot whose trading is wanted does what the row asks for; a pause that  *)
(* is not ours is not ours to lift.                                        *)
Settled ==
    row.trading_enabled /\ bot \in Up =>
        IF EntriesPaused(row) THEN bot = "paused"
        ELSE bot = "running" \/ (bot = "paused" /\ ~row.managed)

(* Once requests, faults and the market come to rest, the bot reaches the  *)
(* recorded intent and stays there: lost commands are retried, a reboot is *)
(* undone, and a pause that is not ours is left alone.                     *)
Converges == <>[][Settling]_vars => <>[]Settled

-----------------------------------------------------------------------------
(* The inductive invariant behind the safety properties. *)

(* Only the task that holds the lock is between taking it and handing it   *)
(* back.                                                                   *)
LockExclusive == \A p \in Procs : task[p].pc \in Holding <=> lock = p

InCall(p) == task[p].pc \in {"call", "answered"}

(* Which handler runs as which task, and what it can have sent. *)
TaskShape(p) ==
    /\ task[p].op = "reconcile" => p = Reconciler
    /\ p = Reconciler /\ task[p].pc # "idle" => task[p].op = "reconcile"
    /\ task[p].pc = "checked" => p = Reconciler
    /\ task[p].pc \in {"get", "got"} => Automatic(p)
    /\ InCall(p) =>
         /\ task[p].op # "none"
         /\ Automatic(p) => task[p].cmd \in {"start", "pause", "provision"}
         /\ task[p].op \in OwnerOps => task[p].cmd = OwnerTarget(task[p].op, row)
         /\ task[p].op = "admin_start" => task[p].cmd = "docker_start"
         /\ task[p].op = "admin_stop" => task[p].cmd = "docker_stop"

(* The row agrees with the command of the task that holds the lock. *)
IntentHeld(p) ==
    /\ task[p].pc \in {"get", "got"} => row.trading_enabled
    /\ InCall(p) /\ Automatic(p) =>
         /\ task[p].cmd = "start" => row.trading_enabled /\ ~EntriesPaused(row)
         /\ task[p].cmd = "pause" => row.trading_enabled /\ EntriesPaused(row)
    /\ InCall(p) /\ task[p].op = "forceenter" => ~EntriesPaused(row)

(* While the reconciler decides, the settings and the protection are those *)
(* of its session's copy; the exchange may have changed since it was read. *)
CopyHeld(p) ==
    task[p].pc = "checked" =>
        /\ task[p].seen.cfg = row.cfg /\ task[p].cfg = row.cfg
        /\ task[p].seen.tradingview_paused = row.tradingview_paused
        /\ task[p].seen.exchange = task[p].exchange

(* What an acknowledged stop rests on when no command arrives late. *)
StopRests ==
    stopHeld = "acknowledged" =>
        /\ ~row.trading_enabled
        /\ bot \notin {"running", "paused"}
        /\ \A p \in Procs : InCall(p) => task[p].op \notin {"start", "pause", "admin_start"}

StopCarriedOut ==
    \A p \in Procs :
        task[p].pc = "answered" /\ task[p].reply = "ok" /\ IsStop(task[p])
            => bot \notin {"running", "paused"}

NoneLate == late = {}

Inv ==
    /\ TypeOK /\ LockExclusive
    /\ \A p \in Procs : TaskShape(p) /\ IntentHeld(p) /\ CopyHeld(p)
    /\ OwnershipHasIntent /\ GuardPauseNeedsGuard
    /\ "late" \notin Events => NoneLate /\ StopRests /\ StopCarriedOut

=============================================================================
