------------------------- MODULE TradingGuardProofs -------------------------
(***************************************************************************)
(* Proofs, for any number of concurrent requests and every choice of the   *)
(* constants, of the safety properties of TradingGuard.                    *)
(***************************************************************************)
EXTENDS TradingGuard, TLAPS

(* The updates of the row keep its type.                                   *)
LEMMA RowUpdates ==
    ASSUME NEW r \in Rows, NEW cfg \in Configs, NEW s, NEW c
    PROVE  /\ Claimed(r) \in Rows
           /\ Confirmed(r, s) \in Rows
           /\ Synced(r, c) \in Rows
           /\ Evaluated(r, s) \in Rows
           /\ Configured(r, cfg) \in Rows
           /\ OwnerRecorded(r, s, c) \in Rows
           /\ AdminStarted(r) \in Rows
           /\ AdminStopped(r) \in Rows
  BY DEF Rows, Configs, Claimed, Confirmed, Synced, Evaluated, Configured,
         OwnerRecorded, AdminStarted, AdminStopped

(* The values that fill unused fields have the types of the fields.        *)
LEMMA NoTaskType == NoTask \in Tasks /\ AnyParams \in Params /\ AnyExchange \in Exchanges
  <1>1. AnyParams \in Params /\ AnyExchange \in Exchanges
    BY ValuesAssumption DEF AnyParams, AnyExchange
  <1>2. FreshRow(AnyParams, AnyExchange) \in Rows
    BY <1>1 DEF FreshRow, Rows, Configs
  <1>3. QED
    BY <1>1, <1>2 DEF NoTask, Tasks, Configs

(* A task that takes the lock stays a task.                                *)
LEMMA EnteredType ==
    ASSUME NEW t \in Tasks, NEW pc \in {"get", "call"},
           NEW cmd \in Orders \cup DockerOrders \cup {"none"}
    PROVE  /\ Entered(t, pc, cmd) \in Tasks
           /\ Entered(t, pc, cmd).pc = pc
           /\ Entered(t, pc, cmd).cmd = cmd
           /\ Entered(t, pc, cmd).op = t.op
  <1>1. NoTask.seen \in Rows /\ AnyExchange \in Exchanges
    BY NoTaskType DEF Tasks
  <1>2. QED
    BY <1>1 DEF Entered, Tasks, Holding

(* A task that has checked its fingerprint stays a task.                   *)
LEMMA CheckedType ==
    ASSUME NEW t \in Tasks, NEW r \in Rows
    PROVE  /\ [t EXCEPT !.pc = "checked", !.seen = r] \in Tasks
           /\ [t EXCEPT !.pc = "checked", !.seen = r].pc = "checked"
  BY DEF Tasks, Holding

(* Put changes the one task, and keeps all tasks of their type.            *)
LEMMA PutFacts ==
    ASSUME NEW p \in Procs, NEW t \in Tasks, task \in [Procs -> Tasks], Put(p, t)
    PROVE  /\ task' \in [Procs -> Tasks]
           /\ task'[p] = t
           /\ \A q \in Procs \ {p} : task'[q] = task[q]
  BY DEF Put

(* The names of the reconciler and of nobody are no clients.               *)
LEMMA ProcsFacts ==
    /\ Reconciler \in Procs /\ Reconciler \notin Clients
    /\ NoOne \notin Procs
    /\ \A c \in Clients : c \in Procs
  BY ClientsAssumption DEF Procs, Reconciler, NoOne

-----------------------------------------------------------------------------
(* The variables keep their types.                                         *)

(* The initial states have their types.                                    *)
LEMMA TypeInit == Init => TypeOK
  <1> SUFFICES ASSUME Init PROVE TypeOK
    OBVIOUS
  <1>1. row \in Rows
    BY DEF Init, FreshRow, Rows, Configs
  <1>2. task \in [Procs -> Tasks]
    BY NoTaskType DEF Init
  <1>3. QED
    BY <1>1, <1>2 DEF Init, TypeOK, BotStates, Up, Reasons

(* What the building blocks of the actions do to the variables' types.     *)
LEMMA HandBackType ==
    ASSUME TypeOK, NEW p \in Procs, HandBack(p)
    PROVE  task' \in [Procs -> Tasks] /\ lock' \in Procs \cup {NoOne}
  BY NoTaskType, PutFacts DEF HandBack, TypeOK

(* Sending a command keeps the types.                                      *)
LEMMA OrderType ==
    ASSUME TypeOK, NEW p \in Procs, NEW cmd \in Orders \cup DockerOrders, Order(p, cmd)
    PROVE  task' \in [Procs -> Tasks] /\ lock' \in Procs \cup {NoOne}
  <1>1. Entered(task[p], "call", cmd) \in Tasks
    BY EnteredType DEF TypeOK
  <1>2. QED
    BY <1>1, PutFacts DEF Order, TypeOK

(* Asking the bot for its state keeps the types.                           *)
LEMMA GetType ==
    ASSUME NEW t \in Tasks
    PROVE  /\ [Entered(t, "get", "none") EXCEPT !.cfg = NoTask.cfg] \in Tasks
           /\ [Entered(t, "get", "none") EXCEPT !.cfg = NoTask.cfg].pc = "get"
           /\ [Entered(t, "get", "none") EXCEPT !.cfg = NoTask.cfg].op = t.op
  <1>1. Entered(t, "get", "none") \in Tasks /\ NoTask.cfg \in Configs
    BY EnteredType, NoTaskType DEF Tasks
  <1>2. Entered(t, "get", "none").pc = "get" /\ Entered(t, "get", "none").op = t.op
    BY EnteredType
  <1>3. QED
    BY <1>1, <1>2 DEF Tasks

(* Starting sync_state keeps the types.                                    *)
LEMMA StartSyncType ==
    ASSUME TypeOK, NEW p \in Procs, NEW r \in Rows, StartSync(p, r)
    PROVE  task' \in [Procs -> Tasks] /\ lock' \in Procs \cup {NoOne}
  <1>1. task[p] \in Tasks
    BY DEF TypeOK
  <1>2. QED
    BY <1>1, GetType, HandBackType, PutFacts DEF StartSync, TypeOK

(* A command that is carried out leaves the bot in one of its states.      *)
LEMMA ExecuteType ==
    ASSUME TypeOK, NEW cmd \in Orders \cup DockerOrders \cup {"none"}, Execute(cmd)
    PROVE  bot' \in BotStates /\ pauser' \in {"nobody", "control_plane", "outsider"}
  BY DEF Execute, After, TypeOK, BotStates, Up, Orders, DockerOrders

(* The fate of a command keeps the types.                                  *)
LEMMA AnswerType ==
    ASSUME TypeOK, NEW p \in Procs, NEW reply \in {"ok", "failed"}, Answer(p, reply)
    PROVE  /\ task' \in [Procs -> Tasks]
           /\ [task[p] EXCEPT !.pc = "answered", !.reply = reply] \in Tasks
           /\ UNCHANGED <<row, market, lock>>
  <1>1. [task[p] EXCEPT !.pc = "answered", !.reply = reply] \in Tasks
    BY DEF TypeOK, Tasks, Holding
  <1>2. QED
    BY <1>1, PutFacts DEF Answer, TypeOK

(* What sync_state and the proxy send is a command.                        *)
LEMMA CommandType ==
    ASSUME NEW r \in Rows, NEW op \in OwnerOps, NEW state
    PROVE  /\ OwnerTarget(op, r) \in Orders
           /\ SyncCommand(r, state) \in {"start", "pause", "none"}
  BY OpsAssumption DEF OwnerTarget, SyncCommand, Orders

(* Merged settings are settings.                                           *)
LEMMA MergeType ==
    ASSUME NEW cfg \in Configs, NEW pl \in Payloads \cup {NoPayload}
    PROVE  Merge(cfg, pl) \in Configs
  BY PayloadsAssumption, NoTaskType DEF Merge, Configs, NoPayload

(* Every step keeps the types.                                             *)
LEMMA TypeStep == TypeOK /\ [Next]_vars => TypeOK'
  <1> SUFFICES ASSUME TypeOK, [Next]_vars PROVE TypeOK'
    OBVIOUS
  <1>1. ASSUME NEW c \in Clients, Arrive(c) PROVE TypeOK'
    <2>1. ASSUME NEW op \in OwnerOps \cup AdminOps
          PROVE  [NoTask EXCEPT !.pc = "wait", !.op = op, !.seen = row] \in Tasks
      BY NoTaskType DEF Tasks, Ops, TypeOK
    <2>2. ASSUME NEW pl \in Payloads
          PROVE  [NoTask EXCEPT !.pc = "wait", !.op = "config", !.payload = pl,
                                !.seen = row] \in Tasks
      BY NoTaskType DEF Tasks, Ops, TypeOK
    <2>3. task' \in [Procs -> Tasks]
      BY <1>1, <2>1, <2>2, ProcsFacts, PutFacts DEF Arrive, TypeOK
    <2>4. QED
      BY <1>1, <2>3 DEF Arrive, TypeOK
  <1>2. ASSUME NEW c \in Clients, OwnerBegins(c) PROVE TypeOK'
    <2>1. task' \in [Procs -> Tasks] /\ lock' \in Procs \cup {NoOne}
      BY <1>2, ProcsFacts, HandBackType, OrderType, CommandType
         DEF OwnerBegins, Reread, TypeOK
    <2>2. QED
      BY <1>2, <2>1 DEF OwnerBegins, TypeOK
  <1>3. ASSUME NEW c \in Clients, AdminBegins(c) PROVE TypeOK'
    <2>1. task' \in [Procs -> Tasks] /\ lock' \in Procs \cup {NoOne}
      BY <1>3, ProcsFacts, OrderType DEF AdminBegins, DockerOrders
    <2>2. QED
      BY <1>3, <2>1 DEF AdminBegins, TypeOK
  <1>4. ASSUME NEW c \in Clients, ConfigBegins(c) PROVE TypeOK'
    <2> DEFINE merged == Merge(row.cfg, task[c].payload)
               t == [Entered(task[c], "call", "provision") EXCEPT !.cfg = merged]
    <2>1. c \in Procs /\ task[c] \in Tasks
      BY ProcsFacts DEF TypeOK
    <2>2. merged \in Configs
      BY <2>1, MergeType DEF TypeOK, Rows, Tasks
    <2>3. t \in Tasks
      BY <2>1, <2>2, EnteredType DEF Tasks, DockerOrders
    <2>4. CASE lock' = c /\ Put(c, t) /\ UNCHANGED row
      <3>1. task' \in [Procs -> Tasks] /\ lock' \in Procs \cup {NoOne}
        BY <2>1, <2>3, <2>4, PutFacts DEF TypeOK
      <3>2. QED
        BY <1>4, <2>4, <3>1 DEF ConfigBegins, TypeOK
    <2>5. CASE row' = Configured(row, merged) /\ StartSync(c, row')
      <3>1. row' \in Rows
        BY <2>2, <2>5, RowUpdates DEF TypeOK
      <3>2. task' \in [Procs -> Tasks] /\ lock' \in Procs \cup {NoOne}
        BY <2>1, <2>5, <3>1, StartSyncType
      <3>3. QED
        BY <1>4, <3>1, <3>2 DEF ConfigBegins, TypeOK
    <2>6. QED
      BY <1>4, <2>4, <2>5 DEF ConfigBegins, Reread
  <1>5. ASSUME Snapshot PROVE TypeOK'
    <2>1. [NoTask EXCEPT !.pc = "scan", !.op = "reconcile", !.cfg = row.cfg,
                         !.exchange = row.exchange] \in Tasks
      BY NoTaskType DEF Tasks, Ops, TypeOK, Rows
    <2>2. QED
      BY <1>5, <2>1, ProcsFacts, PutFacts DEF Snapshot, TypeOK
  <1>6. ASSUME ScanDone PROVE TypeOK'
    <2>1. [task[Reconciler] EXCEPT !.pc = "wait", !.reply = market] \in Tasks
      BY ProcsFacts DEF Tasks, TypeOK
    <2>2. QED
      BY <1>6, <2>1, ProcsFacts, PutFacts DEF ScanDone, TypeOK
  <1>7. ASSUME ReconcilerBegins PROVE TypeOK'
    <2>1. [task[Reconciler] EXCEPT !.pc = "checked", !.seen = row] \in Tasks
      BY ProcsFacts DEF Tasks, TypeOK, Holding
    <2>2. task' \in [Procs -> Tasks] /\ lock' \in Procs \cup {NoOne}
      BY <1>7, <2>1, ProcsFacts, PutFacts, HandBackType DEF ReconcilerBegins, TypeOK
    <2>3. QED
      BY <1>7, <2>2 DEF ReconcilerBegins, TypeOK
  <1>20. ASSUME ReconcilerDecides PROVE TypeOK'
    <2>1. row' \in Rows
      <3>1. task[Reconciler].seen \in Rows
        BY ProcsFacts DEF TypeOK, Tasks
      <3>2. Evaluated(task[Reconciler].seen, task[Reconciler].reply) \in Rows
        BY <3>1 DEF Rows, Evaluated
      <3>3. QED
        BY <1>20, <3>2 DEF ReconcilerDecides, TypeOK, Rows
    <2>2. task' \in [Procs -> Tasks] /\ lock' \in Procs \cup {NoOne}
      BY <1>20, <2>1, ProcsFacts, StartSyncType DEF ReconcilerDecides
    <2>3. QED
      BY <1>20, <2>1, <2>2 DEF ReconcilerDecides, TypeOK
  <1>8. ASSUME NEW p \in Procs, SyncRead(p) PROVE TypeOK'
    <2>1. [task[p] EXCEPT !.pc = "got", !.reply = bot] \in Tasks
      BY <1>8 DEF SyncRead, Tasks, TypeOK, Holding
    <2>2. QED
      BY <1>8, <2>1, PutFacts DEF SyncRead, TypeOK
  <1>9. ASSUME NEW p \in Procs, SyncDecide(p) PROVE TypeOK'
    <2>1. row' \in Rows
      BY <1>9, RowUpdates, NoTaskType DEF SyncDecide, TypeOK, Rows
    <2>2. SyncCommand(row, task[p].reply) \in {"start", "pause", "none"}
      BY DEF SyncCommand
    <2>3. task' \in [Procs -> Tasks] /\ lock' \in Procs \cup {NoOne}
      BY <1>9, <2>2, OrderType, HandBackType DEF SyncDecide, Orders
    <2>4. QED
      BY <1>9, <2>1, <2>3 DEF SyncDecide, TypeOK
  <1>10. ASSUME NEW p \in Procs, Accept(p) \/ LoseReply(p) PROVE TypeOK'
    <2>1. task[p].cmd \in Orders \cup DockerOrders \cup {"none"}
      BY DEF TypeOK, Tasks
    <2>2. Execute(task[p].cmd) /\ UNCHANGED late
          /\ stopHeld' \in {"no", "carried_out", "acknowledged"}
      BY <1>10 DEF Accept, LoseReply, Carry, TypeOK
    <2>3. task' \in [Procs -> Tasks] /\ UNCHANGED <<row, market, lock>>
      BY <1>10, AnswerType DEF Accept, LoseReply
    <2>4. QED
      BY <2>1, <2>2, <2>3, ExecuteType DEF TypeOK
  <1>11. ASSUME NEW p \in Procs, Unreachable(p) \/ Refuse(p) \/ TimeOut(p) PROVE TypeOK'
    <2>1. task' \in [Procs -> Tasks] /\ UNCHANGED <<row, market, lock>>
      BY <1>11, AnswerType DEF Unreachable, Refuse, TimeOut
    <2>2. QED
      BY <1>11, <2>1 DEF Unreachable, Refuse, TimeOut, TypeOK, BotStates
  <1>12. ASSUME NEW p \in Procs, SyncUnread(p) PROVE TypeOK'
    BY <1>12, HandBackType DEF SyncUnread, TypeOK
  <1>13. ASSUME NEW p \in Procs, Finish(p) PROVE TypeOK'
    <2>1. row' \in Rows
      BY <1>13, RowUpdates DEF Finish, Committed, TypeOK, Tasks
    <2>2. task' \in [Procs -> Tasks] /\ lock' \in Procs \cup {NoOne}
      BY <1>13, HandBackType DEF Finish
    <2>3. QED
      BY <1>13, <2>1, <2>2 DEF Finish, TypeOK
  <1>14. ASSUME MarketMoves \/ ContainerDies \/ ContainerBoots \/ ExternalPause PROVE TypeOK'
    BY <1>14 DEF MarketMoves, ContainerDies, ContainerBoots, ExternalPause, TypeOK,
                 BotStates, Up
  <1>15. ASSUME LateArrival PROVE TypeOK'
    BY <1>15, ExecuteType DEF LateArrival, TypeOK, Orders
  <1>16. ASSUME Recreate PROVE TypeOK'
    BY <1>16 DEF Recreate, TypeOK, Rows, BotStates, Up
  <1>17. ASSUME Crash PROVE TypeOK'
    BY <1>17, NoTaskType DEF Crash, TypeOK
  <1>18. CASE UNCHANGED vars
    BY <1>18 DEF vars, TypeOK
  <1>19. QED
    BY <1>1, <1>2, <1>3, <1>4, <1>5, <1>6, <1>7, <1>8, <1>9, <1>10, <1>11, <1>12,
       <1>13, <1>14, <1>15, <1>16, <1>17, <1>18, <1>20
       DEF Next, Begins, Progress, Pass, Settling, Disturbance

(* In every reachable state the variables have their types.                *)
THEOREM TypeCorrect == Spec => []TypeOK
  BY TypeInit, TypeStep, PTL DEF Spec

-----------------------------------------------------------------------------
(* Mutual exclusion, and the agreement of the row with what the holder of  *)
(* the lock has sent.                                                      *)

Core == LockExclusive /\ \A p \in Procs : TaskShape(p) /\ IntentHeld(p) /\ CopyHeld(p)

(* The part of the row that TaskShape and IntentHeld read.                 *)
SameIntent ==
    /\ row'.trading_enabled = row.trading_enabled
    /\ row'.manual_paused = row.manual_paused
    /\ row'.tradingview_paused = row.tradingview_paused
    /\ row'.cfg = row.cfg

OthersSame(p) == \A q \in Procs \ {p} : task'[q] = task[q]

(* How an action of one task may move the lock.                            *)
LockMoves(p) ==
    \/ lock' = lock /\ (task[p].pc \in Holding <=> task'[p].pc \in Holding)
    \/ lock \in {NoOne, p} /\ lock' = p /\ task'[p].pc \in Holding
    \/ lock \in {NoOne, p} /\ lock' = NoOne /\ task'[p].pc \notin Holding

(* Taking, keeping and giving back the lock keep it exclusive.             *)
LEMMA LockStep ==
    ASSUME LockExclusive, NEW p \in Procs, OthersSame(p), LockMoves(p)
    PROVE  LockExclusive'
  BY ProcsFacts DEF LockExclusive, OthersSame, LockMoves

(* What holds of the tasks that stand still goes on to hold.               *)
LEMMA OthersKeep ==
    ASSUME Core, NEW p \in Procs, OthersSame(p), lock \in {NoOne, p} \/ SameIntent,
           NEW q \in Procs, q # p
    PROVE  TaskShape(q)' /\ IntentHeld(q)' /\ CopyHeld(q)'
  <1>1. task'[q] = task[q]
    BY DEF OthersSame
  <1>2. TaskShape(q) /\ IntentHeld(q) /\ CopyHeld(q)
    BY DEF Core
  <1>3. CASE SameIntent
    BY <1>1, <1>2, <1>3 DEF SameIntent, TaskShape, IntentHeld, CopyHeld, Automatic, InCall,
                            OwnerTarget, GuardPause, EntriesPaused
  <1>4. CASE lock \in {NoOne, p}
    <2>1. task[q].pc \notin Holding
      BY <1>4, ProcsFacts DEF Core, LockExclusive
    <2>2. QED
      BY <1>1, <1>2, <2>1 DEF TaskShape, IntentHeld, CopyHeld, Automatic, InCall, Holding
  <1>5. QED
    BY <1>3, <1>4

(* One task acts: what is left to show of Core is what it shows of itself. *)
LEMMA ActorStep ==
    ASSUME Core, NEW p \in Procs, OthersSame(p), LockMoves(p),
           lock \in {NoOne, p} \/ SameIntent,
           TaskShape(p)' /\ IntentHeld(p)' /\ CopyHeld(p)'
    PROVE  Core'
  BY LockStep, OthersKeep DEF Core

(* A task that gives the lock back leaves Core true.                       *)
LEMMA HandBackStep ==
    ASSUME TypeOK, Core, NEW p \in Procs, lock \in {NoOne, p}, HandBack(p)
    PROVE  /\ Core' /\ OthersSame(p) /\ lock' = NoOne
           /\ task'[p].pc = "idle" /\ task'[p].op = "none"
  <1>1. task'[p].pc = "idle" /\ task'[p].op = "none" /\ OthersSame(p) /\ lock' = NoOne
    BY NoTaskType, PutFacts DEF HandBack, TypeOK, NoTask, OthersSame
  <1>2. LockMoves(p)
    BY <1>1 DEF LockMoves, Holding
  <1>3. TaskShape(p)' /\ IntentHeld(p)' /\ CopyHeld(p)'
    BY <1>1 DEF TaskShape, IntentHeld, CopyHeld, InCall
  <1>4. QED
    BY <1>1, <1>2, <1>3, ActorStep

(* A task that sends what the row asks for leaves Core true.               *)
LEMMA OrderStep ==
    ASSUME TypeOK, NEW p \in Procs, lock \in {NoOne, p},
           NEW cmd \in Orders \cup DockerOrders, Order(p, cmd)
    PROVE  /\ OthersSame(p) /\ LockMoves(p) /\ lock' = p
           /\ task'[p].pc = "call" /\ task'[p].cmd = cmd /\ task'[p].op = task[p].op
  <1>1. task[p] \in Tasks
    BY DEF TypeOK
  <1>2. task'[p] = Entered(task[p], "call", cmd) /\ OthersSame(p) /\ lock' = p
    BY <1>1, EnteredType, PutFacts DEF Order, TypeOK, OthersSame
  <1>3. task'[p].pc = "call" /\ task'[p].cmd = cmd /\ task'[p].op = task[p].op
    BY <1>1, <1>2, EnteredType
  <1>4. QED
    BY <1>2, <1>3 DEF LockMoves, Holding

(* A task that starts sync_state leaves Core true.                         *)
LEMMA StartSyncStep ==
    ASSUME TypeOK, Core, NEW p \in Procs, lock \in {NoOne, p},
           StartSync(p, row'), Automatic(p), task[p].pc # "idle"
    PROVE  Core' /\ OthersSame(p)
  <1>1. CASE ~row'.trading_enabled
    BY <1>1, HandBackStep DEF StartSync
  <1>2. CASE row'.trading_enabled
    <2>1. task[p] \in Tasks
      BY DEF TypeOK
    <2>2. lock' = p /\ OthersSame(p) /\ task'[p].pc = "get" /\ task'[p].op = task[p].op
      BY <1>2, <2>1, GetType, PutFacts DEF StartSync, TypeOK, OthersSame
    <2>3. LockMoves(p)
      BY <2>2 DEF LockMoves, Holding
    <2>4. TaskShape(p)' /\ IntentHeld(p)' /\ CopyHeld(p)'
      <3>1. TaskShape(p)
        BY DEF Core
      <3>2. QED
        BY <1>2, <2>2, <3>1 DEF TaskShape, IntentHeld, CopyHeld, Automatic, InCall
    <2>5. QED
      BY <2>2, <2>3, <2>4, ActorStep
  <1>3. QED
    BY <1>1, <1>2

(* The fate of a command leaves Core true.                                 *)
LEMMA AnswerStep ==
    ASSUME TypeOK, Core, NEW p \in Procs, NEW reply \in {"ok", "failed"}, Answer(p, reply)
    PROVE  /\ Core' /\ OthersSame(p)
           /\ task'[p].pc = "answered" /\ task'[p].reply = reply
           /\ task'[p].op = task[p].op /\ task'[p].cmd = task[p].cmd
  <1>1. task[p] \in Tasks /\ task[p].pc = "call"
    BY DEF TypeOK, Answer
  <1>2. /\ OthersSame(p) /\ lock' = lock /\ row' = row
        /\ task'[p] = [task[p] EXCEPT !.pc = "answered", !.reply = reply]
    BY AnswerType, PutFacts DEF Answer, TypeOK, OthersSame
  <1>3. /\ task'[p].pc = "answered" /\ task'[p].reply = reply
        /\ task'[p].op = task[p].op /\ task'[p].cmd = task[p].cmd
    BY <1>1, <1>2 DEF Tasks
  <1>4. LockMoves(p) /\ SameIntent
    BY <1>1, <1>2, <1>3 DEF LockMoves, Holding, SameIntent
  <1>5. TaskShape(p)' /\ IntentHeld(p)' /\ CopyHeld(p)'
    <2>1. TaskShape(p) /\ IntentHeld(p) /\ CopyHeld(p)
      BY DEF Core
    <2>2. QED
      BY <1>1, <1>2, <1>3, <2>1
         DEF TaskShape, IntentHeld, CopyHeld, Automatic, InCall, OwnerTarget, GuardPause, EntriesPaused
  <1>6. QED
    BY <1>2, <1>3, <1>4, <1>5, ActorStep

(* Core holds before any request.                                          *)
LEMMA CoreInit == Init => Core
  <1> SUFFICES ASSUME Init PROVE Core
    OBVIOUS
  <1>1. \A p \in Procs : task[p].pc = "idle" /\ task[p].op = "none"
    BY DEF Init, NoTask
  <1>2. LockExclusive
    BY <1>1, ProcsFacts DEF Init, LockExclusive, Holding
  <1>3. \A p \in Procs : TaskShape(p) /\ IntentHeld(p) /\ CopyHeld(p)
    BY <1>1 DEF TaskShape, IntentHeld, CopyHeld, InCall
  <1>4. QED
    BY <1>2, <1>3 DEF Core

(* A step that leaves the tasks, the lock and the intent alone.            *)
LEMMA QuietStep ==
    ASSUME Core, UNCHANGED <<task, lock>>, SameIntent
    PROVE  Core'
  BY DEF Core, SameIntent, LockExclusive, TaskShape, IntentHeld, CopyHeld, Automatic, InCall,
         OwnerTarget, GuardPause, EntriesPaused

(* Requests that take the lock leave Core true.                            *)
LEMMA BeginsStep ==
    ASSUME TypeOK, Core, NEW c \in Clients, Begins(c)
    PROVE  Core'
  <1>1. c \in Procs /\ c # Reconciler /\ task[c] \in Tasks
    BY ProcsFacts DEF TypeOK
  <1>2. lock = NoOne /\ task[c].pc = "wait"
    BY DEF Begins, OwnerBegins, AdminBegins, ConfigBegins, CanEnter
  <1>3. CASE OwnerBegins(c)
    <2>1. CASE HandBack(c)
      BY <1>1, <1>2, <2>1, HandBackStep
    <2>2. CASE Order(c, OwnerTarget(task[c].op, row)) /\ ~Refused(task[c].op, row)
      <3>1. /\ task[c].op \in OwnerOps /\ row' = row
            /\ OwnerTarget(task[c].op, row) \in Orders
        BY <1>3, CommandType DEF OwnerBegins, TypeOK
      <3>2. /\ OthersSame(c) /\ LockMoves(c) /\ task'[c].pc = "call"
            /\ task'[c].cmd = OwnerTarget(task[c].op, row) /\ task'[c].op = task[c].op
        BY <1>1, <1>2, <2>2, <3>1, OrderStep
      <3>3. TaskShape(c)'
        BY <1>1, <3>1, <3>2, OpsAssumption
           DEF TaskShape, Automatic, InCall, OwnerTarget, GuardPause
      <3>4. IntentHeld(c)'
        BY <1>1, <2>2, <3>1, <3>2, OpsAssumption
           DEF IntentHeld, Automatic, InCall, Refused, EntriesPaused, GuardPause
      <3>5. CopyHeld(c)'
        BY <3>2 DEF CopyHeld
      <3>6. QED
        BY <1>1, <1>2, <3>2, <3>3, <3>4, <3>5, ActorStep
    <2>3. QED
      BY <1>3, <2>1, <2>2 DEF OwnerBegins, Reread
  <1>4. CASE AdminBegins(c)
    <2> DEFINE cmd == IF task[c].op = "admin_start" THEN "docker_start" ELSE "docker_stop"
    <2>1. task[c].op \in {"admin_start", "admin_stop"} /\ row' = row /\ Order(c, cmd)
      BY <1>4, OpsAssumption DEF AdminBegins
    <2>2. cmd \in DockerOrders
      BY DEF DockerOrders
    <2> HIDE DEF cmd
    <2>3. /\ OthersSame(c) /\ LockMoves(c) /\ task'[c].pc = "call"
          /\ task'[c].cmd = cmd /\ task'[c].op = task[c].op
      BY <1>1, <1>2, <2>1, <2>2, OrderStep
    <2>4. TaskShape(c)' /\ IntentHeld(c)' /\ CopyHeld(c)'
      BY <1>1, <2>1, <2>3, OpsAssumption
         DEF TaskShape, IntentHeld, CopyHeld, Automatic, InCall, cmd
    <2>5. QED
      BY <1>1, <1>2, <2>3, <2>4, ActorStep
  <1>5. CASE ConfigBegins(c)
    <2> DEFINE merged == Merge(row.cfg, task[c].payload)
               e == Entered(task[c], "call", "provision")
               t == [e EXCEPT !.cfg = merged]
    <2>1. task[c].op = "config"
      BY <1>5 DEF ConfigBegins
    <2>2. CASE lock' = c /\ Put(c, t) /\ UNCHANGED row
      <3>1. merged \in Configs
        BY <1>1, MergeType DEF TypeOK, Rows, Tasks
      <3>2. e \in Tasks /\ e.pc = "call" /\ e.cmd = "provision" /\ e.op = task[c].op
        BY <1>1, EnteredType DEF DockerOrders
      <3> HIDE DEF e, merged
      <3>3. t \in Tasks /\ t.pc = "call" /\ t.cmd = "provision" /\ t.op = task[c].op
        BY <3>1, <3>2 DEF Tasks
      <3> HIDE DEF t
      <3>4. OthersSame(c) /\ task'[c] = t
        BY <1>1, <2>2, <3>3, PutFacts DEF TypeOK, OthersSame
      <3>5. LockMoves(c)
        BY <1>2, <2>2, <3>3, <3>4 DEF LockMoves, Holding
      <3>6. TaskShape(c)' /\ IntentHeld(c)' /\ CopyHeld(c)'
        BY <1>1, <2>1, <3>3, <3>4, OpsAssumption DEF TaskShape, IntentHeld, CopyHeld, Automatic, InCall
      <3>7. QED
        BY <1>1, <1>2, <3>4, <3>5, <3>6, ActorStep
    <2>3. CASE StartSync(c, row')
      BY <1>1, <1>2, <2>1, <2>3, StartSyncStep DEF Automatic
    <2>4. QED
      BY <1>5, <2>2, <2>3 DEF ConfigBegins, Reread
  <1>6. QED
    BY <1>3, <1>4, <1>5 DEF Begins

(* A pass of the reconciler leaves Core true.                              *)
LEMMA PassStep ==
    ASSUME TypeOK, Core, Pass
    PROVE  Core'
  <1>1. Reconciler \in Procs /\ task[Reconciler] \in Tasks /\ TaskShape(Reconciler)
    BY ProcsFacts DEF TypeOK, Core
  <1>2. CASE Snapshot
    <2> DEFINE t == [NoTask EXCEPT !.pc = "scan", !.op = "reconcile", !.cfg = row.cfg,
                                   !.exchange = row.exchange]
    <2>1. t \in Tasks /\ t.pc = "scan" /\ t.op = "reconcile"
      BY NoTaskType DEF Tasks, Ops, TypeOK, Rows
    <2> HIDE DEF t
    <2>2. OthersSame(Reconciler) /\ task'[Reconciler] = t /\ lock' = lock /\ row' = row
      BY <1>1, <1>2, <2>1, PutFacts DEF Snapshot, TypeOK, OthersSame, t
    <2>3. LockMoves(Reconciler) /\ SameIntent
      BY <1>2, <2>1, <2>2 DEF Snapshot, LockMoves, Holding, SameIntent
    <2>4. TaskShape(Reconciler)' /\ IntentHeld(Reconciler)' /\ CopyHeld(Reconciler)'
      BY <2>1, <2>2 DEF TaskShape, IntentHeld, CopyHeld, InCall
    <2>5. QED
      BY <1>1, <2>2, <2>3, <2>4, ActorStep
  <1>3. CASE ScanDone
    <2> DEFINE t == [task[Reconciler] EXCEPT !.pc = "wait", !.reply = market]
    <2>1. t \in Tasks /\ t.pc = "wait" /\ t.op = task[Reconciler].op
      BY <1>1 DEF Tasks, TypeOK
    <2> HIDE DEF t
    <2>2. OthersSame(Reconciler) /\ task'[Reconciler] = t /\ lock' = lock /\ row' = row
      BY <1>1, <1>3, <2>1, PutFacts DEF ScanDone, TypeOK, OthersSame, t
    <2>3. LockMoves(Reconciler) /\ SameIntent
      BY <1>3, <2>1, <2>2 DEF ScanDone, LockMoves, Holding, SameIntent
    <2>4. TaskShape(Reconciler)' /\ IntentHeld(Reconciler)' /\ CopyHeld(Reconciler)'
      BY <1>1, <1>3, <2>1, <2>2 DEF ScanDone, TaskShape, IntentHeld, CopyHeld, InCall
    <2>5. QED
      BY <1>1, <2>2, <2>3, <2>4, ActorStep
  <1>4. CASE ReconcilerBegins
    <2>1. lock = NoOne /\ task[Reconciler].pc = "wait" /\ Automatic(Reconciler)
      BY <1>1, <1>4 DEF ReconcilerBegins, CanEnter, TaskShape, Automatic
    <2>2. CASE HandBack(Reconciler)
      BY <1>1, <2>1, <2>2, HandBackStep
    <2> DEFINE t == [task[Reconciler] EXCEPT !.pc = "checked", !.seen = row]
    <2>3. CASE SameFingerprint(task[Reconciler]) /\ lock' = Reconciler /\ Put(Reconciler, t)
      <3>1. /\ t \in Tasks /\ t.pc = "checked" /\ t.op = task[Reconciler].op
            /\ t.seen = row /\ t.cfg = row.cfg /\ t.exchange = row.exchange
        BY <1>1, <2>3 DEF Tasks, TypeOK, Holding, SameFingerprint
      <3> HIDE DEF t
      <3>2. OthersSame(Reconciler) /\ task'[Reconciler] = t /\ row' = row
        BY <1>1, <1>4, <2>3, <3>1, PutFacts DEF ReconcilerBegins, TypeOK, OthersSame
      <3>3. LockMoves(Reconciler)
        BY <2>1, <2>3, <3>1, <3>2 DEF LockMoves, Holding
      <3>4. TaskShape(Reconciler)' /\ IntentHeld(Reconciler)' /\ CopyHeld(Reconciler)'
        BY <1>1, <2>1, <3>1, <3>2 DEF TaskShape, IntentHeld, CopyHeld, Automatic, InCall
      <3>5. QED
        BY <1>1, <2>1, <3>2, <3>3, <3>4, ActorStep
    <2>4. QED
      BY <1>4, <2>2, <2>3 DEF ReconcilerBegins
  <1>5. CASE ReconcilerDecides
    <2>1. lock = Reconciler /\ task[Reconciler].pc = "checked" /\ Automatic(Reconciler)
      BY <1>1, <1>5 DEF ReconcilerDecides, Core, LockExclusive, Holding, TaskShape, Automatic
    <2>2. QED
      BY <1>1, <1>5, <2>1, StartSyncStep DEF ReconcilerDecides
  <1>6. QED
    BY <1>2, <1>3, <1>4, <1>5 DEF Pass

(* The decision of sync_state leaves Core true.                            *)
LEMMA SyncDecideStep ==
    ASSUME TypeOK, Core, NEW p \in Procs, SyncDecide(p)
    PROVE  Core'
  <1> DEFINE cmd == SyncCommand(row, task[p].reply)
  <1>1. lock = p /\ task[p].pc = "got" /\ task[p] \in Tasks
    BY DEF SyncDecide, Core, LockExclusive, Holding, TypeOK
  <1>2. Automatic(p) /\ row.trading_enabled /\ TaskShape(p)
    BY <1>1 DEF Core, TaskShape, IntentHeld
  <1>3. CASE HandBack(p)
    BY <1>1, <1>3, HandBackStep
  <1>4. CASE cmd # "none" /\ Order(p, cmd)
    <2>1. cmd \in {"start", "pause"}
      BY <1>4 DEF SyncCommand
    <2>2. /\ OthersSame(p) /\ LockMoves(p) /\ task'[p].pc = "call"
          /\ task'[p].cmd = cmd /\ task'[p].op = task[p].op
      BY <1>1, <1>4, <2>1, OrderStep DEF Orders
    <2>3. SameIntent
      <3>1. row' = row \/ row' = Claimed(row)
        BY <1>4, Zenon DEF SyncDecide
      <3>2. QED
        BY <3>1 DEF SameIntent, Claimed, TypeOK, Rows
    <2>4. cmd = "start" => ~EntriesPaused(row)
      BY DEF SyncCommand
    <2>5. cmd = "pause" => EntriesPaused(row)
      BY DEF SyncCommand
    <2> HIDE DEF cmd
    <2>6. TaskShape(p)'
      BY <1>1, <1>2, <2>1, <2>2, OpsAssumption DEF TaskShape, Automatic, InCall
    <2>7. IntentHeld(p)'
      BY <1>2, <2>1, <2>2, <2>3, <2>4, <2>5
         DEF IntentHeld, Automatic, InCall, EntriesPaused, GuardPause, SameIntent
    <2>8. CopyHeld(p)'
      BY <2>2 DEF CopyHeld
    <2>9. QED
      BY <1>1, <2>2, <2>6, <2>7, <2>8, ActorStep
  <1>5. QED
    BY <1>3, <1>4 DEF SyncDecide

(* Reading the bot's state leaves Core true.                               *)
LEMMA SyncReadStep ==
    ASSUME TypeOK, Core, NEW p \in Procs, SyncRead(p)
    PROVE  Core'
  <1> DEFINE t == [task[p] EXCEPT !.pc = "got", !.reply = bot]
  <1>1. t \in Tasks /\ t.pc = "got" /\ t.op = task[p].op
    BY DEF SyncRead, Tasks, TypeOK, Holding
  <1> HIDE DEF t
  <1>2. OthersSame(p) /\ task'[p] = t /\ lock' = lock /\ row' = row
    BY <1>1, PutFacts DEF SyncRead, TypeOK, OthersSame, t
  <1>3. LockMoves(p) /\ SameIntent
    BY <1>1, <1>2 DEF SyncRead, LockMoves, Holding, SameIntent
  <1>4. TaskShape(p)' /\ IntentHeld(p)' /\ CopyHeld(p)'
    BY <1>1, <1>2 DEF SyncRead, Core, TaskShape, IntentHeld, CopyHeld, Automatic, InCall
  <1>5. QED
    BY <1>2, <1>3, <1>4, ActorStep

(* Every step leaves Core true.                                            *)
LEMMA CoreStep == TypeOK /\ Core /\ [Next]_vars => Core'
  <1> SUFFICES ASSUME TypeOK, Core, [Next]_vars PROVE Core'
    OBVIOUS
  <1>1. ASSUME NEW c \in Clients, Arrive(c) PROVE Core'
    <2>1. \E t \in Tasks : Put(c, t) /\ t.pc = "wait" /\ t.op \in Ops \ {"reconcile"}
      <3>1. ASSUME NEW op \in OwnerOps \cup AdminOps
            PROVE  LET t == [NoTask EXCEPT !.pc = "wait", !.op = op, !.seen = row]
                   IN  t \in Tasks /\ t.pc = "wait" /\ t.op \in Ops \ {"reconcile"}
        BY NoTaskType, OpsAssumption DEF Tasks, Ops, TypeOK
      <3>2. ASSUME NEW pl \in Payloads
            PROVE  LET t == [NoTask EXCEPT !.pc = "wait", !.op = "config", !.payload = pl,
                                           !.seen = row]
                   IN  t \in Tasks /\ t.pc = "wait" /\ t.op \in Ops \ {"reconcile"}
        BY NoTaskType DEF Tasks, Ops, TypeOK
      <3>3. QED
        BY <1>1, <3>1, <3>2 DEF Arrive
    <2>2. PICK t \in Tasks : Put(c, t) /\ t.pc = "wait" /\ t.op \in Ops \ {"reconcile"}
      BY <2>1
    <2>3. OthersSame(c) /\ task'[c] = t /\ lock' = lock /\ row' = row
      BY <1>1, <2>2, PutFacts, ProcsFacts DEF Arrive, TypeOK, OthersSame
    <2>4. LockMoves(c) /\ SameIntent
      BY <1>1, <2>2, <2>3 DEF Arrive, LockMoves, Holding, SameIntent
    <2>5. TaskShape(c)' /\ IntentHeld(c)' /\ CopyHeld(c)'
      BY <2>2, <2>3, ProcsFacts DEF TaskShape, IntentHeld, CopyHeld, InCall
    <2>6. QED
      BY <2>3, <2>4, <2>5, ActorStep, ProcsFacts
  <1>2. ASSUME NEW p \in Procs, Accept(p) \/ Unreachable(p) \/ Refuse(p) \/ LoseReply(p) \/ TimeOut(p)
        PROVE  Core'
    BY <1>2, AnswerStep DEF Accept, Unreachable, Refuse, LoseReply, TimeOut
  <1>3. ASSUME NEW p \in Procs, SyncUnread(p) \/ Finish(p) PROVE Core'
    <2>1. lock = p /\ HandBack(p)
      BY <1>3 DEF SyncUnread, Finish, Core, LockExclusive, Holding
    <2>2. QED
      BY <2>1, HandBackStep
  <1>4. ASSUME MarketMoves \/ LateArrival \/ ContainerDies \/ ContainerBoots
               \/ ExternalPause \/ Recreate
        PROVE  Core'
    <2>1. UNCHANGED <<task, lock>> /\ SameIntent
      BY <1>4 DEF MarketMoves, LateArrival, ContainerDies, ContainerBoots, ExternalPause,
                  Recreate, SameIntent, TypeOK, Rows
    <2>2. QED
      BY <2>1, QuietStep
  <1>5. ASSUME Crash PROVE Core'
    <2>1. lock' = NoOne /\ \A p \in Procs : task'[p].pc = "idle" /\ task'[p].op = "none"
      BY <1>5 DEF Crash, NoTask
    <2>2. LockExclusive'
      BY <2>1, ProcsFacts DEF LockExclusive, Holding
    <2>3. \A p \in Procs : TaskShape(p)' /\ IntentHeld(p)' /\ CopyHeld(p)'
      BY <2>1 DEF TaskShape, IntentHeld, CopyHeld, InCall
    <2>4. QED
      BY <2>2, <2>3 DEF Core
  <1>6. CASE UNCHANGED vars
    BY <1>6, QuietStep DEF vars, SameIntent
  <1>7. QED
    BY <1>1, <1>2, <1>3, <1>4, <1>5, <1>6, BeginsStep, PassStep, SyncReadStep, SyncDecideStep
       DEF Next, Progress, Settling, Disturbance

(* Handlers of one bot never overlap between taking its lock and giving it *)
(* back, and the row always asks for what the holder has sent.             *)
THEOREM CoreCorrect == Spec => []Core
  <1>1. Init => Core
    BY CoreInit
  <1>2. TypeOK /\ Core /\ [Next]_vars => Core'
    BY CoreStep
  <1>3. QED
    BY <1>1, <1>2, TypeCorrect, PTL DEF Spec

(* An automatic start is in flight only for a bot that should trade and    *)
(* whose entries nothing pauses, an automatic pause only for one that      *)
(* should trade and whose entries are paused.                              *)
THEOREM CommandMatchesIntentHolds == Spec => []CommandMatchesIntent
  <1>1. Core => CommandMatchesIntent
    BY DEF Core, IntentHeld, InCall, Sending, CommandMatchesIntent
  <1>2. QED
    BY <1>1, CoreCorrect, PTL

(* A start of the owner is in flight only when the protection does not     *)
(* hold entries, a forced entry only when nothing does.                    *)
THEOREM NoBypassHolds == Spec => []NoBypass
  <1>1. TypeOK /\ Core => NoBypass
    <2> SUFFICES ASSUME TypeOK, Core, NEW c \in Clients, ~Automatic(c)
                 PROVE  /\ Sending(c, "start") => ~GuardPause(row)
                        /\ Sending(c, "forceenter") => ~EntriesPaused(row)
      BY DEF NoBypass
    <2>1. c \in Procs /\ task[c].op \in OwnerOps \cup AdminOps \cup {"none"}
      BY ProcsFacts DEF TypeOK, Tasks, Ops, Automatic
    <2>2. TaskShape(c) /\ IntentHeld(c)
      BY <2>1 DEF Core
    <2>3. QED
      BY <2>1, <2>2, OpsAssumption
         DEF TaskShape, IntentHeld, InCall, Sending, OwnerTarget
  <1>2. QED
    BY <1>1, TypeCorrect, CoreCorrect, PTL

-----------------------------------------------------------------------------
(* Ownership of a pause, and the protection's own pause.                   *)

(* Every way a step can change the committed row.                          *)
RowStep ==
    \/ row' = row
    \/ \E e \in Exchanges : row' = [row EXCEPT !.exchange = e]
    \/ \E cfg \in Configs : row' = Configured(row, cfg)
    \/ \E p \in Procs : row' = Confirmed(row, task[p].reply)
    \/ row.cfg.guard /\ row' = Evaluated(row, task[Reconciler].reply)
    \/ row.trading_enabled /\ row' = Claimed(row)
    \/ \E p \in Procs :
          \/ /\ task[p].cmd = "pause" => row.trading_enabled
             /\ row' = Synced(row, task[p].cmd)
          \/ /\ InCall(p) /\ task[p].op \in {"start", "stop", "pause"}
             /\ task[p].op = "stop" => task[p].cmd # "pause"
             /\ row' = OwnerRecorded(row, task[p].op, task[p].cmd)
          \/ /\ InCall(p) /\ task[p].op = "admin_start"
             /\ row' = AdminStarted(row)
    \/ row' = AdminStopped(row)

(* Every step changes the row in one of the ways RowStep lists.            *)
LEMMA RowSteps == TypeOK /\ Core /\ [Next]_vars => RowStep
  <1> SUFFICES ASSUME TypeOK, Core, [Next]_vars PROVE RowStep
    OBVIOUS
  <1>1. ASSUME NEW c \in Clients, ConfigBegins(c) PROVE RowStep
    <2>1. Merge(row.cfg, task[c].payload) \in Configs
      BY ProcsFacts, MergeType DEF TypeOK, Rows, Tasks
    <2>2. QED
      BY <1>1, <2>1 DEF ConfigBegins, Reread, RowStep
  <1>2. ASSUME ReconcilerDecides PROVE RowStep
    <2> DEFINE t == task[Reconciler]
    <2>1. t.seen.cfg = row.cfg /\ t.seen.tradingview_paused = row.tradingview_paused
      BY <1>2, ProcsFacts DEF ReconcilerDecides, Core, CopyHeld
    <2>2. t.seen \in Rows /\ row \in Rows
      BY ProcsFacts DEF TypeOK, Tasks
    <2>3. row' = row \/ (row.cfg.guard /\ row' = Evaluated(row, t.reply))
      BY <1>2, <2>1, <2>2 DEF ReconcilerDecides, Evaluated, Rows
    <2>4. QED
      BY <2>3 DEF RowStep
  <1>3. ASSUME NEW p \in Procs, SyncDecide(p) PROVE RowStep
    <2>1. row.trading_enabled
      BY <1>3 DEF SyncDecide, Core, IntentHeld
    <2>2. QED
      BY <1>3, <2>1 DEF SyncDecide, RowStep
  <1>4. ASSUME NEW p \in Procs, Finish(p) PROVE RowStep
    <2>1. InCall(p) /\ TaskShape(p) /\ IntentHeld(p) /\ task[p].cfg \in Configs
      BY <1>4 DEF Finish, InCall, Core, TypeOK, Tasks
    <2>2. CASE row' = row
      BY <2>2 DEF RowStep
    <2>3. CASE row' = Committed(row, task[p])
      <3>1. CASE task[p].op \in {"start", "stop", "pause"}
        <4>1. task[p].op = "stop" => task[p].cmd # "pause"
          BY <2>1, <3>1, OpsAssumption DEF TaskShape, OwnerTarget, TypeOK, Tasks, Ops, InCall
        <4>2. row' = OwnerRecorded(row, task[p].op, task[p].cmd)
          BY <2>3, <3>1 DEF Committed
        <4>3. QED
          BY <2>1, <3>1, <4>1, <4>2 DEF RowStep
      <3>2. CASE task[p].op = "admin_start" \/ task[p].op = "admin_stop"
        BY <2>1, <2>3, <3>2 DEF Committed, RowStep
      <3>3. CASE task[p].op = "config" /\ task[p].cmd = "provision"
        BY <2>1, <2>3, <3>3 DEF Committed, RowStep
      <3>4. CASE task[p].op \in {"config", "reconcile"} /\ task[p].cmd # "provision"
        <4>1. task[p].cmd = "pause" => row.trading_enabled
          BY <2>1, <3>4 DEF IntentHeld, Automatic
        <4>2. row' = Synced(row, task[p].cmd)
          BY <2>3, <3>4 DEF Committed
        <4>3. QED
          BY <4>1, <4>2 DEF RowStep
      <3>5. CASE /\ task[p].op \notin {"start", "stop", "pause", "admin_start", "admin_stop"}
                 /\ task[p].op \notin {"config", "reconcile"}
        BY <2>3, <3>5 DEF Committed, RowStep
      <3>6. CASE task[p].op = "reconcile" /\ task[p].cmd = "provision"
        BY <2>3, <3>6 DEF Committed, RowStep
      <3>7. QED
        BY <3>1, <3>2, <3>3, <3>4, <3>5, <3>6
    <2>4. QED
      BY <1>4, <2>2, <2>3 DEF Finish
  <1>5. ASSUME Recreate PROVE RowStep
    BY <1>5 DEF Recreate, RowStep
  <1>6. CASE row' = row
    BY <1>6 DEF RowStep
  <1>7. QED
    BY <1>1, <1>2, <1>3, <1>4, <1>5, <1>6
       DEF Next, Begins, Progress, Pass, Settling, Disturbance, vars, Arrive, OwnerBegins, AdminBegins,
           Snapshot, ScanDone, ReconcilerBegins, SyncRead, SyncUnread, Accept, Unreachable,
           Refuse, LoseReply, TimeOut, Answer, MarketMoves, LateArrival, ContainerDies, ContainerBoots,
           ExternalPause, Crash

(* None of these ways makes a pause owned without an intent.               *)
LEMMA OwnershipStep ==
    ASSUME TypeOK, OwnershipHasIntent, GuardPauseNeedsGuard, RowStep
    PROVE  OwnershipHasIntent' /\ GuardPauseNeedsGuard'
  BY DEF RowStep, OwnershipHasIntent, GuardPauseNeedsGuard, TypeOK, Rows, Configs, Configured,
         Confirmed, Evaluated, Claimed, Synced, OwnerRecorded, AdminStarted, AdminStopped

(* The control plane owns a pause only of a bot whose trading is wanted,   *)
(* and it waits for the confirmation only of a pause it owns.              *)
THEOREM OwnershipHasIntentHolds == Spec => []OwnershipHasIntent
  <1>1. Init => OwnershipHasIntent /\ GuardPauseNeedsGuard
    BY DEF Init, FreshRow, OwnershipHasIntent, GuardPauseNeedsGuard
  <1>2. TypeOK /\ Core /\ OwnershipHasIntent /\ GuardPauseNeedsGuard /\ [Next]_vars
          => OwnershipHasIntent' /\ GuardPauseNeedsGuard'
    BY RowSteps, OwnershipStep
  <1>3. QED
    BY <1>1, <1>2, TypeCorrect, CoreCorrect, PTL DEF Spec

(* The protection holds entries only while it is enabled.                  *)
THEOREM GuardPauseNeedsGuardHolds == Spec => []GuardPauseNeedsGuard
  <1>1. Init => OwnershipHasIntent /\ GuardPauseNeedsGuard
    BY DEF Init, FreshRow, OwnershipHasIntent, GuardPauseNeedsGuard
  <1>2. TypeOK /\ Core /\ OwnershipHasIntent /\ GuardPauseNeedsGuard /\ [Next]_vars
          => OwnershipHasIntent' /\ GuardPauseNeedsGuard'
    BY RowSteps, OwnershipStep
  <1>3. QED
    BY <1>1, <1>2, TypeCorrect, CoreCorrect, PTL DEF Spec

-----------------------------------------------------------------------------
(* An acknowledged stop holds, when no command reaches the bot late.       *)

Trading(b) == b \in {"running", "paused"}

StopInv == NoneLate /\ StopRests /\ StopCarriedOut

(* Only a start or a pause that is carried out makes a bot trade.          *)
LEMMA BotStep ==
    ASSUME TypeOK, NoneLate, [Next]_vars, Trading(bot'), ~Trading(bot)
    PROVE  \E p \in Procs : /\ task[p].pc = "call"
                            /\ task[p].cmd \in {"start", "pause"}
                            /\ Accept(p) \/ LoseReply(p)
  <1>1. ASSUME NEW p \in Procs, Accept(p) \/ LoseReply(p)
        PROVE  task[p].pc = "call" /\ task[p].cmd \in {"start", "pause"}
    BY <1>1 DEF Accept, LoseReply, Carry, Answer, Execute, After, Trading, TypeOK, BotStates, Up
  <1>2. CASE \E p \in Procs : Accept(p) \/ LoseReply(p)
    BY <1>1, <1>2
  <1>3. CASE bot' = bot
    BY <1>3
  <1>4. CASE \E p \in Procs : SyncRead(p) \/ SyncDecide(p) \/ Unreachable(p) \/ Finish(p)
                              \/ SyncUnread(p) \/ Refuse(p) \/ TimeOut(p)
    BY <1>4 DEF SyncRead, SyncDecide, Unreachable, Finish, SyncUnread, Refuse, TimeOut, Trading
  <1>5. CASE LateArrival \/ ContainerDies \/ ContainerBoots \/ ExternalPause \/ Recreate
    BY <1>5 DEF LateArrival, ContainerDies, ContainerBoots, ExternalPause, Recreate,
                NoneLate, Trading
  <1>6. QED
    BY <1>2, <1>3, <1>4, <1>5
       DEF Next, Begins, Progress, Pass, Settling, Disturbance, vars, Arrive, OwnerBegins, AdminBegins,
           ConfigBegins, Snapshot, ScanDone, ReconcilerBegins, ReconcilerDecides, MarketMoves, Crash

(* How a task that is in a call after a step got there.                    *)
LEMMA CallOrigin ==
    ASSUME TypeOK, Core, [Next]_vars, NEW q \in Procs, InCall(q)'
    PROVE  \/ task'[q] = task[q]
           \/ /\ task[q].pc = "call" /\ task'[q].op = task[q].op
              /\ Accept(q) \/ task'[q].reply = "failed"
           \/ Automatic(q)' /\ task'[q].pc = "call"
           \/ /\ q \in Clients /\ (OwnerBegins(q) \/ AdminBegins(q))
              /\ task'[q].op = task[q].op /\ task'[q].pc = "call"
  <1> DEFINE Origin == \/ task'[q] = task[q]
                       \/ /\ task[q].pc = "call" /\ task'[q].op = task[q].op
                          /\ Accept(q) \/ task'[q].reply = "failed"
                       \/ Automatic(q)' /\ task'[q].pc = "call"
                       \/ /\ q \in Clients /\ (OwnerBegins(q) \/ AdminBegins(q))
                          /\ task'[q].op = task[q].op /\ task'[q].pc = "call"
  <1>1. ASSUME NEW p \in Procs, NEW t \in Tasks, Put(p, t),
               t.pc \notin {"call", "answered"}
        PROVE  Origin
    BY <1>1, PutFacts DEF InCall, TypeOK
  <1>2. ASSUME NEW p \in Procs, HandBack(p) PROVE Origin
    BY <1>1, <1>2, NoTaskType DEF HandBack, NoTask
  <1>3. ASSUME NEW p \in Procs, NEW r, StartSync(p, r) PROVE Origin
    <2>1. task[p] \in Tasks
      BY DEF TypeOK
    <2>2. QED
      BY <1>1, <1>2, <1>3, <2>1, GetType DEF StartSync
  <1>4. ASSUME NEW p \in Procs, NEW t \in Tasks, Put(p, t), q # p PROVE Origin
    BY <1>4, PutFacts DEF TypeOK
  <1>5. ASSUME NEW c \in Clients, Arrive(c) PROVE Origin
    <2>1. ASSUME NEW op \in OwnerOps \cup AdminOps
          PROVE  LET t == [NoTask EXCEPT !.pc = "wait", !.op = op, !.seen = row]
                 IN  t \in Tasks /\ t.pc = "wait"
      BY NoTaskType DEF Tasks, Ops, TypeOK
    <2>2. ASSUME NEW pl \in Payloads
          PROVE  LET t == [NoTask EXCEPT !.pc = "wait", !.op = "config", !.payload = pl,
                                         !.seen = row]
                 IN  t \in Tasks /\ t.pc = "wait"
      BY NoTaskType DEF Tasks, Ops, TypeOK
    <2> HIDE DEF Origin
    <2>3. QED
      BY <1>1, <1>5, <2>1, <2>2, ProcsFacts DEF Arrive
  <1>6. ASSUME NEW c \in Clients, OwnerBegins(c) \/ AdminBegins(c) PROVE Origin
    <2>1. c \in Procs /\ lock = NoOne
      BY <1>6, ProcsFacts DEF OwnerBegins, AdminBegins, CanEnter
    <2>2. CASE HandBack(c)
      BY <1>2, <2>1, <2>2
    <2>3. ASSUME NEW cmd \in Orders \cup DockerOrders, Order(c, cmd) PROVE Origin
      BY <1>6, <2>1, <2>3, OrderStep DEF OthersSame
    <2>4. OwnerTarget(task[c].op, row) \in Orders \/ AdminBegins(c)
      BY <1>6, CommandType DEF OwnerBegins, TypeOK
    <2>5. QED
      <3> HIDE DEF Origin
      <3> QED
      BY <1>6, <2>2, <2>3, <2>4 DEF OwnerBegins, AdminBegins, Reread, DockerOrders
  <1>7. ASSUME NEW c \in Clients, ConfigBegins(c) PROVE Origin
    <2> DEFINE merged == Merge(row.cfg, task[c].payload)
               e == Entered(task[c], "call", "provision")
               t == [e EXCEPT !.cfg = merged]
    <2>1. c \in Procs /\ task[c] \in Tasks /\ task[c].op = "config"
      BY <1>7, ProcsFacts DEF ConfigBegins, TypeOK
    <2>2. CASE Put(c, t)
      <3>1. merged \in Configs
        BY <2>1, MergeType DEF TypeOK, Rows, Tasks
      <3>2. e \in Tasks /\ e.pc = "call" /\ e.op = "config"
        BY <2>1, EnteredType DEF DockerOrders
      <3> HIDE DEF e, merged
      <3>3. t \in Tasks /\ t.pc = "call" /\ t.op = "config"
        BY <3>1, <3>2 DEF Tasks
      <3> HIDE DEF t
      <3>4. CASE q = c
        BY <2>1, <2>2, <3>3, <3>4, PutFacts DEF Automatic, TypeOK
      <3>5. QED
        BY <1>4, <2>1, <2>2, <3>3, <3>4
    <2>3. CASE StartSync(c, row')
      BY <1>3, <2>1, <2>3
    <2>4. QED
      BY <1>7, <2>2, <2>3 DEF ConfigBegins, Reread
  <1>8. ASSUME Snapshot \/ ScanDone PROVE Origin
    <2>1. CASE Snapshot
      <3>1. LET t == [NoTask EXCEPT !.pc = "scan", !.op = "reconcile", !.cfg = row.cfg,
                                    !.exchange = row.exchange]
            IN  t \in Tasks /\ t.pc = "scan"
        BY NoTaskType DEF Tasks, Ops, TypeOK, Rows
      <3>2. QED
        BY <1>1, <2>1, <3>1, ProcsFacts DEF Snapshot
    <2>2. CASE ScanDone
      <3>1. LET t == [task[Reconciler] EXCEPT !.pc = "wait", !.reply = market]
            IN  t \in Tasks /\ t.pc = "wait"
        BY ProcsFacts DEF Tasks, TypeOK
      <3>2. QED
        BY <1>1, <2>2, <3>1, ProcsFacts DEF ScanDone
    <2>3. QED
      BY <1>8, <2>1, <2>2
  <1>9. ASSUME ReconcilerBegins PROVE Origin
    <2>1. [task[Reconciler] EXCEPT !.pc = "checked", !.seen = row] \in Tasks
          /\ [task[Reconciler] EXCEPT !.pc = "checked", !.seen = row].pc = "checked"
      BY CheckedType, ProcsFacts DEF TypeOK
    <2>2. QED
      BY <1>1, <1>2, <1>9, <2>1, ProcsFacts DEF ReconcilerBegins
  <1>20. ASSUME ReconcilerDecides PROVE Origin
    BY <1>3, <1>20, ProcsFacts DEF ReconcilerDecides
  <1>10. ASSUME NEW p \in Procs, SyncRead(p) PROVE Origin
    <2>1. LET t == [task[p] EXCEPT !.pc = "got", !.reply = bot] IN t \in Tasks /\ t.pc = "got"
      BY <1>10 DEF SyncRead, Tasks, TypeOK, Holding
    <2>2. QED
      BY <1>1, <1>10, <2>1 DEF SyncRead
  <1>11. ASSUME NEW p \in Procs, SyncDecide(p) PROVE Origin
    <2> DEFINE cmd == SyncCommand(row, task[p].reply)
    <2>1. lock = p /\ task[p].op \in {"config", "reconcile"}
      BY <1>11 DEF SyncDecide, Core, LockExclusive, Holding, TaskShape, Automatic
    <2>2. CASE HandBack(p)
      BY <1>2, <2>2
    <2>3. CASE cmd # "none" /\ Order(p, cmd)
      <3>1. cmd \in Orders \cup DockerOrders
        BY <2>3 DEF SyncCommand, Orders
      <3> HIDE DEF cmd
      <3>2. QED
        BY <2>1, <2>3, <3>1, OrderStep DEF OthersSame, Automatic
    <2>4. QED
      BY <1>11, <2>2, <2>3 DEF SyncDecide
  <1>12. ASSUME NEW p \in Procs, Accept(p) \/ Unreachable(p) \/ Refuse(p) \/ LoseReply(p) \/ TimeOut(p)
         PROVE  Origin
    <2>1. CASE q # p
      BY <1>12, <2>1, AnswerStep DEF Accept, Unreachable, Refuse, LoseReply, TimeOut, OthersSame
    <2>2. CASE q = p
      BY <1>12, <2>2, AnswerStep DEF Accept, Unreachable, Refuse, LoseReply, TimeOut, Answer
    <2>3. QED
      BY <2>1, <2>2
  <1>13. ASSUME NEW p \in Procs, SyncUnread(p) \/ Finish(p) PROVE Origin
    BY <1>2, <1>13 DEF SyncUnread, Finish
  <1>14. ASSUME task' = task PROVE Origin
    BY <1>14
  <1>15. ASSUME Crash PROVE Origin
    BY <1>15 DEF Crash, NoTask, InCall
  <1> HIDE DEF Origin
  <1>16. Origin
    <2>1. CASE \E c \in Clients : Begins(c) \/ Arrive(c)
      BY <1>5, <1>6, <1>7, <2>1 DEF Begins
    <2>2. CASE \E p \in Procs : \/ Progress(p) \/ Refuse(p) \/ LoseReply(p) \/ TimeOut(p)
                               \/ SyncUnread(p)
      BY <1>10, <1>11, <1>12, <1>13, <2>2 DEF Progress
    <2>3. CASE Pass \/ Crash
      BY <1>8, <1>9, <1>15, <1>20, <2>3 DEF Pass
    <2>4. CASE MarketMoves \/ LateArrival \/ ContainerDies \/ ContainerBoots
               \/ ExternalPause \/ Recreate
      BY <1>14, <2>4 DEF MarketMoves, LateArrival, ContainerDies, ContainerBoots,
                         ExternalPause, Recreate
    <2>5. CASE UNCHANGED vars
      BY <1>14, <2>5 DEF vars
    <2>6. QED
      BY <2>1, <2>2, <2>3, <2>4, <2>5 DEF Next, Settling, Disturbance
  <1>17. QED
    BY <1>16 DEF Origin

(* A task in a call that starts trading contradicts an acknowledged stop.  *)
LEMMA NoStartUnderStop ==
    ASSUME TypeOK, Core, StopRests, stopHeld = "acknowledged", NEW p \in Procs,
           InCall(p)
    PROVE  task[p].cmd \notin {"start", "pause"}
  <1>1. /\ TaskShape(p) /\ IntentHeld(p) /\ ~row.trading_enabled
        /\ task[p].op \notin {"start", "pause", "admin_start", "none"}
        /\ task[p].op \in Ops
    BY DEF Core, StopRests, TaskShape, TypeOK, Tasks
  <1>2. QED
    BY <1>1, OpsAssumption
       DEF TaskShape, IntentHeld, Automatic, InCall, OwnerTarget, Ops

(* Every step keeps what an acknowledged stop rests on.                    *)
LEMMA StopStep ==
    ASSUME TypeOK, TypeOK', Core, Core', "late" \notin Events, StopInv, [Next]_vars
    PROVE  StopInv'
  <1> USE DEF StopInv
  <1>1. NoneLate'
    BY DEF NoneLate, Next, Begins, Progress, Pass, Settling, Disturbance, vars, Arrive, OwnerBegins,
           AdminBegins, ConfigBegins, Snapshot, ScanDone, ReconcilerBegins, ReconcilerDecides, SyncRead,
           SyncDecide, SyncUnread, Accept, Unreachable, Refuse, LoseReply, TimeOut, Finish,
           MarketMoves, LateArrival, ContainerDies, ContainerBoots, ExternalPause, Recreate,
           Crash
  <1>2. StopCarriedOut'
    <2> SUFFICES ASSUME NEW q \in Procs, task'[q].pc = "answered", task'[q].reply = "ok",
                        IsStop(task'[q]), Trading(bot')
                 PROVE  FALSE
      BY DEF StopCarriedOut, Trading
    <2>1. \/ task'[q] = task[q]
          \/ task[q].pc = "call" /\ task'[q].op = task[q].op /\ Accept(q)
      BY CallOrigin DEF InCall
    <2>2. CASE task'[q] = task[q]
      <3>1. ~Trading(bot) /\ lock = q
        BY <2>2 DEF StopCarriedOut, Trading, Core, LockExclusive, Holding
      <3>2. PICK p \in Procs : task[p].pc = "call"
        BY <3>1, BotStep
      <3>3. p = q
        BY <3>1, <3>2 DEF Core, LockExclusive, Holding
      <3>4. QED
        BY <2>2, <3>2, <3>3
    <2>3. CASE task[q].pc = "call" /\ task'[q].op = task[q].op /\ Accept(q)
      <3>1. task[q].cmd \in {"stop", "docker_stop"}
        <4>1. TaskShape(q) /\ task[q].op \in Ops \cup {"none"}
          BY DEF Core, TypeOK, Tasks
        <4>2. QED
          BY <2>3, <4>1, OpsAssumption
             DEF TaskShape, InCall, IsStop, OwnerTarget, Ops
      <3>2. QED
        BY <2>3, <3>1 DEF Accept, Carry, Execute, After, Trading
    <2>4. QED
      BY <2>1, <2>2, <2>3
  <1>3. StopRests'
    <2> SUFFICES ASSUME stopHeld' = "acknowledged" PROVE StopRests'
      BY DEF StopRests
    <2>1. \/ stopHeld = "acknowledged"
          \/ \E p \in Procs : Finish(p) /\ task[p].reply = "ok" /\ IsStop(task[p])
      BY DEF Next, Begins, Progress, Pass, Settling, Disturbance, vars, Arrive, OwnerBegins,
             AdminBegins, ConfigBegins, Snapshot, ScanDone, ReconcilerBegins, ReconcilerDecides, SyncRead,
             SyncDecide, SyncUnread, Accept, Unreachable, Refuse, LoseReply, Carry, TimeOut,
             Finish, MarketMoves, LateArrival, ContainerDies, ContainerBoots, ExternalPause,
             Recreate, Crash
    <2>2. ASSUME NEW p \in Procs, Finish(p), task[p].reply = "ok", IsStop(task[p])
          PROVE  StopRests'
      <3>1. bot' = bot /\ ~Trading(bot) /\ lock = p /\ HandBack(p)
        BY <2>2 DEF Finish, StopCarriedOut, Trading, Core, LockExclusive, Holding
      <3>2. ~row'.trading_enabled
        BY <2>2 DEF Finish, Committed, IsStop, OwnerRecorded, AdminStopped, TypeOK, Rows
      <3>3. \A q \in Procs : ~InCall(q)'
        BY <3>1, HandBackStep, ProcsFacts DEF Core, LockExclusive, Holding, InCall
      <3>4. QED
        BY <3>1, <3>2, <3>3 DEF StopRests, Trading
    <2>3. CASE stopHeld = "acknowledged"
      <3>1. ~row'.trading_enabled
        <4>1. /\ ~row.trading_enabled /\ RowStep
              /\ \A p \in Procs : InCall(p) => task[p].op \notin {"start", "pause", "admin_start"}
          BY <2>3, RowSteps DEF StopRests
        <4>2. QED
          BY <4>1 DEF RowStep, TypeOK, Rows, Configured, Confirmed, Evaluated, Claimed,
                      Synced, OwnerRecorded, AdminStopped
      <3>2. ~Trading(bot')
        <4> SUFFICES ASSUME Trading(bot') PROVE FALSE
          OBVIOUS
        <4>1. ~Trading(bot)
          BY <2>3 DEF StopRests, Trading
        <4>2. PICK p \in Procs : task[p].pc = "call" /\ task[p].cmd \in {"start", "pause"}
          BY <4>1, BotStep
        <4>3. QED
          BY <2>3, <4>2, NoStartUnderStop DEF InCall
      <3>3. ASSUME NEW q \in Procs, InCall(q)'
            PROVE  task'[q].op \notin {"start", "pause", "admin_start"}
        <4>1. CASE InCall(q) /\ task'[q].op = task[q].op
          BY <2>3, <4>1 DEF StopRests
        <4>2. CASE Automatic(q)'
          BY <4>2 DEF Automatic
        <4>3. CASE (OwnerBegins(q) \/ AdminBegins(q)) /\ task'[q].op = task[q].op
          BY <4>3, OpsAssumption DEF OwnerBegins, AdminBegins
        <4>4. QED
          BY <3>3, <4>1, <4>2, <4>3, CallOrigin DEF InCall
      <3>4. QED
        BY <3>1, <3>2, <3>3 DEF StopRests, Trading
    <2>4. QED
      BY <2>1, <2>2, <2>3
  <1>4. QED
    BY <1>1, <1>2, <1>3

(* When no command the proxy gave up on can still reach the bot, a bot     *)
(* whose stop was acknowledged neither trades nor holds positions again    *)
(* until somebody asks for it, whatever else is lost, crashes or restarts. *)
THEOREM AckedStopHoldsAlways ==
    ASSUME "late" \notin Events
    PROVE  Spec => []AckedStopHolds
  <1>1. Init => StopInv
    BY DEF Init, StopInv, NoneLate, StopRests, StopCarriedOut, NoTask
  <1>2. TypeOK /\ TypeOK' /\ Core /\ Core' /\ StopInv /\ [Next]_vars => StopInv'
    BY StopStep
  <1>3. StopInv => AckedStopHolds
    BY DEF StopInv, StopRests, AckedStopHolds
  <1>4. QED
    BY <1>1, <1>2, <1>3, TypeCorrect, CoreCorrect, PTL DEF Spec

(* The inductive invariant that the model checker also evaluates.          *)
THEOREM InvHolds == Spec => []Inv
  <1>1. CASE "late" \notin Events
    <2>1. Init => StopInv
      BY DEF Init, StopInv, NoneLate, StopRests, StopCarriedOut, NoTask
    <2>2. TypeOK /\ TypeOK' /\ Core /\ Core' /\ StopInv /\ [Next]_vars => StopInv'
      BY <1>1, StopStep
    <2>3. TypeOK /\ Core /\ OwnershipHasIntent /\ GuardPauseNeedsGuard /\ StopInv => Inv
      BY DEF Core, StopInv, Inv
    <2>4. QED
      BY <2>1, <2>2, <2>3, TypeCorrect, CoreCorrect, OwnershipHasIntentHolds,
         GuardPauseNeedsGuardHolds, PTL DEF Spec
  <1>2. CASE "late" \in Events
    <2>1. TypeOK /\ Core /\ OwnershipHasIntent /\ GuardPauseNeedsGuard => Inv
      BY <1>2 DEF Core, Inv
    <2>2. QED
      BY <2>1, TypeCorrect, CoreCorrect, OwnershipHasIntentHolds,
         GuardPauseNeedsGuardHolds, PTL
  <1>3. QED
    BY <1>1, <1>2

-----------------------------------------------------------------------------
(* What the interface says of an automatic pause, when no answer is lost   *)
(* and no handler is cut off between a command and its record.             *)

Owned(r) == r.managed /\ ~r.pending

Done(p, cmd) == task[p].pc = "answered" /\ task[p].reply = "ok" /\ task[p].cmd = cmd

SeenPaused(p) == task[p].pc = "got" /\ task[p].reply = "paused"

(* The bot trades while its pause is owned only until the handler whose    *)
(* start was carried out records it; a handler that has seen the bot pause *)
(* is right about it.                                                      *)
ClaimHonest ==
    /\ Owned(row) /\ bot = "running" => \E p \in Procs : Done(p, "start")
    /\ \A p \in Procs : Done(p, "pause") \/ SeenPaused(p) => bot # "running"

Unbroken == Events \cap {"lost_reply", "late", "crash"} = {}

(* No command arrives late.                                                *)
LEMMA NoneLateStep ==
    ASSUME NoneLate, "late" \notin Events, [Next]_vars
    PROVE  NoneLate'
  BY DEF NoneLate, Next, Begins, Progress, Pass, Settling, Disturbance, vars, Arrive, OwnerBegins,
         AdminBegins, ConfigBegins, Snapshot, ScanDone, ReconcilerBegins, ReconcilerDecides, SyncRead,
         SyncDecide, SyncUnread, Accept, Unreachable, Refuse, LoseReply, TimeOut, Finish,
         MarketMoves, LateArrival, ContainerDies, ContainerBoots, ExternalPause, Recreate,
         Crash

(* A bot starts to trade only by a start that is carried out and answered. *)
LEMMA StartStep ==
    ASSUME TypeOK, NoneLate, Unbroken, [Next]_vars, bot' = "running", bot # "running"
    PROVE  \E p \in Procs : Accept(p) /\ task[p].pc = "call" /\ task[p].cmd = "start"
  <1>1. ASSUME NEW p \in Procs, Accept(p)
        PROVE  task[p].pc = "call" /\ task[p].cmd = "start"
    BY <1>1 DEF Accept, Carry, Answer, Execute, After, TypeOK, BotStates, Up
  <1>2. CASE \E p \in Procs : Accept(p)
    BY <1>1, <1>2
  <1>3. CASE bot' = bot
    BY <1>3
  <1>4. CASE \E p \in Procs : SyncRead(p) \/ SyncDecide(p) \/ Unreachable(p) \/ Finish(p)
                              \/ SyncUnread(p) \/ Refuse(p) \/ TimeOut(p) \/ LoseReply(p)
    BY <1>4 DEF SyncRead, SyncDecide, Unreachable, Finish, SyncUnread, Refuse, TimeOut,
                LoseReply, Unbroken
  <1>5. CASE LateArrival \/ ContainerDies \/ ContainerBoots \/ ExternalPause \/ Recreate
    BY <1>5 DEF LateArrival, ContainerDies, ContainerBoots, ExternalPause, Recreate, NoneLate
  <1>6. QED
    BY <1>2, <1>3, <1>4, <1>5
       DEF Next, Begins, Progress, Pass, Settling, Disturbance, vars, Arrive, OwnerBegins, AdminBegins,
           ConfigBegins, Snapshot, ScanDone, ReconcilerBegins, ReconcilerDecides, MarketMoves, Crash

(* A command that was carried out stays so until its handler records it.   *)
LEMMA DoneOrigin ==
    ASSUME TypeOK, Core, [Next]_vars, NEW q \in Procs, NEW cmd, Done(q, cmd)'
    PROVE  Done(q, cmd) \/ (Accept(q) /\ task[q].pc = "call" /\ task[q].cmd = cmd)
  <1>1. \/ task'[q] = task[q]
        \/ task[q].pc = "call" /\ Accept(q)
    BY CallOrigin DEF Done, InCall
  <1>2. CASE task'[q] = task[q]
    BY <1>2 DEF Done
  <1>3. CASE task[q].pc = "call" /\ Accept(q)
    BY <1>3, AnswerStep DEF Accept, Done
  <1>4. QED
    BY <1>1, <1>2, <1>3

(* A handler that has its answer stands still until it records it.         *)
LEMMA DoneStays ==
    ASSUME TypeOK, Core, Unbroken, [Next]_vars, NEW p \in Procs, task[p].pc = "answered"
    PROVE  task'[p] = task[p] \/ Finish(p)
  <1>1. /\ lock = p
        /\ \A q \in Procs \ {p} : task[q].pc \notin Holding
    BY DEF Core, LockExclusive, Holding
  <1>2. ASSUME NEW q \in Procs, NEW t, Put(q, t), task[q].pc # "answered"
        PROVE  task'[p] = task[p]
    BY <1>2 DEF Put, TypeOK
  <1>3. CASE \E c \in Clients : Arrive(c) \/ Begins(c)
    BY <1>1, <1>2, <1>3, ProcsFacts
       DEF Arrive, Begins, OwnerBegins, AdminBegins, ConfigBegins, CanEnter
  <1>4. CASE Pass
    BY <1>1, <1>2, <1>4, ProcsFacts
       DEF Pass, Snapshot, ScanDone, ReconcilerBegins, ReconcilerDecides, CanEnter, HandBack,
           StartSync, Holding
  <1>5. ASSUME NEW q \in Procs,
               \/ SyncRead(q) \/ SyncDecide(q) \/ SyncUnread(q) \/ Accept(q)
               \/ Unreachable(q) \/ Refuse(q) \/ TimeOut(q) \/ LoseReply(q)
        PROVE  task'[p] = task[p]
    BY <1>2, <1>5 DEF SyncRead, SyncDecide, SyncUnread, Accept, Unreachable, Refuse, TimeOut,
                      LoseReply, Answer, HandBack, Order
  <1>6. ASSUME NEW q \in Procs, Finish(q) PROVE Finish(p)
    BY <1>1, <1>6 DEF Finish, Holding
  <1>7. CASE UNCHANGED task
    BY <1>7
  <1>8. QED
    BY <1>3, <1>4, <1>5, <1>6, <1>7
       DEF Next, Progress, Settling, Disturbance, vars, MarketMoves, LateArrival,
           ContainerDies, ContainerBoots, ExternalPause, Recreate, Crash, Unbroken

(* A handler that has seen the bot pause saw it now or before.             *)
LEMMA SeenOrigin ==
    ASSUME TypeOK, Core, [Next]_vars, NEW q \in Procs, SeenPaused(q)'
    PROVE  SeenPaused(q) \/ (SyncRead(q) /\ bot = "paused")
  <1>1. ASSUME NEW p \in Procs, NEW t, Put(p, t), t.pc # "got"
        PROVE  SeenPaused(q)
    BY <1>1 DEF SeenPaused, Put, TypeOK
  <1>2. ASSUME NEW p \in Procs, HandBack(p) PROVE SeenPaused(q)
    BY <1>1, <1>2 DEF HandBack, NoTask
  <1>3. ASSUME NEW p \in Procs, NEW cmd \in Orders \cup DockerOrders, Order(p, cmd)
        PROVE  SeenPaused(q)
    <2>1. Entered(task[p], "call", cmd).pc = "call"
      BY EnteredType DEF TypeOK
    <2>2. QED
      BY <1>1, <1>3, <2>1 DEF Order
  <1>4. ASSUME NEW p \in Procs, NEW r, StartSync(p, r) PROVE SeenPaused(q)
    <2>1. [Entered(task[p], "get", "none") EXCEPT !.cfg = NoTask.cfg].pc = "get"
      BY GetType DEF TypeOK
    <2>2. QED
      BY <1>1, <1>2, <1>4, <2>1 DEF StartSync
  <1>5. ASSUME NEW c \in Clients, Arrive(c) PROVE SeenPaused(q)
    <2>1. ASSUME NEW op
          PROVE  [NoTask EXCEPT !.pc = "wait", !.op = op, !.seen = row].pc = "wait"
      BY DEF NoTask
    <2>2. ASSUME NEW pl
          PROVE  [NoTask EXCEPT !.pc = "wait", !.op = "config", !.payload = pl,
                                !.seen = row].pc = "wait"
      BY DEF NoTask
    <2>3. QED
      BY <1>1, <1>5, <2>1, <2>2, ProcsFacts DEF Arrive
  <1>6. ASSUME NEW c \in Clients, OwnerBegins(c) \/ AdminBegins(c) PROVE SeenPaused(q)
    <2>1. c \in Procs
      BY ProcsFacts
    <2>2. OwnerTarget(task[c].op, row) \in Orders \/ AdminBegins(c)
      BY <1>6, CommandType DEF OwnerBegins, TypeOK
    <2>3. QED
      BY <1>2, <1>3, <1>6, <2>1, <2>2 DEF OwnerBegins, AdminBegins, Reread, DockerOrders
  <1>7. ASSUME NEW c \in Clients, ConfigBegins(c) PROVE SeenPaused(q)
    <2> DEFINE e == Entered(task[c], "call", "provision")
    <2>1. c \in Procs
      BY ProcsFacts
    <2>2. e \in Tasks /\ e.pc = "call"
      BY <2>1, EnteredType DEF TypeOK, DockerOrders
    <2> HIDE DEF e
    <2>3. \A m : [e EXCEPT !.cfg = m].pc = "call"
      BY <2>2 DEF Tasks
    <2>4. QED
      BY <1>1, <1>4, <1>7, <2>1, <2>3 DEF ConfigBegins, e
  <1>8. CASE Snapshot \/ ScanDone
    <2>1. [NoTask EXCEPT !.pc = "scan", !.op = "reconcile", !.cfg = row.cfg,
                         !.exchange = row.exchange].pc = "scan"
      BY DEF NoTask
    <2>2. [task[Reconciler] EXCEPT !.pc = "wait", !.reply = market].pc = "wait"
      BY ProcsFacts DEF TypeOK, Tasks
    <2>3. QED
      BY <1>1, <1>8, <2>1, <2>2, ProcsFacts DEF Snapshot, ScanDone
  <1>9. CASE ReconcilerBegins
    <2>1. [task[Reconciler] EXCEPT !.pc = "checked", !.seen = row].pc = "checked"
      BY CheckedType, ProcsFacts DEF TypeOK
    <2>2. QED
      BY <1>1, <1>2, <1>9, <2>1, ProcsFacts DEF ReconcilerBegins
  <1>20. CASE ReconcilerDecides
    BY <1>4, <1>20, ProcsFacts DEF ReconcilerDecides
  <1>10. ASSUME NEW p \in Procs, SyncRead(p) PROVE SeenPaused(q) \/ (SyncRead(q) /\ bot = "paused")
    BY <1>10 DEF SyncRead, SeenPaused, Put, TypeOK, Tasks
  <1>11. ASSUME NEW p \in Procs, SyncDecide(p) PROVE SeenPaused(q)
    <2>1. SyncCommand(row, task[p].reply) \in {"start", "pause", "none"}
      BY DEF SyncCommand
    <2>2. QED
      BY <1>2, <1>3, <1>11, <2>1 DEF SyncDecide, Orders
  <1>12. ASSUME NEW p \in Procs,
                Accept(p) \/ Unreachable(p) \/ Refuse(p) \/ LoseReply(p) \/ TimeOut(p)
         PROVE  SeenPaused(q)
    <2>1. ASSUME NEW reply \in {"ok", "failed"}, Answer(p, reply) PROVE SeenPaused(q)
      BY <2>1, AnswerStep DEF OthersSame, SeenPaused
    <2>2. QED
      BY <1>12, <2>1 DEF Accept, Unreachable, Refuse, LoseReply, TimeOut
  <1>13. ASSUME NEW p \in Procs, SyncUnread(p) \/ Finish(p) PROVE SeenPaused(q)
    BY <1>2, <1>13 DEF SyncUnread, Finish
  <1>14. CASE UNCHANGED task
    BY <1>14 DEF SeenPaused
  <1>15. CASE Crash
    BY <1>15 DEF Crash, NoTask, SeenPaused
  <1>16. QED
    BY <1>5, <1>6, <1>7, <1>8, <1>9, <1>10, <1>11, <1>12, <1>13, <1>14, <1>15, <1>20
       DEF Next, Begins, Progress, Pass, Settling, Disturbance, vars, MarketMoves, LateArrival,
           ContainerDies, ContainerBoots, ExternalPause, Recreate

(* A pause comes to be owned and confirmed when the handler that requested *)
(* it records it, or when one that has seen the bot pause settles it.      *)
LEMMA OwnedOrigin ==
    ASSUME TypeOK, [Next]_vars, Owned(row'), ~Owned(row)
    PROVE  /\ bot' = bot
           /\ \E p \in Procs : Done(p, "pause") \/ SeenPaused(p)
  <1>1. ASSUME NEW p \in Procs, SyncDecide(p) PROVE SeenPaused(p) /\ bot' = bot
    BY <1>1 DEF SyncDecide, Claimed, Confirmed, Owned, SeenPaused, TypeOK, Rows
  <1>2. ASSUME NEW p \in Procs, Finish(p) PROVE Done(p, "pause") /\ bot' = bot
    <2>1. task[p].pc = "answered" /\ bot' = bot
      BY <1>2 DEF Finish
    <2>2. task[p].reply = "ok" /\ row' = Committed(row, task[p])
      BY <1>2 DEF Finish, Owned
    <2>3. task[p].cmd = "pause"
      BY <2>2 DEF Committed, OwnerRecorded, AdminStarted, AdminStopped, Configured, Synced,
                  Owned, TypeOK, Rows
    <2>4. QED
      BY <2>1, <2>2, <2>3 DEF Done
  <1>3. ASSUME NEW c \in Clients, ConfigBegins(c) PROVE FALSE
    BY <1>3 DEF ConfigBegins, Configured, Reread, Owned, TypeOK, Rows
  <1>4. ASSUME ReconcilerDecides PROVE FALSE
    BY <1>4 DEF ReconcilerDecides, Owned, TypeOK, Rows
  <1>5. ASSUME Recreate PROVE FALSE
    BY <1>5 DEF Recreate, Owned, TypeOK, Rows
  <1>6. row' # row
    OBVIOUS
  <1>7. QED
    BY <1>1, <1>2, <1>3, <1>4, <1>5, <1>6
       DEF Next, Begins, Progress, Pass, Settling, Disturbance, vars, Arrive, OwnerBegins, AdminBegins,
           Snapshot, ScanDone, ReconcilerBegins, SyncRead, SyncUnread, Accept, Unreachable,
           Refuse, LoseReply, TimeOut, Answer, MarketMoves, LateArrival, ContainerDies, ContainerBoots,
           ExternalPause, Crash

(* A handler that records a start gives up the pause.                      *)
LEMMA StartGivesUp ==
    ASSUME TypeOK, Core, NEW p \in Procs, Done(p, "start"), Finish(p)
    PROVE  ~row'.managed
  <1>1. TaskShape(p) /\ InCall(p) /\ task[p].op \in Ops \cup {"none"}
    BY DEF Core, TypeOK, Tasks, Done, InCall
  <1>2. task[p].op \in {"start", "config", "reconcile"}
    BY <1>1, OpsAssumption DEF TaskShape, OwnerTarget, Ops, Done
  <1>3. row' = Committed(row, task[p])
    BY DEF Finish, Done
  <1>4. QED
    BY <1>2, <1>3 DEF Committed, OwnerRecorded, Synced, Done, TypeOK, Rows

(* Every step keeps the claims of the row and of the handlers honest.      *)
LEMMA ClaimStep ==
    ASSUME TypeOK, Core, Core', NoneLate, Unbroken, ClaimHonest, [Next]_vars
    PROVE  ClaimHonest'
  <1>1. ASSUME bot' = "running", bot # "running"
        PROVE  \E p \in Procs : Done(p, "start")' /\ lock' = p
    <2>1. PICK p \in Procs : Accept(p) /\ task[p].pc = "call" /\ task[p].cmd = "start"
      BY <1>1, StartStep
    <2>2. Done(p, "start")'
      BY <2>1, AnswerStep DEF Accept, Done
    <2>3. QED
      BY <2>2 DEF Done, Core, LockExclusive, Holding
  <1>2. ASSUME Owned(row'), bot' = "running"
        PROVE  \E p \in Procs : Done(p, "start")'
    <2>1. CASE bot # "running"
      BY <1>1, <1>2, <2>1
    <2>2. CASE bot = "running" /\ Owned(row)
      <3>1. PICK p \in Procs : Done(p, "start")
        BY <2>2 DEF ClaimHonest
      <3>2. task'[p] = task[p] \/ Finish(p)
        BY <3>1, DoneStays DEF Done
      <3>3. QED
        BY <1>2, <3>1, <3>2, StartGivesUp DEF Done, Owned
    <2>3. CASE bot = "running" /\ ~Owned(row)
      BY <1>2, <2>3, OwnedOrigin DEF ClaimHonest
    <2>4. QED
      BY <2>1, <2>2, <2>3
  <1>3. ASSUME NEW q \in Procs, (Done(q, "pause") \/ SeenPaused(q))', bot' = "running"
        PROVE  FALSE
    <2>1. CASE bot # "running"
      <3>1. PICK p \in Procs : Done(p, "start")' /\ lock' = p
        BY <1>1, <1>3, <2>1
      <3>2. lock' = q
        BY <1>3 DEF Done, SeenPaused, Core, LockExclusive, Holding
      <3>3. QED
        BY <1>3, <3>1, <3>2 DEF Done, SeenPaused
    <2>2. CASE bot = "running" /\ Done(q, "pause")'
      <3>1. ~Done(q, "pause")
        BY <2>2 DEF ClaimHonest
      <3>2. Accept(q) /\ task[q].cmd = "pause"
        BY <2>2, <3>1, DoneOrigin
      <3>3. QED
        BY <1>3, <3>2 DEF Accept, Carry, Execute, After
    <2>3. CASE bot = "running" /\ SeenPaused(q)'
      BY <2>3, SeenOrigin DEF ClaimHonest
    <2>4. QED
      BY <1>3, <2>1, <2>2, <2>3
  <1>4. QED
    BY <1>2, <1>3 DEF ClaimHonest, Owned

(* As long as no answer is lost and the worker does not crash between a    *)
(* command and its record, the interface claims an automatic pause only of *)
(* a bot that is not opening entries.                                      *)
THEOREM PauseShownHonestlyHolds ==
    ASSUME Unbroken
    PROVE  Spec => []PauseShownHonestly
  <1>1. Init => NoneLate /\ ClaimHonest
    BY DEF Init, NoneLate, ClaimHonest, Owned, FreshRow, Done, SeenPaused, NoTask
  <1>2. TypeOK /\ Core /\ Core' /\ NoneLate /\ ClaimHonest /\ [Next]_vars
          => NoneLate' /\ ClaimHonest'
    BY NoneLateStep, ClaimStep DEF Unbroken
  <1>3. TypeOK /\ Core /\ ClaimHonest => PauseShownHonestly
    <2> SUFFICES ASSUME TypeOK, Core, ClaimHonest, PauseShown(row), bot = "running"
                 PROVE  FALSE
      BY DEF PauseShownHonestly
    <2>1. PICK p \in Procs : Done(p, "start")
      BY DEF PauseShown, ClaimHonest, Owned
    <2>2. TaskShape(p) /\ IntentHeld(p) /\ InCall(p) /\ task[p].op \in Ops \cup {"none"}
      BY <2>1 DEF Core, TypeOK, Tasks, Done, InCall
    <2>3. QED
      BY <2>1, <2>2, OpsAssumption
         DEF TaskShape, IntentHeld, Automatic, OwnerTarget, EntriesPaused, PauseShown, Ops, Done
  <1>4. QED
    BY <1>1, <1>2, <1>3, TypeCorrect, CoreCorrect, PTL DEF Spec

-----------------------------------------------------------------------------
(* A pause somebody else made is left alone, when every command is         *)
(* answered by what it did.                                                *)

Answered == Events \cap {"refuse", "lost_reply", "late", "crash"} = {}

Busy(p) == Done(p, "start") \/ (task[p].pc = "call" /\ task[p].cmd = "pause")

(* While the bot trades or stands in somebody else's pause, its pause is   *)
(* owned only in the course of a start or of a pause; what the control     *)
(* plane has just paused, it has paused itself.                            *)
OwnPause ==
    /\ pauser = "outsider" => bot = "paused"
    /\ row.managed /\ (bot = "running" \/ pauser = "outsider") => \E p \in Procs : Busy(p)
    /\ \A p \in Procs : Done(p, "pause") => bot # "running" /\ pauser # "outsider"

(* A bot comes to trade, or into somebody else's pause, by a start or from *)
(* trading.                                                                *)
LEMMA OutsideStep ==
    ASSUME TypeOK, NoneLate, Unbroken, [Next]_vars, OwnPause
    PROVE  /\ pauser' = "outsider" => bot' = "paused"
           /\ bot' = "running" \/ pauser' = "outsider" =>
                \/ bot = "running" \/ pauser = "outsider"
                \/ \E p \in Procs : Accept(p) /\ task[p].pc = "call" /\ task[p].cmd = "start"
  <1> DEFINE Goal == /\ pauser' = "outsider" => bot' = "paused"
                     /\ bot' = "running" \/ pauser' = "outsider" =>
                          \/ bot = "running" \/ pauser = "outsider"
                          \/ \E p \in Procs : /\ Accept(p)
                                              /\ task[p].pc = "call" /\ task[p].cmd = "start"
  <1>1. ASSUME NEW p \in Procs, Accept(p) PROVE Goal
    <2>1. task[p].pc = "call" /\ Execute(task[p].cmd)
      BY <1>1 DEF Accept, Carry, Answer
    <2>2. pauser' = "outsider" => bot' = "paused"
      BY <2>1 DEF Execute
    <2>3. ASSUME bot' = "running" \/ pauser' = "outsider", bot # "running", pauser # "outsider"
          PROVE  task[p].cmd = "start"
      BY <2>1, <2>3 DEF Execute, After, TypeOK, BotStates, Up
    <2>4. QED
      BY <1>1, <2>1, <2>2, <2>3
  <1>2. ASSUME UNCHANGED <<bot, pauser>> PROVE Goal
    BY <1>2 DEF OwnPause
  <1>3. ASSUME NEW p \in Procs, Refuse(p) \/ TimeOut(p) \/ LoseReply(p) PROVE Goal
    BY <1>3 DEF Refuse, TimeOut, LoseReply, Unbroken, OwnPause
  <1>4. ASSUME LateArrival \/ ContainerDies \/ ContainerBoots \/ ExternalPause \/ Recreate
        PROVE  Goal
    BY <1>4 DEF LateArrival, ContainerDies, ContainerBoots, ExternalPause, Recreate, NoneLate,
                OwnPause
  <1>5. ASSUME \/ \E c \in Clients : Arrive(c) \/ Begins(c)
               \/ Pass \/ MarketMoves \/ Crash \/ UNCHANGED vars
        PROVE  Goal
    BY <1>2, <1>5 DEF Begins, Pass, vars, Arrive, OwnerBegins, AdminBegins, ConfigBegins,
                      Snapshot, ScanDone, ReconcilerBegins, ReconcilerDecides, MarketMoves, Crash
  <1>6. ASSUME NEW p \in Procs,
               \/ SyncRead(p) \/ SyncDecide(p) \/ SyncUnread(p) \/ Unreachable(p) \/ Finish(p)
        PROVE  Goal
    BY <1>2, <1>6 DEF SyncRead, SyncDecide, SyncUnread, Unreachable, Finish
  <1> HIDE DEF Goal
  <1>7. Goal
    BY <1>1, <1>3, <1>4, <1>5, <1>6 DEF Next, Progress, Settling, Disturbance
  <1>8. QED
    BY <1>7 DEF Goal

(* A handler that has sent a command stands still until it is answered.    *)
LEMMA CallStays ==
    ASSUME TypeOK, Core, Answered, [Next]_vars, NEW p \in Procs, task[p].pc = "call"
    PROVE  task'[p] = task[p] \/ Accept(p) \/ Unreachable(p)
  <1>1. /\ lock = p
        /\ \A q \in Procs \ {p} : task[q].pc \notin Holding
    BY DEF Core, LockExclusive, Holding
  <1>2. ASSUME NEW q \in Procs, NEW t, Put(q, t), task[q].pc # "call"
        PROVE  task'[p] = task[p]
    BY <1>2 DEF Put, TypeOK
  <1>3. CASE \E c \in Clients : Arrive(c) \/ Begins(c)
    BY <1>1, <1>2, <1>3, ProcsFacts
       DEF Arrive, Begins, OwnerBegins, AdminBegins, ConfigBegins, CanEnter
  <1>4. CASE Pass
    BY <1>1, <1>2, <1>4, ProcsFacts
       DEF Pass, Snapshot, ScanDone, ReconcilerBegins, ReconcilerDecides, CanEnter, HandBack,
           StartSync, Holding
  <1>5. ASSUME NEW q \in Procs, SyncRead(q) \/ SyncDecide(q) \/ SyncUnread(q) \/ Finish(q)
        PROVE  task'[p] = task[p]
    BY <1>2, <1>5 DEF SyncRead, SyncDecide, SyncUnread, Finish, HandBack, Order
  <1>6. ASSUME NEW q \in Procs, Accept(q) \/ Unreachable(q) PROVE Accept(p) \/ Unreachable(p)
    BY <1>1, <1>6 DEF Accept, Unreachable, Answer, Holding
  <1>7. CASE UNCHANGED task
    BY <1>7
  <1>8. QED
    BY <1>3, <1>4, <1>5, <1>6, <1>7
       DEF Next, Progress, Settling, Disturbance, vars, Refuse, LoseReply, TimeOut, MarketMoves,
           LateArrival, ContainerDies, ContainerBoots, ExternalPause, Recreate, Crash, Answered

(* A pause comes to be owned when it is recorded, or claimed and requested. *)
LEMMA ManagedOrigin ==
    ASSUME TypeOK, Core, [Next]_vars, row'.managed, ~row.managed
    PROVE  /\ UNCHANGED <<bot, pauser>>
           /\ \E p \in Procs : Done(p, "pause") \/ Busy(p)'
  <1>1. ASSUME NEW p \in Procs, SyncDecide(p) PROVE Busy(p)' /\ UNCHANGED <<bot, pauser>>
    <2>1. lock = p /\ task[p].pc = "got" /\ UNCHANGED <<bot, pauser>>
      BY <1>1 DEF SyncDecide, Core, LockExclusive, Holding
    <2>2. Order(p, "pause")
      BY <1>1 DEF SyncDecide, Confirmed, TypeOK, Rows
    <2>3. task'[p].pc = "call" /\ task'[p].cmd = "pause"
      BY <2>1, <2>2, OrderStep DEF Orders
    <2>4. QED
      BY <2>1, <2>3 DEF Busy
  <1>2. ASSUME NEW p \in Procs, Finish(p) PROVE Done(p, "pause") /\ UNCHANGED <<bot, pauser>>
    <2>1. task[p].pc = "answered" /\ UNCHANGED <<bot, pauser>>
      BY <1>2 DEF Finish
    <2>2. task[p].reply = "ok" /\ row' = Committed(row, task[p])
      BY <1>2 DEF Finish
    <2>3. task[p].cmd = "pause"
      BY <2>2 DEF Committed, OwnerRecorded, AdminStarted, AdminStopped, Configured, Synced,
                  TypeOK, Rows
    <2>4. QED
      BY <2>1, <2>2, <2>3 DEF Done
  <1>3. ASSUME NEW c \in Clients, ConfigBegins(c) PROVE FALSE
    BY <1>3 DEF ConfigBegins, Configured, Reread, TypeOK, Rows
  <1>4. ASSUME ReconcilerDecides PROVE FALSE
    BY <1>4 DEF ReconcilerDecides, TypeOK, Rows
  <1>5. ASSUME Recreate PROVE FALSE
    BY <1>5 DEF Recreate, TypeOK, Rows
  <1>6. row' # row
    OBVIOUS
  <1>7. QED
    BY <1>1, <1>2, <1>3, <1>4, <1>5, <1>6
       DEF Next, Begins, Progress, Pass, Settling, Disturbance, vars, Arrive, OwnerBegins, AdminBegins,
           Snapshot, ScanDone, ReconcilerBegins, SyncRead, SyncUnread, Accept, Unreachable,
           Refuse, LoseReply, TimeOut, Answer, MarketMoves, LateArrival, ContainerDies, ContainerBoots,
           ExternalPause, Crash

(* Every step keeps the ownership of pauses.                               *)
LEMMA OwnPauseStep ==
    ASSUME TypeOK, Core, Core', NoneLate, Answered, OwnPause, [Next]_vars
    PROVE  OwnPause'
  <1>1. /\ Unbroken
        /\ pauser' = "outsider" => bot' = "paused"
        /\ bot' = "running" \/ pauser' = "outsider" =>
             \/ bot = "running" \/ pauser = "outsider"
             \/ \E p \in Procs : Accept(p) /\ task[p].pc = "call" /\ task[p].cmd = "start"
    BY OutsideStep DEF Unbroken, Answered
  <1>2. ASSUME NEW p \in Procs, Accept(p), task[p].cmd = "start" PROVE Done(p, "start")' /\ lock' = p
    <2>1. Done(p, "start")'
      BY <1>2, AnswerStep DEF Accept, Done
    <2>2. QED
      BY <2>1 DEF Done, Core, LockExclusive, Holding
  <1>3. ASSUME row'.managed, bot' = "running" \/ pauser' = "outsider"
        PROVE  \E p \in Procs : Busy(p)'
    <2>1. CASE ~row.managed
      BY <1>3, <2>1, ManagedOrigin DEF OwnPause
    <2>2. CASE row.managed /\ (bot = "running" \/ pauser = "outsider")
      <3>1. PICK p \in Procs : Busy(p)
        BY <2>2 DEF OwnPause
      <3>2. CASE Done(p, "start")
        BY <1>1, <1>3, <3>2, DoneStays, StartGivesUp DEF Done, Busy
      <3>3. CASE task[p].pc = "call" /\ task[p].cmd = "pause"
        <4>1. ~Unreachable(p)
          BY <2>2, <3>3 DEF OwnPause, Unreachable, Reachable, Up
        <4>2. ~Accept(p)
          BY <1>3, <3>3 DEF Accept, Carry, Execute, After
        <4>3. QED
          BY <3>3, <4>1, <4>2, CallStays DEF Busy
      <3>4. QED
        BY <3>1, <3>2, <3>3 DEF Busy
    <2>3. CASE ~(bot = "running" \/ pauser = "outsider")
      BY <1>1, <1>2, <1>3, <2>3 DEF Busy
    <2>4. QED
      BY <2>1, <2>2, <2>3
  <1>4. ASSUME NEW q \in Procs, Done(q, "pause")', bot' = "running" \/ pauser' = "outsider"
        PROVE  FALSE
    <2>1. CASE Done(q, "pause")
      <3>1. PICK p \in Procs : Accept(p) /\ task[p].pc = "call" /\ task[p].cmd = "start"
        BY <1>1, <1>4, <2>1 DEF OwnPause
      <3>2. p = q
        BY <2>1, <3>1 DEF Done, Core, LockExclusive, Holding
      <3>3. QED
        BY <2>1, <3>1, <3>2 DEF Done
    <2>2. CASE Accept(q) /\ task[q].cmd = "pause"
      BY <1>4, <2>2 DEF Accept, Carry, Execute, After
    <2>3. QED
      BY <1>4, <2>1, <2>2, DoneOrigin
  <1>5. QED
    BY <1>1, <1>3, <1>4 DEF OwnPause

(* When every command is answered by what it did, a pause somebody else    *)
(* made, and that sync_state read, is not lifted by an automatic start.    *)
THEOREM ExternalPauseLeftAloneHolds ==
    ASSUME Answered
    PROVE  Spec => ExternalPauseLeftAlone
  <1>1. Init => NoneLate /\ OwnPause
    BY DEF Init, NoneLate, OwnPause, FreshRow, Done, NoTask
  <1>2. TypeOK /\ Core /\ Core' /\ NoneLate /\ OwnPause /\ [Next]_vars
          => NoneLate' /\ OwnPause'
    BY NoneLateStep, OwnPauseStep DEF Answered
  <1>3. ASSUME TypeOK, Core, OwnPause, [Next]_vars, NEW p \in Procs,
               task[p].pc = "got", task[p].reply = "paused", task'[p].pc = "call"
        PROVE  pauser # "outsider"
    <2>1. /\ lock = p
          /\ \A q \in Procs : task[q].pc \notin {"call", "answered"}
      BY <1>3 DEF Core, LockExclusive, Holding
    <2>2. ~row.managed \/ pauser # "outsider"
      <3>1. \A q \in Procs : ~Busy(q)
        BY <2>1 DEF Busy, Done
      <3>2. QED
        BY <1>3, <3>1 DEF OwnPause
    <2>3. SyncDecide(p) /\ SyncCommand(row, "paused") # "none"
      <3>1. ASSUME NEW q \in Procs, q # p, NEW t, Put(q, t) PROVE FALSE
        BY <1>3, <3>1 DEF Put, TypeOK
      <3>2. ASSUME HandBack(p) PROVE FALSE
        BY <1>3, <3>2 DEF HandBack, Put, NoTask, TypeOK
      <3>3. CASE \E c \in Clients : Arrive(c) \/ Begins(c)
        BY <1>3, <2>1, <3>1, <3>3, ProcsFacts
           DEF Arrive, Begins, OwnerBegins, AdminBegins, ConfigBegins, CanEnter
      <3>4. CASE Pass
        BY <1>3, <2>1, <3>1, <3>4, ProcsFacts
           DEF Pass, Snapshot, ScanDone, ReconcilerBegins, ReconcilerDecides, CanEnter,
               HandBack, StartSync
      <3>5. ASSUME NEW q \in Procs,
                   \/ SyncRead(q) \/ SyncUnread(q) \/ Accept(q) \/ Unreachable(q)
                   \/ Refuse(q) \/ TimeOut(q) \/ LoseReply(q) \/ Finish(q)
            PROVE  FALSE
        BY <1>3, <2>1, <3>1, <3>2, <3>5
           DEF SyncRead, SyncUnread, Accept, Unreachable, Refuse, TimeOut, LoseReply, Finish,
               Answer, HandBack
      <3>6. CASE UNCHANGED task
        BY <1>3, <3>6
      <3>7. CASE Crash
        BY <1>3, <3>7 DEF Crash, NoTask
      <3>8. ASSUME NEW q \in Procs, SyncDecide(q)
            PROVE  SyncDecide(p) /\ SyncCommand(row, "paused") # "none"
        <4>1. q = p
          BY <1>3, <2>1, <3>8 DEF SyncDecide, Core, LockExclusive, Holding
        <4>2. QED
          BY <1>3, <3>2, <3>8, <4>1 DEF SyncDecide
      <3>9. QED
        BY <1>3, <3>3, <3>4, <3>5, <3>6, <3>7, <3>8
           DEF Next, Progress, Settling, Disturbance, vars, MarketMoves, LateArrival,
               ContainerDies, ContainerBoots, ExternalPause, Recreate
    <2>4. row.managed
      BY <2>3 DEF SyncCommand
    <2>5. QED
      BY <2>2, <2>4
  <1>4. TypeOK /\ Core /\ OwnPause /\ [Next]_vars =>
          [\A p \in Procs :
             task[p].pc = "got" /\ task[p].reply = "paused" /\ task'[p].pc = "call"
               => pauser # "outsider"]_vars
    BY <1>3
  <1>5. QED
    BY <1>1, <1>2, <1>4, TypeCorrect, CoreCorrect, PTL DEF Spec, ExternalPauseLeftAlone

-----------------------------------------------------------------------------
(* What a step may do to the protection and to the settings.               *)

(* A request for new settings that takes the lock disturbs no other task.  *)
LEMMA ConfigActs ==
    ASSUME TypeOK, NEW c \in Clients, ConfigBegins(c)
    PROVE  /\ c \in Procs /\ lock = NoOne /\ task[c].op = "config" /\ OthersSame(c)
           /\ \/ row' = row
              \/ row' = Configured(row, Merge(row.cfg, task[c].payload))
  <1>1. c \in Procs
    BY ProcsFacts
  <1>2. ASSUME NEW t, Put(c, t) PROVE OthersSame(c)
    BY <1>2 DEF Put, TypeOK, OthersSame
  <1>3. QED
    BY <1>1, <1>2 DEF ConfigBegins, CanEnter, Reread, StartSync, HandBack

(* A handler that records what was accepted disturbs no other task.        *)
LEMMA FinishActs ==
    ASSUME TypeOK, Core, NEW p \in Procs, Finish(p)
    PROVE  /\ lock = p /\ task[p].pc = "answered" /\ OthersSame(p) /\ task'[p].pc = "idle"
           /\ row' # row => task[p].reply = "ok" /\ row' = Committed(row, task[p])
  <1>1. lock = p /\ HandBack(p)
    BY DEF Finish, Core, LockExclusive, Holding
  <1>2. QED
    BY <1>1, HandBackStep DEF Finish

(* The reconciler moves the protection only with a verdict reached for the *)
(* settings the bot has at the moment of the commit, and for the exchange  *)
(* of that moment unless a thread replaced it since the lock was taken;    *)
(* nobody else moves it, except the owner who switches the guard off.      *)
THEOREM FreshVerdictHolds == Spec => FreshVerdict
  <1> DEFINE t == task[Reconciler]
             Off == ~row'.tradingview_paused /\ ~row'.cfg.guard
             Fresh == /\ t.pc = "checked" /\ t.cfg = row.cfg
                      /\ t.exchange = row.exchange \/ t.seen.exchange # row.exchange
  <1>1. ASSUME TypeOK, Core, [Next]_vars, row'.tradingview_paused # row.tradingview_paused
        PROVE  Off \/ Fresh
    <2>1. row \in Rows
      BY <1>1 DEF TypeOK
    <2>2. ASSUME NEW cfg \in Configs, row' = Configured(row, cfg) PROVE Off
      BY <1>1, <2>1, <2>2 DEF Configured, Rows, Configs
    <2>3. ASSUME NEW c \in Clients, ConfigBegins(c) PROVE Off
      <3>1. Merge(row.cfg, task[c].payload) \in Configs
        BY <1>1, ProcsFacts, MergeType DEF TypeOK, Rows, Tasks
      <3>2. QED
        BY <1>1, <2>2, <2>3, <3>1, ConfigActs
    <2>4. ASSUME NEW p \in Procs, Finish(p) PROVE Off
      <3>1. row' = Committed(row, task[p]) /\ task[p].cfg \in Configs
        BY <1>1, <2>4, FinishActs DEF TypeOK, Tasks
      <3>2. task[p].op = "config" /\ task[p].cmd = "provision"
        BY <1>1, <2>1, <3>1 DEF Committed, OwnerRecorded, AdminStarted, AdminStopped, Synced, Rows
      <3>3. QED
        BY <2>2, <3>1, <3>2 DEF Committed
    <2>5. CASE ReconcilerDecides
      BY <1>1, <2>5, ProcsFacts DEF ReconcilerDecides, Core, CopyHeld
    <2>6. ASSUME NEW p \in Procs, SyncDecide(p) PROVE FALSE
      BY <1>1, <2>1, <2>6 DEF SyncDecide, Claimed, Confirmed, Rows
    <2>7. ASSUME Recreate PROVE FALSE
      BY <1>1, <2>1, <2>7 DEF Recreate, Rows
    <2>8. row' # row
      BY <1>1
    <2> HIDE DEF Off, Fresh
    <2>9. QED
      BY <1>1, <2>3, <2>4, <2>5, <2>6, <2>7, <2>8
         DEF Next, Begins, Progress, Pass, Settling, Disturbance, vars, Arrive, OwnerBegins,
             AdminBegins, Snapshot, ScanDone, ReconcilerBegins, SyncRead, SyncUnread, Accept,
             Unreachable, Refuse, LoseReply, TimeOut, Answer, MarketMoves, LateArrival,
             ContainerDies, ContainerBoots, ExternalPause, Crash
  <1>2. TypeOK /\ Core /\ [Next]_vars =>
          [row'.tradingview_paused # row.tradingview_paused => Off \/ Fresh]_vars
    BY <1>1
  <1>3. QED
    BY <1>2, TypeCorrect, CoreCorrect, PTL DEF Spec, FreshVerdict

Replacing(p) == InCall(p) /\ task[p].op = "config" /\ task[p].cmd = "provision"

(* The settings a request has a new container made with are the stored     *)
(* ones with what it carries, for as long as it holds the lock.            *)
MergeHeld == \A p \in Procs : Replacing(p) => task[p].cfg = Merge(row.cfg, task[p].payload)

(* The stored settings change when a request merges its own, or when one   *)
(* records those it had a new container made with.                         *)
LEMMA CfgOrigin ==
    ASSUME TypeOK, Core, [Next]_vars, row'.cfg # row.cfg
    PROVE  \/ \E c \in Clients : /\ ConfigBegins(c)
                                 /\ row'.cfg = Merge(row.cfg, task[c].payload)
           \/ \E p \in Procs : Finish(p) /\ Replacing(p) /\ row'.cfg = task[p].cfg
  <1>1. ASSUME NEW c \in Clients, ConfigBegins(c) PROVE row'.cfg = Merge(row.cfg, task[c].payload)
    BY <1>1, ConfigActs DEF Configured, TypeOK, Rows
  <1>2. ASSUME NEW p \in Procs, Finish(p) PROVE Replacing(p) /\ row'.cfg = task[p].cfg
    <2>1. row' = Committed(row, task[p]) /\ InCall(p)
      BY <1>2, FinishActs DEF InCall
    <2>2. task[p].op = "config" /\ task[p].cmd = "provision" /\ row'.cfg = task[p].cfg
      BY <2>1 DEF Committed, OwnerRecorded, AdminStarted, AdminStopped, Configured, Synced,
                  TypeOK, Rows
    <2>3. QED
      BY <2>1, <2>2 DEF Replacing
  <1>3. ASSUME ReconcilerDecides PROVE FALSE
    BY <1>3 DEF ReconcilerDecides, TypeOK, Rows
  <1>4. ASSUME NEW p \in Procs, SyncDecide(p) PROVE FALSE
    BY <1>4 DEF SyncDecide, Claimed, Confirmed, TypeOK, Rows
  <1>5. ASSUME Recreate PROVE FALSE
    BY <1>5 DEF Recreate, TypeOK, Rows
  <1>6. row' # row
    OBVIOUS
  <1>7. QED
    BY <1>1, <1>2, <1>3, <1>4, <1>5, <1>6
       DEF Next, Begins, Progress, Pass, Settling, Disturbance, vars, Arrive, OwnerBegins, AdminBegins,
           Snapshot, ScanDone, ReconcilerBegins, SyncRead, SyncUnread, Accept, Unreachable,
           Refuse, LoseReply, TimeOut, Answer, MarketMoves, LateArrival, ContainerDies, ContainerBoots,
           ExternalPause, Crash

(* A request has its container made with the merged settings it sent.      *)
LEMMA ReplacingOrigin ==
    ASSUME TypeOK, Core, [Next]_vars, NEW q \in Procs, Replacing(q)'
    PROVE  \/ /\ Replacing(q)
              /\ task'[q].cfg = task[q].cfg /\ task'[q].payload = task[q].payload
           \/ /\ q \in Clients /\ ConfigBegins(q) /\ row' = row
              /\ task'[q].payload = task[q].payload
              /\ task'[q].cfg = Merge(row.cfg, task[q].payload)
  <1> DEFINE Kept == /\ Replacing(q)
                     /\ task'[q].cfg = task[q].cfg /\ task'[q].payload = task[q].payload
             Sent == /\ q \in Clients /\ ConfigBegins(q) /\ row' = row
                     /\ task'[q].payload = task[q].payload
                     /\ task'[q].cfg = Merge(row.cfg, task[q].payload)
  <1>1. ASSUME task'[q] = task[q] PROVE Kept
    BY <1>1 DEF Replacing, InCall
  <1>2. ASSUME NEW p \in Procs, NEW t, Put(p, t), t.pc \notin {"call", "answered"} PROVE Kept
    BY <1>2 DEF Put, TypeOK, Replacing, InCall
  <1>3. ASSUME NEW p \in Procs, HandBack(p) PROVE Kept
    <2>1. NoTask.pc = "idle"
      BY DEF NoTask
    <2> HIDE DEF Kept
    <2>2. QED
      BY <1>2, <1>3, <2>1 DEF HandBack
  <1>4. ASSUME NEW p \in Procs, lock \in {NoOne, p},
               NEW cmd \in Orders \cup DockerOrders, cmd # "provision", Order(p, cmd)
        PROVE  Kept
    <2>1. OthersSame(p) /\ task'[p].cmd = cmd
      BY <1>4, OrderStep
    <2>2. QED
      BY <1>4, <2>1 DEF OthersSame, Replacing, InCall
  <1>5. ASSUME NEW p \in Procs, NEW reply \in {"ok", "failed"}, Answer(p, reply) PROVE Kept
    <2>1. /\ OthersSame(p) /\ task[p].pc = "call" /\ task'[p].cmd = task[p].cmd
          /\ task'[p].op = task[p].op
      BY <1>5, AnswerStep DEF Answer
    <2>2. task'[p].cfg = task[p].cfg /\ task'[p].payload = task[p].payload
      BY <1>5 DEF Answer, Put, TypeOK, Tasks
    <2>3. QED
      BY <2>1, <2>2 DEF OthersSame, Replacing, InCall
  <1>6. ASSUME NEW c \in Clients, ConfigBegins(c) PROVE Kept \/ Sent
    <2> DEFINE merged == Merge(row.cfg, task[c].payload)
               e == Entered(task[c], "call", "provision")
    <2>1. c \in Procs /\ task[c] \in Tasks /\ OthersSame(c)
      BY <1>6, ConfigActs DEF TypeOK
    <2>2. CASE q # c
      BY <1>1, <2>1, <2>2 DEF OthersSame
    <2>3. CASE Put(c, [e EXCEPT !.cfg = merged]) /\ UNCHANGED row /\ q = c
      <3>1. e \in Tasks /\ e.payload = task[c].payload
        BY <2>1, EnteredType DEF Entered, Tasks, DockerOrders
      <3> HIDE DEF e, merged
      <3>2. task'[c].payload = task[c].payload /\ task'[c].cfg = merged
        BY <2>1, <2>3, <3>1 DEF Put, TypeOK, Tasks
      <3>3. QED
        BY <1>6, <2>3, <3>2 DEF merged
    <2>4. CASE StartSync(c, row')
      <3>1. [Entered(task[c], "get", "none") EXCEPT !.cfg = NoTask.cfg].pc = "get"
        BY <2>1, GetType
      <3> HIDE DEF Kept, Sent
      <3>2. QED
        BY <1>2, <1>3, <2>1, <2>4, <3>1 DEF StartSync
    <2>5. QED
      BY <1>6, <2>2, <2>3, <2>4 DEF ConfigBegins, Reread
  <1>7. ASSUME NEW c \in Clients, OwnerBegins(c) \/ AdminBegins(c) PROVE Kept
    <2>1. c \in Procs /\ lock = NoOne
      BY <1>7, ProcsFacts DEF OwnerBegins, AdminBegins, CanEnter
    <2>2. AdminBegins(c) \/ OwnerTarget(task[c].op, row) \in Orders
      BY <1>7, CommandType DEF OwnerBegins, TypeOK
    <2>3. "provision" \notin Orders
      BY DEF Orders
    <2> HIDE DEF Kept
    <2>4. QED
      BY <1>3, <1>4, <1>7, <2>1, <2>2, <2>3 DEF OwnerBegins, AdminBegins, Reread, DockerOrders
  <1>8. ASSUME NEW p \in Procs, SyncDecide(p) PROVE Kept
    <2>1. SyncCommand(row, task[p].reply) \in {"start", "pause", "none"}
      BY DEF SyncCommand
    <2>2. lock = p
      BY <1>8 DEF SyncDecide, Core, LockExclusive, Holding
    <2> HIDE DEF Kept
    <2>3. QED
      BY <1>3, <1>4, <1>8, <2>1, <2>2 DEF SyncDecide, Orders
  <1>9. ASSUME NEW c \in Clients, Arrive(c) PROVE Kept
    <2>1. ASSUME NEW op
          PROVE  [NoTask EXCEPT !.pc = "wait", !.op = op, !.seen = row].pc = "wait"
      BY DEF NoTask
    <2>2. ASSUME NEW pl
          PROVE  [NoTask EXCEPT !.pc = "wait", !.op = "config", !.payload = pl,
                                !.seen = row].pc = "wait"
      BY DEF NoTask
    <2> HIDE DEF Kept
    <2>3. QED
      BY <1>2, <1>9, <2>1, <2>2, ProcsFacts DEF Arrive
  <1>10. ASSUME Snapshot \/ ScanDone PROVE Kept
    <2>1. [NoTask EXCEPT !.pc = "scan", !.op = "reconcile", !.cfg = row.cfg,
                         !.exchange = row.exchange].pc = "scan"
      BY DEF NoTask
    <2>2. [task[Reconciler] EXCEPT !.pc = "wait", !.reply = market].pc = "wait"
      BY ProcsFacts DEF TypeOK, Tasks
    <2> HIDE DEF Kept
    <2>3. QED
      BY <1>2, <1>10, <2>1, <2>2, ProcsFacts DEF Snapshot, ScanDone
  <1>11. ASSUME ReconcilerBegins \/ ReconcilerDecides PROVE Kept
    <2>1. [Entered(task[Reconciler], "get", "none") EXCEPT !.cfg = NoTask.cfg].pc = "get"
      BY ProcsFacts, GetType DEF TypeOK
    <2>2. [task[Reconciler] EXCEPT !.pc = "checked", !.seen = row].pc = "checked"
      BY ProcsFacts, CheckedType DEF TypeOK
    <2> HIDE DEF Kept
    <2>3. QED
      BY <1>2, <1>3, <1>11, <2>1, <2>2, ProcsFacts
         DEF ReconcilerBegins, ReconcilerDecides, StartSync
  <1>12. ASSUME NEW p \in Procs, SyncRead(p) PROVE Kept
    <2>1. [task[p] EXCEPT !.pc = "got", !.reply = bot].pc = "got"
      BY DEF TypeOK, Tasks
    <2> HIDE DEF Kept
    <2>2. QED
      BY <1>2, <1>12, <2>1 DEF SyncRead
  <1>13. ASSUME Crash PROVE FALSE
    BY <1>13 DEF Crash, NoTask, Replacing, InCall
  <1> HIDE DEF Kept, Sent
  <1>14. ASSUME NEW p \in Procs,
                \/ SyncUnread(p) \/ Finish(p) \/ Accept(p) \/ Unreachable(p) \/ Refuse(p)
                \/ LoseReply(p) \/ TimeOut(p)
         PROVE  Kept
    BY <1>3, <1>5, <1>14 DEF SyncUnread, Finish, Accept, Unreachable, Refuse, LoseReply, TimeOut
  <1>15. Kept \/ Sent
    <2>1. CASE task' = task
      BY <1>1, <2>1
    <2>2. CASE task' # task
      BY <1>6, <1>7, <1>8, <1>9, <1>10, <1>11, <1>12, <1>13, <1>14, <2>2
         DEF Next, Begins, Progress, Pass, Settling, Disturbance, vars, MarketMoves,
             LateArrival, ContainerDies, ContainerBoots, ExternalPause, Recreate
    <2>3. QED
      BY <2>1, <2>2
  <1>16. QED
    BY <1>15 DEF Kept, Sent

(* While a request holds the lock nobody changes the settings it merged.   *)
LEMMA MergeStep ==
    ASSUME TypeOK, Core, MergeHeld, [Next]_vars
    PROVE  MergeHeld'
  <1> SUFFICES ASSUME NEW q \in Procs, Replacing(q)'
               PROVE  task'[q].cfg = Merge(row'.cfg, task'[q].payload)
    BY DEF MergeHeld, Replacing, InCall
  <1>1. CASE Replacing(q) /\ task'[q].cfg = task[q].cfg /\ task'[q].payload = task[q].payload
    <2>1. lock = q
      BY <1>1 DEF Replacing, InCall, Core, LockExclusive, Holding
    <2>2. row'.cfg = row.cfg
      <3>1. \A c \in Clients : ~ConfigBegins(c)
        BY <2>1, ProcsFacts DEF ConfigBegins, CanEnter
      <3>2. \A p \in Procs : ~Finish(p)
        BY <2>1, FinishActs DEF Replacing, InCall
      <3>3. QED
        BY <3>1, <3>2, CfgOrigin
    <2>3. QED
      BY <1>1, <2>2 DEF MergeHeld
  <1>2. QED
    BY <1>1, ReplacingOrigin

(* A settings request changes no setting it did not carry, even when       *)
(* another request changed it while this one waited for the lock.          *)
THEOREM SettingsKeptHolds == Spec => SettingsKept
  <1>1. Init => MergeHeld
    BY DEF Init, MergeHeld, Replacing, InCall, NoTask
  <1>2. TypeOK /\ Core /\ MergeHeld /\ [Next]_vars => MergeHeld'
    BY MergeStep
  <1>3. ASSUME TypeOK, Core, MergeHeld, [Next]_vars, NEW c \in Clients,
               task[c].op = "config", task[c].pc # task'[c].pc,
               NEW k \in {"guard", "params"} \ task[c].payload.keys
        PROVE  row'.cfg[k] = row.cfg[k]
    <2>1. c \in Procs /\ Merge(row.cfg, task[c].payload)[k] = row.cfg[k]
      BY ProcsFacts DEF Merge
    <2>2. CASE row'.cfg = row.cfg
      BY <2>2
    <2>3. ASSUME NEW d \in Clients, ConfigBegins(d), row'.cfg = Merge(row.cfg, task[d].payload)
          PROVE  row'.cfg[k] = row.cfg[k]
      <3>1. d = c
        BY <1>3, <2>1, <2>3, ConfigActs DEF OthersSame
      <3>2. QED
        BY <2>1, <2>3, <3>1
    <2>4. ASSUME NEW p \in Procs, Finish(p), Replacing(p), row'.cfg = task[p].cfg
          PROVE  row'.cfg[k] = row.cfg[k]
      <3>1. p = c
        BY <1>3, <2>1, <2>4, FinishActs DEF OthersSame
      <3>2. QED
        BY <1>3, <2>1, <2>4, <3>1 DEF MergeHeld
    <2>5. QED
      BY <1>3, <2>2, <2>3, <2>4, CfgOrigin
  <1>4. TypeOK /\ Core /\ MergeHeld /\ [Next]_vars =>
          [\A c \in Clients :
             task[c].op = "config" /\ task[c].pc # task'[c].pc =>
                \A k \in {"guard", "params"} \ task[c].payload.keys :
                   row'.cfg[k] = row.cfg[k]]_vars
    BY <1>3
  <1>5. QED
    BY <1>1, <1>2, <1>4, TypeCorrect, CoreCorrect, PTL DEF Spec, SettingsKept

-----------------------------------------------------------------------------
(* The handlers of a bot take turns: TradingGuard implements Mutex, with   *)
(* the handlers that await the lock waiting and those between taking it    *)
(* and giving it back inside.                                              *)

(* How the step of one task looks to the others: it stands where it stood, *)
(* comes to wait, enters when nobody holds the lock, or is done.           *)
Move(p) ==
    LET was == task[p].pc
        is == task'[p].pc
    IN  \/ (was \in Holding <=> is \in Holding) /\ (was = "wait" <=> is = "wait")
        \/ was \notin Holding /\ is = "wait"
        \/ was = "wait" /\ is \in Holding /\ lock = NoOne
        \/ is \notin Holding \cup {"wait"}

(* Each such step is one of the abstract lock's, or none.                  *)
LEMMA MoveStep ==
    ASSUME Core, NEW p \in Procs, OthersSame(p), Move(p)
    PROVE  [Turns!Next]_(Turns!vars)
  <1> DEFINE waiting == {q \in Procs : task[q].pc = "wait"}
             inside == {q \in Procs : task[q].pc \in Holding}
             was == task[p].pc
             is == task'[p].pc
  <1>0. "wait" \notin Holding
    BY DEF Holding
  <1>1. CASE (was \in Holding <=> is \in Holding) /\ (was = "wait" <=> is = "wait")
    <2>1. waiting' = waiting /\ inside' = inside
      BY <1>1 DEF OthersSame
    <2>2. QED
      BY <2>1 DEF Turns!vars
  <1>2. CASE was \notin Holding /\ is = "wait"
    <2>1. waiting' = waiting \cup {p} /\ inside' = inside
      BY <1>0, <1>2 DEF OthersSame
    <2>2. QED
      BY <2>1 DEF Turns!Next, Turns!Ask
  <1>3. CASE was = "wait" /\ is \in Holding /\ lock = NoOne
    <2>1. inside = {}
      BY <1>3, ProcsFacts DEF Core, LockExclusive
    <2>2. waiting' = waiting \ {p} /\ inside' = {p}
      BY <1>0, <1>3, <2>1 DEF OthersSame
    <2>3. QED
      BY <2>1, <2>2 DEF Turns!Next, Turns!Enter
  <1>4. CASE is \notin Holding \cup {"wait"} /\ was \in Holding
    <2>1. waiting' = waiting /\ inside' = inside \ {p} /\ p \in inside
      BY <1>0, <1>4 DEF OthersSame
    <2>2. QED
      BY <2>1 DEF Turns!Next, Turns!Leave
  <1>5. CASE is \notin Holding \cup {"wait"} /\ was \notin Holding
    <2>1. waiting' = waiting \ {p} /\ inside' = inside
      BY <1>5 DEF OthersSame
    <2>2. QED
      BY <2>1 DEF Turns!Next, Turns!Withdraw
  <1>6. QED
    BY <1>1, <1>2, <1>3, <1>4, <1>5 DEF Move

(* A step that leaves the tasks alone leaves the turns alone.              *)
LEMMA StillStep ==
    ASSUME UNCHANGED task
    PROVE  [Turns!Next]_(Turns!vars)
  BY DEF Turns!vars

(* A task that gives the lock back is done.                                *)
LEMMA HandBackMoves ==
    ASSUME TypeOK, Core, NEW p \in Procs, lock \in {NoOne, p}, HandBack(p)
    PROVE  OthersSame(p) /\ Move(p)
  BY HandBackStep DEF Move, Holding

(* A task that takes the lock, or holds it, may send a command.            *)
LEMMA OrderMoves ==
    ASSUME TypeOK, NEW p \in Procs, CanEnter(p) \/ (lock = p /\ task[p].pc \in Holding),
           NEW cmd \in Orders \cup DockerOrders, Order(p, cmd)
    PROVE  OthersSame(p) /\ Move(p)
  BY OrderStep, ProcsFacts DEF CanEnter, Move, Holding

(* A task that takes the lock, or holds it, may ask the bot for its state. *)
LEMMA StartSyncMoves ==
    ASSUME TypeOK, Core, NEW p \in Procs, NEW r, StartSync(p, r),
           CanEnter(p) \/ (lock = p /\ task[p].pc \in Holding)
    PROVE  OthersSame(p) /\ Move(p)
  <1>1. task[p] \in Tasks
    BY DEF TypeOK
  <1>2. CASE HandBack(p)
    BY <1>2, HandBackMoves DEF CanEnter
  <1>3. CASE ~HandBack(p)
    <2>1. OthersSame(p) /\ task'[p].pc = "get"
      BY <1>1, <1>3, GetType, PutFacts DEF StartSync, TypeOK, OthersSame
    <2>2. QED
      BY <2>1 DEF CanEnter, Move, Holding
  <1>4. QED
    BY <1>2, <1>3

Moves == \E p \in Procs : OthersSame(p) /\ Move(p)

(* A task that is put in a state where it neither waits nor holds the lock *)
(* is done; one that is put to wait did not hold it.                       *)
LEMMA PutMoves ==
    ASSUME TypeOK, NEW p \in Procs, NEW t \in Tasks, Put(p, t),
           \/ t.pc \notin Holding \cup {"wait"}
           \/ t.pc = "wait" /\ task[p].pc \notin Holding
           \/ t.pc \in Holding /\ task[p].pc \in Holding
    PROVE  Moves
  <1>1. OthersSame(p) /\ task'[p] = t
    BY PutFacts DEF TypeOK, OthersSame
  <1>2. Move(p)
    BY <1>1 DEF Move, Holding
  <1>3. QED
    BY <1>1, <1>2 DEF Moves

(* Requests come to wait, and take the lock only when it is free.          *)
LEMMA ClientMoves ==
    ASSUME TypeOK, Core, NEW c \in Clients, Arrive(c) \/ Begins(c)
    PROVE  Moves
  <1>0. c \in Procs /\ task[c] \in Tasks
    BY ProcsFacts DEF TypeOK
  <1>1. CASE Arrive(c)
    <2>1. ASSUME NEW op \in OwnerOps \cup AdminOps
          PROVE  LET t == [NoTask EXCEPT !.pc = "wait", !.op = op, !.seen = row]
                 IN  t \in Tasks /\ t.pc = "wait"
      BY NoTaskType DEF Tasks, Ops, TypeOK
    <2>2. ASSUME NEW pl \in Payloads
          PROVE  LET t == [NoTask EXCEPT !.pc = "wait", !.op = "config", !.payload = pl,
                                         !.seen = row]
                 IN  t \in Tasks /\ t.pc = "wait"
      BY NoTaskType DEF Tasks, Ops, TypeOK
    <2>3. QED
      BY <1>0, <1>1, <2>1, <2>2, PutMoves DEF Arrive, Holding
  <1>2. CASE OwnerBegins(c) \/ AdminBegins(c)
    <2>1. CanEnter(c)
      BY <1>2 DEF OwnerBegins, AdminBegins
    <2>2. CASE HandBack(c)
      BY <1>0, <2>1, <2>2, HandBackMoves DEF CanEnter, Moves
    <2>3. ASSUME NEW cmd \in Orders \cup DockerOrders, Order(c, cmd) PROVE Moves
      BY <1>0, <2>1, <2>3, OrderMoves DEF Moves
    <2>4. OwnerTarget(task[c].op, row) \in Orders \/ AdminBegins(c)
      BY <1>2, CommandType DEF OwnerBegins, TypeOK
    <2>5. QED
      BY <1>2, <2>2, <2>3, <2>4 DEF OwnerBegins, AdminBegins, Reread, DockerOrders
  <1>3. CASE ConfigBegins(c)
    <2> DEFINE merged == Merge(row.cfg, task[c].payload)
               e == Entered(task[c], "call", "provision")
               t == [e EXCEPT !.cfg = merged]
    <2>1. CanEnter(c) /\ merged \in Configs
      BY <1>0, <1>3, MergeType DEF ConfigBegins, TypeOK, Rows, Tasks
    <2>2. CASE Put(c, t)
      <3>1. e \in Tasks /\ e.pc = "call"
        BY <1>0, EnteredType DEF DockerOrders
      <3> HIDE DEF e, merged
      <3>2. t \in Tasks /\ t.pc = "call"
        BY <2>1, <3>1 DEF Tasks
      <3> HIDE DEF t
      <3>3. OthersSame(c) /\ task'[c].pc = "call"
        BY <1>0, <2>2, <3>2, PutFacts DEF TypeOK, OthersSame
      <3>4. QED
        BY <1>0, <2>1, <3>3 DEF Moves, Move, CanEnter, Holding
    <2>3. CASE StartSync(c, row')
      BY <1>0, <2>1, <2>3, StartSyncMoves DEF Moves
    <2>4. QED
      BY <1>3, <2>2, <2>3 DEF ConfigBegins, Reread
  <1>4. QED
    BY <1>1, <1>2, <1>3 DEF Begins

(* A pass waits for the lock after its scan.                               *)
LEMMA PassMoves ==
    ASSUME TypeOK, Core, Pass
    PROVE  Moves
  <1>1. CASE Snapshot
    <2>1. LET t == [NoTask EXCEPT !.pc = "scan", !.op = "reconcile", !.cfg = row.cfg,
                                  !.exchange = row.exchange]
          IN  t \in Tasks /\ t.pc \notin Holding \cup {"wait"}
      BY NoTaskType DEF Tasks, Ops, TypeOK, Rows, Holding
    <2>2. QED
      BY <1>1, <2>1, PutMoves, ProcsFacts DEF Snapshot
  <1>2. CASE ScanDone
    <2>1. LET t == [task[Reconciler] EXCEPT !.pc = "wait", !.reply = market]
          IN  t \in Tasks /\ t.pc = "wait"
      BY ProcsFacts DEF Tasks, TypeOK
    <2>2. QED
      BY <1>2, <2>1, PutMoves, ProcsFacts DEF ScanDone, Holding
  <1>3. CASE ReconcilerBegins
    <2> DEFINE t == [task[Reconciler] EXCEPT !.pc = "checked", !.seen = row]
    <2>1. CanEnter(Reconciler) /\ (HandBack(Reconciler) \/ Put(Reconciler, t))
      BY <1>3 DEF ReconcilerBegins
    <2>2. CASE HandBack(Reconciler)
      BY <2>1, <2>2, ProcsFacts, HandBackMoves DEF CanEnter, Moves
    <2>3. CASE Put(Reconciler, t)
      <3>1. t \in Tasks /\ t.pc = "checked"
        BY ProcsFacts, CheckedType DEF TypeOK
      <3> HIDE DEF t
      <3>2. OthersSame(Reconciler) /\ task'[Reconciler].pc = "checked"
        BY <2>3, <3>1, PutFacts, ProcsFacts DEF TypeOK, OthersSame
      <3>3. QED
        BY <2>1, <3>2, ProcsFacts DEF Moves, Move, CanEnter, Holding
    <2>4. QED
      BY <2>1, <2>2, <2>3
  <1>4. CASE ReconcilerDecides
    <2>1. /\ lock = Reconciler /\ task[Reconciler].pc \in Holding
          /\ StartSync(Reconciler, row')
      BY <1>4, ProcsFacts DEF ReconcilerDecides, Core, LockExclusive, Holding
    <2>2. QED
      BY <2>1, ProcsFacts, StartSyncMoves DEF Moves
  <1>5. QED
    BY <1>1, <1>2, <1>3, <1>4 DEF Pass

(* A handler that holds the lock keeps it until it gives it back.          *)
LEMMA HolderMoves ==
    ASSUME TypeOK, Core, NEW p \in Procs,
           \/ SyncRead(p) \/ SyncDecide(p) \/ SyncUnread(p) \/ Finish(p)
           \/ Accept(p) \/ Unreachable(p) \/ Refuse(p) \/ LoseReply(p) \/ TimeOut(p)
    PROVE  Moves
  <1>0. lock = p /\ task[p].pc \in Holding
    BY DEF SyncRead, SyncDecide, SyncUnread, Finish, Accept, Unreachable, Refuse, LoseReply,
           TimeOut, Answer, Core, LockExclusive, Holding
  <1>1. CASE HandBack(p)
    BY <1>0, <1>1, HandBackMoves DEF Moves
  <1>2. CASE SyncRead(p)
    <2>1. LET t == [task[p] EXCEPT !.pc = "got", !.reply = bot]
          IN  t \in Tasks /\ t.pc \in Holding
      BY <1>2 DEF SyncRead, Tasks, TypeOK, Holding
    <2>2. QED
      BY <1>0, <1>2, <2>1, PutMoves DEF SyncRead
  <1>3. CASE SyncDecide(p)
    <2> DEFINE cmd == SyncCommand(row, task[p].reply)
    <2>1. CASE cmd # "none" /\ Order(p, cmd)
      <3>1. cmd \in Orders \cup DockerOrders
        BY <2>1 DEF SyncCommand, Orders
      <3> HIDE DEF cmd
      <3>2. QED
        BY <1>0, <2>1, <3>1, OrderMoves DEF Moves
    <2>2. QED
      BY <1>1, <1>3, <2>1 DEF SyncDecide
  <1>4. ASSUME NEW reply \in {"ok", "failed"}, Answer(p, reply) PROVE Moves
    <2>1. OthersSame(p) /\ task'[p].pc = "answered"
      BY <1>4, AnswerStep
    <2>2. QED
      BY <1>0, <2>1 DEF Moves, Move, Holding
  <1>5. QED
    BY <1>1, <1>2, <1>3, <1>4
       DEF SyncUnread, Finish, Accept, Unreachable, Refuse, LoseReply, TimeOut

(* Every step of the handlers and around them is a step of the abstract    *)
(* lock or leaves it alone.                                                *)
LEMMA TurnStep == TypeOK /\ Core /\ [Next]_vars => [Turns!Next]_(Turns!vars)
  <1> SUFFICES ASSUME TypeOK, Core, [Next]_vars PROVE [Turns!Next]_(Turns!vars)
    OBVIOUS
  <1>1. CASE Moves
    BY <1>1, MoveStep DEF Moves
  <1>2. CASE UNCHANGED task
    BY <1>2, StillStep
  <1>3. CASE Crash
    <2>1. \A p \in Procs : task'[p].pc = "idle"
      BY <1>3 DEF Crash, NoTask
    <2>2. QED
      BY <2>1 DEF Turns!Next, Turns!Restart, Holding
  <1>4. QED
    BY <1>1, <1>2, <1>3, ClientMoves, PassMoves, HolderMoves
       DEF Next, Settling, Disturbance, Progress, vars, MarketMoves, LateArrival,
           ContainerDies, ContainerBoots, ExternalPause, Recreate

(* For any clients and any commands, the handlers of a bot are a mutual    *)
(* exclusion: over every await, refused command, lost answer and crash, no *)
(* handler is inside while another one is.                                 *)
THEOREM ImplementsMutexHolds == Spec => ImplementsMutex
  <1>1. Init => Turns!Init
    BY DEF Init, Turns!Init, NoTask, Holding
  <1>2. TypeOK /\ Core /\ [Next]_vars => [Turns!Next]_(Turns!vars)
    BY TurnStep
  <1>3. QED
    BY <1>1, <1>2, TypeCorrect, CoreCorrect, PTL DEF Spec, ImplementsMutex, Turns!Spec

-----------------------------------------------------------------------------
(* What sync_state does with a row and a bot, when nothing comes between.  *)

(* Settled, of any row and any bot. *)
Agrees(r, state) ==
    IF EntriesPaused(r) THEN state = "paused"
    ELSE state = "running" \/ (state = "paused" /\ ~r.managed)

(* The row and the bot after a synchronisation whose command is accepted. *)
SyncedRow(r, state) ==
    LET cmd == SyncCommand(r, state) IN
    CASE cmd = "none" -> Confirmed(r, state)
      [] cmd = "pause" -> Synced(Claimed(r), cmd)
      [] OTHER -> Synced(r, cmd)

SyncedBot(r, state) == After(SyncCommand(r, state), state)

(* No step of a synchronisation changes whether entries are to be paused.  *)
LEMMA SyncUpdates ==
    ASSUME NEW r \in Rows, NEW state, NEW cmd
    PROVE  /\ EntriesPaused(Claimed(r)) <=> EntriesPaused(r)
           /\ EntriesPaused(Confirmed(r, state)) <=> EntriesPaused(r)
           /\ EntriesPaused(Synced(r, cmd)) <=> EntriesPaused(r)
           /\ Synced(r, cmd).managed = (cmd = "pause") /\ Synced(r, cmd).pending = FALSE
           /\ Claimed(r) \in Rows
  <1> DEFINE Same(c) == /\ c.manual_paused = r.manual_paused /\ c.cfg = r.cfg
                        /\ c.tradingview_paused = r.tradingview_paused
  <1>1. Claimed(r) \in Rows
    BY DEF Claimed, Rows
  <1>2. Same(Claimed(r)) /\ Same(Confirmed(r, state)) /\ Same(Synced(r, cmd))
    BY DEF Claimed, Confirmed, Synced, Rows
  <1>3. \A c : Same(c) => (EntriesPaused(c) <=> EntriesPaused(r))
    BY DEF EntriesPaused, GuardPause
  <1>4. Synced(r, cmd).managed = (cmd = "pause") /\ Synced(r, cmd).pending = FALSE
    BY DEF Synced, Rows
  <1> HIDE DEF Same
  <1>5. QED
    BY <1>1, <1>2, <1>3, <1>4

(* One synchronisation is enough, and none too many: from whatever row and *)
(* bot refused commands, lost answers, crashes and reboots have left, one  *)
(* whose command is accepted makes the bot what the row asks for, and the  *)
(* next one sends nothing and changes nothing.  A pause that is not ours   *)
(* stays, and pause and start do not alternate.                            *)
THEOREM OneSyncSettles ==
    ASSUME NEW r \in Rows, NEW state \in Up
    PROVE  LET r1 == SyncedRow(r, state)
               s1 == SyncedBot(r, state)
           IN  /\ Agrees(r1, s1)
               /\ SyncCommand(r1, s1) = "none" /\ Confirmed(r1, s1) = r1
               /\ state = "paused" /\ ~r.managed => s1 = "paused"
  <1> DEFINE cmd == SyncCommand(r, state)
             r1 == SyncedRow(r, state)
             s1 == SyncedBot(r, state)
  <1>1. state \in {"running", "paused", "stopped"}
    BY DEF Up
  <1>2. CASE cmd = "pause"
    <2>0. EntriesPaused(r) /\ state # "paused"
      BY <1>1, <1>2 DEF SyncCommand
    <2>1. r1 = Synced(Claimed(r), "pause") /\ s1 = "paused"
      BY <1>2 DEF SyncedRow, SyncedBot, After
    <2> HIDE DEF r1
    <2>2. EntriesPaused(r1) /\ r1.managed = TRUE /\ r1.pending = FALSE /\ state # "paused"
      <3>1. EntriesPaused(Claimed(r)) /\ Claimed(r) \in Rows
        BY <2>0, SyncUpdates
      <3>2. QED
        BY <2>1, <2>0, <3>1, SyncUpdates
    <2> HIDE DEF r1, s1, cmd
    <2>3. Agrees(r1, s1) /\ SyncCommand(r1, s1) = "none" /\ Confirmed(r1, s1) = r1
      BY <2>1, <2>2 DEF Agrees, SyncCommand, Confirmed
    <2>4. QED
      BY <2>2, <2>3 DEF r1, s1
  <1>3. CASE cmd = "start"
    <2>0. ~EntriesPaused(r) /\ ~(state = "paused" /\ ~r.managed)
      BY <1>1, <1>3 DEF SyncCommand
    <2>1. r1 = Synced(r, "start") /\ s1 = "running"
      BY <1>3 DEF SyncedRow, SyncedBot, After
    <2> HIDE DEF r1
    <2>2. ~EntriesPaused(r1) /\ r1.managed = FALSE /\ r1.pending = FALSE
          /\ ~(state = "paused" /\ ~r.managed)
      BY <2>1, <2>0, SyncUpdates
    <2> HIDE DEF r1, s1, cmd
    <2>3. Agrees(r1, s1) /\ SyncCommand(r1, s1) = "none" /\ Confirmed(r1, s1) = r1
      BY <2>1, <2>2 DEF Agrees, SyncCommand, Confirmed
    <2>4. QED
      BY <2>2, <2>3 DEF r1, s1
  <1>4. CASE cmd = "none"
    <2>1. r1 = Confirmed(r, state) /\ s1 = state
      BY <1>4 DEF SyncedRow, SyncedBot, After
    <2>2. EntriesPaused(r1) <=> EntriesPaused(r)
      <3> HIDE DEF r1
      <3>1. QED
        BY <2>1, SyncUpdates
    <2>3. /\ r1.managed = (r.managed /\ ~(state = "running" /\ ~EntriesPaused(r)))
          /\ state = "paused" => r1.pending = FALSE
      BY <1>1, <2>1 DEF Confirmed, Rows
    <2>4. IF EntriesPaused(r) THEN state = "paused"
          ELSE state = "running" \/ (state = "paused" /\ ~r.managed)
      BY <1>1, <1>4 DEF SyncCommand
    <2> HIDE DEF r1, s1, cmd
    <2>5. Agrees(r1, s1) /\ SyncCommand(r1, s1) = "none" /\ Confirmed(r1, s1) = r1
      BY <1>1, <2>1, <2>2, <2>3, <2>4 DEF Agrees, SyncCommand, Confirmed
    <2>6. QED
      BY <2>1, <2>5 DEF r1, s1
  <1>5. QED
    BY <1>2, <1>3, <1>4 DEF SyncCommand

(* A handler that reads a settled bot sends it nothing and leaves it        *)
(* settled, however many handlers and passes there are.                    *)
THEOREM SettledLeftAlone ==
    Spec => [][\A p \in Procs :
                  SyncDecide(p) /\ Settled /\ task[p].reply = bot => ~InCall(p)' /\ Settled']_vars
  <1>1. ASSUME TypeOK, Core, NEW p \in Procs, SyncDecide(p), Settled, task[p].reply = bot
        PROVE  ~InCall(p)' /\ Settled'
    <2>1. task[p].pc = "got" /\ row \in Rows /\ row.trading_enabled
      BY <1>1 DEF SyncDecide, TypeOK, Core, IntentHeld
    <2>2. bot \in Up
      <3>1. task[p].reply \in Up \cup Reasons \cup {"ok", "failed", "none"} /\ bot \in BotStates
        BY <1>1 DEF TypeOK, Tasks
      <3>2. QED
        BY <1>1, <3>1 DEF Up, Reasons, BotStates
    <2>3. Agrees(row, bot)
      BY <1>1, <2>1, <2>2 DEF Settled, Agrees
    <2>4. SyncCommand(row, bot) = "none"
      BY <2>2, <2>3 DEF Agrees, SyncCommand, Up
    <2>5. task'[p].pc = "idle" /\ row' = Confirmed(row, bot) /\ bot' = bot
      BY <1>1, <2>4 DEF SyncDecide, HandBack, Put, NoTask, TypeOK
    <2>6. SyncedRow(row, bot) = Confirmed(row, bot) /\ SyncedBot(row, bot) = bot
      BY <2>4 DEF SyncedRow, SyncedBot, After
    <2>7. Agrees(row', bot')
      BY <2>1, <2>2, <2>5, <2>6, OneSyncSettles
    <2>8. ~InCall(p)'
      BY <2>5 DEF InCall
    <2>9. Settled'
      BY <2>7 DEF Settled, Agrees, EntriesPaused, GuardPause
    <2>10. QED
      BY <2>8, <2>9
  <1>2. ASSUME TypeOK, Core, [Next]_vars
        PROVE  [\A p \in Procs :
                   SyncDecide(p) /\ Settled /\ task[p].reply = bot => ~InCall(p)' /\ Settled']_vars
    BY <1>1, <1>2
  <1>3. QED
    BY <1>2, TypeCorrect, CoreCorrect, PTL DEF Spec

=============================================================================
