------------------------- MODULE ProvisioningProofs -------------------------
(***************************************************************************)
(* Proofs about Provisioning, for any handlers, requests, keys, payloads,  *)
(* settings, limits and events.                                            *)
(***************************************************************************)
EXTENDS Provisioning, BotSettingsProofs

AtMostOne(S) == \A a, b \in S : a = b

ExchangeOps == {"set_exchange", "delete_exchange"}
LaunchOps == {"provision", "live", "dry"}

-----------------------------------------------------------------------------
(* What a handler works on, at every point of its way. *)

HandlerFields ==
    {"pc", "op", "copy", "blob", "dry_run", "keys", "basis", "seen", "creds", "launch", "alone"}

IsRecord(h) == h = [x \in HandlerFields |-> h[x]]

IsHandler(h) ==
    /\ IsRecord(h)
    /\ h.dry_run \in BOOLEAN /\ h.launch \in BOOLEAN /\ h.alone \in BOOLEAN
    /\ h.creds \in 0..MaxOps
    /\ h.keys \subseteq Keys /\ AtMostOne(h.keys) /\ AtMostOne(h.copy)

(* KeysVouchedFor, of a key and what it was stored on. *)
Vouched(keys, on) ==
    ValidateExchangeKeys =>
        \A k \in keys, b \in on : (b.told \/ ~b.forced) => k.known /\ k.can_trade /\ ~k.pem

(* The settings of the handler make the config.json its copy of the row     *)
(* makes.                                                                  *)
SameSettings(h) ==
    \A c \in h.copy :
        /\ \A keys : Rendered(h.dry_run, c.blob, keys) = Rendered(h.dry_run, h.blob, keys)
        /\ StrategyOf(Effective(c.blob)) = StrategyOf(Effective(h.blob))

(* Operation, phase and the session's copies agree. *)
Phase(h) ==
    /\ h.pc \in {"idle", "flush", "gate", "render", "write", "run", "remove", "commit"}
    /\ h.pc = "flush" => h.op \in ExchangeOps \cup {"update_config"}
    /\ h.pc \in {"gate", "render", "write", "run"} => h.launch
    /\ h.pc = "remove" => h.op = "delete_user"
    /\ h.op = "delete_user" => ~h.launch
    /\ h.op \in LaunchOps => h.launch
    /\ h.pc = "commit" => h.launch \/ h.op \in ExchangeOps \cup {"update_config", "delete_user"}
    /\ h.op = "update_config" => h.copy # {}

Copies(h) ==
    /\ h.op \in ExchangeOps /\ h.pc = "commit" /\ ~h.launch => h.copy = {}
    /\ h.op = "update_config" =>
          /\ \A c \in h.copy : c.dry_run = h.dry_run
          /\ ~h.launch => SameSettings(h)
    /\ h.launch /\ h.op # "update_config" /\ h.pc # "flush" => \A c \in h.copy : h.blob = c.blob

(* A live launch past the gate has a key and acceptable settings. *)
Gated(h) ==
    ~h.dry_run =>
        /\ h.pc \in {"render", "write"} => Acceptable(h.blob, FALSE)
        /\ h.pc \in {"render", "write", "run", "commit"} /\ h.launch => h.keys # {}

Local(h) ==
    /\ IsHandler(h) /\ Phase(h) /\ Copies(h) /\ Gated(h)
    /\ h.op \in ExchangeOps => Vouched(h.keys, h.basis)

(* n is h with another pc. *)
Moved(h, n, pc) ==
    /\ IsHandler(n) /\ n.pc = pc
    /\ n.op = h.op /\ n.copy = h.copy /\ n.blob = h.blob /\ n.dry_run = h.dry_run
    /\ n.keys = h.keys /\ n.basis = h.basis /\ n.seen = h.seen
    /\ n.creds = h.creds /\ n.launch = h.launch /\ n.alone = h.alone

LEMMA PcFacts ==
    ASSUME NEW h, IsHandler(h), NEW pc
    PROVE  Moved(h, [h EXCEPT !.pc = pc], pc)
  BY DEF IsHandler, IsRecord, HandlerFields, Moved, AtMostOne

(* The key is read on the way. *)
Keyed(h, n, pc, keys) ==
    /\ IsHandler(n) /\ n.pc = pc
    /\ n.op = h.op /\ n.copy = h.copy /\ n.blob = h.blob /\ n.dry_run = h.dry_run
    /\ n.keys = keys /\ n.basis = h.basis /\ n.seen = h.seen
    /\ n.creds = h.creds /\ n.launch = h.launch /\ n.alone = h.alone

LEMMA KeyedFacts ==
    ASSUME NEW h, IsHandler(h), NEW pc, NEW keys \in SUBSET Keys, AtMostOne(keys)
    PROVE  /\ Keyed(h, [h EXCEPT !.pc = pc, !.keys = keys], pc, keys)
           /\ Keyed(h, [h EXCEPT !.keys = keys], h.pc, keys)
           /\ Keyed(h, [[h EXCEPT !.keys = keys] EXCEPT !.pc = pc], pc, keys)
  <1>1. \A x \in {pc, h.pc} :
           Keyed(h, [h EXCEPT !.pc = x, !.keys = keys], x, keys)
    BY DEF IsHandler, IsRecord, HandlerFields, Keyed, AtMostOne
  <1>2. [h EXCEPT !.keys = keys] = [h EXCEPT !.pc = h.pc, !.keys = keys]
    BY DEF IsHandler, IsRecord, HandlerFields
  <1>3. [[h EXCEPT !.keys = keys] EXCEPT !.pc = pc] = [h EXCEPT !.pc = pc, !.keys = keys]
    BY DEF IsHandler, IsRecord, HandlerFields
  <1>4. QED
    BY <1>1, <1>2, <1>3

(* n does the same work as h. *)
SameWork(h, n) ==
    /\ n.pc = h.pc /\ n.op = h.op /\ n.copy = h.copy /\ n.blob = h.blob
    /\ n.dry_run = h.dry_run /\ n.keys = h.keys /\ n.basis = h.basis /\ n.launch = h.launch

LEMMA SameWorkLocal ==
    ASSUME NEW h, Local(h), NEW n, IsHandler(n), SameWork(h, n)
    PROVE  Local(n)
  BY DEF Local, Phase, Copies, Gated, SameSettings, SameWork

(* It is no longer alone. *)
LEMMA AloneFacts ==
    ASSUME NEW h, Local(h), NEW a \in BOOLEAN
    PROVE  /\ Local([h EXCEPT !.alone = a]) /\ SameWork(h, [h EXCEPT !.alone = a])
           /\ [h EXCEPT !.alone = a].alone = a
  <1> DEFINE n == [h EXCEPT !.alone = a]
  <1>1. IsHandler(n) /\ SameWork(h, n) /\ n.alone = a
    BY DEF Local, IsHandler, IsRecord, HandlerFields, SameWork
  <1> HIDE DEF n
  <1>2. Local(n)
    BY <1>1, SameWorkLocal
  <1>3. QED
    BY <1>1, <1>2 DEF n

LEMMA NoHandlerFacts ==
    /\ Local(NoHandler)
    /\ NoHandler.pc = "idle" /\ NoHandler.op = "none" /\ ~NoHandler.alone /\ ~NoHandler.launch
  <1>1. IsHandler(NoHandler)
    BY MaxOpsAssumption DEF NoHandler, IsHandler, IsRecord, HandlerFields, AtMostOne
  <1>2. /\ NoHandler.pc = "idle" /\ NoHandler.op = "none" /\ ~NoHandler.alone /\ ~NoHandler.launch
    BY DEF NoHandler
  <1>3. QED
    BY <1>1, <1>2 DEF Local, Phase, Copies, Gated, LaunchOps, ExchangeOps

-----------------------------------------------------------------------------
(* What an operation begins with. *)

LEMMA VouchedFacts ==
    ASSUME NEW key, NEW told \in BOOLEAN, NEW force \in BOOLEAN,
           ValidateExchangeKeys /\ (told \/ ~force) => key.known /\ key.can_trade /\ ~key.pem
    PROVE  Vouched({key}, {[told |-> told, forced |-> force]})
  BY DEF Vouched

(* A stored key that the exchange vouched for, or that nobody forced, is a  *)
(* good one.                                                               *)
LEMMA ProbeFacts ==
    ASSUME NEW key \in Keys, NEW force \in BOOLEAN, NEW a \in Answers(key.known, key.can_trade),
           Stored(Probed(key.pem, a), force)
    PROVE  Vouched({key}, {[told |-> ~key.pem /\ a \notin Opaque, forced |-> force]})
  <1>1. key.known \in BOOLEAN /\ key.can_trade \in BOOLEAN /\ key.pem \in BOOLEAN
    BY KeysAssumption
  <1>2. SUFFICES ASSUME ValidateExchangeKeys, (~key.pem /\ a \notin Opaque) \/ ~force
                 PROVE  key.known /\ key.can_trade /\ ~key.pem
    BY VouchedFacts
  <1>3. Probed(key.pem, a) = "verified" \/ (Probed(key.pem, a) = "unavailable" /\ force)
    BY <1>2 DEF Stored
  <1>4. ~key.pem
    BY <1>2, <1>3 DEF Probed
  <1>5. Probed(key.pem, a) = Classified(a)
    BY <1>4 DEF Probed
  <1>6. CASE a \in Opaque
    <2>1. Classified(a) = "unavailable"
      BY <1>6 DEF Opaque, NoAnswer, Answer, Classified, InvalidKeyCodes
    <2>2. QED
      BY <1>2, <1>3, <1>5, <1>6, <2>1
  <1>7. CASE a \notin Opaque
    <2>1. CASE key.known
      <3>1. a = Answer(200, 0, key.can_trade)
        BY <1>7, <2>1 DEF Answers
      <3>2. QED
        BY <1>1, <1>3, <1>4, <1>5, <2>1, <3>1 DEF Answer, Classified
    <2>2. CASE ~key.known
      <3>1. PICK c \in InvalidKeyCodes : a = Answer(401, c, FALSE)
        BY <1>7, <2>2 DEF Answers
      <3>2. Classified(a) = "invalid"
        BY <3>1 DEF Answer, Classified
      <3>3. QED
        BY <1>3, <1>5, <3>2
    <2>3. QED
      BY <2>1, <2>2
  <1>8. QED
    BY <1>6, <1>7

RowTypes == AtMostOne(row) /\ \A r \in row : r.dry_run \in BOOLEAN /\ r.creds \in 0..MaxOps

LEMMA LoadedFacts ==
    ASSUME RowTypes, NEW op, NEW dry_run \in BOOLEAN
    PROVE  LET h == Loaded(op, dry_run) IN
           /\ IsHandler(h) /\ h.pc = "gate" /\ h.op = op /\ h.copy = row /\ h.launch
           /\ h.dry_run = dry_run /\ h.keys = {} /\ h.basis = {}
           /\ \A r \in row : h.blob = r.blob
           /\ row = {} => h.blob = NoHandler.blob
  <1> DEFINE b == IF row = {} THEN [k \in {} |-> 0] ELSE (CHOOSE r \in row : TRUE).blob
             h == [NoHandler EXCEPT !.pc = "gate", !.op = op, !.copy = row, !.launch = TRUE,
                                    !.blob = b, !.dry_run = dry_run]
  <1>1. IsHandler(NoHandler) /\ NoHandler.blob = [k \in {} |-> 0]
        /\ NoHandler.keys = {} /\ NoHandler.basis = {}
    BY NoHandlerFacts DEF Local, NoHandler
  <1>2. Loaded(op, dry_run) = h
    BY <1>1 DEF Loaded
  <1>3. ASSUME NEW r \in row
        PROVE  b = r.blob
    <2>1. (CHOOSE x \in row : TRUE) \in row
      BY <1>3, Zenon
    <2>2. QED
      BY <1>3, <2>1 DEF RowTypes, AtMostOne
  <1>e. row = {} => b = NoHandler.blob
    BY <1>1
  <1> HIDE DEF b
  <1>4. /\ IsHandler(h) /\ h.pc = "gate" /\ h.op = op /\ h.copy = row /\ h.launch
        /\ h.dry_run = dry_run /\ h.keys = {} /\ h.basis = {} /\ h.blob = b
    BY <1>1 DEF IsHandler, IsRecord, HandlerFields, RowTypes
  <1>5. QED
    BY <1>2, <1>3, <1>4, <1>e

(* The settings of config.json: all but tradingview_guard_enabled. *)
LEMMA SameConfig ==
    ASSUME NEW c, NEW d, \A k \in Fields \ {"tradingview_guard_enabled"} : c[k] = d[k],
           NEW exchange, NEW dry_run
    PROVE  /\ BuildBotConfig(exchange, dry_run, c) = BuildBotConfig(exchange, dry_run, d)
           /\ StrategyOf(c) = StrategyOf(d)
  <1>1. /\ c.strategy = d.strategy /\ c.pairlist_mode = d.pairlist_mode /\ c.pairs = d.pairs
        /\ c.volume_number_assets = d.volume_number_assets /\ c.stake_amount = d.stake_amount
        /\ c.max_open_trades = d.max_open_trades /\ c.stoploss = d.stoploss
        /\ c.roi_table = d.roi_table /\ c.timeframe = d.timeframe
        /\ c.trailing_stop = d.trailing_stop
        /\ c.trailing_stop_positive = d.trailing_stop_positive
        /\ c.trailing_stop_positive_offset = d.trailing_stop_positive_offset
        /\ c.dry_run_wallet = d.dry_run_wallet
    BY DEF Fields, Defaults
  <1>2. QED
    BY <1>1 DEF BuildBotConfig, StrategyOf

(* Where the settings a handler works on come from. *)
FromSettings(b) ==
    \/ b = NoHandler.blob
    \/ \E r \in row : b = r.blob
    \/ \E r \in row, payload \in Payloads :
          LET merged == Overlaid(Effective(r.blob), payload)
          IN Acceptable(merged, r.dry_run) /\ b = Normalised(merged)

(* A handler that is about to begin. *)
Begun(h) ==
    /\ FromSettings(h.blob)
    /\ Local(h) /\ h.pc \in {"flush", "gate", "remove", "commit"}
    /\ h.op \in ExchangeOps => h.pc = "flush"
    /\ h.op \notin ExchangeOps => h.copy = row
    /\ h.pc = "gate" => h.launch
    /\ h.pc = "commit" => ~h.launch /\ (h.op = "delete_user" => h.copy = {})
    /\ h.op = "update_config" => \A u \in Handlers : handler[u].op # "update_config"

LEMMA BegunLaunch ==
    ASSUME RowTypes, NEW op \in LaunchOps, NEW dry_run \in BOOLEAN
    PROVE  Begun(Loaded(op, dry_run))
  <1> DEFINE h == Loaded(op, dry_run)
  <1>1. /\ IsHandler(h) /\ h.pc = "gate" /\ h.op = op /\ h.copy = row /\ h.launch
        /\ \A r \in row : h.blob = r.blob
        /\ row = {} => h.blob = NoHandler.blob
    BY LoadedFacts
  <1> HIDE DEF h
  <1>2. op \notin ExchangeOps /\ op # "update_config" /\ op # "delete_user"
    BY DEF LaunchOps, ExchangeOps
  <1>3. FromSettings(h.blob)
    BY <1>1 DEF FromSettings
  <1>4. Begun(h)
    BY <1>1, <1>2, <1>3 DEF Begun, Local, Phase, Copies, Gated
  <1>5. QED
    BY <1>4 DEF h

LEMMA BegunExchange ==
    ASSUME RowTypes, NEW op \in ExchangeOps, NEW h, IsHandler(h), h.pc = "flush", h.op = op,
           Vouched(h.keys, h.basis), h.blob = NoHandler.blob
    PROVE  Begun(h)
  <1>0. FromSettings(h.blob)
    BY DEF FromSettings
  <1>1. op \notin LaunchOps /\ op # "update_config" /\ op # "delete_user"
    BY DEF LaunchOps, ExchangeOps
  <1>2. QED
    BY <1>0, <1>1 DEF Begun, Local, Phase, Copies, Gated

LEMMA BegunConfig ==
    ASSUME RowTypes, NEW t \in Handlers, NEW payload \in Payloads, BeginUpdateConfig(t, payload)
    PROVE  \E h : Starts(t, h) /\ Begun(h)
  <1>1. PICK r \in row :
          LET current == Effective(r.blob)
              merged == Overlaid(current, payload)
              validated == Normalised(merged)
              changed == {k \in Fields : current[k] # validated[k]}
              launch == changed \ {"tradingview_guard_enabled"} # {}
              audited == "tradingview_guard_enabled" \in changed
          IN /\ Acceptable(merged, r.dry_run)
             /\ Starts(t, [Loaded("update_config", r.dry_run) EXCEPT
                              !.blob = validated, !.launch = launch,
                              !.pc = IF audited THEN "flush"
                                     ELSE IF launch THEN "gate" ELSE "commit"])
    BY DEF BeginUpdateConfig
  <1> DEFINE current == Effective(r.blob)
             validated == Normalised(Overlaid(current, payload))
             changed == {k \in Fields : current[k] # validated[k]}
             launch == changed \ {"tradingview_guard_enabled"} # {}
             audited == "tradingview_guard_enabled" \in changed
             pc == IF audited THEN "flush" ELSE IF launch THEN "gate" ELSE "commit"
             m == Loaded("update_config", r.dry_run)
             h == [m EXCEPT !.blob = validated, !.launch = launch, !.pc = pc]
  <1>2. Starts(t, h)
    BY <1>1
  <1>3. /\ IsHandler(m) /\ m.op = "update_config" /\ m.copy = row /\ m.dry_run = r.dry_run
    BY LoadedFacts DEF RowTypes
  <1>4. ~launch => \A k \in Fields \ {"tradingview_guard_enabled"} : current[k] = validated[k]
    OBVIOUS
  <1>5. Effective(validated) = validated
    BY NormalisedFacts
  <1>6. ~launch => /\ StrategyOf(current) = StrategyOf(Effective(validated))
                   /\ \A keys : Rendered(r.dry_run, r.blob, keys) = Rendered(r.dry_run, validated, keys)
    BY <1>4, <1>5, SameConfig DEF Rendered
  <1>7. launch \in BOOLEAN /\ pc \in {"flush", "gate", "commit"}
        /\ (pc = "gate" => launch) /\ (pc = "commit" => ~launch)
    OBVIOUS
  <1>8. \A u \in Handlers : handler[u].op # "update_config"
    BY DEF BeginUpdateConfig
  <1>a. FromSettings(validated)
    BY <1>1 DEF FromSettings
  <1> HIDE DEF launch, pc, validated, m
  <1>9. /\ IsHandler(h) /\ h.op = "update_config" /\ h.copy = row /\ h.dry_run = r.dry_run
        /\ h.blob = validated /\ h.launch = launch /\ h.pc = pc
    BY <1>3, <1>7 DEF IsHandler, IsRecord, HandlerFields
  <1> HIDE DEF h, current
  <1>10. \A c \in row : c = r
    BY DEF RowTypes, AtMostOne
  <1>11. ~launch => SameSettings(h)
    BY <1>6, <1>9, <1>10 DEF SameSettings, current
  <1>12. Begun(h)
    BY <1>7, <1>8, <1>9, <1>10, <1>11, <1>a
    DEF Begun, Local, Phase, Copies, Gated, ExchangeOps, LaunchOps
  <1>13. QED
    BY <1>2, <1>12

LEMMA BeginFacts ==
    ASSUME RowTypes, NEW t \in Handlers, Begin(t)
    PROVE  MayBegin(t) /\ \E h : Starts(t, h) /\ Begun(h)
  <1>m. MayBegin(t)
    BY DEF Begin
  <1> SUFFICES \E h : Starts(t, h) /\ Begun(h)
    BY <1>m
  <1>0. IsHandler(NoHandler)
    BY NoHandlerFacts DEF Local
  <1>1. StoredMode \in BOOLEAN
    BY DEF StoredMode
  <1>2. CASE BeginProvision(t) \/ BeginRotate(t)
    BY <1>1, <1>2, BegunLaunch DEF BeginRotate, BeginProvision, LaunchOps
  <1>3. ASSUME NEW op \in Ops \cap {"live", "dry"}, BeginMode(t, op)
        PROVE  \E h : Starts(t, h) /\ Begun(h)
    <2>1. Begun(Loaded(op, op = "dry"))
      BY BegunLaunch DEF LaunchOps
    <2>2. QED
      BY <1>3, <2>1 DEF BeginMode
  <1>4. ASSUME NEW key \in Keys, NEW force \in BOOLEAN, BeginSetExchange(t, key, force)
        PROVE  \E h : Starts(t, h) /\ Begun(h)
    <2>1. PICK a \in Answers(key.known, key.can_trade) :
             /\ Stored(Probed(key.pem, a), force)
             /\ Starts(t, [NoHandler EXCEPT !.pc = "flush", !.op = "set_exchange",
                                       !.keys = {key}, !.seen = exch,
                                       !.basis = {[told |-> ~key.pem /\ a \notin Opaque,
                                                   forced |-> force]}])
      BY <1>4 DEF BeginSetExchange
    <2> DEFINE on == {[told |-> ~key.pem /\ a \notin Opaque, forced |-> force]}
               h == [NoHandler EXCEPT !.pc = "flush", !.op = "set_exchange",
                                      !.keys = {key}, !.seen = exch, !.basis = on]
    <2>2. Vouched({key}, on)
      BY <2>1, ProbeFacts
    <2>3. Starts(t, h)
      BY <2>1
    <2> HIDE DEF on
    <2>4. /\ IsHandler(h) /\ h.pc = "flush" /\ h.op = "set_exchange"
          /\ h.keys = {key} /\ h.basis = on /\ h.blob = NoHandler.blob
      BY <1>0 DEF IsHandler, IsRecord, HandlerFields, AtMostOne
    <2> HIDE DEF h
    <2>5. QED
      BY <2>2, <2>3, <2>4, BegunExchange DEF ExchangeOps
  <1>5. CASE BeginDeleteExchange(t)
    <2> DEFINE h == [NoHandler EXCEPT !.pc = "flush", !.op = "delete_exchange", !.seen = exch]
    <2>1. /\ IsHandler(h) /\ h.pc = "flush" /\ h.op = "delete_exchange" /\ h.keys = NoHandler.keys
          /\ h.blob = NoHandler.blob
      BY <1>0 DEF IsHandler, IsRecord, HandlerFields
    <2>2. Starts(t, h)
      BY <1>5 DEF BeginDeleteExchange
    <2> HIDE DEF h
    <2>3. Vouched(h.keys, h.basis)
      BY <2>1 DEF NoHandler, Vouched
    <2>4. QED
      BY <2>1, <2>2, <2>3, BegunExchange DEF ExchangeOps
  <1>6. CASE BeginDeleteUser(t)
    <2> DEFINE pc == IF row = {} THEN "commit" ELSE "remove"
               h == [NoHandler EXCEPT !.pc = pc, !.op = "delete_user", !.copy = row]
    <2>1. Starts(t, h)
      BY <1>6 DEF BeginDeleteUser
    <2>2. pc \in {"commit", "remove"} /\ (pc = "commit" => row = {})
      OBVIOUS
    <2> HIDE DEF pc
    <2>3. /\ IsHandler(h) /\ h.pc = pc /\ h.op = "delete_user" /\ h.copy = row
          /\ h.launch = NoHandler.launch /\ h.blob = NoHandler.blob
      BY <1>0 DEF IsHandler, IsRecord, HandlerFields, RowTypes
    <2> HIDE DEF h
    <2>4. Begun(h)
      BY <2>2, <2>3, NoHandlerFacts
      DEF Begun, FromSettings, Local, Phase, Copies, Gated, ExchangeOps, LaunchOps
    <2>5. QED
      BY <2>1, <2>4
  <1>7. ASSUME NEW payload \in Payloads, BeginUpdateConfig(t, payload)
        PROVE  \E h : Starts(t, h) /\ Begun(h)
    BY <1>7, BegunConfig
  <1>8. QED
    BY <1>2, <1>3, <1>4, <1>5, <1>6, <1>7 DEF Begin

-----------------------------------------------------------------------------
(* Types, and what each handler works on. *)

RequestStates ==
    [pc : {"idle", "login", "token", "call", "refused", "done"},
     creds : 0..MaxOps, tok : -1..MaxOps, retried : BOOLEAN,
     answer : {"none", "ok", "error", "refused"}, fresh : BOOLEAN]

HandlerTypes ==
    /\ handler = [t \in Handlers |-> handler[t]]
    /\ \A t \in Handlers : Local(handler[t])

DataTypes ==
    /\ RowTypes
    /\ exch \subseteq Keys /\ AtMostOne(exch)
    /\ AtMostOne(file) /\ AtMostOne(container)
    /\ writer \in Handlers \cup {NoOne}
    /\ token \subseteq -1..MaxOps /\ AtMostOne(token)
    /\ request \in [Requests -> RequestStates]
    /\ ops \in 0..MaxOps
    /\ settled \in BOOLEAN /\ user \in BOOLEAN /\ spoilt \in BOOLEAN
    /\ quota \in {MaxOps, MaxOpsServed}

Types == HandlerTypes /\ DataTypes

(* The handler's record after a step of t alone. *)
Becomes(t, n) ==
    /\ handler'[t] = n
    /\ \A u \in Handlers \ {t} : handler'[u] = handler[u]

LEMMA Replaced ==
    ASSUME HandlerTypes, NEW t \in Handlers, NEW n, handler' = [handler EXCEPT ![t] = n]
    PROVE  Becomes(t, n) /\ (Local(n) => HandlerTypes')
  <1>1. Becomes(t, n)
    BY DEF HandlerTypes, Becomes
  <1>2. ASSUME Local(n)
        PROVE  HandlerTypes'
    <2>1. handler' = [u \in Handlers |-> handler'[u]]
      BY DEF HandlerTypes
    <2>2. QED
      BY <1>1, <1>2, <2>1 DEF HandlerTypes, Becomes
  <1>3. QED
    BY <1>1, <1>2

(* A handler that ends, whatever its end. *)
Ending(t) ==
    FlushFails(t) \/ LockTimeout(t) \/ GateRefuses(t) \/ DockerFails(t) \/ Commit(t) \/ CommitFails(t)

LEMMA EndFacts ==
    ASSUME HandlerTypes, NEW t \in Handlers, Ending(t)
    PROVE  /\ HandlerTypes' /\ Becomes(t, NoHandler)
           /\ handler[t].pc # "idle"
           /\ writer' = IF writer = t THEN NoOne ELSE writer
  <1>1. /\ handler' = [handler EXCEPT ![t] = NoHandler]
        /\ writer' = IF writer = t THEN NoOne ELSE writer
        /\ handler[t].pc # "idle"
    <2>1. CASE FlushFails(t)
      BY <2>1 DEF FlushFails, Fails, Rollback
    <2>2. CASE LockTimeout(t)
      BY <2>2 DEF LockTimeout, Fails, Rollback
    <2>3. CASE GateRefuses(t)
      <3>1. [handler[t] EXCEPT !.keys = KeysOf(handler[t])].pc = handler[t].pc
        BY DEF HandlerTypes, Local, IsHandler, IsRecord, HandlerFields
      <3>2. QED
        BY <2>3, <3>1 DEF GateRefuses, Fails, Rollback
    <2>4. CASE DockerFails(t)
      BY <2>4 DEF DockerFails, Rollback
    <2>5. CASE Commit(t)
      BY <2>5 DEF Commit, Rollback
    <2>6. CASE CommitFails(t)
      BY <2>6 DEF CommitFails, Fails, Rollback
    <2>7. QED
      BY <2>1, <2>2, <2>3, <2>4, <2>5, <2>6 DEF Ending
  <1>2. QED
    BY <1>1, Replaced, NoHandlerFacts

LEMMA KeysOfFacts ==
    ASSUME DataTypes, NEW h, IsHandler(h)
    PROVE  KeysOf(h) \in SUBSET Keys /\ AtMostOne(KeysOf(h))
  BY DEF KeysOf, DataTypes, IsHandler

(* n works on the settings of h, or on the stored ones. *)
ReadsBlob(h, n) ==
    n.blob = h.blob \/ n.blob = NoHandler.blob \/ \E r \in row : n.blob = r.blob

(* The first flush of a handler that changes the key: it loads the row. *)
LEMMA FlushFacts ==
    ASSUME Types, NEW t \in Handlers, Flush(t)
    PROVE  /\ HandlerTypes'
           /\ \E n :
                 /\ Becomes(t, n)
                 /\ n.op = handler[t].op /\ n.alone = handler[t].alone
                 /\ n.pc \in {"gate", "commit"} /\ (n.pc = "commit" => ~n.launch)
                 /\ n.copy = IF n.op = "update_config" THEN handler[t].copy ELSE row
                 /\ ReadsBlob(handler[t], n)
  <1> DEFINE h == handler[t]
  <1>1. Local(h)
    BY DEF Types, HandlerTypes
  <1>2. CASE h.op = "update_config"
    <2> DEFINE pc == IF h.launch THEN "gate" ELSE "commit"
               n == [h EXCEPT !.pc = pc]
    <2>1. handler' = [handler EXCEPT ![t] = n]
      BY <1>2 DEF Flush
    <2>2. Moved(h, n, pc)
      BY <1>1, PcFacts DEF Local
    <2>3. pc \in {"gate", "commit"} /\ (pc = "gate" <=> h.launch)
      BY <1>1 DEF Local, IsHandler
    <2> HIDE DEF n, pc
    <2>4. Local(n)
      <3>1. SameSettings(h) <=> SameSettings(n)
        BY <2>2 DEF Moved, SameSettings
      <3>2. IsHandler(n) /\ n.op \notin ExchangeOps
        BY <1>2, <2>2 DEF Moved, ExchangeOps
      <3>3. Copies(n)
        BY <1>1, <1>2, <2>2, <3>1, <3>2 DEF Local, Moved, Copies
      <3>4. Phase(n)
        BY <1>1, <1>2, <2>2, <2>3 DEF Local, Moved, Phase, LaunchOps
      <3>5. h.pc = "flush"
        BY DEF Flush
      <3>6. Gated(n)
        BY <1>1, <2>2, <2>3, <3>5 DEF Local, Moved, Gated
      <3>7. QED
        BY <3>2, <3>3, <3>4, <3>6 DEF Local
    <2>5. Becomes(t, n) /\ HandlerTypes'
      BY <2>1, <2>4, Replaced DEF Types
    <2>6. ReadsBlob(h, n)
      BY <2>2 DEF Moved, ReadsBlob
    <2>7. QED
      BY <1>2, <2>2, <2>3, <2>5, <2>6 DEF Moved
  <1>3. CASE h.op # "update_config"
    <2> DEFINE dry == h.op = "delete_exchange" \/ StoredMode
               m == Loaded(h.op, dry)
               pc == IF row = {} THEN "commit" ELSE "gate"
               n == [m EXCEPT !.pc = pc, !.launch = row # {},
                              !.keys = h.keys, !.basis = h.basis, !.creds = h.creds, !.alone = h.alone]
    <2>1. handler' = [handler EXCEPT ![t] = n]
      BY <1>3 DEF Flush
    <2>2. /\ IsHandler(m) /\ m.op = h.op /\ m.copy = row /\ \A r \in row : m.blob = r.blob
          /\ row = {} => m.blob = NoHandler.blob
      <3>1. dry \in BOOLEAN
        BY DEF StoredMode
      <3> HIDE DEF dry
      <3>2. QED
        BY <3>1, LoadedFacts DEF Types, DataTypes
    <2>3. pc \in {"gate", "commit"} /\ (pc = "gate" <=> row # {})
      OBVIOUS
    <2>4. h.op \in ExchangeOps
      BY <1>1, <1>3 DEF Local, Phase, Flush
    <2> HIDE DEF m, pc
    <2>5. /\ IsHandler(n) /\ n.pc = pc /\ n.op = h.op /\ n.copy = row /\ n.launch = (row # {})
          /\ n.keys = h.keys /\ n.basis = h.basis /\ n.alone = h.alone /\ n.blob = m.blob
      BY <1>1, <2>2 DEF Local, IsHandler, IsRecord, HandlerFields
    <2> HIDE DEF n
    <2>6. Local(n)
      BY <1>1, <1>3, <2>2, <2>3, <2>4, <2>5
      DEF Local, Phase, Copies, Gated, ExchangeOps, LaunchOps
    <2>7. Becomes(t, n) /\ HandlerTypes'
      BY <2>1, <2>6, Replaced DEF Types
    <2>8. ReadsBlob(h, n)
      BY <2>2, <2>5 DEF ReadsBlob
    <2>9. QED
      BY <1>3, <2>3, <2>5, <2>7, <2>8
  <1>4. QED
    BY <1>2, <1>3

(* The gate and the rendering, which read the stored key. *)
LEMMA GateFacts ==
    ASSUME Types, NEW t \in Handlers, Gate(t)
    PROVE  /\ HandlerTypes'
           /\ \E n : Becomes(t, n) /\ Keyed(handler[t], n, "render", KeysOf(handler[t]))
  <1> DEFINE h == handler[t]
             keys == KeysOf(h)
             m == [h EXCEPT !.keys = keys]
             n == [m EXCEPT !.pc = "render"]
  <1>1. Local(h)
    BY DEF Types, HandlerTypes
  <1>2. keys \in SUBSET Keys /\ AtMostOne(keys)
    BY <1>1, KeysOfFacts DEF Types, Local
  <1>3. h.op \in ExchangeOps => keys = h.keys
    BY DEF KeysOf, ExchangeOps
  <1> HIDE DEF keys
  <1>4. Keyed(h, m, h.pc, keys) /\ Keyed(h, n, "render", keys)
    BY <1>1, <1>2, KeyedFacts DEF Local
  <1>5. m.pc = "gate" /\ GatePasses(m) /\ handler' = [handler EXCEPT ![t] = n]
    BY DEF Gate, keys
  <1> HIDE DEF m, n
  <1>6. Local(n)
    BY <1>1, <1>3, <1>4, <1>5
    DEF Local, Keyed, Phase, Copies, Gated, GatePasses, SameSettings, ExchangeOps, LaunchOps
  <1>7. QED
    BY <1>4, <1>5, <1>6, Replaced DEF Types, keys

LEMMA RenderFacts ==
    ASSUME Types, NEW t \in Handlers, Render(t)
    PROVE  /\ HandlerTypes'
           /\ \E n, keys :
                 /\ Becomes(t, n) /\ Keyed(handler[t], n, "write", keys)
                 /\ keys = IF handler[t].dry_run THEN KeysOf(handler[t]) ELSE handler[t].keys
  <1> DEFINE h == handler[t]
             keys == IF h.dry_run THEN KeysOf(h) ELSE h.keys
             n == [h EXCEPT !.pc = "write", !.keys = keys]
  <1>1. Local(h) /\ h.pc = "render"
    BY DEF Types, HandlerTypes, Render
  <1>2. keys \in SUBSET Keys /\ AtMostOne(keys)
    BY <1>1, KeysOfFacts DEF Types, Local, IsHandler
  <1>3. h.op \in ExchangeOps \/ ~h.dry_run => keys = h.keys
    BY DEF KeysOf, ExchangeOps
  <1>4. handler' = [handler EXCEPT ![t] = n]
    BY DEF Render
  <1> HIDE DEF keys
  <1>5. Keyed(h, n, "write", keys)
    BY <1>1, <1>2, KeyedFacts DEF Local
  <1> HIDE DEF n
  <1>6. Local(n)
    BY <1>1, <1>3, <1>5
    DEF Local, Keyed, Phase, Copies, Gated, SameSettings, ExchangeOps, LaunchOps
  <1>7. Becomes(t, n) /\ HandlerTypes'
    BY <1>4, <1>6, Replaced DEF Types
  <1>8. QED
    BY <1>5, <1>7 DEF keys

(* config.json is then the handler's, or nothing that can be read. *)
LEMMA WriteFacts ==
    ASSUME Types, NEW t \in Handlers, Write(t)
    PROVE  LET h == handler[t] IN
           /\ HandlerTypes' /\ \E n : Becomes(t, n) /\ Moved(h, n, "run")
           /\ file' \in {{Rendered(h.dry_run, h.blob, h.keys)}, {}}
           /\ ~spoilt => file' = {Rendered(h.dry_run, h.blob, h.keys)}
  <1> DEFINE h == handler[t]
             n == [h EXCEPT !.pc = "run"]
  <1>1. Local(h) /\ h.pc = "write"
    BY DEF Types, HandlerTypes, Write
  <1>2. handler' = [handler EXCEPT ![t] = n] /\ file' \in Writes(h)
    BY DEF Write
  <1>3. Moved(h, n, "run")
    BY <1>1, PcFacts DEF Local
  <1> HIDE DEF n
  <1>4. Local(n)
    BY <1>1, <1>3
    DEF Local, Moved, Phase, Copies, Gated, SameSettings, ExchangeOps, LaunchOps
  <1>5. Becomes(t, n) /\ HandlerTypes'
    BY <1>2, <1>4, Replaced DEF Types
  <1>6. /\ file' \in {{Rendered(h.dry_run, h.blob, h.keys)}, {}}
        /\ ~spoilt => file' = {Rendered(h.dry_run, h.blob, h.keys)}
    BY <1>2 DEF Writes
  <1>7. QED
    BY <1>3, <1>5, <1>6

(* The container is replaced or removed. *)
LEMMA RunFacts ==
    ASSUME Types, NEW t \in Handlers, Run(t) \/ RemoveContainer(t)
    PROVE  HandlerTypes' /\ \E n : Becomes(t, n) /\ Moved(handler[t], n, "commit")
  <1> DEFINE h == handler[t]
             n == [h EXCEPT !.pc = "commit"]
  <1>1. Local(h) /\ h.pc \in {"run", "remove"}
    BY DEF Types, HandlerTypes, Run, RemoveContainer
  <1>2. handler' = [handler EXCEPT ![t] = n]
    BY DEF Run, RemoveContainer
  <1>3. Moved(h, n, "commit")
    BY <1>1, PcFacts DEF Local
  <1> HIDE DEF n
  <1>4. Local(n)
    BY <1>1, <1>3
    DEF Local, Moved, Phase, Copies, Gated, SameSettings, ExchangeOps, LaunchOps
  <1>5. QED
    BY <1>2, <1>3, <1>4, Replaced DEF Types

LEMMA MoreOps ==
    ASSUME DataTypes, NEW t, NEW h, MayBegin(t), Starts(t, h)
    PROVE  ops' = ops + 1 /\ ops' \in 0..MaxOps
  <1>1. ops < quota /\ ops' = ops + 1
    BY DEF MayBegin, Starts
  <1>2. ops \in Nat /\ quota \in Nat /\ quota <= MaxOps
    BY MaxOpsAssumption DEF DataTypes
  <1>3. QED
    BY <1>1, <1>2, MaxOpsAssumption

LEMMA StartFacts ==
    ASSUME Types, NEW t \in Handlers, NEW h, MayBegin(t), Starts(t, h), Local(h)
    PROVE  /\ HandlerTypes'
           /\ handler[t].pc = "idle"
           /\ SameWork(h, handler'[t]) /\ handler'[t].alone = (Busy = {})
           /\ handler'[t].creds = ops'
           /\ \A u \in Handlers \ {t} :
                 SameWork(handler[u], handler'[u]) /\ handler'[u].alone = FALSE
  <1>1. ops + 1 \in 0..MaxOps /\ ops' = ops + 1
    BY MoreOps DEF Types
  <1> DEFINE a == Busy = {}
             n == [h EXCEPT !.alone = a, !.creds = ops + 1]
             k(u) == [handler[u] EXCEPT !.alone = FALSE]
  <1>2. a \in BOOLEAN
    OBVIOUS
  <1> HIDE DEF a
  <1> DEFINE c == ops + 1
  <1>3. Local(n) /\ SameWork(h, n) /\ n.alone = a /\ n.creds = c
    <2>1. c \in 0..MaxOps
      BY <1>1
    <2> HIDE DEF c
    <2>2. IsHandler(n) /\ SameWork(h, n) /\ n.alone = a /\ n.creds = c
      <3>1. n = [h EXCEPT !.alone = a, !.creds = c]
        BY DEF c
      <3>2. QED
        BY <1>2, <2>1, <3>1 DEF Local, IsHandler, IsRecord, HandlerFields, SameWork
    <2> HIDE DEF n
    <2>3. QED
      BY <2>2, SameWorkLocal DEF c
  <1>4. ASSUME NEW u \in Handlers
        PROVE  Local(k(u)) /\ SameWork(handler[u], k(u)) /\ k(u).alone = FALSE
    <2>1. Local(handler[u])
      BY DEF Types, HandlerTypes
    <2>2. QED
      BY <2>1, AloneFacts
  <1>5. handler' = [u \in Handlers |-> IF u = t THEN n ELSE k(u)]
    BY DEF Starts, a
  <1>6. handler[t].pc = "idle"
    BY DEF MayBegin, Idle
  <1> HIDE DEF n, k
  <1>7. /\ handler'[t] = n /\ \A u \in Handlers \ {t} : handler'[u] = k(u)
        /\ handler' = [u \in Handlers |-> handler'[u]]
    BY <1>5
  <1>8. HandlerTypes'
    <2>1. \A u \in Handlers : Local(handler'[u])
      BY <1>3, <1>4, <1>7
    <2>2. QED
      BY <1>7, <2>1 DEF HandlerTypes
  <1>9. QED
    BY <1>1, <1>3, <1>4, <1>6, <1>7, <1>8 DEF a

-----------------------------------------------------------------------------
(* The types are kept. *)

LEMMA UnfreshFacts ==
    ASSUME request \in [Requests -> RequestStates]
    PROVE  Unfresh(request) \in [Requests -> RequestStates]
  BY DEF Unfresh, RequestStates

LEMMA BeginTypes ==
    ASSUME Types, NEW t \in Handlers, Begin(t)
    PROVE  Types'
  <1>1. PICK h : MayBegin(t) /\ Starts(t, h) /\ Begun(h)
    BY BeginFacts DEF Types, DataTypes
  <1>2. HandlerTypes'
    BY <1>1, StartFacts DEF Begun
  <1>3. ops' \in 0..MaxOps
    BY <1>1, MoreOps DEF Types
  <1>4. DataTypes'
    BY <1>1, <1>3 DEF Starts, Types, DataTypes, RowTypes
  <1>5. QED
    BY <1>2, <1>4 DEF Types

LEMMA WrittenFacts ==
    ASSUME RowTypes, NEW h, IsHandler(h)
    PROVE  /\ AtMostOne(Written(h))
           /\ \A r \in Written(h) : r.dry_run \in BOOLEAN /\ r.creds \in 0..MaxOps
  <1>1. CASE h.copy = {}
    BY <1>1 DEF Written, IsHandler, AtMostOne
  <1>2. CASE h.copy # {}
    <2> DEFINE dry(r) == IF \E c \in h.copy : c.dry_run = h.dry_run THEN r.dry_run ELSE h.dry_run
               blob(r) == IF h.op = "update_config" THEN h.blob ELSE r.blob
               creds(r) == IF h.launch THEN h.creds ELSE r.creds
    <2>1. Written(h) = {[dry_run |-> dry(r), blob |-> blob(r), creds |-> creds(r)] : r \in row}
      BY <1>2 DEF Written
    <2>2. \A r \in row : dry(r) \in BOOLEAN /\ creds(r) \in 0..MaxOps
      BY DEF RowTypes, IsHandler
    <2> HIDE DEF dry, blob, creds
    <2>3. QED
      BY <2>1, <2>2 DEF RowTypes, AtMostOne
  <1>3. QED
    BY <1>1, <1>2

LEMMA CommitTypes ==
    ASSUME Types, NEW t \in Handlers, Commit(t)
    PROVE  DataTypes'
  <1> DEFINE h == handler[t]
  <1>1. Local(h)
    BY DEF Types, HandlerTypes
  <1>2. RowTypes'
    <2>1. row' \in {Written(h), {}, row}
      BY DEF Commit
    <2>2. QED
      BY <1>1, <2>1, WrittenFacts DEF RowTypes, Types, DataTypes, Local, AtMostOne
  <1>3. exch' \subseteq Keys /\ AtMostOne(exch')
    BY <1>1 DEF Commit, Types, DataTypes, Local, IsHandler, AtMostOne
  <1>4. writer' \in Handlers \cup {NoOne}
    BY DEF Commit, Rollback, Types, DataTypes
  <1>5. token' \subseteq -1..MaxOps /\ AtMostOne(token')
    BY DEF Commit, Invalidated, Types, DataTypes, AtMostOne
  <1>6. settled' \in BOOLEAN /\ user' \in BOOLEAN
    BY DEF Commit
  <1>7. QED
    BY <1>2, <1>3, <1>4, <1>5, <1>6 DEF Commit, Invalidated, Types, DataTypes

LEMMA StepTypes ==
    ASSUME Types, NEW t \in Handlers, Step(t)
    PROVE  Types'
  <1>0. Unfresh(request) \in [Requests -> RequestStates]
    BY UnfreshFacts DEF Types, DataTypes
  <1>1. CASE Flush(t)
    <2>1. DataTypes'
      BY <1>1 DEF Flush, Types, DataTypes, RowTypes
    <2>2. QED
      BY <1>1, <2>1, FlushFacts DEF Types
  <1>2. CASE Gate(t)
    <2>1. DataTypes'
      BY <1>2 DEF Gate, Types, DataTypes, RowTypes
    <2>2. QED
      BY <1>2, <2>1, GateFacts DEF Types
  <1>3. CASE Render(t)
    <2>1. AtMostOne(file') /\ spoilt' \in BOOLEAN
      BY <1>3 DEF Render, AtMostOne
    <2>2. DataTypes'
      BY <1>0, <1>3, <2>1 DEF Render, Types, DataTypes, RowTypes
    <2>3. QED
      BY <1>3, <2>2, RenderFacts DEF Types
  <1>4. CASE Run(t)
    <2>1. DataTypes'
      BY <1>0, <1>4 DEF Run, Types, DataTypes, RowTypes, AtMostOne
    <2>2. QED
      BY <1>4, <2>1, RunFacts DEF Types
  <1>5. CASE RemoveContainer(t)
    <2>1. DataTypes'
      BY <1>0, <1>5 DEF RemoveContainer, Types, DataTypes, RowTypes, AtMostOne
    <2>2. QED
      BY <1>5, <2>1, RunFacts DEF Types
  <1>6. CASE Ending(t)
    <2>1. HandlerTypes' /\ writer' = IF writer = t THEN NoOne ELSE writer
      BY <1>6, EndFacts DEF Types
    <2>2. CASE Commit(t)
      BY <2>1, <2>2, CommitTypes DEF Types
    <2>3. CASE DockerFails(t)
      <3>1. AtMostOne(container')
        BY <2>3 DEF DockerFails, Types, DataTypes, AtMostOne
      <3>2. QED
        BY <1>0, <2>1, <2>3, <3>1 DEF DockerFails, Types, DataTypes, RowTypes
    <2>4. CASE FlushFails(t) \/ LockTimeout(t) \/ GateRefuses(t) \/ CommitFails(t)
      <3>1. UNCHANGED <<row, exch, file, spoilt, container, token, request, ops, settled, user, quota>>
        BY <2>4 DEF FlushFails, LockTimeout, GateRefuses, CommitFails, Fails
      <3>2. QED
        BY <2>1, <3>1 DEF Types, DataTypes, RowTypes
    <2>5. QED
      BY <1>6, <2>2, <2>3, <2>4 DEF Ending
  <1>7. CASE Write(t)
    <2>1. AtMostOne(file')
      BY <1>7, WriteFacts DEF AtMostOne
    <2>2. DataTypes'
      BY <1>7, <2>1 DEF Write, Types, DataTypes, RowTypes
    <2>3. QED
      BY <1>7, <2>2, WriteFacts DEF Types
  <1>8. QED
    BY <1>1, <1>2, <1>3, <1>4, <1>5, <1>6, <1>7 DEF Step, Ending

(* A step of a proxied request. *)
LEMMA MovesTypes ==
    ASSUME Types, NEW q \in Requests, NEW r \in RequestStates, Moves(q, r),
           token' \subseteq -1..MaxOps, AtMostOne(token')
    PROVE  Types'
  <1>1. request' \in [Requests -> RequestStates]
    BY DEF Moves, Types, DataTypes
  <1>2. QED
    BY <1>1 DEF Moves, Keeps, Types, HandlerTypes, DataTypes, RowTypes

Serves(q) == BeginRequest(q) \/ Serve(q) \/ Unreachable(q)

(* The states of a request, one step on. *)
LEMMA RequestFacts ==
    ASSUME DataTypes, NEW q \in Requests
    PROVE  /\ NoRequest \in RequestStates
           /\ request[q] \in RequestStates
           /\ \A a \in {"ok", "error", "refused"}, f \in BOOLEAN :
                 [NoRequest EXCEPT !.pc = "done", !.answer = a, !.fresh = f] \in RequestStates
           /\ \A p \in {"token", "refused"} : [request[q] EXCEPT !.pc = p] \in RequestStates
           /\ [request[q] EXCEPT !.pc = "call", !.tok = request[q].creds] \in RequestStates
           /\ [request[q] EXCEPT !.pc = "login", !.retried = TRUE] \in RequestStates
           /\ [NoRequest EXCEPT !.pc = "done", !.answer = "error"] \in RequestStates
  <1>1. NoRequest \in RequestStates
    BY MaxOpsAssumption DEF NoRequest, RequestStates
  <1>2. request[q] \in RequestStates
    BY DEF DataTypes
  <1>3. \A a \in {"ok", "error", "refused"}, f \in BOOLEAN :
           [NoRequest EXCEPT !.pc = "done", !.answer = a, !.fresh = f] \in RequestStates
    BY <1>1 DEF RequestStates
  <1>4. \A p \in {"token", "refused"} : [request[q] EXCEPT !.pc = p] \in RequestStates
    BY <1>2 DEF RequestStates
  <1>5. [request[q] EXCEPT !.pc = "call", !.tok = request[q].creds] \in RequestStates
    <2>1. request[q].creds \in -1..MaxOps
      BY <1>2, MaxOpsAssumption DEF RequestStates
    <2>2. QED
      BY <1>2, <2>1 DEF RequestStates
  <1>6. [request[q] EXCEPT !.pc = "login", !.retried = TRUE] \in RequestStates
    BY <1>2 DEF RequestStates
  <1>7. [NoRequest EXCEPT !.pc = "done", !.answer = "error"] \in RequestStates
    BY <1>1 DEF RequestStates
  <1>8. QED
    BY <1>1, <1>2, <1>3, <1>4, <1>5, <1>6, <1>7

LEMMA ServesTypes ==
    ASSUME Types, NEW q \in Requests, Serves(q)
    PROVE  Types'
  <1>0. DataTypes /\ token \subseteq -1..MaxOps /\ AtMostOne(token) /\ request[q] \in RequestStates
        /\ request[q].fresh \in BOOLEAN
    BY DEF Types, DataTypes, RequestStates
  <1>1. CASE BeginRequest(q)
    <2>1. PICK r \in row :
             Moves(q, [NoRequest EXCEPT
                 !.pc = IF token = {} THEN "login" ELSE "call", !.creds = r.creds,
                 !.tok = IF token = {} THEN 0 ELSE CHOOSE c \in token : TRUE,
                 !.fresh = settled])
      BY <1>1 DEF BeginRequest
    <2> DEFINE tok == IF token = {} THEN 0 ELSE CHOOSE c \in token : TRUE
               pc == IF token = {} THEN "login" ELSE "call"
    <2>2. tok \in -1..MaxOps
      <3> DEFINE any == CHOOSE c \in token : TRUE
      <3>1. token # {} => any \in token
        BY Zenon
      <3> HIDE DEF any
      <3>2. token # {} => any \in -1..MaxOps
        BY <1>0, <3>1
      <3>3. 0 \in -1..MaxOps
        BY MaxOpsAssumption
      <3>4. QED
        BY <3>2, <3>3 DEF any
    <2>3. pc \in {"login", "call"}
      OBVIOUS
    <2>4. r.creds \in 0..MaxOps /\ settled \in BOOLEAN
      BY <1>0 DEF DataTypes, RowTypes
    <2> HIDE DEF tok, pc
    <2>5. [NoRequest EXCEPT !.pc = pc, !.creds = r.creds, !.tok = tok, !.fresh = settled]
             \in RequestStates
      BY <2>2, <2>3, <2>4 DEF NoRequest, RequestStates
    <2>6. QED
      BY <1>0, <1>1, <2>1, <2>5, MovesTypes DEF BeginRequest, tok, pc
  <1>2. CASE Login(q)
    BY <1>0, <1>2, RequestFacts, MovesTypes DEF Login, Ends
  <1>3. CASE CacheToken(q)
    <2>1. token' \subseteq -1..MaxOps /\ AtMostOne(token')
      BY <1>0, <1>3, MaxOpsAssumption DEF CacheToken, RequestStates, AtMostOne
    <2>2. QED
      BY <1>0, <1>3, <2>1, RequestFacts, MovesTypes DEF CacheToken
  <1>4. CASE Call(q)
    BY <1>0, <1>4, RequestFacts, MovesTypes DEF Call, Ends
  <1>5. CASE Refused(q)
    <2>1. token' \subseteq -1..MaxOps /\ AtMostOne(token')
      BY <1>5 DEF Refused, AtMostOne
    <2>2. QED
      BY <1>0, <1>5, <2>1, RequestFacts, MovesTypes DEF Refused
  <1>6. CASE Unreachable(q)
    BY <1>0, <1>6, RequestFacts, MovesTypes DEF Unreachable
  <1>7. CASE Answered(q)
    BY <1>0, <1>7, RequestFacts, MovesTypes DEF Answered
  <1>8. QED
    BY <1>1, <1>2, <1>3, <1>4, <1>5, <1>6, <1>7 DEF Serves, Serve

LEMMA RestartTypes ==
    ASSUME DataTypes, Restart
    PROVE  AtMostOne(container')
  <1> DEFINE n(c) == [c EXCEPT !.loaded = file]
  <1>1. container' = {n(c) : c \in container}
    BY DEF Restart
  <1> HIDE DEF n
  <1>2. QED
    BY <1>1 DEF DataTypes, AtMostOne

LEMMA TypesKept ==
    ASSUME Types, [Next]_vars
    PROVE  Types'
  <1>1. ASSUME NEW t \in Handlers, Begin(t)
        PROVE  Types'
    BY <1>1, BeginTypes
  <1>2. ASSUME NEW t \in Handlers, Step(t)
        PROVE  Types'
    BY <1>2, StepTypes
  <1>3. ASSUME NEW q \in Requests, Serves(q)
        PROVE  Types'
    BY <1>3, ServesTypes
  <1>4. CASE Restart
    <2>1. DataTypes'
      BY <1>4, RestartTypes DEF Restart, Types, DataTypes, RowTypes
    <2>2. QED
      BY <1>4, <2>1 DEF Restart, Types, HandlerTypes
  <1>5. CASE Crash
    <2>1. HandlerTypes'
      BY <1>5, NoHandlerFacts DEF Crash, HandlerTypes
    <2>2. request' \in [Requests -> RequestStates]
      BY <1>5, MaxOpsAssumption DEF Crash, NoRequest, RequestStates
    <2>3. token' = {} /\ writer' = NoOne /\ spoilt' \in BOOLEAN
      BY <1>5 DEF Crash
    <2>4. DataTypes'
      BY <1>5, <2>2, <2>3 DEF Crash, Types, DataTypes, RowTypes, AtMostOne
    <2>5. QED
      BY <2>1, <2>4 DEF Types
  <1>6. CASE Expire
    <2>1. token' \subseteq -1..MaxOps /\ AtMostOne(token')
      BY <1>6, MaxOpsAssumption DEF Expire, AtMostOne
    <2>2. QED
      BY <1>6, <2>1 DEF Expire, Types, HandlerTypes, DataTypes, RowTypes
  <1>7. CASE UNCHANGED vars
    BY <1>7 DEF vars, Types, HandlerTypes, DataTypes, RowTypes
  <1>8. QED
    BY <1>1, <1>2, <1>3, <1>4, <1>5, <1>6, <1>7 DEF Next, Serves

LEMMA TypesInit ==
    ASSUME Init
    PROVE  Types
  <1>1. HandlerTypes
    BY NoHandlerFacts DEF Init, HandlerTypes
  <1>2. RowTypes
    <2>1. row = {} \/ \E b \in Blobs : row = {[dry_run |-> TRUE, blob |-> b, creds |-> 0]}
      BY DEF Init
    <2>2. 0 \in 0..MaxOps
      BY MaxOpsAssumption
    <2>3. CASE row = {}
      BY <2>3 DEF RowTypes, AtMostOne
    <2>4. ASSUME NEW b \in Blobs, row = {[dry_run |-> TRUE, blob |-> b, creds |-> 0]}
          PROVE  RowTypes
      BY <2>2, <2>4 DEF RowTypes, AtMostOne
    <2>5. QED
      BY <2>1, <2>3, <2>4
  <1>3. exch \subseteq Keys /\ AtMostOne(exch)
    BY DEF Init, AtMostOne
  <1>4. AtMostOne(file) /\ AtMostOne(container)
    BY DEF Init, AtMostOne
  <1>5. request \in [Requests -> RequestStates]
    BY MaxOpsAssumption DEF Init, NoRequest, RequestStates
  <1>6. /\ spoilt \in BOOLEAN /\ writer \in Handlers \cup {NoOne}
        /\ token \subseteq -1..MaxOps /\ AtMostOne(token) /\ settled \in BOOLEAN /\ user \in BOOLEAN
    BY DEF Init, AtMostOne
  <1>7. ops \in 0..MaxOps /\ quota \in {MaxOps, MaxOpsServed}
    BY MaxOpsAssumption DEF Init
  <1>8. DataTypes
    BY <1>2, <1>3, <1>4, <1>5, <1>6, <1>7 DEF DataTypes
  <1>9. QED
    BY <1>1, <1>8 DEF Types

(* The sets of at most one element are those of TypeOK. *)
LEMMA OneElement ==
    ASSUME NEW S, AtMostOne(S)
    PROVE  IsFiniteSet(S) /\ Cardinality(S) <= 1
  <1>1. CASE S = {}
    BY <1>1, FS_EmptySet
  <1>2. CASE S # {}
    <2>1. PICK a : S = {a}
      BY <1>2 DEF AtMostOne
    <2>2. IsFiniteSet({a}) /\ Cardinality({a}) = 1
      BY FS_Singleton
    <2>3. QED
      BY <2>1, <2>2
  <1>3. QED
    BY <1>1, <1>2

LEMMA TypesGiveTypeOK ==
    ASSUME Types
    PROVE  TypeOK
  <1>1. /\ Cardinality(row) <= 1 /\ Cardinality(exch) <= 1
        /\ Cardinality(file) <= 1 /\ Cardinality(container) <= 1
        /\ Cardinality(token) <= 1
    BY OneElement DEF Types, DataTypes, RowTypes
  <1>2. DOMAIN handler = Handlers
    BY DEF Types, HandlerTypes
  <1>3. QED
    BY <1>1, <1>2 DEF Types, DataTypes, RowTypes, TypeOK

(* The types of the row, of every session and of every request.            *)
THEOREM TypesHold == Spec => []Types
  <1>1. Init => Types
    BY TypesInit
  <1>2. Types /\ [Next]_vars => Types'
    BY TypesKept
  <1>3. QED
    BY <1>1, <1>2, PTL DEF Spec

(* The type invariant, for any instance. *)
THEOREM TypeCorrect == Spec => []TypeOK
  <1>1. Types => TypeOK
    BY TypesGiveTypeOK
  <1>2. QED
    BY <1>1, TypesHold, PTL

-----------------------------------------------------------------------------
(* What the steps of a handler leave alone. *)

Quiet(t) == FlushFails(t) \/ LockTimeout(t) \/ GateRefuses(t) \/ CommitFails(t)

LEMMA Frames ==
    ASSUME NEW t \in Handlers
    PROVE  /\ \A h : Starts(t, h) =>
                 UNCHANGED <<row, exch, basis, file, spoilt, container, writer, token, request, settled>>
           /\ Flush(t) =>
                 /\ UNCHANGED <<row, exch, basis, file, spoilt, container, token, request, settled>>
                 /\ handler[t].pc = "flush" /\ CanWrite(t) /\ writer' = t
           /\ Gate(t) =>
                 UNCHANGED <<row, exch, basis, file, spoilt, container, writer, token, request, settled>>
           /\ Render(t) =>
                 /\ UNCHANGED <<row, exch, basis, container, writer, token>>
                 /\ handler[t].pc = "render" /\ settled' = FALSE /\ request' = Unfresh(request)
                 /\ file' = {} /\ spoilt' = (Writing # {})
           /\ Write(t) =>
                 /\ UNCHANGED <<row, exch, basis, spoilt, container, writer, token, request, settled>>
                 /\ handler[t].pc = "write"
           /\ Run(t) =>
                 /\ UNCHANGED <<row, exch, basis, file, spoilt, writer, token, settled>>
                 /\ handler[t].pc = "run" /\ request' = Unfresh(request)
           /\ RemoveContainer(t) =>
                 /\ UNCHANGED <<row, exch, basis, file, spoilt, writer, token>>
                 /\ handler[t].pc = "remove" /\ settled' = FALSE /\ request' = Unfresh(request)
                 /\ container' = {}
           /\ DockerFails(t) =>
                 /\ UNCHANGED <<row, exch, basis, file, spoilt, token>>
                 /\ settled' = FALSE /\ request' = Unfresh(request)
                 /\ container' \in {container, {}}
           /\ Commit(t) =>
                 UNCHANGED <<file, spoilt, container, request>> /\ handler[t].pc = "commit"
           /\ Quiet(t) =>
                 UNCHANGED <<row, exch, basis, file, spoilt, container, token, request, settled>>
  <1>1. Quiet(t) => Fails(t)
    BY DEF Quiet, FlushFails, LockTimeout, GateRefuses, CommitFails
  <1>2. Quiet(t) =>
           UNCHANGED <<row, exch, basis, file, spoilt, container, token, request, settled>>
    BY <1>1 DEF Fails
  <1>3. \A h : Starts(t, h) =>
           UNCHANGED <<row, exch, basis, file, spoilt, container, writer, token, request, settled>>
    BY DEF Starts
  <1>4. QED
    BY <1>2, <1>3 DEF Flush, Gate, Render, Write, Run, RemoveContainer, DockerFails, Commit

LEMMA RequestFrame ==
    ASSUME NEW q \in Requests, Serves(q)
    PROVE  UNCHANGED <<row, exch, basis, file, spoilt, container, writer, handler, settled>>
  BY DEF Serves, BeginRequest, Serve, Login, CacheToken, Call, Refused, Answered, Unreachable,
         Ends, Moves, Keeps

-----------------------------------------------------------------------------
(* The stored key and config.json. *)

IsContainer(c) ==
    c = [creds |-> c.creds, keys |-> c.keys, strategy |-> c.strategy, loaded |-> c.loaded]

Files ==
    /\ \A c \in container : IsContainer(c)
    /\ LiveFileIsSafe

SafeInv == Types /\ Vouched(exch, basis) /\ Files

(* Only a commit stores or deletes a key. *)
LEMMA KeyFrame ==
    ASSUME Types, Next
    PROVE  \/ UNCHANGED <<exch, basis>>
           \/ \E t \in Handlers : Commit(t)
  <1>1. ASSUME NEW t \in Handlers, Begin(t)
        PROVE  UNCHANGED <<exch, basis>>
    <2>1. PICK h : Starts(t, h)
      BY <1>1, BeginFacts DEF Types, DataTypes
    <2>2. QED
      BY <2>1, Frames
  <1>2. ASSUME NEW t \in Handlers, Step(t), ~Commit(t)
        PROVE  UNCHANGED <<exch, basis>>
    <2>1. \/ Flush(t) \/ Quiet(t) \/ Gate(t) \/ Render(t) \/ Write(t) \/ Run(t)
          \/ DockerFails(t) \/ RemoveContainer(t)
      BY <1>2 DEF Step, Quiet
    <2>2. QED
      BY <2>1, Frames
  <1>3. ASSUME NEW q \in Requests, Serves(q)
        PROVE  UNCHANGED <<exch, basis>>
    BY <1>3, RequestFrame
  <1>4. Restart \/ Crash \/ Expire => UNCHANGED <<exch, basis>>
    BY DEF Restart, Crash, Expire
  <1>5. QED
    BY <1>1, <1>2, <1>3, <1>4 DEF Next, Serves

LEMMA VouchedKept ==
    ASSUME Types, Vouched(exch, basis), Next
    PROVE  Vouched(exch, basis)'
  <1>1. CASE UNCHANGED <<exch, basis>>
    BY <1>1 DEF Vouched
  <1>2. ASSUME NEW t \in Handlers, Commit(t)
        PROVE  Vouched(exch, basis)'
    <2> DEFINE h == handler[t]
    <2>1. h.op \in ExchangeOps => Vouched(h.keys, h.basis)
      BY DEF Types, HandlerTypes, Local
    <2>2. \/ exch' = {} /\ basis' = {}
          \/ exch' = h.keys /\ basis' = h.basis /\ h.op \in ExchangeOps
          \/ exch' = exch /\ basis' = basis
      BY <1>2 DEF Commit, ExchangeOps
    <2>3. QED
      BY <2>1, <2>2 DEF Vouched
  <1>3. QED
    BY <1>1, <1>2, KeyFrame

LEMMA RenderedIsSafe ==
    ASSUME NEW dry_run \in BOOLEAN, NEW blob, NEW keys, ~dry_run => Acceptable(blob, FALSE)
    PROVE  SafeConfig(Rendered(dry_run, blob, keys))
  <1> DEFINE f == Rendered(dry_run, blob, keys)
             c == Effective(blob)
  <1>1. /\ f.dry_run = dry_run /\ f.stake_amount = c.stake_amount
        /\ f.max_open_trades = c.max_open_trades
        /\ ~dry_run => f.available_capital = {LiveMaxCapital}
    BY DEF Rendered, BuildBotConfig
  <1>2. ~dry_run => WithinLiveLimits(c)
    BY DEF Acceptable, Sound
  <1> HIDE DEF f, c
  <1>3. SafeConfig(f)
    BY <1>1, <1>2 DEF SafeConfig, WithinLiveLimits
  <1>4. QED
    BY <1>3 DEF f

LEMMA RunFiles ==
    ASSUME Files, NEW t \in Handlers, Run(t)
    PROVE  Files'
  <1> DEFINE h == handler[t]
             c == Launched(h.creds, h.keys, h.blob, file)
  <1>1. IsContainer(c) /\ c.loaded = file
    BY DEF Launched, IsContainer
  <1>2. container' = {c} /\ file' = file
    BY DEF Run
  <1> HIDE DEF c
  <1>3. QED
    BY <1>1, <1>2 DEF Files, LiveFileIsSafe

LEMMA RestartFacts ==
    ASSUME Files, Restart
    PROVE  \A d \in container' : \E c \in container :
              /\ IsContainer(c) /\ IsContainer(d) /\ d.loaded = file
              /\ d.creds = c.creds /\ d.keys = c.keys /\ d.strategy = c.strategy
  <1> DEFINE n(c) == [c EXCEPT !.loaded = file]
  <1>1. container' = {n(c) : c \in container}
    BY DEF Restart
  <1>2. \A c \in container :
           /\ IsContainer(n(c)) /\ n(c).loaded = file
           /\ n(c).creds = c.creds /\ n(c).keys = c.keys /\ n(c).strategy = c.strategy
    BY DEF Files, IsContainer
  <1> HIDE DEF n
  <1>3. QED
    BY <1>1, <1>2 DEF Files

LEMMA FilesKept ==
    ASSUME Types, Files, Next
    PROVE  Files'
  <1>1. CASE UNCHANGED <<file, container>>
    BY <1>1 DEF Files, LiveFileIsSafe
  <1>2. ASSUME NEW t \in Handlers, Step(t)
        PROVE  Files'
    <2>1. CASE Render(t)
      <3>1. file' = {} /\ container' = container
        BY <2>1, Frames
      <3>2. QED
        BY <3>1 DEF Files, LiveFileIsSafe
    <2>2. CASE Write(t)
      <3> DEFINE h == handler[t]
      <3>1. file' \in {{Rendered(h.dry_run, h.blob, h.keys)}, {}}
        BY <2>2, WriteFacts
      <3>2. Local(h) /\ h.pc = "write" /\ container' = container
        BY <2>2, Frames DEF Types, HandlerTypes
      <3>3. h.dry_run \in BOOLEAN /\ (~h.dry_run => Acceptable(h.blob, FALSE))
        BY <3>2 DEF Local, IsHandler, Gated
      <3>4. SafeConfig(Rendered(h.dry_run, h.blob, h.keys))
        BY <3>3, RenderedIsSafe
      <3>5. \A f \in file' : SafeConfig(f)
        BY <3>1, <3>4
      <3>6. QED
        BY <3>2, <3>5 DEF Files, LiveFileIsSafe
    <2>3. CASE Run(t)
      BY <2>3, RunFiles
    <2>4. CASE RemoveContainer(t) \/ DockerFails(t)
      <3>1. container' \in {container, {}} /\ file' = file
        BY <2>4, Frames
      <3>2. QED
        BY <3>1 DEF Files, LiveFileIsSafe
    <2>5. CASE Flush(t) \/ Quiet(t) \/ Gate(t) \/ Commit(t)
      BY <1>1, <2>5, Frames
    <2>6. QED
      BY <1>2, <2>1, <2>2, <2>3, <2>4, <2>5 DEF Step, Quiet
  <1>3. ASSUME NEW t \in Handlers, Begin(t)
        PROVE  Files'
    <2>1. PICK h : Starts(t, h)
      BY <1>3, BeginFacts DEF Types, DataTypes
    <2>2. QED
      BY <1>1, <2>1, Frames
  <1>4. ASSUME NEW q \in Requests, Serves(q)
        PROVE  Files'
    BY <1>1, <1>4, RequestFrame
  <1>5. CASE Restart
    <2>1. file' = file
      BY <1>5 DEF Restart
    <2>2. \A d \in container' : IsContainer(d) /\ d.loaded = file
      BY <1>5, RestartFacts
    <2>3. QED
      BY <2>1, <2>2 DEF Files, LiveFileIsSafe
  <1>6. CASE Crash \/ Expire
    BY <1>1, <1>6 DEF Crash, Expire
  <1>7. QED
    BY <1>2, <1>3, <1>4, <1>5, <1>6 DEF Next, Serves

LEMMA FilesInit ==
    ASSUME Init
    PROVE  Files
  <1>1. CASE row = {} /\ container = {} /\ file = {}
    BY <1>1 DEF Files, LiveFileIsSafe
  <1>2. ASSUME NEW b \in Blobs, file = {Rendered(TRUE, b, exch)},
               container = {Launched(0, exch, b, file)}
        PROVE  Files
    <2>1. SafeConfig(Rendered(TRUE, b, exch))
      BY RenderedIsSafe
    <2>2. IsContainer(Launched(0, exch, b, file)) /\ Launched(0, exch, b, file).loaded = file
      BY DEF Launched, IsContainer
    <2>3. \A f \in file : SafeConfig(f)
      BY <1>2, <2>1
    <2>4. QED
      BY <1>2, <2>2, <2>3 DEF Files, LiveFileIsSafe
  <1>3. QED
    BY <1>1, <1>2 DEF Init

(* Whatever a handler is going to write or launch has passed its gate.     *)
THEOREM SafeInvHolds == Spec => []SafeInv
  <1>1. Init => SafeInv
    <2>1. Init => Vouched(exch, basis)
      BY DEF Init, Vouched
    <2>2. QED
      BY <2>1, TypesInit, FilesInit DEF SafeInv
  <1>2. SafeInv /\ [Next]_vars => SafeInv'
    <2>1. CASE Next
      BY <2>1, TypesKept, VouchedKept, FilesKept DEF SafeInv
    <2>2. SafeInv /\ UNCHANGED vars => SafeInv'
      BY TypesKept DEF SafeInv, vars, Vouched, Files, LiveFileIsSafe
    <2>3. QED
      BY <2>1, <2>2
  <1>3. QED
    BY <1>1, <1>2, PTL DEF Spec

(* Whatever requests overlap, fail or crash, a config.json that trades real *)
(* money, and a container that runs from it, is within the capital limit.  *)
THEOREM LiveFilesHold == Spec => []LiveFileIsSafe
  <1>1. SafeInv => LiveFileIsSafe
    BY DEF SafeInv, Files
  <1>2. QED
    BY <1>1, SafeInvHolds, PTL

(* A stored key was vouched for by the exchange, or forced while it said    *)
(* nothing about it.                                                       *)
THEOREM KeysHold == Spec => []KeysVouchedFor
  <1>1. SafeInv => KeysVouchedFor
    BY DEF SafeInv, Vouched, KeysVouchedFor
  <1>2. QED
    BY <1>1, SafeInvHolds, PTL

-----------------------------------------------------------------------------
(* Launches with no other handler about.  Such a handler has read what is   *)
(* still there, and what it has done so far is what a launch of its copies *)
(* comes to.  While settled holds, a handler at work has launched nothing. *)

Lone(t) ==
    LET h == handler[t] IN
    h.alone =>
        /\ h.pc # "idle" /\ \A u \in Handlers \ {t} : handler[u].pc = "idle"
        /\ h.op \notin ExchangeOps => h.copy = row
        /\ h.launch /\ h.op \notin ExchangeOps /\
              (h.pc \in {"write", "run", "commit"} \/ (h.pc = "render" /\ ~h.dry_run)) =>
              h.keys = exch
        /\ h.pc = "write" => ~spoilt
        /\ h.launch /\ h.pc \in {"run", "commit"} => file = {Rendered(h.dry_run, h.blob, h.keys)}
        /\ h.launch /\ h.pc = "commit" => container = {Launched(h.creds, h.keys, h.blob, file)}
        /\ h.op = "delete_user" /\ h.pc = "commit" /\ h.copy # {} => container = {}

(* A handler that has stored a key has the lock, and read the row under it. *)
Reads(t) ==
    LET h == handler[t] IN
    h.op \in ExchangeOps /\ h.pc \notin {"idle", "flush"} => writer = t /\ h.copy = row

Launches(h) ==
    \/ h.pc \in {"write", "run"}
    \/ h.pc = "commit" /\ (h.launch \/ (h.op = "delete_user" /\ h.copy # {}))

Calm(t) ==
    LET h == handler[t] IN
    settled =>
        /\ ~Launches(h)
        /\ h.pc # "idle" /\ h.op = "update_config" => h.copy = row
        /\ h.pc # "idle" /\ h.op = "delete_user" /\ h.copy = {} => row = {}

OneConfig ==
    \A t, u \in Handlers : handler[t].op = "update_config" /\ handler[u].op = "update_config" => t = u

LoneInv ==
    /\ SafeInv
    /\ \A t \in Handlers : Lone(t) /\ Reads(t) /\ Calm(t)
    /\ OneConfig
    /\ LoneLaunchAgrees

LEMMA OneConfigKept ==
    ASSUME Types, OneConfig, Next
    PROVE  OneConfig'
  <1>1. ASSUME NEW t \in Handlers, NEW n, Becomes(t, n), n.op \in {handler[t].op, "none"}
        PROVE  OneConfig'
    BY <1>1 DEF OneConfig, Becomes
  <1>2. ASSUME NEW t \in Handlers, Begin(t)
        PROVE  OneConfig'
    <2>1. PICK h : MayBegin(t) /\ Starts(t, h) /\ Begun(h)
      BY <1>2, BeginFacts DEF Types, DataTypes
    <2>2. /\ SameWork(h, handler'[t])
          /\ \A u \in Handlers \ {t} : SameWork(handler[u], handler'[u])
      BY <2>1, StartFacts DEF Begun
    <2>3. h.op = "update_config" => \A u \in Handlers : handler[u].op # "update_config"
      BY <2>1 DEF Begun
    <2>4. QED
      BY <2>2, <2>3 DEF OneConfig, SameWork
  <1>3. ASSUME NEW t \in Handlers, Step(t)
        PROVE  OneConfig'
    <2>1. CASE Flush(t)
      BY <1>1, <2>1, FlushFacts
    <2>2. CASE Gate(t)
      BY <1>1, <2>2, GateFacts DEF Keyed
    <2>3. CASE Render(t)
      BY <1>1, <2>3, RenderFacts DEF Keyed
    <2>4. CASE Write(t)
      BY <1>1, <2>4, WriteFacts DEF Moved
    <2>5. CASE Run(t) \/ RemoveContainer(t)
      BY <1>1, <2>5, RunFacts DEF Moved
    <2>6. CASE Ending(t)
      BY <1>1, <2>6, EndFacts, NoHandlerFacts DEF Types
    <2>7. QED
      BY <1>3, <2>1, <2>2, <2>3, <2>4, <2>5, <2>6 DEF Step, Ending
  <1>4. ASSUME NEW q \in Requests, Serves(q)
        PROVE  OneConfig'
    BY <1>4, RequestFrame DEF OneConfig
  <1>5. CASE Restart \/ Expire
    BY <1>5 DEF Restart, Expire, OneConfig
  <1>6. CASE Crash
    BY <1>6, NoHandlerFacts DEF Crash, OneConfig
  <1>7. QED
    BY <1>2, <1>3, <1>4, <1>5, <1>6 DEF Next, Serves

(* Nobody else is at work when a handler that is alone takes a step. *)
LEMMA NobodyElse ==
    ASSUME \A t \in Handlers : Lone(t),
           NEW t \in Handlers, NEW u \in Handlers \ {t}, handler[t].pc # "idle"
    PROVE  ~handler[u].alone
  BY DEF Lone

LEMMA NotIdle ==
    ASSUME Types, NEW t \in Handlers, Step(t)
    PROVE  handler[t].pc # "idle"
  <1>1. CASE Ending(t)
    BY <1>1, EndFacts DEF Types
  <1>2. CASE Gate(t)
    <2>1. [handler[t] EXCEPT !.keys = KeysOf(handler[t])].pc = handler[t].pc
      BY DEF Types, HandlerTypes, Local, IsHandler, IsRecord, HandlerFields
    <2>2. QED
      BY <1>2, <2>1 DEF Gate
  <1>3. CASE Flush(t) \/ Render(t) \/ Write(t) \/ Run(t) \/ RemoveContainer(t)
    BY <1>3, Frames
  <1>4. QED
    BY <1>1, <1>2, <1>3 DEF Step, Ending

LEMMA LoneBegin ==
    ASSUME Types, NEW t \in Handlers, Begin(t)
    PROVE  \A u \in Handlers : Lone(u)'
  <1>1. PICK h : MayBegin(t) /\ Starts(t, h) /\ Begun(h)
    BY BeginFacts DEF Types, DataTypes
  <1>2. /\ SameWork(h, handler'[t]) /\ handler'[t].alone = (Busy = {})
        /\ \A u \in Handlers \ {t} :
              SameWork(handler[u], handler'[u]) /\ handler'[u].alone = FALSE
    BY <1>1, StartFacts DEF Begun
  <1>3. Busy = {} => \A u \in Handlers \ {t} : handler[u].pc = "idle"
    BY DEF Busy, Idle
  <1>4. /\ h.pc \in {"flush", "gate", "remove", "commit"}
        /\ h.op \notin ExchangeOps => h.copy = row
        /\ h.pc = "commit" => ~h.launch /\ (h.op = "delete_user" => h.copy = {})
    BY <1>1 DEF Begun
  <1>5. row' = row
    BY <1>1, Frames
  <1>6. ASSUME handler'[t].alone
        PROVE  Lone(t)'
    BY <1>2, <1>3, <1>4, <1>5, <1>6 DEF Lone, SameWork
  <1>7. QED
    BY <1>2, <1>6 DEF Lone

(* One lemma for each step of the handler itself. *)
LEMMA LoneFlush ==
    ASSUME Types, NEW t \in Handlers, Lone(t), Flush(t)
    PROVE  Lone(t)'
  <1>1. PICK n : /\ Becomes(t, n)
                 /\ n.op = handler[t].op /\ n.alone = handler[t].alone
                 /\ n.pc \in {"gate", "commit"} /\ (n.pc = "commit" => ~n.launch)
                 /\ n.copy = IF n.op = "update_config" THEN handler[t].copy ELSE row
    BY FlushFacts
  <1>2. row' = row /\ handler[t].pc = "flush"
    BY Frames
  <1>3. handler[t].op # "delete_user"
    BY <1>2 DEF Types, HandlerTypes, Local, Phase, ExchangeOps
  <1>4. QED
    BY <1>1, <1>2, <1>3 DEF Lone, Becomes, ExchangeOps

LEMMA LoneGate ==
    ASSUME Types, NEW t \in Handlers, Lone(t), Gate(t)
    PROVE  Lone(t)'
  <1>1. PICK n : Becomes(t, n) /\ Keyed(handler[t], n, "render", KeysOf(handler[t]))
    BY GateFacts
  <1>2. row' = row /\ exch' = exch
    BY Frames
  <1>3. handler[t].op \notin ExchangeOps => KeysOf(handler[t]) = exch
    BY DEF KeysOf, ExchangeOps
  <1>4. QED
    BY <1>1, <1>2, <1>3 DEF Lone, Becomes, Keyed

LEMMA LoneRender ==
    ASSUME Types, NEW t \in Handlers, Lone(t), Render(t)
    PROVE  Lone(t)'
  <1>1. PICK n, keys :
           /\ Becomes(t, n) /\ Keyed(handler[t], n, "write", keys)
           /\ keys = IF handler[t].dry_run THEN KeysOf(handler[t]) ELSE handler[t].keys
    BY RenderFacts
  <1>2. row' = row /\ exch' = exch /\ handler[t].pc = "render" /\ spoilt' = (Writing # {})
    BY Frames
  <1>3. handler[t].op \notin ExchangeOps => KeysOf(handler[t]) = exch
    BY DEF KeysOf, ExchangeOps
  <1>4. handler[t].launch
    BY <1>2 DEF Types, HandlerTypes, Local, Phase
  <1>5. handler[t].alone => ~spoilt'
    BY <1>2 DEF Lone, Writing
  <1>6. QED
    BY <1>1, <1>2, <1>3, <1>4, <1>5 DEF Lone, Becomes, Keyed

LEMMA LoneWrite ==
    ASSUME Types, NEW t \in Handlers, Lone(t), Write(t)
    PROVE  Lone(t)'
  <1> DEFINE h == handler[t]
  <1>1. PICK n : Becomes(t, n) /\ Moved(h, n, "run")
    BY WriteFacts
  <1>2. row' = row /\ exch' = exch /\ h.pc = "write"
    BY Frames
  <1>3. ~spoilt => file' = {Rendered(h.dry_run, h.blob, h.keys)}
    BY WriteFacts
  <1>4. h.launch
    BY <1>2 DEF Types, HandlerTypes, Local, Phase
  <1>5. QED
    BY <1>1, <1>2, <1>3, <1>4 DEF Lone, Becomes, Moved

LEMMA LoneRun ==
    ASSUME Types, NEW t \in Handlers, Lone(t), Run(t)
    PROVE  Lone(t)'
  <1> DEFINE h == handler[t]
  <1>1. PICK n : Becomes(t, n) /\ Moved(h, n, "commit")
    BY RunFacts
  <1>2. row' = row /\ exch' = exch /\ file' = file /\ h.pc = "run"
    BY Frames
  <1>3. h.launch /\ h.op # "delete_user"
    BY <1>2 DEF Types, HandlerTypes, Local, Phase
  <1>4. container' = {Launched(h.creds, h.keys, h.blob, file)}
    BY DEF Run
  <1>5. QED
    BY <1>1, <1>2, <1>3, <1>4 DEF Lone, Becomes, Moved

LEMMA LoneRemove ==
    ASSUME Types, NEW t \in Handlers, Lone(t), RemoveContainer(t)
    PROVE  Lone(t)'
  <1> DEFINE h == handler[t]
  <1>1. PICK n : Becomes(t, n) /\ Moved(h, n, "commit")
    BY RunFacts
  <1>2. row' = row /\ exch' = exch /\ h.pc = "remove" /\ container' = {}
    BY Frames
  <1>3. ~h.launch
    BY <1>2 DEF Types, HandlerTypes, Local, Phase
  <1>4. QED
    BY <1>1, <1>2, <1>3 DEF Lone, Becomes, Moved

LEMMA LoneStep ==
    ASSUME Types, \A u \in Handlers : Lone(u), NEW t \in Handlers, Step(t)
    PROVE  \A u \in Handlers : Lone(u)'
  <1>1. \E n : Becomes(t, n)
    BY FlushFacts, GateFacts, RenderFacts, WriteFacts, RunFacts, EndFacts DEF Step, Ending, Types
  <1>2. ASSUME NEW u \in Handlers \ {t}
        PROVE  Lone(u)'
    <2>1. ~handler[u].alone
      BY NobodyElse, NotIdle
    <2>2. handler'[u] = handler[u]
      BY <1>1 DEF Becomes
    <2>3. QED
      BY <2>1, <2>2 DEF Lone
  <1>3. CASE Ending(t)
    <2>1. ~handler'[t].alone
      BY <1>3, EndFacts, NoHandlerFacts DEF Types, Becomes
    <2>2. QED
      BY <1>2, <2>1 DEF Lone
  <1>4. Lone(t)
    OBVIOUS
  <1>5. CASE ~Ending(t)
    BY <1>2, <1>4, <1>5, LoneFlush, LoneGate, LoneRender, LoneWrite, LoneRun, LoneRemove
    DEF Step, Ending
  <1>6. QED
    BY <1>3, <1>5

(* A restart loads config.json again. *)
LEMMA Reloaded ==
    ASSUME Restart, NEW creds, NEW keys, NEW blob, NEW f,
           container = {Launched(creds, keys, blob, f)}
    PROVE  container' = {Launched(creds, keys, blob, file)}
  <1> DEFINE c == Launched(creds, keys, blob, f)
  <1>1. [c EXCEPT !.loaded = file] = Launched(creds, keys, blob, file)
    BY DEF Launched
  <1>2. container' = {[d EXCEPT !.loaded = file] : d \in container}
    BY DEF Restart
  <1> HIDE DEF c
  <1>3. container' = {[c EXCEPT !.loaded = file]}
    BY <1>2 DEF c
  <1>4. QED
    BY <1>1, <1>3

LEMMA LoneKept ==
    ASSUME Types, Files, \A t \in Handlers : Lone(t), Next
    PROVE  \A t \in Handlers : Lone(t)'
  <1>1. ASSUME UNCHANGED <<row, exch, file, spoilt, container, handler>>
        PROVE  \A t \in Handlers : Lone(t)'
    BY <1>1 DEF Lone
  <1>2. ASSUME NEW q \in Requests, Serves(q)
        PROVE  \A t \in Handlers : Lone(t)'
    BY <1>1, <1>2, RequestFrame
  <1>3. CASE Crash
    BY <1>3, NoHandlerFacts DEF Crash, Lone
  <1>4. CASE Expire
    BY <1>1, <1>4 DEF Expire
  <1>5. ASSUME Restart, NEW t \in Handlers
        PROVE  Lone(t)'
    <2> DEFINE h == handler[t]
    <2>1. UNCHANGED <<row, exch, file, spoilt, handler>> /\ container # {}
      BY <1>5 DEF Restart
    <2>2. ASSUME h.alone, h.launch, h.pc = "commit"
          PROVE  container' = {Launched(h.creds, h.keys, h.blob, file)}
      <3>1. container = {Launched(h.creds, h.keys, h.blob, file)}
        BY <2>2 DEF Lone
      <3>2. QED
        BY <1>5, <3>1, Reloaded
    <2>3. QED
      BY <2>1, <2>2 DEF Lone
  <1>6. QED
    BY <1>2, <1>3, <1>4, <1>5, LoneBegin, LoneStep DEF Next, Serves

-----------------------------------------------------------------------------
(* What a handler under the lock, or any handler while settled, has read.   *)

LEMMA GateAt ==
    ASSUME Types, NEW t \in Handlers, Gate(t)
    PROVE  handler[t].pc = "gate"
  <1>1. [handler[t] EXCEPT !.keys = KeysOf(handler[t])].pc = handler[t].pc
    BY DEF Types, HandlerTypes, Local, IsHandler, IsRecord, HandlerFields
  <1>2. QED
    BY <1>1 DEF Gate

LEMMA ReadsKept ==
    ASSUME Types, \A u \in Handlers : Reads(u), Next
    PROVE  \A u \in Handlers : Reads(u)'
  <1>1. ASSUME UNCHANGED <<row, writer, handler>>
        PROVE  \A u \in Handlers : Reads(u)'
    BY <1>1 DEF Reads
  <1>2. ASSUME NEW t \in Handlers, NEW n, Becomes(t, n), UNCHANGED <<row, writer>>,
               n.op = handler[t].op, n.copy = handler[t].copy, handler[t].pc \notin {"idle", "flush"}
        PROVE  \A u \in Handlers : Reads(u)'
    BY <1>2 DEF Reads, Becomes
  <1>3. ASSUME NEW t \in Handlers, NEW u \in Handlers \ {t}, CanWrite(t),
               handler'[u] = handler[u]
        PROVE  Reads(u)'
    BY <1>3, HandlersAssumption DEF Reads, CanWrite
  <1>4. ASSUME NEW t \in Handlers, Begin(t)
        PROVE  \A u \in Handlers : Reads(u)'
    <2>1. PICK h : MayBegin(t) /\ Starts(t, h) /\ Begun(h)
      BY <1>4, BeginFacts DEF Types, DataTypes
    <2>2. /\ SameWork(h, handler'[t])
          /\ \A u \in Handlers \ {t} : SameWork(handler[u], handler'[u])
      BY <2>1, StartFacts DEF Begun
    <2>3. (h.op \in ExchangeOps => h.pc = "flush") /\ UNCHANGED <<row, writer>>
      BY <2>1, Frames DEF Begun
    <2>4. QED
      BY <2>2, <2>3 DEF Reads, SameWork
  <1>5. ASSUME NEW t \in Handlers, Step(t)
        PROVE  \A u \in Handlers : Reads(u)'
    <2>1. CASE Flush(t)
      <3>1. PICK n : /\ Becomes(t, n)
                     /\ n.copy = IF n.op = "update_config" THEN handler[t].copy ELSE row
        BY <2>1, FlushFacts
      <3>2. CanWrite(t) /\ writer' = t /\ row' = row
        BY <2>1, Frames
      <3>3. Reads(t)'
        BY <3>1, <3>2 DEF Reads, Becomes, ExchangeOps
      <3>4. QED
        BY <1>3, <3>1, <3>2, <3>3 DEF Becomes
    <2>2. CASE Gate(t)
      BY <1>2, <2>2, GateFacts, GateAt, Frames DEF Keyed
    <2>3. CASE Render(t)
      BY <1>2, <2>3, RenderFacts, Frames DEF Keyed
    <2>a. CASE Write(t)
      BY <1>2, <2>a, WriteFacts, Frames DEF Moved
    <2>4. CASE Run(t) \/ RemoveContainer(t)
      BY <1>2, <2>4, RunFacts, Frames DEF Moved
    <2>5. CASE Ending(t)
      <3>1. Becomes(t, NoHandler) /\ writer' = IF writer = t THEN NoOne ELSE writer
        BY <2>5, EndFacts DEF Types
      <3>2. Reads(t)'
        BY <3>1, NoHandlerFacts DEF Reads, Becomes
      <3>3. CASE Commit(t)
        BY <1>3, <3>1, <3>2, <3>3 DEF Commit, Becomes
      <3>4. CASE ~Commit(t)
        <4>1. row' = row
          BY <2>5, <3>4, Frames DEF Ending, Quiet
        <4>2. QED
          BY <3>1, <3>2, <4>1 DEF Reads, Becomes
      <3>5. QED
        BY <3>3, <3>4
    <2>6. QED
      BY <1>5, <2>1, <2>2, <2>3, <2>a, <2>4, <2>5 DEF Step, Ending
  <1>6. ASSUME NEW q \in Requests, Serves(q)
        PROVE  \A u \in Handlers : Reads(u)'
    BY <1>1, <1>6, RequestFrame
  <1>7. CASE Restart \/ Expire
    BY <1>1, <1>7 DEF Restart, Expire
  <1>8. CASE Crash
    BY <1>8, NoHandlerFacts DEF Crash, Reads
  <1>9. QED
    BY <1>4, <1>5, <1>6, <1>7, <1>8 DEF Next, Serves

(* Commits while settled: nothing was launched. *)
LEMMA CalmCommit ==
    ASSUME Types, NEW t \in Handlers, Commit(t), settled, Calm(t)
    PROVE  \/ row' = row
           \/ /\ handler[t].op = "update_config" /\ ~handler[t].launch
              /\ handler[t].copy = row /\ row # {} /\ row' = Written(handler[t])
  <1> DEFINE h == handler[t]
  <1>1. h.pc = "commit" /\ ~h.launch /\ ~(h.op = "delete_user" /\ h.copy # {})
    BY Frames DEF Calm, Launches
  <1>2. CASE h.op = "update_config"
    <2>1. h.copy = row /\ h.copy # {}
      BY <1>1, <1>2 DEF Calm, Types, HandlerTypes, Local, Phase
    <2>2. row' = Written(h)
      BY <1>2 DEF Commit, WritesRow
    <2>3. QED
      BY <1>1, <1>2, <2>1, <2>2
  <1>3. CASE h.op # "update_config"
    BY <1>1, <1>3 DEF Commit, WritesRow
  <1>4. QED
    BY <1>2, <1>3

LEMMA CalmKept ==
    ASSUME Types, \A u \in Handlers : Calm(u) /\ Lone(u), OneConfig, Next
    PROVE  \A u \in Handlers : Calm(u)'
  <1>1. ASSUME UNCHANGED <<row, settled, handler>>
        PROVE  \A u \in Handlers : Calm(u)'
    BY <1>1 DEF Calm
  <1>2. ASSUME settled' = FALSE
        PROVE  \A u \in Handlers : Calm(u)'
    BY <1>2 DEF Calm
  <1>3. ASSUME NEW t \in Handlers, NEW n, Becomes(t, n), UNCHANGED <<row, settled>>,
               n.op = handler[t].op, n.copy = handler[t].copy, handler[t].pc # "idle", ~Launches(n)
        PROVE  \A u \in Handlers : Calm(u)'
    BY <1>3 DEF Calm, Becomes
  <1>4. ASSUME NEW t \in Handlers, Begin(t)
        PROVE  \A u \in Handlers : Calm(u)'
    <2>1. PICK h : MayBegin(t) /\ Starts(t, h) /\ Begun(h)
      BY <1>4, BeginFacts DEF Types, DataTypes
    <2>2. /\ SameWork(h, handler'[t])
          /\ \A u \in Handlers \ {t} : SameWork(handler[u], handler'[u])
      BY <2>1, StartFacts DEF Begun
    <2>3. /\ h.pc \in {"flush", "gate", "remove", "commit"}
          /\ h.op \notin ExchangeOps => h.copy = row
          /\ h.pc = "commit" => ~h.launch /\ (h.op = "delete_user" => h.copy = {})
          /\ UNCHANGED <<row, settled>>
      BY <2>1, Frames DEF Begun
    <2>4. Calm(t)'
      BY <2>2, <2>3 DEF Calm, Launches, SameWork, ExchangeOps
    <2>5. ASSUME NEW u \in Handlers \ {t}
          PROVE  Calm(u)'
      BY <2>2, <2>3 DEF Calm, Launches, SameWork
    <2>6. QED
      BY <2>4, <2>5
  <1>5. ASSUME NEW t \in Handlers, Step(t)
        PROVE  \A u \in Handlers : Calm(u)'
    <2>1. CASE Flush(t)
      <3>1. PICK n : /\ Becomes(t, n)
                     /\ n.op = handler[t].op
                     /\ n.pc \in {"gate", "commit"} /\ (n.pc = "commit" => ~n.launch)
                     /\ n.copy = IF n.op = "update_config" THEN handler[t].copy ELSE row
        BY <2>1, FlushFacts
      <3>2. UNCHANGED <<row, settled>> /\ handler[t].pc = "flush"
        BY <2>1, Frames
      <3>3. n.op # "delete_user"
        BY <3>1, <3>2 DEF Types, HandlerTypes, Local, Phase, ExchangeOps
      <3>4. Calm(t)'
        BY <3>1, <3>2, <3>3 DEF Calm, Launches, Becomes
      <3>5. ASSUME NEW u \in Handlers \ {t}
            PROVE  Calm(u)'
        BY <3>1, <3>2 DEF Calm, Becomes
      <3>6. QED
        BY <3>4, <3>5
    <2>2. CASE Gate(t)
      BY <1>3, <2>2, GateFacts, GateAt, Frames DEF Keyed, Launches
    <2>3. CASE Render(t) \/ RemoveContainer(t) \/ DockerFails(t)
      BY <1>2, <2>3, Frames
    <2>4. CASE Write(t) \/ Run(t)
      <3>1. handler[t].pc \in {"write", "run"} /\ settled' = settled
        BY <2>4, Frames
      <3>2. ~settled /\ settled \in BOOLEAN
        BY <3>1 DEF Calm, Launches, Types, DataTypes
      <3>3. QED
        BY <1>2, <3>1, <3>2
    <2>5. CASE Quiet(t)
      <3>1. Becomes(t, NoHandler) /\ UNCHANGED <<row, settled>>
        BY <2>5, EndFacts, Frames DEF Types, Ending, Quiet
      <3>2. QED
        BY <3>1, NoHandlerFacts DEF Calm, Launches, Becomes
    <2>6. CASE Commit(t)
      <3>1. Becomes(t, NoHandler)
        BY <2>6, EndFacts DEF Types, Ending
      <3>2. Calm(t)'
        BY <3>1, NoHandlerFacts DEF Calm, Launches, Becomes
      <3>3. ASSUME settled, NEW u \in Handlers \ {t}
            PROVE  Calm(u)'
        <4>1. handler'[u] = handler[u] /\ settled' = TRUE
          BY <2>6, <3>1, <3>3 DEF Becomes, Commit
        <4>2. CASE row' = row
          BY <3>3, <4>1, <4>2 DEF Calm
        <4>3. CASE handler[t].op = "update_config" /\ row # {}
          BY <3>3, <4>1, <4>3 DEF Calm, OneConfig
        <4>4. QED
          BY <2>6, <3>3, <4>2, <4>3, CalmCommit
      <3>4. ASSUME ~settled, settled', NEW u \in Handlers \ {t}
            PROVE  Calm(u)'
        <4>1. handler[t].alone
          BY <2>6, <3>4 DEF Commit
        <4>2. handler'[u] = handler[u] /\ handler[u].pc = "idle"
          BY <3>1, <4>1 DEF Lone, Becomes
        <4>3. QED
          BY <4>2 DEF Calm, Launches
      <3>5. ~settled' => \A u \in Handlers : Calm(u)'
        BY DEF Calm
      <3>6. QED
        BY <3>2, <3>3, <3>4, <3>5
    <2>7. QED
      BY <1>5, <2>1, <2>2, <2>3, <2>4, <2>5, <2>6 DEF Step, Quiet
  <1>6. ASSUME NEW q \in Requests, Serves(q)
        PROVE  \A u \in Handlers : Calm(u)'
    BY <1>1, <1>6, RequestFrame
  <1>7. CASE Restart \/ Expire
    BY <1>1, <1>7 DEF Restart, Expire
  <1>8. CASE Crash
    BY <1>8, NoHandlerFacts DEF Crash, Calm, Launches
  <1>9. QED
    BY <1>4, <1>5, <1>6, <1>7, <1>8 DEF Next, Serves

-----------------------------------------------------------------------------
(* The agreement of row, key, config.json and container. *)

LEMMA WrittenByLaunch ==
    ASSUME RowTypes, NEW h, h.launch, h.copy = row,
           h.op # "update_config" => \A c \in h.copy : h.blob = c.blob
    PROVE  Written(h) = {[dry_run |-> h.dry_run, blob |-> h.blob, creds |-> h.creds]}
  <1>1. CASE row = {}
    BY <1>1 DEF Written
  <1>2. CASE row # {}
    <2>0. PICK c : c \in row
      BY <1>2
    <2>1. row = {c}
      BY <2>0 DEF RowTypes, AtMostOne
    <2> DEFINE dry(r) == IF \E d \in h.copy : d.dry_run = h.dry_run THEN r.dry_run ELSE h.dry_run
               blob(r) == IF h.op = "update_config" THEN h.blob ELSE r.blob
               creds(r) == IF h.launch THEN h.creds ELSE r.creds
    <2>2. Written(h) = {[dry_run |-> dry(r), blob |-> blob(r), creds |-> creds(r)] : r \in row}
      BY <1>2 DEF Written
    <2>3. dry(c) = h.dry_run /\ blob(c) = h.blob /\ creds(c) = h.creds
      BY <2>1
    <2> HIDE DEF dry, blob, creds
    <2>4. QED
      BY <2>1, <2>2, <2>3
  <1>3. QED
    BY <1>1, <1>2

(* The commit of a launch that was alone. *)
LEMMA LaunchAgrees ==
    ASSUME Types, NEW t \in Handlers, Lone(t), Reads(t), Commit(t),
           handler[t].alone, handler[t].launch
    PROVE  Agreement'
  <1> DEFINE h == handler[t]
  <1>1. Local(h) /\ h.pc = "commit"
    BY Frames DEF Types, HandlerTypes
  <1>2. h.op # "delete_user"
    BY <1>1 DEF Local, Phase
  <1>3. h.copy = row
    BY <1>1 DEF Lone, Reads
  <1>4. file = {Rendered(h.dry_run, h.blob, h.keys)}
    BY <1>1 DEF Lone
  <1>5. container = {Launched(h.creds, h.keys, h.blob, file)}
    BY <1>1 DEF Lone
  <1>6. exch' = h.keys
    <2>1. CASE h.op \in ExchangeOps
      BY <1>2, <2>1 DEF Commit, ExchangeOps
    <2>2. CASE h.op \notin ExchangeOps
      BY <1>1, <1>2, <2>2 DEF Commit, Lone, ExchangeOps
    <2>3. QED
      BY <2>1, <2>2
  <1>7. row' = {[dry_run |-> h.dry_run, blob |-> h.blob, creds |-> h.creds]}
    <2>1. h.op # "update_config" => \A c \in h.copy : h.blob = c.blob
      BY <1>1 DEF Local, Copies
    <2>2. row' = Written(h)
      BY DEF Commit, WritesRow
    <2>3. QED
      BY <1>3, <2>1, <2>2, WrittenByLaunch DEF Types, DataTypes
  <1>8. UNCHANGED <<file, container>>
    BY Frames
  <1>9. ~h.dry_run => h.keys # {}
    BY <1>1 DEF Local, Gated
  <1>10. \A r \in row' : r.dry_run = h.dry_run /\ r.blob = h.blob /\ r.creds = h.creds
    BY <1>7
  <1> HIDE DEF h
  <1>11. QED
    BY <1>4, <1>5, <1>6, <1>7, <1>8, <1>9, <1>10 DEF Agreement

(* update_config stores settings that make the same config.json. *)
LEMMA SettingsAgree ==
    ASSUME Types, Agreement, NEW h, Local(h), h.op = "update_config", ~h.launch,
           h.copy = row, row # {}, row' = Written(h), UNCHANGED <<exch, file, container>>
    PROVE  Agreement'
  <1>a. AtMostOne(row)
    BY DEF Types, DataTypes, RowTypes
  <1>1. PICK c : row = {c}
    <2>1. PICK c : c \in row
      OBVIOUS
    <2>2. row = {c}
      BY <1>a, <2>1 DEF AtMostOne
    <2>3. QED
      BY <2>2
  <1>2. SameSettings(h) /\ c.dry_run = h.dry_run
    BY <1>1 DEF Local, Copies
  <1>3. /\ \A keys : Rendered(h.dry_run, c.blob, keys) = Rendered(h.dry_run, h.blob, keys)
        /\ StrategyOf(Effective(c.blob)) = StrategyOf(Effective(h.blob))
    BY <1>1, <1>2 DEF SameSettings
  <1>4. row' = {[dry_run |-> c.dry_run, blob |-> h.blob, creds |-> c.creds]}
    <2>1. \E d \in h.copy : d.dry_run = h.dry_run
      BY <1>1, <1>2
    <2>2. Written(h) = {[dry_run |-> r.dry_run, blob |-> h.blob, creds |-> r.creds] : r \in row}
      BY <2>1 DEF Written
    <2>3. QED
      BY <1>1, <2>2
  <1>5. /\ ~c.dry_run => exch # {}
        /\ file = {Rendered(c.dry_run, c.blob, exch)}
        /\ container = {Launched(c.creds, exch, c.blob, file)}
    BY <1>1 DEF Agreement
  <1>6. Launched(c.creds, exch, c.blob, file) = Launched(c.creds, exch, h.blob, file)
    BY <1>3 DEF Launched
  <1>7. file = {Rendered(c.dry_run, h.blob, exch)}
    BY <1>2, <1>3, <1>5
  <1>8. container = {Launched(c.creds, exch, h.blob, file)}
    BY <1>5, <1>6
  <1>9. \A r \in row' : r.dry_run = c.dry_run /\ r.blob = h.blob /\ r.creds = c.creds
    BY <1>4
  <1>10. QED
    BY <1>4, <1>5, <1>7, <1>8, <1>9 DEF Agreement

LEMMA CommitAgrees ==
    ASSUME Types, NEW t \in Handlers, Lone(t), Reads(t), Calm(t), LoneLaunchAgrees, Commit(t)
    PROVE  LoneLaunchAgrees'
  <1> DEFINE h == handler[t]
  <1>1. Local(h) /\ h.pc = "commit" /\ UNCHANGED <<file, container>>
    BY Frames DEF Types, HandlerTypes
  <1>2. ASSUME ~settled, settled'
        PROVE  Agreement'
    <2>1. h.alone /\ (h.launch \/ (h.op = "delete_user" /\ h.copy # {}))
      BY <1>2 DEF Commit
    <2>2. CASE h.launch
      BY <2>1, <2>2, LaunchAgrees
    <2>3. CASE ~h.launch
      <3>1. row' = {} /\ container' = {}
        BY <1>1, <2>1, <2>3 DEF Commit, WritesRow, Lone
      <3>2. QED
        BY <3>1 DEF Agreement
    <2>4. QED
      BY <2>2, <2>3
  <1>3. ASSUME settled
        PROVE  Agreement'
    <2>1. Agreement
      BY <1>3 DEF LoneLaunchAgrees
    <2>2. ~h.launch /\ ~(h.op = "delete_user" /\ h.copy # {})
      BY <1>1, <1>3 DEF Calm, Launches
    <2>3. CASE h.op = "update_config"
      <3>1. exch' = exch
        BY <2>3 DEF Commit
      <3>2. h.copy # {}
        BY <1>1, <2>3 DEF Local, Phase
      <3>3. h.copy = row /\ row # {} /\ row' = Written(h)
        BY <1>1, <1>3, <2>2, <2>3, <3>2 DEF Calm, Commit, WritesRow
      <3>4. QED
        BY <1>1, <2>1, <2>2, <2>3, <3>1, <3>3, SettingsAgree
    <2>4. CASE h.op # "update_config"
      <3>1. row' = row
        BY <2>2, <2>4 DEF Commit, WritesRow
      <3>2. CASE h.op \in ExchangeOps
        <4>1. row = {}
          BY <1>1, <2>2, <3>2 DEF Local, Copies, Reads
        <4>2. QED
          BY <1>1, <2>1, <3>1, <4>1 DEF Agreement
      <3>3. CASE h.op = "delete_user"
        <4>1. row = {}
          BY <1>1, <1>3, <2>2, <3>3 DEF Calm
        <4>2. QED
          BY <1>1, <2>1, <3>1, <4>1 DEF Agreement
      <3>4. h.op \in ExchangeOps \/ h.op = "delete_user"
        BY <1>1, <2>2, <2>4 DEF Local, Phase
      <3>5. QED
        BY <3>2, <3>3, <3>4
    <2>5. QED
      BY <2>3, <2>4
  <1>4. QED
    BY <1>2, <1>3 DEF LoneLaunchAgrees, Types, DataTypes

LEMMA AgreementKept ==
    ASSUME Types, Files, \A t \in Handlers : Lone(t) /\ Reads(t) /\ Calm(t), LoneLaunchAgrees, Next
    PROVE  LoneLaunchAgrees'
  <1>1. ASSUME UNCHANGED <<row, exch, file, container, settled>>
        PROVE  LoneLaunchAgrees'
    BY <1>1 DEF LoneLaunchAgrees, Agreement
  <1>2. ASSUME settled' = FALSE
        PROVE  LoneLaunchAgrees'
    BY <1>2 DEF LoneLaunchAgrees
  <1>3. ASSUME NEW t \in Handlers, Begin(t)
        PROVE  LoneLaunchAgrees'
    <2>1. PICK h : Starts(t, h)
      BY <1>3, BeginFacts DEF Types, DataTypes
    <2>2. QED
      BY <1>1, <2>1, Frames
  <1>4. ASSUME NEW t \in Handlers, Step(t)
        PROVE  LoneLaunchAgrees'
    <2>1. CASE Flush(t) \/ Gate(t) \/ Quiet(t)
      BY <1>1, <2>1, Frames
    <2>2. CASE Render(t) \/ RemoveContainer(t) \/ DockerFails(t)
      BY <1>2, <2>2, Frames
    <2>3. CASE Write(t) \/ Run(t)
      <3>1. handler[t].pc \in {"write", "run"} /\ settled' = settled
        BY <2>3, Frames
      <3>2. ~settled /\ settled \in BOOLEAN
        BY <3>1 DEF Calm, Launches, Types, DataTypes
      <3>3. QED
        BY <1>2, <3>1, <3>2
    <2>4. CASE Commit(t)
      BY <2>4, CommitAgrees
    <2>5. QED
      BY <1>4, <2>1, <2>2, <2>3, <2>4 DEF Step, Quiet
  <1>5. ASSUME NEW q \in Requests, Serves(q)
        PROVE  LoneLaunchAgrees'
    BY <1>1, <1>5, RequestFrame
  <1>6. CASE Restart
    <2>1. UNCHANGED <<row, exch, file, settled>> /\ container # {}
      BY <1>6 DEF Restart
    <2>2. SUFFICES ASSUME Agreement
                   PROVE  Agreement'
      BY <2>1 DEF LoneLaunchAgrees
    <2>3. ASSUME NEW r \in row
          PROVE  container' = {Launched(r.creds, exch, r.blob, file)}
      <3>1. container = {Launched(r.creds, exch, r.blob, file)}
        BY <2>2, <2>3 DEF Agreement
      <3>2. QED
        BY <1>6, <3>1, Reloaded
    <2>4. row # {}
      BY <2>1, <2>2 DEF Agreement
    <2>5. QED
      BY <2>1, <2>2, <2>3, <2>4 DEF Agreement
  <1>7. CASE Crash \/ Expire
    BY <1>1, <1>7 DEF Crash, Expire
  <1>8. QED
    BY <1>3, <1>4, <1>5, <1>6, <1>7 DEF Next, Serves

LEMMA LoneInit ==
    ASSUME Init
    PROVE  /\ \A t \in Handlers : Lone(t) /\ Reads(t) /\ Calm(t)
           /\ OneConfig /\ LoneLaunchAgrees
  <1>1. \A t \in Handlers : handler[t] = NoHandler
    BY DEF Init
  <1>2. \A t \in Handlers : Lone(t) /\ Reads(t) /\ Calm(t)
    BY <1>1, NoHandlerFacts DEF Lone, Reads, Calm, Launches
  <1>3. OneConfig
    BY <1>1, NoHandlerFacts DEF OneConfig
  <1>4. Agreement
    <2>1. CASE row = {} /\ container = {} /\ file = {}
      BY <2>1 DEF Agreement
    <2>2. ASSUME NEW b \in Blobs, row = {[dry_run |-> TRUE, blob |-> b, creds |-> 0]},
                 file = {Rendered(TRUE, b, exch)},
                 container = {Launched(0, exch, b, file)}
          PROVE  Agreement
      <3>1. \A r \in row : r.dry_run = TRUE /\ r.blob = b /\ r.creds = 0
        BY <2>2
      <3>2. row # {}
        BY <2>2
      <3>3. QED
        BY <2>2, <3>1, <3>2 DEF Agreement
    <2>3. QED
      BY <2>1, <2>2 DEF Init
  <1>5. QED
    BY <1>2, <1>3, <1>4 DEF LoneLaunchAgrees

(* Where a launch that nobody overlaps stands, from its check to its        *)
(* commit, and what the last settled launch left in place.                 *)
THEOREM LoneInvHolds == Spec => []LoneInv
  <1>1. Init /\ SafeInv => LoneInv
    BY LoneInit DEF LoneInv
  <1>2. LoneInv /\ SafeInv' /\ [Next]_vars => LoneInv'
    <2>1. SUFFICES ASSUME LoneInv, SafeInv', [Next]_vars
                   PROVE  LoneInv'
      OBVIOUS
    <2>2. CASE Next
      <3>1. /\ Types /\ Files /\ \A t \in Handlers : Lone(t) /\ Reads(t) /\ Calm(t)
            /\ OneConfig /\ LoneLaunchAgrees
        BY <2>1 DEF LoneInv, SafeInv
      <3>2. \A t \in Handlers : Lone(t)' /\ Reads(t)' /\ Calm(t)'
        BY <2>2, <3>1, LoneKept, ReadsKept, CalmKept
      <3>3. OneConfig' /\ LoneLaunchAgrees'
        BY <2>2, <3>1, OneConfigKept, AgreementKept
      <3>4. QED
        BY <2>1, <3>2, <3>3 DEF LoneInv
    <2>3. CASE UNCHANGED vars
      BY <2>1, <2>3 DEF LoneInv, vars, Lone, Reads, Calm, OneConfig, LoneLaunchAgrees, Agreement
    <2>4. QED
      BY <2>1, <2>2, <2>3
  <1>3. QED
    BY <1>1, <1>2, SafeInvHolds, PTL DEF Spec

(* A launch that completed with no other handler about leaves the row, the  *)
(* key, config.json and the container in agreement, whatever launches      *)
(* before it left behind.                                                  *)
THEOREM LoneLaunchHolds == Spec => []LoneLaunchAgrees
  <1>1. LoneInv => LoneLaunchAgrees
    BY DEF LoneInv
  <1>2. QED
    BY <1>1, LoneInvHolds, PTL

-----------------------------------------------------------------------------
(* Requests that began while row and container agreed. *)

FreshIn(r) ==
    /\ r.fresh /\ r.pc \notin {"idle", "done"} =>
          settled /\ \E c \in Listening : c.creds = r.creds
    /\ r.fresh /\ r.pc = "done" => r.answer = "ok"
    /\ r.retried /\ r.pc = "call" => r.tok = r.creds

FreshInv == \A q \in Requests : FreshIn(request[q])

LEMMA FreshMoves ==
    ASSUME Types, FreshInv, NEW q \in Requests, NEW r, Moves(q, r), FreshIn(r)
    PROVE  FreshInv'
  <1>1. /\ container' = container /\ settled' = settled
        /\ \A p \in Requests : request'[p] = IF p = q THEN r ELSE request[p]
    BY DEF Moves, Keeps, Types, DataTypes
  <1>2. QED
    BY <1>1 DEF FreshInv, FreshIn, Listening

(* A container that a settled launch left has read its config.json. *)
LEMMA SettledListens ==
    ASSUME LoneLaunchAgrees, settled
    PROVE  \A r \in row : \E c \in container : c.creds = r.creds /\ c.loaded = file /\ file # {}
  <1>1. SUFFICES ASSUME NEW r \in row
                 PROVE  \E c \in container : c.creds = r.creds /\ c.loaded = file /\ file # {}
    OBVIOUS
  <1>2. /\ file = {Rendered(r.dry_run, r.blob, exch)}
        /\ container = {Launched(r.creds, exch, r.blob, file)}
    BY DEF LoneLaunchAgrees, Agreement
  <1>3. /\ Launched(r.creds, exch, r.blob, file).creds = r.creds
        /\ Launched(r.creds, exch, r.blob, file).loaded = file
    BY DEF Launched
  <1>4. QED
    BY <1>2, <1>3

(* What the steps of a request make of it. *)
LEMMA RequestMoves ==
    ASSUME Types, NEW q \in Requests
    PROVE  LET r == request[q] IN
           /\ \A a, f : LET n == [NoRequest EXCEPT !.pc = "done", !.answer = a, !.fresh = f] IN
                 n.pc = "done" /\ n.answer = a /\ n.fresh = f
           /\ \A p : LET n == [r EXCEPT !.pc = p] IN
                 /\ n.pc = p /\ n.creds = r.creds /\ n.fresh = r.fresh /\ n.retried = r.retried
           /\ LET n == [r EXCEPT !.pc = "call", !.tok = r.creds] IN
                 /\ n.pc = "call" /\ n.creds = r.creds /\ n.tok = r.creds /\ n.fresh = r.fresh
           /\ LET n == [r EXCEPT !.pc = "login", !.retried = TRUE] IN
                 /\ n.pc = "login" /\ n.creds = r.creds /\ n.fresh = r.fresh
  BY DEF Types, DataTypes, RequestStates, NoRequest

LEMMA FreshServes ==
    ASSUME Types, FreshInv, LoneLaunchAgrees, NEW q \in Requests, Serves(q)
    PROVE  FreshInv'
  <1> DEFINE r == request[q]
             ended(a, f) == [NoRequest EXCEPT !.pc = "done", !.answer = a, !.fresh = f]
  <1>0. FreshIn(r) /\ r.fresh \in BOOLEAN /\ r.retried \in BOOLEAN /\ AtMostOne(container)
    BY DEF FreshInv, Types, DataTypes, RequestStates
  <1>1. \A a, f : (f => a = "ok") => FreshIn(ended(a, f))
    BY RequestMoves DEF FreshIn
  <1>2. CASE BeginRequest(q)
    <2>1. PICK o \in row :
             Moves(q, [NoRequest EXCEPT
                 !.pc = IF token = {} THEN "login" ELSE "call", !.creds = o.creds,
                 !.tok = IF token = {} THEN 0 ELSE CHOOSE c \in token : TRUE,
                 !.fresh = settled])
      BY <1>2 DEF BeginRequest
    <2> DEFINE pc == IF token = {} THEN "login" ELSE "call"
               tok == IF token = {} THEN 0 ELSE CHOOSE c \in token : TRUE
               n == [NoRequest EXCEPT !.pc = pc, !.creds = o.creds, !.tok = tok, !.fresh = settled]
    <2>2. pc \in {"login", "call"} /\ Moves(q, n)
      BY <2>1
    <2>3. settled => \E c \in Listening : c.creds = o.creds
      BY SettledListens DEF Listening
    <2> HIDE DEF pc, tok
    <2>4. n.pc = pc /\ n.creds = o.creds /\ n.fresh = settled /\ n.retried = FALSE
      BY DEF NoRequest
    <2> HIDE DEF n
    <2>5. FreshIn(n)
      BY <2>2, <2>3, <2>4 DEF FreshIn
    <2>6. QED
      BY <2>2, <2>5, FreshMoves
  <1>3. CASE Login(q)
    <2>1. CASE \E c \in Listening : c.creds = r.creds
      <3> DEFINE n == [r EXCEPT !.pc = "token"]
      <3>1. /\ n.pc = "token" /\ n.creds = r.creds /\ n.fresh = r.fresh
            /\ r.pc = "login" /\ Moves(q, n)
        BY <1>3, <2>1, RequestMoves DEF Login
      <3> HIDE DEF n
      <3>2. FreshIn(n)
        BY <1>0, <3>1 DEF FreshIn
      <3>3. QED
        BY <3>1, <3>2, FreshMoves
    <2>2. CASE ~(\E c \in Listening : c.creds = r.creds)
      <3>1. r.pc = "login" /\ Moves(q, ended("error", r.fresh))
        BY <1>3, <2>2 DEF Login, Ends
      <3>2. ~r.fresh
        BY <1>0, <2>2, <3>1 DEF FreshIn
      <3>3. FreshIn(ended("error", r.fresh))
        BY <1>1, <3>2
      <3>4. QED
        BY <3>1, <3>3, FreshMoves
    <2>3. QED
      BY <2>1, <2>2
  <1>4. CASE CacheToken(q)
    <2>1. r.pc = "token"
      BY <1>4 DEF CacheToken
    <2>2. FreshIn([r EXCEPT !.pc = "call", !.tok = r.creds])
      BY <1>0, <2>1, RequestMoves DEF FreshIn
    <2>3. QED
      BY <1>4, <2>2, FreshMoves DEF CacheToken
  <1>5. CASE Call(q)
    <2>1. r.pc = "call"
      BY <1>5 DEF Call
    <2>2. CASE Listening = {}
      <3>1. ~r.fresh /\ Moves(q, ended("error", r.fresh))
        BY <1>0, <1>5, <2>1, <2>2 DEF FreshIn, Call, Ends
      <3>2. QED
        BY <1>1, <3>1, FreshMoves
    <2>3. CASE \E c \in Listening : c.creds = r.tok
      <3>1. Moves(q, ended("ok", r.fresh))
        BY <1>5, <2>3 DEF Call, Ends
      <3>2. QED
        BY <1>1, <3>1, FreshMoves
    <2>4. CASE ~(Listening = {}) /\ ~(\E c \in Listening : c.creds = r.tok) /\ ~r.retried
      <3>1. Moves(q, [r EXCEPT !.pc = "refused"])
        BY <1>5, <2>4 DEF Call, Retries
      <3>2. FreshIn([r EXCEPT !.pc = "refused"])
        BY <1>0, <2>1, RequestMoves DEF FreshIn
      <3>3. QED
        BY <3>1, <3>2, FreshMoves
    <2>5. CASE ~(Listening = {}) /\ ~(\E c \in Listening : c.creds = r.tok) /\ r.retried
      <3>1. ~r.fresh
        BY <1>0, <2>1, <2>5 DEF FreshIn
      <3>2. Moves(q, ended("refused", r.fresh))
        BY <1>5, <2>5 DEF Call, Retries, Ends
      <3>3. QED
        BY <1>1, <3>1, <3>2, FreshMoves
    <2>6. QED
      BY <1>0, <2>2, <2>3, <2>4, <2>5
  <1>6. CASE Refused(q)
    <2>1. r.pc = "refused"
      BY <1>6 DEF Refused
    <2>2. FreshIn([r EXCEPT !.pc = "login", !.retried = TRUE])
      BY <1>0, <2>1, RequestMoves DEF FreshIn
    <2>3. QED
      BY <1>6, <2>2, FreshMoves DEF Refused
  <1>7. CASE Unreachable(q)
    <2> DEFINE n == [NoRequest EXCEPT !.pc = "done", !.answer = "error"]
    <2>1. ~n.fresh /\ n.pc = "done" /\ Moves(q, n)
      BY <1>7 DEF Unreachable, NoRequest
    <2> HIDE DEF n
    <2>2. QED
      BY <2>1, FreshMoves DEF FreshIn
  <1>8. CASE Answered(q)
    <2>1. FreshIn(NoRequest) /\ Moves(q, NoRequest)
      BY <1>8 DEF Answered, FreshIn, NoRequest
    <2>2. QED
      BY <2>1, FreshMoves
  <1>9. QED
    BY <1>2, <1>3, <1>4, <1>5, <1>6, <1>7, <1>8 DEF Serves, Serve

LEMMA FreshKept ==
    ASSUME Types, Files, FreshInv, LoneLaunchAgrees, Next
    PROVE  FreshInv'
  <1>1. ASSUME UNCHANGED <<container, request>>, settled => settled'
        PROVE  FreshInv'
    BY <1>1 DEF FreshInv, FreshIn, Listening
  <1>2. ASSUME request' = Unfresh(request)
        PROVE  FreshInv'
    <2>1. \A q \in Requests : /\ request'[q].fresh = FALSE /\ request'[q].pc = request[q].pc
                             /\ request'[q].tok = request[q].tok
                             /\ request'[q].creds = request[q].creds
                             /\ request'[q].retried = request[q].retried
      BY <1>2 DEF Unfresh, Types, DataTypes, RequestStates
    <2>2. QED
      BY <2>1 DEF FreshInv, FreshIn
  <1>3. ASSUME NEW t \in Handlers, Begin(t)
        PROVE  FreshInv'
    <2>1. PICK h : Starts(t, h)
      BY <1>3, BeginFacts DEF Types, DataTypes
    <2>2. QED
      BY <1>1, <2>1, Frames
  <1>4. ASSUME NEW t \in Handlers, Step(t)
        PROVE  FreshInv'
    <2>1. CASE Flush(t) \/ Quiet(t) \/ Gate(t) \/ Write(t)
      BY <1>1, <2>1, Frames
    <2>2. CASE Commit(t)
      <3>1. settled => settled'
        BY <2>2 DEF Commit
      <3>2. QED
        BY <1>1, <2>2, <3>1, Frames
    <2>3. CASE Render(t) \/ Run(t) \/ RemoveContainer(t) \/ DockerFails(t)
      BY <1>2, <2>3, Frames
    <2>4. QED
      BY <1>4, <2>1, <2>2, <2>3 DEF Step, Quiet
  <1>5. ASSUME NEW q \in Requests, Serves(q)
        PROVE  FreshInv'
    BY <1>5, FreshServes
  <1>6. CASE Restart
    <2>1. UNCHANGED <<row, exch, file, settled, request>> /\ container # {}
      BY <1>6 DEF Restart
    <2>2. ASSUME settled
          PROVE  file # {}
      BY <2>1, <2>2 DEF LoneLaunchAgrees, Agreement
    <2>3. ASSUME settled, NEW k, NEW c \in container, c.creds = k
          PROVE  \E d \in Listening' : d.creds = k
      <3> DEFINE d == [c EXCEPT !.loaded = file]
      <3>1. d \in container'
        BY <1>6 DEF Restart
      <3>2. d.creds = k /\ d.loaded = file
        BY <2>3 DEF Files, IsContainer
      <3> HIDE DEF d
      <3>3. d \in Listening'
        BY <2>2, <2>3, <3>1, <3>2 DEF Listening
      <3>4. QED
        BY <3>2, <3>3
    <2>4. QED
      BY <2>1, <2>3 DEF FreshInv, FreshIn, Listening
  <1>7. CASE Crash
    BY <1>7 DEF Crash, FreshInv, FreshIn, NoRequest
  <1>8. CASE Expire
    BY <1>1, <1>8 DEF Expire
  <1>9. QED
    BY <1>3, <1>4, <1>5, <1>6, <1>7, <1>8 DEF Next, Serves

(* What forward holds of the bot's credentials at each of its awaits.      *)
THEOREM FreshInvHolds == Spec => []FreshInv
  <1>1. Init => FreshInv
    BY DEF Init, FreshInv, FreshIn, NoRequest
  <1>2. FreshInv /\ LoneInv /\ [Next]_vars => FreshInv'
    <2>1. FreshInv /\ LoneInv /\ Next => FreshInv'
      BY FreshKept DEF LoneInv, SafeInv
    <2>2. FreshInv /\ UNCHANGED vars => FreshInv'
      BY DEF vars, FreshInv, FreshIn, Listening
    <2>3. QED
      BY <2>1, <2>2
  <1>3. QED
    BY <1>1, <1>2, LoneInvHolds, PTL DEF Spec

(* A request that starts when the row and the container agree, and during   *)
(* which no launch changes them, is served, whatever token was cached.     *)
THEOREM FreshRequestsHold == Spec => []FreshRequestServed
  <1>1. FreshInv => FreshRequestServed
    BY DEF FreshInv, FreshIn, FreshRequestServed
  <1>2. QED
    BY <1>1, FreshInvHolds, PTL

-----------------------------------------------------------------------------
(* The settings of a bot, in its row and wherever a handler carries them,  *)
(* have values validation accepts; only the spelling of a pair may be one  *)
(* that it would refuse.  A bot's config.json is whole, unless it is being *)
(* written or was spoilt.                                                  *)

SoundBlob(blob) == Sound(blob, TRUE) /\ HasLists(Effective(blob))

HasWritten(h) == h.pc \in {"run", "commit"} /\ h.launch

Whole ==
    (row # {} \/ \E t \in Handlers : HasWritten(handler[t])) =>
        file # {} \/ Writing # {} \/ spoilt

SettingsInv ==
    /\ \A r \in row : SoundBlob(r.blob)
    /\ \A t \in Handlers : SoundBlob(handler[t].blob)
    /\ \A f \in file : Bootable(f)

(* What may be launched, boots. *)
LEMMA AcceptableBoots ==
    ASSUME NEW blob, SoundBlob(blob), NEW dry_run, NEW keys
    PROVE  Bootable(Rendered(dry_run, blob, keys))
  <1> DEFINE f == Rendered(dry_run, blob, keys)
             c == Effective(blob)
  <1>1. /\ ValidPairlist(c) /\ ValidRoiTable(c.roi_table) /\ ValidTrailing(c)
        /\ c.roi_table \in Seq(RoiSteps)
    BY DEF SoundBlob, Sound, HasLists, FieldValues
  <1>2. /\ f.minimal_roi = MinimalRoi(c.roi_table)
        /\ f.trailing_stop_positive \subseteq c.trailing_stop_positive
        /\ \A o \in f.trailing_stop_positive_offset :
              o = c.trailing_stop_positive_offset /\ c.trailing_stop_positive_offset > 0
        /\ f.volume = IF c.pairlist_mode = "volume" THEN {c.volume_number_assets} ELSE {}
        /\ f.pair_whitelist = IF c.pairlist_mode = "volume" THEN << >> ELSE c.pairs
    BY DEF Rendered, BuildBotConfig
  <1> HIDE DEF f, c
  <1>3. 0 \in DOMAIN f.minimal_roi
    BY <1>1, <1>2 DEF MinimalRoi, ValidRoiTable
  <1>4. ASSUME NEW m \in DOMAIN f.minimal_roi
        PROVE  f.minimal_roi[m] > 0
    <2> DEFINE s == CHOOSE s \in Range(c.roi_table) : s.minutes = m
    <2>1. f.minimal_roi[m] = s.roi /\ m \in Minutes(c.roi_table)
      BY <1>2, <1>4 DEF MinimalRoi
    <2>2. \E x \in Range(c.roi_table) : x.minutes = m
      BY <2>1 DEF Minutes, Range
    <2>3. s \in Range(c.roi_table)
      BY <2>2, Zenon
    <2> HIDE DEF s
    <2>4. s.roi \in 1..500
      BY <1>1, <2>3 DEF ValidRoiTable, Range
    <2>5. QED
      BY <2>1, <2>4
  <1>5. \A q \in f.trailing_stop_positive, o \in f.trailing_stop_positive_offset : o > q
    BY <1>1, <1>2 DEF ValidTrailing
  <1>6. f.volume = {} => f.pair_whitelist # << >>
    BY <1>1, <1>2 DEF ValidPairlist
  <1>7. Bootable(f)
    BY <1>3, <1>4, <1>5, <1>6 DEF Bootable
  <1>8. QED
    BY <1>7 DEF f

LEMMA NoHandlerIsSound == SoundBlob(NoHandler.blob)
  <1>1. NoHandler.blob = [k \in {} |-> 0]
    BY DEF NoHandler
  <1>2. QED
    BY <1>1, DefaultsAreAcceptable DEF SoundBlob, Acceptable

(* What update_config stores is sound, whatever the owner sends. *)
LEMMA FromSettingsIsSound ==
    ASSUME RowTypes, \A r \in row : SoundBlob(r.blob), NEW b, FromSettings(b)
    PROVE  SoundBlob(b)
  <1>1. ASSUME NEW r \in row, NEW payload \in Payloads,
               Acceptable(Overlaid(Effective(r.blob), payload), r.dry_run),
               b = Normalised(Overlaid(Effective(r.blob), payload))
        PROVE  SoundBlob(b)
    <2> DEFINE merged == Overlaid(Effective(r.blob), payload)
    <2>1. HasLists(Effective(merged))
      BY OverlaidFacts, PayloadsAssumption DEF SoundBlob
    <2>2. Acceptable(merged, TRUE)
      BY <1>1 DEF RowTypes, Acceptable, Sound
    <2> HIDE DEF merged
    <2>3. Sound(Normalised(merged), TRUE) /\ HasLists(Effective(Normalised(merged)))
      BY <2>1, <2>2, NormalisedIsSound
    <2>4. QED
      BY <1>1, <2>3 DEF SoundBlob, merged
  <1>2. QED
    BY <1>1, NoHandlerIsSound DEF FromSettings

LEMMA SettingsBegin ==
    ASSUME Types, SettingsInv, NEW t \in Handlers, Begin(t)
    PROVE  SettingsInv'
  <1>1. PICK h : MayBegin(t) /\ Starts(t, h) /\ Begun(h)
    BY BeginFacts DEF Types, DataTypes
  <1>2. SoundBlob(h.blob)
    BY <1>1, FromSettingsIsSound DEF Begun, Types, DataTypes, SettingsInv
  <1>3. \A u \in Handlers : handler'[u].blob \in {h.blob, handler[u].blob}
    BY <1>1, StartFacts DEF SameWork, Begun
  <1>4. row' = row /\ file' = file
    BY <1>1, Frames
  <1>5. QED
    BY <1>2, <1>3, <1>4 DEF SettingsInv

LEMMA SettingsWritten ==
    ASSUME SettingsInv, NEW h, SoundBlob(h.blob)
    PROVE  \A r \in Written(h) : SoundBlob(r.blob)
  <1>1. CASE h.copy = {}
    BY <1>1 DEF Written
  <1>2. CASE h.copy # {}
    <2> DEFINE dry(r) == IF \E c \in h.copy : c.dry_run = h.dry_run THEN r.dry_run ELSE h.dry_run
               blob(r) == IF h.op = "update_config" THEN h.blob ELSE r.blob
               creds(r) == IF h.launch THEN h.creds ELSE r.creds
    <2>1. Written(h) = {[dry_run |-> dry(r), blob |-> blob(r), creds |-> creds(r)] : r \in row}
      BY <1>2 DEF Written
    <2>2. \A r \in row : SoundBlob(blob(r))
      BY DEF SettingsInv
    <2> HIDE DEF dry, blob, creds
    <2>3. QED
      BY <2>1, <2>2
  <1>3. QED
    BY <1>1, <1>2

LEMMA SettingsStep ==
    ASSUME Types, SettingsInv, NEW t \in Handlers, Step(t)
    PROVE  SettingsInv'
  <1>0. SoundBlob(handler[t].blob)
    BY DEF SettingsInv
  <1>1. ASSUME NEW n, Becomes(t, n), SoundBlob(n.blob)
        PROVE  \A u \in Handlers : SoundBlob(handler'[u].blob)
    BY <1>1 DEF Becomes, SettingsInv
  <1>2. CASE Flush(t)
    <2>1. PICK n : Becomes(t, n) /\ ReadsBlob(handler[t], n)
      BY <1>2, FlushFacts
    <2>2. SoundBlob(n.blob)
      BY <1>0, <2>1, NoHandlerIsSound DEF SettingsInv, ReadsBlob
    <2>3. row' = row /\ file' = file
      BY <1>2, Frames
    <2>4. QED
      BY <1>1, <2>1, <2>2, <2>3 DEF SettingsInv
  <1>3. CASE Gate(t)
    <2>1. PICK n : Becomes(t, n) /\ n.blob = handler[t].blob
      BY <1>3, GateFacts DEF Keyed
    <2>2. row' = row /\ file' = file
      BY <1>3, Frames
    <2>3. QED
      BY <1>0, <1>1, <2>1, <2>2 DEF SettingsInv
  <1>4. CASE Render(t)
    <2>1. PICK n : Becomes(t, n) /\ n.blob = handler[t].blob
      BY <1>4, RenderFacts DEF Keyed
    <2>2. row' = row /\ file' = {}
      BY <1>4, Frames
    <2>3. QED
      BY <1>0, <1>1, <2>1, <2>2 DEF SettingsInv
  <1>a. CASE Write(t)
    <2> DEFINE h == handler[t]
    <2>1. PICK n : Becomes(t, n) /\ n.blob = h.blob
      BY <1>a, WriteFacts DEF Moved
    <2>2. row' = row /\ file' \in {{Rendered(h.dry_run, h.blob, h.keys)}, {}}
      BY <1>a, Frames, WriteFacts
    <2>3. Bootable(Rendered(h.dry_run, h.blob, h.keys))
      BY <1>0, AcceptableBoots
    <2>4. QED
      BY <1>0, <1>1, <2>1, <2>2, <2>3 DEF SettingsInv
  <1>5. CASE Run(t) \/ RemoveContainer(t)
    <2>1. PICK n : Becomes(t, n) /\ n.blob = handler[t].blob
      BY <1>5, RunFacts DEF Moved
    <2>2. row' = row /\ file' = file
      BY <1>5, Frames
    <2>3. QED
      BY <1>0, <1>1, <2>1, <2>2 DEF SettingsInv
  <1>6. CASE Ending(t)
    <2>1. Becomes(t, NoHandler)
      BY <1>6, EndFacts DEF Types
    <2>2. \A u \in Handlers : SoundBlob(handler'[u].blob)
      BY <1>1, <2>1, NoHandlerIsSound
    <2>3. file' = file
      BY <1>6, Frames DEF Ending, Quiet
    <2>4. row' \in {Written(handler[t]), {}, row}
      <3>1. CASE Commit(t)
        BY <3>1 DEF Commit
      <3>2. CASE DockerFails(t) \/ Quiet(t)
        BY <3>2, Frames
      <3>3. QED
        BY <1>6, <3>1, <3>2 DEF Ending, Quiet
    <2>5. \A r \in row' : SoundBlob(r.blob)
      BY <1>0, <2>4, SettingsWritten DEF SettingsInv
    <2>6. QED
      BY <2>2, <2>3, <2>5 DEF SettingsInv
  <1>7. QED
    BY <1>2, <1>3, <1>4, <1>a, <1>5, <1>6 DEF Step, Ending

LEMMA SettingsKept ==
    ASSUME Types, SettingsInv, Next
    PROVE  SettingsInv'
  <1>1. ASSUME UNCHANGED <<row, file, handler>>
        PROVE  SettingsInv'
    BY <1>1 DEF SettingsInv
  <1>2. CASE Restart \/ Expire
    BY <1>1, <1>2 DEF Restart, Expire
  <1>3. CASE Crash
    <2>1. \A t \in Handlers : handler'[t] = NoHandler
      BY <1>3 DEF Crash
    <2>2. QED
      BY <1>3, <2>1, NoHandlerIsSound DEF Crash, SettingsInv
  <1>4. ASSUME NEW q \in Requests, Serves(q)
        PROVE  SettingsInv'
    BY <1>1, <1>4, RequestFrame
  <1>5. QED
    BY <1>2, <1>3, <1>4, SettingsBegin, SettingsStep DEF Next, Serves

LEMMA SettingsInit ==
    ASSUME Init
    PROVE  SettingsInv
  <1>1. \A t \in Handlers : handler[t] = NoHandler
    BY DEF Init
  <1>2. CASE row = {} /\ file = {}
    BY <1>1, <1>2, NoHandlerIsSound DEF SettingsInv
  <1>3. ASSUME NEW b \in Blobs, row = {[dry_run |-> TRUE, blob |-> b, creds |-> 0]},
               file = {Rendered(TRUE, b, exch)}
        PROVE  SettingsInv
    <2>1. SoundBlob(b)
      BY BlobsAssumption DEF SoundBlob
    <2>2. Bootable(Rendered(TRUE, b, exch))
      BY <2>1, AcceptableBoots
    <2>3. \A r \in row : SoundBlob(r.blob)
      BY <1>3, <2>1
    <2>4. QED
      BY <1>1, <1>3, <2>2, <2>3, NoHandlerIsSound DEF SettingsInv
  <1>4. QED
    BY <1>2, <1>3 DEF Init

(* The settings in the row and in every session have values validation      *)
(* accepts, whatever the owners send, and config.json is made from such.   *)
THEOREM SettingsInvHolds == Spec => []SettingsInv
  <1>1. Init => SettingsInv
    BY SettingsInit
  <1>2. Types /\ SettingsInv /\ [Next]_vars => SettingsInv'
    <2>1. SettingsInv /\ UNCHANGED vars => SettingsInv'
      BY DEF vars, SettingsInv
    <2>2. QED
      BY <2>1, SettingsKept
  <1>3. QED
    BY <1>1, <1>2, TypesHold, PTL DEF Spec

(* A step of t that neither writes config.json nor leaves the writing of it. *)
LEMMA WholeFrame ==
    ASSUME Whole, NEW t \in Handlers, NEW n, Becomes(t, n), UNCHANGED <<file, spoilt>>,
           handler[t].pc # "write",
           row' # {} => row # {} \/ HasWritten(handler[t]),
           HasWritten(n) => HasWritten(handler[t])
    PROVE  Whole'
  <1>1. \A u \in Handlers : HasWritten(handler'[u]) => HasWritten(handler[u])
    BY DEF Becomes
  <1>2. \A u \in Writing : u \in Writing'
    BY DEF Writing, Becomes
  <1>3. QED
    BY <1>1, <1>2 DEF Whole

LEMMA WholeStep ==
    ASSUME Types, Whole, NEW t \in Handlers, Step(t)
    PROVE  Whole'
  <1> DEFINE h == handler[t]
  <1>0. Local(h)
    BY DEF Types, HandlerTypes
  <1>1. CASE Flush(t)
    <2>1. PICK n : Becomes(t, n) /\ n.pc \in {"gate", "commit"} /\ (n.pc = "commit" => ~n.launch)
      BY <1>1, FlushFacts
    <2>2. UNCHANGED <<row, file, spoilt>> /\ h.pc = "flush"
      BY <1>1, Frames
    <2>3. QED
      BY <2>1, <2>2, WholeFrame DEF HasWritten
  <1>2. CASE Gate(t)
    <2>1. PICK n : Becomes(t, n) /\ n.pc = "render"
      BY <1>2, GateFacts DEF Keyed
    <2>2. UNCHANGED <<row, file, spoilt>> /\ h.pc = "gate"
      BY <1>2, Frames, GateAt
    <2>3. QED
      BY <2>1, <2>2, WholeFrame DEF HasWritten
  <1>3. CASE Render(t)
    <2>1. PICK n : Becomes(t, n) /\ n.pc = "write"
      BY <1>3, RenderFacts DEF Keyed
    <2>2. t \in Writing'
      BY <2>1 DEF Writing, Becomes
    <2>3. QED
      BY <2>2 DEF Whole
  <1>4. CASE Write(t)
    <2>1. spoilt' = spoilt
      BY <1>4, Frames
    <2>2. ~spoilt => file' # {}
      BY <1>4, WriteFacts
    <2>3. QED
      BY <2>1, <2>2 DEF Whole
  <1>5. CASE Run(t) \/ RemoveContainer(t)
    <2>1. PICK n : Becomes(t, n) /\ n.launch = h.launch
      BY <1>5, RunFacts DEF Moved
    <2>2. UNCHANGED <<row, file, spoilt>> /\ h.pc \in {"run", "remove"}
      BY <1>5, Frames
    <2>3. h.pc = "remove" => ~h.launch
      BY <1>0 DEF Local, Phase
    <2>4. QED
      BY <2>1, <2>2, <2>3, WholeFrame DEF HasWritten
  <1>6. CASE Ending(t)
    <2>1. Becomes(t, NoHandler) /\ ~HasWritten(NoHandler)
      BY <1>6, EndFacts, NoHandlerFacts DEF Types, HasWritten
    <2>2. UNCHANGED <<file, spoilt>>
      BY <1>6, Frames DEF Ending, Quiet
    <2>3. h.pc # "write"
      BY <1>6 DEF Ending, Commit, DockerFails, FlushFails, LockTimeout, GateRefuses, CommitFails
    <2>4. row' # {} => row # {} \/ HasWritten(h)
      <3>1. CASE Commit(t)
        <4>1. h.op = "update_config" => h.copy # {}
          BY <1>0 DEF Local, Phase
        <4>2. QED
          BY <3>1, <4>1 DEF Commit, Conflicts, WritesRow, HasWritten
      <3>2. CASE DockerFails(t) \/ Quiet(t)
        BY <3>2, Frames
      <3>3. QED
        BY <1>6, <3>1, <3>2 DEF Ending, Quiet
    <2>5. QED
      BY <2>1, <2>2, <2>3, <2>4, WholeFrame
  <1>7. QED
    BY <1>1, <1>2, <1>3, <1>4, <1>5, <1>6 DEF Step, Ending

LEMMA WholeKept ==
    ASSUME Types, Whole, Next
    PROVE  Whole'
  <1>1. ASSUME UNCHANGED <<row, file, spoilt, handler>>
        PROVE  Whole'
    BY <1>1 DEF Whole, Writing
  <1>2. CASE Restart \/ Expire
    BY <1>1, <1>2 DEF Restart, Expire
  <1>3. CASE Crash
    <2>1. \A t \in Handlers : handler'[t] = NoHandler
      BY <1>3 DEF Crash
    <2>2. \A t \in Handlers : ~HasWritten(handler'[t])
      BY <2>1, NoHandlerFacts DEF HasWritten
    <2>3. UNCHANGED <<row, file>> /\ (Writing # {} \/ spoilt => spoilt')
      BY <1>3 DEF Crash
    <2>4. QED
      BY <2>2, <2>3 DEF Whole
  <1>4. ASSUME NEW q \in Requests, Serves(q)
        PROVE  Whole'
    BY <1>1, <1>4, RequestFrame
  <1>5. ASSUME NEW t \in Handlers, Begin(t)
        PROVE  Whole'
    <2>1. PICK h : MayBegin(t) /\ Starts(t, h) /\ Begun(h)
      BY <1>5, BeginFacts DEF Types, DataTypes
    <2>2. /\ SameWork(h, handler'[t]) /\ handler[t].pc = "idle"
          /\ \A u \in Handlers \ {t} : SameWork(handler[u], handler'[u])
      BY <2>1, StartFacts DEF Begun
    <2>3. UNCHANGED <<row, file, spoilt>>
      BY <2>1, Frames
    <2>4. ~HasWritten(h)
      BY <2>1 DEF Begun, HasWritten
    <2>5. \A u \in Handlers : HasWritten(handler'[u]) => HasWritten(handler[u])
      BY <2>2, <2>4 DEF HasWritten, SameWork
    <2>6. \A u \in Writing : u \in Writing'
      BY <2>2 DEF Writing, SameWork
    <2>7. QED
      BY <2>3, <2>5, <2>6 DEF Whole
  <1>6. QED
    BY <1>2, <1>3, <1>4, <1>5, WholeStep DEF Next, Serves

(* A bot's config.json can be read, unless it is being written, its writer  *)
(* died or two wrote it at once.                                           *)
THEOREM WholeHolds == Spec => []Whole
  <1>1. Init => Whole
    <2>1. SUFFICES ASSUME Init
                   PROVE  Whole
      OBVIOUS
    <2>2. \A t \in Handlers : ~HasWritten(handler[t])
      BY <2>1, NoHandlerFacts DEF Init, HasWritten
    <2>3. row # {} => file # {}
      BY <2>1 DEF Init
    <2>4. QED
      BY <2>2, <2>3 DEF Whole
  <1>2. Types /\ Whole /\ [Next]_vars => Whole'
    <2>1. Whole /\ UNCHANGED vars => Whole'
      BY DEF vars, Whole, Writing
    <2>2. QED
      BY <2>1, WholeKept
  <1>3. QED
    BY <1>1, <1>2, TypesHold, PTL DEF Spec

(* Whatever owners save, and whatever requests overlap, fail or crash, what *)
(* can be read from config.json is something that Freqtrade boots with, and *)
(* only a torn write leaves nothing.                                       *)
THEOREM FileBootsHolds == Spec => []FileBoots
  <1>1. SettingsInv /\ Whole => FileBoots
    BY DEF SettingsInv, Whole, FileBoots
  <1>2. QED
    BY <1>1, SettingsInvHolds, WholeHolds, PTL

=============================================================================
