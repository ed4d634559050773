---------------------------- MODULE Provisioning ----------------------------
(***************************************************************************)
(* One user's bot as the provisioning routes see it: its row and exchange  *)
(* credentials in the database, config.json on the host's disk, and the    *)
(* container with the secrets it was created with.                         *)
(*                                                                         *)
(* The routes of routers/admin.py are synchronous: each runs in a thread   *)
(* of its own, on a session of its own, without the bot's command lock.    *)
(* update_config holds that lock, against other requests of its kind only. *)
(* A handler moves through                                                 *)
(*                                                                         *)
(*   idle -> (flush) -> gate -> render -> write -> run -> commit -> idle   *)
(*                                                                         *)
(* and works on what its session loaded.  SQLite lets one session write at *)
(* a time, from its first flush to its commit or rollback.                 *)
(*                                                                         *)
(* Requests to the bot go through the proxy, which logs in with the row's  *)
(* credentials and shares one cached token (services/proxy.py).            *)
(***************************************************************************)
EXTENDS BotSettings, ExchangeProbe, FiniteSets

CONSTANTS
    Handlers,     \* provisioning requests handled at the same time
    Requests,     \* proxied requests handled at the same time
    Ops,          \* operations of this instance
    Keys,         \* exchange keys an administrator may enter
    Payloads,     \* settings an owner may PUT
    Blobs,        \* settings the bot's row may hold at the start
    MaxOps,       \* bound: provisioning requests in a behaviour
    MaxOpsServed, \* bound: the same, in a behaviour with requests to the bot
    Events        \* what may go wrong in this instance

NoOne == "no one"

ASSUME HandlersAssumption == NoOne \notin Handlers

ASSUME OpsAssumption ==
    Ops \subseteq {"provision", "rotate", "live", "dry", "set_exchange", "delete_exchange",
                   "update_config", "delete_user"}

ASSUME KeysAssumption == Keys \subseteq [known : BOOLEAN, can_trade : BOOLEAN, pem : BOOLEAN]

ASSUME PayloadsAssumption == \A p \in Payloads : BotConfigIn(p)

ASSUME BlobsAssumption ==
    \A b \in Blobs : Sound(b, TRUE) /\ HasLists(Effective(b))

ASSUME MaxOpsAssumption == MaxOps \in Nat /\ MaxOpsServed \in 0..MaxOps

ASSUME EventsAssumption ==
    Events \subseteq {"docker_fails", "crash", "restart", "locked", "expire", "unreachable"}

VARIABLES
    row,        \* the committed BotInstance row, if there is one
    exch,       \* the committed exchange key, if there is one
    basis,      \* history: what that key was stored on
    file,       \* what can be read from config.json, if anything can
    spoilt,     \* since one writer alone opened it, another did or one died at it
    container,  \* the bot's container, if there is one
    writer,     \* the handler whose session holds SQLite's write lock
    handler,    \* what each handler is doing, and its session's copies
    token,      \* the cached proxy token of this bot: the credentials it is for
    request,    \* what each proxied request is doing
    ops,        \* provisioning requests begun so far; numbers the credentials
    settled,    \* history: the last launch completed with no other handler about
    user,       \* whether the user exists
    quota       \* bound: MaxOps, or MaxOpsServed if requests are made

vars == <<row, exch, basis, file, spoilt, container, writer, handler, token, request, ops, settled, user, quota>>

-----------------------------------------------------------------------------
(* What a launch makes of a row and a key. *)

ExchangeName(keys) == IF keys = {} THEN DefaultExchange ELSE "binance"

Rendered(dry_run, blob, keys) ==
    BuildBotConfig(ExchangeName(keys), dry_run, Effective(blob))

(* A container has loaded nothing if it found a config.json it cannot read. *)
Launched(creds, keys, blob, f) ==
    [creds |-> creds, keys |-> keys, strategy |-> StrategyOf(Effective(blob)), loaded |-> f]

(* Mutated form of GatePasses: only a switch to live is checked. *)
GateOnSwitch(h) ==
    h.op = "live" => h.keys # {} /\ Acceptable(h.blob, FALSE)

GatePasses(h) == ~h.dry_run => h.keys # {} /\ Acceptable(h.blob, FALSE)

-----------------------------------------------------------------------------
(* Handlers. *)

NoHandler ==
    [pc |-> "idle", op |-> "none", copy |-> {}, blob |-> [k \in {} |-> 0],
     dry_run |-> TRUE, keys |-> {}, basis |-> {}, seen |-> {}, creds |-> 0, launch |-> FALSE,
     alone |-> FALSE]

Idle(t) == handler[t].pc = "idle"
Busy == {t \in Handlers : ~Idle(t)}

Unfresh(rs) == [q \in Requests |-> [rs[q] EXCEPT !.fresh = FALSE]]

(* A new handler: no handler that is busy now runs alone from here on. *)
Starts(t, h) ==
    /\ ops' = ops + 1
    /\ handler' = [u \in Handlers |->
                      IF u = t THEN [h EXCEPT !.alone = Busy = {}, !.creds = ops + 1]
                      ELSE [handler[u] EXCEPT !.alone = FALSE]]
    /\ UNCHANGED <<row, exch, basis, file, spoilt, container, writer, token, request, settled, user, quota>>

(* The session's copy of the row, and what provision_bot is going to use. *)
Loaded(op, dry_run) ==
    [NoHandler EXCEPT !.pc = "gate", !.op = op, !.copy = row, !.launch = TRUE,
                      !.blob = IF row = {} THEN @ ELSE (CHOOSE r \in row : TRUE).blob,
                      !.dry_run = dry_run]

StoredMode == row = {} \/ \E r \in row : r.dry_run

(* provision, of any user; rotate_credentials and set_mode, of a bot. *)
BeginProvision(t) == Starts(t, Loaded("provision", StoredMode))
BeginRotate(t) == row # {} /\ BeginProvision(t)
BeginMode(t, op) == row # {} /\ Starts(t, Loaded(op, op = "dry"))

BeginSetExchange(t, key, force) ==
    \E a \in Answers(key.known, key.can_trade) :
        /\ Stored(Probed(key.pem, a), force)
        /\ Starts(t, [NoHandler EXCEPT !.pc = "flush", !.op = "set_exchange",
                                       !.keys = {key}, !.seen = exch,
                                       !.basis = {[told |-> ~key.pem /\ a \notin Opaque,
                                                   forced |-> force]}])

BeginDeleteExchange(t) ==
    /\ exch # {}
    /\ Starts(t, [NoHandler EXCEPT !.pc = "flush", !.op = "delete_exchange", !.seen = exch])

(* update_config, once it holds the bot's lock and has read the row again. *)
BeginUpdateConfig(t, payload) ==
    /\ \A u \in Handlers : handler[u].op # "update_config"
    /\ \E r \in row :
        LET current == Effective(r.blob)
            merged == Overlaid(current, payload)
            validated == Normalised(merged)
            changed == {k \in Fields : current[k] # validated[k]}
            launch == changed \ {"tradingview_guard_enabled"} # {}
            audited == "tradingview_guard_enabled" \in changed
        IN /\ Acceptable(merged, r.dry_run)
           /\ Starts(t, [Loaded("update_config", r.dry_run) EXCEPT
                            !.blob = validated, !.launch = launch,
                            !.pc = IF audited THEN "flush" ELSE IF launch THEN "gate" ELSE "commit"])

BeginDeleteUser(t) ==
    Starts(t, [NoHandler EXCEPT !.pc = IF row = {} THEN "commit" ELSE "remove",
                                !.op = "delete_user", !.copy = row])

-----------------------------------------------------------------------------
(* The end of a handler that failed: its session is rolled back. *)

Rollback(t) ==
    /\ handler' = [handler EXCEPT ![t] = NoHandler]
    /\ writer' = IF writer = t THEN NoOne ELSE writer

Fails(t) ==
    Rollback(t) /\ UNCHANGED <<row, exch, basis, file, spoilt, container, token, request, ops, settled, user, quota>>

CanWrite(t) == writer \in {NoOne, t}

(* The flush in set_credentials, delete_credentials or audit.record.  The   *)
(* key the session loaded may have been inserted or deleted meanwhile; the *)
(* bot is loaded only now.                                                 *)
Flush(t) ==
    LET h == handler[t] IN
    /\ h.pc = "flush" /\ CanWrite(t)
    /\ h.op = "set_exchange" => (h.seen = {}) = (exch = {})
    /\ writer' = t
    /\ handler' = [handler EXCEPT ![t] =
          IF h.op = "update_config" THEN [h EXCEPT !.pc = IF h.launch THEN "gate" ELSE "commit"]
          ELSE [Loaded(h.op, h.op = "delete_exchange" \/ StoredMode) EXCEPT
                   !.pc = IF row = {} THEN "commit" ELSE "gate", !.launch = row # {},
                   !.keys = h.keys, !.basis = h.basis, !.creds = h.creds, !.alone = h.alone]]
    /\ UNCHANGED <<row, exch, basis, file, spoilt, container, token, request, ops, settled, user, quota>>

FlushFails(t) ==
    /\ handler[t].pc = "flush" /\ handler[t].op = "set_exchange"
    /\ (handler[t].seen = {}) # (exch = {})
    /\ Fails(t)

(* "database is locked": the session waited five seconds for the writer. *)
LockTimeout(t) ==
    "locked" \in Events /\ handler[t].pc \in {"flush", "commit"} /\ ~CanWrite(t) /\ Fails(t)

(* The choke point of provision_bot.  The session reads the stored key when *)
(* it first needs it, unless the route has just changed it: for the check  *)
(* of a live launch, and for config.json of a dry run.                     *)
KeysOf(h) == IF h.op \in {"set_exchange", "delete_exchange"} THEN h.keys ELSE exch

Gate(t) ==
    LET h == [handler[t] EXCEPT !.keys = KeysOf(handler[t])] IN
    /\ h.pc = "gate" /\ GatePasses(h)
    /\ handler' = [handler EXCEPT ![t] = [h EXCEPT !.pc = "render"]]
    /\ UNCHANGED <<row, exch, basis, file, spoilt, container, writer, token, request, ops, settled, user, quota>>

(* LiveModeWithoutKeys, LiveConfigRejected: the request is answered 409. *)
GateRefuses(t) ==
    LET h == [handler[t] EXCEPT !.keys = KeysOf(handler[t])] IN
    h.pc = "gate" /\ ~GatePasses(h) /\ Fails(t)

(* write_text empties config.json and then writes the new text.  Two that   *)
(* do so at once may leave the end of the longer text behind the shorter,  *)
(* and a worker that dies between the two leaves an empty file.            *)
Writing == {t \in Handlers : handler[t].pc = "write"}

Render(t) ==
    LET h == handler[t]
        keys == IF h.dry_run THEN KeysOf(h) ELSE h.keys
    IN /\ h.pc = "render"
       /\ file' = {}
       /\ spoilt' = (Writing # {})
       /\ handler' = [handler EXCEPT ![t] = [h EXCEPT !.pc = "write", !.keys = keys]]
       /\ settled' = FALSE
       /\ request' = Unfresh(request)
       /\ UNCHANGED <<row, exch, basis, container, writer, token, ops, user, quota>>

(* Mutated form: the file is opened and never written. *)
LeavesEmpty(h) == {{}}

Writes(h) ==
    LET whole == {Rendered(h.dry_run, h.blob, h.keys)}
    IN IF spoilt THEN {whole, {}} ELSE {whole}

Write(t) ==
    /\ handler[t].pc = "write"
    /\ file' \in Writes(handler[t])
    /\ handler' = [handler EXCEPT ![t].pc = "run"]
    /\ UNCHANGED <<row, exch, basis, spoilt, container, writer, token, request, ops, settled, user, quota>>

(* runtime.run: the old container is removed, the new one reads the file as *)
(* it is by then.                                                          *)
Run(t) ==
    LET h == handler[t] IN
    /\ h.pc = "run"
    /\ container' = {Launched(h.creds, h.keys, h.blob, file)}
    /\ handler' = [handler EXCEPT ![t].pc = "commit"]
    /\ request' = Unfresh(request)
    /\ UNCHANGED <<row, exch, basis, file, spoilt, writer, token, ops, settled, user, quota>>

RemoveContainer(t) ==
    /\ handler[t].pc = "remove"
    /\ container' = {}
    /\ handler' = [handler EXCEPT ![t].pc = "commit"]
    /\ settled' = FALSE
    /\ request' = Unfresh(request)
    /\ UNCHANGED <<row, exch, basis, file, spoilt, writer, token, ops, user, quota>>

(* Docker fails before or after it removed the old container. *)
DockerFails(t) ==
    /\ "docker_fails" \in Events /\ handler[t].pc \in {"run", "remove"}
    /\ container' \in {container, {}}
    /\ settled' = FALSE
    /\ request' = Unfresh(request)
    /\ Rollback(t)
    /\ UNCHANGED <<row, exch, basis, file, spoilt, token, ops, user, quota>>

(* Mutated form: the row keeps its old credentials. *)
WrittenWithoutCreds(h) ==
    {[dry_run |-> h.dry_run, blob |-> h.blob, creds |-> r.creds] : r \in row}

(* Mutated form: every launch inserts a row. *)
WrittenBeside(h) ==
    row \cup {[dry_run |-> h.dry_run, blob |-> h.blob, creds |-> h.creds]}

(* The row after an UPDATE of the columns this session changed, or INSERT. *)
Written(h) ==
    IF h.copy = {} THEN {[dry_run |-> h.dry_run, blob |-> h.blob, creds |-> h.creds]}
    ELSE {[dry_run |-> IF \E c \in h.copy : c.dry_run = h.dry_run THEN r.dry_run ELSE h.dry_run,
           blob |-> IF h.op = "update_config" THEN h.blob ELSE r.blob,
           creds |-> IF h.launch THEN h.creds ELSE r.creds] : r \in row}

WritesRow(h) == h.launch \/ h.op = "update_config"

(* INSERT of a second row, or UPDATE of a row that is gone. *)
Conflicts(h) == WritesRow(h) /\ (h.copy = {}) # (row = {})

(* proxy.invalidate: a launch drops the token cached for the bot. *)
Invalidated(h) == IF h.launch THEN {} ELSE token

(* flush, invalidate, the audit entry and the commit. *)
Commit(t) ==
    LET h == handler[t]
        deletes == h.op = "delete_user"
    IN /\ h.pc = "commit" /\ CanWrite(t) /\ ~Conflicts(h)
       /\ row' = IF WritesRow(h) THEN Written(h)
                 ELSE IF deletes /\ h.copy # {} THEN {} ELSE row
       /\ exch' = IF deletes THEN {}
                  ELSE IF h.op \in {"set_exchange", "delete_exchange"} THEN h.keys ELSE exch
       /\ basis' = IF deletes THEN {}
                   ELSE IF h.op \in {"set_exchange", "delete_exchange"} THEN h.basis ELSE basis
       /\ user' = (user /\ ~deletes)
       /\ token' = Invalidated(h)
       /\ settled' = (settled \/ (h.alone /\ (h.launch \/ (deletes /\ h.copy # {}))))
       /\ Rollback(t)
       /\ UNCHANGED <<file, spoilt, container, request, ops, quota>>

CommitFails(t) ==
    handler[t].pc = "commit" /\ CanWrite(t) /\ Conflicts(handler[t]) /\ Fails(t)

-----------------------------------------------------------------------------
(* The proxy: forward, with its login and its one retry. *)

NoRequest == [pc |-> "idle", creds |-> 0, tok |-> 0, retried |-> FALSE,
              answer |-> "none", fresh |-> FALSE]

Keeps == UNCHANGED <<row, exch, basis, file, spoilt, container, writer, handler, ops, settled, user, quota>>

Moves(q, r) == request' = [request EXCEPT ![q] = r] /\ Keeps

(* A request reads the row, and the cache. *)
BeginRequest(q) ==
    /\ request[q].pc = "idle" /\ quota = MaxOpsServed
    /\ \E r \in row :
        Moves(q, [NoRequest EXCEPT
            !.pc = IF token = {} THEN "login" ELSE "call", !.creds = r.creds,
            !.tok = IF token = {} THEN 0 ELSE CHOOSE c \in token : TRUE,
            !.fresh = settled])
    /\ UNCHANGED token

Ends(q, answer) ==
    Moves(q, [NoRequest EXCEPT !.pc = "done", !.answer = answer, !.fresh = request[q].fresh])

(* A container that could not read its config.json listens to nobody. *)
Listening == {c \in container : c.loaded # {}}

(* The bot answers a login: with a token if the credentials are its own. *)
Login(q) ==
    /\ request[q].pc = "login"
    /\ IF \E c \in Listening : c.creds = request[q].creds
       THEN Moves(q, [request[q] EXCEPT !.pc = "token"])
       ELSE Ends(q, "error")
    /\ UNCHANGED token

(* Its answer is cached, whatever happened to the cache meanwhile. *)
CacheToken(q) ==
    /\ request[q].pc = "token"
    /\ token' = {request[q].creds}
    /\ Moves(q, [request[q] EXCEPT !.pc = "call", !.tok = request[q].creds])

(* Mutated form: a 401 is passed on at once. *)
NeverRetries(q) == FALSE

Retries(q) == ~request[q].retried

Call(q) ==
    /\ request[q].pc = "call"
    /\ IF Listening = {} THEN Ends(q, "error")
       ELSE IF \E c \in Listening : c.creds = request[q].tok THEN Ends(q, "ok")
       ELSE IF Retries(q) THEN Moves(q, [request[q] EXCEPT !.pc = "refused"])
       ELSE Ends(q, "refused")
    /\ UNCHANGED token

(* The 401 drops the cached token, be it this one or another's. *)
Refused(q) ==
    /\ request[q].pc = "refused"
    /\ token' = {}
    /\ Moves(q, [request[q] EXCEPT !.pc = "login", !.retried = TRUE])

Unreachable(q) ==
    /\ "unreachable" \in Events /\ request[q].pc \in {"login", "call"}
    /\ Moves(q, [NoRequest EXCEPT !.pc = "done", !.answer = "error"])
    /\ UNCHANGED token

Answered(q) ==
    request[q].pc = "done" /\ Moves(q, NoRequest) /\ UNCHANGED token

-----------------------------------------------------------------------------
(* What happens around the handlers. *)

(* The container starts again (an administrator's start, the restart        *)
(* policy, a reboot) and reads config.json as it is now.                   *)
Restart ==
    /\ "restart" \in Events /\ container # {}
    /\ container' = {[c EXCEPT !.loaded = file] : c \in container}
    /\ UNCHANGED <<row, exch, basis, file, spoilt, writer, handler, token, request, ops, settled, user, quota>>

(* The worker dies: sessions are rolled back, the token cache is lost, and  *)
(* a config.json that was being written stays as it is.                    *)
Crash ==
    /\ "crash" \in Events /\ (Busy # {} \/ token # {} \/ \E q \in Requests : request[q].pc # "idle")
    /\ handler' = [t \in Handlers |-> NoHandler]
    /\ request' = [q \in Requests |-> NoRequest]
    /\ writer' = NoOne
    /\ token' = {}
    /\ spoilt' = (spoilt \/ Writing # {})
    /\ UNCHANGED <<row, exch, basis, file, container, ops, settled, user, quota>>

(* The bot's tokens live fifteen minutes. *)
Expire ==
    /\ "expire" \in Events /\ token \notin {{}, {-1}}
    /\ token' = {-1}
    /\ UNCHANGED <<row, exch, basis, file, spoilt, container, writer, handler, request, ops, settled, user, quota>>

-----------------------------------------------------------------------------

Init ==
    /\ \/ exch = {} /\ basis = {}
       \/ \E k \in Keys : /\ exch = {k} /\ k.known /\ k.can_trade /\ ~k.pem
                        /\ basis = {[told |-> TRUE, forced |-> FALSE]}
    /\ \/ row = {} /\ container = {} /\ file = {}
       \/ \E b \in Blobs :
            /\ row = {[dry_run |-> TRUE, blob |-> b, creds |-> 0]}
            /\ file = {Rendered(TRUE, b, exch)}
            /\ container = {Launched(0, exch, b, file)}
    /\ spoilt = FALSE
    /\ writer = NoOne
    /\ handler = [t \in Handlers |-> NoHandler]
    /\ token = {}
    /\ request = [q \in Requests |-> NoRequest]
    /\ ops = 0
    /\ settled = TRUE
    /\ user = TRUE
    /\ quota \in {MaxOps, MaxOpsServed}

MayBegin(t) == user /\ Idle(t) /\ ops < quota

Begin(t) ==
    /\ MayBegin(t)
    /\ \/ "provision" \in Ops /\ BeginProvision(t)
       \/ "rotate" \in Ops /\ BeginRotate(t)
       \/ \E op \in Ops \cap {"live", "dry"} : BeginMode(t, op)
       \/ "set_exchange" \in Ops /\ \E k \in Keys, force \in BOOLEAN : BeginSetExchange(t, k, force)
       \/ "delete_exchange" \in Ops /\ BeginDeleteExchange(t)
       \/ "update_config" \in Ops /\ \E p \in Payloads : BeginUpdateConfig(t, p)
       \/ "delete_user" \in Ops /\ BeginDeleteUser(t)

Step(t) ==
    \/ Flush(t) \/ FlushFails(t) \/ LockTimeout(t)
    \/ Gate(t) \/ GateRefuses(t) \/ Render(t) \/ Write(t) \/ Run(t)
    \/ RemoveContainer(t) \/ DockerFails(t)
    \/ Commit(t) \/ CommitFails(t)

Serve(q) ==
    Login(q) \/ CacheToken(q) \/ Call(q) \/ Refused(q) \/ Answered(q)

Next ==
    \/ \E t \in Handlers : Begin(t) \/ Step(t)
    \/ \E q \in Requests : BeginRequest(q) \/ Serve(q) \/ Unreachable(q)
    \/ Restart \/ Crash \/ Expire

(* Threads are scheduled and event-loop tasks run; nobody has to make a     *)
(* request, and nothing has to go wrong.                                   *)
Spec ==
    /\ Init /\ [][Next]_vars
    /\ \A t \in Handlers : WF_vars(Step(t))
    /\ \A q \in Requests : WF_vars(Serve(q))

-----------------------------------------------------------------------------
(* Properties. *)

(* The type invariant. *)
TypeOK ==
    /\ Cardinality(row) <= 1 /\ \A r \in row : r.dry_run \in BOOLEAN /\ r.creds \in 0..MaxOps
    /\ exch \subseteq Keys /\ Cardinality(exch) <= 1
    /\ Cardinality(file) <= 1 /\ spoilt \in BOOLEAN
    /\ Cardinality(container) <= 1
    /\ writer \in Handlers \cup {NoOne}
    /\ DOMAIN handler = Handlers
    /\ token \subseteq -1..MaxOps /\ Cardinality(token) <= 1
    /\ DOMAIN request = Requests
    /\ ops \in 0..MaxOps
    /\ settled \in BOOLEAN /\ user \in BOOLEAN /\ quota \in {MaxOps, MaxOpsServed}

SafeConfig(f) ==
    ~f.dry_run =>
        /\ f.available_capital = {LiveMaxCapital}
        /\ f.stake_amount.kind # "unlimited"
        /\ f.stake_amount.amount >= LiveMinStake
        /\ f.stake_amount.amount * f.max_open_trades <= LiveMaxCapital

(* Whatever requests overlap, fail or crash, a config.json that trades real *)
(* money, and so any container that starts from it, is within the capital  *)
(* limit ("every live launch passes through here", provision_bot).         *)
LiveFileIsSafe ==
    /\ \A f \in file : SafeConfig(f)
    /\ \A c \in container : \A f \in c.loaded : SafeConfig(f)

Bootable(f) ==
    /\ 0 \in DOMAIN f.minimal_roi /\ \A m \in DOMAIN f.minimal_roi : f.minimal_roi[m] > 0
    /\ \A p \in f.trailing_stop_positive, o \in f.trailing_stop_positive_offset : o > p
    /\ f.volume = {} => f.pair_whitelist # << >>

(* What can be read from config.json is something Freqtrade boots with: a   *)
(* first take-profit step, every step positive, a trailing offset above    *)
(* the trailing distance.  Nothing checks this at a dry launch: it rests   *)
(* on what update_config stored.  And a bot's config.json can be read,     *)
(* unless somebody is writing it, died at it or shared it with another.    *)
FileBoots ==
    /\ \A f \in file : Bootable(f)
    /\ row # {} /\ file = {} => Writing # {} \/ spoilt

(* A launch that completed with no other handler about leaves the row, the  *)
(* key, config.json and the container in agreement, whatever was left      *)
(* behind by launches before it that failed, crashed or overlapped.        *)
Agreement ==
    /\ row = {} => container = {}
    /\ \A r \in row :
        /\ ~r.dry_run => exch # {}
        /\ file = {Rendered(r.dry_run, r.blob, exch)}
        /\ container = {Launched(r.creds, exch, r.blob, file)}

LoneLaunchAgrees == settled => Agreement

(* A stored key was vouched for by the exchange, or forced while the        *)
(* exchange said nothing about it ("Never overridable: the exchange         *)
(* authoritatively said no", _probe_credentials).                          *)
KeysVouchedFor ==
    ValidateExchangeKeys =>
        \A k \in exch, b \in basis :
            (b.told \/ ~b.forced) => k.known /\ k.can_trade /\ ~k.pem

(* A request to the bot that starts when the row and the container agree,   *)
(* and during which no launch changes them, is served, whatever token an    *)
(* earlier request left in the cache.                                      *)
FreshRequestServed ==
    \A q \in Requests :
        request[q].pc = "done" /\ request[q].fresh => request[q].answer = "ok"

(* "keep the BotInstance bookkeeping row in sync": while no request is being *)
(* handled, a bot whose row says dry run does not run with a live           *)
(* config.json.                                                            *)
DryRowMeansDry ==
    Busy = {} => \A r \in row, c \in container : \A f \in c.loaded : r.dry_run => f.dry_run

=============================================================================
