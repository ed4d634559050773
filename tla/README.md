# A verification project for the multi-user Freqtrade control plane

The program under `src/` runs one Freqtrade bot per user. A FastAPI worker
(`src/backend/app`) keeps the bots' rows in a database, starts and replaces their
containers through Docker, forwards the owners' commands to the bots' REST APIs,
protects the bots' entries by what TradingView says of their pairs, and restores
the recorded intent every minute. A React application (`src/frontend`) shows it.

This directory models that program in TLA+, checks the models with TLC on small
instances and proves the most important properties for every instance with TLAPS.
Source paths below are relative to `src/backend/app` unless they say otherwise.

## 1. Inventory

| Component | State it keeps | Operations | Interacts with |
|---|---|---|---|
| Trading guard `services/trading_guard.py`, `models/bot_instance.py` | `trading_enabled`, `manual_paused`, `tradingview_paused`, `entry_pause_managed`, `entry_pause_pending` of a row | `evaluate`, `apply_evaluation`, `sync_state` | called by the reconciler and by `update_config` under the bot's lock; commands the bot through the proxy |
| Per-bot lock `trading_guard.bot_lock` | a registry of weak references to `asyncio.Lock` objects | hand out, acquire, release, cancel | every handler that commands a bot |
| Reconciler `services/reconciler.py` | what a pass has read (locals) | `reconcile_once`, `run_forever` | database, Docker, proxy, scanner, guard |
| Scanner client `services/tradingview.py` | none | `ratings` | TradingView |
| Owner API `routers/user.py` | none | `proxy_to_bot`, `update_config`, reads | guard, proxy, provisioning, statistics |
| Administration API `routers/admin.py` | none | create, delete, provision, start, stop, mode, rotate, exchange | provisioning, probe, guard's lock (start and stop only) |
| Proxy `services/proxy.py` | token cache by bot id | `forward`, `invalidate` | the bots |
| Provisioning `services/provisioning.py`, `config_builder.py`, `credentials.py` | the row's mode, settings and credentials, `config.json` on disk, the container | `provision_bot`, `start_bot`, `stop_bot`, `deprovision_bot` | runtime, vault, proxy cache, database |
| Runtime `services/runtime.py` | containers (Docker) | run, start, stop, remove, status | Docker |
| Exchange credentials and probe `services/exchange_creds.py`, `exchange_probe.py` | one encrypted credential per user | set, delete, probe | exchanges |
| Bot settings `services/bot_config.py`, `schemas/bot_config.py` | none | `effective`, `validate` | owner API, provisioning, reconciler |
| Public statistics `services/public_stats.py`, `routers/public.py` | one cached snapshot, cached ratings, a lock, a bucket of times per client | `collect`, `invalidate`, `_rate_limit` | proxy, Docker, scanner |
| Accounts `routers/auth.py`, `security/*`, `bootstrap.py` | users, admins, tokens | login, refresh, role checks | every route |
| Frontend session `src/frontend/src/api/client.ts`, `auth/` | stored tokens, one shared refresh | requests, refresh, logout | the API |
| Frontend pages | none that decides | rendering | the API |
| Audit, strategies, deployment | rows and files nothing reads back to decide | | |

**Concurrency.** There is one worker and one event loop. `async` handlers and the
reconciler interleave at their awaits; plain `def` routes run in threads and
interleave anywhere; every handler has a database session of its own, so a row it
loaded before an await may be out of date after it. A bot's process is a third
actor: it changes state by itself (reboot, restart policy), through other clients,
and through commands whose answers the worker may never see.

**What is hard.** (1) An intent read before an await and acted upon after it.
(2) A command whose answer is lost, late, or an error: the row and the bot then
disagree, and every later pass acts on the row. (3) The control plane and outsiders
pause the same bot, and only its own pauses may be lifted. (4) A worker or host
restart anywhere. (5) A scan shared by several bots whose settings change while it
is in flight. (6) One bot's failure inside a pass over all. (7) Routes that replace
containers without the bot's lock, in threads, with three copies of one truth (row,
file, container) and one database writer. (8) A shared token, a shared snapshot and a
shared refresh, each replaced while others use it. `PROJECT.json` lists the hazards
line by line.

**What makes each component correct.**

* Guard: a command in flight is what the committed row asks for; nothing bypasses
  the protection; a stop holds; a pause that is not ours stays; after any faults
  the bot reaches the intent.
* Lock: mutual exclusion whatever lock objects come and go, arrival order, no lost
  wake-up.
* Reconciler and scanner client: a verdict rests on the bot's own pairs, exchange
  and timeframe as the pass finds them under the bot's lock; every bot is decided about.
* Proxy: whatever token is cached, a request to a bot whose row and container agree
  is served, with at most one retry.
* Provisioning: nothing trades real money outside the limits; a launch that nobody
  overlaps leaves row, keys, `config.json` and container in agreement, whatever was
  left behind before.
* Exchange keys: a stored key is one the exchange vouched for, or was forced while the
  exchange said nothing.
* Settings: what is stored makes a `config.json` the bot boots with.
* Statistics: what is shown is of bounded age and can be served whatever the bots
  answer; one collection at a time, and one for all that waited behind it; the rate
  limit is exact and forgets idle clients.
* Accounts and frontend session: one refresh at a time that every waiting request
  shares; an expiry is not seen; after a logout only a login shows a page.

## 2. Modules

| Module | Models | Kind |
|---|---|---|
| `TradingGuard` | one bot with everything that commands it | state machine, properties, inductive invariant |
| `Mutex` | what a bot's lock promises | abstract specification |
| `BotLock` | `bot_lock`, its weak registry, `asyncio.Lock` | state machine, implements `Mutex` |
| `Evaluation` | `evaluate` and `apply_evaluation` | operators |
| `ReconcilePass` | passes over several bots, with the scanner client | state machine, uses `Evaluation` |
| `Provisioning` | one bot's row, keys, file and container under overlapping routes; the proxy's token cache | state machine |
| `BotSettings` | `effective`, `validate`, the live limits, `build_bot_config` | operators, used by `Provisioning` |
| `ExchangeProbe` | the probe's classification and the force rule | operators, used by `Provisioning` |
| `PublicStats` | the public page's rate limit, snapshot and ratings caches | state machine, implements `Mutex` |
| `PublicFigures` | how a bot's answers become figures, and what the response schema admits | operators, used by `PublicStats` |
| `Session` | a browser's tokens and requests, and what the backend answers to a token | state machine |
| `MCTradingGuard`, `MCReconcilePass`, `MCProvisioning`, `MCPublicStats`, `MCSession` | values for the constants | for TLC |
| `TradingGuardProofs` | theorems about `TradingGuard`, and that it implements `Mutex` | for TLAPS |
| `EvaluationProofs`, `ReconcilePassProofs` | theorems about the decision and the passes | for TLAPS |
| `BotLockProofs`, `BotSettingsProofs`, `ProvisioningProofs`, `PublicStatsProofs`, `SessionProofs` | theorems about the module each is named after | for TLAPS |

### TradingGuard

`row` is the committed `BotInstance` with its settings and its user's exchange.
The settings are two: `guard` (`tradingview_guard_enabled`) and `params`, all those
whose change recreates the container. `bot` is the bot's Freqtrade state (`running`,
`paused`, `stopped`), `down` (the container will come back), or `halted` (stopped or
missing until somebody starts it). `market` is the reason an evaluation made now
would give, `lock` the holder of the bot's lock, and `task[p]` what a handler is
doing: what it awaits (`pc`), its request, its command, the answer it got, and what it
has read. `late` holds commands that timed out and may still arrive. `pauser` and
`stopHeld` are history variables that nothing in the model reads.

A handler is cut where the code awaits, and nowhere else:

| Code | Actions |
|---|---|
| `proxy_to_bot`: request, lock and refresh, forward, record | `Arrive`, `OwnerBegins`, `Accept` / `Refuse` / `LoseReply` / `TimeOut` / `Unreachable`, `Finish` |
| `start_bot`, `stop_bot` of `routers/admin.py` | `Arrive`, `AdminBegins`, the same five, `Finish` |
| `update_config` | `Arrive`, `ConfigBegins`, then provisioning as a command, or `sync_state` |
| `reconcile_once` for this bot: scan, take the lock and compare, decide and commit | `Snapshot`, `ScanDone`, `ReconcilerBegins`, `ReconcilerDecides`, `sync_state` |
| `sync_state`: ask, decide and claim, command, settle | `SyncRead` / `SyncUnread`, `SyncDecide`, the same five, `Finish` |
| the routes that recreate a container without the lock | `Recreate` |
| the worker's, the host's and Docker's failures | `Crash`, `ContainerDies`, `ContainerBoots` |

`Reread` is `db.refresh`: what a handler uses under the lock is the committed row;
`task[p].seen` is the older copy of its session, which only a mutated form reads.
A row committed by another session cannot be seen half-way, so one assignment to
`row'` stands for the assignments up to the commit.

One cut is not at an await. `reconcile_once` reads the row, compares, evaluates and
commits without one, but the routes that change the exchange are plain `def`, run in
threads and take no lock, so they can commit in between. `ReconcilerBegins` is therefore
the read and the comparison, `ReconcilerDecides` the verdict on that copy (`seen`) and
the commit, which writes the one column that changed; `Recreate` may come between.

### Mutex and BotLock

`Mutex` says: a task asks, enters when nobody is inside, leaves, or withdraws; a
restart clears both sets. `BotLock` shows that the registry of weak references keeps
this promise with objects that come and go: an object lives as long as a task was
handed it, `Collect` drops it from the registry otherwise, and `Acquire` makes a new
one when the registry has none. The lock object is the external `asyncio.Lock`,
modelled by what its users rely on: waiters in order, a wake-up by future, the hand-on
of a wake-up whose receiver was cancelled (`Unwind`). `TradingGuard` uses one atomic
lock and is itself checked against `Mutex`, with `waiting` and `inside` read off the
handlers' `pc`: between taking the lock and giving it back, over every await, crash
and error path, no other handler of the bot runs.

### Evaluation and ReconcilePass

Ratings are counted in tenths: both thresholds of `evaluate` are one tenth and it
tells nothing else apart. `ReconcilePass` follows a pass over all bots: `Start` (rows
and containers), `Ask` / `Told` / `ToldNothing` (settings and whitelist, at most
`Permits` at a time), `Collected`, `Fetch` / `FetchFails` for each exchange, `Fetched`,
`Check` (the lock, the read and the comparison) and `Decide` (the verdict on the copy that
was read, and the commit) for each bot in the order of the answers, `Finish`. `Ratings` keeps the
request's shape: one column for each timeframe in use and the responses read by
column index. `Abort` is the pass that ends because `collect` raised. Settings and
exchanges change, and bots are deleted, at any moment. `Provision` gives the id of a
deleted bot to a new one, as SQLite does with the id of a deleted last row, also
between the scan and the decision of one pass. Between `Check` and `Decide` the bot's
lock keeps settings requests out (`Held`), but not an administrator's thread that
changes the exchange or deletes the bot. What a decision makes the bot
do is left to `TradingGuard`; there `market` stands for the verdict reached here.

### BotSettings and ExchangeProbe

`BotSettings` reads a stored blob the way `effective` does (defaults under it, a `roi`
of older versions turned into a table), validates it (`Acceptable`, one operator for
each group of fields), normalises it (`Normalised`) and builds the fields of
`config.json` that depend on it (`BuildBotConfig`). Fractions are hundredths, a pair is
one of the spellings that pass `_is_pair`, a stake is `unlimited`, a number or text that
may spell one. Fields an operation treats alike are kept: any of them may be the one a
partial update forgets. `BotConfigIn` is what Pydantic admits (`schemas/bot_config.py`):
types, the two ranges, and null for a field left out. `Spelling` gives each well-formed
pair its upper case, which need not be a well-formed pair: `upper()` turns some letters
into a letter and a combining accent, and `_is_pair` refuses that. `SpellingAssumption`
says only that upper-casing what is in upper case changes nothing. `Sound` is all that
`validate` demands but the form of the pairs (`WellFormedPairs`): it is what survives
normalising.

`ExchangeProbe` gives every answer a key can get (`Answers`: those that tell something
and those that do not) its verdict, and `Stored` is the rule which verdicts an
administrator may force past. What the exchange knows of a key is a field of the key
that no operator but `Answers` reads.

### Provisioning

One user's bot in four places: `row` (mode, settings blob, the number of the generated
credentials), `exch` (the key), `file` (what can be read from `config.json`) and `container` (the secrets it was
created with and the file it last read). Each is a set of at most one element, so that
absence needs no special value; an empty or garbled `config.json` is one from which
nothing can be read. `spoilt` says that, since a writer last opened the file alone, another
opened it too or one died at it. `Blobs` are settings of older versions found in the
database: they were validated when they were stored. `handler[t]` is a request in its thread with its
session's copies: the row as loaded (`copy`), what it is going to launch (`blob`,
`dry_run`, `keys`, `creds`), and where it is. `writer` is SQLite's write lock, held from
a session's first flush to its commit or rollback. `token` is the proxy's cached token
of this bot, `request[q]` a proxied request. `basis`, `settled` and the `fresh` and
`alone` fields are history; `quota` chooses, per behaviour, between more operations and
operations beside requests.

| Code | Actions |
|---|---|
| `provision`, `rotate_credentials`, `set_mode`, `set_exchange`, `delete_exchange`, `delete_user`, `update_config`: load and check | `BeginProvision`, `BeginRotate`, `BeginMode`, `BeginSetExchange`, `BeginDeleteExchange`, `BeginDeleteUser`, `BeginUpdateConfig` |
| first write of a session, its conflict, its timeout | `Flush`, `FlushFails`, `LockTimeout` |
| `provision_bot`: live gate, refusal, `config.json` opened and written, `runtime.run`, Docker's failure | `Gate` / `GateRefuses`, `Render`, `Write`, `Run` / `DockerFails` |
| `deprovision_bot`, Docker's failure | `RemoveContainer` / `DockerFails` |
| flush, `proxy.invalidate` (`Invalidated`), audit entry, commit; a conflict there | `Commit` / `CommitFails` |
| `forward` with `_token`, its login, one retry after a 401 | `BeginRequest`, `Login`, `CacheToken`, `Call`, `Refused`, `Unreachable` |
| a container that starts again; the worker that dies; a token that expires | `Restart`, `Crash`, `Expire` |

`Run` removes the old container and starts the new one from the file as it is then,
which another handler may have written meanwhile. `DockerFails` covers both sides of that
removal. `write_text` truncates the file and then writes it: `Render` is the first half,
`Write` the second, and what two writers leave when they overlap is the text of either
or nothing that can be read (`Writes`). A container that finds such a file listens to
nobody (`Listening`) until it is launched again. A failure rolls back the row, never the file or the container: that is how the
code is, and what the properties are about. `update_config` holds the bot's lock, so one
settings request runs at a time; no other route here takes it.

### PublicStats

`now` is the one clock. `hits` are the rate limit's buckets, `admitted` (history) every
time a client was let through, never pruned, `cache` and `technical` the
two caches with the time they were stored, `queue` and `lock` the `asyncio.Lock`, and
`request[r]` where a request is: `wait` (for the lock), `states` (Docker, in a thread),
`accounts` (all bots), `ratings` (the scanner), `served`, `failed` or `refused`. A client's
`payload` keeps the ages of what it was shown and nothing else. `Arrive` is everything
up to the first await: rate limit, first look at the cache, place in the queue. `Raise` is
an error that `_fetch` does not catch: the request fails and the lock is free, but
`asyncio.gather` does not cancel the other requests of that collection, which go on by
themselves (`stray`, by the time their collection began) until they are answered or time
out (`StrayEnds`). `collected` (history) is when the last collection succeeded that was not
dropped since. `Tick` lets time pass while awaits last,
but never past what the timeouts allow a collection, failed or not (`CollectTime`).

`PublicFigures` is `_live_block` over one field of each sort that `_num`, `_int` and `_str`
read, for a call that answers with an object and for one that answers with rows; a call
that brought nothing is `EmptyLive`. `Schema` is what the response model admits of the
result and JSON can carry. A stored snapshot keeps what is shown of every bot and call,
and whether the total of the numbers is finite (`Total`).

### Session

`store` is `localStorage`, `page` the kind `AuthContext` shows, `refreshing` the shared
promise with the refresh token it sent, `signing` the login in flight. A request of the
page is `sent`, `joined` (awaits the refresh after a first 401), or idle with an outcome.
`Answers` is `get_current_admin` or `get_current_user`; `Refreshes` is the `refresh` route,
which looks at the token only. What follows the refresh's answer, in every request that
awaited it, is one step with it, because the browser runs these continuations before it
handles anything else. `Bounced` is the redirect to the login form, which reloads the
document. `mixed` and `hurt` are history: a refresh outlived a login or logout, and a
request met something worse than one expiry.

## 3. Runs

| Run | Question | Instance |
|---|---|---|
| `Guard_commands` | Do handlers take turns, and is every command in flight what the row asks for, whatever is refused, lost, late, crashed, rebooted or recreated? | one request at a time beside the reconciler, all commands, guard on and off |
| `Guard_ownership` | Is a pause made outside left alone, does an acknowledged stop hold, is the interface's claim true, as long as answers arrive? | the same with two values of `params`, reboots, recreation, outside pauses; no crash of the worker, which can lose an answer |
| `Guard_settings` | Is no setting lost between two concurrent settings requests, and no verdict applied to settings or an exchange it was not reached for? | two requests, two values each of `params` and exchange, exchanges replaced at any moment |
| `Guard_converges` | Does the bot reach the intent and stay there once requests, faults and market rest? | all owner and administrator commands but forced entries and reloads; refusals, lost answers, crashes, reboots and outside pauses; one exchange and one value of `params`, so no recreation; no late commands |
| `BotLock_fair` | Exclusion, order and no lost wake-up of the real lock, with cancellation and collection | four tasks, three lock objects |
| `Pass_decides` | Are decisions a bot's own, and is every bot decided about? | two bots sharing a pair, two exchanges, two timeframes, one market with a value out of range and one in which exactly half of the pairs buy; a deleted bot's id given to a new one |
| `Provision_overlap` | Is real money always within the limits, does every file that can be read boot, can it be read unless it was spoilt, does a lone launch mend everything, and is a request served whatever token is cached? | two handlers, two proxied requests, all eight operations, four kinds of key, seven payloads, an old blob, all six events; three operations, or one beside requests |
| `Public_cache` | Is what is shown recent and fit to be served, does a burst share one collection, do collections take turns, is the rate limit exact, and is everybody answered? | two requests, two clients, one bot with one call it answers with `inf` and without a count, or not at all; four arrivals within three ticks |
| `Session_refresh` | Do requests share one refresh, is an expiry invisible, is the store one principal's, does a logout last? | two requests, an administrator and a user, two expiries, three logins |

Three runs are expected to find a violation of what the repository says of itself:

* `Doc_external_pause`: `sync_state` keeps its claim when the bot refuses the pause.
  The next pause of an outsider is then confirmed as the control plane's own and
  lifted.
* `Doc_dry_row`: `provision_bot` is to "keep the BotInstance bookkeeping row in sync",
  but it writes a live `config.json` before the launch and commits the row after it.
  If Docker fails in between, the row is rolled back to dry run and the file stays; the
  old container reads it at its next start and trades real money, within the limits of
  `LiveFileIsSafe`, while every page says dry run.
* `Doc_sealed_bot`: a bot whose password cannot be decrypted ends every pass for all
  bots, since `collect` does not catch `VaultError`.

Each property of a passing run has a mutant in `PROJECT.json`: the form of a
definition named there stands beside it in its module, commented as mutated.

**Why the bounds are enough.** `TradingGuard` is about one bot, because handlers of
different bots share no state of it. A conflict needs a handler that was overtaken and
one that overtakes: the reconciler and one request, or two requests for `SettingsKept`.
A client returns to `idle` and asks again, so the length of histories is not bounded.
Two values of a setting are all that equality tells apart. Three lock objects are one
more than can be in use at once when the property holds, and four tasks allow a
holder, a cancelled first waiter and two behind it. In `Pass_decides` one permit
stands for eight: which bots wait for a permit when settings change is what it
bounds, and with two bots one permit makes one wait. Events that make a property
false by design of the environment are left out of its run and named: an answer that
is lost, refused or late can always make the interface or the ownership wrong.

In `Provision_overlap` two handlers are what an overlap needs; three operations are a
launch that fails, one that overlaps and one that mends. Requests see a launch as a
change of container and credentials only, so beside them one operation is enough and
keeps the run small; two of them can each drop the other's token. The payloads are
chosen one for each rule (live stake as text, volume pairlist, too much capital,
trailing, no first step, a pair whose upper case is none, guard only), the keys one for each
verdict. In `Public_cache`
the clock passes both edges of a window and of a time to live, and an entry can expire
while another is being collected; the times keep the order of the real ones (the
snapshot's below the window and the ratings'). One answer with a number that JSON cannot
carry and a field that is missing is what a careless conversion would pass on; every
other answer, and the calls that answer with rows (`performance`, `daily`), are covered by the proof
(`ServableHolds`). In `Session_refresh` two requests share or restart a
refresh, a second expiry can hit the retry, and a third login follows a login and a logout
that a refresh outlived.

`Guard_settings` and `Provision_overlap` use symmetry (clients; handlers and requests);
neither checks a liveness property. Deadlock is not checked in `Provision_overlap`,
`Doc_dry_row` and `Public_cache`: the bounds on operations, arrivals and the clock end
their behaviours. It is checked in all others.

**Fairness.** Weak fairness of each handler's own steps: the event loop runs what is
ready, every HTTP request is answered or times out (15 s in the proxy), Docker calls
return, `run_forever` starts another pass whatever became of the last (it catches
everything but cancellation), and the restart policy brings containers back. A
blocked lock is not fair by assumption: `Begins` is enabled only when the lock is
free, and `Guard_converges` and `Served` would fail if it were kept. Nothing is
assumed about requests, faults, the market, or collection of objects. Liveness is
stated for behaviours whose steps are, from some moment on, the control plane's own
(`<>[][Settling]_vars`, `<>[][Work]_vars`), for
nothing can be promised while disturbances go on. `Answered` and `Settles` need no such
restriction: a collection's awaits end by their timeouts (`Work`), a request and a
refresh are answered or fail, and a visitor who waits, or a request that awaits the
refresh, has to go on whatever else happens.

## 4. Proofs

`TradingGuardProofs` proves, for any clients, commands, payloads, settings,
exchanges and events, from the named assumptions of the module (sizes are not
bounded; sets need not be finite):

* `TypeCorrect`: `Spec => []TypeOK`.
* `CoreCorrect`: the lock is held exactly by the handler between taking it and giving
  it back (`LockExclusive`), what a handler can have sent follows from its request
  (`TaskShape`), and the row agrees with what the holder is doing (`IntentHeld`).
  `CommandMatchesIntent` and `NoBypass` are consequences but not inductive: a command
  in flight stays right only because nobody else can commit the intent while the
  lock is held, and because the decision was right while the answer was `got`.
* `OwnershipHasIntent` and `GuardPauseNeedsGuard` follow from the list of ways a step
  can change the row (`RowStep`), given `Core`: the claim of a pause needs the
  recorded intent, which `IntentHeld` keeps across the awaits.
* `AckedStopHoldsAlways`: without late commands, a stop that was acknowledged rests on
  `StopRests`: trading not wanted, bot not trading, and nobody in a call that starts
  it. `CallOrigin` says how a task in a call got there.
* `InvHolds`: `Inv`, the conjunction TLC checks in `Guard_commands`, is invariant.
* `OneSyncSettles` and `SettledLeftAlone`, the safety core of `Converges`: from every row
  and every bot that is up, one synchronisation whose command is accepted makes the bot
  what the row asks for; the next one then sends nothing and changes nothing, so pause
  and start do not alternate; and a pause of somebody else stays. What remains to
  TLC is that such a synchronisation comes. `Agrees` is the relation they are about, and
  `Settled` of `Converges` is `Agrees` of the row and the bot.

It also proves `ImplementsMutexHolds`: mapped so that the handlers at `wait`
are waiting and those between taking the lock and giving it back are inside,
`TradingGuard` implements `Mutex`. A step moves at most one task, in one of the four
ways `Move` lists; `MoveStep` turns each into a step of `Mutex` or a stutter, using
`LockExclusive` for the one that enters: nobody else is inside when the lock is free.

`EvaluationProofs` proves of the decision, for any finite list and any ratings:
what pauses, what releases, that missing data keep the decision, that neutral pairs
count in the denominator, and that between an evaluation that pauses and one that
releases more than half of the pairs changed their ratings: the decision cannot
flicker at a threshold.

`ReconcilePassProofs` proves the invariant that links what a pass has read and fetched
to the market (`PassInvHolds`) and from it `VerdictIsOwn` as an action property, for
any number of bots, pairs, timeframes and exchanges. The exchange and timeframe are those
of the copy `Check` read under the lock. Ids are reused: the whitelist is the one that was
read for this id in this pass.

The action properties of `TradingGuard` and its interface property are in
`TradingGuardProofs` too:

* `PauseShownHonestlyHolds` and `ExternalPauseLeftAloneHolds` assume that the events that
  make them false do not occur, and only those: `Unbroken` (no lost answer, late
  command or crash) and `Answered` (no refusal either). What happens
  otherwise: a start that was carried out but not recorded leaves a claimed pause on
  a running bot until the next pass, and `Doc_external_pause` is a refusal. The
  invariants say who may contradict the row at the moment: `ClaimHonest` (an owned
  pause on a running bot has a handler that has just been told of its start) and
  `OwnPause` (the same for a pause of an outsider).
* `FreshVerdictHolds` rests on `CopyHeld`: from the comparison to the commit the settings in
  the reconciler's copy are the committed ones, because every other route that commits
  settings needs the lock (`LockExclusive`). The exchange is not protected that way: the
  theorem says that the verdict is for the exchange in force, or for one that was in
  force when the row was read and was replaced since.
* `SettingsKeptHolds` rests on `MergeHeld`: while a settings request recreates the
  container, what it is going to commit is still the merge over the committed row,
  since only the lock's holder commits settings.

`BotLockProofs` proves that `BotLock` implements `Mutex` for any number of tasks and lock
objects. The invariant `IInv` adds to `LockInv` where a task waits (`WaitsOnce`), that a
cancelled waiter is still queued (`DoomedWait`), that the registered object is the one
everybody was handed (`HandedRegistered`), and that only the head of the queue of an open
lock is woken (`FirstWoken`). Exclusion is not inductive without the last: an object that
was collected, or a wake-up given twice, would let two tasks in. From `IInv` follow

* `CancelledDoomedHolds` and `InOrderHolds`: who enters was, of those that wait and were not
  cancelled, in front. A task may enter without waiting only past a queue whose
  members are all cancelled, as `asyncio.Lock.acquire` does.
* `NoLostWakeupHolds`, the safety core of `Served`: an open lock that somebody waits for has a
  task on its way to it, whoever is cancelled and whenever. It is inductive as
  `FrontAwake`: the first waiter of an open lock has been woken or cancelled, and a
  cancelled one hands on what it was given when it unwinds.

`BotSettingsProofs` proves, for any blob, limits and defaults, `NormalisedIsAcceptable`:
what `validate` returns it accepts again, in the same mode, exactly if the pairs are still
pairs in upper case (`UpperCasePairs`). The rest of what it normalises (`NormalisedIsSound`:
stake, ROI table, numbers) never makes settings refusable. `SavedAgainChangesNothing`: a save of such
settings without a change finds none, and recreates no container. Both go through
`NormalForm`, and the second needs that sorting a sorted ROI table returns it.

`ProvisioningProofs` proves, for any handlers, requests, keys, payloads, blobs and bounds:

* `TypeCorrect`, `LiveFilesHold` and `KeysHold`, from `SafeInv`: what a
  handler past the gate is going to write is safe already (a handler that waited keeps what was validated, not
  what is in the row by then), a container's file was `config.json` once, and a key on its
  way to the row has its basis.
* `LoneLaunchHolds`, from `LoneInv`: for a handler that nobody overlapped (`Lone`), the
  session's copy is the row, its keys are the stored ones from the moment they are
  used, the file and then the container are its own; while the last launch is settled,
  nobody is past writing a file (`Calm`); a session that deferred its read until after
  its flush holds the write lock and reads the row as it stays (`Reads`).
* `FileBootsHolds`, from `SettingsInv` and `Whole`. `SettingsInv`: every row and every session
  carries settings that are sound for a dry run (`SoundBlob`), across partial payloads,
  merges and changes of mode, whatever became of the spelling of their pairs;
  `NormalisedIsSound` carries it over a save. `Whole` (`WholeHolds`): an unspoilt file has at
  most one writer at it, and if nobody is, it holds what the last one wrote
  (`HasWritten`, `LoneWrite`). The assumptions are that payloads are what the schema admits
  and that blobs found in the database were sound when they were stored.
* `FreshRequestsHold`, from `FreshInv` over `LoneInv`: a request that has seen agreement has
  the container's credentials, so the token it fetches itself is accepted, and one
  retry is enough.

`PublicStatsProofs` proves, for any requests, clients, bots, calls, answers and times,
`ServedFreshHolds` and `OneCollectionHolds`. `PublicInv` says that the lock's holder is the
request that is collecting, that every time kept lies between the start of its
collection and now, and that neither a collection nor what a failed one left behind is
older than the timeouts allow; the age of what is served is the sum of the bounds on the
way. `OneCollection` is both halves: the requests implement `Mutex`, and what may be out beside
the one that collects is bounded in age. Further:

* `BurstSharesOneHolds`, from `Stocked`: what the last successful collection found is in the
  cache unless it was dropped, so whoever gets the lock within a time to live of it finds
  it. It would fail if a collection stored nothing, or if the cache were not read again
  under the lock.
* `ServableHolds`, from `Stocked` and `LiveFacts`: whatever a bot answers to a call, what is
  shown of it is what the schema admits, and no number that is added up is infinite.
* `RateExactHolds`, from `RateInv`: a bucket is the end of the list of all times its client
  was let through, and what was pruned lies before the window. Pruning a sorted list
  from the front is filtering it by the window (`Since`), which is an argument by the least
  index that survives (`LeastOf`: a set of naturals has a least element, from the
  library's well-founded order of finite subsets), so no induction over the sequence is
  needed.
* `NoIdleBucketsHolds`: after a request only clients let through within the window have a
  bucket, by `RateInv` at the moment of pruning.
* `TypeCorrect`, with what the types rest on: a request at the ratings has an account
  for every bot (`Stocked`), and the queue holds each waiter once (`InLine`).

`SessionProofs` proves `TypeOK`, `SharedRefresh`, `ExpiryInvisible`, `Coherent` and `StaysLoggedOut` for any
requests, principals and bounds. `ExpiryInvisible` is about the past of a request; the
invariant `Undisturbed` turns it into one about the present: a live request that
nothing hurt carries a token of the one principal that owns the store, who is not
deleted, so a refused token can only have expired and its refresh will be granted.

Only model-checked: the five liveness properties (`Converges`, `Served`, `EveryBotDecided`,
`Answered`, `Settles`), which are beyond this proof system. Every other property of a passing
run is proved for all values of the constants, under the assumptions its module names.

## 5. What is left out

Cryptography, formatting, wording, logging, the audit log, page layout, the SPA's static
files, deployment, the additive migration of the database, and the text of the
strategies. Reads, the allowlist and `forceexit` of the owner's API: they change no state
of the control plane. Which figures the public page has, their values and their order:
arithmetic on what the bots answered. The strategy's source file, which `_render_user_data`
writes the way it writes `config.json`, always with the same text for a strategy; write
errors such as a full disk. Networks, addresses, logs and image pulls of the
runtime. A second tab of the same browser: it shares the store but not the refresh.
Reuse of a deleted bot's id in the token cache: `Provisioning` is about one user's
bot, and the next bot with its id is another user's. A late command while liveness is checked: it would
only repeat what a lost answer does.

`Provisioning` and `TradingGuard` are not composed: to the second, a launch is a command
that leaves the bot stopped; to the first, starts and stops are `Restart`. What the two
share is the row, in disjoint columns.

**Behaviour the models have and no property forbids.** A reader of the code should know
of it:

* A stop that the bot carries out but whose answer is lost is not recorded, and the
  reconciler starts the bot again, though `sync_state` says "Manual stops always win"
  (`services/trading_guard.py:70`).
* SQLite gives the id of a deleted last row to the next bot. A verdict reached for the
  deleted bot's whitelist may be applied to the new one, if its settings and its exchange
  are the same; the next pass decides anew.
* A crash between `runtime.run` and the commit loses the credentials the container was
  created with; the next launch makes new ones (`LoneLaunchAgrees`).
* `provision_bot` sets the status to error when Docker fails, to "record failure"
  (`services/provisioning.py:110`), and the exception then rolls that back with the rest.
* `update_config` validates against the mode it has read. If `set_mode` commits live
  meanwhile, the row may hold settings that the live gate refuses at the next launch; no
  file is written from them (`LiveFileIsSafe`).
* A worker that dies while it writes `config.json`, or two routes that write it at once, may
  leave a file that cannot be read. Nothing looks at it: the row says what it said, a
  container that restarts does not come up, and the next launch writes the file anew.
* `update_config` validates the spelling of pairs and stores their upper case, which may be
  a spelling it refuses: every later settings request that leaves the pairs alone is then
  answered 422, and a switch to live 409, until the pairs are replaced.
* An administrator who replaces the exchange between the reconciler's comparison and its
  commit has the verdict for the old exchange applied; the next pass decides anew.
* A command that timed out may reach the bot after a stop was acknowledged. `Inv` is
  checked with such commands; `AckedStopHolds` and the liveness properties are not.
* `delete_user` of a user without a row removes no container, even if a first launch
  that failed left one; a launch that overlaps a deletion leaves a container behind.
* A refresh that is answered after a logout stores an access token without a kind: the
  page stays logged out (`StaysLoggedOut`), but after another login the store may mix
  two principals until the next one (`mixed`). A lost answer of a refresh logs the user
  out. The refresh of a deleted user succeeds; the retry is then refused.
* A bot that raises something other than `ProxyError` makes a collection fail, so
  nothing is cached and every waiting request collects for itself: "a burst of
  anonymous requests collapses into a single fan-out" (`public_stats.py:11`) holds of
  collections that succeed (`BurstSharesOne`). Only one of these
  requests collects at a time, but the other bots' requests of a failed collection go on
  beside the next one (`stray`), and each collection has a semaphore of its own, so that
  more than eight may be out at once. A failed scanner is kept as "no ratings" for as long as good ratings would be.
* An `invalidate` while a collection is in flight does not stop its result from being
  cached; `ServedFresh` bounds the age all the same.
* A `roi` in a settings payload has no effect, since the current settings always have a
  `roi_table`, though it is said to be "upgraded to roi_table on merge"
  (`schemas/bot_config.py:63`); and `trailing_stop_positive` cannot be cleared by a payload, since absent
  and null are dropped alike.

## 6. Plan

Done in this order: the guarded bot and its lock; the decision and the pass over
several bots; provisioning with settings, keys and token cache; the public page; the
browser's session; and the proofs of section 4. What would come next:

1. `TradingIntent`, an abstract specification of a bot's intent (ask, acknowledge,
   restore) that `TradingGuard` implements.
2. `Provisioning` composed with `TradingGuard` over one row, so that a launch under a
   command in flight is checked with both sets of columns.
3. The token cache keyed by an id that changes its owner.
4. The figures of the public page by name, and their totals, against a reference definition.
5. Two tabs over one store in `Session`.
