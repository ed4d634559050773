----------------------------- MODULE PublicStats -----------------------------
(***************************************************************************)
(* The public results page: a rate limit per client (routers/public.py)    *)
(* in front of a snapshot of every account that is collected by one        *)
(* request at a time and cached (services/public_stats.py).                *)
(*                                                                         *)
(* A request runs on the event loop: the rate limit and the first look at  *)
(* the cache are one step; after it the request waits for _cache_lock,     *)
(* looks again, and collects what is missing:                              *)
(*                                                                         *)
(*   idle -> wait -> states -> accounts -> ratings -> served | failed      *)
(*                                                                         *)
(* states awaits the thread that asks Docker, accounts the requests to all *)
(* bots, ratings the TradingView scanner.  The requests to the bots are    *)
(* gathered: when one raises, the others go on by themselves.  Times are   *)
(* read off one clock.                                                     *)
(***************************************************************************)
EXTENDS Integers, Sequences, PublicFigures

CONSTANTS
    Requests,       \* requests handled at the same time
    Clients,        \* clients the rate limit tells apart (_client_ip)
    Bots,           \* provisioned bots
    Calls,          \* the endpoints asked of a bot (_FT_CALLS)
    Answers,        \* what a bot may answer a call
    Budget,         \* settings.public_results_rate_limit
    Window,         \* _RATE_WINDOW_SECONDS
    Ttl,            \* settings.public_results_ttl
    TechnicalTtl,   \* settings.public_technical_ttl
    CollectTime,    \* bound: how long the timeouts let a collection last
    MaxTime,        \* bound: the clock
    MaxArrivals     \* bound: requests made

NoOne == "no one"

ASSUME RequestsAssumption == NoOne \notin Requests

ASSUME CallsAssumption == "profit" \in Calls /\ Answers \subseteq AnswerRecords

ASSUME TimesAssumption ==
    /\ Budget \in Nat \ {0} /\ Window \in Nat /\ CollectTime \in Nat
    /\ Ttl \in Nat \ {0} /\ TechnicalTtl \in Nat \ {0}
    /\ MaxTime \in Nat /\ MaxArrivals \in Nat

VARIABLES
    now,        \* the clock
    hits,       \* _hits: the times kept for each client with a bucket
    cache,      \* _cache: when it was stored, and the snapshot
    technical,  \* _technical_cache: when the kept ratings were fetched
    queue,      \* the requests waiting for _cache_lock, in order
    lock,       \* the request that holds _cache_lock
    request,    \* what each request is doing
    stray,      \* the failed collections whose requests to bots go on: their begin
    collected,  \* history: when the last collection ended that was not dropped since
    admitted,   \* history: when requests of each client were let through
    arrivals    \* requests made so far

vars == <<now, hits, cache, technical, queue, lock, request, stray, collected, admitted, arrivals>>

-----------------------------------------------------------------------------
(* The rate limit: buckets of times, oldest first. *)

(* What is left when the times before a cutoff are taken off the front. *)
Since(times, cutoff) ==
    LET stale == CHOOSE n \in 0..Len(times) :
                    /\ \A i \in 1..n : times[i] < cutoff
                    /\ n < Len(times) => times[n + 1] >= cutoff
    IN  SubSeq(times, stale + 1, Len(times))

(* Mutated form: a time just as old as the window no longer counts. *)
RecentAfter(times) == Since(times, now - Window + 1)

Recent(times) == Since(times, now - Window)

(* Mutated forms: no bucket is dropped; a bucket goes with its oldest time. *)
KeptAll(h) == DOMAIN h
KeptByOldest(h) == {c \in DOMAIN h : h[c] # << >> /\ h[c][1] >= now - Window}

Kept(h) == {c \in DOMAIN h : h[c] # << >> /\ h[c][Len(h[c])] >= now - Window}

Bucket(c) == IF c \in Kept(hits) THEN Recent(hits[c]) ELSE << >>

(* Mutated form: one request too many. *)
AllowsOneMore(c) == Len(Bucket(c)) <= Budget

Allows(c) == Len(Bucket(c)) < Budget

RateLimit(c) ==
    hits' = [d \in Kept(hits) \cup {c} |->
                IF d # c THEN hits[d]
                ELSE IF Allows(c) THEN Append(Bucket(c), now) ELSE Bucket(c)]

-----------------------------------------------------------------------------
(* The snapshot; of what a client is shown the model keeps the ages. *)

(* What one fetch brings: an answer, or None for every failure. *)
Fetched == {{}} \cup {{a} : a \in Answers}

(* One account: the container's state as Docker gave it, and what is shown  *)
(* of each call.  A bot that is not running is not asked.                  *)
Account(running, answered) ==
    [running |-> running, reachable |-> running /\ answered["profit"] # {},
     live |-> [k \in Calls |-> IF running /\ answered[k] # {}
                               THEN UNION {LiveBlock(k, a) : a \in answered[k]}
                               ELSE EmptyLive(k)]]

Accounts == {Account(r, a) : r \in BOOLEAN, a \in [Calls -> Fetched]}

NoAccounts == [b \in {} |-> 0]

Shown(accounts) == UNION {accounts[b].live[k] : b \in DOMAIN accounts, k \in Calls}

(* Mutated form: an entry is used a moment too long. *)
HitAtEdge(entry, ttl) == entry # {} /\ \A e \in entry : now - e.at <= ttl

Hit(entry, ttl) == entry # {} /\ \A e \in entry : now - e.at < ttl

NoRequest == [pc |-> "idle", read |-> 0, running |-> {}, accounts |-> NoAccounts, payload |-> {}]

Served(payload) == [NoRequest EXCEPT !.pc = "served", !.payload = payload]

Snapshot(e) == {[read |-> now - e.read, rated |-> now - e.rated]}

-----------------------------------------------------------------------------
(* public_results, up to its first await. *)

Arrive(r, c) ==
    /\ request[r].pc = "idle" /\ arrivals < MaxArrivals
    /\ arrivals' = arrivals + 1
    /\ RateLimit(c)
    /\ IF ~Allows(c)
       THEN /\ request' = [request EXCEPT ![r].pc = "refused"]
            /\ UNCHANGED <<queue, admitted>>
       ELSE /\ admitted' = [admitted EXCEPT ![c] = Append(@, now)]
            /\ IF Hit(cache, Ttl)
               THEN /\ \E e \in cache : request' = [request EXCEPT ![r] = Served(Snapshot(e))]
                    /\ UNCHANGED queue
               ELSE /\ request' = [request EXCEPT ![r].pc = "wait"]
                    /\ queue' = Append(queue, r)
    /\ UNCHANGED <<now, cache, technical, lock, stray, collected>>

(* Mutated forms: the lock is not taken; the cache is not looked at again. *)
NoLock == TRUE
NeverFilled == FALSE

Unlocked == lock = NoOne
Filled == Hit(cache, Ttl)

(* The request gets the lock; the accounts are read if it has to collect.  *)
Enter(r) ==
    /\ request[r].pc = "wait" /\ Head(queue) = r /\ Unlocked
    /\ queue' = Tail(queue)
    /\ IF Filled
       THEN /\ \E e \in cache : request' = [request EXCEPT ![r] = Served(Snapshot(e))]
            /\ UNCHANGED lock
       ELSE /\ request' = [request EXCEPT ![r] = [NoRequest EXCEPT !.pc = "states", !.read = now]]
            /\ lock' = r
    /\ UNCHANGED <<now, hits, cache, technical, stray, collected, admitted, arrivals>>

(* _container_states: an unreachable Docker leaves every state unknown. *)
States(r) ==
    /\ request[r].pc = "states"
    /\ \E running \in SUBSET Bots :
        request' = [request EXCEPT ![r].pc = "accounts", ![r].running = running]
    /\ UNCHANGED <<now, hits, cache, technical, queue, lock, stray, collected, admitted, arrivals>>

(* Mutated form: the snapshot is handed out and not stored. *)
StoresNothing(r, e) ==
    /\ cache' = cache
    /\ request' = [request EXCEPT ![r] = Served(Snapshot(e))]
    /\ lock' = NoOne

(* The snapshot is stored and handed out, and the lock released. *)
Store(r, e) ==
    /\ cache' = {e}
    /\ request' = [request EXCEPT ![r] = Served(Snapshot(e))]
    /\ lock' = NoOne

Ends(r, accounts, rated) ==
    /\ Store(r, [at |-> now, read |-> request[r].read, rated |-> rated,
                 accounts |-> accounts, total |-> Total(Shown(accounts))])
    /\ collected' = {now}
    /\ UNCHANGED <<now, hits, queue, stray, admitted, arrivals>>

(* Every bot's calls are back, each answered or failed.  Ratings that are   *)
(* still good are used at once.                                            *)
Collected(r) ==
    /\ request[r].pc = "accounts"
    /\ \E answered \in [Bots -> [Calls -> Fetched]] :
        LET accounts == [b \in Bots |-> Account(b \in request[r].running, answered[b])] IN
        IF Hit(technical, TechnicalTtl)
        THEN \E e \in technical : Ends(r, accounts, e.at) /\ UNCHANGED technical
        ELSE /\ request' = [request EXCEPT ![r].pc = "ratings", ![r].accounts = accounts]
             /\ UNCHANGED <<now, hits, cache, technical, queue, lock, stray, collected, admitted, arrivals>>

(* The ratings are back; a scanner that failed gave fewer, or none. *)
Rated(r) ==
    /\ request[r].pc = "ratings"
    /\ technical' = {[at |-> now]}
    /\ Ends(r, request[r].accounts, now)

(* Mutated form: the lock stays with the request that failed. *)
KeepsLock == lock

Released == NoOne

(* Something other than a ProxyError was raised for some bot: the request   *)
(* is answered 500, nothing is cached, and the next one collects again,    *)
(* while the requests to the bots that were still out go on.               *)
Raise(r) ==
    /\ request[r].pc \in {"accounts", "ratings"}
    /\ request' = [request EXCEPT ![r] = [NoRequest EXCEPT !.pc = "failed"]]
    /\ lock' = Released
    /\ \/ stray' = stray
       \/ /\ request[r].pc = "accounts"
          /\ stray' = stray \cup {request[r].read}
    /\ UNCHANGED <<now, hits, cache, technical, queue, collected, admitted, arrivals>>

(* The last of them is answered or timed out; nobody looks at it. *)
StrayEnds(t) ==
    /\ stray' = stray \ {t}
    /\ UNCHANGED <<now, hits, cache, technical, queue, lock, request, collected, admitted, arrivals>>

Over(r) == request[r].pc \in {"served", "failed", "refused"}

Finish(r) ==
    /\ Over(r)
    /\ request' = [request EXCEPT ![r] = NoRequest]
    /\ UNCHANGED <<now, hits, cache, technical, queue, lock, stray, collected, admitted, arrivals>>

(* A handler that changed what the page shows drops the snapshot. *)
Invalidate ==
    /\ cache # {} /\ cache' = {} /\ collected' = {}
    /\ UNCHANGED <<now, hits, technical, queue, lock, request, stray, admitted, arrivals>>

(* Timeouts end every await of a collection, failed or not; an answer is    *)
(* sent at once.                                                           *)
Collecting(r) == request[r].pc \in {"states", "accounts", "ratings"}

Tick ==
    /\ now < MaxTime
    /\ \A r \in Requests : Collecting(r) => now - request[r].read < CollectTime
    /\ \A t \in stray : now - t < CollectTime
    /\ \A r \in Requests : ~Over(r)
    /\ now' = now + 1
    /\ UNCHANGED <<hits, cache, technical, queue, lock, request, stray, collected, admitted, arrivals>>

Init ==
    /\ now = 0
    /\ hits = [c \in {} |-> << >>]
    /\ cache = {} /\ technical = {}
    /\ queue = << >> /\ lock = NoOne
    /\ request = [r \in Requests |-> NoRequest]
    /\ stray = {} /\ collected = {}
    /\ admitted = [c \in Clients |-> << >>]
    /\ arrivals = 0

Work(r) ==
    Enter(r) \/ States(r) \/ Collected(r) \/ Rated(r) \/ Raise(r)

Next ==
    \/ \E r \in Requests : \/ \E c \in Clients : Arrive(r, c)
                           \/ Work(r) \/ Finish(r)
    \/ \E t \in stray : StrayEnds(t)
    \/ Invalidate \/ Tick

(* The event loop runs what is ready, and every await ends. *)
Spec == Init /\ [][Next]_vars /\ \A r \in Requests : WF_vars(Work(r))

-----------------------------------------------------------------------------
(* Properties. *)

Payloads == [read : 0..MaxTime, rated : 0..MaxTime]

(* The type invariant; no bucket outgrows the budget. *)
TypeOK ==
    /\ now \in 0..MaxTime
    /\ DOMAIN hits \subseteq Clients /\ \A c \in DOMAIN hits : Len(hits[c]) <= Budget
    /\ Cardinality(cache) <= 1 /\ Cardinality(technical) <= 1
    /\ \A e \in cache : Snapshot(e) \subseteq Payloads /\ e.accounts \in [Bots -> Accounts]
    /\ stray \subseteq 0..MaxTime /\ collected \subseteq 0..MaxTime
    /\ queue \in Seq(Requests) /\ lock \in Requests \cup {NoOne}
    /\ \A r \in Requests : request[r].payload \subseteq Payloads

(* Whatever was invalidated, failed or queued in between, what a client is  *)
(* shown was read less than a time to live and one collection ago, and its *)
(* ratings fetched less than their own time to live before that.           *)
ServedFresh ==
    [][\A r \in Requests : \A p \in request'[r].payload :
          request[r].payload = {} =>
              /\ p.read < Ttl + CollectTime
              /\ p.rated < TechnicalTtl + Ttl + CollectTime]_vars

(* "Allow budget requests per minute per IP, else raise 429": a request is  *)
(* refused exactly when that many of its client were let through in the    *)
(* window that ends now.                                                   *)
RateExact ==
    [][\A r \in Requests, c \in Clients :
          Arrive(r, c) =>
              (request'[r].pc = "refused") =
              (Cardinality({i \in DOMAIN admitted[c] : admitted[c][i] >= now - Window}) >= Budget)
      ]_vars

(* "The dict cannot grow unbounded": after each request only clients seen   *)
(* within the window have a bucket.                                        *)
NoIdleBuckets ==
    [][\A c \in DOMAIN hits' :
          hits' # hits => \E i \in DOMAIN admitted'[c] : admitted'[c][i] >= now - Window]_vars

(* "A burst of anonymous requests collapses into a single fan-out": unless   *)
(* what it found was dropped since, nobody collects within a time to live  *)
(* of the last collection that succeeded, however many queued up behind it.*)
BurstSharesOne ==
    [][\A r \in Requests : Collecting(r)' /\ ~Collecting(r) => \A t \in collected : now - t >= Ttl]_vars

(* One request collects at a time, and it ends before the next begins.      *)
(* Beside it only requests to bots that a failed collection left behind    *)
(* may be out, and those no longer than that collection could have lasted. *)
Turns == INSTANCE Mutex WITH
             Tasks <- Requests,
             waiting <- {r \in Requests : request[r].pc = "wait"},
             inside <- {r \in Requests : Collecting(r)}

StraysEnd == \A t \in stray : now - t <= CollectTime

OneCollection == Turns!Spec /\ []StraysEnd

(* "A bot being down is not an error", nor is what a bot may answer: what is *)
(* stored, and then handed to every visitor for a time to live, is a page  *)
(* the response schema admits and JSON can carry.                          *)
Servable ==
    \A e \in cache :
        /\ e.total = "float"
        /\ \A b \in Bots, k \in Calls : e.accounts[b].live[k] \subseteq Schema(k)

(* A request that waits behind a collection is answered, even if that       *)
(* collection fails.                                                       *)
Answered == \A r \in Requests : request[r].pc = "wait" ~> request[r].pc \in {"served", "failed"}

=============================================================================
