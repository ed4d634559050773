------------------------------- MODULE Session -------------------------------
(***************************************************************************)
(* A browser's session with the control plane: the tokens it stores, the   *)
(* requests of a page, the one refresh they share when an access token     *)
(* has expired (frontend/src/api/client.ts), logging in and out, and what  *)
(* the backend answers to a token (routers/auth.py, security/deps.py).     *)
(*                                                                         *)
(* A request of the page is                                                *)
(*                                                                         *)
(*   idle -> sent -> (joined -> sent) -> idle                              *)
(*                                                                         *)
(* joined is the await on the shared refresh, after a first 401; what      *)
(* follows the refresh's answer, in every request that awaits it, runs     *)
(* before the browser handles anything else.  The server's answer and its  *)
(* handling are one step: a token it refuses it refuses later too.         *)
(***************************************************************************)
EXTENDS Naturals, FiniteSets

CONSTANTS
    Requests,    \* requests of the page at the same time
    Principals,  \* who may log in at this browser
    KindOf,      \* "admin" or "user", for each of them
    MaxEpochs,   \* bound: how often access tokens expire
    MaxLogins    \* bound: logins

ASSUME KindAssumption == KindOf \in [Principals -> {"admin", "user"}]

ASSUME BoundsAssumption == MaxEpochs \in Nat /\ MaxLogins \in Nat

VARIABLES
    store,       \* localStorage: access token, refresh token, kind; {} if absent
    page,        \* the kind AuthContext holds, if any
    refreshing,  \* the shared promises in flight, with the refresh token sent
    request,     \* what each request is doing
    signing,     \* the login in flight, if any
    gone,        \* deleted accounts
    epoch,       \* access tokens of earlier epochs have expired
    logins,      \* logins so far; numbers the refresh tokens
    dead,        \* refresh tokens of logins up to this one have expired
    mixed        \* history: since the last clean login, a refresh outlived a login or logout

vars == <<store, page, refreshing, request, signing, gone, epoch, logins, dead, mixed>>

server == <<gone, epoch, dead>>

-----------------------------------------------------------------------------
(* Tokens and what the backend makes of them. *)

AccessTokens == [who : Principals, epoch : 0..MaxEpochs]
RefreshTokens == [who : Principals, login : 1..MaxLogins]

(* create_token: an access token is good for the epoch it is issued in. *)
Access(who) == [who |-> who, epoch |-> epoch]

(* decode_token: signed, of the right type, and good until it expires. *)
Decodes(t) == t.epoch = epoch

(* get_current_admin and get_current_user, for a route that wants a kind.   *)
(* A request without a token is refused before them, with 401 or 403       *)
(* depending on the version of FastAPI.                                    *)
Answers(kind, tok) ==
    IF tok = {} THEN {401, 403}
    ELSE LET t == CHOOSE u \in tok : TRUE IN
         IF ~Decodes(t) THEN {401}
         ELSE IF KindOf[t.who] # kind THEN {403}
         ELSE IF t.who \in gone THEN {401} ELSE {200}

(* refresh: the token alone counts, not the row of its principal. *)
Refreshes(t) == t.login > dead

-----------------------------------------------------------------------------
(* tokenStore and the requests of the document. *)

EmptyStore == [access |-> {}, refresh |-> {}, kind |-> {}]

Full(who, n) == [access |-> {Access(who)}, refresh |-> {[who |-> who, login |-> n]},
                 kind |-> {KindOf[who]}]

(* Mutated form: the kind stays behind. *)
TokensCleared(s) == [EmptyStore EXCEPT !.kind = s.kind]

Cleared(s) == EmptyStore

NoRequest == [pc |-> "idle", kind |-> "none", tok |-> {}, retried |-> FALSE,
              outcome |-> "none", hurt |-> FALSE]

Ended(req, outcome) == [NoRequest EXCEPT !.outcome = outcome, !.hurt = req.hurt]

Live(r) == request[r].pc # "idle"

(* History: these requests met more than one expiry of an access token. *)
Hurt(R) == [r \in Requests |-> [request[r] EXCEPT !.hurt = @ \/ (r \in R /\ Live(r))]]

(* The document goes, its requests and its refresh with it; the new one is *)
(* logged in if a kind and an access token are stored (isAuthed).          *)
Reloaded(s) ==
    /\ page' = IF s.access = {} THEN {} ELSE s.kind
    /\ request' = [r \in Requests |-> NoRequest]
    /\ refreshing' = {}
    /\ signing' = {}


(* A page that asks for the login form, which is where it is already when  *)
(* nobody is logged in: then the requests go on as given.                  *)
Bounced(s, requests) ==
    IF page # {} THEN Reloaded(s)
    ELSE request' = requests /\ refreshing' = {} /\ UNCHANGED <<page, signing>>

-----------------------------------------------------------------------------
(* Requests.  The pages of a kind call the routes of that kind              *)
(* (ProtectedRoute), with the token stored when they are sent.             *)

Send(r) ==
    /\ ~Live(r)
    /\ \E k \in page :
        request' = [request EXCEPT ![r] = [NoRequest EXCEPT
                       !.pc = "sent", !.kind = k, !.tok = store.access,
                       !.hurt = mixed \/ \E t \in store.access : t.who \in gone]]
    /\ UNCHANGED <<store, page, refreshing, signing, logins, mixed, server>>

Outcome(answer) == CASE answer = 200 -> "ok" [] answer = 401 -> "unauthorized" [] OTHER -> "forbidden"

(* Any answer but a first 401 ends the request. *)
Respond(r) ==
    /\ request[r].pc = "sent"
    /\ \E a \in Answers(request[r].kind, request[r].tok) :
        /\ a = 401 => request[r].retried
        /\ request' = [request EXCEPT ![r] = Ended(@, Outcome(a))]
    /\ UNCHANGED <<store, page, refreshing, signing, logins, mixed, server>>

(* Mutated form: the request is not marked as retried. *)
JoinedUnmarked(req) == [req EXCEPT !.pc = "joined"]

Joined(req) == [req EXCEPT !.pc = "joined", !.retried = TRUE]

(* Mutated form: every request refreshes for itself. *)
RefreshesAlone(r) == TRUE

StartsRefresh(r) == refreshing = {}

(* A first 401: the request awaits the refresh, which it starts unless one *)
(* is in flight.  Without a refresh token there is nothing to await.       *)
Unauthorized(r) ==
    /\ request[r].pc = "sent" /\ ~request[r].retried
    /\ 401 \in Answers(request[r].kind, request[r].tok)
    /\ StartsRefresh(r) => store.refresh # {}
    /\ request' = [request EXCEPT ![r] = Joined(@)]
    /\ refreshing' = IF StartsRefresh(r)
                     THEN refreshing \cup {[by |-> r, token |-> t] : t \in store.refresh}
                     ELSE refreshing
    /\ UNCHANGED <<store, page, signing, logins, mixed, server>>

(* There is nothing to refresh with. *)
UnauthorizedAlone(r) ==
    /\ request[r].pc = "sent" /\ ~request[r].retried
    /\ 401 \in Answers(request[r].kind, request[r].tok)
    /\ StartsRefresh(r) /\ store.refresh = {}
    /\ Bounced(store, [request EXCEPT ![r] = Ended(@, "unauthorized")])
    /\ UNCHANGED <<store, logins, mixed, server>>

-----------------------------------------------------------------------------
(* The answer of the refresh, and what it does to those that await it. *)

Retried(req, tok) == [req EXCEPT !.pc = "sent", !.tok = tok]

(* Mutated form: the retry keeps the token it had. *)
ResumedAsSent(p, tok) ==
    [r \in Requests |-> IF request[r].pc = "joined" THEN Retried(request[r], request[r].tok)
                        ELSE request[r]]

(* Mutated form: only the request that started the refresh goes on. *)
ResumedStarter(p, tok) == [request EXCEPT ![p.by] = Retried(@, tok)]

Resumed(p, tok) ==
    [r \in Requests |-> IF request[r].pc = "joined" THEN Retried(request[r], tok) ELSE request[r]]

(* setAccess, and the retries, which the request interceptor gives the      *)
(* token stored now.                                                       *)
RefreshAnswered ==
    /\ \E p \in refreshing :
        /\ Refreshes(p.token)
        /\ store' = [store EXCEPT !.access = {Access(p.token.who)}]
        /\ request' = Resumed(p, store'.access)
        /\ refreshing' = refreshing \ {p}
    /\ UNCHANGED <<page, signing, logins, mixed, server>>

(* The store is cleared, whoever's it is by now. *)
RefreshFails(hurts) ==
    /\ store' = Cleared(store)
    /\ Bounced(store', [r \in Requests |->
           IF request[r].pc = "joined"
           THEN [Ended(request[r], "unauthorized") EXCEPT !.hurt = @ \/ hurts]
           ELSE request[r]])
    /\ UNCHANGED <<logins, mixed, server>>

RefreshRefused == (\E p \in refreshing : ~Refreshes(p.token)) /\ RefreshFails(FALSE)

(* The network loses the refresh, and with it the session. *)
RefreshLost == refreshing # {} /\ RefreshFails(TRUE)

-----------------------------------------------------------------------------
(* Logging in and out, and reloading. *)

(* LoginPage: shown while nobody is logged in, one submission at a time. *)
SignIn(who) ==
    /\ page = {} /\ signing = {} /\ logins < MaxLogins
    /\ signing' = {who}
    /\ UNCHANGED <<store, page, refreshing, request, logins, mixed, server>>

SignedIn ==
    /\ \E who \in signing \ gone :
        /\ logins' = logins + 1
        /\ store' = Full(who, logins')
        /\ page' = {KindOf[who]}
    /\ signing' = {}
    /\ mixed' = (refreshing # {})
    /\ request' = Hurt(Requests)
    /\ UNCHANGED <<refreshing, server>>

(* The password is wrong, the account is gone, or the network fails. *)
SignInFails ==
    /\ signing # {}
    /\ signing' = {}
    /\ UNCHANGED <<store, page, refreshing, request, logins, mixed, server>>

Logout ==
    /\ page # {}
    /\ store' = Cleared(store)
    /\ page' = {}
    /\ mixed' = (mixed \/ refreshing # {})
    /\ request' = Hurt(Requests)
    /\ UNCHANGED <<refreshing, signing, logins, server>>

Reload ==
    /\ Reloaded(store)
    /\ UNCHANGED <<store, logins, mixed, server>>

-----------------------------------------------------------------------------
(* Time and the administrator. *)

(* A second expiry within one request is more than one refresh mends. *)
Expire ==
    /\ epoch < MaxEpochs
    /\ epoch' = epoch + 1
    /\ request' = Hurt({r \in Requests : request[r].retried})
    /\ UNCHANGED <<store, page, refreshing, signing, gone, logins, dead, mixed>>

RefreshExpires ==
    /\ dead < logins
    /\ dead' = logins
    /\ request' = Hurt(Requests)
    /\ UNCHANGED <<store, page, refreshing, signing, gone, epoch, logins, mixed>>

DeleteUser(who) ==
    /\ KindOf[who] = "user" /\ who \notin gone
    /\ gone' = gone \cup {who}
    /\ request' = Hurt(Requests)
    /\ UNCHANGED <<store, page, refreshing, signing, epoch, logins, dead, mixed>>

-----------------------------------------------------------------------------

Init ==
    /\ store = EmptyStore /\ page = {} /\ refreshing = {} /\ signing = {}
    /\ request = [r \in Requests |-> NoRequest]
    /\ gone = {} /\ epoch = 0 /\ logins = 0 /\ dead = 0 /\ mixed = FALSE

Client ==
    \/ \E r \in Requests : Send(r) \/ Respond(r) \/ Unauthorized(r) \/ UnauthorizedAlone(r)
    \/ RefreshAnswered \/ RefreshRefused \/ RefreshLost

Person == \/ \E who \in Principals : SignIn(who)
          \/ SignedIn \/ SignInFails \/ Logout \/ Reload

World == Expire \/ RefreshExpires \/ \E who \in Principals : DeleteUser(who)

Next == Client \/ Person \/ World

(* Every request sent is answered or fails: the server and the browser's    *)
(* own time limits see to that.                                            *)
Fairness ==
    /\ \A r \in Requests : WF_vars(Respond(r) \/ Unauthorized(r) \/ UnauthorizedAlone(r))
    /\ WF_vars(RefreshAnswered \/ RefreshRefused \/ RefreshLost)

Spec == Init /\ [][Next]_vars /\ Fairness

-----------------------------------------------------------------------------

(* Types; a request that awaits a refresh will not await a second one. *)
TypeOK ==
    /\ store.access \subseteq AccessTokens /\ store.refresh \subseteq RefreshTokens
    /\ page \subseteq {"admin", "user"} /\ store.kind \subseteq {"admin", "user"}
    /\ refreshing \subseteq [by : Requests, token : RefreshTokens]
    /\ \A r \in Requests :
          /\ request[r].pc \in {"idle", "sent", "joined"}
          /\ request[r].tok \subseteq AccessTokens
          /\ request[r].pc = "joined" => request[r].retried

(* However many requests see their token expired, one refresh is in flight, *)
(* and no request awaits one that is not (client.ts).                      *)
SharedRefresh ==
    /\ Cardinality(refreshing) <= 1
    /\ \A r \in Requests : request[r].pc = "joined" => refreshing # {}

(* The expiry of an access token is never seen: a request of a page fails   *)
(* with 401 or 403 only when, while it ran, somebody logged in or out, the  *)
(* account was deleted, the refresh token expired or its answer was lost,   *)
(* or the token expired twice.                                             *)
ExpiryInvisible ==
    \A r \in Requests : request[r].outcome \in {"unauthorized", "forbidden"} => request[r].hurt

(* What the page shows, the kind stored and the tokens belong to one        *)
(* principal, unless a refresh outlived a login or logout.                 *)
Coherent ==
    ~mixed =>
        /\ page = store.kind
        /\ store.kind = {KindOf[t.who] : t \in store.access}
        /\ {t.who : t \in store.access} = {t.who : t \in store.refresh}

(* After a logout no late refresh and no reload shows a page of a kind:     *)
(* only a login does.                                                      *)
StaysLoggedOut == [][page = {} /\ page' # {} => logins' = logins + 1]_vars

(* Every request ends, those that await a refresh included. *)
Settles == \A r \in Requests : (request[r].pc # "idle") ~> (request[r].pc = "idle")

=============================================================================
