---------------------------- MODULE SessionProofs ----------------------------
(***************************************************************************)
(* Proofs about Session, for any principals, any number of requests of the *)
(* page, and any number of logins and expiries.                            *)
(***************************************************************************)
EXTENDS Session, FiniteSetTheorems, TLAPS

(* The inductive invariant, in parts.  Each part is kept by every step if   *)
(* the parts before it hold.                                               *)

RequestStates ==
    [pc : {"idle", "sent", "joined"}, kind : {"none", "admin", "user"},
     tok : SUBSET AccessTokens, retried : BOOLEAN,
     outcome : {"none", "ok", "unauthorized", "forbidden"}, hurt : BOOLEAN]

Stores == [access : SUBSET AccessTokens, refresh : SUBSET RefreshTokens,
           kind : SUBSET {"admin", "user"}]

Types ==
    /\ store \in Stores
    /\ page \subseteq {"admin", "user"}
    /\ refreshing \subseteq [by : Requests, token : RefreshTokens]
    /\ request \in [Requests -> RequestStates]
    /\ signing \subseteq Principals /\ gone \subseteq Principals
    /\ epoch \in 0..MaxEpochs /\ logins \in 0..MaxLogins /\ dead \in Nat
    /\ mixed \in BOOLEAN
    /\ signing # {} => logins < MaxLogins

(* One refresh, awaited by requests that will not await a second one; the   *)
(* store keeps one refresh token.                                          *)
Sharing ==
    /\ \A t, u \in store.refresh : t = u
    /\ \A p, q \in refreshing : p = q
    /\ \A r \in Requests : request[r].pc = "joined" => request[r].retried /\ refreshing # {}

(* The page shows what the store says, and a kind never stands alone.      *)
Shown ==
    /\ page = store.kind
    /\ store.kind # {} => store.access # {}

(* Nobody is logged in and nothing is in flight. *)
Nobody == store = EmptyStore /\ refreshing = {}

(* The store and the refresh in flight are those of w. *)
Owner(w) ==
    /\ \E e \in 0..MaxEpochs : store.access = {[who |-> w, epoch |-> e]}
    /\ \E n \in 1..MaxLogins : store.refresh = {[who |-> w, login |-> n]}
    /\ store.kind = {KindOf[w]}
    /\ \A p \in refreshing : p.token.who = w

OneOwner == ~mixed => Nobody \/ \E w \in Principals : Owner(w)

(* The request carries a token of w for a route of w's kind; a retry's      *)
(* token has not expired.                                                  *)
Carries(r, w) ==
    /\ w \notin gone /\ KindOf[w] = request[r].kind
    /\ \E e \in 0..MaxEpochs :
          /\ request[r].tok = {[who |-> w, epoch |-> e]}
          /\ request[r].pc = "sent" /\ request[r].retried => e = epoch

(* A request under way that nothing has disturbed belongs to whoever is     *)
(* logged in.                                                              *)
Undisturbed ==
    \A r \in Requests : Live(r) /\ ~request[r].hurt =>
        ~mixed /\ \E w \in Principals : Owner(w) /\ Carries(r, w)

SessionInv == Types /\ Sharing /\ Shown /\ OneOwner /\ Undisturbed /\ ExpiryInvisible

-----------------------------------------------------------------------------
(* Types. *)

(* What the steps of a request make of it is a request. *)
LEMMA RequestFacts ==
    /\ NoRequest \in RequestStates
    /\ \A q \in RequestStates :
          /\ \A o \in {"ok", "unauthorized", "forbidden"} : Ended(q, o) \in RequestStates
          /\ Joined(q) \in RequestStates
          /\ \A tok \in SUBSET AccessTokens : Retried(q, tok) \in RequestStates
          /\ \A b \in BOOLEAN : [q EXCEPT !.hurt = @ \/ b] \in RequestStates
  BY DEF RequestStates, NoRequest, Ended, Joined, Retried

LEMMA HurtTypes ==
    ASSUME Types, NEW R
    PROVE  Hurt(R) \in [Requests -> RequestStates]
  <1>1. \A r \in Requests : [request[r] EXCEPT !.hurt = @ \/ (r \in R /\ Live(r))] \in RequestStates
    BY DEF Types, RequestStates
  <1>2. QED
    BY <1>1 DEF Hurt

LEMMA AccessTypes ==
    ASSUME Types, NEW w \in Principals
    PROVE  Access(w) \in AccessTokens
  BY DEF Types, Access, AccessTokens

(* A page that is bounced to the login form. *)
LEMMA BouncedTypes ==
    ASSUME Types, NEW s \in Stores, NEW qs \in [Requests -> RequestStates],
           \/ Reloaded(s)
           \/ Bounced(s, qs)
    PROVE  /\ page' \subseteq {"admin", "user"}
           /\ request' \in [Requests -> RequestStates]
           /\ refreshing' = {}
           /\ signing' \subseteq signing
  <1>1. CASE Reloaded(s)
    BY <1>1, RequestFacts DEF Reloaded, Types, Stores
  <1>2. CASE ~Reloaded(s)
    BY <1>2 DEF Bounced, Types
  <1>3. QED
    BY <1>1, <1>2

LEMMA TypesStep ==
    ASSUME Types, [Next]_vars
    PROVE  Types'
  <1>1. CASE UNCHANGED vars
    BY <1>1 DEF vars, Types, Stores, RequestStates, AccessTokens, RefreshTokens
  <1>2. ASSUME NEW r \in Requests, Send(r)
        PROVE  Types'
    <2>1. ASSUME NEW k \in page
          PROVE  [NoRequest EXCEPT !.pc = "sent", !.kind = k, !.tok = store.access,
                      !.hurt = mixed \/ \E t \in store.access : t.who \in gone] \in RequestStates
      BY <2>1 DEF Types, Stores, NoRequest, RequestStates
    <2>2. request' \in [Requests -> RequestStates]
      BY <1>2, <2>1 DEF Send, Types
    <2>3. QED
      BY <1>2, <2>2 DEF Send, server, Types, Stores, RefreshTokens
  <1>3. ASSUME NEW r \in Requests, Respond(r)
        PROVE  Types'
    <2>1. request' \in [Requests -> RequestStates]
      BY <1>3, RequestFacts DEF Respond, Types, Outcome
    <2>2. QED
      BY <1>3, <2>1 DEF Respond, server, Types, Stores, RefreshTokens
  <1>4. ASSUME NEW r \in Requests, Unauthorized(r)
        PROVE  Types'
    <2>1. request' \in [Requests -> RequestStates]
      BY <1>4, RequestFacts DEF Unauthorized, Types
    <2>2. \A t \in store.refresh : [by |-> r, token |-> t] \in [by : Requests, token : RefreshTokens]
      BY DEF Types, Stores
    <2>3. refreshing' \subseteq [by : Requests, token : RefreshTokens]
      BY <1>4, <2>2 DEF Unauthorized, Types
    <2>4. QED
      BY <1>4, <2>1, <2>3 DEF Unauthorized, server, Types, Stores, RefreshTokens
  <1>5. ASSUME NEW r \in Requests, UnauthorizedAlone(r)
        PROVE  Types'
    <2>1. [request EXCEPT ![r] = Ended(@, "unauthorized")] \in [Requests -> RequestStates]
      BY RequestFacts DEF Types
    <2>2. store \in Stores
      BY DEF Types
    <2>3. Bounced(store, [request EXCEPT ![r] = Ended(@, "unauthorized")])
      BY <1>5 DEF UnauthorizedAlone
    <2>4. /\ page' \subseteq {"admin", "user"} /\ request' \in [Requests -> RequestStates]
          /\ refreshing' = {} /\ signing' \subseteq signing
      BY <2>1, <2>2, <2>3, BouncedTypes
    <2>5. QED
      BY <1>5, <2>4 DEF UnauthorizedAlone, server, Types, Stores, RefreshTokens
  <1>6. CASE RefreshAnswered
    <2>1. PICK p \in refreshing :
             /\ store' = [store EXCEPT !.access = {Access(p.token.who)}]
             /\ request' = Resumed(p, store'.access)
             /\ refreshing' = refreshing \ {p}
      BY <1>6 DEF RefreshAnswered
    <2>2. Access(p.token.who) \in AccessTokens
      BY AccessTypes DEF Types, RefreshTokens
    <2>3. store' \in Stores /\ store'.access \subseteq AccessTokens
      BY <2>1, <2>2 DEF Types, Stores
    <2>4. request' \in [Requests -> RequestStates]
      BY <2>1, <2>3, RequestFacts DEF Resumed, Types
    <2>5. QED
      BY <1>6, <2>1, <2>3, <2>4 DEF RefreshAnswered, server, Types, Stores, AccessTokens, RefreshTokens
  <1>7. ASSUME NEW b \in BOOLEAN, RefreshFails(b)
        PROVE  Types'
    <2> DEFINE qs == [r \in Requests |->
                         IF request[r].pc = "joined"
                         THEN [Ended(request[r], "unauthorized") EXCEPT !.hurt = @ \/ b]
                         ELSE request[r]]
    <2>1. qs \in [Requests -> RequestStates]
      BY RequestFacts DEF Types
    <2>2. store' = EmptyStore /\ EmptyStore \in Stores
      BY <1>7 DEF RefreshFails, Cleared, EmptyStore, Stores
    <2>3. Bounced(EmptyStore, qs)
      BY <1>7, <2>2 DEF RefreshFails
    <2>4. /\ page' \subseteq {"admin", "user"} /\ request' \in [Requests -> RequestStates]
          /\ refreshing' = {} /\ signing' \subseteq signing
      BY <2>1, <2>2, <2>3, BouncedTypes
    <2>5. QED
      BY <1>7, <2>2, <2>4 DEF RefreshFails, server, Types, Stores, AccessTokens, RefreshTokens
  <1>8. CASE RefreshRefused \/ RefreshLost
    BY <1>7, <1>8 DEF RefreshRefused, RefreshLost
  <1>9. ASSUME NEW w \in Principals, SignIn(w)
        PROVE  Types'
    BY <1>9, BoundsAssumption DEF SignIn, server, Types, Stores, RequestStates, AccessTokens, RefreshTokens
  <1>10. CASE SignedIn
    <2>1. PICK w \in signing \ gone :
             logins' = logins + 1 /\ store' = Full(w, logins') /\ page' = {KindOf[w]}
      BY <1>10 DEF SignedIn
    <2>2. w \in Principals /\ KindOf[w] \in {"admin", "user"}
      BY <2>1, KindAssumption DEF Types
    <2>3. logins' \in 1..MaxLogins
      BY <2>1, BoundsAssumption DEF Types
    <2>4. store' \in Stores
      BY <2>1, <2>2, <2>3, AccessTypes DEF Full, Stores, RefreshTokens
    <2>5. request' \in [Requests -> RequestStates]
      BY <1>10, HurtTypes DEF SignedIn
    <2>6. QED
      BY <1>10, <2>1, <2>2, <2>3, <2>4, <2>5
      DEF SignedIn, server, Types, Stores, AccessTokens, RefreshTokens
  <1>11. CASE SignInFails
    BY <1>11 DEF SignInFails, server, Types, Stores, RequestStates, AccessTokens, RefreshTokens
  <1>12. CASE Logout
    <2>1. request' \in [Requests -> RequestStates]
      BY <1>12, HurtTypes DEF Logout
    <2>2. store' \in Stores
      BY <1>12 DEF Logout, Cleared, EmptyStore, Stores
    <2>3. QED
      BY <1>12, <2>1, <2>2 DEF Logout, server, Types, Stores, AccessTokens, RefreshTokens
  <1>13. CASE Reload
    <2>1. store \in Stores /\ request \in [Requests -> RequestStates] /\ Reloaded(store)
      BY <1>13 DEF Reload, Types
    <2>2. /\ page' \subseteq {"admin", "user"} /\ request' \in [Requests -> RequestStates]
          /\ refreshing' = {} /\ signing' \subseteq signing
      BY <2>1, BouncedTypes
    <2>3. QED
      BY <1>13, <2>2 DEF Reload, server, Types, Stores, AccessTokens, RefreshTokens
  <1>14. CASE Expire
    <2>1. request' \in [Requests -> RequestStates]
      BY <1>14, HurtTypes DEF Expire
    <2>2. QED
      BY <1>14, <2>1, BoundsAssumption DEF Expire, Types, Stores, AccessTokens, RefreshTokens
  <1>15. CASE RefreshExpires
    <2>1. request' \in [Requests -> RequestStates]
      BY <1>15, HurtTypes DEF RefreshExpires
    <2>2. QED
      BY <1>15, <2>1, BoundsAssumption DEF RefreshExpires, Types, Stores, AccessTokens, RefreshTokens
  <1>16. ASSUME NEW w \in Principals, DeleteUser(w)
         PROVE  Types'
    <2>1. request' \in [Requests -> RequestStates]
      BY <1>16, HurtTypes DEF DeleteUser
    <2>2. QED
      BY <1>16, <2>1 DEF DeleteUser, Types, Stores, AccessTokens, RefreshTokens
  <1>17. QED
    BY <1>1, <1>2, <1>3, <1>4, <1>5, <1>6, <1>8, <1>9, <1>10, <1>11, <1>12, <1>13, <1>14, <1>15,
       <1>16 DEF Next, Client, Person, World

-----------------------------------------------------------------------------
(* The shared refresh. *)

LEMMA RetriedFacts ==
    ASSUME NEW q \in RequestStates, NEW tok
    PROVE  /\ Retried(q, tok).pc = "sent" /\ Retried(q, tok).tok = tok
           /\ Retried(q, tok).kind = q.kind /\ Retried(q, tok).retried = q.retried
           /\ Retried(q, tok).hurt = q.hurt /\ Retried(q, tok).outcome = q.outcome
  BY DEF Retried, RequestStates

LEMMA HurtFacts ==
    ASSUME Types, NEW R, NEW r \in Requests
    PROVE  /\ Hurt(R)[r].pc = request[r].pc
           /\ Hurt(R)[r].kind = request[r].kind
           /\ Hurt(R)[r].tok = request[r].tok
           /\ Hurt(R)[r].retried = request[r].retried
           /\ Hurt(R)[r].outcome = request[r].outcome
           /\ Hurt(R)[r].hurt = (request[r].hurt \/ (r \in R /\ Live(r)))
  <1>1. Hurt(R)[r] = [request[r] EXCEPT !.hurt = @ \/ (r \in R /\ Live(r))]
    BY DEF Hurt
  <1>2. request[r] \in RequestStates
    BY DEF Types
  <1>3. QED
    BY <1>1, <1>2 DEF RequestStates

(* When a refresh has failed nobody awaits it. *)
LEMMA BouncedSharing ==
    ASSUME NEW s, NEW qs, Bounced(s, qs),
           \A r \in Requests : qs[r].pc # "joined"
    PROVE  refreshing' = {} /\ \A r \in Requests : request'[r].pc # "joined"
  BY DEF Bounced, Reloaded, NoRequest

LEMMA SharingStep ==
    ASSUME Types, Sharing, [Next]_vars
    PROVE  Sharing'
  <1>1. CASE UNCHANGED vars
    BY <1>1 DEF vars, Sharing
  <1>2. ASSUME NEW r \in Requests, Send(r)
        PROVE  Sharing'
    <2>1. \A q \in Requests : request'[q].pc = "joined" => request'[q] = request[q]
      BY <1>2 DEF Send, Types, NoRequest
    <2>2. QED
      BY <1>2, <2>1 DEF Send, Sharing
  <1>3. ASSUME NEW r \in Requests, Respond(r)
        PROVE  Sharing'
    <2>1. \A q \in Requests : request'[q].pc = "joined" => request'[q] = request[q]
      BY <1>3 DEF Respond, Types, Ended, NoRequest
    <2>2. QED
      BY <1>3, <2>1 DEF Respond, Sharing
  <1>4. ASSUME NEW r \in Requests, Unauthorized(r)
        PROVE  Sharing'
    <2>1. request[r] \in RequestStates /\ request' = [request EXCEPT ![r] = Joined(@)]
      BY <1>4 DEF Unauthorized, Types
    <2>2. request'[r].retried /\ \A q \in Requests \ {r} : request'[q] = request[q]
      BY <2>1 DEF Joined, Types, RequestStates
    <2>3. CASE refreshing = {}
      <3>1. store.refresh # {} /\ refreshing' = {[by |-> r, token |-> t] : t \in store.refresh}
        BY <1>4, <2>3 DEF Unauthorized, StartsRefresh
      <3>2. refreshing' # {} /\ \A p, q \in refreshing' : p = q
        BY <3>1 DEF Sharing
      <3>3. QED
        BY <1>4, <2>2, <3>2 DEF Unauthorized, Sharing
    <2>4. CASE refreshing # {}
      BY <1>4, <2>2, <2>4 DEF Unauthorized, StartsRefresh, Sharing
    <2>5. QED
      BY <2>3, <2>4
  <1>5. ASSUME NEW r \in Requests, UnauthorizedAlone(r)
        PROVE  Sharing'
    <2>1. \A q \in Requests : [request EXCEPT ![r] = Ended(@, "unauthorized")][q].pc # "joined"
      BY <1>5 DEF UnauthorizedAlone, StartsRefresh, Sharing, Types, Ended, NoRequest
    <2>2. QED
      BY <1>5, <2>1, BouncedSharing DEF UnauthorizedAlone, Sharing
  <1>6. CASE RefreshAnswered
    <2>1. PICK p \in refreshing : refreshing' = refreshing \ {p} /\ request' = Resumed(p, store'.access)
      BY <1>6 DEF RefreshAnswered
    <2>2. store'.refresh = store.refresh
      BY <1>6 DEF RefreshAnswered, Types, Stores
    <2>3. \A q \in Requests : request'[q].pc # "joined"
      BY <2>1, RetriedFacts DEF Resumed, Types
    <2>4. QED
      BY <2>1, <2>2, <2>3 DEF Sharing
  <1>7. ASSUME NEW b \in BOOLEAN, RefreshFails(b)
        PROVE  Sharing'
    <2> DEFINE qs == [r \in Requests |->
                         IF request[r].pc = "joined"
                         THEN [Ended(request[r], "unauthorized") EXCEPT !.hurt = @ \/ b]
                         ELSE request[r]]
    <2>1. \A r \in Requests : qs[r].pc # "joined"
      BY DEF Ended, NoRequest
    <2>2. Bounced(store', qs)
      BY <1>7 DEF RefreshFails
    <2>3. store'.refresh = {}
      BY <1>7 DEF RefreshFails, Cleared, EmptyStore
    <2> HIDE DEF qs
    <2>4. QED
      BY <2>1, <2>2, <2>3, BouncedSharing DEF Sharing
  <1>8. CASE RefreshRefused \/ RefreshLost
    BY <1>7, <1>8 DEF RefreshRefused, RefreshLost
  <1>9. ASSUME NEW w \in Principals, SignIn(w)
        PROVE  Sharing'
    BY <1>9 DEF SignIn, Sharing
  <1>10. CASE SignedIn
    <2>1. \A t, u \in store'.refresh : t = u
      BY <1>10 DEF SignedIn, Full
    <2>2. QED
      BY <1>10, <2>1, HurtFacts DEF SignedIn, Sharing
  <1>11. CASE SignInFails
    BY <1>11 DEF SignInFails, Sharing
  <1>12. CASE Logout
    BY <1>12, HurtFacts DEF Logout, Sharing, Cleared, EmptyStore
  <1>13. CASE Reload
    BY <1>13 DEF Reload, Reloaded, Sharing, NoRequest
  <1>14. CASE Expire
    BY <1>14, HurtFacts DEF Expire, Sharing
  <1>15. CASE RefreshExpires
    BY <1>15, HurtFacts DEF RefreshExpires, Sharing
  <1>16. ASSUME NEW w \in Principals, DeleteUser(w)
         PROVE  Sharing'
    BY <1>16, HurtFacts DEF DeleteUser, Sharing
  <1>17. QED
    BY <1>1, <1>2, <1>3, <1>4, <1>5, <1>6, <1>8, <1>9, <1>10, <1>11, <1>12, <1>13, <1>14, <1>15,
       <1>16 DEF Next, Client, Person, World

-----------------------------------------------------------------------------
(* What the page shows. *)

LEMMA ShownStep ==
    ASSUME Types, Shown, [Next]_vars
    PROVE  Shown'
  <1>1. CASE UNCHANGED vars
    BY <1>1 DEF vars, Shown
  <1>2. ASSUME NEW s \in {store, EmptyStore}, NEW qs, store' = s, Reloaded(s) \/ Bounced(s, qs)
        PROVE  Shown'
    BY <1>2 DEF Bounced, Reloaded, Shown, EmptyStore
  <1>3. ASSUME NEW r \in Requests, Send(r) \/ Respond(r) \/ Unauthorized(r) \/ UnauthorizedAlone(r)
        PROVE  Shown'
    BY <1>2, <1>3 DEF Send, Respond, Unauthorized, UnauthorizedAlone, Shown
  <1>4. CASE RefreshAnswered
    BY <1>4 DEF RefreshAnswered, Shown, Types, Stores
  <1>5. CASE RefreshRefused \/ RefreshLost
    BY <1>2, <1>5 DEF RefreshRefused, RefreshLost, RefreshFails, Cleared
  <1>6. CASE SignedIn
    BY <1>6 DEF SignedIn, Full, Shown
  <1>7. CASE Logout
    BY <1>7 DEF Logout, Cleared, EmptyStore, Shown
  <1>8. CASE Reload
    BY <1>2, <1>8 DEF Reload
  <1>9. CASE SignInFails \/ Expire \/ RefreshExpires
             \/ \E w \in Principals : SignIn(w) \/ DeleteUser(w)
    BY <1>9 DEF SignInFails, Expire, RefreshExpires, SignIn, DeleteUser, Shown
  <1>10. QED
    BY <1>1, <1>3, <1>4, <1>5, <1>6, <1>7, <1>8, <1>9 DEF Next, Client, Person, World

-----------------------------------------------------------------------------
(* Whose the store is. *)

(* The steps that neither clear nor fill the store. *)
KeepsOwner ==
    \/ UNCHANGED vars
    \/ \E r \in Requests : Send(r) \/ Respond(r) \/ Unauthorized(r) \/ UnauthorizedAlone(r)
    \/ RefreshAnswered \/ SignInFails \/ Reload \/ World
    \/ \E w \in Principals : SignIn(w)

LEMMA OwnerKept ==
    ASSUME Types, NEW w \in Principals, Owner(w), KeepsOwner
    PROVE  Owner(w)'
  <1>1. CASE store' = store /\ refreshing' \subseteq refreshing
    BY <1>1 DEF Owner
  <1>2. ASSUME NEW r \in Requests, Unauthorized(r)
        PROVE  Owner(w)'
    <2>1. \A p \in refreshing' : p.token.who = w
      BY <1>2 DEF Unauthorized, Owner
    <2>2. QED
      BY <1>2, <2>1 DEF Unauthorized, Owner
  <1>3. CASE RefreshAnswered
    <2>1. PICK p \in refreshing :
             store' = [store EXCEPT !.access = {Access(p.token.who)}] /\ refreshing' = refreshing \ {p}
      BY <1>3 DEF RefreshAnswered
    <2>2. p.token.who = w
      BY DEF Owner
    <2>3. store'.access = {[who |-> w, epoch |-> epoch]} /\ epoch \in 0..MaxEpochs
      BY <2>1, <2>2 DEF Types, Stores, Access
    <2>4. store'.refresh = store.refresh /\ store'.kind = store.kind
      BY <2>1 DEF Types, Stores
    <2>5. QED
      BY <2>1, <2>3, <2>4 DEF Owner
  <1>4. ASSUME NEW r \in Requests, Send(r) \/ Respond(r) \/ UnauthorizedAlone(r)
        PROVE  Owner(w)'
    BY <1>1, <1>4 DEF Send, Respond, UnauthorizedAlone, Bounced, Reloaded
  <1>5. CASE SignInFails \/ Reload \/ \E v \in Principals : SignIn(v)
    BY <1>1, <1>5 DEF SignInFails, Reload, Reloaded, SignIn
  <1>6. CASE World
    BY <1>1, <1>6 DEF World, Expire, RefreshExpires, DeleteUser
  <1>7. CASE UNCHANGED vars
    BY <1>1, <1>7 DEF vars
  <1>8. QED
    BY <1>2, <1>3, <1>4, <1>5, <1>6, <1>7 DEF KeepsOwner

(* A refresh that fails leaves nobody logged in. *)
LEMMA FailureClears ==
    ASSUME NEW b, RefreshFails(b)
    PROVE  Nobody'
  BY DEF RefreshFails, Bounced, Reloaded, Nobody, Cleared, EmptyStore

LEMMA OneOwnerStep ==
    ASSUME Types, OneOwner, [Next]_vars
    PROVE  OneOwner'
  <1>1. CASE KeepsOwner
    <2>1. mixed' = mixed
      BY <1>1
      DEF KeepsOwner, vars, Send, Respond, Unauthorized, UnauthorizedAlone, RefreshAnswered,
          SignInFails, Reload, World, Expire, RefreshExpires, DeleteUser, SignIn
    <2>2. CASE Nobody
      <3>1. ~RefreshAnswered
        BY <2>2 DEF RefreshAnswered, Nobody
      <3>2. \A r \in Requests : ~Unauthorized(r)
        BY <2>2 DEF Unauthorized, StartsRefresh, Nobody, EmptyStore
      <3>3. \A r \in Requests : Send(r) \/ Respond(r) \/ UnauthorizedAlone(r) => Nobody'
        BY <2>2 DEF Send, Respond, UnauthorizedAlone, Bounced, Reloaded, Nobody
      <3>4. SignInFails \/ Reload \/ (\E v \in Principals : SignIn(v)) \/ UNCHANGED vars => Nobody'
        BY <2>2 DEF SignInFails, Reload, Reloaded, SignIn, vars, Nobody
      <3>5. World => Nobody'
        BY <2>2 DEF World, Expire, RefreshExpires, DeleteUser, Nobody
      <3>6. QED
        BY <1>1, <3>1, <3>2, <3>3, <3>4, <3>5 DEF KeepsOwner, OneOwner
    <2>3. QED
      BY <1>1, <2>1, <2>2, OwnerKept DEF OneOwner
  <1>2. CASE RefreshRefused \/ RefreshLost
    BY <1>2, FailureClears DEF RefreshRefused, RefreshLost, OneOwner
  <1>3. CASE SignedIn
    <2>1. PICK w \in signing \ gone : logins' = logins + 1 /\ store' = Full(w, logins')
      BY <1>3 DEF SignedIn
    <2>2. w \in Principals /\ logins' \in 1..MaxLogins /\ epoch \in 0..MaxEpochs
      BY <2>1, BoundsAssumption DEF Types
    <2>3. refreshing = {} => Owner(w)'
      BY <1>3, <2>1, <2>2 DEF SignedIn, Owner, Full, Access
    <2>4. QED
      BY <1>3, <2>2, <2>3 DEF SignedIn, OneOwner
  <1>4. CASE Logout
    BY <1>4 DEF Logout, OneOwner, Nobody, Cleared
  <1>5. QED
    BY <1>1, <1>2, <1>3, <1>4 DEF Next, Client, Person, KeepsOwner

-----------------------------------------------------------------------------
(* Requests that nothing disturbed. *)

LEMMA CarriesKept ==
    ASSUME NEW r \in Requests, NEW w, Carries(r, w),
           gone' = gone, epoch' = epoch, request'[r] = request[r]
    PROVE  Carries(r, w)'
  BY DEF Carries

(* What the server says to a request of whoever is logged in. *)
LEMMA AnswerFacts ==
    ASSUME NEW r \in Requests, NEW w \in Principals, Carries(r, w), request[r].pc = "sent",
           NEW a \in Answers(request[r].kind, request[r].tok)
    PROVE  a = 200 \/ (a = 401 /\ ~request[r].retried)
  <1>1. PICK e \in 0..MaxEpochs :
           /\ request[r].tok = {[who |-> w, epoch |-> e]}
           /\ request[r].retried => e = epoch
    BY DEF Carries
  <1> DEFINE t == CHOOSE u \in request[r].tok : TRUE
  <1>2. request[r].tok # {}
    BY <1>1
  <1>3. t \in request[r].tok
    BY <1>2, Zenon
  <1>4. a \in IF ~Decodes(t) THEN {401} ELSE IF KindOf[t.who] # request[r].kind THEN {403}
              ELSE IF t.who \in gone THEN {401} ELSE {200}
    BY <1>2, Zenon DEF Answers
  <1> HIDE DEF t
  <1>5. t.who = w /\ t.epoch = e
    BY <1>1, <1>3
  <1>6. KindOf[w] = request[r].kind /\ w \notin gone
    BY DEF Carries
  <1>7. QED
    BY <1>1, <1>4, <1>5, <1>6 DEF Decodes

(* While nobody is logged in no request runs undisturbed. *)
LEMMA NobodyUndisturbed ==
    ASSUME Shown, Undisturbed, page = {}, NEW r \in Requests, Live(r)
    PROVE  request[r].hurt
  BY DEF Shown, Undisturbed, Owner

LEMMA UndisturbedStep ==
    ASSUME Types, Sharing, Shown, OneOwner, Undisturbed, [Next]_vars
    PROVE  Undisturbed'
  <1> DEFINE Fine(r) == Live(r)' /\ ~request'[r].hurt =>
                          ~mixed' /\ \E w \in Principals : Owner(w)' /\ Carries(r, w)'
  <1> SUFFICES \A r \in Requests : Fine(r)
    BY DEF Undisturbed
  <1>1. ASSUME NEW r \in Requests, request'[r] = request[r], KeepsOwner,
               mixed' = mixed, gone' = gone, epoch' = epoch
        PROVE  Fine(r)
    BY <1>1, OwnerKept, CarriesKept DEF Undisturbed, Live
  <1>2. ASSUME NEW r \in Requests, Live(r) => request'[r].hurt, Live(r)' => Live(r)
        PROVE  Fine(r)
    BY <1>2
  <1>3. ASSUME NEW r \in Requests, ~Live(r)'
        PROVE  Fine(r)
    BY <1>3
  <1>4. CASE UNCHANGED vars
    BY <1>1, <1>4 DEF vars, KeepsOwner
  <1>5. ASSUME NEW s \in Requests, Send(s)
        PROVE  \A r \in Requests : Fine(r)
    <2>1. PICK k \in page : request' = [request EXCEPT ![s] = [NoRequest EXCEPT
                       !.pc = "sent", !.kind = k, !.tok = store.access,
                       !.hurt = mixed \/ \E t \in store.access : t.who \in gone]]
      BY <1>5 DEF Send
    <2>2. /\ request'[s].pc = "sent" /\ request'[s].kind = k /\ request'[s].tok = store.access
          /\ ~request'[s].retried
          /\ request'[s].hurt = (mixed \/ \E t \in store.access : t.who \in gone)
      BY <2>1 DEF NoRequest, Types
    <2>3. Fine(s)
      <3>1. SUFFICES ASSUME ~mixed, \A t \in store.access : t.who \notin gone
                     PROVE  Fine(s)
        BY <2>2
      <3>2. store.kind # {} /\ k \in store.kind
        BY <2>1 DEF Shown
      <3>3. PICK w \in Principals : Owner(w)
        BY <3>1, <3>2 DEF OneOwner, Nobody, EmptyStore
      <3>4. Owner(w)'
        BY <1>5, <3>3, OwnerKept DEF KeepsOwner
      <3>5. k = KindOf[w] /\ w \notin gone
        BY <3>1, <3>2, <3>3 DEF Owner
      <3>6. Carries(s, w)'
        BY <1>5, <2>2, <3>3, <3>5 DEF Carries, Owner, Send, server
      <3>7. mixed' = mixed
        BY <1>5 DEF Send
      <3>8. QED
        BY <3>1, <3>4, <3>6, <3>7
    <2>4. \A r \in Requests \ {s} : request'[r] = request[r]
      BY <2>1 DEF Types
    <2>5. QED
      BY <1>1, <1>5, <2>3, <2>4 DEF Send, server, KeepsOwner
  <1>6. ASSUME NEW s \in Requests, Respond(s)
        PROVE  \A r \in Requests : Fine(r)
    <2>1. ~Live(s)'
      BY <1>6 DEF Respond, Live, Ended, NoRequest, Types
    <2>2. \A r \in Requests \ {s} : request'[r] = request[r]
      BY <1>6 DEF Respond, Types
    <2>3. QED
      BY <1>1, <1>3, <1>6, <2>1, <2>2 DEF Respond, server, KeepsOwner
  <1>7. ASSUME NEW s \in Requests, Unauthorized(s)
        PROVE  \A r \in Requests : Fine(r)
    <2>1. request[s] \in RequestStates /\ request' = [request EXCEPT ![s] = Joined(@)]
      BY <1>7 DEF Unauthorized, Types
    <2>2. /\ request'[s].pc = "joined" /\ request'[s].kind = request[s].kind
          /\ request'[s].tok = request[s].tok /\ request'[s].hurt = request[s].hurt
      BY <2>1 DEF Joined, RequestStates, Types
    <2>3. gone' = gone /\ mixed' = mixed /\ KeepsOwner
      BY <1>7 DEF Unauthorized, server, KeepsOwner
    <2>4. \A w : Carries(s, w) => Carries(s, w)'
      BY <2>2, <2>3 DEF Carries
    <2>5. Live(s)
      BY <1>7 DEF Unauthorized, Live
    <2>6. Fine(s)
      BY <2>2, <2>3, <2>4, <2>5, OwnerKept DEF Undisturbed
    <2>7. \A r \in Requests \ {s} : request'[r] = request[r]
      BY <2>1 DEF Types
    <2>8. QED
      BY <1>1, <1>7, <2>3, <2>6, <2>7 DEF Unauthorized, server
  <1>8. ASSUME NEW s \in Requests, UnauthorizedAlone(s)
        PROVE  \A r \in Requests : Fine(r)
    <2>1. CASE page # {}
      BY <1>3, <1>8, <2>1 DEF UnauthorizedAlone, Bounced, Reloaded, Live, NoRequest
    <2>2. CASE page = {}
      <3>1. request' = [request EXCEPT ![s] = Ended(@, "unauthorized")]
        BY <1>8, <2>2 DEF UnauthorizedAlone, Bounced
      <3>2. ~Live(s)' /\ \A r \in Requests \ {s} : request'[r] = request[r]
        BY <3>1 DEF Types, Live, Ended, NoRequest
      <3>3. QED
        BY <1>1, <1>3, <1>8, <3>2 DEF UnauthorizedAlone, server, KeepsOwner
    <2>3. QED
      BY <2>1, <2>2
  <1>9. CASE RefreshAnswered
    <2>1. PICK p \in refreshing :
             /\ store' = [store EXCEPT !.access = {Access(p.token.who)}]
             /\ request' = Resumed(p, store'.access)
      BY <1>9 DEF RefreshAnswered
    <2>2. KeepsOwner /\ mixed' = mixed /\ gone' = gone /\ epoch' = epoch
      BY <1>9 DEF RefreshAnswered, server, KeepsOwner
    <2>3. ASSUME NEW r \in Requests, request[r].pc = "joined"
          PROVE  Fine(r)
      <3>1. request'[r] = Retried(request[r], store'.access) /\ request[r] \in RequestStates
        BY <2>1, <2>3 DEF Resumed, Types
      <3>2. /\ request'[r].tok = store'.access /\ request'[r].kind = request[r].kind
            /\ request'[r].hurt = request[r].hurt
        BY <3>1, RetriedFacts
      <3>3. SUFFICES ASSUME ~request[r].hurt
                     PROVE  ~mixed' /\ \E w \in Principals : Owner(w)' /\ Carries(r, w)'
        BY <3>2
      <3>4. PICK w \in Principals : ~mixed /\ Owner(w) /\ Carries(r, w)
        BY <2>3, <3>3 DEF Undisturbed, Live
      <3>5. store'.access = {[who |-> w, epoch |-> epoch]} /\ epoch \in 0..MaxEpochs
        BY <2>1, <3>4 DEF Owner, Access, Types, Stores
      <3>6. Carries(r, w)'
        BY <2>2, <3>2, <3>4, <3>5 DEF Carries
      <3>7. QED
        BY <2>2, <3>4, <3>6, OwnerKept
    <2>4. ASSUME NEW r \in Requests, request[r].pc # "joined"
          PROVE  Fine(r)
      BY <1>1, <2>1, <2>2, <2>4 DEF Resumed
    <2>5. QED
      BY <2>3, <2>4
  <1>10. ASSUME NEW b \in BOOLEAN, RefreshFails(b)
         PROVE  \A r \in Requests : Fine(r)
    <2>1. CASE page # {}
      BY <1>3, <1>10, <2>1 DEF RefreshFails, Bounced, Reloaded, Live, NoRequest
    <2>2. CASE page = {}
      <3>1. ASSUME NEW r \in Requests
            PROVE  Fine(r)
        <4>1. request'[r] = IF request[r].pc = "joined"
                            THEN [Ended(request[r], "unauthorized") EXCEPT !.hurt = @ \/ b]
                            ELSE request[r]
          BY <1>10, <2>2 DEF RefreshFails, Bounced
        <4>2. CASE request[r].pc = "joined"
          BY <1>3, <4>1, <4>2 DEF Live, Ended, NoRequest
        <4>3. CASE request[r].pc # "joined"
          BY <1>2, <2>2, <4>1, <4>3, NobodyUndisturbed DEF Live
        <4>4. QED
          BY <4>2, <4>3
      <3>2. QED
        BY <3>1
    <2>3. QED
      BY <2>1, <2>2
  <1>11. CASE RefreshRefused \/ RefreshLost
    BY <1>10, <1>11 DEF RefreshRefused, RefreshLost
  <1>12. CASE SignInFails \/ \E w \in Principals : SignIn(w)
    BY <1>1, <1>12 DEF SignInFails, SignIn, server, KeepsOwner
  <1>13. CASE request' = Hurt(Requests)
    BY <1>2, <1>13, HurtFacts DEF Live
  <1>14. CASE SignedIn \/ Logout \/ RefreshExpires \/ \E w \in Principals : DeleteUser(w)
    BY <1>13, <1>14 DEF SignedIn, Logout, RefreshExpires, DeleteUser
  <1>15. CASE Reload
    BY <1>3, <1>15 DEF Reload, Reloaded, Live, NoRequest
  <1>16. CASE Expire
    <2>1. ASSUME NEW r \in Requests
          PROVE  Fine(r)
      <3>1. request' = Hurt({q \in Requests : request[q].retried})
        BY <1>16 DEF Expire
      <3>2. CASE request[r].retried
        BY <1>2, <3>1, <3>2, HurtFacts DEF Live
      <3>3. CASE ~request[r].retried
        <4>1. \A w : Carries(r, w) => Carries(r, w)'
          BY <1>16, <3>1, <3>3, HurtFacts DEF Carries, Expire
        <4>2. Live(r)' = Live(r) /\ (~request'[r].hurt => ~request[r].hurt)
          BY <3>1, HurtFacts DEF Live
        <4>3. KeepsOwner /\ mixed' = mixed
          BY <1>16 DEF KeepsOwner, World, Expire
        <4>4. QED
          BY <4>1, <4>2, <4>3, OwnerKept DEF Undisturbed
      <3>4. QED
        BY <3>2, <3>3
    <2>2. QED
      BY <2>1
  <1>17. QED
    BY <1>4, <1>5, <1>6, <1>7, <1>8, <1>9, <1>11, <1>12, <1>14, <1>15, <1>16
    DEF Next, Client, Person, World

LEMMA ExpiryInvisibleStep ==
    ASSUME Types, Sharing, Shown, Undisturbed, ExpiryInvisible, [Next]_vars
    PROVE  ExpiryInvisible'
  <1> DEFINE Fine(r) == request'[r].outcome \in {"unauthorized", "forbidden"} => request'[r].hurt
  <1> SUFFICES \A r \in Requests : Fine(r)
    BY DEF ExpiryInvisible
  <1>1. ASSUME NEW r \in Requests, request'[r].outcome = request[r].outcome,
               request[r].hurt => request'[r].hurt
        PROVE  Fine(r)
    BY <1>1 DEF ExpiryInvisible
  <1>2. ASSUME NEW r \in Requests, request'[r].outcome = "none"
        PROVE  Fine(r)
    BY <1>2
  <1>3. CASE request' = request
    BY <1>1, <1>3
  <1>4. ASSUME NEW s \in Requests, Send(s)
        PROVE  \A r \in Requests : Fine(r)
    BY <1>1, <1>2, <1>4 DEF Send, NoRequest, Types
  <1>5. ASSUME NEW s \in Requests, Respond(s)
        PROVE  \A r \in Requests : Fine(r)
    <2>1. PICK a \in Answers(request[s].kind, request[s].tok) :
             (a = 401 => request[s].retried) /\ request' = [request EXCEPT ![s] = Ended(@, Outcome(a))]
      BY <1>5 DEF Respond
    <2>2. request'[s].outcome = Outcome(a) /\ request'[s].hurt = request[s].hurt
      BY <2>1 DEF Ended, NoRequest, Types
    <2>3. request[s].hurt \/ a = 200
      BY <1>5, <2>1, AnswerFacts DEF Undisturbed, Live, Respond
    <2>4. Fine(s)
      BY <2>2, <2>3 DEF Outcome
    <2>5. \A r \in Requests \ {s} : request'[r] = request[r]
      BY <2>1 DEF Types
    <2>6. QED
      BY <1>1, <2>4, <2>5
  <1>6. ASSUME NEW s \in Requests, Unauthorized(s)
        PROVE  \A r \in Requests : Fine(r)
    <2>1. request[s] \in RequestStates /\ request' = [request EXCEPT ![s] = Joined(@)]
      BY <1>6 DEF Unauthorized, Types
    <2>2. request'[s].outcome = request[s].outcome /\ request'[s].hurt = request[s].hurt
      BY <2>1 DEF Joined, RequestStates, Types
    <2>3. QED
      BY <1>1, <2>1, <2>2 DEF Types
  <1>7. ASSUME NEW s \in Requests, UnauthorizedAlone(s)
        PROVE  \A r \in Requests : Fine(r)
    <2>1. CASE page # {}
      BY <1>2, <1>7, <2>1 DEF UnauthorizedAlone, Bounced, Reloaded, NoRequest
    <2>2. CASE page = {}
      <3>1. request' = [request EXCEPT ![s] = Ended(@, "unauthorized")]
        BY <1>7, <2>2 DEF UnauthorizedAlone, Bounced
      <3>2. request[s].hurt
        BY <1>7, <2>2, NobodyUndisturbed DEF UnauthorizedAlone, Live
      <3>3. request'[s].hurt /\ \A r \in Requests \ {s} : request'[r] = request[r]
        BY <3>1, <3>2 DEF Types, Ended, NoRequest
      <3>4. QED
        BY <1>1, <3>3
    <2>3. QED
      BY <2>1, <2>2
  <1>8. CASE RefreshAnswered
    <2>1. PICK p \in refreshing : request' = Resumed(p, store'.access)
      BY <1>8 DEF RefreshAnswered
    <2>2. ASSUME NEW r \in Requests
          PROVE  request'[r].outcome = request[r].outcome /\ request'[r].hurt = request[r].hurt
      BY <2>1, RetriedFacts DEF Resumed, Types
    <2>3. QED
      BY <1>1, <2>2
  <1>9. ASSUME NEW b \in BOOLEAN, RefreshFails(b)
        PROVE  \A r \in Requests : Fine(r)
    <2>1. CASE page # {}
      BY <1>2, <1>9, <2>1 DEF RefreshFails, Bounced, Reloaded, NoRequest
    <2>2. CASE page = {}
      <3>1. ASSUME NEW r \in Requests
            PROVE  Fine(r)
        <4>1. request'[r] = IF request[r].pc = "joined"
                            THEN [Ended(request[r], "unauthorized") EXCEPT !.hurt = @ \/ b]
                            ELSE request[r]
          BY <1>9, <2>2 DEF RefreshFails, Bounced
        <4>2. CASE request[r].pc = "joined"
          <5>1. request[r].hurt
            BY <2>2, <4>2, NobodyUndisturbed DEF Live
          <5>2. request'[r].hurt
            BY <4>1, <4>2, <5>1 DEF Ended, NoRequest
          <5>3. QED
            BY <5>2
        <4>3. QED
          BY <1>1, <4>1, <4>2
      <3>2. QED
        BY <3>1
    <2>3. QED
      BY <2>1, <2>2
  <1>10. CASE RefreshRefused \/ RefreshLost
    BY <1>9, <1>10 DEF RefreshRefused, RefreshLost
  <1>11. ASSUME NEW R, request' = Hurt(R)
         PROVE  \A r \in Requests : Fine(r)
    BY <1>1, <1>11, HurtFacts
  <1>12. CASE SignedIn \/ Logout \/ World
    BY <1>11, <1>12 DEF SignedIn, Logout, World, Expire, RefreshExpires, DeleteUser
  <1>13. CASE Reload
    BY <1>2, <1>13 DEF Reload, Reloaded, NoRequest
  <1>14. CASE SignInFails \/ (\E w \in Principals : SignIn(w)) \/ UNCHANGED vars
    BY <1>3, <1>14 DEF SignInFails, SignIn, vars
  <1>15. QED
    BY <1>4, <1>5, <1>6, <1>7, <1>8, <1>10, <1>12, <1>13, <1>14 DEF Next, Client, Person

-----------------------------------------------------------------------------
(* The theorems. *)

LEMMA InitSession == Init => SessionInv
  <1> SUFFICES ASSUME Init PROVE SessionInv
    OBVIOUS
  <1>1. Types
    <2>1. store \in Stores
      BY DEF Init, Stores, EmptyStore
    <2>2. request \in [Requests -> RequestStates]
      BY RequestFacts DEF Init
    <2>3. page \subseteq {"admin", "user"} /\ signing = {} /\ gone \subseteq Principals
      BY DEF Init
    <2>4. refreshing \subseteq [by : Requests, token : RefreshTokens]
      BY DEF Init
    <2>5. epoch \in 0..MaxEpochs /\ logins \in 0..MaxLogins /\ dead \in Nat
      BY BoundsAssumption DEF Init
    <2>6. mixed \in BOOLEAN
      BY DEF Init
    <2>7. QED
      BY <2>1, <2>2, <2>3, <2>4, <2>5, <2>6 DEF Types
  <1>2. Sharing /\ Shown /\ OneOwner
    BY DEF Init, Sharing, Shown, OneOwner, Nobody, EmptyStore, NoRequest
  <1>3. Undisturbed /\ ExpiryInvisible
    BY DEF Init, Undisturbed, Live, NoRequest, ExpiryInvisible
  <1>4. QED
    BY <1>1, <1>2, <1>3 DEF SessionInv

(* The inductive invariant: the store, the page, the refresh in flight and  *)
(* every request that nothing disturbed are one principal's.               *)
THEOREM SessionInvHolds == Spec => []SessionInv
  <1>1. SessionInv /\ [Next]_vars => SessionInv'
    BY TypesStep, SharingStep, ShownStep, OneOwnerStep, UndisturbedStep, ExpiryInvisibleStep
    DEF SessionInv
  <1>2. QED
    BY <1>1, InitSession, PTL DEF Spec

(* Type correctness; a request that awaits a refresh will not await a       *)
(* second one.                                                             *)
THEOREM TypeCorrect == Spec => []TypeOK
  <1>1. SessionInv => TypeOK
    BY DEF SessionInv, Types, Sharing, TypeOK, Stores, RequestStates
  <1>2. QED
    BY <1>1, SessionInvHolds, PTL

(* However many requests see their token expired, one refresh is in flight, *)
(* and nobody awaits one that is not.                                      *)
THEOREM SharedRefreshHolds == Spec => []SharedRefresh
  <1>1. ASSUME Sharing
        PROVE  SharedRefresh
    <2>1. refreshing = {} \/ \E p : refreshing = {p}
      BY <1>1 DEF Sharing
    <2>2. Cardinality(refreshing) <= 1
      BY <2>1, FS_EmptySet, FS_Singleton
    <2>3. QED
      BY <1>1, <2>2 DEF Sharing, SharedRefresh
  <1>2. QED
    BY <1>1, SessionInvHolds, PTL DEF SessionInv

(* A request of a page fails with 401 or 403 only if something other than   *)
(* one expiry of its access token happened while it ran.                   *)
THEOREM ExpiryInvisibleHolds == Spec => []ExpiryInvisible
  BY SessionInvHolds, PTL DEF SessionInv

(* Page, stored kind and tokens are one principal's, unless a refresh       *)
(* outlived a login or logout.                                             *)
THEOREM CoherentHolds == Spec => []Coherent
  <1>1. ASSUME OneOwner, Shown
        PROVE  Coherent
    <2>1. ASSUME Nobody
          PROVE  Coherent
      BY <1>1, <2>1 DEF Shown, Coherent, Nobody, EmptyStore
    <2>2. ASSUME NEW w, Owner(w)
          PROVE  Coherent
      <3>1. {KindOf[t.who] : t \in store.access} = {KindOf[w]}
        BY <2>2 DEF Owner
      <3>2. {t.who : t \in store.access} = {w} /\ {t.who : t \in store.refresh} = {w}
        BY <2>2 DEF Owner
      <3>3. QED
        BY <1>1, <2>2, <3>1, <3>2 DEF Shown, Coherent, Owner
    <2>3. QED
      BY <1>1, <2>1, <2>2 DEF OneOwner, Coherent
  <1>2. QED
    BY <1>1, SessionInvHolds, PTL DEF SessionInv

(* After a logout only a login shows a page: a refresh that comes late puts *)
(* a token into the store, but no kind.                                    *)
THEOREM StaysLoggedOutHolds == Spec => StaysLoggedOut
  <1>1. ASSUME Types, Shown, [Next]_vars
        PROVE  [page = {} /\ page' # {} => logins' = logins + 1]_vars
    <2>1. ASSUME page = {}, page' # {}
          PROVE  SignedIn
      <3>1. store.kind = {}
        BY <1>1, <2>1 DEF Shown
      <3>2. ~UNCHANGED vars
        BY <2>1 DEF vars
      <3>3. \A r \in Requests : ~Send(r) /\ ~Respond(r) /\ ~Unauthorized(r) /\ ~UnauthorizedAlone(r)
        BY <2>1, <3>1 DEF Send, Respond, Unauthorized, UnauthorizedAlone, Bounced
      <3>4. ~RefreshAnswered /\ ~RefreshRefused /\ ~RefreshLost
        BY <2>1 DEF RefreshAnswered, RefreshRefused, RefreshLost, RefreshFails, Bounced
      <3>5. ~SignInFails /\ ~Logout /\ ~Reload /\ \A w \in Principals : ~SignIn(w)
        BY <2>1, <3>1 DEF SignInFails, Logout, Reload, Reloaded, SignIn
      <3>6. ~World
        BY <2>1 DEF World, Expire, RefreshExpires, DeleteUser
      <3>7. QED
        BY <1>1, <3>2, <3>3, <3>4, <3>5, <3>6 DEF Next, Client, Person
    <2>2. QED
      BY <2>1 DEF SignedIn
  <1>2. QED
    BY <1>1, SessionInvHolds, PTL DEF Spec, SessionInv, StaysLoggedOut

=============================================================================
