-------------------------- MODULE PublicStatsProofs --------------------------
(***************************************************************************)
(* Proofs about PublicStats, for any requests, clients and bots, any times *)
(* to live, and any bounds.                                                *)
(***************************************************************************)
EXTENDS PublicStats, FiniteSetTheorems, SequenceTheorems, WellFoundedInduction, TLAPS

(* The inductive invariant, in parts. *)

AccountMaps == [Bots -> Accounts]

RequestStates ==
    [pc : {"idle", "wait", "states", "accounts", "ratings", "served", "failed", "refused"},
     read : 0..MaxTime, running : SUBSET Bots,
     accounts : {NoAccounts} \cup AccountMaps, payload : SUBSET Payloads]

Shape == now \in 0..MaxTime /\ request \in [Requests -> RequestStates]

(* The lock is held exactly by the request that collects. *)
LockHeld ==
    /\ lock # NoOne => lock \in Requests /\ Collecting(lock)
    /\ \A r \in Requests : Collecting(r) => lock = r

(* Nothing is from the future; a collection lasts no longer than its        *)
(* timeouts, nor does what a failed one left behind; the ratings of a      *)
(* snapshot were good when it was stored.                                  *)
Ages ==
    /\ \A e \in technical : e.at \in 0..now
    /\ \A e \in cache :
          /\ e.at \in 0..now
          /\ e.read \in 0..e.at /\ e.at - e.read <= CollectTime
          /\ e.rated \in 0..e.at /\ e.at - e.rated < TechnicalTtl
    /\ \A r \in Requests :
          Collecting(r) => request[r].read \in 0..now /\ now - request[r].read <= CollectTime
    /\ \A t \in stray : t \in 0..now /\ now - t <= CollectTime

PublicInv == Shape /\ LockHeld /\ Ages

-----------------------------------------------------------------------------
(* What is handed out, and what is stored. *)

Young(p) == p.read < Ttl + CollectTime /\ p.rated < TechnicalTtl + Ttl + CollectTime

LEMMA SnapshotFacts ==
    ASSUME Shape, Ages, NEW e, now - e.at < Ttl,
           /\ e.at \in 0..now
           /\ e.read \in 0..e.at /\ e.at - e.read <= CollectTime
           /\ e.rated \in 0..e.at /\ e.at - e.rated < TechnicalTtl
    PROVE  /\ Snapshot(e) \subseteq Payloads
           /\ \A p \in Snapshot(e) : Young(p)
  <1>1. now - e.read \in 0..MaxTime /\ now - e.rated \in 0..MaxTime
    BY TimesAssumption DEF Shape
  <1>2. now - e.read < Ttl + CollectTime /\ now - e.rated < TechnicalTtl + Ttl + CollectTime
    BY TimesAssumption DEF Shape
  <1>3. QED
    BY <1>1, <1>2 DEF Snapshot, Payloads, Young

(* A request is handed a snapshot as it comes, or once it has the lock. *)
HandsOut(r) ==
    \E e \in cache : now - e.at < Ttl /\ request' = [request EXCEPT ![r] = Served(Snapshot(e))]

LEMMA ServedFacts ==
    ASSUME NEW p \in SUBSET Payloads
    PROVE  /\ Served(p) \in RequestStates
           /\ Served(p).pc = "served" /\ Served(p).payload = p
  <1>1. 0 \in 0..MaxTime
    BY TimesAssumption
  <1>2. NoRequest \in RequestStates
    BY <1>1 DEF NoRequest, RequestStates
  <1>3. Served(p) = [NoRequest EXCEPT !.pc = "served", !.payload = p]
    BY DEF Served
  <1>4. QED
    BY <1>2, <1>3 DEF RequestStates

LEMMA HandsOutFacts ==
    ASSUME Shape, Ages, NEW r \in Requests, HandsOut(r)
    PROVE  /\ request' \in [Requests -> RequestStates]
           /\ request'[r].pc = "served"
           /\ \A q \in Requests \ {r} : request'[q] = request[q]
           /\ \A p \in request'[r].payload : Young(p)
  <1>1. PICK e \in cache : now - e.at < Ttl /\ request' = [request EXCEPT ![r] = Served(Snapshot(e))]
    BY DEF HandsOut
  <1>2. /\ Snapshot(e) \subseteq Payloads
        /\ \A p \in Snapshot(e) : Young(p)
    BY <1>1, SnapshotFacts DEF Ages
  <1>3. QED
    BY <1>1, <1>2, ServedFacts DEF Shape

LEMMA StoreFacts ==
    ASSUME Shape, Ages, NEW r \in Requests, Collecting(r),
           NEW accounts, NEW rated \in 0..now, now - rated < TechnicalTtl, Ends(r, accounts, rated)
    PROVE  /\ request' \in [Requests -> RequestStates]
           /\ request'[r].pc = "served" /\ lock' = NoOne /\ UNCHANGED <<now, stray>>
           /\ \A q \in Requests \ {r} : request'[q] = request[q]
           /\ \A p \in request'[r].payload : Young(p)
           /\ \A e \in cache' :
                 /\ e.at \in 0..now
                 /\ e.read \in 0..e.at /\ e.at - e.read <= CollectTime
                 /\ e.rated \in 0..e.at /\ e.at - e.rated < TechnicalTtl
  <1> DEFINE e == [at |-> now, read |-> request[r].read, rated |-> rated,
                   accounts |-> accounts, total |-> Total(Shown(accounts))]
  <1>1. /\ now - e.at < Ttl
        /\ e.at \in 0..now
        /\ e.read \in 0..e.at /\ e.at - e.read <= CollectTime
        /\ e.rated \in 0..e.at /\ e.at - e.rated < TechnicalTtl
    BY TimesAssumption DEF Ages, Shape
  <1>2. cache' = {e} /\ request' = [request EXCEPT ![r] = Served(Snapshot(e))]
        /\ lock' = NoOne /\ UNCHANGED <<now, stray>>
    BY DEF Ends, Store
  <1> HIDE DEF e
  <1>3. /\ Snapshot(e) \subseteq Payloads
        /\ \A p \in Snapshot(e) : Young(p)
    BY <1>1, SnapshotFacts
  <1>4. QED
    BY <1>1, <1>2, <1>3, ServedFacts DEF Shape

(* What a collecting request does once the bots' answers are in. *)
StoresRated(r) ==
    /\ technical' \in {technical, {[at |-> now]}}
    /\ \E rated \in 0..now :
          now - rated < TechnicalTtl /\ \E accounts : Ends(r, accounts, rated)

AwaitsRatings(r) ==
    /\ \E a \in AccountMaps :
          request' = [request EXCEPT ![r].pc = "ratings", ![r].accounts = a]
    /\ UNCHANGED <<now, hits, cache, technical, queue, lock, stray, collected, admitted, arrivals>>

LEMMA AccountFacts ==
    ASSUME NEW running, NEW answered \in [Bots -> [Calls -> Fetched]]
    PROVE  [b \in Bots |-> Account(b \in running, answered[b])] \in AccountMaps
  <1>1. ASSUME NEW b \in Bots
        PROVE  Account(b \in running, answered[b]) \in Accounts
    <2> DEFINE x == b \in running
    <2>1. x \in BOOLEAN /\ answered[b] \in [Calls -> Fetched]
      OBVIOUS
    <2> HIDE DEF x
    <2>2. Account(x, answered[b]) \in Accounts
      BY <2>1 DEF Accounts
    <2>3. QED
      BY <2>2 DEF x
  <1>2. QED
    BY <1>1 DEF AccountMaps

LEMMA CollectedFacts ==
    ASSUME Shape, Ages, NEW r \in Requests, Collected(r) \/ Rated(r)
    PROVE  /\ Collecting(r)
           /\ StoresRated(r) \/ AwaitsRatings(r)
  <1>1. CASE Rated(r)
    <2>1. now \in 0..now /\ now - now < TechnicalTtl
      BY TimesAssumption DEF Shape
    <2>2. QED
      BY <1>1, <2>1 DEF Rated, Collecting, StoresRated
  <1>2. CASE Collected(r)
    <2>1. PICK answered \in [Bots -> [Calls -> Fetched]] :
            LET accounts == [b \in Bots |-> Account(b \in request[r].running, answered[b])] IN
            IF Hit(technical, TechnicalTtl)
            THEN \E e \in technical : Ends(r, accounts, e.at) /\ UNCHANGED technical
            ELSE /\ request' = [request EXCEPT ![r].pc = "ratings", ![r].accounts = accounts]
                 /\ UNCHANGED <<now, hits, cache, technical, queue, lock, stray, collected, admitted, arrivals>>
      BY <1>2 DEF Collected
    <2> DEFINE accounts == [b \in Bots |-> Account(b \in request[r].running, answered[b])]
    <2>2. accounts \in AccountMaps
      BY AccountFacts
    <2>3. Collecting(r)
      BY <1>2 DEF Collected, Collecting
    <2>4. CASE Hit(technical, TechnicalTtl)
      <3>1. PICK e \in technical : Ends(r, accounts, e.at) /\ UNCHANGED technical
        BY <2>1, <2>4
      <3>2. e.at \in 0..now /\ now - e.at < TechnicalTtl
        BY <2>4 DEF Hit, Ages
      <3> HIDE DEF accounts
      <3>3. QED
        BY <2>3, <3>1, <3>2 DEF StoresRated
    <2>5. CASE ~Hit(technical, TechnicalTtl)
      BY <2>1, <2>2, <2>3, <2>5 DEF AwaitsRatings
    <2>6. QED
      BY <2>4, <2>5
  <1>3. QED
    BY <1>1, <1>2

-----------------------------------------------------------------------------
(* The invariant is kept. *)

(* A step of r that leaves the clock, the lock and both caches alone, and   *)
(* what failed collections left behind.                                    *)
LEMMA QuietStep ==
    ASSUME PublicInv, NEW r \in Requests, request' \in [Requests -> RequestStates],
           \A q \in Requests \ {r} : request'[q] = request[q],
           UNCHANGED <<now, cache, technical, lock, stray>>,
           Collecting(r)' = Collecting(r), Collecting(r) => request'[r].read = request[r].read
    PROVE  PublicInv'
  <1>1. \A q \in Requests : /\ Collecting(q)' = Collecting(q)
                            /\ Collecting(q) => request'[q].read = request[q].read
    BY DEF Collecting
  <1>2. Shape'
    BY DEF PublicInv, Shape
  <1>3. LockHeld'
    BY <1>1 DEF PublicInv, LockHeld
  <1>4. Ages'
    BY <1>1 DEF PublicInv, Ages
  <1>5. QED
    BY <1>2, <1>3, <1>4 DEF PublicInv

(* A step of r that ends its collection. *)
LEMMA EndStep ==
    ASSUME PublicInv, NEW r \in Requests, request' \in [Requests -> RequestStates],
           \A q \in Requests \ {r} : request'[q] = request[q],
           Collecting(r), ~Collecting(r)', lock' = NoOne, now' = now,
           technical' \in {technical, {[at |-> now]}},
           stray' \subseteq stray \cup {request[r].read},
           \A e \in cache' :
                 /\ e.at \in 0..now
                 /\ e.read \in 0..e.at /\ e.at - e.read <= CollectTime
                 /\ e.rated \in 0..e.at /\ e.at - e.rated < TechnicalTtl
    PROVE  PublicInv'
  <1>1. \A q \in Requests : ~Collecting(q)'
    BY DEF Collecting, PublicInv, LockHeld
  <1>2. Shape'
    BY DEF PublicInv, Shape
  <1>3. LockHeld'
    BY <1>1 DEF LockHeld
  <1>4. \A e \in technical' : e.at \in 0..now'
    BY DEF PublicInv, Ages, Shape
  <1>5. \A t \in stray' : t \in 0..now' /\ now' - t <= CollectTime
    BY DEF PublicInv, Ages
  <1>6. Ages'
    BY <1>1, <1>4, <1>5 DEF Ages
  <1>7. QED
    BY <1>2, <1>3, <1>6 DEF PublicInv

LEMMA InitPublic == Init => PublicInv
  <1> SUFFICES ASSUME Init PROVE PublicInv
    OBVIOUS
  <1>1. 0 \in 0..MaxTime
    BY TimesAssumption
  <1>2. NoRequest \in RequestStates
    BY <1>1 DEF NoRequest, RequestStates
  <1>3. Shape
    BY <1>1, <1>2 DEF Init, Shape
  <1>4. \A r \in Requests : ~Collecting(r)
    BY DEF Init, Collecting, NoRequest
  <1>5. QED
    BY <1>3, <1>4 DEF Init, PublicInv, LockHeld, Ages

(* What the steps that move a request on make of it. *)
Moved(r, n) ==
    /\ request[r] \in RequestStates /\ n \in RequestStates
    /\ n.read = request[r].read /\ n.payload = request[r].payload
    /\ request' = [request EXCEPT ![r] = n]

LEMMA MovedFacts ==
    ASSUME Shape, NEW r \in Requests
    PROVE  /\ \A pc \in {"wait", "refused"} :
                 request' = [request EXCEPT ![r].pc = pc] => \E n : n.pc = pc /\ Moved(r, n)
           /\ \A running \in SUBSET Bots :
                 request' = [request EXCEPT ![r].pc = "accounts", ![r].running = running] =>
                     \E n : n.pc = "accounts" /\ Moved(r, n)
           /\ \A a \in AccountMaps :
                 request' = [request EXCEPT ![r].pc = "ratings", ![r].accounts = a] =>
                     \E n : n.pc = "ratings" /\ Moved(r, n)
  <1>1. request[r] \in RequestStates
    BY DEF Shape
  <1>2. ASSUME NEW pc \in {"wait", "refused"}, request' = [request EXCEPT ![r].pc = pc]
        PROVE  \E n : n.pc = pc /\ Moved(r, n)
    <2> DEFINE n == [request[r] EXCEPT !.pc = pc]
    <2>1. /\ n \in RequestStates /\ n.pc = pc
          /\ n.read = request[r].read /\ n.payload = request[r].payload
      BY <1>1 DEF RequestStates
    <2>2. request' = [request EXCEPT ![r] = n]
      BY <1>2
    <2> HIDE DEF n
    <2>3. QED
      BY <1>1, <2>1, <2>2 DEF Moved
  <1>3. ASSUME NEW running \in SUBSET Bots,
               request' = [request EXCEPT ![r].pc = "accounts", ![r].running = running]
        PROVE  \E n : n.pc = "accounts" /\ Moved(r, n)
    <2> DEFINE n == [request[r] EXCEPT !.pc = "accounts", !.running = running]
    <2>1. /\ n \in RequestStates /\ n.pc = "accounts"
          /\ n.read = request[r].read /\ n.payload = request[r].payload
      BY <1>1 DEF RequestStates
    <2>2. request' = [request EXCEPT ![r] = n]
      BY <1>3 DEF Shape
    <2> HIDE DEF n
    <2>3. QED
      BY <1>1, <2>1, <2>2 DEF Moved
  <1>4. ASSUME NEW a \in AccountMaps,
               request' = [request EXCEPT ![r].pc = "ratings", ![r].accounts = a]
        PROVE  \E n : n.pc = "ratings" /\ Moved(r, n)
    <2> DEFINE n == [request[r] EXCEPT !.pc = "ratings", !.accounts = a]
    <2>1. /\ n \in RequestStates /\ n.pc = "ratings"
          /\ n.read = request[r].read /\ n.payload = request[r].payload
      BY <1>1 DEF RequestStates
    <2>2. request' = [request EXCEPT ![r] = n]
      BY <1>4 DEF Shape
    <2> HIDE DEF n
    <2>3. QED
      BY <1>1, <2>1, <2>2 DEF Moved
  <1>5. QED
    BY <1>2, <1>3, <1>4

LEMMA NewFacts ==
    ASSUME Shape
    PROVE  /\ NoRequest \in RequestStates /\ NoRequest.pc = "idle" /\ NoRequest.payload = {}
           /\ LET n == [NoRequest EXCEPT !.pc = "failed"] IN
                 n \in RequestStates /\ n.pc = "failed" /\ n.payload = {}
           /\ LET n == [NoRequest EXCEPT !.pc = "states", !.read = now] IN
                 n \in RequestStates /\ n.pc = "states" /\ n.payload = {} /\ n.read = now
  <1>1. 0 \in 0..MaxTime /\ now \in 0..MaxTime
    BY TimesAssumption DEF Shape
  <1>2. NoRequest \in RequestStates /\ NoRequest.pc = "idle" /\ NoRequest.payload = {}
    BY <1>1 DEF NoRequest, RequestStates
  <1>3. QED
    BY <1>1, <1>2 DEF RequestStates

(* A request that waits gets what is cached, or begins to collect. *)
LEMMA EnterFacts ==
    ASSUME PublicInv, NEW r \in Requests, Enter(r)
    PROVE  \/ HandsOut(r) /\ UNCHANGED lock
           \/ /\ request' = [request EXCEPT ![r] = [NoRequest EXCEPT !.pc = "states", !.read = now]]
              /\ lock = NoOne /\ lock' = r
  BY DEF Enter, Filled, Hit, HandsOut, Unlocked

LEMMA ArriveFacts ==
    ASSUME PublicInv, NEW r \in Requests, NEW c \in Clients, Arrive(r, c)
    PROVE  \/ HandsOut(r)
           \/ \E pc \in {"wait", "refused"} : request' = [request EXCEPT ![r].pc = pc]
  BY DEF Arrive, Hit, HandsOut

LEMMA PublicStep ==
    ASSUME PublicInv, [Next]_vars
    PROVE  PublicInv'
  <1> USE DEF PublicInv
  <1>1. CASE UNCHANGED vars
    BY <1>1 DEF vars, Shape, LockHeld, Ages, Collecting
  <1>2. ASSUME NEW r \in Requests, NEW c \in Clients, Arrive(r, c)
        PROVE  PublicInv'
    <2>1. UNCHANGED <<now, cache, technical, lock, stray>> /\ ~Collecting(r) /\ request[r] \in RequestStates
      BY <1>2 DEF Arrive, Collecting, Shape
    <2>2. CASE HandsOut(r)
      BY <2>1, <2>2, HandsOutFacts, QuietStep DEF Collecting
    <2>3. ASSUME NEW pc \in {"wait", "refused"}, request' = [request EXCEPT ![r].pc = pc]
          PROVE  PublicInv'
      <3>0. PICK n : n.pc = pc /\ Moved(r, n)
        BY <2>3, MovedFacts
      <3>1. /\ request' \in [Requests -> RequestStates] /\ request'[r].pc = pc
            /\ \A q \in Requests \ {r} : request'[q] = request[q]
        BY <3>0 DEF Moved, Shape
      <3>2. QED
        BY <2>1, <3>1, QuietStep DEF Collecting
    <2>4. QED
      BY <1>2, <2>2, <2>3, ArriveFacts
  <1>3. ASSUME NEW r \in Requests, Enter(r)
        PROVE  PublicInv'
    <2>1. UNCHANGED <<now, cache, technical, stray>> /\ ~Collecting(r)
      BY <1>3 DEF Enter, Collecting
    <2>2. CASE HandsOut(r) /\ UNCHANGED lock
      BY <2>1, <2>2, HandsOutFacts, QuietStep DEF Collecting
    <2>3. CASE /\ request' = [request EXCEPT ![r] = [NoRequest EXCEPT !.pc = "states", !.read = now]]
               /\ lock = NoOne /\ lock' = r
      <3>1. /\ request' \in [Requests -> RequestStates]
            /\ request'[r].pc = "states" /\ request'[r].read = now
            /\ \A q \in Requests \ {r} : request'[q] = request[q]
        BY <2>3, NewFacts DEF Shape
      <3>2. Collecting(r)' /\ \A q \in Requests \ {r} : ~Collecting(q)'
        BY <2>3, <3>1, RequestsAssumption DEF LockHeld, Collecting
      <3>3. Shape' /\ LockHeld'
        BY <2>1, <2>3, <3>1, <3>2 DEF Shape, LockHeld
      <3>4. now' - request'[r].read <= CollectTime /\ request'[r].read \in 0..now'
        BY <2>1, <3>1, TimesAssumption DEF Shape
      <3>5. Ages'
        BY <2>1, <3>2, <3>4 DEF Ages
      <3>6. QED
        BY <3>3, <3>5
    <2>4. QED
      BY <1>3, <2>2, <2>3, EnterFacts
  <1>4. ASSUME NEW r \in Requests, States(r)
        PROVE  PublicInv'
    <2>1. PICK running \in SUBSET Bots :
             request' = [request EXCEPT ![r].pc = "accounts", ![r].running = running]
      BY <1>4 DEF States
    <2>0. PICK n : n.pc = "accounts" /\ Moved(r, n)
      BY <2>1, MovedFacts
    <2>2. /\ request' \in [Requests -> RequestStates]
          /\ request'[r].pc = "accounts" /\ request'[r].read = request[r].read
          /\ \A q \in Requests \ {r} : request'[q] = request[q]
      BY <2>0 DEF Moved, Shape
    <2>3. QED
      BY <1>4, <2>2, QuietStep DEF States, Collecting
  <1>5. ASSUME NEW r \in Requests, Collected(r) \/ Rated(r)
        PROVE  PublicInv'
    <2>1. Collecting(r)
      BY <1>5, CollectedFacts
    <2>2. CASE StoresRated(r)
      <3>1. PICK rated \in 0..now : now - rated < TechnicalTtl /\ \E accounts : Ends(r, accounts, rated)
        BY <2>2 DEF StoresRated
      <3>2. PICK accounts : Ends(r, accounts, rated)
        BY <3>1
      <3>3. technical' \in {technical, {[at |-> now]}}
        BY <2>2 DEF StoresRated
      <3>4. QED
        BY <2>1, <3>1, <3>2, <3>3, StoreFacts, EndStep DEF Collecting
    <2>3. CASE AwaitsRatings(r)
      <3>1. PICK a \in AccountMaps :
               request' = [request EXCEPT ![r].pc = "ratings", ![r].accounts = a]
        BY <2>3 DEF AwaitsRatings
      <3>0. PICK n : n.pc = "ratings" /\ Moved(r, n)
        BY <3>1, MovedFacts
      <3>2. /\ request' \in [Requests -> RequestStates]
            /\ request'[r].pc = "ratings" /\ request'[r].read = request[r].read
            /\ \A q \in Requests \ {r} : request'[q] = request[q]
        BY <3>0 DEF Moved, Shape
      <3>3. QED
        BY <2>1, <2>3, <3>2, QuietStep DEF Collecting, AwaitsRatings
    <2>4. QED
      BY <1>5, <2>2, <2>3, CollectedFacts
  <1>6. ASSUME NEW r \in Requests, Raise(r)
        PROVE  PublicInv'
    <2>1. /\ Collecting(r) /\ lock' = NoOne /\ UNCHANGED <<now, cache, technical>>
          /\ stray' \subseteq stray \cup {request[r].read}
      BY <1>6 DEF Raise, Released, Collecting
    <2>2. /\ request' \in [Requests -> RequestStates] /\ request'[r].pc = "failed"
          /\ \A q \in Requests \ {r} : request'[q] = request[q]
      BY <1>6, NewFacts DEF Raise, Shape
    <2>3. QED
      BY <2>1, <2>2, EndStep DEF Collecting, Ages
  <1>7. ASSUME NEW r \in Requests, Finish(r)
        PROVE  PublicInv'
    <2>1. ~Collecting(r) /\ UNCHANGED <<now, cache, technical, lock, stray>>
      BY <1>7 DEF Finish, Over, Collecting
    <2>2. /\ request' \in [Requests -> RequestStates] /\ request'[r].pc = "idle"
          /\ \A q \in Requests \ {r} : request'[q] = request[q]
      BY <1>7, NewFacts DEF Finish, Shape
    <2>3. QED
      BY <2>1, <2>2, QuietStep DEF Collecting
  <1>8. CASE Invalidate
    BY <1>8 DEF Invalidate, Shape, LockHeld, Ages, Collecting
  <1>9. CASE Tick
    <2>1. now' = now + 1 /\ now' \in 0..MaxTime /\ UNCHANGED <<cache, technical, lock, request>>
      BY <1>9, TimesAssumption DEF Tick, Shape
    <2>2. Shape' /\ LockHeld'
      BY <2>1 DEF Shape, LockHeld, Collecting
    <2>3. \A r \in Requests : Collecting(r)' =>
             request'[r].read \in 0..now' /\ now' - request'[r].read <= CollectTime
      BY <1>9, <2>1, TimesAssumption DEF Tick, Collecting, Ages, Shape
    <2>4. \A e \in technical' : e.at \in 0..now'
      BY <2>1 DEF Ages, Shape
    <2>5. \A e \in cache' :
             /\ e.at \in 0..now'
             /\ e.read \in 0..e.at /\ e.at - e.read <= CollectTime
             /\ e.rated \in 0..e.at /\ e.at - e.rated < TechnicalTtl
      BY <2>1 DEF Ages, Shape
    <2>6. \A t \in stray' : t \in 0..now' /\ now' - t <= CollectTime
      BY <1>9, <2>1, TimesAssumption DEF Tick, Ages, Shape
    <2>7. QED
      BY <2>2, <2>3, <2>4, <2>5, <2>6 DEF Ages
  <1>10. ASSUME NEW t \in stray, StrayEnds(t)
         PROVE  PublicInv'
    BY <1>10 DEF StrayEnds, Shape, LockHeld, Ages, Collecting
  <1>11. QED
    BY <1>1, <1>2, <1>3, <1>4, <1>5, <1>6, <1>7, <1>8, <1>9, <1>10 DEF Next, Work

-----------------------------------------------------------------------------
(* The theorems. *)

(* The inductive invariant: the lock is held by the request that collects,  *)
(* and every age is within its bound.                                      *)
THEOREM PublicInvHolds == Spec => []PublicInv
  BY InitPublic, PublicStep, PTL DEF Spec

(* What a client is shown was read less than a time to live and one         *)
(* collection ago, and its ratings fetched less than their time to live    *)
(* before that, whatever was invalidated, failed or queued in between.     *)
THEOREM ServedFreshHolds == Spec => ServedFresh
  <1>1. ASSUME PublicInv, Next, NEW r \in Requests, NEW p \in request'[r].payload,
               request[r].payload = {}
        PROVE  Young(p)
    <2> USE DEF PublicInv
    <2>1. SUFFICES \/ \A q \in Requests : request'[q].payload \in {request[q].payload, {}}
                   \/ \E s \in Requests : /\ \A q \in Requests \ {s} : request'[q] = request[q]
                                          /\ \A x \in request'[s].payload : Young(x)
      BY <1>1
    <2>2. ASSUME NEW s \in Requests, NEW c \in Clients, Arrive(s, c)
          PROVE  \/ \A q \in Requests : request'[q].payload \in {request[q].payload, {}}
                 \/ HandsOut(s)
      <3>1. \/ HandsOut(s)
            \/ \E pc \in {"wait", "refused"} : request' = [request EXCEPT ![s].pc = pc]
        BY <1>1, <2>2, ArriveFacts
      <3>2. HandsOut(s) \/ \E n : Moved(s, n)
        BY <1>1, <3>1, MovedFacts
      <3>3. QED
        BY <1>1, <3>2 DEF Moved, Shape
    <2>3. ASSUME NEW s \in Requests, Enter(s)
          PROVE  \/ \A q \in Requests : request'[q].payload \in {request[q].payload, {}}
                 \/ HandsOut(s)
      BY <1>1, <2>3, EnterFacts, NewFacts DEF Shape
    <2>4. ASSUME NEW s \in Requests, States(s) \/ AwaitsRatings(s) \/ Raise(s) \/ Finish(s)
          PROVE  \A q \in Requests : request'[q].payload \in {request[q].payload, {}}
      <3>1. CASE States(s) \/ AwaitsRatings(s)
        BY <1>1, <3>1, MovedFacts DEF Moved, States, AwaitsRatings, Shape
      <3>2. CASE Raise(s) \/ Finish(s)
        BY <1>1, <3>2, NewFacts DEF Raise, Finish, Shape
      <3>3. QED
        BY <2>4, <3>1, <3>2
    <2>5. ASSUME NEW s \in Requests, Collected(s) \/ Rated(s)
          PROVE  AwaitsRatings(s) \/ (Collecting(s) /\ StoresRated(s))
      BY <1>1, <2>5, CollectedFacts
    <2>6. ASSUME NEW s \in Requests, Collecting(s), StoresRated(s)
          PROVE  /\ \A q \in Requests \ {s} : request'[q] = request[q]
                 /\ \A x \in request'[s].payload : Young(x)
      BY <1>1, <2>6, StoreFacts DEF StoresRated
    <2>7. CASE (\E t \in stray : StrayEnds(t)) \/ Invalidate \/ Tick
      BY <2>7 DEF StrayEnds, Invalidate, Tick
    <2>8. QED
      BY <1>1, <2>2, <2>3, <2>4, <2>5, <2>6, <2>7, HandsOutFacts DEF Next, Work
  <1>2. ASSUME PublicInv, [Next]_vars
        PROVE  [\A r \in Requests : \A p \in request'[r].payload :
                   request[r].payload = {} =>
                       /\ p.read < Ttl + CollectTime
                       /\ p.rated < TechnicalTtl + Ttl + CollectTime]_vars
    BY <1>1, <1>2 DEF Young
  <1>3. QED
    BY <1>2, PublicInvHolds, PTL DEF Spec, ServedFresh

-----------------------------------------------------------------------------
(* Collections take turns. *)

Waits(r) == request[r].pc = "wait"

(* A step of one request, as the lock sees it: nothing, it comes to wait,   *)
(* enters, withdraws or leaves.                                            *)
LEMMA TurnStep ==
    ASSUME PublicInv, NEW r \in Requests,
           \A q \in Requests \ {r} : request'[q] = request[q],
           \/ Waits(r)' = Waits(r) /\ Collecting(r)' = Collecting(r)
           \/ Waits(r)' /\ ~Collecting(r)
           \/ ~Waits(r)' /\ Collecting(r)' = Collecting(r)
           \/ Waits(r) /\ Collecting(r)' /\ lock = NoOne
           \/ ~Waits(r) /\ ~Waits(r)' /\ Collecting(r) /\ ~Collecting(r)'
    PROVE  [Turns!Next]_(Turns!vars)
  <1> DEFINE waiting == {q \in Requests : request[q].pc = "wait"}
             inside == {q \in Requests : Collecting(q)}
  <1>1. \A q \in Requests \ {r} : Waits(q)' = Waits(q) /\ Collecting(q)' = Collecting(q)
    BY DEF Waits, Collecting
  <1>2. \A q \in Requests : Collecting(q)' => ~Waits(q)'
    BY DEF Waits, Collecting
  <1>3. CASE Waits(r)' = Waits(r) /\ Collecting(r)' = Collecting(r)
    <2>1. waiting' = waiting /\ inside' = inside
      BY <1>1, <1>3 DEF Waits
    <2>2. QED
      BY <2>1 DEF Turns!vars
  <1>4. CASE Waits(r)' /\ ~Collecting(r)
    <2>1. waiting' = waiting \cup {r} /\ inside' = inside
      BY <1>1, <1>2, <1>4 DEF Waits
    <2>2. QED
      BY <2>1 DEF Turns!Next, Turns!Ask
  <1>5. CASE ~Waits(r)' /\ Collecting(r)' = Collecting(r)
    <2>1. waiting' = waiting \ {r} /\ inside' = inside
      BY <1>1, <1>5 DEF Waits
    <2>2. QED
      BY <2>1 DEF Turns!Next, Turns!Withdraw
  <1>6. CASE Waits(r) /\ Collecting(r)' /\ lock = NoOne
    <2>1. inside = {}
      BY <1>6, RequestsAssumption DEF PublicInv, LockHeld
    <2>2. waiting' = waiting \ {r} /\ inside' = {r}
      BY <1>1, <1>2, <1>6, <2>1 DEF Waits
    <2>3. QED
      BY <2>1, <2>2 DEF Turns!Next, Turns!Enter
  <1>7. CASE ~Waits(r) /\ ~Waits(r)' /\ Collecting(r) /\ ~Collecting(r)'
    <2>1. waiting' = waiting /\ inside' = inside \ {r} /\ r \in inside
      BY <1>1, <1>7 DEF Waits
    <2>2. QED
      BY <2>1 DEF Turns!Next, Turns!Leave
  <1>8. QED
    BY <1>3, <1>4, <1>5, <1>6, <1>7

(* At most one request collects, and it ends before the next begins: the    *)
(* requests implement the abstract lock.  What a failed collection left    *)
(* behind is gone when that collection could have lasted no longer.        *)
THEOREM OneCollectionHolds == Spec => OneCollection
  <1>1. Init => Turns!Init
    BY DEF Init, Turns!Init, NoRequest, Collecting
  <1>2. ASSUME PublicInv, [Next]_vars
        PROVE  [Turns!Next]_(Turns!vars)
    <2> USE <1>2 DEF PublicInv
    <2>1. CASE request' = request
      BY <2>1 DEF Turns!vars, Collecting
    <2>2. ASSUME NEW r \in Requests, NEW c \in Clients, Arrive(r, c)
          PROVE  [Turns!Next]_(Turns!vars)
      <3>1. ~Waits(r) /\ ~Collecting(r)
        BY <2>2 DEF Arrive, Waits, Collecting
      <3>2. HandsOut(r) \/ \E pc \in {"wait", "refused"} : \E n : n.pc = pc /\ Moved(r, n)
        BY <2>2, ArriveFacts, MovedFacts
      <3>3. /\ \A q \in Requests \ {r} : request'[q] = request[q]
            /\ request'[r].pc \in {"wait", "refused", "served"}
        BY <3>2, HandsOutFacts DEF Moved, Shape
      <3>4. QED
        BY <3>1, <3>3, TurnStep DEF Waits, Collecting
    <2>3. ASSUME NEW r \in Requests, Enter(r)
          PROVE  [Turns!Next]_(Turns!vars)
      <3>1. Waits(r) /\ ~Collecting(r)
        BY <2>3 DEF Enter, Waits, Collecting
      <3>2. /\ \A q \in Requests \ {r} : request'[q] = request[q]
            /\ request'[r].pc = "served" \/ (request'[r].pc = "states" /\ lock = NoOne)
        BY <2>3, EnterFacts, HandsOutFacts, NewFacts DEF Shape
      <3>3. QED
        BY <3>1, <3>2, TurnStep DEF Waits, Collecting
    <2>4. ASSUME NEW r \in Requests, States(r)
          PROVE  [Turns!Next]_(Turns!vars)
      <3>1. ~Waits(r) /\ Collecting(r)
        BY <2>4 DEF States, Waits, Collecting
      <3>2. \E n : n.pc = "accounts" /\ Moved(r, n)
        BY <2>4, MovedFacts DEF States
      <3>3. /\ \A q \in Requests \ {r} : request'[q] = request[q]
            /\ request'[r].pc = "accounts"
        BY <3>2 DEF Moved, Shape
      <3>4. QED
        BY <3>1, <3>3, TurnStep DEF Waits, Collecting
    <2>5. ASSUME NEW r \in Requests, Collected(r) \/ Rated(r)
          PROVE  [Turns!Next]_(Turns!vars)
      <3>1. ~Waits(r) /\ Collecting(r)
        BY <2>5, CollectedFacts DEF Waits, Collecting
      <3>2. CASE StoresRated(r)
        <4>1. /\ \A q \in Requests \ {r} : request'[q] = request[q]
              /\ request'[r].pc = "served"
          BY <3>1, <3>2, StoreFacts DEF StoresRated
        <4>2. QED
          BY <3>1, <4>1, TurnStep DEF Waits, Collecting
      <3>3. CASE AwaitsRatings(r)
        <4>1. \E n : n.pc = "ratings" /\ Moved(r, n)
          BY <3>3, MovedFacts DEF AwaitsRatings
        <4>2. /\ \A q \in Requests \ {r} : request'[q] = request[q]
              /\ request'[r].pc = "ratings"
          BY <4>1 DEF Moved, Shape
        <4>3. QED
          BY <3>1, <4>2, TurnStep DEF Waits, Collecting
      <3>4. QED
        BY <2>5, <3>2, <3>3, CollectedFacts
    <2>6. ASSUME NEW r \in Requests, Raise(r) \/ Finish(r)
          PROVE  [Turns!Next]_(Turns!vars)
      <3>1. ~Waits(r)
        BY <2>6 DEF Raise, Finish, Over, Waits
      <3>2. /\ \A q \in Requests \ {r} : request'[q] = request[q]
            /\ request'[r].pc \in {"failed", "idle"}
        BY <2>6, NewFacts DEF Raise, Finish, Shape
      <3>3. QED
        BY <3>1, <3>2, TurnStep DEF Waits, Collecting
    <2>7. CASE (\E t \in stray : StrayEnds(t)) \/ Invalidate \/ Tick \/ UNCHANGED vars
      BY <2>1, <2>7 DEF StrayEnds, Invalidate, Tick, vars
    <2>8. QED
      BY <2>2, <2>3, <2>4, <2>5, <2>6, <2>7 DEF Next, Work
  <1>3. PublicInv => StraysEnd
    BY DEF PublicInv, Ages, StraysEnd
  <1>4. QED
    BY <1>1, <1>2, <1>3, PublicInvHolds, PTL DEF Spec, OneCollection, Turns!Spec

-----------------------------------------------------------------------------
(* The rate limit. *)

LEMMA LeastOf ==
    ASSUME NEW T \in SUBSET Nat, T # {}
    PROVE  \E n \in T : \A m \in T : n <= m
  <1> DEFINE F == {0..n : n \in T}
             R == StrictSubsetOrdering(Nat)
  <1>1. F \subseteq FiniteSubsetsOf(Nat) /\ F # {}
    <2>1. \A n \in T : IsFiniteSet(0..n) /\ 0..n \in SUBSET Nat
      BY FS_Interval
    <2>2. QED
      BY <2>1 DEF FiniteSubsetsOf
  <1>2. IsWellFoundedOn(R, FiniteSubsetsOf(Nat))
    BY FS_StrictSubsetOrderingWellFounded
  <1> HIDE DEF R, F
  <1>3. \E x \in F : \A y \in F : ~(<<y, x>> \in R)
    BY <1>1, <1>2, WFMin, Zenon
  <1>4. PICK n \in T : \A m \in T : <<0..m, 0..n>> \notin R
    BY <1>3 DEF F
  <1>5. ASSUME NEW m \in T, m < n
        PROVE  FALSE
    <2>1. 0..m \subseteq 0..n /\ n \in 0..n /\ n \notin 0..m
      BY <1>5
    <2>2. 0..m \in SUBSET Nat /\ 0..n \in SUBSET Nat
      OBVIOUS
    <2>3. <<0..m, 0..n>> \in R
      BY <2>1, <2>2 DEF R, StrictSubsetOrdering
    <2>4. QED
      BY <1>4, <2>3
  <1>6. QED
    BY <1>5

LEMMA ItemFacts ==
    ASSUME NEW S, NEW s \in Seq(S)
    PROVE  Len(s) \in Nat /\ DOMAIN s = 1..Len(s) /\ \A i \in 1..Len(s) : s[i] \in S
  OBVIOUS

(* h is the end of a, and what comes before is from before the cutoff. *)
EndOf(h, a, cutoff) ==
    \E n \in 0..Len(a) :
        h = SubSeq(a, n + 1, Len(a)) /\ \A i \in 1..n : a[i] < cutoff

SortedTimes(a) == a \in Seq(0..MaxTime) /\ \A i, j \in 1..Len(a) : i <= j => a[i] <= a[j]

LEMMA TailFacts ==
    ASSUME NEW S, NEW a \in Seq(S), NEW n \in 0..Len(a)
    PROVE  LET h == SubSeq(a, n + 1, Len(a)) IN
           /\ h \in Seq(S) /\ Len(h) = Len(a) - n
           /\ \A i \in 1..(Len(a) - n) : h[i] = a[n + i]
  <1> DEFINE h == SubSeq(a, n + 1, Len(a))
  <1>1. n + 1 \in Int /\ Len(a) \in Int /\ \A i \in (n + 1)..Len(a) : a[i] \in S
    OBVIOUS
  <1>2. /\ h \in Seq(S)
        /\ Len(h) = IF n + 1 <= Len(a) THEN Len(a) - (n + 1) + 1 ELSE 0
        /\ \A i \in 1..(Len(a) - (n + 1) + 1) : h[i] = a[(n + 1) + i - 1]
    BY <1>1, SubSeqProperties
  <1> HIDE DEF h
  <1>3. h \in Seq(S) /\ Len(h) = Len(a) - n /\ \A i \in 1..(Len(a) - n) : h[i] = a[n + i]
    BY <1>1, <1>2
  <1>4. QED
    BY <1>3 DEF h

LEMMA SinceFacts ==
    ASSUME NEW s \in Seq(Int), NEW cutoff \in Int
    PROVE  \E n \in 0..Len(s) :
              /\ \A i \in 1..n : s[i] < cutoff
              /\ n < Len(s) => s[n + 1] >= cutoff
              /\ Since(s, cutoff) = SubSeq(s, n + 1, Len(s))
  <1> DEFINE Stale(n) == /\ \A i \in 1..n : s[i] < cutoff
                         /\ n < Len(s) => s[n + 1] >= cutoff
             T == {i \in 1..Len(s) : s[i] >= cutoff}
  <1>1. \A i \in 1..Len(s) : s[i] \in Int
    OBVIOUS
  <1>2. \E n \in 0..Len(s) : Stale(n)
    <2>1. CASE T = {}
      <3>1. Len(s) \in 0..Len(s) /\ Stale(Len(s))
        BY <1>1, <2>1
      <3>2. QED
        BY <3>1
    <2>2. CASE T # {}
      <3>1. T \in SUBSET Nat
        OBVIOUS
      <3>2. PICK m \in T : \A i \in T : m <= i
        BY <2>2, <3>1, LeastOf
      <3>3. m - 1 \in 0..Len(s) /\ Stale(m - 1)
        BY <1>1, <3>2
      <3>4. QED
        BY <3>3
    <2>3. QED
      BY <2>1, <2>2
  <1> DEFINE n == CHOOSE n \in 0..Len(s) : Stale(n)
  <1>3. n \in 0..Len(s) /\ Stale(n)
    BY <1>2
  <1>4. Since(s, cutoff) = SubSeq(s, n + 1, Len(s))
    BY DEF Since
  <1> HIDE DEF n
  <1>5. QED
    BY <1>3, <1>4

(* The buckets: each ends the history of its client, and holds all of it    *)
(* that lies in the window; who has no bucket was let through before it.   *)
RateInv ==
    /\ now \in 0..MaxTime
    /\ DOMAIN admitted = Clients /\ DOMAIN hits \subseteq Clients
    /\ \A c \in Clients :
          SortedTimes(admitted[c]) /\ \A i \in 1..Len(admitted[c]) : admitted[c][i] <= now
    /\ \A c \in DOMAIN hits :
          EndOf(hits[c], admitted[c], now - Window) /\ Len(hits[c]) <= Budget
    /\ \A c \in Clients \ DOMAIN hits :
          \A i \in 1..Len(admitted[c]) : admitted[c][i] < now - Window

(* What the limit counts is what the history has in the window. *)
LEMMA BucketFacts ==
    ASSUME RateInv, NEW c \in Clients
    PROVE  \E n \in 0..Len(admitted[c]) :
              /\ Bucket(c) = SubSeq(admitted[c], n + 1, Len(admitted[c]))
              /\ Len(Bucket(c)) = Len(admitted[c]) - n /\ Len(Bucket(c)) <= Budget
              /\ \A i \in 1..n : admitted[c][i] < now - Window
              /\ \A i \in (n + 1)..Len(admitted[c]) : admitted[c][i] >= now - Window
              /\ c \in Kept(hits) => n < Len(admitted[c])
              /\ c \notin Kept(hits) => n = Len(admitted[c])
  <1> DEFINE a == admitted[c]
             L == Len(a)
             cutoff == now - Window
  <1>1. /\ a \in Seq(0..MaxTime) /\ L \in Nat
        /\ \A i \in 1..L : a[i] \in Int
        /\ \A i, j \in 1..L : i <= j => a[i] <= a[j]
    <2>1. SortedTimes(a)
      BY DEF RateInv
    <2> HIDE DEF a
    <2>2. a \in Seq(0..MaxTime) /\ \A i, j \in 1..L : i <= j => a[i] <= a[j]
      BY <2>1 DEF SortedTimes
    <2>3. L \in Nat /\ \A i \in 1..L : a[i] \in 0..MaxTime
      BY <2>2, ItemFacts
    <2>4. QED
      BY <2>2, <2>3
  <1>2. cutoff \in Int /\ Budget \in Nat
    BY TimesAssumption DEF RateInv
  <1>3. CASE c \notin DOMAIN hits
    <2>1. Bucket(c) = << >>
      BY <1>3 DEF Bucket, Kept
    <2>2. SubSeq(a, L + 1, L) = << >>
      BY <1>1, TailFacts
    <2>3. \A i \in 1..L : a[i] < cutoff
      BY <1>3 DEF RateInv
    <2> HIDE DEF a, L, cutoff
    <2>4. L \in 0..L /\ Len(Bucket(c)) = 0 /\ ~(\E i \in (L + 1)..L : TRUE) /\ c \notin Kept(hits)
      BY <1>1, <1>3, <2>1 DEF Kept
    <2>5. QED
      BY <1>1, <1>2, <2>1, <2>2, <2>3, <2>4 DEF a, L, cutoff
  <1>4. CASE c \in DOMAIN hits
    <2> DEFINE h == hits[c]
    <2>1. PICK m \in 0..L : h = SubSeq(a, m + 1, L) /\ \A i \in 1..m : a[i] < cutoff
      BY <1>4 DEF RateInv, EndOf
    <2>2. /\ h \in Seq(0..MaxTime) /\ Len(h) = L - m
          /\ \A i \in 1..(L - m) : h[i] = a[m + i]
      BY <1>1, <2>1, TailFacts
    <2>3. Len(h) <= Budget
      BY <1>4 DEF RateInv
    <2> HIDE DEF a, L, cutoff
    <2>m. m \in Nat /\ m <= L /\ \A i \in 1..m : a[i] < cutoff
      BY <1>1, <2>1
    <2> DEFINE q == Len(h)
    <2>q. /\ q \in Nat /\ q = L - m /\ \A i \in 1..q : h[i] \in Int
          /\ q = 0 <=> h = << >>
      <3> HIDE DEF h
      <3>1. q \in Nat /\ \A i \in 1..q : h[i] \in 0..MaxTime
        BY <2>2, ItemFacts
      <3>2. QED
        BY <2>2, <3>1
    <2>4. CASE c \notin Kept(hits)
      <3>1. Bucket(c) = << >>
        BY <2>4 DEF Bucket
      <3>2. SubSeq(a, L + 1, L) = << >>
        BY <1>1, TailFacts DEF L
      <3>3. h = << >> \/ h[Len(h)] < cutoff
        <4>1. h = << >> \/ ~(h[Len(h)] >= cutoff)
          BY <1>4, <2>4 DEF Kept, cutoff
        <4> HIDE DEF h
        <4>2. h # << >> => h[q] \in Int
          <5> HIDE DEF q
          <5>1. h # << >> => q \in 1..q
            BY <2>q
          <5>2. QED
            BY <2>q, <5>1
        <4>3. QED
          BY <1>2, <4>1, <4>2
      <3>4. \A i \in 1..L : a[i] < cutoff
        <4>1. CASE L = m
          BY <2>1, <4>1
        <4>2. CASE L # m
          <5> HIDE DEF h
          <5>1. Len(h) \in 1..(L - m) /\ h[Len(h)] = a[L] /\ h # << >>
            <6> HIDE DEF q
            <6>1. q \in 1..(L - m) /\ m + q = L /\ h # << >>
              BY <1>1, <2>m, <2>q, <4>2
            <6>2. h[q] = a[m + q]
              BY <2>2, <6>1
            <6>3. QED
              BY <6>1, <6>2 DEF q
          <5>2. a[L] < cutoff /\ L \in 1..L
            BY <1>1, <3>3, <5>1
          <5>3. QED
            BY <1>1, <1>2, <5>2
        <4>3. QED
          BY <4>1, <4>2
      <3>5. L \in 0..L /\ Len(Bucket(c)) = L - L /\ Len(Bucket(c)) <= Budget
        BY <1>1, <1>2, <3>1
      <3>6. QED
        BY <1>1, <2>4, <3>1, <3>2, <3>4, <3>5 DEF a, L, cutoff
    <2>5. CASE c \in Kept(hits)
      <3>1. h # << >> /\ h[Len(h)] >= cutoff
        BY <2>5 DEF Kept, cutoff
      <3> HIDE DEF h
      <3>2. h \in Seq(Int)
        <4>1. h \in Seq(0..MaxTime) /\ \A i \in 1..Len(h) : h[i] \in Int
          BY <2>2, <2>q
        <4>2. QED
          BY <4>1
      <3>3. PICK k \in 0..Len(h) : /\ \A i \in 1..k : h[i] < cutoff
                                   /\ k < Len(h) => h[k + 1] >= cutoff
                                   /\ Since(h, cutoff) = SubSeq(h, k + 1, Len(h))
        BY <1>2, <3>2, SinceFacts
      <3>4. Bucket(c) = SubSeq(h, k + 1, Len(h))
        <4>1. Bucket(c) = Recent(h)
          BY <2>5 DEF Bucket, h
        <4>2. Recent(h) = Since(h, cutoff)
          BY DEF Recent, cutoff
        <4>3. QED
          BY <3>3, <4>1, <4>2
      <3>a. /\ k \in Nat /\ k <= q /\ \A i \in 1..k : h[i] < cutoff
            /\ k < q => h[k + 1] >= cutoff
        BY <2>q, <3>3 DEF q
      <3>5. k < Len(h)
        <4>1. SUFFICES ASSUME k = Len(h) PROVE FALSE
          BY <2>1, <2>2, <3>3
        <4>2. q \in 1..k /\ h[q] \in Int
          BY <2>q, <3>1, <4>1
        <4>3. h[q] < cutoff
          BY <3>a, <4>2
        <4>4. QED
          BY <1>2, <3>1, <4>2, <4>3
      <3> DEFINE n == m + k
                 b == SubSeq(h, k + 1, Len(h))
                 e == SubSeq(a, n + 1, L)
      <3>6. n \in 0..L /\ n < L /\ Len(h) - k = L - n
        BY <1>1, <2>1, <2>2, <3>3, <3>5
      <3>7. /\ b \in Seq(0..MaxTime) /\ Len(b) = Len(h) - k
            /\ \A i \in 1..(Len(h) - k) : b[i] = h[k + i]
        BY <2>2, <3>3, TailFacts
      <3>8. /\ e \in Seq(0..MaxTime) /\ Len(e) = L - n
            /\ \A i \in 1..(L - n) : e[i] = a[n + i]
        BY <1>1, <3>6, TailFacts DEF L
      <3> HIDE DEF b, e
      <3>9. \A i \in 1..(L - n) : b[i] = e[i]
        <4>1. ASSUME NEW i \in 1..(L - n)
              PROVE  h[k + i] = a[n + i]
          <5>1. k + i \in 1..(L - m) /\ m + (k + i) = n + i
            BY <1>1, <2>1, <2>2, <3>3, <3>6
          <5>2. QED
            BY <2>2, <5>1
        <4>2. QED
          BY <3>6, <3>7, <3>8, <4>1
      <3>10. b = e
        BY <3>6, <3>7, <3>8, <3>9, SeqEqual
      <3>11. \A i \in 1..n : a[i] < cutoff
        <4>1. ASSUME NEW i \in 1..n, ~(i <= m)
              PROVE  a[i] < cutoff
          <5> DEFINE x == i - m
          <5>1. x \in 1..k /\ x \in 1..(L - m) /\ m + x = i
            <6> HIDE DEF q
            <6>1. k \in 0..(L - m)
              BY <2>m, <2>q, <3>a
            <6>2. QED
              BY <1>1, <2>m, <4>1, <6>1
          <5> HIDE DEF x
          <5>2. h[x] = a[m + x] /\ h[x] < cutoff
            BY <2>2, <3>a, <5>1
          <5>3. QED
            BY <5>1, <5>2
        <4>2. QED
          BY <2>1, <3>3, <4>1
      <3>12. \A i \in (n + 1)..L : a[i] >= cutoff
        <4>1. k + 1 \in 1..(L - m) /\ m + (k + 1) = n + 1 /\ n + 1 \in 1..L
          BY <1>1, <2>1, <2>2, <3>3, <3>5
        <4>2. a[n + 1] >= cutoff
          <5> DEFINE x == k + 1
          <5>1. h[x] >= cutoff
            BY <3>a, <3>5
          <5> HIDE DEF x, n
          <5>2. h[x] = a[m + x] /\ m + x = n + 1
            BY <2>2, <4>1 DEF x
          <5>3. QED
            BY <5>1, <5>2
        <4> HIDE DEF n
        <4>3. QED
          BY <1>1, <1>2, <4>1, <4>2
      <3>13. Bucket(c) = e /\ Len(e) = L - n /\ L - n <= Budget
        BY <1>1, <1>2, <2>1, <2>2, <2>3, <3>3, <3>4, <3>6, <3>8, <3>10 DEF b
      <3> HIDE DEF n
      <3>14. QED
        BY <2>5, <3>6, <3>11, <3>12, <3>13 DEF e, a, L, cutoff
    <2>6. QED
      BY <2>4, <2>5
  <1>5. QED
    BY <1>3, <1>4

(* A client within its budget is let through at the present moment. *)
LEMMA AdmitFacts ==
    ASSUME NEW a, SortedTimes(a), now \in 0..MaxTime, \A i \in 1..Len(a) : a[i] <= now,
           NEW n \in 0..Len(a), NEW cutoff \in Int, \A i \in 1..n : a[i] < cutoff
    PROVE  LET b == Append(a, now)
               h == Append(SubSeq(a, n + 1, Len(a)), now) IN
           /\ SortedTimes(b) /\ \A i \in 1..Len(b) : b[i] <= now
           /\ Len(b) = Len(a) + 1 /\ b[Len(a) + 1] = now
           /\ EndOf(h, b, cutoff) /\ Len(h) = Len(a) - n + 1
  <1> DEFINE b == Append(a, now)
             L == Len(a)
             g == SubSeq(a, n + 1, L)
             h == Append(g, now)
             f == SubSeq(b, n + 1, L + 1)
  <1>1. a \in Seq(0..MaxTime) /\ \A i, j \in 1..L : i <= j => a[i] <= a[j]
    BY DEF SortedTimes
  <1>2. L \in Nat /\ \A i \in 1..L : a[i] \in 0..MaxTime
    BY <1>1, ItemFacts
  <1>3. /\ b \in Seq(0..MaxTime) /\ Len(b) = L + 1
        /\ \A i \in 1..L : b[i] = a[i]
        /\ b[L + 1] = now
    BY <1>1, AppendProperties
  <1>4. /\ g \in Seq(0..MaxTime) /\ Len(g) = L - n
        /\ \A i \in 1..(L - n) : g[i] = a[n + i]
    BY <1>1, TailFacts
  <1> HIDE DEF g
  <1>5. /\ h \in Seq(0..MaxTime) /\ Len(h) = L - n + 1
        /\ \A i \in 1..(L - n) : h[i] = g[i]
        /\ h[L - n + 1] = now
    BY <1>4, AppendProperties
  <1>6. /\ f \in Seq(0..MaxTime) /\ Len(f) = L + 1 - n
        /\ \A i \in 1..(L + 1 - n) : f[i] = b[n + i]
    <2> HIDE DEF b
    <2>1. n \in 0..Len(b) /\ Len(b) = L + 1
      BY <1>2, <1>3
    <2> DEFINE d == SubSeq(b, n + 1, Len(b))
    <2>2. /\ d \in Seq(0..MaxTime) /\ Len(d) = Len(b) - n
          /\ \A i \in 1..(Len(b) - n) : d[i] = b[n + i]
      BY <1>3, <2>1, TailFacts
    <2>3. f = d
      BY <2>1
    <2> HIDE DEF d, f
    <2>4. QED
      BY <2>1, <2>2, <2>3
  <1> HIDE DEF b, h, f, L
  <1>7. h = f
    <2>1. ASSUME NEW i \in 1..(L - n + 1)
          PROVE  h[i] = f[i]
      <3>1. CASE i = L - n + 1
        <4>1. n + i = L + 1 /\ i \in 1..(L + 1 - n)
          BY <1>2, <3>1
        <4>2. f[i] = b[L + 1]
          BY <1>6, <4>1
        <4>3. QED
          BY <1>3, <1>5, <3>1, <4>2
      <3>2. CASE i # L - n + 1
        <4>1. i \in 1..(L - n) /\ n + i \in 1..L /\ i \in 1..(L + 1 - n)
          BY <1>2, <2>1, <3>2 DEF L
        <4>2. h[i] = g[i] /\ g[i] = a[n + i] /\ f[i] = b[n + i] /\ b[n + i] = a[n + i]
          BY <1>3, <1>4, <1>5, <1>6, <4>1
        <4>3. QED
          BY <4>2
      <3>3. QED
        BY <3>1, <3>2
    <2>2. Len(h) = Len(f) /\ Len(h) = L - n + 1
      BY <1>2, <1>5, <1>6
    <2>3. QED
      BY <1>5, <1>6, <2>1, <2>2, SeqEqual
  <1>8. EndOf(h, b, cutoff)
    <2>1. n \in 0..Len(b) /\ h = SubSeq(b, n + 1, Len(b))
      BY <1>2, <1>3, <1>7 DEF f, L
    <2>2. \A i \in 1..n : b[i] < cutoff
      <3>1. \A i \in 1..n : i \in 1..L
        BY <1>2 DEF L
      <3>2. QED
        BY <1>3, <3>1
    <2>3. QED
      BY <2>1, <2>2 DEF EndOf
  <1>9. /\ \A i, j \in 1..(L + 1) : i <= j => b[i] <= b[j]
        /\ \A i \in 1..(L + 1) : b[i] <= now
    <2>1. \A i \in 1..L : a[i] <= now
      BY DEF L
    <2>2. QED
      BY <1>1, <1>2, <1>3, <2>1
  <1>10. SortedTimes(b) /\ \A i \in 1..Len(b) : b[i] <= now
    BY <1>3, <1>9 DEF SortedTimes
  <1>11. QED
    BY <1>3, <1>5, <1>8, <1>10 DEF b, g, h, L

LEMMA ArriveRate ==
    ASSUME RateInv, NEW r \in Requests, NEW c \in Clients, Arrive(r, c)
    PROVE  RateInv'
  <1> DEFINE cutoff == now - Window
  <1>1. /\ now' = now
        /\ hits' = [d \in Kept(hits) \cup {c} |->
                        IF d # c THEN hits[d]
                        ELSE IF Allows(c) THEN Append(Bucket(c), now) ELSE Bucket(c)]
        /\ Allows(c) => admitted' = [admitted EXCEPT ![c] = Append(admitted[c], now)]
        /\ ~Allows(c) => admitted' = admitted
    BY DEF Arrive, RateLimit
  <1>2. /\ DOMAIN admitted = Clients /\ DOMAIN admitted' = Clients
        /\ \A d \in Clients \ {c} : admitted'[d] = admitted[d]
        /\ Allows(c) => admitted'[c] = Append(admitted[c], now)
        /\ ~Allows(c) => admitted'[c] = admitted[c]
    BY <1>1 DEF RateInv
  <1>3. /\ DOMAIN hits' = Kept(hits) \cup {c} /\ Kept(hits) \subseteq DOMAIN hits
        /\ \A d \in Kept(hits) \ {c} : hits'[d] = hits[d]
        /\ Allows(c) => hits'[c] = Append(Bucket(c), now)
        /\ ~Allows(c) => hits'[c] = Bucket(c)
    BY <1>1 DEF Kept
  <1>4. cutoff \in Int /\ now \in 0..MaxTime /\ Budget \in Nat
    BY TimesAssumption DEF RateInv
  <1>5. PICK n \in 0..Len(admitted[c]) :
              /\ Bucket(c) = SubSeq(admitted[c], n + 1, Len(admitted[c]))
              /\ Len(Bucket(c)) = Len(admitted[c]) - n /\ Len(Bucket(c)) <= Budget
              /\ \A i \in 1..n : admitted[c][i] < cutoff
    BY BucketFacts
  <1>6. SortedTimes(admitted[c]) /\ \A i \in 1..Len(admitted[c]) : admitted[c][i] <= now
    BY DEF RateInv
  <1> HIDE DEF cutoff
  <1>7. /\ SortedTimes(admitted'[c]) /\ \A i \in 1..Len(admitted'[c]) : admitted'[c][i] <= now
        /\ EndOf(hits'[c], admitted'[c], cutoff) /\ Len(hits'[c]) <= Budget
    <2>1. CASE Allows(c)
      <3>1. Len(Bucket(c)) < Budget
        BY <2>1 DEF Allows
      <3> DEFINE a == admitted[c]
                 b == Append(a, now)
                 h == Append(SubSeq(a, n + 1, Len(a)), now)
      <3>2. /\ SortedTimes(b) /\ \A i \in 1..Len(b) : b[i] <= now
            /\ EndOf(h, b, cutoff) /\ Len(h) = Len(a) - n + 1
        BY <1>4, <1>5, <1>6, AdmitFacts
      <3>3. hits'[c] = h /\ admitted'[c] = b
        BY <1>2, <1>3, <1>5, <2>1
      <3>4. Len(a) \in Nat
        BY <1>6, ItemFacts DEF SortedTimes
      <3> HIDE DEF a, b, h
      <3>5. Len(h) <= Budget
        BY <1>4, <1>5, <3>1, <3>2, <3>4 DEF a
      <3>6. QED
        BY <3>2, <3>3, <3>5
    <2>2. CASE ~Allows(c)
      BY <1>2, <1>3, <1>5, <1>6, <2>2 DEF EndOf
    <2>3. QED
      BY <2>1, <2>2
  <1>8. ASSUME NEW d \in Clients \ Kept(hits)
        PROVE  \A i \in 1..Len(admitted[d]) : admitted[d][i] < cutoff
    BY BucketFacts DEF cutoff
  <1>9. ASSUME NEW d \in Kept(hits)
        PROVE  EndOf(hits[d], admitted[d], cutoff) /\ Len(hits[d]) <= Budget
    BY <1>3 DEF RateInv, cutoff
  <1>10. /\ DOMAIN hits' \subseteq Clients
         /\ \A d \in Clients :
               SortedTimes(admitted'[d]) /\ \A i \in 1..Len(admitted'[d]) : admitted'[d][i] <= now
    BY <1>2, <1>3, <1>7 DEF RateInv
  <1>11. \A d \in DOMAIN hits' : EndOf(hits'[d], admitted'[d], cutoff) /\ Len(hits'[d]) <= Budget
    <2>1. TAKE d \in DOMAIN hits'
    <2>2. CASE d = c
      BY <1>7, <2>2
    <2>3. CASE d # c
      <3>1. d \in Kept(hits) /\ d \in Clients /\ hits'[d] = hits[d] /\ admitted'[d] = admitted[d]
        BY <1>2, <1>3, <1>10, <2>3
      <3>2. QED
        BY <1>9, <3>1
    <2>4. QED
      BY <2>2, <2>3
  <1>12. \A d \in Clients \ DOMAIN hits' : \A i \in 1..Len(admitted'[d]) : admitted'[d][i] < cutoff
    <2>1. TAKE d \in Clients \ DOMAIN hits'
    <2>2. d # c /\ d \in Clients \ Kept(hits) /\ admitted'[d] = admitted[d]
      BY <1>2, <1>3
    <2>3. QED
      BY <1>8, <2>2
  <1>13. now' = now /\ cutoff = now' - Window
    BY <1>1 DEF cutoff
  <1>14. /\ now' \in 0..MaxTime
         /\ \A d \in Clients : \A i \in 1..Len(admitted'[d]) : admitted'[d][i] <= now'
    BY <1>4, <1>10, <1>13
  <1>15. QED
    BY <1>2, <1>10, <1>11, <1>12, <1>13, <1>14 DEF RateInv

LEMMA TickRate ==
    ASSUME RateInv, Tick
    PROVE  RateInv'
  <1>1. now' = now + 1 /\ now' \in 0..MaxTime /\ UNCHANGED <<hits, admitted>>
    BY TimesAssumption DEF Tick, RateInv
  <1>2. now - Window \in Int /\ now' - Window \in Int /\ now - Window < now' - Window
    BY <1>1, TimesAssumption DEF RateInv
  <1>3. ASSUME NEW c \in Clients
        PROVE  /\ Len(admitted[c]) \in Nat /\ \A i \in 1..Len(admitted[c]) : admitted[c][i] \in Int
               /\ \A i \in 1..Len(admitted[c]) : admitted[c][i] <= now
               /\ SortedTimes(admitted[c])
    <2>1. SortedTimes(admitted[c]) /\ \A i \in 1..Len(admitted[c]) : admitted[c][i] <= now
      BY DEF RateInv
    <2>2. admitted[c] \in Seq(0..MaxTime)
      BY <2>1 DEF SortedTimes
    <2>3. Len(admitted[c]) \in Nat /\ \A i \in 1..Len(admitted[c]) : admitted[c][i] \in 0..MaxTime
      BY <2>2, ItemFacts
    <2>4. QED
      BY <2>1, <2>3
  <1>4. ASSUME NEW c \in DOMAIN hits
        PROVE  EndOf(hits[c], admitted[c], now' - Window)
    <2>1. EndOf(hits[c], admitted[c], now - Window) /\ c \in Clients
      BY DEF RateInv
    <2>2. PICK n \in 0..Len(admitted[c]) :
             /\ hits[c] = SubSeq(admitted[c], n + 1, Len(admitted[c]))
             /\ \A i \in 1..n : admitted[c][i] < now - Window
      BY <2>1 DEF EndOf
    <2>3. \A i \in 1..n : admitted[c][i] < now' - Window
      <3>1. \A i \in 1..n : i \in 1..Len(admitted[c])
        BY <1>3, <2>1
      <3>2. \A i \in 1..n : admitted[c][i] \in Int /\ admitted[c][i] < now - Window
        BY <1>3, <2>1, <2>2, <3>1
      <3>3. QED
        BY <1>2, <3>2
    <2>4. QED
      BY <2>2, <2>3 DEF EndOf
  <1>5. ASSUME NEW c \in Clients \ DOMAIN hits, NEW i \in 1..Len(admitted[c])
        PROVE  admitted[c][i] < now' - Window
    BY <1>2, <1>3 DEF RateInv
  <1>6. ASSUME NEW c \in Clients, NEW i \in 1..Len(admitted[c])
        PROVE  admitted[c][i] <= now'
    BY <1>1, <1>3 DEF RateInv
  <1>7. QED
    BY <1>1, <1>3, <1>4, <1>5, <1>6 DEF RateInv

LEMMA RateStep ==
    ASSUME RateInv, [Next]_vars
    PROVE  RateInv'
  <1>1. ASSUME UNCHANGED <<now, hits, admitted>>
        PROVE  RateInv'
    BY <1>1 DEF RateInv
  <1>2. ASSUME NEW r \in Requests, Work(r) \/ Finish(r)
        PROVE  UNCHANGED <<now, hits, admitted>>
    BY <1>2 DEF Work, Enter, States, Collected, Ends, Rated, Raise, Finish
  <1>3. CASE (\E t \in stray : StrayEnds(t)) \/ Invalidate \/ UNCHANGED vars
    BY <1>1, <1>3 DEF StrayEnds, Invalidate, vars
  <1>4. QED
    BY <1>1, <1>2, <1>3, ArriveRate, TickRate DEF Next

LEMMA RateInit == Init => RateInv
  <1> SUFFICES ASSUME Init PROVE RateInv
    OBVIOUS
  <1>1. now = 0 /\ 0 \in 0..MaxTime /\ DOMAIN hits = {}
    BY TimesAssumption DEF Init
  <1>2. DOMAIN admitted = Clients /\ \A c \in Clients : admitted[c] = << >>
    BY DEF Init
  <1>3. SortedTimes(<< >>)
    BY DEF SortedTimes
  <1>4. QED
    BY <1>1, <1>2, <1>3 DEF RateInv

(* A bucket is what pruning left of the times its client was admitted at.  *)
THEOREM RateInvHolds == Spec => []RateInv
  BY RateInit, RateStep, PTL DEF Spec

(* "Allow budget requests per minute per IP, else raise 429": a request is   *)
(* refused exactly when that many of its client were let through in the     *)
(* window that ends now.                                                    *)
THEOREM RateExactHolds == Spec => RateExact
  <1>1. ASSUME RateInv, Shape, NEW r \in Requests, NEW c \in Clients, Arrive(r, c)
        PROVE  (request'[r].pc = "refused") =
               (Cardinality({i \in DOMAIN admitted[c] : admitted[c][i] >= now - Window}) >= Budget)
    <2> DEFINE a == admitted[c]
               L == Len(a)
               Recently == {i \in DOMAIN a : a[i] >= now - Window}
    <2>1. PICK n \in 0..L :
              /\ Len(Bucket(c)) = L - n
              /\ \A i \in 1..n : a[i] < now - Window
              /\ \A i \in (n + 1)..L : a[i] >= now - Window
      BY <1>1, BucketFacts
    <2>2. a \in Seq(0..MaxTime)
      BY <1>1 DEF RateInv, SortedTimes
    <2>3. L \in Nat /\ DOMAIN a = 1..L /\ \A i \in 1..L : a[i] \in 0..MaxTime
      BY <2>2, ItemFacts
    <2>4. now - Window \in Int /\ Budget \in Nat
      BY <1>1, TimesAssumption DEF RateInv
    <2> HIDE DEF a, L
    <2>5. Recently = (n + 1)..L
      <3>1. \A i \in 1..L : i \in 1..n \/ i \in (n + 1)..L
        BY <2>1, <2>3
      <3>2. \A i \in (n + 1)..L : i \in 1..L
        BY <2>1, <2>3
      <3>3. \A i \in 1..n : i \in 1..L /\ ~(a[i] >= now - Window)
        <4>1. \A i \in 1..n : i \in 1..L
          BY <2>1, <2>3
        <4>2. QED
          BY <2>1, <2>3, <2>4, <4>1
      <3>4. \A i : i \in Recently <=> i \in 1..L /\ a[i] >= now - Window
        BY <2>3
      <3> HIDE DEF Recently
      <3>5. \A i : i \in Recently <=> i \in (n + 1)..L
        BY <2>1, <3>1, <3>2, <3>3, <3>4
      <3>6. QED
        BY <3>5
    <2>6. Cardinality(Recently) = L - n
      <3>1. n + 1 \in Int /\ L \in Int
        BY <2>1, <2>3
      <3>2. Cardinality((n + 1)..L) = IF n + 1 > L THEN 0 ELSE L - (n + 1) + 1
        BY <3>1, FS_Interval
      <3> HIDE DEF Recently
      <3>3. QED
        BY <2>1, <2>3, <2>5, <3>2
    <2>7. request'[r].pc = "refused" <=> ~Allows(c)
      <3>1. CASE ~Allows(c)
        <4>1. request' = [request EXCEPT ![r].pc = "refused"]
          BY <1>1, <3>1 DEF Arrive
        <4>2. QED
          BY <1>1, <3>1, <4>1 DEF Shape, RequestStates
      <3>2. CASE Allows(c)
        <4>1. \/ \E e \in cache : request' = [request EXCEPT ![r] = Served(Snapshot(e))]
              \/ request' = [request EXCEPT ![r].pc = "wait"]
          BY <1>1, <3>2 DEF Arrive
        <4>2. \A e : Served(Snapshot(e)).pc = "served"
          BY DEF Served, NoRequest
        <4>3. QED
          BY <1>1, <3>2, <4>1, <4>2 DEF Shape, RequestStates
      <3>3. QED
        BY <3>1, <3>2
    <2>8. Allows(c) <=> ~(L - n >= Budget)
      BY <2>1, <2>3, <2>4 DEF Allows
    <2>9. (request'[r].pc = "refused") <=> (Cardinality(Recently) >= Budget)
      BY <2>6, <2>7, <2>8
    <2>10. QED
      BY <2>9 DEF a
  <1>2. ASSUME RateInv, PublicInv, [Next]_vars
        PROVE  [\A r \in Requests, c \in Clients :
                   Arrive(r, c) =>
                       (request'[r].pc = "refused") =
                       (Cardinality({i \in DOMAIN admitted[c] : admitted[c][i] >= now - Window}) >= Budget)
               ]_vars
    BY <1>1, <1>2 DEF PublicInv
  <1>3. QED
    BY <1>2, RateInvHolds, PublicInvHolds, PTL DEF Spec, RateExact

(* "The dict cannot grow unbounded": after each request only clients seen    *)
(* within the window have a bucket.                                         *)
THEOREM NoIdleBucketsHolds == Spec => NoIdleBuckets
  <1>1. ASSUME RateInv, NEW r \in Requests, NEW c \in Clients, Arrive(r, c), NEW d \in DOMAIN hits'
        PROVE  \E i \in DOMAIN admitted'[d] : admitted'[d][i] >= now - Window
    <2>1. d \in Kept(hits) \cup {c} /\ d \in Clients
      BY <1>1 DEF Arrive, RateLimit, Kept, RateInv
    <2>2. SortedTimes(admitted[d]) /\ DOMAIN admitted = Clients /\ now - Window \in Int
      BY <1>1, <2>1, TimesAssumption DEF RateInv
    <2> DEFINE a == admitted[d]
    <2>3. a \in Seq(0..MaxTime) /\ Len(a) \in Nat
      BY <2>2, ItemFacts DEF SortedTimes
    <2>4. CASE admitted'[d] = Append(a, now)
      <3>1. Len(a) + 1 \in DOMAIN admitted'[d] /\ admitted'[d][Len(a) + 1] = now
        BY <1>1, <2>3, <2>4, AppendProperties DEF RateInv
      <3>2. now >= now - Window
        BY <1>1, TimesAssumption DEF RateInv
      <3>3. QED
        BY <3>1, <3>2
    <2>5. CASE admitted'[d] = a /\ (d = c => ~Allows(c))
      <3>1. PICK n \in 0..Len(a) :
              /\ Len(Bucket(d)) = Len(a) - n
              /\ \A i \in (n + 1)..Len(a) : a[i] >= now - Window
              /\ d \in Kept(hits) => n < Len(a)
        BY <1>1, <2>1, BucketFacts
      <3>2. n < Len(a)
        BY <2>1, <2>3, <2>5, <3>1, TimesAssumption DEF Allows
      <3>3. Len(a) \in DOMAIN a /\ a[Len(a)] >= now - Window
        <4>1. Len(a) \in (n + 1)..Len(a) /\ Len(a) \in 1..Len(a)
          BY <2>3, <3>1, <3>2
        <4>2. QED
          BY <2>3, <3>1, <4>1
      <3>4. QED
        BY <2>5, <3>3
    <2>6. QED
      BY <1>1, <2>1, <2>2, <2>4, <2>5 DEF Arrive
  <1>2. ASSUME RateInv, [Next]_vars
        PROVE  [\A c \in DOMAIN hits' :
                   hits' # hits => \E i \in DOMAIN admitted'[c] : admitted'[c][i] >= now - Window]_vars
    <2>1. SUFFICES ASSUME Next, hits' # hits, NEW c \in DOMAIN hits'
                   PROVE  \E i \in DOMAIN admitted'[c] : admitted'[c][i] >= now - Window
      BY <1>2
    <2>2. \E r \in Requests, d \in Clients : Arrive(r, d)
      BY <2>1 DEF Next, Work, Enter, States, Collected, Ends, Rated, Raise, Finish, StrayEnds, Invalidate, Tick
    <2>3. QED
      BY <1>1, <1>2, <2>1, <2>2
  <1>3. QED
    BY <1>2, RateInvHolds, PTL DEF Spec, NoIdleBuckets

-----------------------------------------------------------------------------
(* Type correctness. *)

AtMostOne(S) == S = {} \/ \E e : S = {e}

(* Both caches hold at most one entry; a snapshot has an account for each   *)
(* bot, already while it waits for its ratings, and the total of them; and *)
(* it is there for as long as its collection counts as not dropped.        *)
Stocked ==
    /\ AtMostOne(cache) /\ AtMostOne(technical)
    /\ \A e \in cache : e.accounts \in AccountMaps /\ e.total = Total(Shown(e.accounts))
    /\ collected = {e.at : e \in cache}
    /\ \A r \in Requests : request[r].pc = "ratings" => request[r].accounts \in AccountMaps

(* The requests that wait are in the queue, each at one place. *)
InLine ==
    /\ queue \in Seq(Requests)
    /\ \A i, j \in 1..Len(queue) : queue[i] = queue[j] => i = j
    /\ \A r \in Requests : Waits(r) <=> \E i \in 1..Len(queue) : queue[i] = r

(* A step that leaves the caches alone, of a request that is not about to   *)
(* wait for the ratings.                                                   *)
LEMMA StockKept ==
    ASSUME Stocked, UNCHANGED <<cache, technical, collected>>, NEW r \in Requests,
           \A q \in Requests \ {r} : request'[q] = request[q],
           request'[r].pc # "ratings" \/ request'[r].accounts \in AccountMaps
    PROVE  Stocked'
  BY DEF Stocked, AtMostOne

LEMMA LineKept ==
    ASSUME InLine, queue' = queue, NEW r \in Requests,
           \A q \in Requests \ {r} : request'[q] = request[q], Waits(r)' <=> Waits(r)
    PROVE  InLine'
  <1>1. \A q \in Requests : Waits(q)' <=> Waits(q)
    BY DEF Waits
  <1>2. QED
    BY <1>1 DEF InLine

LEMMA ArriveLine ==
    ASSUME PublicInv, Stocked, InLine, NEW r \in Requests, NEW c \in Clients, Arrive(r, c)
    PROVE  Stocked' /\ InLine'
  <1>1. UNCHANGED <<cache, technical, collected>> /\ ~Waits(r)
    BY DEF Arrive, Waits
  <1>2. \/ queue' = queue /\ HandsOut(r)
        \/ queue' = queue /\ request' = [request EXCEPT ![r].pc = "refused"]
        \/ queue' = Append(queue, r) /\ request' = [request EXCEPT ![r].pc = "wait"]
    BY DEF Arrive, Hit, HandsOut
  <1>3. /\ \A q \in Requests \ {r} : request'[q] = request[q]
        /\ \/ queue' = queue /\ request'[r].pc \in {"served", "refused"}
           \/ queue' = Append(queue, r) /\ request'[r].pc = "wait"
    <2>1. CASE HandsOut(r)
      BY <1>2, <2>1, HandsOutFacts DEF PublicInv, Shape, RequestStates
    <2>2. CASE ~HandsOut(r)
      BY <1>2, <2>2 DEF PublicInv, Shape, RequestStates
    <2>3. QED
      BY <2>1, <2>2
  <1>4. Stocked'
    BY <1>1, <1>3, StockKept
  <1>5. CASE queue' = queue
    <2>1. request'[r].pc # "wait"
      <3>1. queue # Append(queue, r)
        BY DEF InLine
      <3>2. QED
        BY <1>3, <1>5, <3>1
    <2>2. QED
      BY <1>1, <1>3, <1>4, <1>5, <2>1, LineKept DEF Waits
  <1>6. CASE queue' = Append(queue, r) /\ request'[r].pc = "wait"
    <2>1. /\ queue' \in Seq(Requests) /\ Len(queue') = Len(queue) + 1 /\ Len(queue) \in Nat
          /\ \A i \in 1..Len(queue) : queue'[i] = queue[i]
          /\ queue'[Len(queue) + 1] = r
      BY <1>6, AppendProperties DEF InLine
    <2>2. \A i \in 1..Len(queue) : queue[i] # r
      BY <1>1 DEF InLine
    <2>3. \A q \in Requests \ {r} : Waits(q)' <=> Waits(q)
      BY <1>3 DEF Waits
    <2>4. \A i, j \in 1..Len(queue') : queue'[i] = queue'[j] => i = j
      BY <2>1, <2>2 DEF InLine
    <2>5. \A q \in Requests : (\E i \in 1..Len(queue') : queue'[i] = q) <=>
                            q = r \/ \E i \in 1..Len(queue) : queue[i] = q
      BY <2>1
    <2>6. \A q \in Requests : Waits(q)' <=> \E i \in 1..Len(queue') : queue'[i] = q
      BY <1>6, <2>3, <2>5 DEF InLine, Waits
    <2>7. QED
      BY <1>4, <2>1, <2>4, <2>6 DEF InLine
  <1>7. QED
    BY <1>3, <1>5, <1>6

LEMMA EnterLine ==
    ASSUME PublicInv, Stocked, InLine, NEW r \in Requests, Enter(r)
    PROVE  Stocked' /\ InLine'
  <1>1. /\ UNCHANGED <<cache, technical, collected>> /\ Waits(r) /\ Head(queue) = r
        /\ queue' = Tail(queue)
    BY DEF Enter, Waits
  <1>2. /\ \A q \in Requests \ {r} : request'[q] = request[q]
        /\ request'[r].pc \in {"served", "states"}
    BY EnterFacts, HandsOutFacts, NewFacts DEF PublicInv, Shape
  <1>3. Stocked'
    BY <1>1, <1>2, StockKept
  <1> DEFINE L == Len(queue)
  <1>4. queue \in Seq(Requests) /\ L \in Nat /\ L # 0 /\ queue # << >>
    BY <1>1 DEF InLine
  <1>5. /\ queue' \in Seq(Requests) /\ Len(queue') = L - 1 /\ queue[1] = r
        /\ \A i \in 1..(L - 1) : queue'[i] = queue[i + 1]
    BY <1>1, <1>4
  <1> HIDE DEF L
  <1>6. \A i, j \in 1..L : queue[i] = queue[j] => i = j
    BY DEF InLine, L
  <1>7. \A i, j \in 1..Len(queue') : queue'[i] = queue'[j] => i = j
    <2>1. ASSUME NEW i \in 1..(L - 1), NEW j \in 1..(L - 1), queue'[i] = queue'[j]
          PROVE  i = j
      <3>1. i + 1 \in 1..L /\ j + 1 \in 1..L /\ queue[i + 1] = queue[j + 1]
        BY <1>4, <1>5, <2>1
      <3>2. i + 1 = j + 1
        BY <1>6, <3>1
      <3>3. QED
        BY <3>2
    <2>2. QED
      BY <1>5, <2>1
  <1>8. ASSUME NEW q \in Requests
        PROVE  (\E i \in 1..(L - 1) : queue'[i] = q) <=> q # r /\ \E i \in 1..L : queue[i] = q
    <2>1. ASSUME NEW i \in 1..(L - 1), queue'[i] = q
          PROVE  q # r /\ \E j \in 1..L : queue[j] = q
      <3>1. i + 1 \in 1..L /\ 1 \in 1..L /\ i + 1 # 1 /\ queue[i + 1] = q
        BY <1>4, <1>5, <2>1
      <3>2. QED
        BY <1>5, <1>6, <3>1
    <2>2. ASSUME q # r, NEW j \in 1..L, queue[j] = q
          PROVE  \E i \in 1..(L - 1) : queue'[i] = q
      <3>1. j - 1 \in 1..(L - 1) /\ (j - 1) + 1 = j
        BY <1>4, <1>5, <2>2
      <3>2. QED
        BY <1>5, <2>2, <3>1
    <2>3. QED
      BY <2>1, <2>2
  <1>9. \A q \in Requests : Waits(q)' <=> q # r /\ Waits(q)
    BY <1>2 DEF Waits
  <1>10. InLine'
    <2>1. \A q \in Requests : Waits(q)' <=> \E i \in 1..Len(queue') : queue'[i] = q
      <3>1. \A q \in Requests : Waits(q) <=> \E i \in 1..L : queue[i] = q
        BY DEF InLine, L
      <3>2. QED
        BY <1>5, <1>8, <1>9, <3>1
    <2>2. QED
      BY <1>5, <1>7, <2>1 DEF InLine
  <1>11. QED
    BY <1>3, <1>10

(* A snapshot is stored with the accounts that were collected. *)
LEMMA StoreLine ==
    ASSUME PublicInv, Stocked, InLine, NEW r \in Requests, ~Waits(r),
           NEW accounts \in AccountMaps, NEW rated, Ends(r, accounts, rated),
           technical' \in {technical, {[at |-> now]}}
    PROVE  Stocked' /\ InLine'
  <1> DEFINE e == [at |-> now, read |-> request[r].read, rated |-> rated,
                   accounts |-> accounts, total |-> Total(Shown(accounts))]
             n == Served(Snapshot(e))
  <1>1. /\ cache' = {e} /\ request' = [request EXCEPT ![r] = n] /\ queue' = queue
        /\ collected' = {now}
    BY DEF Ends, Store
  <1>2. n.pc = "served" /\ e.at = now /\ e.accounts = accounts /\ e.total = Total(Shown(accounts))
    BY DEF Served, NoRequest
  <1> HIDE DEF e, n
  <1>3. request'[r].pc = "served" /\ \A q \in Requests \ {r} : request'[q] = request[q]
    BY <1>1, <1>2 DEF PublicInv, Shape
  <1>4. Stocked'
    BY <1>1, <1>2, <1>3 DEF Stocked, AtMostOne
  <1>5. InLine'
    BY <1>1, <1>3, LineKept DEF Waits
  <1>6. QED
    BY <1>4, <1>5

LEMMA LineStep ==
    ASSUME PublicInv, Stocked, InLine, [Next]_vars
    PROVE  Stocked' /\ InLine'
  <1>1. CASE UNCHANGED vars
    <2>1. UNCHANGED <<cache, technical, collected, queue, request>>
      BY <1>1 DEF vars
    <2>2. QED
      BY <2>1 DEF Stocked, AtMostOne, InLine, Waits
  <1>2. ASSUME NEW r \in Requests, States(r)
        PROVE  Stocked' /\ InLine'
    <2>1. \E n : n.pc = "accounts" /\ Moved(r, n)
      BY <1>2, MovedFacts DEF States, PublicInv
    <2>2. /\ request'[r].pc = "accounts" /\ ~Waits(r)
          /\ \A q \in Requests \ {r} : request'[q] = request[q]
          /\ UNCHANGED <<cache, technical, collected, queue>>
      BY <1>2, <2>1 DEF Moved, States, PublicInv, Shape, Waits
    <2>3. QED
      BY <2>2, StockKept, LineKept DEF Waits
  <1>3. ASSUME NEW r \in Requests, Rated(r)
        PROVE  Stocked' /\ InLine'
    <2>1. request[r].accounts \in AccountMaps /\ ~Waits(r)
      BY <1>3 DEF Rated, Stocked, Waits
    <2>2. QED
      BY <1>3, <2>1, StoreLine DEF Rated
  <1>4. ASSUME NEW r \in Requests, Collected(r)
        PROVE  Stocked' /\ InLine'
    <2>1. PICK answered \in [Bots -> [Calls -> Fetched]] :
            LET accounts == [b \in Bots |-> Account(b \in request[r].running, answered[b])] IN
            IF Hit(technical, TechnicalTtl)
            THEN \E e \in technical : Ends(r, accounts, e.at) /\ UNCHANGED technical
            ELSE /\ request' = [request EXCEPT ![r].pc = "ratings", ![r].accounts = accounts]
                 /\ UNCHANGED <<now, hits, cache, technical, queue, lock, stray, collected, admitted, arrivals>>
      BY <1>4 DEF Collected
    <2> DEFINE accounts == [b \in Bots |-> Account(b \in request[r].running, answered[b])]
    <2>2. accounts \in AccountMaps
      BY AccountFacts
    <2>3. ~Waits(r)
      BY <1>4 DEF Collected, Waits
    <2>4. CASE Hit(technical, TechnicalTtl)
      <3>1. PICK e \in technical : Ends(r, accounts, e.at) /\ UNCHANGED technical
        BY <2>1, <2>4
      <3> HIDE DEF accounts
      <3>2. QED
        BY <2>2, <2>3, <3>1, StoreLine
    <2>5. CASE ~Hit(technical, TechnicalTtl)
      <3>1. /\ request' = [request EXCEPT ![r].pc = "ratings", ![r].accounts = accounts]
            /\ UNCHANGED <<cache, technical, collected, queue>>
        BY <2>1, <2>5
      <3> HIDE DEF accounts
      <3>2. /\ request'[r].pc = "ratings" /\ request'[r].accounts = accounts
            /\ \A q \in Requests \ {r} : request'[q] = request[q]
        BY <3>1 DEF PublicInv, Shape, RequestStates
      <3>3. QED
        BY <2>2, <2>3, <3>1, <3>2, StockKept, LineKept DEF Waits
    <2>6. QED
      BY <2>4, <2>5
  <1>5. ASSUME NEW r \in Requests, Raise(r) \/ Finish(r)
        PROVE  Stocked' /\ InLine'
    <2>1. /\ request'[r].pc \in {"failed", "idle"} /\ ~Waits(r)
          /\ \A q \in Requests \ {r} : request'[q] = request[q]
          /\ UNCHANGED <<cache, technical, collected, queue>>
      BY <1>5, NewFacts DEF Raise, Finish, Over, PublicInv, Shape, Waits
    <2>2. QED
      BY <2>1, StockKept, LineKept DEF Waits
  <1>6. CASE Invalidate
    BY <1>6 DEF Invalidate, Stocked, AtMostOne, InLine, Waits
  <1>7. CASE Tick
    BY <1>7 DEF Tick, Stocked, AtMostOne, InLine, Waits
  <1>8. ASSUME NEW t \in stray, StrayEnds(t)
        PROVE  Stocked' /\ InLine'
    BY <1>8 DEF StrayEnds, Stocked, AtMostOne, InLine, Waits
  <1>9. QED
    BY <1>1, <1>2, <1>3, <1>4, <1>5, <1>6, <1>7, <1>8, ArriveLine, EnterLine DEF Next, Work

LEMMA LineInit == Init => Stocked /\ InLine
  <1> SUFFICES ASSUME Init PROVE Stocked /\ InLine
    OBVIOUS
  <1>1. queue = << >> /\ cache = {} /\ technical = {} /\ collected = {} /\ \A r \in Requests : request[r].pc = "idle"
    BY DEF Init, NoRequest
  <1>2. QED
    BY <1>1 DEF Stocked, AtMostOne, InLine, Waits

LEMMA LineHolds == Spec => [](Stocked /\ InLine)
  BY LineInit, LineStep, PublicInvHolds, PTL DEF Spec

(* Type correctness; no bucket outgrows the budget, and what is cached or    *)
(* handed out has its ages within the clock.                                *)
THEOREM TypeCorrect == Spec => []TypeOK
  <1>1. Spec => [](Stocked /\ InLine)
    BY LineHolds
  <1>2. PublicInv /\ RateInv /\ Stocked /\ InLine => TypeOK
    <2> SUFFICES ASSUME PublicInv, RateInv, Stocked, InLine PROVE TypeOK
      OBVIOUS
    <2>1. \A S : AtMostOne(S) => Cardinality(S) <= 1
      <3>1. Cardinality({}) = 0 /\ \A e : Cardinality({e}) = 1
        BY FS_EmptySet, FS_Singleton
      <3>2. ASSUME NEW S, AtMostOne(S)
            PROVE  Cardinality(S) = 0 \/ Cardinality(S) = 1
        BY <3>1, <3>2, Zenon DEF AtMostOne
      <3>3. 0 <= 1 /\ 1 <= 1
        OBVIOUS
      <3>4. QED
        BY <3>2, <3>3
    <2>2. ASSUME NEW e \in cache
          PROVE  Snapshot(e) \subseteq Payloads /\ e.accounts \in [Bots -> Accounts]
      <3>1. now - e.read \in 0..MaxTime /\ now - e.rated \in 0..MaxTime
        BY TimesAssumption DEF PublicInv, Shape, Ages
      <3>2. QED
        BY <3>1 DEF Snapshot, Payloads, Stocked, AccountMaps
    <2>3. lock \in Requests \cup {NoOne} /\ now \in 0..MaxTime
      BY DEF PublicInv, LockHeld, Shape
    <2>4. \A r \in Requests : request[r].payload \subseteq Payloads
      BY DEF PublicInv, Shape, RequestStates
    <2>5. DOMAIN hits \subseteq Clients /\ \A c \in DOMAIN hits : Len(hits[c]) <= Budget
      BY DEF RateInv
    <2>6. stray \subseteq 0..MaxTime /\ collected \subseteq 0..MaxTime
      <3>1. \A t \in 0..now : t \in 0..MaxTime
        BY TimesAssumption DEF PublicInv, Shape
      <3>2. stray \subseteq 0..now /\ \A e \in cache : e.at \in 0..now
        BY DEF PublicInv, Ages
      <3>3. collected = {e.at : e \in cache}
        BY DEF Stocked
      <3>4. QED
        BY <3>1, <3>2, <3>3
    <2>7. QED
      BY <2>1, <2>2, <2>3, <2>4, <2>5, <2>6 DEF TypeOK, Stocked, InLine
  <1>3. QED
    BY <1>1, <1>2, PublicInvHolds, RateInvHolds, PTL

-----------------------------------------------------------------------------
(* One fan-out for a burst, and a page that can be served. *)

(* "A burst of anonymous requests collapses into a single fan-out": nobody   *)
(* begins to collect within a time to live of the last collection that     *)
(* succeeded, unless what it found was dropped since.                      *)
THEOREM BurstSharesOneHolds == Spec => BurstSharesOne
  <1>1. ASSUME PublicInv, Stocked, Next, NEW r \in Requests, Collecting(r)', ~Collecting(r)
        PROVE  \A t \in collected : now - t >= Ttl
    <2> USE <1>1 DEF PublicInv
    <2>1. ASSUME NEW s \in Requests, NEW c \in Clients, Arrive(s, c)
          PROVE  FALSE
      <3>1. HandsOut(s) \/ \E pc \in {"wait", "refused"} : \E n : n.pc = pc /\ Moved(s, n)
        BY <2>1, ArriveFacts, MovedFacts
      <3>2. /\ \A q \in Requests \ {s} : request'[q] = request[q]
            /\ request'[s].pc \in {"wait", "refused", "served"}
        BY <3>1, HandsOutFacts DEF Moved, Shape
      <3>3. QED
        BY <3>2 DEF Collecting
    <2>2. ASSUME NEW s \in Requests, Enter(s)
          PROVE  \A t \in collected : now - t >= Ttl
      <3>1. ~Hit(cache, Ttl)
        <4>1. SUFFICES ASSUME Hit(cache, Ttl) PROVE FALSE
          OBVIOUS
        <4>2. HandsOut(s)
          BY <2>2, <4>1 DEF Enter, Filled, Hit, HandsOut
        <4>3. /\ \A q \in Requests \ {s} : request'[q] = request[q]
              /\ request'[s].pc = "served"
          BY <4>2, HandsOutFacts
        <4>4. QED
          BY <4>3 DEF Collecting
      <3>2. \A e \in cache : now - e.at >= Ttl
        <4>1. TAKE e \in cache
        <4>2. cache = {e}
          BY DEF Stocked, AtMostOne
        <4>3. ~(now - e.at < Ttl)
          BY <3>1, <4>2 DEF Hit
        <4>4. now - e.at \in Int /\ Ttl \in Int
          BY TimesAssumption DEF Shape, Ages
        <4>5. QED
          BY <4>3, <4>4
      <3>3. QED
        BY <3>2 DEF Stocked
    <2>3. ASSUME NEW s \in Requests, States(s) \/ Collected(s) \/ Rated(s)
          PROVE  FALSE
      <3>1. Collecting(s) /\ r # s
        BY <2>3 DEF States, Collected, Rated, Collecting
      <3>2. request'[r] = request[r]
        BY <2>3, <3>1, CollectedFacts, StoreFacts, MovedFacts
           DEF States, AwaitsRatings, StoresRated, Moved, Shape
      <3>3. QED
        BY <3>2 DEF Collecting
    <2>4. ASSUME NEW s \in Requests, Raise(s) \/ Finish(s)
          PROVE  FALSE
      <3>1. /\ \A q \in Requests \ {s} : request'[q] = request[q]
            /\ request'[s].pc \in {"failed", "idle"}
        BY <2>4, NewFacts DEF Raise, Finish, Shape
      <3>2. QED
        BY <3>1 DEF Collecting
    <2>5. CASE (\E t \in stray : StrayEnds(t)) \/ Invalidate \/ Tick
      BY <2>5 DEF StrayEnds, Invalidate, Tick, Collecting
    <2>6. QED
      BY <2>1, <2>2, <2>3, <2>4, <2>5 DEF Next, Work
  <1>2. ASSUME PublicInv, Stocked, [Next]_vars
        PROVE  [\A r \in Requests :
                   Collecting(r)' /\ ~Collecting(r) => \A t \in collected : now - t >= Ttl]_vars
    BY <1>1, <1>2
  <1>3. QED
    BY <1>2, PublicInvHolds, LineHolds, PTL DEF Spec, BurstSharesOne

(* What is shown of one call is what the schema admits, whatever the bot     *)
(* answered it.                                                            *)
LEMMA LiveFacts ==
    ASSUME NEW k, NEW a \in AnswerRecords
    PROVE  LiveBlock(k, a) \subseteq Schema(k) /\ EmptyLive(k) \subseteq Schema(k)
  <1>1. Num(a.number) \in {"float", "null"}
    BY DEF Num
  <1>2. Count(a.count) \in {"int", "null"} /\ RowCount(a.count) \in {"int"}
    BY DEF Count, RowCount
  <1>3. Str(a.text) \in {"str", "null"}
    BY DEF Str
  <1>4. QED
    BY <1>1, <1>2, <1>3 DEF LiveBlock, EmptyLive, Schema

LEMMA AccountSchema ==
    ASSUME NEW account \in Accounts, NEW k \in Calls
    PROVE  account.live[k] \subseteq Schema(k)
  <1>1. PICK running \in BOOLEAN, answered \in [Calls -> Fetched] : account = Account(running, answered)
    BY DEF Accounts
  <1>2. account.live[k] = IF running /\ answered[k] # {}
                          THEN UNION {LiveBlock(k, a) : a \in answered[k]}
                          ELSE EmptyLive(k)
    BY <1>1 DEF Account
  <1>3. \A a \in answered[k] : a \in AnswerRecords
    BY CallsAssumption DEF Fetched
  <1>4. EmptyLive(k) \subseteq Schema(k)
    BY DEF EmptyLive, Schema
  <1>5. \A a \in answered[k] : LiveBlock(k, a) \subseteq Schema(k)
    BY <1>3, LiveFacts
  <1>6. QED
    BY <1>2, <1>4, <1>5

(* "A bot being down is not an error", nor is what a bot may answer: every   *)
(* page that is stored is one the response schema admits and JSON carries. *)
THEOREM ServableHolds == Spec => []Servable
  <1>1. Stocked => Servable
    <2> SUFFICES ASSUME Stocked, NEW e \in cache
                 PROVE  /\ e.total = "float"
                        /\ \A b \in Bots, k \in Calls : e.accounts[b].live[k] \subseteq Schema(k)
      BY DEF Servable
    <2>1. \A b \in Bots, k \in Calls : e.accounts[b].live[k] \subseteq Schema(k)
      <3>1. \A b \in Bots : e.accounts[b] \in Accounts
        BY DEF Stocked, AccountMaps
      <3>2. QED
        BY <3>1, AccountSchema
    <2>2. \A s \in Shown(e.accounts) : s.number \in {"float", "null"}
      <3>1. TAKE s \in Shown(e.accounts)
      <3>2. DOMAIN e.accounts = Bots
        BY DEF Stocked, AccountMaps
      <3>3. PICK b \in Bots, k \in Calls : s \in e.accounts[b].live[k]
        BY <3>2 DEF Shown
      <3>4. s \in Schema(k)
        BY <2>1, <3>3
      <3>5. QED
        BY <3>4 DEF Schema
    <2>3. e.total = "float"
      <3>1. e.total = Total(Shown(e.accounts))
        BY DEF Stocked
      <3>2. QED
        BY <2>2, <3>1 DEF Total
    <2>4. QED
      BY <2>1, <2>3
  <1>2. QED
    BY <1>1, LineHolds, PTL

=============================================================================
