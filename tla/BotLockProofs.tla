---------------------------- MODULE BotLockProofs ----------------------------
(***************************************************************************)
(* Proofs about BotLock, for any tasks and any lock objects: the registry  *)
(* of weak references and the asyncio.Lock objects behind it are one       *)
(* mutual exclusion.                                                       *)
(***************************************************************************)
EXTENDS BotLock, SequenceTheorems, TLAPS

-----------------------------------------------------------------------------
(* Queues. *)

LEMMA RemoveAtFacts ==
    ASSUME NEW S, NEW s \in Seq(S), NEW i \in 1..Len(s)
    PROVE  LET r == RemoveAt(s, i) IN
           /\ r \in Seq(S) /\ Len(r) = Len(s) - 1
           /\ \A j \in 1..Len(r) : r[j] = IF j < i THEN s[j] ELSE s[j + 1]
  <1> DEFINE a == SubSeq(s, 1, i - 1)
             b == SubSeq(s, i + 1, Len(s))
  <1>1. Len(s) \in Nat /\ \A j \in 1..Len(s) : s[j] \in S
    OBVIOUS
  <1>2. /\ a \in Seq(S) /\ Len(a) = i - 1
        /\ \A j \in 1..(i - 1) : a[j] = s[j]
    <2>1. 1 \in Int /\ i - 1 \in Int /\ \A j \in 1..(i - 1) : s[j] \in S
      BY <1>1
    <2>2. /\ a \in Seq(S) /\ Len(a) = IF 1 <= i - 1 THEN (i - 1) - 1 + 1 ELSE 0
          /\ \A j \in 1..((i - 1) - 1 + 1) : a[j] = s[1 + j - 1]
      BY <2>1, SubSeqProperties
    <2> HIDE DEF a
    <2>3. QED
      BY <1>1, <2>2
  <1>3. /\ b \in Seq(S) /\ Len(b) = Len(s) - i
        /\ \A j \in 1..(Len(s) - i) : b[j] = s[i + j]
    <2>1. i + 1 \in Int /\ Len(s) \in Int /\ \A j \in (i + 1)..Len(s) : s[j] \in S
      BY <1>1
    <2>2. /\ b \in Seq(S) /\ Len(b) = IF i + 1 <= Len(s) THEN Len(s) - (i + 1) + 1 ELSE 0
          /\ \A j \in 1..(Len(s) - (i + 1) + 1) : b[j] = s[(i + 1) + j - 1]
      BY <2>1, SubSeqProperties
    <2> HIDE DEF b
    <2>3. QED
      BY <1>1, <2>2
  <1>4. RemoveAt(s, i) = a \o b
    BY DEF RemoveAt
  <1> HIDE DEF a, b
  <1>5. /\ a \o b \in Seq(S) /\ Len(a \o b) = Len(a) + Len(b)
        /\ \A j \in 1..(Len(a) + Len(b)) : (a \o b)[j] = IF j <= Len(a) THEN a[j] ELSE b[j - Len(a)]
    BY <1>2, <1>3, ConcatProperties
  <1> DEFINE r == a \o b
  <1> HIDE DEF r
  <1>6. /\ r \in Seq(S) /\ Len(r) = Len(s) - 1
        /\ \A j \in 1..Len(r) : r[j] = IF j < i THEN s[j] ELSE s[j + 1]
    BY <1>1, <1>2, <1>3, <1>5 DEF r
  <1>7. QED
    BY <1>4, <1>6 DEF r

Distinct(s) == \A i, j \in 1..Len(s) : s[i] = s[j] => i = j

(* A task leaves its place in a queue. *)
LEMMA WithoutFacts ==
    ASSUME NEW s \in Seq(Tasks), Distinct(s), NEW t \in Tasks, Contains(s, t)
    PROVE  LET r == Without(s, t) IN
           /\ r \in Seq(Tasks) /\ Distinct(r)
           /\ \A u : Contains(r, u) <=> Contains(s, u) /\ u # t
           /\ \A u : Contains(r, u) /\ s[1] = u => r[1] = u
  <1> DEFINE i == CHOOSE x \in DOMAIN s : s[x] = t
             r == RemoveAt(s, i)
  <1>1. i \in 1..Len(s) /\ s[i] = t
    BY DEF Contains
  <1>2. Without(s, t) = r
    BY DEF Without
  <1> HIDE DEF i
  <1>3. /\ r \in Seq(Tasks) /\ Len(r) = Len(s) - 1
        /\ \A j \in 1..Len(r) : r[j] = IF j < i THEN s[j] ELSE s[j + 1]
    BY <1>1, RemoveAtFacts
  <1> HIDE DEF r
  <1>4. Len(s) \in Nat /\ Len(r) \in Nat
    BY <1>3
  <1>5. \A j \in 1..Len(r) : \E x \in 1..Len(s) :
           r[j] = s[x] /\ x # i /\ x = IF j < i THEN j ELSE j + 1
    BY <1>1, <1>3, <1>4
  <1>6. \A x \in 1..Len(s) \ {i} : \E j \in 1..Len(r) : r[j] = s[x] /\ (x = 1 => j = 1)
    <2>1. ASSUME NEW x \in 1..Len(s) \ {i}, x < i
          PROVE  x \in 1..Len(r) /\ r[x] = s[x]
      BY <1>1, <1>3, <1>4, <2>1
    <2>2. ASSUME NEW x \in 1..Len(s) \ {i}, ~(x < i)
          PROVE  x - 1 \in 1..Len(r) /\ r[x - 1] = s[x] /\ x # 1
      BY <1>1, <1>3, <1>4, <2>2
    <2>3. QED
      BY <2>1, <2>2
  <1>7. Distinct(r)
    BY <1>1, <1>4, <1>5 DEF Distinct
  <1>8. \A u : Contains(r, u) <=> Contains(s, u) /\ u # t
    <2>1. ASSUME NEW u, Contains(r, u)
          PROVE  Contains(s, u) /\ u # t
      BY <1>1, <1>5, <2>1 DEF Contains, Distinct
    <2>2. ASSUME NEW u, Contains(s, u), u # t
          PROVE  Contains(r, u)
      BY <1>1, <1>6, <2>2 DEF Contains
    <2>3. QED
      BY <2>1, <2>2
  <1>9. ASSUME NEW u, Contains(r, u), s[1] = u
        PROVE  r[1] = u
    <2>1. 1 \in 1..Len(s) /\ i # 1
      BY <1>1, <1>4, <1>8, <1>9
    <2>2. QED
      BY <1>6, <1>9, <2>1
  <1>10. QED
    BY <1>2, <1>3, <1>7, <1>8, <1>9

(* A task comes to wait. *)
LEMMA AppendFacts ==
    ASSUME NEW s \in Seq(Tasks), Distinct(s), NEW t \in Tasks, ~Contains(s, t)
    PROVE  LET r == Append(s, t) IN
           /\ r \in Seq(Tasks) /\ Distinct(r)
           /\ \A u : Contains(r, u) <=> Contains(s, u) \/ u = t
           /\ \A u : Contains(s, u) => r[1] = s[1]
  <1> DEFINE r == Append(s, t)
  <1>1. /\ r \in Seq(Tasks) /\ Len(r) = Len(s) + 1 /\ Len(s) \in Nat
        /\ \A i \in 1..Len(s) : r[i] = s[i]
        /\ r[Len(s) + 1] = t
    BY AppendProperties
  <1> HIDE DEF r
  <1>2. Distinct(r)
    BY <1>1 DEF Distinct, Contains
  <1>3. \A u : Contains(r, u) <=> Contains(s, u) \/ u = t
    BY <1>1 DEF Contains
  <1>4. \A u : Contains(s, u) => r[1] = s[1]
    BY <1>1 DEF Contains
  <1>5. QED
    BY <1>1, <1>2, <1>3, <1>4 DEF r

-----------------------------------------------------------------------------
(* The inductive invariant.  The clauses of LockInv, with what they rest   *)
(* on: a task waits in the queue of the object it was handed, at one       *)
(* place, only a waiting task can be cancelled, and at most one is inside. *)

HandedRegistered == \A t \in Tasks : ref[t] # NoLock => ref[t] = registered

WaitsOnce ==
    \A k \in Locks : Distinct(queue[k]) /\ \A t \in Tasks : Contains(queue[k], t) => ref[t] = k

DoomedWait == \A t \in doomed : Queued(t)

HeldInside == \A k \in Locks : held[k] <=> \E t \in Inside : ref[t] = k

OneInside == \A t, u \in Inside : t = u

FirstWoken ==
    \A k \in Locks, t \in Tasks :
        Contains(queue[k], t) /\ wakeup[t] = "result" => queue[k][1] = t /\ ~held[k]

IInv == TypeOK /\ HandedRegistered /\ WaitsOnce /\ DoomedWait /\ HeldInside /\ OneInside /\ FirstWoken

Turn == [Exclusion!Next]_(Exclusion!vars)

Waiters == {t \in Tasks : Queued(t)}

LEMMA QueuedFacts ==
    ASSUME IInv, NEW t \in Tasks
    PROVE  /\ Queued(t) => ref[t] \in Locks /\ ref[t] # NoLock /\ Contains(queue[ref[t]], t)
           /\ ref[t] = NoLock => \A k \in Locks : ~Contains(queue[k], t)
  BY LocksAssumption DEF IInv, WaitsOnce, Queued, TypeOK

(* Somebody inside holds the registered object. *)
LEMMA InsideFacts ==
    ASSUME IInv, NEW t \in Inside
    PROVE  ref[t] = registered /\ ref[t] \in Locks /\ held[ref[t]] /\ Inside = {t}
  BY DEF IInv, HandedRegistered, HeldInside, OneInside, Inside, TypeOK

LEMMA EnterTurn ==
    ASSUME NEW t \in Tasks, Inside = {}, Inside' = {t}, Waiters' = Waiters \ {t}
    PROVE  Turn
  BY DEF Turn, Exclusion!Next, Exclusion!Enter, Waiters

LEMMA AskTurn ==
    ASSUME NEW t \in Tasks, Inside' = Inside, Waiters' = Waiters \cup {t}
    PROVE  Turn
  BY DEF Turn, Exclusion!Next, Exclusion!Ask, Waiters

LEMMA WithdrawTurn ==
    ASSUME NEW t \in Tasks, Inside' = Inside, Waiters' = Waiters \ {t}
    PROVE  Turn
  BY DEF Turn, Exclusion!Next, Exclusion!Withdraw, Waiters

LEMMA LeaveTurn ==
    ASSUME NEW t \in Inside, Inside' = Inside \ {t}, Waiters' = Waiters
    PROVE  Turn
  BY DEF Turn, Exclusion!Next, Exclusion!Leave, Waiters, Inside

LEMMA SameTurn ==
    ASSUME Inside' = Inside, Waiters' = Waiters
    PROVE  Turn
  BY DEF Turn, Exclusion!vars, Waiters

-----------------------------------------------------------------------------
(* Each step keeps the invariant and is a step of Mutex. *)

(* The object a task that commands the bot is handed is the registered one, *)
(* or one nobody has.                                                      *)
LEMMA HandedFacts ==
    ASSUME IInv, NEW k \in Handed
    PROVE  /\ k \in Locks /\ k # NoLock
           /\ \A t \in Tasks : ref[t] # NoLock => ref[t] = k
           /\ registered # NoLock => k = registered
           /\ ~held[k] => Inside = {}
  <1>1. k \in Locks /\ k # NoLock
    BY LocksAssumption DEF Handed, IInv, TypeOK
  <1>2. \A t \in Tasks : ref[t] # NoLock => ref[t] = k
    BY DEF Handed, IInv, HandedRegistered
  <1>3. ~held[k] => Inside = {}
    BY <1>2, InsideFacts DEF Inside
  <1>4. QED
    BY <1>1, <1>2, <1>3 DEF Handed

LEMMA AcquireStep ==
    ASSUME IInv, NEW t \in Tasks, Acquire(t)
    PROVE  IInv' /\ Turn
  <1>1. PICK k \in Handed :
           /\ registered' = k
           /\ ref' = [ref EXCEPT ![t] = k]
           /\ IF Free(k)
              THEN held' = [held EXCEPT ![k] = TRUE] /\ UNCHANGED <<queue, wakeup>>
              ELSE /\ queue' = [queue EXCEPT ![k] = Append(@, t)]
                   /\ wakeup' = [wakeup EXCEPT ![t] = "pending"]
                   /\ UNCHANGED held
    BY DEF Acquire
  <1>2. ref[t] = NoLock /\ doomed' = doomed
    BY DEF Acquire
  <1>3. /\ k \in Locks /\ k # NoLock
        /\ \A u \in Tasks : ref[u] # NoLock => ref[u] = k
        /\ ~held[k] => Inside = {}
    BY HandedFacts
  <1>4. /\ ref' \in [Tasks -> Locks \cup {NoLock}] /\ ref'[t] = k
        /\ \A u \in Tasks \ {t} : ref'[u] = ref[u]
    BY <1>1, <1>3 DEF IInv, TypeOK
  <1>5. HandedRegistered'
    BY <1>1, <1>3, <1>4 DEF HandedRegistered
  <1>6. \A l \in Locks : ~Contains(queue[l], t)
    BY <1>2, QueuedFacts
  <1>7. CASE Free(k)
    <2>1. /\ held' \in [Locks -> BOOLEAN] /\ held'[k] = TRUE
          /\ \A l \in Locks \ {k} : held'[l] = held[l]
          /\ queue' = queue /\ wakeup' = wakeup
      BY <1>1, <1>3, <1>7 DEF IInv, TypeOK
    <2>2. Inside = {}
      BY <1>3, <1>7 DEF Free
    <2>3. \A u \in Tasks : Queued(u)' <=> Queued(u)
      BY <2>1 DEF Queued
    <2>4. ~Queued(t)
      BY <1>6 DEF Queued
    <2>5. Inside' = {t}
      BY <1>3, <1>4, <2>2, <2>3, <2>4 DEF Inside
    <2>6. Waiters' = Waiters \ {t}
      BY <2>3, <2>4 DEF Waiters
    <2>7. TypeOK'
      BY <1>1, <1>2, <1>3, <1>4, <2>1 DEF IInv, TypeOK
    <2>8. WaitsOnce'
      BY <1>4, <1>6, <2>1 DEF IInv, WaitsOnce
    <2>9. DoomedWait'
      BY <1>2, <2>3 DEF IInv, DoomedWait, TypeOK
    <2>10. HeldInside'
      BY <1>4, <2>1, <2>2, <2>5 DEF IInv, HeldInside
    <2>11. OneInside'
      BY <2>5 DEF OneInside
    <2>12. \A u \in Tasks : Contains(queue[k], u) => wakeup[u] = "cancelled"
      BY <1>7 DEF Free, Contains
    <2>13. FirstWoken'
      BY <2>1, <2>12 DEF IInv, FirstWoken
    <2>14. QED
      BY <1>5, <2>2, <2>5, <2>6, <2>7, <2>8, <2>9, <2>10, <2>11, <2>13, EnterTurn DEF IInv
  <1>8. CASE ~Free(k)
    <2>1. /\ queue' = [queue EXCEPT ![k] = Append(queue[k], t)]
          /\ wakeup' = [wakeup EXCEPT ![t] = "pending"] /\ held' = held
      BY <1>1, <1>8
    <2>2. queue[k] \in Seq(Tasks) /\ Distinct(queue[k]) /\ ~Contains(queue[k], t)
      BY <1>3, <1>6 DEF IInv, TypeOK, WaitsOnce
    <2> DEFINE r == Append(queue[k], t)
    <2>3. /\ r \in Seq(Tasks) /\ Distinct(r)
          /\ \A u : Contains(r, u) <=> Contains(queue[k], u) \/ u = t
          /\ \A u : Contains(queue[k], u) => r[1] = queue[k][1]
      BY <2>2, AppendFacts
    <2> HIDE DEF r
    <2>4. queue' \in [Locks -> Seq(Tasks)] /\ queue'[k] = r
          /\ \A l \in Locks \ {k} : queue'[l] = queue[l]
      BY <1>3, <2>1, <2>3 DEF IInv, TypeOK, r
    <2>5. /\ wakeup' \in [Tasks -> {"pending", "result", "cancelled"}] /\ wakeup'[t] = "pending"
          /\ \A u \in Tasks \ {t} : wakeup'[u] = wakeup[u]
      BY <2>1 DEF IInv, TypeOK
    <2>6. \A u \in Tasks : Queued(u)' <=> Queued(u) \/ u = t
      BY <1>3, <2>3, <2>4 DEF Queued
    <2>7. Inside' = Inside
      BY <1>2, <1>4, <2>6 DEF Inside
    <2>8. Waiters' = Waiters \cup {t}
      BY <2>6 DEF Waiters
    <2>9. TypeOK'
      BY <1>1, <1>2, <1>3, <1>4, <2>1, <2>4, <2>5 DEF IInv, TypeOK
    <2>10. WaitsOnce'
      BY <1>2, <1>3, <1>4, <1>6, <2>3, <2>4 DEF IInv, WaitsOnce
    <2>11. DoomedWait'
      BY <1>2, <2>6 DEF IInv, DoomedWait, TypeOK
    <2>12. HeldInside'
      BY <1>4, <2>1, <2>7, <1>2 DEF IInv, HeldInside, Inside
    <2>13. OneInside'
      BY <2>7 DEF IInv, OneInside
    <2>14. FirstWoken'
      <3>1. SUFFICES ASSUME NEW l \in Locks, NEW u \in Tasks, Contains(queue'[l], u),
                            wakeup'[u] = "result"
                     PROVE  queue'[l][1] = u /\ ~held[l]
        BY <2>1 DEF FirstWoken
      <3>2. u # t /\ wakeup[u] = "result"
        BY <2>5, <3>1
      <3>3. CASE l = k
        <4>1. Contains(queue[k], u)
          BY <2>3, <2>4, <3>1, <3>2, <3>3
        <4>2. queue[k][1] = u /\ ~held[k]
          BY <1>3, <3>2, <4>1 DEF IInv, FirstWoken
        <4>3. QED
          BY <2>3, <2>4, <3>3, <4>1, <4>2
      <3>4. CASE l # k
        <4>1. queue'[l] = queue[l]
          BY <2>4, <3>4
        <4>2. QED
          BY <3>1, <3>2, <4>1 DEF IInv, FirstWoken
      <3>5. QED
        BY <3>3, <3>4
    <2>15. QED
      BY <1>5, <2>7, <2>8, <2>9, <2>10, <2>11, <2>12, <2>13, <2>14, AskTurn DEF IInv
  <1>9. QED
    BY <1>7, <1>8

(* What is left of the queues when t leaves the one it waits in. *)
LEMMA LeavesQueue ==
    ASSUME IInv, NEW t \in Tasks, Queued(t),
           queue' = [queue EXCEPT ![ref[t]] = Without(queue[ref[t]], t)]
    PROVE  /\ queue' \in [Locks -> Seq(Tasks)]
           /\ \A l \in Locks : Distinct(queue'[l])
           /\ \A l \in Locks, u \in Tasks : Contains(queue'[l], u) <=> Contains(queue[l], u) /\ u # t
           /\ \A l \in Locks, u \in Tasks :
                 Contains(queue'[l], u) /\ queue[l][1] = u => queue'[l][1] = u
           /\ \A u \in Tasks : Queued(u)' <=> Queued(u) /\ u # t
           /\ Waiters' = Waiters \ {t}
  <1> DEFINE k == ref[t]
             r == Without(queue[k], t)
  <1>1. k \in Locks /\ Contains(queue[k], t)
    BY QueuedFacts
  <1>2. queue[k] \in Seq(Tasks) /\ Distinct(queue[k])
    BY <1>1 DEF IInv, TypeOK, WaitsOnce
  <1>3. /\ r \in Seq(Tasks) /\ Distinct(r)
        /\ \A u : Contains(r, u) <=> Contains(queue[k], u) /\ u # t
        /\ \A u : Contains(r, u) /\ queue[k][1] = u => r[1] = u
    BY <1>1, <1>2, WithoutFacts
  <1>4. \A l \in Locks \ {k} : ~Contains(queue[l], t)
    BY <1>1 DEF IInv, WaitsOnce
  <1> HIDE DEF r
  <1>5. queue' \in [Locks -> Seq(Tasks)] /\ queue'[k] = r
        /\ \A l \in Locks \ {k} : queue'[l] = queue[l]
    BY <1>1, <1>3 DEF IInv, TypeOK, r
  <1> HIDE DEF k
  <1>6. \A l \in Locks, u \in Tasks : Contains(queue'[l], u) <=> Contains(queue[l], u) /\ u # t
    BY <1>3, <1>4, <1>5
  <1>7. \A u \in Tasks : Queued(u)' <=> Queued(u) /\ u # t
    BY <1>6 DEF Queued
  <1>8. \A l \in Locks : Distinct(queue'[l])
    BY <1>3, <1>5 DEF IInv, WaitsOnce
  <1>9. \A l \in Locks, u \in Tasks : Contains(queue'[l], u) /\ queue[l][1] = u => queue'[l][1] = u
    BY <1>3, <1>5
  <1>10. QED
    BY <1>5, <1>6, <1>7, <1>8, <1>9 DEF Waiters

LEMMA ResumeStep ==
    ASSUME IInv, NEW t \in Tasks, Resume(t)
    PROVE  IInv' /\ Turn
  <1> DEFINE k == ref[t]
  <1>1. /\ Queued(t) /\ wakeup[t] = "result" /\ t \notin doomed
        /\ queue' = [queue EXCEPT ![k] = Without(queue[k], t)]
        /\ held' = [held EXCEPT ![k] = TRUE]
        /\ UNCHANGED <<registered, wakeup, ref, doomed>>
    BY DEF Resume
  <1>2. k \in Locks /\ k # NoLock /\ Contains(queue[k], t)
    BY <1>1, QueuedFacts
  <1>3. queue[k][1] = t /\ ~held[k]
    BY <1>1, <1>2 DEF IInv, FirstWoken
  <1>4. Inside = {}
    <2>1. \A u \in Inside : ref[u] = k
      BY <1>2, InsideFacts DEF IInv, HandedRegistered
    <2>2. QED
      BY <1>3, <2>1, InsideFacts
  <1>5. /\ queue' \in [Locks -> Seq(Tasks)]
        /\ \A l \in Locks : Distinct(queue'[l])
        /\ \A l \in Locks, u \in Tasks : Contains(queue'[l], u) <=> Contains(queue[l], u) /\ u # t
        /\ \A l \in Locks, u \in Tasks :
              Contains(queue'[l], u) /\ queue[l][1] = u => queue'[l][1] = u
        /\ \A u \in Tasks : Queued(u)' <=> Queued(u) /\ u # t
        /\ Waiters' = Waiters \ {t}
    BY <1>1, LeavesQueue
  <1> HIDE DEF k
  <1>6. /\ held' \in [Locks -> BOOLEAN] /\ held'[k] = TRUE
        /\ \A l \in Locks \ {k} : held'[l] = held[l]
    BY <1>1, <1>2 DEF IInv, TypeOK
  <1>7. Inside' = {t}
    BY <1>1, <1>2, <1>4, <1>5 DEF Inside, k
  <1>8. TypeOK'
    BY <1>1, <1>5, <1>6 DEF IInv, TypeOK
  <1>9. WaitsOnce' /\ HandedRegistered'
    BY <1>1, <1>5 DEF IInv, WaitsOnce, HandedRegistered
  <1>10. DoomedWait'
    BY <1>1, <1>5 DEF IInv, DoomedWait, TypeOK
  <1>11. HeldInside'
    BY <1>1, <1>4, <1>6, <1>7 DEF IInv, HeldInside, k
  <1>12. OneInside'
    BY <1>7 DEF OneInside
  <1>13. FirstWoken'
    BY <1>1, <1>3, <1>5, <1>6 DEF IInv, FirstWoken
  <1>14. QED
    BY <1>4, <1>5, <1>7, <1>8, <1>9, <1>10, <1>11, <1>12, <1>13, EnterTurn DEF IInv

LEMMA CancelStep ==
    ASSUME IInv, NEW t \in Tasks, Cancel(t)
    PROVE  IInv' /\ Turn
  <1>1. /\ Queued(t) /\ doomed' = doomed \cup {t}
        /\ UNCHANGED <<registered, held, queue, ref>>
    BY DEF Cancel
  <1>2. /\ wakeup' \in [Tasks -> {"pending", "result", "cancelled"}]
        /\ \A u \in Tasks : wakeup'[u] = "result" => wakeup[u] = "result"
    BY DEF Cancel, IInv, TypeOK
  <1>3. \A u \in Tasks : Queued(u)' <=> Queued(u)
    BY <1>1 DEF Queued
  <1>4. Inside' = Inside /\ Waiters' = Waiters
    BY <1>1, <1>3 DEF Inside, Waiters
  <1>5. TypeOK' /\ HandedRegistered' /\ WaitsOnce'
    BY <1>1, <1>2 DEF IInv, TypeOK, HandedRegistered, WaitsOnce
  <1>6. DoomedWait'
    BY <1>1, <1>3 DEF IInv, DoomedWait, TypeOK
  <1>7. HeldInside' /\ OneInside'
    BY <1>1, <1>4 DEF IInv, HeldInside, OneInside
  <1>8. FirstWoken'
    BY <1>1, <1>2 DEF IInv, FirstWoken
  <1>9. QED
    BY <1>4, <1>5, <1>6, <1>7, <1>8, SameTurn DEF IInv

(* The futures after _wake_up_first: only the first waiter may be woken.   *)
LEMMA WakeFacts ==
    ASSUME NEW k, NEW s \in Seq(Tasks), NEW f \in [Tasks -> {"pending", "result", "cancelled"}],
           NEW g, g = WakeFirst(k, s, f)
    PROVE  /\ g \in [Tasks -> {"pending", "result", "cancelled"}]
           /\ \A u \in Tasks : g[u] = "result" =>
                 f[u] = "result" \/ (s # <<>> /\ s[1] = u)
  <1>1. s # <<>> => Head(s) = s[1] /\ s[1] \in Tasks
    OBVIOUS
  <1>2. QED
    BY <1>1 DEF WakeFirst

LEMMA UnwindStep ==
    ASSUME IInv, NEW t \in Tasks, Unwind(t)
    PROVE  IInv' /\ Turn
  <1> DEFINE k == ref[t]
  <1>1. /\ t \in doomed
        /\ queue' = [queue EXCEPT ![k] = Without(queue[k], t)]
        /\ wakeup' = IF held[k] THEN wakeup ELSE WakeFirst(k, Without(queue[k], t), wakeup)
        /\ ref' = [ref EXCEPT ![t] = NoLock]
        /\ doomed' = doomed \ {t}
        /\ UNCHANGED <<registered, held>>
    BY DEF Unwind
  <1>2. Queued(t)
    BY <1>1 DEF IInv, DoomedWait
  <1>3. k \in Locks /\ k # NoLock /\ Contains(queue[k], t)
    BY <1>2, QueuedFacts
  <1>4. /\ queue' \in [Locks -> Seq(Tasks)]
        /\ \A l \in Locks : Distinct(queue'[l])
        /\ \A l \in Locks, u \in Tasks : Contains(queue'[l], u) <=> Contains(queue[l], u) /\ u # t
        /\ \A l \in Locks, u \in Tasks :
              Contains(queue'[l], u) /\ queue[l][1] = u => queue'[l][1] = u
        /\ \A u \in Tasks : Queued(u)' <=> Queued(u) /\ u # t
        /\ Waiters' = Waiters \ {t}
    BY <1>1, <1>2, LeavesQueue
  <1>5. queue'[k] = Without(queue[k], t)
    BY <1>1, <1>3 DEF IInv, TypeOK
  <1> HIDE DEF k
  <1>6. /\ wakeup' \in [Tasks -> {"pending", "result", "cancelled"}]
        /\ \A u \in Tasks : wakeup'[u] = "result" =>
              wakeup[u] = "result" \/ (~held[k] /\ queue'[k] # <<>> /\ queue'[k][1] = u)
    <2>1. queue'[k] \in Seq(Tasks)
      BY <1>3, <1>4
    <2>2. wakeup \in [Tasks -> {"pending", "result", "cancelled"}]
      BY DEF IInv, TypeOK
    <2>3. CASE held[k]
      <3>1. wakeup' = wakeup
        BY <1>1, <2>3
      <3>2. QED
        BY <2>2, <3>1
    <2>4. CASE ~held[k]
      <3> DEFINE q == Without(queue[k], t)
      <3>1. wakeup' = WakeFirst(k, q, wakeup)
        BY <1>1, <2>4
      <3>2. q \in Seq(Tasks)
        BY <1>5, <2>1
      <3> HIDE DEF q
      <3>3. /\ wakeup' \in [Tasks -> {"pending", "result", "cancelled"}]
            /\ \A u \in Tasks : wakeup'[u] = "result" =>
                  wakeup[u] = "result" \/ (q # <<>> /\ q[1] = u)
        <4>1. q # <<>> => Head(q) = q[1] /\ q[1] \in Tasks
          BY <3>2
        <4>2. QED
          BY <2>2, <3>1, <4>1 DEF WakeFirst
      <3>4. QED
        BY <1>5, <2>4, <3>3 DEF q
    <2>5. QED
      BY <2>3, <2>4
  <1>7. /\ ref' \in [Tasks -> Locks \cup {NoLock}] /\ ref'[t] = NoLock
        /\ \A u \in Tasks \ {t} : ref'[u] = ref[u]
    BY <1>1 DEF IInv, TypeOK
  <1>8. Inside' = Inside
    BY <1>2, <1>4, <1>7 DEF Inside
  <1>9. TypeOK'
    BY <1>1, <1>4, <1>6, <1>7 DEF IInv, TypeOK
  <1>10. HandedRegistered' /\ WaitsOnce'
    BY <1>1, <1>4, <1>7 DEF IInv, HandedRegistered, WaitsOnce
  <1>11. DoomedWait'
    BY <1>1, <1>4 DEF IInv, DoomedWait, TypeOK
  <1>12. HeldInside' /\ OneInside'
    <2>1. t \notin Inside
      BY <1>2 DEF Inside
    <2>2. \A u \in Inside : ref'[u] = ref[u]
      BY <1>7, <2>1 DEF Inside
    <2>3. QED
      BY <1>1, <1>8, <2>2 DEF IInv, HeldInside, OneInside
  <1>13. FirstWoken'
    <2>1. SUFFICES ASSUME NEW l \in Locks, NEW u \in Tasks, Contains(queue'[l], u),
                          wakeup'[u] = "result"
                   PROVE  queue'[l][1] = u /\ ~held[l]
      BY <1>1 DEF FirstWoken
    <2>2. CASE wakeup[u] = "result"
      BY <1>4, <2>1, <2>2 DEF IInv, FirstWoken
    <2>3. CASE ~held[k] /\ queue'[k][1] = u /\ queue'[k] # <<>>
      <3>1. Contains(queue'[k], u)
        <4>1. queue'[k] \in Seq(Tasks)
          BY <1>3, <1>4
        <4>2. QED
          BY <2>3, <4>1 DEF Contains
      <3>2. l = k
        BY <1>3, <1>4, <2>1, <3>1 DEF IInv, WaitsOnce
      <3>3. QED
        BY <2>3, <3>2
    <2>4. QED
      BY <1>6, <2>1, <2>2, <2>3
  <1>14. QED
    BY <1>4, <1>8, <1>9, <1>10, <1>11, <1>12, <1>13, WithdrawTurn DEF IInv

LEMMA ReleaseStep ==
    ASSUME IInv, NEW t \in Tasks, Release(t)
    PROVE  IInv' /\ Turn
  <1> DEFINE k == ref[t]
  <1>1. /\ t \in Inside
        /\ held' = [held EXCEPT ![k] = FALSE]
        /\ wakeup' = WakeFirst(k, queue[k], wakeup)
        /\ ref' = [ref EXCEPT ![t] = NoLock]
        /\ UNCHANGED <<registered, queue, doomed>>
    BY DEF Release
  <1>2. k = registered /\ k \in Locks /\ held[k] /\ Inside = {t} /\ ~Queued(t)
    BY <1>1, InsideFacts DEF Inside
  <1> HIDE DEF k
  <1>3. /\ wakeup' \in [Tasks -> {"pending", "result", "cancelled"}]
        /\ \A u \in Tasks : wakeup'[u] = "result" =>
              wakeup[u] = "result" \/ (queue[k] # <<>> /\ queue[k][1] = u)
    <2>1. queue[k] \in Seq(Tasks) /\ wakeup \in [Tasks -> {"pending", "result", "cancelled"}]
      BY <1>2 DEF IInv, TypeOK
    <2>2. wakeup' = WakeFirst(k, queue[k], wakeup)
      BY <1>1
    <2>3. QED
      BY <2>1, <2>2, WakeFacts
  <1>4. /\ ref' \in [Tasks -> Locks \cup {NoLock}] /\ ref'[t] = NoLock
        /\ \A u \in Tasks \ {t} : ref'[u] = ref[u]
    BY <1>1 DEF IInv, TypeOK
  <1>5. /\ held' \in [Locks -> BOOLEAN] /\ held'[k] = FALSE
        /\ \A l \in Locks \ {k} : held'[l] = held[l]
    BY <1>1, <1>2 DEF IInv, TypeOK
  <1>6. \A u \in Tasks : Queued(u)' <=> Queued(u)
    BY <1>1 DEF Queued
  <1>7. Inside' = {} /\ Waiters' = Waiters
    BY <1>2, <1>4, <1>6 DEF Inside, Waiters
  <1>8. TypeOK'
    BY <1>1, <1>3, <1>4, <1>5 DEF IInv, TypeOK
  <1>9. HandedRegistered'
    BY <1>1, <1>4 DEF IInv, HandedRegistered
  <1>10. WaitsOnce'
    <2>1. \A l \in Locks : ~Contains(queue[l], t)
      BY <1>2 DEF Queued
    <2>2. QED
      BY <1>1, <1>4, <2>1 DEF IInv, WaitsOnce
  <1>11. DoomedWait'
    BY <1>1, <1>6 DEF IInv, DoomedWait, TypeOK
  <1>12. HeldInside'
    <2>1. \A l \in Locks : held[l] => l = k
      BY <1>2 DEF IInv, HeldInside, k
    <2>2. QED
      BY <1>5, <1>7, <2>1 DEF HeldInside
  <1>13. OneInside'
    BY <1>7 DEF OneInside
  <1>14. FirstWoken'
    <2>1. SUFFICES ASSUME NEW l \in Locks, NEW u \in Tasks, Contains(queue[l], u),
                          wakeup'[u] = "result"
                   PROVE  queue[l][1] = u /\ ~held'[l]
      BY <1>1 DEF FirstWoken
    <2>2. CASE wakeup[u] = "result"
      BY <1>2, <1>5, <2>1, <2>2 DEF IInv, FirstWoken
    <2>3. CASE queue[k] # <<>> /\ queue[k][1] = u
      <3>1. Contains(queue[k], u)
        <4>1. queue[k] \in Seq(Tasks)
          BY <1>2 DEF IInv, TypeOK
        <4>2. QED
          BY <2>3, <4>1 DEF Contains
      <3>2. l = k
        BY <1>2, <2>1, <3>1 DEF IInv, WaitsOnce
      <3>3. QED
        BY <1>5, <2>3, <3>2
    <2>4. QED
      BY <1>3, <2>1, <2>2, <2>3
  <1>15. QED
    BY <1>1, <1>2, <1>7, <1>8, <1>9, <1>10, <1>11, <1>12, <1>13, <1>14, LeaveTurn DEF IInv

LEMMA CollectStep ==
    ASSUME IInv, Collect
    PROVE  IInv' /\ Turn
  <1>1. /\ \A t \in Tasks : ref[t] # registered
        /\ registered' = NoLock /\ UNCHANGED <<held, queue, wakeup, ref, doomed>>
    BY DEF Collect, Collectable, InUse
  <1>2. Inside' = Inside /\ Waiters' = Waiters /\ \A u \in Tasks : Queued(u)' <=> Queued(u)
    BY <1>1 DEF Inside, Waiters, Queued
  <1>3. HandedRegistered'
    BY <1>1 DEF IInv, HandedRegistered
  <1>4. TypeOK' /\ WaitsOnce' /\ FirstWoken'
    BY <1>1 DEF IInv, TypeOK, WaitsOnce, FirstWoken
  <1>5. DoomedWait' /\ HeldInside' /\ OneInside'
    BY <1>1, <1>2 DEF IInv, DoomedWait, HeldInside, OneInside, TypeOK
  <1>6. QED
    BY <1>2, <1>3, <1>4, <1>5, SameTurn DEF IInv

LEMMA IInvStep == IInv /\ [Next]_vars => IInv' /\ Turn
  <1> SUFFICES ASSUME IInv, [Next]_vars PROVE IInv' /\ Turn
    OBVIOUS
  <1>1. CASE UNCHANGED vars
    <2>1. Inside' = Inside /\ Waiters' = Waiters /\ \A u \in Tasks : Queued(u)' <=> Queued(u)
      BY <1>1 DEF vars, Inside, Waiters, Queued
    <2>2. TypeOK' /\ WaitsOnce' /\ FirstWoken' /\ HandedRegistered'
      BY <1>1 DEF vars, IInv, TypeOK, WaitsOnce, FirstWoken, HandedRegistered
    <2>3. DoomedWait' /\ HeldInside' /\ OneInside'
      BY <1>1, <2>1 DEF vars, IInv, DoomedWait, HeldInside, OneInside, TypeOK
    <2>4. QED
      BY <2>1, <2>2, <2>3, SameTurn DEF IInv
  <1>2. CASE Next
    BY <1>2, AcquireStep, ResumeStep, CancelStep, UnwindStep, ReleaseStep, CollectStep DEF Next
  <1>3. QED
    BY <1>1, <1>2

LEMMA IInvInit == Init => IInv
  <1> SUFFICES ASSUME Init PROVE IInv
    OBVIOUS
  <1>1. \A k \in Locks : queue[k] = <<>> /\ held[k] = FALSE
    BY DEF Init
  <1>2. \A t \in Tasks : ref[t] = NoLock
    BY DEF Init
  <1>3. <<>> \in Seq(Tasks) /\ Distinct(<<>>) /\ \A u : ~Contains(<<>>, u)
    BY DEF Distinct, Contains
  <1>4. TypeOK
    BY <1>3 DEF Init, TypeOK
  <1>5. Inside = {}
    BY <1>2 DEF Inside
  <1>6. QED
    BY <1>1, <1>2, <1>3, <1>4, <1>5
    DEF Init, IInv, HandedRegistered, WaitsOnce, DoomedWait, HeldInside, OneInside, FirstWoken

(* The inductive invariant of the registry and of asyncio.Lock.            *)
THEOREM IInvHolds == Spec => []IInv
  <1>1. QED
    BY IInvInit, IInvStep, PTL DEF Spec

(* All handlers were handed the registered object, it is locked exactly     *)
(* while one of them is inside, and only the first waiter of an open lock  *)
(* has been woken.                                                         *)
THEOREM LockInvHolds == Spec => []LockInv
  <1>1. IInv => LockInv
    <2> SUFFICES ASSUME IInv PROVE LockInv
      OBVIOUS
    <2>1. ASSUME NEW k \in Locks, NEW i \in DOMAIN queue[k], wakeup[queue[k][i]] = "result"
          PROVE  i = 1 /\ ~held[k]
      <3>1. queue[k] \in Seq(Tasks) /\ Distinct(queue[k])
        BY DEF IInv, TypeOK, WaitsOnce
      <3>2. queue[k][i] \in Tasks /\ Contains(queue[k], queue[k][i])
        BY <3>1 DEF Contains
      <3>3. queue[k][1] = queue[k][i] /\ ~held[k]
        BY <2>1, <3>2 DEF IInv, FirstWoken
      <3>4. 1 \in 1..Len(queue[k]) /\ i \in 1..Len(queue[k])
        BY <3>1
      <3>5. QED
        BY <3>1, <3>3, <3>4 DEF Distinct
    <2>2. QED
      BY <2>1 DEF IInv, LockInv, HandedRegistered, HeldInside
  <1>2. QED
    BY <1>1, IInvHolds, PTL

(* The registry and the lock objects behind it are one mutual exclusion,   *)
(* whichever objects come and go and whoever is cancelled.                 *)
THEOREM ImplementsMutexHolds == Spec => ImplementsMutex
  <1>1. Init => Exclusion!Init
    <2>1. IInv /\ Init => Inside = {} /\ {t \in Tasks : Queued(t)} = {}
      BY QueuedFacts DEF Init, Inside
    <2>2. QED
      BY <2>1, IInvInit DEF Exclusion!Init
  <1>2. IInv /\ [Next]_vars => [Exclusion!Next]_(Exclusion!vars)
    BY IInvStep DEF Turn
  <1>3. QED
    BY <1>1, <1>2, IInvHolds, PTL DEF Spec, ImplementsMutex, Exclusion!Spec

-----------------------------------------------------------------------------
(* Arrival order.  A future is cancelled only with the task that awaits it. *)

CancelledDoomed == \A t \in Tasks : Queued(t) /\ wakeup[t] = "cancelled" => t \in doomed

(* What a step does to a task other than the one that takes it: it stays in *)
(* or out of a queue, keeps the object it was handed, and its future is not *)
(* cancelled.                                                              *)
Bystander(t) ==
    /\ Queued(t)' <=> Queued(t)
    /\ ref'[t] = ref[t]
    /\ wakeup'[t] = "cancelled" => wakeup[t] = "cancelled"
    /\ t \in doomed' <=> t \in doomed

LEMMA AcquireOthers ==
    ASSUME IInv, NEW t \in Tasks, Acquire(t)
    PROVE  /\ \A u \in Tasks \ {t} : Bystander(u)
           /\ Queued(t)' => wakeup'[t] = "pending"
  <1>1. PICK k \in Handed :
           /\ ref' = [ref EXCEPT ![t] = k]
           /\ IF Free(k)
              THEN UNCHANGED <<queue, wakeup>>
              ELSE /\ queue' = [queue EXCEPT ![k] = Append(queue[k], t)]
                   /\ wakeup' = [wakeup EXCEPT ![t] = "pending"]
    BY DEF Acquire
  <1>2. k \in Locks /\ doomed' = doomed
    BY HandedFacts DEF Acquire
  <1>3. \A l \in Locks : ~Contains(queue[l], t)
    BY QueuedFacts DEF Acquire
  <1>4. \A u \in Tasks \ {t} : ref'[u] = ref[u]
    BY <1>1 DEF IInv, TypeOK
  <1>5. CASE Free(k)
    BY <1>1, <1>2, <1>3, <1>4, <1>5 DEF Bystander, Queued
  <1>6. CASE ~Free(k)
    <2> DEFINE r == Append(queue[k], t)
    <2>1. /\ r \in Seq(Tasks)
          /\ \A u : Contains(r, u) <=> Contains(queue[k], u) \/ u = t
      BY <1>2, <1>3, AppendFacts DEF IInv, TypeOK, WaitsOnce
    <2> HIDE DEF r
    <2>2. queue'[k] = r /\ \A l \in Locks \ {k} : queue'[l] = queue[l]
      BY <1>1, <1>2, <1>6 DEF IInv, TypeOK, r
    <2>3. \A u \in Tasks \ {t} : Queued(u)' <=> Queued(u)
      BY <2>1, <2>2 DEF Queued
    <2>4. wakeup'[t] = "pending" /\ \A u \in Tasks \ {t} : wakeup'[u] = wakeup[u]
      BY <1>1, <1>6 DEF IInv, TypeOK
    <2>5. QED
      BY <1>2, <1>4, <2>3, <2>4 DEF Bystander
  <1>7. QED
    BY <1>5, <1>6

LEMMA WokenFacts ==
    ASSUME NEW k, NEW s \in Seq(Tasks), NEW f \in [Tasks -> {"pending", "result", "cancelled"}],
           NEW g, g = WakeFirst(k, s, f)
    PROVE  \A u \in Tasks : g[u] = "cancelled" => f[u] = "cancelled"
  <1>1. s # <<>> => Head(s) \in Tasks
    OBVIOUS
  <1>2. QED
    BY <1>1 DEF WakeFirst

LEMMA OtherStepsOthers ==
    ASSUME IInv, NEW t \in Tasks, Resume(t) \/ Cancel(t) \/ Unwind(t) \/ Release(t)
    PROVE  \A u \in Tasks \ {t} : Bystander(u)
  <1>1. ASSUME Resume(t) \/ Unwind(t)
        PROVE  /\ queue' \in [Locks -> Seq(Tasks)]
               /\ \A u \in Tasks \ {t} : Queued(u)' <=> Queued(u)
    <2>1. Queued(t)
      BY <1>1 DEF Resume, Unwind, IInv, DoomedWait
    <2>2. queue' = [queue EXCEPT ![ref[t]] = Without(queue[ref[t]], t)]
      BY <1>1 DEF Resume, Unwind
    <2>3. QED
      BY <2>1, <2>2, LeavesQueue
  <1>2. wakeup \in [Tasks -> {"pending", "result", "cancelled"}]
    BY DEF IInv, TypeOK
  <1>3. CASE Resume(t)
    BY <1>1, <1>3 DEF Resume, Bystander
  <1>4. CASE Cancel(t)
    BY <1>2, <1>4 DEF Cancel, Bystander, Queued
  <1>5. CASE Unwind(t)
    <2> DEFINE k == ref[t]
    <2>1. k \in Locks /\ k # NoLock
      BY <1>5, QueuedFacts DEF Unwind, IInv, DoomedWait
    <2>2. queue'[k] = Without(queue[k], t) /\ queue'[k] \in Seq(Tasks)
      BY <1>1, <1>5, <2>1 DEF Unwind, IInv, TypeOK
    <2>3. wakeup' = IF held[k] THEN wakeup ELSE WakeFirst(k, queue'[k], wakeup)
      BY <1>5, <2>2 DEF Unwind
    <2> HIDE DEF k
    <2>4. \A u \in Tasks : wakeup'[u] = "cancelled" => wakeup[u] = "cancelled"
      <3> DEFINE q == queue'[k]
      <3>1. wakeup' = IF held[k] THEN wakeup ELSE WakeFirst(k, q, wakeup)
        BY <2>3
      <3>2. q \in Seq(Tasks)
        BY <2>2
      <3> HIDE DEF q
      <3>3. CASE held[k]
        BY <3>1, <3>3
      <3>4. CASE ~held[k]
        BY <1>2, <3>1, <3>2, <3>4, WokenFacts
      <3>5. QED
        BY <3>3, <3>4
    <2>5. \A u \in Tasks \ {t} : ref'[u] = ref[u] /\ (u \in doomed' <=> u \in doomed)
      BY <1>5 DEF Unwind, IInv, TypeOK
    <2>6. QED
      BY <1>1, <1>5, <2>4, <2>5 DEF Bystander
  <1>6. CASE Release(t)
    <2> DEFINE k == ref[t]
    <2>1. /\ wakeup' = WakeFirst(k, queue[k], wakeup)
          /\ queue' = queue /\ doomed' = doomed
          /\ \A u \in Tasks \ {t} : ref'[u] = ref[u]
      BY <1>6 DEF Release, IInv, TypeOK
    <2>2. queue[k] \in Seq(Tasks)
      BY <1>6, InsideFacts DEF Release, IInv, TypeOK
    <2> HIDE DEF k
    <2>3. \A u \in Tasks : wakeup'[u] = "cancelled" => wakeup[u] = "cancelled"
      BY <1>2, <2>1, <2>2, WokenFacts
    <2>4. QED
      BY <2>1, <2>3 DEF Bystander, Queued
  <1>7. QED
    BY <1>3, <1>4, <1>5, <1>6

LEMMA CancelledDoomedStep ==
    ASSUME IInv, CancelledDoomed, [Next]_vars
    PROVE  CancelledDoomed'
  <1>1. ASSUME NEW t \in Tasks, \A u \in Tasks \ {t} : Bystander(u),
               Queued(t)' /\ wakeup'[t] = "cancelled" => t \in doomed'
        PROVE  CancelledDoomed'
    BY <1>1 DEF CancelledDoomed, Bystander
  <1>2. ASSUME NEW t \in Tasks, Acquire(t)
        PROVE  CancelledDoomed'
    BY <1>1, <1>2, AcquireOthers
  <1>3. ASSUME NEW t \in Tasks, Cancel(t)
        PROVE  CancelledDoomed'
    BY <1>1, <1>3, OtherStepsOthers DEF Cancel
  <1>4. ASSUME NEW t \in Tasks, Resume(t) \/ Unwind(t)
        PROVE  CancelledDoomed'
    <2>1. Queued(t)
      BY <1>4 DEF Resume, Unwind, IInv, DoomedWait
    <2>2. queue' = [queue EXCEPT ![ref[t]] = Without(queue[ref[t]], t)]
      BY <1>4 DEF Resume, Unwind
    <2>3. ~Queued(t)'
      BY <2>1, <2>2, LeavesQueue
    <2>4. QED
      BY <1>1, <1>4, <2>3, OtherStepsOthers
  <1>5. ASSUME NEW t \in Tasks, Release(t)
        PROVE  CancelledDoomed'
    <2>1. ~Queued(t)'
      BY <1>5 DEF Release, Inside, Queued
    <2>2. QED
      BY <1>1, <1>5, <2>1, OtherStepsOthers
  <1>6. CASE Collect \/ UNCHANGED vars
    BY <1>6 DEF Collect, vars, CancelledDoomed, Queued
  <1>7. QED
    BY <1>2, <1>3, <1>4, <1>5, <1>6 DEF Next

(* A handler that was cancelled while it waited is never let in: it is      *)
(* still queued where it will be thrown out.                               *)
THEOREM CancelledDoomedHolds == Spec => []CancelledDoomed
  <1>1. Init => CancelledDoomed
    BY DEF Init, CancelledDoomed
  <1>2. QED
    BY <1>1, IInvHolds, CancelledDoomedStep, PTL DEF Spec

(* Handlers are served in the order they came: whoever enters was in front  *)
(* of everybody that waits and was not cancelled.                          *)
THEOREM InOrderHolds == Spec => InOrder
  <1> DEFINE Ahead(t) == \A k \in Locks : \A i \in DOMAIN queue[k] :
                 queue[k][i] \notin doomed => t \notin doomed /\ \E j \in 1..i : queue[k][j] = t
  <1>1. ASSUME IInv, CancelledDoomed, Next, NEW t \in Tasks, t \notin Inside, t \in Inside'
        PROVE  Ahead(t)
    <2>1. ~Bystander(t)
      BY <1>1 DEF Bystander, Inside
    <2>2. Acquire(t) \/ Resume(t) \/ Cancel(t) \/ Unwind(t) \/ Release(t)
      <3>1. ~Collect
        BY <2>1 DEF Collect, Bystander, Queued
      <3>2. QED
        BY <1>1, <2>1, <3>1, AcquireOthers, OtherStepsOthers DEF Next
    <2>3. ASSUME NEW k \in Locks, NEW i \in DOMAIN queue[k]
          PROVE  /\ queue[k][i] \in Tasks /\ Queued(queue[k][i]) /\ ref[queue[k][i]] = k
                 /\ i \in Nat /\ 1 <= i
      <3>1. queue[k] \in Seq(Tasks)
        BY <1>1 DEF IInv, TypeOK
      <3>2. queue[k][i] \in Tasks /\ Contains(queue[k], queue[k][i]) /\ i \in Nat /\ 1 <= i
        BY <3>1 DEF Contains
      <3>3. QED
        BY <1>1, <3>2 DEF Queued, IInv, WaitsOnce
    <2>4. CASE Acquire(t)
      <3>1. PICK k \in Handed :
               /\ ref' = [ref EXCEPT ![t] = k]
               /\ Free(k) \/ queue' = [queue EXCEPT ![k] = Append(queue[k], t)]
        BY <2>4 DEF Acquire
      <3>2. k \in Locks /\ \A u \in Tasks : ref[u] # NoLock => ref[u] = k
        BY <1>1, HandedFacts
      <3>3. Free(k)
        <4>1. SUFFICES ASSUME queue' = [queue EXCEPT ![k] = Append(queue[k], t)] PROVE FALSE
          BY <3>1
        <4>2. queue'[k] = Append(queue[k], t) /\ queue[k] \in Seq(Tasks)
          BY <1>1, <3>2, <4>1 DEF IInv, TypeOK
        <4>3. Contains(queue'[k], t)
          BY <4>2 DEF Contains
        <4>4. QED
          BY <1>1, <3>2, <4>3 DEF Inside, Queued
      <3>4. \A l \in Locks : \A i \in DOMAIN queue[l] : queue[l][i] \in doomed
        BY <1>1, <2>3, <3>2, <3>3, LocksAssumption DEF Free, CancelledDoomed
      <3>5. QED
        BY <3>4
    <2>5. CASE Resume(t)
      <3>1. Queued(t) /\ wakeup[t] = "result" /\ t \notin doomed
        BY <2>5 DEF Resume
      <3>2. /\ ref[t] \in Locks /\ ref[t] # NoLock /\ queue[ref[t]][1] = t
            /\ \A u \in Tasks : ref[u] # NoLock => ref[u] = ref[t]
        BY <1>1, <3>1, QueuedFacts DEF IInv, FirstWoken, HandedRegistered
      <3>3. ASSUME NEW k \in Locks, NEW i \in DOMAIN queue[k]
            PROVE  \E j \in 1..i : queue[k][j] = t
        <4>1. k = ref[t] /\ 1 \in 1..i
          BY <2>3, <3>2, <3>3, LocksAssumption
        <4>2. QED
          BY <3>2, <4>1
      <3>4. QED
        BY <3>1, <3>3
    <2>6. CASE Cancel(t)
      BY <1>1, <2>6 DEF Cancel, Inside, Queued
    <2>7. CASE Unwind(t) \/ Release(t)
      BY <1>1, <2>7 DEF Unwind, Release, Inside, IInv, TypeOK
    <2>8. QED
      BY <2>2, <2>4, <2>5, <2>6, <2>7
  <1>2. ASSUME IInv, CancelledDoomed, [Next]_vars
        PROVE  [\A t \in Tasks, k \in Locks : \A i \in DOMAIN queue[k] :
                   t \notin Inside /\ t \in Inside' /\ queue[k][i] \notin doomed =>
                       t \notin doomed /\ \E j \in 1..i : queue[k][j] = t]_vars
    BY <1>1, <1>2
  <1>3. QED
    BY <1>2, IInvHolds, CancelledDoomedHolds, PTL DEF Spec, InOrder

-----------------------------------------------------------------------------
(* No wake-up is lost: while an object is open, the first of its waiters   *)
(* can go, to take the lock if it was woken, or to pass the wake-up on if   *)
(* it was cancelled.                                                       *)
NoLostWakeup ==
    \A k \in Locks : queue[k] # <<>> /\ ~held[k] =>
        wakeup[queue[k][1]] = "result" \/ queue[k][1] \in doomed

(* Its inductive form: the first waiter of an open object does not sleep.  *)
FrontAwake == \A k \in Locks : queue[k] # <<>> /\ ~held[k] => wakeup[queue[k][1]] # "pending"

(* After _wake_up_first the first waiter does not sleep, and nobody sleeps  *)
(* that did not before.                                                    *)
LEMMA WakeFirstWakes ==
    ASSUME NEW k, NEW s \in Seq(Tasks), NEW f \in [Tasks -> {"pending", "result", "cancelled"}],
           NEW g, g = WakeFirst(k, s, f)
    PROVE  /\ s # <<>> => g[s[1]] # "pending"
           /\ \A u \in Tasks : g[u] = "pending" => f[u] = "pending"
  <1>1. s # <<>> => Head(s) = s[1] /\ s[1] \in Tasks
    OBVIOUS
  <1>2. QED
    BY <1>1 DEF WakeFirst

LEMMA FirstWaits ==
    ASSUME IInv, NEW k \in Locks, queue[k] # <<>>
    PROVE  queue[k][1] \in Tasks /\ Contains(queue[k], queue[k][1])
  <1>1. queue[k] \in Seq(Tasks)
    BY DEF IInv, TypeOK
  <1>2. QED
    BY <1>1 DEF Contains

LEMMA AcquireKeepsAwake ==
    ASSUME IInv, FrontAwake, NEW t \in Tasks, Acquire(t)
    PROVE  FrontAwake'
  <1>1. PICK k \in Handed :
           IF Free(k)
           THEN held' = [held EXCEPT ![k] = TRUE] /\ UNCHANGED <<queue, wakeup>>
           ELSE /\ queue' = [queue EXCEPT ![k] = Append(queue[k], t)]
                /\ wakeup' = [wakeup EXCEPT ![t] = "pending"]
                /\ UNCHANGED held
    BY DEF Acquire
  <1>2. k \in Locks /\ \A l \in Locks : ~Contains(queue[l], t)
    BY HandedFacts, QueuedFacts DEF Acquire
  <1>3. CASE Free(k)
    BY <1>1, <1>2, <1>3 DEF FrontAwake, IInv, TypeOK
  <1>4. CASE ~Free(k)
    <2> DEFINE r == Append(queue[k], t)
    <2>1. \A u : Contains(queue[k], u) => r[1] = queue[k][1]
      BY <1>2, AppendFacts DEF IInv, TypeOK, WaitsOnce
    <2> HIDE DEF r
    <2>2. /\ queue'[k] = r /\ held' = held
          /\ \A l \in Locks \ {k} : queue'[l] = queue[l]
          /\ \A u \in Tasks \ {t} : wakeup'[u] = wakeup[u]
      BY <1>1, <1>2, <1>4 DEF IInv, TypeOK, r
    <2>3. ~held[k] => queue[k] # <<>>
      BY <1>4 DEF Free
    <2>4. \A l \in Locks : queue[l] # <<>> => queue[l][1] \in Tasks \ {t}
      BY <1>2, FirstWaits
    <2>5. ~held[k] => r[1] = queue[k][1]
      BY <1>2, <2>1, <2>3, FirstWaits
    <2>6. QED
      BY <1>2, <2>2, <2>3, <2>4, <2>5 DEF FrontAwake
  <1>5. QED
    BY <1>3, <1>4

LEMMA ReleaseKeepsAwake ==
    ASSUME IInv, FrontAwake, NEW t \in Tasks, Release(t)
    PROVE  FrontAwake'
  <1> DEFINE k == ref[t]
  <1>1. k \in Locks
    BY InsideFacts DEF Release
  <1>2. queue[k] \in Seq(Tasks) /\ wakeup \in [Tasks -> {"pending", "result", "cancelled"}]
    BY <1>1 DEF IInv, TypeOK
  <1>3. wakeup' = WakeFirst(k, queue[k], wakeup)
    BY DEF Release
  <1>4. queue' = queue /\ \A l \in Locks \ {k} : held'[l] = held[l]
    BY DEF Release, IInv, TypeOK
  <1> HIDE DEF k
  <1>5. /\ queue[k] # <<>> => wakeup'[queue[k][1]] # "pending"
        /\ \A u \in Tasks : wakeup'[u] = "pending" => wakeup[u] = "pending"
    BY <1>2, <1>3, WakeFirstWakes
  <1>6. \A l \in Locks : queue[l] # <<>> => queue[l][1] \in Tasks
    BY FirstWaits
  <1>7. QED
    BY <1>4, <1>5, <1>6 DEF FrontAwake

LEMMA UnwindKeepsAwake ==
    ASSUME IInv, FrontAwake, NEW t \in Tasks, Unwind(t)
    PROVE  FrontAwake'
  <1> DEFINE k == ref[t]
             q == Without(queue[k], t)
  <1>1. k \in Locks /\ Queued(t)
    BY QueuedFacts DEF Unwind, IInv, DoomedWait
  <1>2. queue' = [queue EXCEPT ![k] = q]
    BY DEF Unwind
  <1>3. queue' \in [Locks -> Seq(Tasks)]
    BY <1>1, <1>2, LeavesQueue
  <1>4. /\ queue'[k] = q /\ held' = held
        /\ \A l \in Locks \ {k} : queue'[l] = queue[l]
    BY <1>1, <1>2 DEF Unwind, IInv, TypeOK
  <1>5. wakeup' = IF held[k] THEN wakeup ELSE WakeFirst(k, q, wakeup)
    BY DEF Unwind
  <1>6. q \in Seq(Tasks)
    BY <1>1, <1>3, <1>4
  <1> HIDE DEF k, q
  <1>7. wakeup \in [Tasks -> {"pending", "result", "cancelled"}]
    BY DEF IInv, TypeOK
  <1>8. /\ q # <<>> /\ ~held[k] => wakeup'[q[1]] # "pending"
        /\ \A u \in Tasks : wakeup'[u] = "pending" => wakeup[u] = "pending"
    <2>1. CASE held[k]
      BY <1>5, <2>1
    <2>2. CASE ~held[k]
      BY <1>5, <1>6, <1>7, <2>2, WakeFirstWakes
    <2>3. QED
      BY <2>1, <2>2
  <1>9. \A l \in Locks : queue[l] # <<>> => queue[l][1] \in Tasks
    BY FirstWaits
  <1>10. QED
    BY <1>4, <1>8, <1>9 DEF FrontAwake

LEMMA FrontAwakeStep ==
    ASSUME IInv, FrontAwake, [Next]_vars
    PROVE  FrontAwake'
  <1>1. ASSUME NEW t \in Tasks, Resume(t)
        PROVE  FrontAwake'
    <2>1. ref[t] \in Locks
      BY <1>1, QueuedFacts DEF Resume
    <2>2. QED
      BY <1>1, <2>1 DEF Resume, FrontAwake, IInv, TypeOK
  <1>2. ASSUME NEW t \in Tasks, Cancel(t)
        PROVE  FrontAwake'
    <2>1. \A u \in Tasks : wakeup'[u] = "pending" => wakeup[u] = "pending"
      BY <1>2 DEF Cancel, IInv, TypeOK
    <2>2. \A l \in Locks : queue[l] # <<>> => queue[l][1] \in Tasks
      BY FirstWaits
    <2>3. QED
      BY <1>2, <2>1, <2>2 DEF Cancel, FrontAwake
  <1>3. CASE Collect \/ UNCHANGED vars
    BY <1>3 DEF Collect, vars, FrontAwake
  <1>4. QED
    BY <1>1, <1>2, <1>3, AcquireKeepsAwake, ReleaseKeepsAwake, UnwindKeepsAwake DEF Next

(* Whoever is cancelled, and whenever: an open lock that somebody waits for *)
(* is never left with nobody on the way to take it.                        *)
THEOREM NoLostWakeupHolds == Spec => []NoLostWakeup
  <1>1. Init => FrontAwake
    BY DEF Init, FrontAwake
  <1>2. ASSUME IInv, CancelledDoomed, FrontAwake
        PROVE  NoLostWakeup
    <2>1. SUFFICES ASSUME NEW k \in Locks, queue[k] # <<>>, ~held[k]
                   PROVE  wakeup[queue[k][1]] = "result" \/ queue[k][1] \in doomed
      BY DEF NoLostWakeup
    <2>2. queue[k][1] \in Tasks /\ Contains(queue[k], queue[k][1])
      BY <1>2, <2>1, FirstWaits
    <2>3. wakeup[queue[k][1]] \in {"result", "cancelled"}
      BY <1>2, <2>1, <2>2 DEF FrontAwake, IInv, TypeOK
    <2>4. QED
      BY <1>2, <2>2, <2>3 DEF CancelledDoomed, Queued
  <1>3. QED
    BY <1>1, <1>2, IInvHolds, CancelledDoomedHolds, FrontAwakeStep, PTL DEF Spec

=============================================================================
