------------------------------- MODULE BotLock -------------------------------
(***************************************************************************)
(* The lock of one bot: trading_guard.bot_lock with its registry of weak   *)
(* references, and the asyncio.Lock objects it hands out.  A task keeps    *)
(* the object it was handed alive while it waits for it or holds it; the   *)
(* registry does not.                                                      *)
(***************************************************************************)
EXTENDS Naturals, SequencesExt

CONSTANTS
    Tasks,  \* handlers that command the bot
    Locks,  \* lock objects that can exist at the same time
    NoLock

ASSUME LocksAssumption == NoLock \notin Locks

VARIABLES
    registered,  \* the object the registry refers to
    held,        \* _locked of each object
    queue,       \* _waiters of each object: tasks in the order they came
    wakeup,      \* the future each queued task awaits
    ref,         \* the object each task was handed
    doomed       \* tasks whose cancellation is still to be delivered

vars == <<registered, held, queue, wakeup, ref, doomed>>

Queued(t) == \E k \in Locks : Contains(queue[k], t)
Inside == {t \in Tasks : ref[t] # NoLock /\ ~Queued(t)}

(* The type invariant. *)
TypeOK ==
    /\ registered \in Locks \cup {NoLock}
    /\ held \in [Locks -> BOOLEAN]
    /\ queue \in [Locks -> Seq(Tasks)]
    /\ wakeup \in [Tasks -> {"pending", "result", "cancelled"}]
    /\ ref \in [Tasks -> Locks \cup {NoLock}]
    /\ doomed \subseteq Tasks

-----------------------------------------------------------------------------
InUse(k) == \E t \in Tasks : ref[t] = k

(* Mutated form of Handed: the registry is not looked up. *)
HandedNew == {k \in Locks : ~InUse(k) /\ ~held[k]}

(* The object bot_lock returns: the registered one, or else a new one. *)
Handed ==
    IF registered # NoLock THEN {registered} ELSE {k \in Locks : ~InUse(k) /\ ~held[k]}

(* Mutated form of Free: waiters are not looked at. *)
FreeToAnyone(k) == ~held[k]

(* acquire takes an open lock at once unless somebody waits for it. *)
Free(k) == ~held[k] /\ \A i \in DOMAIN queue[k] : wakeup[queue[k][i]] = "cancelled"

(* Mutated form of WakeFirst: nobody is woken. *)
WakeNobody(k, waiters, futures) == futures

(* _wake_up_first: the first waiter is woken unless its future is done. *)
WakeFirst(k, waiters, futures) ==
    IF waiters # <<>> /\ futures[Head(waiters)] = "pending"
    THEN [futures EXCEPT ![Head(waiters)] = "result"]
    ELSE futures

Acquire(t) ==
    /\ ref[t] = NoLock
    /\ \E k \in Handed :
          /\ registered' = k
          /\ ref' = [ref EXCEPT ![t] = k]
          /\ IF Free(k)
             THEN held' = [held EXCEPT ![k] = TRUE] /\ UNCHANGED <<queue, wakeup>>
             ELSE /\ queue' = [queue EXCEPT ![k] = Append(@, t)]
                  /\ wakeup' = [wakeup EXCEPT ![t] = "pending"]
                  /\ UNCHANGED held
    /\ UNCHANGED doomed

(* _waiters.remove: the task leaves its place. *)
Without(s, t) == RemoveAt(s, CHOOSE i \in DOMAIN s : s[i] = t)

(* The woken task runs and takes the lock. *)
Resume(t) ==
    LET k == ref[t]
    IN  /\ k # NoLock /\ Queued(t) /\ wakeup[t] = "result" /\ t \notin doomed
        /\ queue' = [queue EXCEPT ![k] = Without(@, t)]
        /\ held' = [held EXCEPT ![k] = TRUE]
        /\ UNCHANGED <<registered, wakeup, ref, doomed>>

(* A waiting task is cancelled: its future is, unless it is done already.  *)
Cancel(t) ==
    /\ Queued(t) /\ t \notin doomed
    /\ doomed' = doomed \cup {t}
    /\ wakeup' = IF wakeup[t] = "pending" THEN [wakeup EXCEPT ![t] = "cancelled"] ELSE wakeup
    /\ UNCHANGED <<registered, held, queue, ref>>

(* The cancellation is delivered: a task that was woken for nothing wakes  *)
(* the next one.                                                           *)
Unwind(t) ==
    LET k == ref[t]
        rest == Without(queue[k], t)
    IN  /\ t \in doomed
        /\ queue' = [queue EXCEPT ![k] = rest]
        /\ wakeup' = IF held[k] THEN wakeup ELSE WakeFirst(k, rest, wakeup)
        /\ ref' = [ref EXCEPT ![t] = NoLock]
        /\ doomed' = doomed \ {t}
        /\ UNCHANGED <<registered, held>>

Release(t) ==
    LET k == ref[t]
    IN  /\ t \in Inside
        /\ held' = [held EXCEPT ![k] = FALSE]
        /\ wakeup' = WakeFirst(k, queue[k], wakeup)
        /\ ref' = [ref EXCEPT ![t] = NoLock]
        /\ UNCHANGED <<registered, queue, doomed>>

(* Mutated form of Collectable: an object nobody waits for is dropped. *)
CollectableWhenHeld(k) == queue[k] = <<>>

Collectable(k) == ~InUse(k)

(* The interpreter frees an object nobody was handed, and the registry     *)
(* forgets it.                                                             *)
Collect ==
    /\ registered # NoLock /\ Collectable(registered)
    /\ registered' = NoLock
    /\ UNCHANGED <<held, queue, wakeup, ref, doomed>>

Init ==
    /\ registered = NoLock
    /\ held = [k \in Locks |-> FALSE]
    /\ queue = [k \in Locks |-> <<>>]
    /\ wakeup = [t \in Tasks |-> "pending"]
    /\ ref = [t \in Tasks |-> NoLock]
    /\ doomed = {}

Next ==
    \/ \E t \in Tasks : Acquire(t) \/ Resume(t) \/ Cancel(t) \/ Unwind(t) \/ Release(t)
    \/ Collect

Spec == Init /\ [][Next]_vars

(* The loop resumes what is ready, and no handler keeps the lock forever:  *)
(* what it awaits inside is answered or times out.                         *)
FairSpec ==
    Spec /\ \A t \in Tasks : WF_vars(Resume(t)) /\ WF_vars(Unwind(t)) /\ WF_vars(Release(t))

-----------------------------------------------------------------------------
(* Properties. *)

(* The registry and the lock objects behind it are one mutual exclusion,   *)
(* whichever objects come and go.                                          *)
Exclusion == INSTANCE Mutex WITH waiting <- {t \in Tasks : Queued(t)}, inside <- Inside

ImplementsMutex == Exclusion!Spec

(* Handlers are served in the order they came: who enters while somebody   *)
(* waits, and was not cancelled, is the one that waits longest.            *)
InOrder ==
    [][\A t \in Tasks, k \in Locks : \A i \in DOMAIN queue[k] :
          t \notin Inside /\ t \in Inside' /\ queue[k][i] \notin doomed =>
              t \notin doomed /\ \E j \in 1..i : queue[k][j] = t]_vars

(* All handlers were handed the registered object; it is locked exactly    *)
(* while one of them is inside, and only the first waiter of an open lock  *)
(* has been woken.                                                         *)
LockInv ==
    /\ TypeOK
    /\ \A t \in Tasks : ref[t] # NoLock => ref[t] = registered
    /\ \A k \in Locks : held[k] <=> \E t \in Inside : ref[t] = k
    /\ \A k \in Locks : \A i \in DOMAIN queue[k] :
          wakeup[queue[k][i]] = "result" => i = 1 /\ ~held[k]

(* Every handler that waits is served or cancelled: no wake-up is lost,    *)
(* not even one whose receiver was cancelled at that moment.               *)
Served == \A t \in Tasks : Queued(t) ~> ~Queued(t)

=============================================================================
