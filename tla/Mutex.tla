-------------------------------- MODULE Mutex --------------------------------
(***************************************************************************)
(* What the lock of a bot promises to the handlers that command it: at     *)
(* most one of them is between taking it and giving it back.               *)
(***************************************************************************)
CONSTANT Tasks

VARIABLES waiting, inside

vars == <<waiting, inside>>

Init == waiting = {} /\ inside = {}

Ask(t) == waiting' = waiting \cup {t} /\ UNCHANGED inside

Enter(t) ==
    /\ inside = {}
    /\ inside' = {t}
    /\ waiting' = waiting \ {t}

Leave(t) ==
    /\ t \in inside
    /\ inside' = inside \ {t}
    /\ UNCHANGED waiting

(* A task that gives up waiting, or takes the lock for nothing.            *)
Withdraw(t) == waiting' = waiting \ {t} /\ UNCHANGED inside

(* The worker dies, and every task with it. *)
Restart == waiting' = {} /\ inside' = {}

Next ==
    \/ \E t \in Tasks : Ask(t) \/ Enter(t) \/ Leave(t) \/ Withdraw(t)
    \/ Restart

Spec == Init /\ [][Next]_vars

=============================================================================
