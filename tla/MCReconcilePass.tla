--------------------------- MODULE MCReconcilePass ---------------------------
(***************************************************************************)
(* Small instances of ReconcilePass: two bots, two pairs, and markets in   *)
(* which every exchange and every timeframe says something else.           *)
(***************************************************************************)
EXTENDS ReconcilePass

CONSTANTS b1, b2, q1, q2, t1, t2, x1, x2

Rating(first, second) == [p \in {q1, q2} |-> IF p = q1 THEN first ELSE second]

AllSell == Rating(-1, -8)
AllBuy == Rating(1, 8)
Split == Rating(1, -1)
Hole == Rating(-1, Missing)
Absurd == Rating(1, -11)

Market(a, b, c, d) ==
    (x1 :> (t1 :> a @@ t2 :> b)) @@ (x2 :> (t1 :> c @@ t2 :> d))

(* Two exchanges that disagree; one of them gives a value that is no       *)
(* rating in one timeframe, and buys exactly half of the pairs in the      *)
(* other.                                                                  *)
TwoExchanges == {Market(AllSell, AllBuy, Absurd, Split)}

OneExchange == {x1 :> (t1 :> m) : m \in {AllSell, AllBuy, Split, Hole}}

(* The bots share a pair. *)
OneAndBoth == (b1 :> {{q1}}) @@ (b2 :> {{q1, q2}})
SameLists == [b \in Bots |-> {{q1, q2}}]

=============================================================================
