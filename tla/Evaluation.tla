----------------------------- MODULE Evaluation -----------------------------
(***************************************************************************)
(* What the ratings of a bot's pairs decide about its entries:             *)
(* trading_guard.evaluate and trading_guard.apply_evaluation.  A rating is *)
(* counted in tenths, the unit of both thresholds, and Missing stands for  *)
(* a pair without one.                                                     *)
(***************************************************************************)
EXTENDS Integers, FiniteSets

CONSTANT Missing

ASSUME MissingAssumption == Missing \notin Int

Rated(v) ==
    IF v = Missing THEN "missing"
    ELSE IF v >= 1 THEN "buy" ELSE IF v <= -1 THEN "sell" ELSE "neutral"

(* The pairs with a rating of the given kind; value is a function of pairs. *)
Counted(pairs, value, kind) == {p \in pairs : Rated(value[p]) = kind}

(* Mutated form of Verdict: only the rated pairs make up the majority. *)
VerdictOfRated(pairs, value) ==
    LET sell == Cardinality(Counted(pairs, value, "sell"))
        buy == Cardinality(Counted(pairs, value, "buy"))
    IN  IF sell + buy = 0 THEN "missing_data"
        ELSE IF buy = 0 THEN "all_sell"
        ELSE IF 2 * buy > sell + buy THEN "majority_buy" ELSE "mixed"

(* Mutated form of Verdict: half of the pairs is a majority. *)
VerdictOfHalf(pairs, value) ==
    LET count(kind) == Cardinality(Counted(pairs, value, kind))
    IN  IF pairs = {} \/ count("missing") > 0 THEN "missing_data"
        ELSE IF count("sell") = Cardinality(pairs) THEN "all_sell"
        ELSE IF 2 * count("buy") >= Cardinality(pairs) THEN "majority_buy" ELSE "mixed"

(* The reason of an evaluation. *)
Verdict(pairs, value) ==
    LET count(kind) == Cardinality(Counted(pairs, value, kind))
    IN  IF pairs = {} \/ count("missing") > 0 THEN "missing_data"
        ELSE IF count("sell") = Cardinality(pairs) THEN "all_sell"
        ELSE IF 2 * count("buy") > Cardinality(pairs) THEN "majority_buy" ELSE "mixed"

(* Mutated form of Decided: a pause is never released. *)
DecidedForGood(paused, reason) == paused \/ reason = "all_sell"

(* The stored decision after an evaluation with the given reason. *)
Decided(paused, reason) ==
    (reason = "all_sell") \/ (paused /\ reason # "majority_buy")

=============================================================================
