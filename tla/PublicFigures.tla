---------------------------- MODULE PublicFigures ----------------------------
(***************************************************************************)
(* What the public page makes of the answers of one bot (_live_block in    *)
(* services/public_stats.py), and what its response schema admits          *)
(* (schemas/public.py).                                                    *)
(*                                                                         *)
(* Of the object a call answers the model keeps one field of each sort the *)
(* page reads, a number, a count and a text, and of the value of a field   *)
(* what _num, _int and _str tell apart.  A call that answers with rows     *)
(* keeps one row.                                                          *)
(***************************************************************************)
EXTENDS FiniteSets

(* "missing": absent, null, or a list or object; "endless": inf or nan.    *)
Values == {"missing", "flag", "integer", "fraction", "endless", "text"}

AnswerRecords == [number : Values, count : Values, text : Values]

(* Mutated form: inf and nan are numbers. *)
NumUnchecked(v) ==
    IF v \in {"integer", "fraction"} THEN "float" ELSE IF v = "endless" THEN v ELSE "null"

Num(v) == IF v \in {"integer", "fraction"} THEN "float" ELSE "null"

Count(v) == IF v \in {"integer", "fraction"} THEN "int" ELSE "null"

Str(v) == IF v = "text" THEN "str" ELSE "null"

RowCalls == {"performance", "daily"}

(* _int(...) or 0 *)
RowCount(v) == IF Count(v) = "null" THEN "int" ELSE Count(v)

(* What is shown of a call: one record, or a set of rows.  A row of the     *)
(* performance needs its pair, one of the days is dated str(...).          *)
LiveBlock(call, a) ==
    IF call = "performance" /\ Str(a.text) = "null" THEN {}
    ELSE IF call \in RowCalls
    THEN {[number |-> Num(a.number), count |-> RowCount(a.count), text |-> "str"]}
    ELSE {[number |-> Num(a.number), count |-> Count(a.count), text |-> Str(a.text)]}

EmptyLive(call) ==
    IF call \in RowCalls THEN {}
    ELSE {[number |-> "null", count |-> "null", text |-> "null"]}

(* The accounts' numbers added up, those that are not there left out. *)
Total(shown) == IF \E s \in shown : s.number = "endless" THEN "endless" ELSE "float"

(* What the schema admits of it, and JSON can carry. *)
Schema(call) ==
    IF call \in RowCalls
    THEN [number : {"float", "null"}, count : {"int"}, text : {"str"}]
    ELSE [number : {"float", "null"}, count : {"int", "null"}, text : {"str", "null"}]

=============================================================================
