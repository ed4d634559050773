------------------------------ MODULE MCSession ------------------------------
(* An administrator and a user at one browser. *)
EXTENDS Session

KindOfDef == [who \in Principals |-> IF who = "ada" THEN "admin" ELSE "user"]

=============================================================================
