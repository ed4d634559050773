---------------------------- MODULE MCPublicStats ----------------------------
(***************************************************************************)
(* A small instance of PublicStats; the times keep the order of the real   *)
(* ones, the time to live below the window and the ratings' time to live.  *)
(* A bot that answers, answers without a count and with inf for a number.  *)
(***************************************************************************)
EXTENDS PublicStats

OddAnswer == {[number |-> "endless", count |-> "missing", text |-> "text"]}
=============================================================================
