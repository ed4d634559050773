--------------------------- MODULE MCTradingGuard ---------------------------
(***************************************************************************)
(* Small instances of TradingGuard: one bot, one or two requests at a      *)
(* time, two values of each setting where a property tells them apart.     *)
(***************************************************************************)
EXTENDS TradingGuard, TLC

GuardOn == [keys |-> {"guard"}, guard |-> TRUE, params |-> AnyParams]
GuardOff == [keys |-> {"guard"}, guard |-> FALSE, params |-> AnyParams]
NewParams(p) == [keys |-> {"params"}, guard |-> FALSE, params |-> p]

GuardPayloads == {GuardOn, GuardOff}
AllPayloads == GuardPayloads \cup {NewParams(p) : p \in Params}

Symmetry == Permutations(Clients)

=============================================================================
