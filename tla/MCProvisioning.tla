--------------------------- MODULE MCProvisioning ---------------------------
(***************************************************************************)
(* Small instances of Provisioning.                                        *)
(***************************************************************************)
EXTENDS Provisioning, TLC

NoFields == [k \in {} |-> 0]
(* The upper case of the last is not a pair any more. *)
Spellings == [p \in {"BTC/USDT", "btc/usdt", "ETH/USDT", "jcaron/USDT"} |->
                 CASE p = "ETH/USDT" -> p
                   [] p = "jcaron/USDT" -> "J+caron/USDT"
                   [] OTHER -> "BTC/USDT"]
Pairs == <<"BTC/USDT", "ETH/USDT">>
Fees == [e \in {"binance"} |-> 10]

GoodKey == [known |-> TRUE, can_trade |-> TRUE, pem |-> FALSE]
ReadOnlyKey == [known |-> TRUE, can_trade |-> FALSE, pem |-> FALSE]
UnknownKey == [known |-> FALSE, can_trade |-> FALSE, pem |-> FALSE]
PemKey == [known |-> TRUE, can_trade |-> TRUE, pem |-> TRUE]
AllKeys == {GoodKey, ReadOnlyKey, UnknownKey, PemKey}

OldBlob == [roi |-> 7, stake_amount |-> Number(10), max_open_trades |-> 2]
OldBlobs == {OldBlob}

LiveStake == [stake_amount |-> Text(TRUE, 10), max_open_trades |-> 2]
ByVolume == [pairlist_mode |-> "volume", pairs |-> <<"btc/usdt">>, volume_number_assets |-> 5,
             roi_table |-> << [minutes |-> 30, roi |-> 2], [minutes |-> 0, roi |-> 5] >>]
TooMuch == [stake_amount |-> Number(10), max_open_trades |-> 3]
Trailing == [trailing_stop |-> TRUE, trailing_stop_positive |-> {5},
             trailing_stop_positive_offset |-> 5]
NoFirstStep == [roi_table |-> << [minutes |-> 30, roi |-> 2] >>]
Accented == [pairs |-> <<"jcaron/USDT">>]
GuardOff == [tradingview_guard_enabled |-> FALSE]
Edits == {LiveStake, ByVolume, TooMuch, Trailing, NoFirstStep, Accented, GuardOff}

Symmetry == Permutations(Handlers) \cup Permutations(Requests)
=============================================================================
