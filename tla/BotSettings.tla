----------------------------- MODULE BotSettings -----------------------------
(***************************************************************************)
(* The settings an owner may edit (services/bot_config.py): how a stored   *)
(* blob is read, what validation accepts and how it normalises it, the     *)
(* limits of live trading, and the config.json built from the result       *)
(* (services/config_builder.py).                                           *)
(*                                                                         *)
(* A blob or payload is a record of the fields it has.  Fractions are      *)
(* integers in hundredths.  An optional value is a set of at most one      *)
(* element.  A stake is "unlimited", a number, or text that may spell a    *)
(* number.  The spellings of a pair that pass _is_pair are DOMAIN Spelling, *)
(* which gives each its upper-case form.  That form need not pass: upper() *)
(* turns some letters into a letter and a combining accent, which isalnum  *)
(* refuses.                                                                *)
(***************************************************************************)
EXTENDS Integers, Sequences, SequencesExt

CONSTANTS
    Strategies, DefaultStrategy,  \* strategy_assets.STRATEGIES
    Timeframes, DefaultTimeframe, \* ALLOWED_TIMEFRAMES
    Spelling, DefaultPairs,       \* well-formed pairs and their upper case
    LiveMaxCapital, LiveMinStake, \* settings.live_max_capital, live_min_stake
    DefaultExchange,              \* settings.default_exchange
    DryRunFee, DefaultDryRunFee   \* _DRY_RUN_FEE per exchange, _DEFAULT_DRY_RUN_FEE

ASSUME LimitsAssumption == LiveMaxCapital \in Nat /\ LiveMinStake \in Nat \ {0}

ASSUME DefaultsAssumption ==
    /\ DefaultStrategy \in Strategies
    /\ DefaultTimeframe \in Timeframes
    /\ DefaultPairs # << >> /\ DefaultPairs \in Seq(DOMAIN Spelling)

ASSUME SpellingAssumption ==
    /\ DOMAIN Spelling \subseteq STRING /\ Spelling \in [DOMAIN Spelling -> STRING]
    /\ \A p \in DOMAIN Spelling :
           Spelling[p] \in DOMAIN Spelling => Spelling[Spelling[p]] = Spelling[p]

Unlimited == [kind |-> "unlimited", amount |-> 0]
Number(n) == [kind |-> "number", amount |-> n]
Text(numeric, n) == [kind |-> IF numeric THEN "digits" ELSE "words", amount |-> n]

OneStep(roi) == << [minutes |-> 0, roi |-> roi] >>

Defaults ==
    [tradingview_guard_enabled |-> TRUE, strategy |-> DefaultStrategy,
     pairlist_mode |-> "static", pairs |-> DefaultPairs,
     volume_number_assets |-> 20, stake_amount |-> Unlimited,
     max_open_trades |-> 3, stoploss |-> -10, roi_table |-> OneStep(10),
     timeframe |-> DefaultTimeframe, trailing_stop |-> FALSE,
     trailing_stop_positive |-> {}, trailing_stop_positive_offset |-> 0,
     dry_run_wallet |-> 1000]

Fields == DOMAIN Defaults

(* A blob stored before roi_table existed has a single roi instead. *)
Upgraded(blob) ==
    IF "roi" \in DOMAIN blob /\ "roi_table" \notin DOMAIN blob
    THEN [Defaults EXCEPT !.roi_table = OneStep(blob.roi)]
    ELSE Defaults

Effective(blob) ==
    LET base == Upgraded(blob)
    IN [k \in Fields |-> IF k \in DOMAIN blob THEN blob[k] ELSE base[k]]

RoiSteps == [minutes : Nat, roi : Int]

(* What the schema lets a field hold (schemas/bot_config.py). *)
FieldValues ==
    [tradingview_guard_enabled |-> BOOLEAN, strategy |-> STRING, pairlist_mode |-> STRING,
     pairs |-> Seq(STRING), volume_number_assets |-> 1..100,
     stake_amount |-> [kind : {"unlimited", "number", "digits", "words"}, amount : Int],
     max_open_trades |-> 1..50, stoploss |-> Int, roi |-> Int, roi_table |-> Seq(RoiSteps),
     timeframe |-> STRING, trailing_stop |-> BOOLEAN,
     trailing_stop_positive |-> SUBSET Int, trailing_stop_positive_offset |-> Int,
     dry_run_wallet |-> Int]

HasLists(c) == c.pairs \in FieldValues.pairs /\ c.roi_table \in FieldValues.roi_table

(* A payload has the fields that were given: a null is a field left out. *)
BotConfigIn(payload) ==
    /\ DOMAIN payload \subseteq DOMAIN FieldValues
    /\ \A k \in DOMAIN payload : payload[k] \in FieldValues[k]
    /\ "trailing_stop_positive" \in DOMAIN payload => payload.trailing_stop_positive # {}

(* The fields of a payload over the current settings. *)
Overlaid(current, payload) ==
    [k \in Fields |-> IF k \in DOMAIN payload THEN payload[k] ELSE current[k]]

-----------------------------------------------------------------------------
(* validate, one operator per group of fields. *)

ValidPairlist(c) ==
    \/ c.pairlist_mode = "static" /\ c.pairs # << >>
    \/ c.pairlist_mode = "volume" /\ c.volume_number_assets \in 1..100

WellFormedPairs(c) ==
    c.pairlist_mode = "static" => Range(c.pairs) \subseteq DOMAIN Spelling

Minutes(table) == {table[i].minutes : i \in DOMAIN table}

(* Mutated form: the step at 0 minutes is not demanded. *)
ValidStepsOnly(table) ==
    table # << >> /\ \A i \in DOMAIN table : table[i].minutes >= 0 /\ table[i].roi \in 1..500

ValidRoiTable(table) ==
    /\ table # << >>
    /\ \A i \in DOMAIN table : table[i].minutes >= 0 /\ table[i].roi \in 1..500
    /\ \A i, j \in DOMAIN table : table[i].minutes = table[j].minutes => i = j
    /\ 0 \in Minutes(table)

(* Mutated form: the offset may equal the trailing distance. *)
ValidTrailingEqual(c) ==
    /\ \A p \in c.trailing_stop_positive : p \in 1..99
    /\ c.trailing_stop_positive_offset >= 0
    /\ \A p \in c.trailing_stop_positive :
           c.trailing_stop_positive_offset > 0 => c.trailing_stop_positive_offset >= p

ValidTrailing(c) ==
    /\ \A p \in c.trailing_stop_positive : p \in 1..99
    /\ c.trailing_stop_positive_offset >= 0
    /\ \A p \in c.trailing_stop_positive :
           c.trailing_stop_positive_offset > 0 => c.trailing_stop_positive_offset > p

ValidStake(s) ==
    \/ s.kind = "unlimited"
    \/ s.kind \in {"number", "digits"} /\ s.amount > 0

(* Mutated form: the number of trades is forgotten. *)
WithinStakeOnly(c) ==
    /\ c.stake_amount.kind # "unlimited"
    /\ c.stake_amount.amount \in LiveMinStake..LiveMaxCapital

WithinLiveLimits(c) ==
    /\ c.stake_amount.kind # "unlimited"
    /\ c.stake_amount.amount >= LiveMinStake
    /\ c.stake_amount.amount * c.max_open_trades <= LiveMaxCapital

(* All that validate demands but the form of each pair. *)
Sound(blob, dry_run) ==
    LET c == Effective(blob) IN
    /\ c.strategy \in Strategies
    /\ ValidPairlist(c)
    /\ ValidRoiTable(c.roi_table)
    /\ ValidStake(c.stake_amount)
    /\ c.max_open_trades \in 1..50
    /\ -99 < c.stoploss /\ c.stoploss < 0
    /\ c.timeframe \in Timeframes
    /\ ValidTrailing(c)
    /\ c.dry_run_wallet > 0
    /\ ~dry_run => WithinLiveLimits(c)

Acceptable(blob, dry_run) ==
    Sound(blob, dry_run) /\ WellFormedPairs(Effective(blob))

(* What validate returns: upper-case pairs, the ROI steps in order, a       *)
(* stake spelled as text turned into a number.                             *)
Sorted(table) ==
    CHOOSE t \in [DOMAIN table -> Range(table)] :
        /\ Range(t) = Range(table)
        /\ \A i, j \in DOMAIN t : i < j => t[i].minutes <= t[j].minutes

Normalised(blob) ==
    LET c == Effective(blob) IN
    [c EXCEPT
       !.pairs = IF c.pairlist_mode = "static"
                 THEN [i \in DOMAIN c.pairs |-> Spelling[c.pairs[i]]] ELSE c.pairs,
       !.roi_table = Sorted(c.roi_table),
       !.stake_amount.kind = IF @ = "digits" THEN "number" ELSE @]

-----------------------------------------------------------------------------
(* config.json: the fields of build_bot_config that depend on its inputs. *)

MinimalRoi(table) ==
    [m \in Minutes(table) |-> (CHOOSE s \in Range(table) : s.minutes = m).roi]

BuildBotConfig(exchange, dry_run, c) ==
    LET trailing == IF c.trailing_stop THEN c.trailing_stop_positive ELSE {}
        offset == IF trailing # {} /\ c.trailing_stop_positive_offset > 0
                  THEN {c.trailing_stop_positive_offset} ELSE {}
    IN [dry_run |-> dry_run,
        exchange |-> exchange,
        dry_run_wallet |-> c.dry_run_wallet,
        fee |-> IF dry_run
                THEN {IF exchange \in DOMAIN DryRunFee
                      THEN DryRunFee[exchange] ELSE DefaultDryRunFee}
                ELSE {},
        available_capital |-> IF dry_run THEN {} ELSE {LiveMaxCapital},
        stake_amount |-> c.stake_amount,
        max_open_trades |-> c.max_open_trades,
        stoploss |-> c.stoploss,
        minimal_roi |-> MinimalRoi(c.roi_table),
        timeframe |-> c.timeframe,
        trailing_stop |-> c.trailing_stop,
        trailing_stop_positive |-> trailing,
        trailing_stop_positive_offset |-> offset,
        trailing_only_offset_is_reached |-> offset # {},
        volume |-> IF c.pairlist_mode = "volume" THEN {c.volume_number_assets} ELSE {},
        pair_whitelist |-> IF c.pairlist_mode = "volume" THEN << >> ELSE c.pairs,
        initial_state |-> "stopped"]

(* The class named on the command line: the default when the key is unknown. *)
StrategyOf(c) == IF c.strategy \in Strategies THEN c.strategy ELSE DefaultStrategy

=============================================================================
