-------------------------- MODULE BotSettingsProofs --------------------------
(***************************************************************************)
(* What validation, its normal form and config.json have to do with each   *)
(* other, for any strategies, timeframes, pairs, limits and fees.          *)
(***************************************************************************)
EXTENDS BotSettings, FiniteSetTheorems, TLAPS

-----------------------------------------------------------------------------
(* The ROI steps in order.  A validated table has no two steps at the same  *)
(* minute, so a step's place is the number of steps before it.             *)

Ordered(table, t) ==
    /\ t \in [DOMAIN table -> Range(table)] /\ Range(t) = Range(table)
    /\ \A i, j \in DOMAIN t : i < j => t[i].minutes <= t[j].minutes

Rank(S, m) == Cardinality({x \in S : x < m}) + 1

LEMMA RankFacts ==
    ASSUME NEW S \in SUBSET Nat, IsFiniteSet(S)
    PROVE  /\ \A m \in S : Rank(S, m) \in 1..Cardinality(S)
           /\ \A m, n \in S : m < n => Rank(S, m) < Rank(S, n)
  <1> DEFINE Below(m) == {x \in S : x < m}
  <1>1. \A m \in S : IsFiniteSet(Below(m)) /\ Cardinality(Below(m)) \in Nat
    BY FS_Subset, FS_CardinalityType
  <1>2. Cardinality(S) \in Nat
    BY FS_CardinalityType
  <1>3. ASSUME NEW m \in S
        PROVE  Rank(S, m) \in 1..Cardinality(S)
    <2>1. Below(m) \in SUBSET S /\ m \notin Below(m)
      OBVIOUS
    <2>2. Cardinality(Below(m)) <= Cardinality(S) /\ Cardinality(Below(m)) # Cardinality(S)
      BY <2>1, FS_Subset
    <2>3. QED
      BY <1>1, <1>2, <2>2 DEF Rank
  <1>4. ASSUME NEW m \in S, NEW n \in S, m < n
        PROVE  Rank(S, m) < Rank(S, n)
    <2>1. Below(m) \in SUBSET Below(n) /\ m \in Below(n) /\ m \notin Below(m)
      <3>1. \A x \in S : x \in Int
        OBVIOUS
      <3>2. \A x \in S : x < m => x < n
        BY <1>4, <3>1
      <3>3. ~(m < m)
        BY <3>1
      <3>4. QED
        BY <1>4, <3>2, <3>3
    <2>2. /\ Cardinality(Below(m)) <= Cardinality(Below(n))
          /\ Cardinality(Below(m)) # Cardinality(Below(n))
      BY <1>1, <2>1, FS_Subset
    <2>3. QED
      BY <1>1, <2>2 DEF Rank
  <1>5. QED
    BY <1>3, <1>4

LEMMA RankIsOnto ==
    ASSUME NEW S \in SUBSET Nat, IsFiniteSet(S), NEW k \in 1..Cardinality(S)
    PROVE  \E m \in S : Rank(S, m) = k
  <1> DEFINE n == Cardinality(S)
             f == [m \in S |-> Rank(S, m)]
  <1>1. n \in Nat
    BY FS_CardinalityType
  <1>2. f \in [S -> 1..n]
    BY RankFacts
  <1>3. \A a, b \in S : f[a] = f[b] => a = b
    <2>1. SUFFICES ASSUME NEW a \in S, NEW b \in S, a # b
                   PROVE  f[a] # f[b]
      OBVIOUS
    <2>2. a < b \/ b < a
      <3>1. a \in Nat /\ b \in Nat
        OBVIOUS
      <3>2. QED
        BY <2>1, <3>1
    <2>3. f[a] < f[b] \/ f[b] < f[a]
      BY <2>2, RankFacts
    <2>4. QED
      BY <1>1, <1>2, <2>3
  <1>4. f \in Injection(S, 1..n)
    BY <1>2, <1>3 DEF Injection, IsInjective
  <1>5. IsFiniteSet(1..n) /\ Cardinality(1..n) = n
    BY <1>1, FS_Interval
  <1>6. f \in Surjection(S, 1..n)
    BY <1>4, <1>5, FS_Injection
  <1>7. QED
    BY <1>6 DEF Surjection

LEMMA SortedFacts ==
    ASSUME NEW table \in Seq(RoiSteps), ValidRoiTable(table)
    PROVE  Ordered(table, Sorted(table))
  <1> DEFINE n == Len(table)
             S == Minutes(table)
             min == [i \in 1..n |-> table[i].minutes]
  <1>1. n \in Nat /\ DOMAIN table = 1..n /\ \A i \in 1..n : table[i] \in RoiSteps
    OBVIOUS
  <1> HIDE DEF n
  <1>2. IsFiniteSet(1..n) /\ Cardinality(1..n) = n
    BY <1>1, FS_Interval
  <1>3. S \in SUBSET Nat /\ min \in Surjection(1..n, S)
    <2>1. \A i \in 1..n : table[i].minutes \in Nat
      BY <1>1 DEF RoiSteps
    <2>2. QED
      BY <1>1, <2>1 DEF Surjection, Minutes
  <1>4. min \in Injection(1..n, S)
    BY <1>1, <1>3 DEF ValidRoiTable, Injection, IsInjective, Surjection
  <1>5. IsFiniteSet(S) /\ Cardinality(S) = n
    BY <1>2, <1>3, <1>4, FS_Surjection
  <1>d. /\ \A m \in S : Rank(S, m) \in 1..n
        /\ \A m, k \in S : m < k => Rank(S, m) < Rank(S, k)
    BY <1>3, <1>5, RankFacts
  <1> DEFINE At(k) == CHOOSE s \in Range(table) : Rank(S, s.minutes) = k
             t == [k \in 1..n |-> At(k)]
  <1>6. ASSUME NEW k \in 1..n
        PROVE  \E s \in Range(table) : Rank(S, s.minutes) = k
    <2>1. PICK m \in S : Rank(S, m) = k
      BY <1>3, <1>5, <1>6, RankIsOnto
    <2>2. PICK i \in DOMAIN table : table[i].minutes = m
      BY DEF Minutes
    <2>3. QED
      BY <2>1, <2>2 DEF Range
  <1>7. \A k \in 1..n : t[k] \in Range(table) /\ Rank(S, t[k].minutes) = k
    BY <1>6, Zenon
  <1> HIDE DEF t
  <1>8. \A s \in Range(table) : s.minutes \in S
    BY DEF Range, Minutes
  <1>9. ASSUME NEW s \in Range(table)
        PROVE  \E k \in 1..n : t[k] = s
    <2> DEFINE k == Rank(S, s.minutes)
    <2>1. k \in 1..n
      BY <1>3, <1>5, <1>8, RankFacts
    <2>2. Rank(S, t[k].minutes) = Rank(S, s.minutes) /\ t[k] \in Range(table)
      BY <1>7, <2>1
    <2>3. t[k].minutes = s.minutes
      <3>1. t[k].minutes \in S /\ s.minutes \in S
        BY <1>8, <2>2
      <3>2. t[k].minutes \in Nat /\ s.minutes \in Nat
        BY <1>3, <3>1
      <3> HIDE DEF k, S
      <3>3. ~(t[k].minutes < s.minutes) /\ ~(s.minutes < t[k].minutes)
        BY <1>1, <1>d, <2>2, <3>1
      <3>4. QED
        BY <3>2, <3>3
    <2>4. t[k] = s
      BY <2>2, <2>3 DEF Range, ValidRoiTable
    <2>5. QED
      BY <2>1, <2>4
  <1>10. ASSUME NEW i \in 1..n, NEW j \in 1..n, i < j
         PROVE  t[i].minutes <= t[j].minutes
    <2>1. t[i].minutes \in S /\ t[j].minutes \in S
      BY <1>7, <1>8
    <2>2. t[i].minutes \in Nat /\ t[j].minutes \in Nat
      BY <1>3, <2>1
    <2>3. Rank(S, t[i].minutes) = i /\ Rank(S, t[j].minutes) = j
      BY <1>7
    <2> HIDE DEF S
    <2>4. ~(t[j].minutes < t[i].minutes)
      BY <1>1, <1>d, <1>10, <2>1, <2>3
    <2>5. QED
      BY <2>2, <2>4
  <1>11. DOMAIN t = 1..n
    BY DEF t
  <1>12. t \in [DOMAIN table -> Range(table)]
    BY <1>1, <1>7 DEF t
  <1>13. Range(t) = Range(table)
    BY <1>7, <1>9, <1>11 DEF Range
  <1>14. Ordered(table, t)
    BY <1>1, <1>10, <1>12, <1>13 DEF Ordered
  <1>15. QED
    BY <1>14, Zenon DEF Sorted, Ordered

-----------------------------------------------------------------------------
(* Validated settings. *)

LEMMA EffectiveFacts ==
    ASSUME NEW blob
    PROVE  /\ Effective(blob) = [k \in Fields |-> Effective(blob)[k]]
           /\ Effective(Effective(blob)) = Effective(blob)
  BY DEF Effective

LEMMA NormalisedFacts ==
    ASSUME NEW blob
    PROVE  Effective(Normalised(blob)) = Normalised(blob)
  <1>1. Effective(blob) = [k \in Fields |-> Effective(blob)[k]]
    BY DEF Effective
  <1>2. Normalised(blob) = [k \in Fields |-> Normalised(blob)[k]]
    BY <1>1 DEF Normalised
  <1>3. QED
    BY <1>2 DEF Effective

(* n is the normal form of the settings c. *)
NormalForm(c, n) ==
    /\ n = [k \in Fields |-> n[k]]
    /\ \A k \in Fields \ {"pairs", "roi_table", "stake_amount"} : n[k] = c[k]
    /\ n.pairs = IF c.pairlist_mode = "static"
                 THEN [i \in DOMAIN c.pairs |-> Spelling[c.pairs[i]]] ELSE c.pairs
    /\ n.roi_table = Sorted(c.roi_table)
    /\ n.stake_amount = [c.stake_amount EXCEPT !.kind = IF @ = "digits" THEN "number" ELSE @]

LEMMA NormalisedFields ==
    ASSUME NEW blob
    PROVE  NormalForm(Effective(blob), Normalised(blob))
  <1> DEFINE c == Effective(blob)
  <1>1. c = [k \in Fields |-> c[k]]
    BY EffectiveFacts
  <1>2. {"pairs", "roi_table", "stake_amount", "pairlist_mode"} \subseteq Fields
    BY DEF Fields, Defaults
  <1> HIDE DEF c
  <1>3. QED
    BY <1>1, <1>2 DEF Normalised, NormalForm, c

LEMMA SortedIsValid ==
    ASSUME NEW table \in Seq(RoiSteps), ValidRoiTable(table)
    PROVE  Sorted(table) \in Seq(RoiSteps) /\ ValidRoiTable(Sorted(table))
  <1> DEFINE t == Sorted(table)
             n == Len(table)
  <1>1. n \in Nat /\ DOMAIN table = 1..n /\ Range(table) \subseteq RoiSteps
    BY DEF Range
  <1>2. t \in [1..n -> Range(table)] /\ Range(t) = Range(table)
    BY <1>1, SortedFacts DEF Ordered
  <1> HIDE DEF t, n
  <1>3. DOMAIN t = 1..n /\ t \in Seq(RoiSteps) /\ Len(t) = n
    BY <1>1, <1>2
  <1>4. \A i \in 1..n : t[i] \in Range(table)
    BY <1>2
  <1>5. Minutes(t) = Minutes(table)
    <2>1. \A u : DOMAIN u = 1..n => Minutes(u) = {s.minutes : s \in Range(u)}
      BY DEF Minutes, Range
    <2>2. QED
      BY <1>1, <1>2, <1>3, <2>1
  <1>6. \A i \in 1..n : t[i].minutes >= 0 /\ t[i].roi \in 1..500
    <2>1. \A s \in Range(table) : s.minutes >= 0 /\ s.roi \in 1..500
      BY DEF ValidRoiTable, Range
    <2>2. QED
      BY <1>4, <2>1
  <1>7. \A i, j \in 1..n : t[i].minutes = t[j].minutes => i = j
    <2> DEFINE S == Minutes(table)
               f == [i \in 1..n |-> t[i].minutes]
               g == [i \in 1..n |-> table[i].minutes]
    <2>1. IsFiniteSet(1..n) /\ Cardinality(1..n) = n
      BY <1>1, FS_Interval
    <2>2. g \in Surjection(1..n, S) /\ g \in Injection(1..n, S)
      BY <1>1 DEF Surjection, Injection, IsInjective, Minutes, ValidRoiTable
    <2>3. IsFiniteSet(S) /\ Cardinality(S) = n
      BY <2>1, <2>2, FS_Surjection
    <2>4. f \in Surjection(1..n, S)
      <3>1. S = {t[i].minutes : i \in 1..n}
        BY <1>3, <1>5 DEF Minutes
      <3>2. QED
        BY <3>1 DEF Surjection
    <2>5. f \in Injection(1..n, S)
      BY <2>1, <2>3, <2>4, FS_Surjection
    <2>6. QED
      BY <2>5 DEF Injection, IsInjective
  <1>8. t # << >>
    BY <1>1, <1>3 DEF ValidRoiTable
  <1>9. ValidRoiTable(t)
    BY <1>3, <1>5, <1>6, <1>7, <1>8 DEF ValidRoiTable
  <1>10. QED
    BY <1>3, <1>9 DEF t

(* What validate stores is sound, whatever the upper case of a pair.        *)
LEMMA NormalisedIsSound ==
    ASSUME NEW blob, NEW dry_run \in BOOLEAN, Acceptable(blob, dry_run),
           HasLists(Effective(blob))
    PROVE  /\ Sound(Normalised(blob), dry_run)
           /\ HasLists(Effective(Normalised(blob)))
  <1> DEFINE c == Effective(blob)
             n == Normalised(blob)
  <1>1. Effective(n) = n
    BY NormalisedFacts
  <1>2. /\ n.strategy = c.strategy /\ n.pairlist_mode = c.pairlist_mode
        /\ n.volume_number_assets = c.volume_number_assets
        /\ n.max_open_trades = c.max_open_trades /\ n.stoploss = c.stoploss
        /\ n.timeframe = c.timeframe /\ n.dry_run_wallet = c.dry_run_wallet
        /\ n.trailing_stop_positive = c.trailing_stop_positive
        /\ n.trailing_stop_positive_offset = c.trailing_stop_positive_offset
    <2>1. \A k \in Fields \ {"pairs", "roi_table", "stake_amount"} : n[k] = c[k]
      BY NormalisedFields DEF NormalForm
    <2> HIDE DEF n, c
    <2>2. QED
      BY <2>1 DEF Fields, Defaults
  <1>3. n.roi_table \in Seq(RoiSteps) /\ ValidRoiTable(n.roi_table)
    <2>1. ValidRoiTable(c.roi_table) /\ c.roi_table \in Seq(RoiSteps)
      BY DEF Acceptable, Sound, HasLists, FieldValues
    <2>2. n.roi_table = Sorted(c.roi_table)
      BY NormalisedFields DEF NormalForm
    <2>3. QED
      BY <2>1, <2>2, SortedIsValid
  <1>4. ValidPairlist(n) /\ n.pairs \in Seq(STRING)
    <2>1. ValidPairlist(c) /\ WellFormedPairs(c) /\ c.pairs \in Seq(STRING)
      BY DEF Acceptable, Sound, HasLists, FieldValues
    <2>2. CASE c.pairlist_mode = "volume"
      <3>1. n.pairs = c.pairs
        BY <2>2, NormalisedFields DEF NormalForm
      <3>2. QED
        BY <1>2, <2>1, <2>2, <3>1 DEF ValidPairlist
    <2>3. CASE c.pairlist_mode = "static"
      <3>1. /\ n.pairs = [i \in DOMAIN c.pairs |-> Spelling[c.pairs[i]]]
            /\ c.pairs # << >> /\ Range(c.pairs) \subseteq DOMAIN Spelling
        BY <2>1, <2>3, NormalisedFields DEF NormalForm, ValidPairlist, WellFormedPairs
      <3> DEFINE s == c.pairs
                 u == [i \in DOMAIN s |-> Spelling[s[i]]]
      <3>2. \A i \in DOMAIN s : Spelling[s[i]] \in STRING
        BY <3>1, SpellingAssumption DEF Range
      <3>3. Len(s) \in Nat \ {0} /\ DOMAIN s = 1..Len(s)
        BY <2>1, <3>1
      <3> HIDE DEF s
      <3>4. u \in Seq(STRING) /\ u # << >>
        <4>1. u \in [1..Len(s) -> STRING]
          BY <3>2, <3>3
        <4> HIDE DEF u
        <4>2. QED
          BY <3>3, <4>1
      <3>5. n.pairs = u
        BY <3>1 DEF s
      <3>6. QED
        BY <1>2, <2>3, <3>4, <3>5 DEF ValidPairlist
    <2>4. QED
      BY <2>1, <2>2, <2>3 DEF ValidPairlist
  <1>5. /\ ValidStake(n.stake_amount) /\ n.stake_amount.amount = c.stake_amount.amount
        /\ n.stake_amount.kind = "unlimited" => c.stake_amount.kind = "unlimited"
    <2>1. n.stake_amount = [c.stake_amount EXCEPT !.kind = IF @ = "digits" THEN "number" ELSE @]
      BY NormalisedFields DEF NormalForm
    <2>2. ValidStake(c.stake_amount)
      BY DEF Acceptable, Sound
    <2>3. QED
      BY <2>1, <2>2 DEF ValidStake
  <1>6. ValidTrailing(n)
    BY <1>2 DEF Acceptable, Sound, ValidTrailing
  <1>7. ~dry_run => WithinLiveLimits(n)
    BY <1>2, <1>5 DEF Acceptable, Sound, WithinLiveLimits
  <1>8. QED
    BY <1>1, <1>2, <1>3, <1>4, <1>5, <1>6, <1>7 DEF Acceptable, Sound, HasLists, FieldValues

(* Upper-casing leaves every pair one that _is_pair takes for a pair.       *)
UpperCasePairs(c) ==
    c.pairlist_mode = "static" => \A p \in Range(c.pairs) : Spelling[p] \in DOMAIN Spelling

(* What validate stores it accepts again, for a live launch too, exactly if *)
(* the upper case of every pair is a pair: of all it changes, upper() alone *)
(* may make the gate of provision_bot refuse what update_config stored.    *)
THEOREM NormalisedIsAcceptable ==
    ASSUME NEW blob, NEW dry_run \in BOOLEAN, Acceptable(blob, dry_run),
           HasLists(Effective(blob))
    PROVE  Acceptable(Normalised(blob), dry_run) <=> UpperCasePairs(Effective(blob))
  <1> DEFINE c == Effective(blob)
             n == Normalised(blob)
  <1>1. Sound(n, dry_run) /\ Effective(n) = n
    BY NormalisedIsSound, NormalisedFacts
  <1>2. /\ n.pairlist_mode = c.pairlist_mode
        /\ c.pairlist_mode = "static" =>
              n.pairs = [i \in DOMAIN c.pairs |-> Spelling[c.pairs[i]]]
    <2>1. NormalForm(c, n)
      BY NormalisedFields
    <2> HIDE DEF c, n
    <2>2. "pairlist_mode" \in Fields
      BY DEF Fields, Defaults
    <2>3. QED
      BY <2>1, <2>2 DEF NormalForm
  <1> HIDE DEF c, n
  <1>3. WellFormedPairs(n) <=> UpperCasePairs(c)
    <2>1. CASE c.pairlist_mode = "static"
      <3> DEFINE u == [i \in DOMAIN c.pairs |-> Spelling[c.pairs[i]]]
      <3>1. DOMAIN u = DOMAIN c.pairs /\ \A i \in DOMAIN u : u[i] = Spelling[c.pairs[i]]
        OBVIOUS
      <3>2. n.pairs = u
        BY <1>2, <2>1
      <3> HIDE DEF u
      <3>3. Range(u) = {Spelling[p] : p \in Range(c.pairs)}
        BY <3>1 DEF Range
      <3>4. QED
        BY <1>2, <2>1, <3>2, <3>3 DEF WellFormedPairs, UpperCasePairs
    <2>2. QED
      BY <1>2, <2>1 DEF WellFormedPairs, UpperCasePairs
  <1>4. QED
    BY <1>1, <1>3 DEF Acceptable, c, n

LEMMA SortedAgain ==
    ASSUME NEW table \in Seq(RoiSteps), ValidRoiTable(table)
    PROVE  Sorted(Sorted(table)) = Sorted(table)
  <1> DEFINE t == Sorted(table)
  <1>1. DOMAIN t = DOMAIN table /\ Range(t) = Range(table)
    BY SortedFacts DEF Ordered
  <1> HIDE DEF t
  <1>2. Sorted(t) = Sorted(table)
    BY <1>1 DEF Sorted
  <1>3. QED
    BY <1>2 DEF t

(* Saving settings that were saved before changes nothing, if the upper     *)
(* case of every pair is a pair: update_config accepts them, finds no field *)
(* changed and does not touch the container.                               *)
THEOREM SavedAgainChangesNothing ==
    ASSUME NEW blob, NEW dry_run \in BOOLEAN, Acceptable(blob, dry_run),
           HasLists(Effective(blob)), UpperCasePairs(Effective(blob))
    PROVE  LET current == Effective(Normalised(blob))
               merged == Overlaid(current, [k \in {} |-> 0])
           IN Acceptable(merged, dry_run) /\ Normalised(merged) = current
  <1> DEFINE c == Effective(blob)
             n == Normalised(blob)
             m == Normalised(n)
  <1>1. Effective(n) = n
    BY NormalisedFacts
  <1>forms. NormalForm(c, n) /\ NormalForm(n, m)
    <2>1. NormalForm(Effective(n), Normalised(n))
      BY NormalisedFields
    <2>2. QED
      BY <1>1, <2>1, NormalisedFields
  <1>2. Overlaid(n, [k \in {} |-> 0]) = n
    <2>1. n = [k \in Fields |-> n[k]]
      BY <1>forms DEF NormalForm
    <2> HIDE DEF n
    <2>2. QED
      BY <2>1 DEF Overlaid
  <1>3. n = [k \in Fields |-> n[k]] /\ m = [k \in Fields |-> m[k]]
    BY <1>forms DEF NormalForm
  <1>4. \A k \in Fields \ {"pairs", "roi_table", "stake_amount"} : m[k] = n[k]
    BY <1>forms DEF NormalForm
  <1>5. m.roi_table = n.roi_table
    <2>1. m.roi_table = Sorted(n.roi_table) /\ n.roi_table = Sorted(c.roi_table)
      BY <1>forms DEF NormalForm
    <2>2. c.roi_table \in Seq(RoiSteps) /\ ValidRoiTable(c.roi_table)
      BY DEF Acceptable, Sound, HasLists, FieldValues
    <2>3. QED
      BY <2>1, <2>2, SortedAgain
  <1>6. m.stake_amount = n.stake_amount
    <2>1. /\ m.stake_amount = [n.stake_amount EXCEPT !.kind = IF @ = "digits" THEN "number" ELSE @]
          /\ n.stake_amount = [c.stake_amount EXCEPT !.kind = IF @ = "digits" THEN "number" ELSE @]
      BY <1>forms DEF NormalForm
    <2> HIDE DEF m, n, c
    <2>2. QED
      BY <2>1
  <1>7. m.pairs = n.pairs
    <2>1. /\ m.pairs = IF n.pairlist_mode = "static"
                       THEN [i \in DOMAIN n.pairs |-> Spelling[n.pairs[i]]] ELSE n.pairs
          /\ n.pairs = IF c.pairlist_mode = "static"
                       THEN [i \in DOMAIN c.pairs |-> Spelling[c.pairs[i]]] ELSE c.pairs
      BY <1>forms DEF NormalForm
    <2>2. n.pairlist_mode = c.pairlist_mode
      <3>1. \A k \in Fields \ {"pairs", "roi_table", "stake_amount"} : n[k] = c[k]
        BY <1>forms DEF NormalForm
      <3> HIDE DEF n, c
      <3>2. QED
        BY <3>1 DEF Fields, Defaults
    <2>3. c.pairlist_mode = "static" =>
             \A p \in Range(c.pairs) : p \in DOMAIN Spelling /\ Spelling[p] \in DOMAIN Spelling
      BY DEF Acceptable, WellFormedPairs, UpperCasePairs
    <2> HIDE DEF m, n, c
    <2>4. CASE c.pairlist_mode = "static"
      <3>1. \A i \in DOMAIN c.pairs : Spelling[Spelling[c.pairs[i]]] = Spelling[c.pairs[i]]
        BY <2>3, <2>4, SpellingAssumption DEF Range
      <3>2. QED
        BY <2>1, <2>2, <2>4, <3>1
    <2>5. QED
      BY <2>1, <2>2, <2>4
  <1>a. Acceptable(n, dry_run)
    BY NormalisedIsAcceptable
  <1> HIDE DEF m, n
  <1>8. \A k \in Fields : m[k] = n[k]
    BY <1>4, <1>5, <1>6, <1>7
  <1>9. m = n
    BY <1>3, <1>8
  <1>10. QED
    BY <1>1, <1>2, <1>9, <1>a DEF m, n

(* The settings of a bot that has none stored are accepted in dry run.      *)
LEMMA DefaultsAreAcceptable ==
    /\ Acceptable([k \in {} |-> 0], TRUE)
    /\ HasLists(Effective([k \in {} |-> 0]))
  <1> DEFINE none == [k \in {} |-> 0]
             c == Effective(none)
  <1>1. c = Defaults
    BY DEF Effective, Upgraded, Fields, Defaults
  <1> HIDE DEF c
  <1>2. /\ c.pairs = DefaultPairs /\ c.roi_table = OneStep(10) /\ c.strategy = DefaultStrategy
        /\ c.pairlist_mode = "static" /\ c.stake_amount.kind = "unlimited"
        /\ c.max_open_trades = 3 /\ c.stoploss = -10 /\ c.timeframe = DefaultTimeframe
        /\ c.trailing_stop_positive = {} /\ c.trailing_stop_positive_offset = 0
        /\ c.dry_run_wallet = 1000
    BY <1>1 DEF Defaults, Unlimited
  <1>3. OneStep(10) \in Seq(RoiSteps) /\ ValidRoiTable(OneStep(10))
    BY DEF OneStep, RoiSteps, ValidRoiTable, Minutes
  <1>4. DefaultPairs \in Seq(STRING) /\ DefaultPairs # << >>
        /\ Range(DefaultPairs) \subseteq DOMAIN Spelling
    BY DefaultsAssumption, SpellingAssumption DEF Range
  <1>5. HasLists(c)
    BY <1>2, <1>3, <1>4 DEF HasLists, FieldValues
  <1>6. ValidPairlist(c) /\ WellFormedPairs(c)
    BY <1>2, <1>4 DEF ValidPairlist, WellFormedPairs
  <1>7. Acceptable(none, TRUE)
    <2>1. /\ c.strategy \in Strategies /\ ValidRoiTable(c.roi_table) /\ c.timeframe \in Timeframes
          /\ ValidStake(c.stake_amount) /\ c.max_open_trades \in 1..50
          /\ -99 < c.stoploss /\ c.stoploss < 0 /\ c.dry_run_wallet > 0
      BY <1>2, <1>3, DefaultsAssumption DEF ValidStake
    <2>2. ValidTrailing(c)
      BY <1>2 DEF ValidTrailing
    <2>3. QED
      BY <1>6, <2>1, <2>2 DEF Acceptable, Sound, c
  <1>8. QED
    BY <1>5, <1>7 DEF c

(* A payload over settings with lists has lists.                            *)
LEMMA OverlaidFacts ==
    ASSUME NEW current, HasLists(current), NEW payload, BotConfigIn(payload)
    PROVE  /\ Effective(Overlaid(current, payload)) = Overlaid(current, payload)
           /\ HasLists(Overlaid(current, payload))
  <1>1. \A k \in Fields : Overlaid(current, payload)[k]
                           = IF k \in DOMAIN payload THEN payload[k] ELSE current[k]
    BY DEF Overlaid
  <1>2. {"pairs", "roi_table"} \subseteq Fields
    BY DEF Fields, Defaults
  <1>3. Effective(Overlaid(current, payload)) = Overlaid(current, payload)
    BY DEF Effective, Overlaid
  <1>4. QED
    BY <1>1, <1>2, <1>3 DEF HasLists, BotConfigIn

=============================================================================
