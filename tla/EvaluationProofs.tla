-------------------------- MODULE EvaluationProofs --------------------------
(***************************************************************************)
(* What the evaluation of the ratings guarantees for any set of pairs and  *)
(* any ratings.                                                            *)
(***************************************************************************)
EXTENDS Evaluation, FiniteSetTheorems, TLAPS

(* Every pair has a rating or none. *)
Quoted(pairs, value) == \A p \in pairs : value[p] \in Int \cup {Missing}

(* The pairs of a kind are a part of the pairs, and can be counted.        *)
LEMMA CountedFacts ==
    ASSUME NEW pairs, IsFiniteSet(pairs), NEW value, Quoted(pairs, value), NEW kind
    PROVE  /\ Counted(pairs, value, kind) \subseteq pairs
           /\ IsFiniteSet(Counted(pairs, value, kind))
           /\ Cardinality(Counted(pairs, value, kind)) \in Nat
           /\ Cardinality(Counted(pairs, value, kind)) <= Cardinality(pairs)
           /\ Cardinality(Counted(pairs, value, kind)) > 0
                <=> \E p \in pairs : Rated(value[p]) = kind
           /\ Cardinality(Counted(pairs, value, kind)) = Cardinality(pairs)
                <=> \A p \in pairs : Rated(value[p]) = kind
           /\ Cardinality(pairs) \in Nat
           /\ Cardinality(pairs) = 0 <=> pairs = {}
  <1> DEFINE S == Counted(pairs, value, kind)
  <1>1. /\ S \subseteq pairs /\ (S = pairs <=> \A p \in pairs : Rated(value[p]) = kind)
        /\ S # {} <=> \E p \in pairs : Rated(value[p]) = kind
    BY DEF Counted
  <1> HIDE DEF S
  <1>2. /\ IsFiniteSet(S) /\ Cardinality(S) <= Cardinality(pairs)
        /\ Cardinality(pairs) = Cardinality(S) => pairs = S
    BY <1>1, FS_Subset
  <1>3. Cardinality(S) \in Nat /\ Cardinality(pairs) \in Nat
    BY <1>2, FS_CardinalityType
  <1>4. (Cardinality(S) = 0 <=> S = {}) /\ (Cardinality(pairs) = 0 <=> pairs = {})
    BY <1>2, FS_EmptySet
  <1>5. Cardinality(S) > 0 <=> S # {}
    BY <1>3, <1>4
  <1>6. QED
    BY <1>1, <1>2, <1>3, <1>4, <1>5 DEF S

(* A rating is of exactly one kind.                                        *)
LEMMA RatedFacts ==
    ASSUME NEW v \in Int \cup {Missing}
    PROVE  /\ Rated(v) = "missing" <=> v = Missing
           /\ Rated(v) = "buy" <=> v # Missing /\ v >= 1
           /\ Rated(v) = "sell" <=> v # Missing /\ v <= -1
  BY MissingAssumption DEF Rated

(* Entries are to be paused exactly when the bot has pairs and every one   *)
(* of them is rated, and rated to sell.                                    *)
THEOREM PausesWhenAllSell ==
    ASSUME NEW pairs, IsFiniteSet(pairs), NEW value, Quoted(pairs, value)
    PROVE  Verdict(pairs, value) = "all_sell"
             <=> pairs # {} /\ \A p \in pairs : value[p] # Missing /\ value[p] <= -1
  <1> DEFINE count(kind) == Cardinality(Counted(pairs, value, kind))
  <1>1. \A p \in pairs : value[p] \in Int \cup {Missing}
    BY DEF Quoted
  <1>2. /\ count("missing") > 0 <=> \E p \in pairs : Rated(value[p]) = "missing"
        /\ count("sell") = Cardinality(pairs) <=> \A p \in pairs : Rated(value[p]) = "sell"
    BY CountedFacts
  <1>3. Verdict(pairs, value) = "all_sell"
          <=> pairs # {} /\ ~(count("missing") > 0) /\ count("sell") = Cardinality(pairs)
    BY DEF Verdict
  <1>4. \A p \in pairs :
          /\ Rated(value[p]) = "missing" <=> value[p] = Missing
          /\ Rated(value[p]) = "sell" <=> value[p] # Missing /\ value[p] <= -1
    BY <1>1, RatedFacts
  <1>5. /\ count("missing") > 0 <=> \E p \in pairs : value[p] = Missing
        /\ count("sell") = Cardinality(pairs)
             <=> \A p \in pairs : value[p] # Missing /\ value[p] <= -1
    BY <1>2, <1>4
  <1> HIDE DEF count
  <1>6. QED
    BY <1>3, <1>5

(* Entries are to be released exactly when every pair is rated and more    *)
(* than half of all the pairs, the neutral ones included, are rated to buy.*)
THEOREM ReleasesWhenMostBuy ==
    ASSUME NEW pairs, IsFiniteSet(pairs), NEW value, Quoted(pairs, value)
    PROVE  Verdict(pairs, value) = "majority_buy"
             <=> /\ \A p \in pairs : value[p] # Missing
                 /\ 2 * Cardinality({p \in pairs : value[p] # Missing /\ value[p] >= 1})
                      > Cardinality(pairs)
  <1> DEFINE count(kind) == Cardinality(Counted(pairs, value, kind))
  <1>1. \A p \in pairs : value[p] \in Int \cup {Missing}
    BY DEF Quoted
  <1>2. /\ count("missing") > 0 <=> \E p \in pairs : Rated(value[p]) = "missing"
        /\ count("sell") = Cardinality(pairs) <=> \A p \in pairs : Rated(value[p]) = "sell"
        /\ count("buy") > 0 <=> \E p \in pairs : Rated(value[p]) = "buy"
        /\ count("buy") \in Nat /\ Cardinality(pairs) \in Nat
        /\ Cardinality(pairs) = 0 <=> pairs = {}
        /\ count("buy") <= Cardinality(pairs)
    BY CountedFacts
  <1>3. Counted(pairs, value, "buy") = {p \in pairs : value[p] # Missing /\ value[p] >= 1}
    BY <1>1, RatedFacts DEF Counted
  <1>4. Verdict(pairs, value) = "majority_buy"
          <=> /\ pairs # {} /\ ~(count("missing") > 0)
              /\ count("sell") # Cardinality(pairs) /\ 2 * count("buy") > Cardinality(pairs)
    BY DEF Verdict
  <1>5. count("missing") > 0 <=> \E p \in pairs : value[p] = Missing
    BY <1>1, <1>2, RatedFacts
  <1>6. 2 * count("buy") > Cardinality(pairs) => pairs # {} /\ count("sell") # Cardinality(pairs)
    <2> SUFFICES ASSUME 2 * count("buy") > Cardinality(pairs)
                 PROVE  pairs # {} /\ count("sell") # Cardinality(pairs)
      OBVIOUS
    <2> HIDE DEF count
    <2>1. count("buy") > 0
      BY <1>2
    <2>2. PICK p \in pairs : Rated(value[p]) = "buy"
      BY <1>2, <2>1
    <2>3. QED
      BY <1>2, <2>2
  <1>7. count("buy") = Cardinality({p \in pairs : value[p] # Missing /\ value[p] >= 1})
    BY <1>3
  <1> HIDE DEF count
  <1>8. QED
    BY <1>4, <1>5, <1>6, <1>7

(* A bot without pairs, or with an unrated one, keeps its decision.        *)
THEOREM MissingDataKeepsDecision ==
    ASSUME NEW pairs, IsFiniteSet(pairs), NEW value, Quoted(pairs, value), NEW paused \in BOOLEAN,
           pairs = {} \/ \E p \in pairs : value[p] = Missing
    PROVE  Decided(paused, Verdict(pairs, value)) = paused
  <1>1. pairs = {} \/ Cardinality(Counted(pairs, value, "missing")) > 0
    <2>1. \A p \in pairs : value[p] = Missing => Rated(value[p]) = "missing"
      BY DEF Rated
    <2>2. pairs = {} \/ \E p \in pairs : Rated(value[p]) = "missing"
      BY <2>1
    <2>3. QED
      BY <2>2, CountedFacts
  <1>2. Verdict(pairs, value) = "missing_data"
    BY <1>1 DEF Verdict
  <1>3. QED
    BY <1>2 DEF Decided

(* "No missing value or neutral coin may reduce the majority denominator": *)
(* a pair that is not rated to buy never makes a majority.                 *)
THEOREM DenominatorKept ==
    ASSUME NEW pairs, IsFiniteSet(pairs), NEW q, q \notin pairs,
           NEW value, Quoted(pairs \cup {q}, value),
           value[q] = Missing \/ value[q] < 1,
           Verdict(pairs \cup {q}, value) = "majority_buy"
    PROVE  Verdict(pairs, value) = "majority_buy"
  <1> DEFINE all == pairs \cup {q}
             buys(S) == {p \in S : value[p] # Missing /\ value[p] >= 1}
  <1>1. IsFiniteSet(all) /\ Cardinality(all) = Cardinality(pairs) + 1
    BY FS_AddElement
  <1>2. buys(all) = buys(pairs) /\ Quoted(pairs, value)
    BY MissingAssumption DEF Quoted
  <1>3. /\ \A p \in all : value[p] # Missing
        /\ 2 * Cardinality(buys(all)) > Cardinality(all)
    BY <1>1, ReleasesWhenMostBuy
  <1>4. Cardinality(buys(pairs)) \in Nat /\ Cardinality(pairs) \in Nat
    BY FS_Subset, FS_CardinalityType
  <1>5. 2 * Cardinality(buys(pairs)) > Cardinality(pairs)
    <2> HIDE DEF buys, all
    <2>1. QED
      BY <1>1, <1>2, <1>3, <1>4
  <1>6. QED
    BY <1>2, <1>3, <1>5, ReleasesWhenMostBuy

(* The two decisions are far apart: from a pause to its release the        *)
(* ratings of more than half of the pairs have changed.                    *)
THEOREM DecisionsFarApart ==
    ASSUME NEW pairs, IsFiniteSet(pairs),
           NEW before, NEW after, Quoted(pairs, before), Quoted(pairs, after),
           Verdict(pairs, before) = "all_sell", Verdict(pairs, after) = "majority_buy"
    PROVE  2 * Cardinality({p \in pairs : before[p] # after[p]}) > Cardinality(pairs)
  <1> DEFINE changed == {p \in pairs : before[p] # after[p]}
             buys == {p \in pairs : after[p] # Missing /\ after[p] >= 1}
  <1>1. \A p \in pairs : before[p] \in Int /\ before[p] <= -1
    BY PausesWhenAllSell DEF Quoted
  <1>2. 2 * Cardinality(buys) > Cardinality(pairs)
    BY ReleasesWhenMostBuy
  <1>3. buys \subseteq changed
    BY <1>1
  <1>4. IsFiniteSet(changed)
    BY FS_Subset
  <1>5. Cardinality(buys) <= Cardinality(changed) /\ IsFiniteSet(buys)
    BY <1>3, <1>4, FS_Subset
  <1>6. Cardinality(buys) \in Nat /\ Cardinality(changed) \in Nat /\ Cardinality(pairs) \in Nat
    BY <1>4, <1>5, FS_CardinalityType
  <1> HIDE DEF changed, buys
  <1>7. 2 * Cardinality(changed) > Cardinality(pairs)
    BY <1>2, <1>5, <1>6
  <1>8. QED
    BY <1>7 DEF changed

=============================================================================
